----------------------- MODULE NativeExecutor_proofs -----------------------
(***************************************************************************)
(* What holds of the executor for every set of transactions, planned or    *)
(* recorded, valid or not, and every set of paths: first what each row and *)
(* file can count on wherever it stops, then what it makes of a whole      *)
(* plan: the rows it takes away and brings in, the order in which it does  *)
(* so, and the disk it leaves behind.                                      *)
(***************************************************************************)
EXTENDS NativeExecutor, FiniteSetTheorems, SequenceTheorems, NaturalsInduction,
        WellFoundedInduction, TLAPS

\* The steps within one item, those that deal with a victim, and those after
\* the new row was written.
Erasing == {"preun", "unlink", "postun", "eraseRow"}
Written == {"post", "priors"} \cup Erasing
Working == {"pre", "files"} \cup Written

\* Past the checks the order is a permutation, within an item the iterator
\* stands on it, and within an erase the victim is a row.
PlanSettled ==
    /\ pc \notin {"validate", "prevalidate", "end"} =>
          IsPermutation(txn.order, Len(txn.items))
    /\ pc \in Working => pos <= Len(txn.order)
    /\ pc \in Erasing => victim \in Known

\* Nothing is being erased outside of an erase, and nothing replaced outside of
\* an item; what is replaced was there before the transaction.  No file is in
\* hand outside of the installer.
VictimsInErase ==
    /\ pc \notin Erasing \cup {"end"} => victim = 0
    /\ pc \notin Working \cup {"end"} => repl = 0
    /\ repl <= Len(txn.db)
    /\ pc \notin {"files", "end"} => hand = {}

\* Every row but the victim's is an active package, so that its files are kept.
RowsAreActive ==
    ~NoDb /\ pc \notin {"validate", "end"} => rows \subseteq active \cup {victim}

\* The commit of the new row took the replaced one away.
ReplacedRowGone == ~NoDb /\ pc \in Written => repl \notin rows

\* The installer leaves every file behind it on disk, but for the one it is
\* replacing.
InstalledSoFar ==
    ~JustDb /\ pc = "files" =>
        \A path \in Item.pkg.files \ (todo \cup hand) : disk[path] # 0

-----------------------------------------------------------------------------
\* A transaction has the shape that TxnsAssumption gives it.
LEMMA TxnShape ==
    ASSUME TypeOK
    PROVE  /\ txn.db \in Seq(Packages) /\ txn.items \in Seq(Items)
           /\ txn.order \in Seq(Nat)
  BY TxnsAssumption DEF TypeOK

\* The lengths of its lists, for arithmetic.
LEMMA Lengths ==
    ASSUME TypeOK
    PROVE  Len(txn.db) \in Nat /\ Len(txn.items) \in Nat /\ Len(txn.order) \in Nat
  BY TxnShape

\* Old rows come first, new rows after them (plain arithmetic).
LEMMA Numbering ==
    ASSUME NEW m \in Nat, NEW n \in Nat
    PROVE  /\ \A h \in 1..(m + n) : h \notin 1..m => h - m \in 1..n
           /\ \A i \in 1..n : m + i \in 1..(m + n) /\ m + i \notin 1..m /\ m + i > m
                          /\ m + i \in Nat
  OBVIOUS

\* PkgOf looks up a package for every known row, so its files are paths.
LEMMA KnownPackages ==
    ASSUME TypeOK, NEW h \in Known
    PROVE  FilesOf(h) \subseteq Paths
<1>1. PkgOf(txn, h) \in Packages
  <2>1. CASE h \in Indices(txn.db)
    BY <2>1, TxnShape DEF PkgOf, Indices
  <2>2. CASE h \notin Indices(txn.db)
    <3>1. h - Len(txn.db) \in 1..Len(txn.items)
      BY <2>2, Lengths, Numbering, Zenon DEF Known, Indices
    <3>2. txn.items[h - Len(txn.db)] \in Items
      BY <3>1, TxnShape
    <3> QED BY <2>2, <3>2 DEF PkgOf, Items
  <2> QED BY <2>1, <2>2
<1> QED BY <1>1 DEF FilesOf, Packages

\* While an item is processed it is one of the transaction's, its package gets a
\* new row, and PkgOf finds the package under that row.
LEMMA CurrentItem ==
    ASSUME TypeOK, IsPermutation(txn.order, Len(txn.items)), pos <= Len(txn.order)
    PROVE  /\ Item \in Items /\ txn.order[pos] \in ItemIds(txn)
           /\ ItemHnum \in Known /\ ItemHnum > Len(txn.db) /\ ItemHnum \in Nat
           /\ FilesOf(ItemHnum) = Item.pkg.files
<1>1. txn.order[pos] \in 1..Len(txn.items)
  BY Lengths DEF TypeOK, Hnums, IsPermutation
<1>2. Item \in Items
  BY <1>1, TxnShape DEF Item
<1>3. ItemHnum \in Known /\ ItemHnum > Len(txn.db) /\ ItemHnum \in Nat
  BY <1>1, Lengths, Numbering, Zenon DEF ItemHnum, NewHnum, Known
<1>4. ItemHnum \notin Indices(txn.db) /\ ItemHnum - Len(txn.db) = txn.order[pos]
  BY <1>1, Lengths DEF ItemHnum, NewHnum, Indices
<1>5. FilesOf(ItemHnum) = Item.pkg.files
  BY <1>4 DEF FilesOf, PkgOf, Item
<1> QED BY <1>1, <1>2, <1>3, <1>5 DEF ItemIds, Indices

\* A set of numbers that is not empty has a least one.
LEMMA SmallestIndex ==
    ASSUME NEW S \in SUBSET Nat, S # {}
    PROVE  \E k \in S : \A j \in S : k <= j
<1> PICK n \in S : TRUE
  OBVIOUS
<1>1. IsWellFoundedOn(OpToRel(<, Nat), Nat)
  BY NatLessThanWellFounded
<1>2. PICK k \in S : \A j \in S : ~(<<j, k>> \in OpToRel(<, Nat))
  BY <1>1, WFMin
<1>3. ASSUME NEW j \in S PROVE k <= j
  <2>1. <<j, k>> \notin {ss \in Nat \X Nat : ss[1] < ss[2]}
    BY <1>2, Zenon DEF OpToRel
  <2>2. <<j, k>> \in Nat \X Nat
    OBVIOUS
  <2>3. ~(j < k)
    BY <2>1, <2>2
  <2> QED BY <2>3
<1> QED BY <1>3

\* The row that selectReplacementPriorIndex picks is one of the old rows.
LEMMA ReplacementIsOld ==
    ASSUME TypeOK, SelectionValid
    PROVE  Replacement \in Nat /\ Replacement <= Len(txn.db)
<1>1. \A k \in Indices(ItemPriors) :
         ItemPriors[k].hnum \in Nat /\ ItemPriors[k].hnum <= Len(txn.db)
  BY Lengths DEF SelectionValid, Indices
<1>2. CASE Replaces(Item)
  <2>1. 1 \in Indices(ItemPriors)
    BY <1>2 DEF SelectionValid, Indices
  <2> QED BY <1>1, <1>2, <2>1 DEF Replacement
<1>3. CASE ~Replaces(Item) /\ Replaceable = {}
  BY <1>3, Lengths DEF Replacement
<1>4. CASE ~Replaces(Item) /\ Replaceable # {}
  <2> DEFINE first == CHOOSE k \in Replaceable : \A j \in Replaceable : k <= j
  <2>1. Replaceable \subseteq Indices(ItemPriors) /\ Indices(ItemPriors) \subseteq Nat
    BY DEF Replaceable, Indices
  <2>2. \E k \in Replaceable : \A j \in Replaceable : k <= j
    BY <1>4, <2>1, SmallestIndex
  <2>3. first \in Replaceable
    BY <2>2, Zenon
  <2> HIDE DEF first
  <2>4. Replacement = ItemPriors[first].hnum
    BY <1>4, Zenon DEF Replacement, first
  <2> QED BY <1>1, <2>1, <2>3, <2>4
<1> QED BY <1>2, <1>3, <1>4

-----------------------------------------------------------------------------
(* Type correctness                                                        *)

\* The transaction stays what it is, and with it all that is computed from it.
TypeInv == TypeOK /\ PlanSettled

\* The first state has the types: the rows are those of the database.
LEMMA InitTypes == Init => TypeInv
<1> SUFFICES ASSUME Init PROVE TypeInv
  OBVIOUS
<1>1. txn.db \in Seq(Packages) /\ txn.items \in Seq(Items)
  BY TxnsAssumption DEF Init, Start
<1>2. Len(txn.db) \in Nat /\ Len(txn.items) \in Nat
  BY <1>1
<1>3. Indices(txn.db) \subseteq Known
  <2>1. \A m, n \in Nat : 1..m \subseteq 1..(m + n)
    OBVIOUS
  <2> QED BY <1>2, <2>1, Zenon DEF Indices, Known
<1>4. Indices(txn.db) \subseteq Nat
  BY DEF Indices
<1>5. InitialDisk(txn) \in [Paths -> Nat]
  <2>1. \A path : Owners(txn, path) # {} =>
           (CHOOSE h \in Owners(txn, path) : TRUE) \in Nat
    BY <1>4 DEF Owners
  <2> QED BY <2>1 DEF InitialDisk
<1>6. TypeOK
  BY <1>3, <1>5 DEF Init, Start, TypeOK, Fallible, Hnums
<1>7. PlanSettled
  BY DEF Init, Start, PlanSettled, Working, Written, Erasing
<1> QED BY <1>6, <1>7 DEF TypeInv

\* Returning to the caller keeps every invariant: only pc and rc change.
LEMMA FinishTypes ==
    ASSUME TypeInv, NEW o \in {"ok", "invalid", "mismatch", "failed", "crashed"},
           Finish(o)
    PROVE  TypeInv'
  BY DEF TypeInv, TypeOK, PlanSettled, Finish, viewVars, stateVars, Known,
         Working, Written, Erasing, ItemIds, Indices

\* Completing an item leaves the iterator behind it.
LEMMA CompleteTypes ==
    ASSUME TypeInv, IsPermutation(txn.order, Len(txn.items)), pos <= Len(txn.order),
           CompleteItem, UNCHANGED <<disk, hand>>,
           active' \subseteq Known, visible' \subseteq Known, rows' \subseteq Known
    PROVE  TypeInv'
<1>t. TypeOK /\ PlanSettled
  BY DEF TypeInv
<1>1. pos' \in Hnums /\ next' \in Hnums
  BY <1>t DEF TypeOK, CompleteItem, Hnums
<1>2. completed' \subseteq ItemIds(txn)
  BY <1>t, CurrentItem DEF TypeOK, CompleteItem
<1> QED
  BY <1>t, <1>1, <1>2
  DEF CompleteItem, TypeInv, TypeOK, PlanSettled, Known, ItemIds, Fallible,
      Working, Written, Erasing

\* A step of the executor that keeps the transaction preserves the types of the
\* variables it leaves alone.
LEMMA NextTypes == TypeInv /\ [Next]_vars => TypeInv'
<1> SUFFICES ASSUME TypeInv, [Next]_vars PROVE TypeInv'
  OBVIOUS
<1> USE DEF viewVars, stateVars
<1>t. TypeOK /\ PlanSettled
  BY DEF TypeInv
<1>1. CASE Validate
  <2>1. CASE \E o \in {"invalid", "ok"} : Finish(o)
    BY <2>1, FinishTypes
  <2>2. CASE Goto("prevalidate") /\ active' = rows /\ visible' = rows
             /\ UNCHANGED <<pos, stateVars, todo, repl, next, victim>>
    BY <1>t, <2>2 DEF Goto, TypeInv, TypeOK, PlanSettled, Known, ItemIds, Fallible,
                      Working, Written, Erasing
  <2> QED BY <1>1, <2>1, <2>2 DEF Validate
<1>2. CASE Prevalidate
  <2>1. CASE \E o \in {"invalid", "mismatch"} : Finish(o)
    BY <2>1, FinishTypes
  <2>2. CASE PlanMatches /\ Goto("pretrans")
             /\ UNCHANGED <<pos, viewVars, stateVars, todo, repl, next, victim>>
    BY <1>t, <2>2 DEF Goto, TypeInv, TypeOK, PlanSettled, Known, ItemIds, Fallible,
                      Working, Written, Erasing, PlanMatches
  <2> QED BY <1>2, <2>1, <2>2 DEF Prevalidate
<1>3. CASE RunPretrans
  BY <1>t, <1>3 DEF RunPretrans, Goto, TypeInv, TypeOK, PlanSettled, Known, ItemIds,
                    Fallible, Working, Written, Erasing
<1>4. CASE RunPost \/ RunPostun
  BY <1>t, <1>4 DEF RunPost, RunPostun, Goto, TypeInv, TypeOK, PlanSettled, Known,
                    ItemIds, Fallible, Working, Written, Erasing
<1>5. CASE PassPrior \/ BeginErasePrior
  <2>1. next' \in Hnums
    BY <1>t, <1>5 DEF PassPrior, BeginErasePrior, TypeOK, Hnums
  <2>2. victim' \in Known \cup {0} /\ (BeginErasePrior => victim' \in Known)
    BY <1>t, <1>5 DEF PassPrior, BeginErasePrior, SkipPrior, TypeOK
  <2> QED
    BY <1>t, <1>5, <2>1, <2>2
    DEF PassPrior, BeginErasePrior, Goto, TypeInv, TypeOK, PlanSettled, Known, ItemIds, Fallible,
         Working, Written, Erasing
<1>6. CASE BeginInstall \/ BeginErase
  <2>1. CASE Finish("invalid")
    BY <2>1, FinishTypes
  <2>2. CASE CompleteItem /\ UNCHANGED <<viewVars, stateVars>>
    BY <1>t, <1>6, <2>2, CompleteTypes DEF BeginInstall, BeginErase, PlanSettled, TypeOK
  <2>3. CASE repl' = Replacement /\ SelectionValid /\ BeginInstall /\ Goto("pre")
             /\ UNCHANGED <<pos, viewVars, stateVars, todo, next, victim>>
    <3>1. repl' \in Nat
      BY <1>t, <2>3, ReplacementIsOld
    <3> QED
      BY <1>t, <2>3, <3>1 DEF BeginInstall, Goto, TypeInv, TypeOK, PlanSettled, Known, ItemIds, Fallible,
         Working, Written, Erasing
  <2>4. CASE victim' = Item.hnum /\ Item.hnum \in active /\ BeginErase /\ Goto("preun")
             /\ UNCHANGED <<pos, viewVars, stateVars, todo, repl, next>>
    BY <1>t, <2>4 DEF BeginErase, Goto, TypeInv, TypeOK, PlanSettled, Known, ItemIds, Fallible,
         Working, Written, Erasing
  <2> QED BY <1>6, <2>1, <2>2, <2>3, <2>4 DEF BeginInstall, BeginErase
<1>7. CASE RunPre
  <2>1. Item.pkg.files \subseteq Paths
    BY <1>t, <1>7, CurrentItem DEF RunPre, PlanSettled, Working, Items, Packages
  <2> QED
    BY <1>t, <1>7, <2>1 DEF RunPre, Goto, TypeInv, TypeOK, PlanSettled, Known, ItemIds, Fallible,
         Working, Written, Erasing
<1>8. CASE \E path \in Paths : InstallFile(path)
  <2> PICK path \in Paths : InstallFile(path)
    BY <1>8
  <2>1. CASE Finish("failed")
    BY <2>1, FinishTypes
  <2>2. CASE ~Conflicts(path)
    <3>1. disk' \in [Paths -> Nat]
      BY <1>t, <2>2 DEF InstallFile, TypeOK
    <3>2. hand' \subseteq Paths /\ \A p, q \in hand' : p = q
      BY <2>2 DEF InstallFile
    <3> QED
      BY <1>t, <2>2, <3>1, <3>2
      DEF InstallFile, Goto, TypeInv, TypeOK, PlanSettled, Known, ItemIds, Fallible,
         Working, Written, Erasing
  <2> QED BY <2>1, <2>2 DEF InstallFile
<1>22. CASE \E path \in Paths : WriteFile(path)
  <2> PICK path \in Paths : WriteFile(path)
    BY <1>22
  <2>1. ItemHnum \in Nat
    BY <1>t, CurrentItem DEF WriteFile, PlanSettled, Working
  <2>2. disk' \in [Paths -> Nat] /\ hand' = {}
    BY <1>t, <2>1 DEF WriteFile, TypeOK
  <2> QED
    BY <1>t, <2>2 DEF WriteFile, Goto, TypeInv, TypeOK, PlanSettled, Known, ItemIds, Fallible,
         Working, Written, Erasing
<1>9. CASE WriteDb
  <2>1. ItemHnum \in Known
    BY <1>t, <1>9, CurrentItem DEF WriteDb, Commit, PlanSettled, Working
  <2> QED
    BY <1>t, <1>9, <2>1
    DEF WriteDb, Commit, Goto, TypeInv, TypeOK, PlanSettled, Known, ItemIds, Fallible,
         Working, Written, Erasing
<1>10. CASE PriorsDone
  BY <1>t, <1>10, CompleteTypes DEF PriorsDone, PlanSettled, TypeOK, Working, Written
<1>11. CASE RunPreun
  <2>1. FilesOf(victim) \subseteq Paths
    BY <1>t, <1>11, KnownPackages DEF RunPreun, PlanSettled, Erasing
  <2> QED
    BY <1>t, <1>11, <2>1 DEF RunPreun, Goto, TypeInv, TypeOK, PlanSettled, Known, ItemIds, Fallible,
         Working, Written, Erasing
<1>12. CASE \E path \in Paths : EraseFile(path)
  <2> PICK path \in Paths : EraseFile(path)
    BY <1>12
  <2>1. disk' \in [Paths -> Nat]
    BY <1>t DEF EraseFile, ErasePath, TypeOK
  <2> QED
    BY <1>t, <2>1 DEF EraseFile, ErasePath, Goto, TypeInv, TypeOK, PlanSettled, Known, ItemIds, Fallible,
         Working, Written, Erasing
<1>13. CASE FilesErased
  BY <1>t, <1>13 DEF FilesErased, Goto, TypeInv, TypeOK, PlanSettled, Known, ItemIds, Fallible,
         Working, Written, Erasing
<1>14. CASE EraseRow
  <2>1. CASE pc' = "end" /\ rc' = "invalid"
             /\ UNCHANGED <<txn, pos, todo, repl, next, victim, completed>>
    BY <1>t, <1>14, <2>1 DEF EraseRow, TypeInv, TypeOK, PlanSettled, Known, ItemIds, Fallible,
         Working, Written, Erasing
  <2>2. CASE CompleteItem
    BY <1>t, <1>14, <2>2, CompleteTypes DEF EraseRow, PlanSettled, Working, Written, Erasing, TypeOK
  <2>3. CASE victim' = 0 /\ Goto("priors") /\ UNCHANGED <<pos, todo, repl, next>>
    BY <1>t, <1>14, <2>3 DEF EraseRow, Goto, TypeInv, TypeOK, PlanSettled, Known, ItemIds, Fallible,
         Working, Written, Erasing
  <2> QED BY <1>14, <2>1, <2>2, <2>3 DEF EraseRow, AfterErase
<1>20. CASE \E o \in {"ok", "failed", "crashed"} : Finish(o)
  BY <1>20, FinishTypes
<1>21. CASE UNCHANGED vars
  BY <1>t, <1>21 DEF vars, TypeInv, TypeOK, PlanSettled, Known, ItemIds
<1> QED
  BY <1>1, <1>2, <1>3, <1>4, <1>5, <1>6, <1>7, <1>8, <1>9, <1>10, <1>11, <1>12,
     <1>13, <1>14, <1>20, <1>21, <1>22
  DEF Next, Run, Fail, Crash, Done, RunPosttrans

\* Type correctness of the executor: in particular every row and every view entry
\* is an old row or that of an added package, and the observer is told of items.
THEOREM TypeCorrect == Spec => []TypeOK
<1>1. TypeInv => TypeOK
  BY DEF TypeInv
<1> QED BY <1>1, InitTypes, NextTypes, PTL DEF Spec

-----------------------------------------------------------------------------
(* The view and the database                                               *)

ViewInv == VictimsInErase /\ RowsAreActive /\ ReplacedRowGone

\* No row has number 0, which stands for none.
LEMMA NoRowZero == ASSUME TypeOK PROVE 0 \notin rows
<1>1. \A n : 0 \notin 1..n
  OBVIOUS
<1> QED BY <1>1, Zenon DEF TypeOK, Known

\* Returning to the caller: nothing is claimed of the view any more.
LEMMA FinishView ==
    ASSUME ViewInv, NEW o, Finish(o)
    PROVE  ViewInv'
  BY DEF Finish, viewVars, stateVars, ViewInv, VictimsInErase, RowsAreActive, ReplacedRowGone,
         NoDb, Working, Written, Erasing

\* Completing an item with no victim left in the database.
LEMMA CompleteView ==
    ASSUME TypeInv, ViewInv, CompleteItem, UNCHANGED <<active, hand>>, pc # "files", pc # "end",
           ~NoDb => rows' \subseteq active
    PROVE  ViewInv'
<1>1. Len(txn.db) \in Nat
  BY Lengths DEF TypeInv
<1>2. 0 <= Len(txn.db)
  BY <1>1
<1> QED
  BY <1>2 DEF CompleteItem, ViewInv, VictimsInErase, RowsAreActive, ReplacedRowGone,
         NoDb, Working, Written, Erasing

\* The executor's view follows the database step by step.
LEMMA NextView == TypeInv /\ ViewInv /\ [Next]_vars => ViewInv'
<1> SUFFICES ASSUME TypeInv, ViewInv, [Next]_vars PROVE ViewInv'
  OBVIOUS
<1> USE DEF viewVars, stateVars
<1>t. TypeOK /\ PlanSettled
  BY DEF TypeInv
<1>z. 0 \notin rows
  BY <1>t, NoRowZero
<1>1. CASE Validate
  <2>1. CASE \E o \in {"invalid", "ok"} : Finish(o)
    BY <2>1, FinishView
  <2>2. CASE Goto("prevalidate") /\ active' = rows /\ visible' = rows
             /\ UNCHANGED <<pos, stateVars, todo, repl, next, victim>>
    BY <1>1, <2>2 DEF Validate, Goto, ViewInv, VictimsInErase, RowsAreActive, ReplacedRowGone,
         NoDb, Working, Written, Erasing
  <2> QED BY <1>1, <2>1, <2>2 DEF Validate
<1>2. CASE Prevalidate
  <2>1. CASE \E o \in {"invalid", "mismatch"} : Finish(o)
    BY <2>1, FinishView
  <2>2. CASE Goto("pretrans")
             /\ UNCHANGED <<pos, viewVars, stateVars, todo, repl, next, victim>>
    BY <1>2, <2>2 DEF Prevalidate, Goto, ViewInv, VictimsInErase, RowsAreActive, ReplacedRowGone,
         NoDb, Working, Written, Erasing
  <2> QED BY <1>2, <2>1, <2>2 DEF Prevalidate
<1>3. CASE RunPretrans
  BY <1>3 DEF RunPretrans, Goto, ViewInv, VictimsInErase, RowsAreActive, ReplacedRowGone,
         NoDb, Working, Written, Erasing
<1>4. CASE RunPost \/ RunPostun \/ PassPrior \/ RunPreun \/ RunPre
  BY <1>4 DEF RunPost, RunPostun, PassPrior, RunPreun, RunPre, Goto, ViewInv, VictimsInErase, RowsAreActive, ReplacedRowGone,
         NoDb, Working, Written, Erasing
<1>5. CASE BeginErasePrior
  BY <1>5, <1>z DEF BeginErasePrior, Goto, ViewInv, VictimsInErase, RowsAreActive, ReplacedRowGone,
         NoDb, Working, Written, Erasing
<1>6. CASE BeginInstall \/ BeginErase
  <2>1. CASE Finish("invalid")
    BY <2>1, FinishView
  <2>2. CASE CompleteItem /\ UNCHANGED <<viewVars, stateVars>>
    <3>1. ~NoDb => rows \subseteq active
      BY <1>6, <1>z DEF BeginInstall, BeginErase, ViewInv, VictimsInErase, RowsAreActive, ReplacedRowGone,
         NoDb, Working, Written, Erasing
    <3> QED BY <1>6, <2>2, <3>1, CompleteView DEF BeginInstall, BeginErase
  <2>3. CASE repl' = Replacement /\ SelectionValid /\ BeginInstall /\ Goto("pre")
             /\ UNCHANGED <<pos, viewVars, stateVars, todo, next, victim>>
    BY <1>t, <2>3, ReplacementIsOld DEF BeginInstall, Goto, ViewInv, VictimsInErase, RowsAreActive, ReplacedRowGone,
         NoDb, Working, Written, Erasing
  <2>4. CASE victim' = Item.hnum /\ Item.hnum \in active /\ BeginErase /\ Goto("preun")
             /\ UNCHANGED <<pos, viewVars, stateVars, todo, repl, next>>
    BY <1>z, <2>4 DEF BeginErase, Goto, ViewInv, VictimsInErase, RowsAreActive, ReplacedRowGone,
         NoDb, Working, Written, Erasing
  <2> QED BY <1>6, <2>1, <2>2, <2>3, <2>4 DEF BeginInstall, BeginErase
<1>8. CASE \E path \in Paths : InstallFile(path) \/ WriteFile(path)
  BY <1>8, FinishView DEF InstallFile, WriteFile, Goto, ViewInv, VictimsInErase, RowsAreActive, ReplacedRowGone,
         NoDb, Working, Written, Erasing
<1>9. CASE WriteDb
  <2>1. repl # ItemHnum
    <3>1. \A m, n \in Nat : n > m => \A r \in Nat : r <= m => r # n
      OBVIOUS
    <3>2. ItemHnum \in Nat /\ ItemHnum > Len(txn.db)
      BY <1>t, <1>9, CurrentItem DEF WriteDb, Commit, PlanSettled, Working
    <3> QED BY <1>t, <3>1, <3>2, Lengths, Zenon DEF TypeOK, ViewInv, VictimsInErase
  <2> QED BY <1>9, <2>1 DEF WriteDb, Commit, Goto, ViewInv, VictimsInErase, RowsAreActive, ReplacedRowGone,
         NoDb, Working, Written, Erasing
<1>10. CASE PriorsDone
  <2>1. ~NoDb => rows \subseteq active
    BY <1>10, <1>z DEF PriorsDone, ViewInv, VictimsInErase, RowsAreActive, ReplacedRowGone,
         NoDb, Working, Written, Erasing
  <2> QED BY <1>10, <2>1, CompleteView DEF PriorsDone
<1>12. CASE (\E path \in Paths : EraseFile(path)) \/ FilesErased
  BY <1>12 DEF EraseFile, ErasePath, FilesErased, Goto, ViewInv, VictimsInErase, RowsAreActive, ReplacedRowGone,
         NoDb, Working, Written, Erasing
<1>14. CASE EraseRow
  <2>1. CASE pc' = "end" /\ rc' = "invalid"
             /\ UNCHANGED <<txn, pos, todo, repl, next, victim, completed>>
    BY <1>14, <2>1 DEF EraseRow, ViewInv, VictimsInErase, RowsAreActive, ReplacedRowGone,
         NoDb, Working, Written, Erasing
  <2>2. ~NoDb => rows' \subseteq active
    BY <1>14 DEF EraseRow, ViewInv, VictimsInErase, RowsAreActive, ReplacedRowGone,
         NoDb, Working, Written, Erasing
  <2>3. CASE CompleteItem
    BY <1>14, <2>2, <2>3, CompleteView DEF EraseRow
  <2>4. CASE victim' = 0 /\ Goto("priors") /\ UNCHANGED <<pos, todo, repl, next>>
    BY <1>14, <2>2, <2>4 DEF EraseRow, Goto, ViewInv, VictimsInErase, RowsAreActive, ReplacedRowGone,
         NoDb, Working, Written, Erasing
  <2> QED BY <1>14, <2>1, <2>3, <2>4 DEF EraseRow, AfterErase
<1>20. CASE \E o \in {"ok", "failed", "crashed"} : Finish(o)
  BY <1>20, FinishView
<1>21. CASE UNCHANGED vars
  BY <1>21 DEF vars, ViewInv, VictimsInErase, RowsAreActive, ReplacedRowGone,
         NoDb, Working, Written, Erasing
<1> QED
  BY <1>1, <1>2, <1>3, <1>4, <1>5, <1>6, <1>8, <1>9, <1>10, <1>12, <1>14, <1>20, <1>21
  DEF Next, Run, Fail, Crash, Done, RunPosttrans

-----------------------------------------------------------------------------
(* Files and rows                                                          *)

FileInv == InstalledSoFar /\ RowsHaveFiles

\* No step but a write, a removal or a commit can disturb the files: the rows
\* shrink or stay, the disk stays, and no victim is let go of.
LEMMA QuietFiles ==
    ASSUME FileInv, txn' = txn, disk' = disk, hand' = hand, pc' # "files",
           ~NoDb => rows' \ {victim'} \subseteq rows \ {victim}
    PROVE  FileInv'
  BY DEF FileInv, InstalledSoFar, RowsHaveFiles, FilesOf, Item, NoDb, JustDb

\* At the start the files of every installed package are on disk.
LEMMA InitFiles == Init => ViewInv /\ FileInv
<1> SUFFICES ASSUME Init PROVE ViewInv /\ FileInv
  OBVIOUS
<1>0. TypeInv
  BY InitTypes
<1>1. ViewInv
  <2>1. Len(txn.db) \in Nat
    BY <1>0, Lengths DEF TypeInv
  <2>2. 0 <= Len(txn.db)
    BY <2>1
  <2> QED BY <2>2 DEF Init, Start, ViewInv, VictimsInErase, RowsAreActive, ReplacedRowGone,
         NoDb, Working, Written, Erasing
<1>2. ASSUME NEW h \in rows, NEW path \in FilesOf(h) PROVE disk[path] # 0
  <2>1. h \in Indices(txn.db)
    BY DEF Init, Start
  <2>2. h \in Owners(txn, path)
    BY <2>1 DEF FilesOf, PkgOf, Owners
  <2>3. path \in Paths
    BY <1>0, KnownPackages DEF TypeInv, TypeOK
  <2>4. PICK g \in Owners(txn, path) : InitialDisk(txn)[path] = g
    BY <2>2, <2>3 DEF InitialDisk
  <2>5. g # 0
    BY <2>4 DEF Owners, Indices
  <2> QED BY <2>4, <2>5 DEF Init, Start
<1>3. FileInv
  BY <1>2 DEF Init, Start, FileInv, InstalledSoFar, RowsHaveFiles
<1> QED BY <1>1, <1>3

\* Every step keeps the files of every row, however many owners a path has and
\* in whatever order rows come and go.
LEMMA NextFiles == TypeInv /\ ViewInv /\ FileInv /\ [Next]_vars => FileInv'
<1> SUFFICES ASSUME TypeInv, ViewInv, FileInv, [Next]_vars PROVE FileInv'
  OBVIOUS
<1> USE DEF viewVars, stateVars
<1>t. TypeOK /\ PlanSettled /\ VictimsInErase /\ RowsAreActive /\ ReplacedRowGone
  BY DEF TypeInv, ViewInv
<1>1. CASE Validate \/ Prevalidate \/ RunPretrans \/ RunPost \/ RunPostun \/ RunPreun
  BY <1>1, QuietFiles
  DEF Validate, Prevalidate, RunPretrans, RunPost, RunPostun, RunPreun, Goto, Finish
<1>2. CASE PassPrior \/ FilesErased
  BY <1>2, QuietFiles DEF PassPrior, FilesErased, Goto
<1>3. CASE BeginErasePrior
  <2>1. victim = 0
    BY <1>t, <1>3 DEF BeginErasePrior, VictimsInErase, Erasing
  <2>2. rows \ {victim'} \subseteq rows \ {victim}
    BY <1>t, <2>1, NoRowZero
  <2> QED BY <1>3, <2>2, QuietFiles DEF BeginErasePrior, Goto
<1>4. CASE BeginInstall \/ BeginErase \/ PriorsDone
  <2>1. victim = 0
    BY <1>t, <1>4 DEF BeginInstall, BeginErase, PriorsDone, VictimsInErase, Erasing
  <2>2. rows \ {victim'} \subseteq rows \ {victim}
    BY <1>t, <2>1, NoRowZero
  <2> QED
    BY <1>4, <2>2, QuietFiles
    DEF BeginInstall, BeginErase, PriorsDone, CompleteItem, Goto, Finish
<1>5. CASE RunPre
  BY <1>5 DEF RunPre, Goto, FileInv, InstalledSoFar, RowsHaveFiles, FilesOf, Item, NoDb, JustDb
<1>6. CASE \E path \in Paths : InstallFile(path)
  <2> PICK path \in Paths : InstallFile(path)
    BY <1>6
  <2>1. CASE Finish("failed")
    BY <2>1, QuietFiles DEF Finish
  <2>2. CASE ~Conflicts(path)
    <3>2. hand' = {path} /\ \A p \in Paths : p # path => disk'[p] = disk[p]
      BY <1>t, <2>2 DEF InstallFile, TypeOK
    <3>3. Item.pkg.files \subseteq Paths
      BY <1>t, CurrentItem DEF InstallFile, PlanSettled, Working, Items, Packages
    <3>4. \A h \in rows : FilesOf(h) \subseteq Paths
      BY <1>t, KnownPackages DEF TypeOK
    <3>5. InstalledSoFar'
      BY <2>2, <3>2, <3>3 DEF InstallFile, Goto, FileInv, InstalledSoFar, Item, JustDb
    <3>6. RowsHaveFiles'
      BY <2>2, <3>2, <3>4
      DEF InstallFile, Goto, FileInv, RowsHaveFiles, FilesOf, NoDb, JustDb
    <3> QED BY <3>5, <3>6 DEF FileInv
  <2> QED BY <2>1, <2>2 DEF InstallFile
<1>22. CASE \E path \in Paths : WriteFile(path)
  <2> PICK path \in Paths : WriteFile(path)
    BY <1>22
  <2>1. ItemHnum \in Nat /\ ItemHnum # 0
    <3>1. \A m, n \in Nat : n > m => n # 0
      OBVIOUS
    <3> QED BY <1>t, <3>1, CurrentItem, Lengths DEF WriteFile, PlanSettled, Working
  <2>2. \A p \in Paths : disk'[p] = IF p = path THEN ItemHnum ELSE disk[p]
    BY <1>t DEF WriteFile, TypeOK
  <2>3. Item.pkg.files \subseteq Paths
    BY <1>t, CurrentItem DEF WriteFile, PlanSettled, Working, Items, Packages
  <2>4. \A h \in rows : FilesOf(h) \subseteq Paths
    BY <1>t, KnownPackages DEF TypeOK
  <2>5. hand' = {} /\ \A p \in hand : p = path
    BY <1>t DEF WriteFile, TypeOK
  <2>6. InstalledSoFar'
    BY <2>1, <2>2, <2>3, <2>5 DEF WriteFile, Goto, FileInv, InstalledSoFar, Item, JustDb
  <2>7. RowsHaveFiles'
    BY <2>1, <2>2, <2>4, <2>5 DEF WriteFile, Goto, FileInv, RowsHaveFiles, FilesOf, NoDb, JustDb
  <2> QED BY <2>6, <2>7 DEF FileInv
<1>7. CASE WriteDb
  <2>1. FilesOf(ItemHnum) = Item.pkg.files
    BY <1>t, <1>7, CurrentItem DEF WriteDb, Commit, PlanSettled, Working
  <2>2. ~JustDb => \A path \in FilesOf(ItemHnum) : disk[path] # 0
    BY <1>7, <2>1 DEF WriteDb, Commit, FileInv, InstalledSoFar
  <2>3. ~JustDb /\ ~NoDb =>
           \A h \in rows' \ {victim} : \A path \in FilesOf(h) : disk[path] # 0
    BY <1>7, <2>2 DEF WriteDb, Commit, FileInv, RowsHaveFiles
  <2> QED
    BY <1>7, <2>3
    DEF WriteDb, Commit, Goto, FileInv, InstalledSoFar, RowsHaveFiles, FilesOf, NoDb, JustDb
<1>8. CASE \E path \in Paths : EraseFile(path)
  <2> PICK path \in Paths : EraseFile(path)
    BY <1>8
  <2>1. \A p \in Paths : disk'[p] = 0 => disk[p] = 0 \/ (p = path /\ ~PathOwned(path, {victim}))
    BY <1>t DEF EraseFile, ErasePath, TypeOK
  <2>2. ~NoDb => rows \ {victim} \subseteq active \ {victim}
    BY <1>t DEF EraseFile, ErasePath, RowsAreActive
  <2>3. \A h \in rows : FilesOf(h) \subseteq Paths
    BY <1>t, KnownPackages DEF TypeOK
  <2>4. ~JustDb /\ ~NoDb =>
           \A h \in rows \ {victim} : \A p \in FilesOf(h) \ hand : disk'[p] # 0
    BY <2>1, <2>2, <2>3 DEF PathOwned, FileInv, RowsHaveFiles
  <2> QED
    BY <2>4
    DEF EraseFile, ErasePath, Goto, FileInv, InstalledSoFar, RowsHaveFiles, FilesOf, NoDb, JustDb
<1>9. CASE EraseRow
  <2>1. ~NoDb => victim \notin rows'
    BY <1>t, <1>9 DEF EraseRow, ReplacedRowGone, Written, Erasing
  <2>2. ~NoDb => rows' \subseteq rows \ {victim}
    BY <1>9, <2>1 DEF EraseRow
  <2>3. txn' = txn /\ disk' = disk /\ hand' = hand /\ pc' # "files"
    BY <1>9 DEF EraseRow, AfterErase, CompleteItem, Goto
  <2> QED BY <2>2, <2>3, QuietFiles
<1>20. CASE \E o \in {"ok", "failed", "crashed"} : Finish(o)
  BY <1>20, QuietFiles DEF Finish
<1>21. CASE UNCHANGED vars
  BY <1>21 DEF vars, FileInv, InstalledSoFar, RowsHaveFiles, FilesOf, Item, NoDb, JustDb
<1> QED
  BY <1>1, <1>2, <1>3, <1>4, <1>5, <1>6, <1>7, <1>8, <1>9, <1>20, <1>21, <1>22
  DEF Next, Run, Fail, Crash, Done, RunPosttrans

\* At every point at which the executor may stop, by a crash, a failure or
\* success, every row of the rpmdb except the one being erased has all its files
\* whole on disk, except at most one that was being replaced, for any
\* transaction: installing writes files before the row, and the view by which
\* the eraser keeps shared paths never lacks a row.
THEOREM FilesOfRows == Spec => []RowsHaveFiles
<1> DEFINE Inv == TypeInv /\ ViewInv /\ FileInv
<1>1. Init => Inv
  BY InitTypes, InitFiles
<1>2. Inv /\ [Next]_vars => Inv'
  BY NextTypes, NextView, NextFiles
<1>3. Inv => RowsHaveFiles
  BY DEF FileInv
<1> QED BY <1>1, <1>2, <1>3, PTL DEF Spec

-----------------------------------------------------------------------------
(* The plan                                                                *)

Erases(t, i) == t.items[i].type = "erase"
Primary(t, i) == Priors(t, i)[1].hnum

\* Every row the plan speaks of is a row of the database, holding the NEVRA the
\* plan says.
RowsFound(t) ==
    \A i \in ItemIds(t) :
        /\ Erases(t, i) =>
              /\ Priors(t, i) = <<>>
              /\ t.items[i].hnum \in Indices(t.db)
              /\ SameNevra(t.items[i].pkg, t.db[t.items[i].hnum])
        /\ \A h \in PriorHnums(t.items[i]) : h \in Indices(t.db)
        /\ \A k \in Indices(t.items[i].priors) :
              SameNevra(t.items[i].priors[k].pkg, t.db[t.items[i].priors[k].hnum])
        /\ Replaces(t.items[i]) => Priors(t, i) # <<>>

\* No row is erased twice, erased and superseded, or replaced twice.
RowsUnshared(t) ==
    \A i, j \in ItemIds(t) : i # j =>
        /\ Erases(t, i) =>
              /\ Erases(t, j) => t.items[i].hnum # t.items[j].hnum
              /\ t.items[i].hnum \notin PriorHnums(t.items[j])
        /\ Replaces(t.items[i]) /\ Replaces(t.items[j]) => Primary(t, i) # Primary(t, j)

\* Whoever replaces a row comes before the others that supersede it.
ReplacersFirst(t) ==
    \A j, k \in Indices(t.order) :
        /\ j # k
        /\ Replaces(t.items[t.order[j]])
        /\ Primary(t, t.order[j]) \in PriorHnums(t.items[t.order[k]])
        => j < k

PlanSound(t) ==
    /\ IsPermutation(t.order, Len(t.items))
    /\ RowsFound(t) /\ RowsUnshared(t) /\ ReplacersFirst(t)

-----------------------------------------------------------------------------
(* The invariants                                                          *)

\* Nothing has changed before the first item.
Untouched ==
    /\ pc \in {"validate", "prevalidate", "pretrans"} =>
          /\ pos = 1 /\ completed = {} /\ next = 1
          /\ rows = Indices(txn.db) /\ disk = InitialDisk(txn)
    /\ pc \in {"prevalidate", "pretrans"} => active = rows /\ visible = rows

Planned ==
    /\ ~txn.fixed => NativePlanned(txn.db, txn.items, txn.order)
    /\ pc = "prevalidate" /\ txn.fixed => ValidateFixedOrder(txn.items, txn.order)
    /\ pc \notin {"validate", "prevalidate", "end"} => PlanSound(txn)
    /\ pc # "end" => rc = "none"

\* The observer has been told of the items before the current one.
Progress ==
    pc \in {"item"} \cup Working =>
        /\ pos <= Len(txn.order) + 1
        /\ completed = {txn.order[k] : k \in 1..(pos - 1)}
        /\ pc \in {"item", "pre", "files", "post"} => next = 1
        /\ pc \in Working => ~Test

\* What is replaced and what is being erased.
Roles ==
    /\ pc \in {"pre", "files", "post", "priors"} => Item.type # "erase"
    /\ pc \in Working =>
          IF Replaces(Item) THEN repl = ItemPriors[1].hnum
          ELSE repl = 0 \/ repl \in PriorHnums(Item) \ PrimaryHnums(txn)
    /\ pc \in Erasing =>
          IF Item.type = "erase" THEN victim = Item.hnum
          ELSE /\ victim \in PriorHnums(Item)
               /\ victim = repl \/ victim \notin PrimaryHnums(txn)

\* The rows of the items to come are still in the view.
Waiting ==
    pc \in {"item"} \cup Working =>
        \A k \in Indices(txn.order) :
            (IF pc = "item" THEN pos <= k ELSE pos < k) =>
                /\ Erases(txn, txn.order[k]) => txn.items[txn.order[k]].hnum \in active
                /\ Replaces(txn.items[txn.order[k]]) => Primary(txn, txn.order[k]) \in active

\* The two flags of a view entry.
Visibility ==
    /\ ~NoDb /\ pc \notin {"validate", "end"} => active \subseteq visible
    /\ ~NoDb /\ pc \in Erasing => victim \in visible
    /\ pc \in {"postun", "eraseRow"} => victim \notin active

\* What stays and what was brought is in the view, which holds nothing else.
ViewHolds ==
    /\ active \subseteq Indices(txn.db) \cup NewHnums(txn)
    /\ pc \notin {"validate", "end"} =>
          /\ Indices(txn.db) \ RemovedHnums(txn) \subseteq active
          /\ ~Test => \A i \in completed : ~Erases(txn, i) => NewHnum(txn, i) \in active
    /\ pc \in Written /\ Item.type # "erase" => ItemHnum \in active

\* The same of the database.
RowsHold ==
    /\ rows \subseteq Indices(txn.db) \cup NewHnums(txn)
    /\ Indices(txn.db) \ RemovedHnums(txn) \subseteq rows
    /\ ~NoDb /\ pc \in Written /\ Item.type # "erase" => ItemHnum \in rows
    /\ NoDb => rows = Indices(txn.db)

\* The loop over the priors leaves none behind.
PriorsBehind ==
    pc \in {"priors"} \cup Erasing =>
        \A k \in Indices(ItemPriors) : k < next =>
            /\ ~NoDb => ItemPriors[k].hnum \notin rows \ {victim}
            /\ ItemPriors[k].hnum = repl => repl \notin active \ {victim}

\* The view keeps no package that has left the database but the replaced one.
ActiveAreRows ==
    ~NoDb /\ pc \notin {"validate", "end"} => active \subseteq rows \cup {repl}

\* No file without an owner, but for the ones being installed or erased.
FilesAreOwned ==
    /\ ~JustDb /\ pc \notin {"validate", "end"} =>
          \A path \in Paths : disk[path] # 0 =>
              PathOwned(path, {}) \/ (pc = "files" /\ path \in Item.pkg.files)
    /\ pc = "files" => todo \cup hand \subseteq Item.pkg.files
    /\ ~JustDb /\ pc = "unlink" =>
          \A path \in FilesOf(victim) \ todo :
              disk[path] # 0 => PathOwned(path, {victim})

\* What an added package brought stays, but for the file being replaced.
NewFilesStay ==
    /\ ~JustDb /\ pc \notin {"validate", "end"} =>
          \A h \in active \cap NewHnums(txn) : \A path \in FilesOf(h) \ hand :
              disk[path] \in NewHnums(txn)
    /\ ~JustDb /\ pc = "files" =>
          \A path \in Item.pkg.files \ (todo \cup hand) : disk[path] \in NewHnums(txn)

\* A row goes for a new one that is there, or after all the new ones.
Superseded ==
    ~txn.fixed /\ ~NoDb =>
        \A h \in Indices(txn.db) \ rows :
            \/ \E i \in AddedItems(txn) :
                  h \in PriorHnums(txn.items[i]) /\ NewHnum(txn, i) \in rows
            \/ NewHnums(txn) \subseteq rows
-----------------------------------------------------------------------------
(* Plans                                                                   *)

\* A strict order on a finite set has a minimal element.
LEMMA MinimalElement ==
    ASSUME NEW S, IsFiniteSet(S), S # {}, NEW R,
           \A x \in S : <<x, x>> \notin R,
           \A x, y, z \in S : <<x, y>> \in R /\ <<y, z>> \in R => <<x, z>> \in R
    PROVE  \E m \in S : \A x \in S : <<x, m>> \notin R
<1> DEFINE Below(x) == {y \in S : <<y, x>> \in R}
<1> DEFINE Sizes == {Cardinality(Below(x)) : x \in S}
<1>1. \A x \in S : IsFiniteSet(Below(x)) /\ Cardinality(Below(x)) \in Nat
  BY FS_Subset, FS_CardinalityType, Zenon
<1>2. Sizes \in SUBSET Nat /\ Sizes # {}
  <2> HIDE DEF Below
  <2> QED BY <1>1
<1>3. PICK n \in Sizes : \A k \in Sizes : n <= k
  BY <1>2, SmallestIndex, Zenon
<1>4. PICK m \in S : n = Cardinality(Below(m))
  BY <1>3
<1>5. ASSUME NEW x \in S, <<x, m>> \in R PROVE FALSE
  <2>1. Below(x) \subseteq Below(m) /\ x \in Below(m) /\ x \notin Below(x)
    BY <1>5, Zenon
  <2> HIDE DEF Below
  <2>2. Cardinality(Below(x)) <= Cardinality(Below(m))
        /\ Cardinality(Below(m)) # Cardinality(Below(x))
    BY <1>1, <2>1, FS_Subset, Zenon
  <2>3. n <= Cardinality(Below(x))
    BY <1>3
  <2> QED BY <1>1, <1>4, <2>2, <2>3
<1> QED BY <1>5, Zenon

\* fixedReplacementPrimaryIndex finds a preferred prior whenever the package has
\* one of its own name, however many are equally good: the preference is an order.
LEMMA PrimaryFound ==
    ASSUME NEW item \in Items, PrimaryIndex(item) # 0
    PROVE  PrimaryIndex(item) \in Indices(item.priors)
<1> DEFINE same == {k \in Indices(item.priors) : item.priors[k].pkg.name = item.pkg.name}
<1> DEFINE Preferred(j, k) == PriorPreferred(item.pkg, item.priors[j], item.priors[k])
<1> DEFINE Better(j, k) == Preferred(j, k) \/ (~Preferred(k, j) /\ j < k)
<1> DEFINE R == {w \in same \X same : Better(w[1], w[2])}
<1>1. item.priors \in Seq(PlanRows) /\ Len(item.priors) \in Nat
  BY DEF Items
<1>2. ASSUME NEW k \in same
      PROVE  /\ k \in Nat /\ item.priors[k].hnum \in Nat
             /\ item.priors[k].pkg.evr \in Nat
  <2>1. item.priors[k] \in PlanRows /\ k \in Nat
    BY <1>1 DEF Indices
  <2> QED BY <2>1 DEF PlanRows, Packages
<1>3. same # {} /\ PrimaryIndex(item) =
         CHOOSE k \in same : \A j \in same : ~Preferred(j, k) /\ (Preferred(k, j) \/ k <= j)
  BY Zenon DEF PrimaryIndex
<1>4. IsFiniteSet(same)
  <2>1. IsFiniteSet(Indices(item.priors))
    BY <1>1, FS_Interval DEF Indices
  <2> QED BY <2>1, FS_Subset, Zenon
<1>r. \A x, y \in same : <<x, y>> \in R <=> Better(x, y)
  <2> HIDE DEF same, Better
  <2> QED OBVIOUS
<1> HIDE DEF same, R
<1>5. \A x \in same : ~Better(x, x)
  BY <1>2 DEF PriorPreferred
<1>6. \A x, y, z \in same : Better(x, y) /\ Better(y, z) => Better(x, z)
  <2> SUFFICES ASSUME NEW x \in same, NEW y \in same, NEW z \in same,
                      Better(x, y), Better(y, z)
               PROVE  Better(x, z)
    OBVIOUS
  <2> DEFINE e(k) == item.priors[k].pkg.evr
  <2> DEFINE h(k) == item.priors[k].hnum
  <2> DEFINE native(k) == item.priors[k].pkg.arch = item.pkg.arch
  <2>1. \A k \in same : k \in Nat /\ e(k) \in Nat /\ h(k) \in Nat /\ native(k) \in BOOLEAN
    BY <1>2
  <2>2. \A j, k \in same : Preferred(j, k) <=>
           \/ e(j) > e(k)
           \/ e(j) = e(k) /\ native(j) /\ ~native(k)
           \/ e(j) = e(k) /\ (native(j) <=> native(k)) /\ h(j) < h(k)
    BY DEF PriorPreferred
  <2> HIDE DEF e, h, native, Preferred
  <2> QED BY <2>1, <2>2
<1>7. PICK m \in same : \A x \in same : <<x, m>> \notin R
  <2> HIDE DEF Better
  <2>1. \A x \in same : <<x, x>> \notin R
    BY <1>r, <1>5
  <2>2. \A x, y, z \in same : <<x, y>> \in R /\ <<y, z>> \in R => <<x, z>> \in R
    BY <1>r, <1>6
  <2> QED BY <1>3, <1>4, <2>1, <2>2, MinimalElement, Zenon
<1>8. \A j \in same : ~Preferred(j, m) /\ (Preferred(m, j) \/ m <= j)
  <2> HIDE DEF Preferred
  <2>1. \A j \in same : ~Better(j, m)
    BY <1>r, <1>7, Zenon
  <2> QED BY <1>2, <2>1
<1>9. PrimaryIndex(item) \in same
  <2> HIDE DEF Preferred
  <2> QED BY <1>3, <1>8, Zenon
<1> USE DEF same
<1> QED BY <1>9

\* The executor visits every prior of an item, and only those, and of a replacing
\* item the primary first.
LEMMA Visited ==
    ASSUME NEW t \in Txns, NEW i \in ItemIds(t)
    PROVE  /\ t.items[i] \in Items
           /\ Priors(t, i) \in Seq(PlanRows)
           /\ Len(Priors(t, i)) = Len(t.items[i].priors)
           /\ PriorHnums(t.items[i]) =
                 {Priors(t, i)[k].hnum : k \in Indices(Priors(t, i))}
           /\ \A k \in Indices(t.items[i].priors) :
                 \E j \in Indices(Priors(t, i)) : Priors(t, i)[j] = t.items[i].priors[k]
           /\ \A j \in Indices(Priors(t, i)) :
                 \E k \in Indices(t.items[i].priors) : Priors(t, i)[j] = t.items[i].priors[k]
           /\ t.fixed /\ PrimaryIndex(t.items[i]) # 0 =>
                 Primary(t, i) = PrimaryHnum(t.items[i])
<1> DEFINE item == t.items[i]
<1> DEFINE n == Len(item.priors)
<1>1. item \in Items
  BY TxnsAssumption DEF ItemIds, Indices
<1>2. item.priors \in Seq(PlanRows) /\ n \in Nat
  BY <1>1 DEF Items
<1>3. CASE ~t.fixed \/ PrimaryIndex(item) = 0
  <2>1. Priors(t, i) = item.priors
    BY <1>3 DEF Priors, ExecutionOrder
  <2> QED BY <1>1, <1>2, <1>3, <2>1 DEF PriorHnums
<1>4. CASE t.fixed /\ PrimaryIndex(item) # 0
  <2> DEFINE p == PrimaryIndex(item)
  <2> DEFINE s == Priors(t, i)
  <2>1. p \in 1..n
    BY <1>1, <1>4, PrimaryFound DEF Indices
  <2>2. s = [k \in 1..n |-> IF k = 1 THEN item.priors[p]
                            ELSE IF k <= p THEN item.priors[k - 1] ELSE item.priors[k]]
    BY <1>4, Zenon DEF Priors, ExecutionOrder, Indices
  <2> HIDE DEF p, s, item
  <2>3. \A k \in 1..n : s[k] \in PlanRows
    BY <1>2, <2>1, <2>2
  <2>4. s \in [1..n -> PlanRows]
    BY <2>2, <2>3
  <2>5. s \in Seq(PlanRows) /\ Len(s) = n
    BY <1>2, <2>4
  <2>6. \A k \in 1..n : \E j \in 1..n : s[j] = item.priors[k]
    <3> TAKE k \in 1..n
    <3>1. CASE k = p
      <4>1. s[1] = item.priors[k] /\ 1 \in 1..n
        BY <1>2, <2>1, <2>2, <3>1
      <4> QED BY <4>1
    <3>2. CASE k < p
      <4>1. s[k + 1] = item.priors[k] /\ k + 1 \in 1..n
        BY <1>2, <2>1, <2>2, <3>2
      <4> QED BY <4>1
    <3>3. CASE k > p
      <4>1. s[k] = item.priors[k]
        BY <1>2, <2>1, <2>2, <3>3
      <4> QED BY <4>1
    <3> QED BY <1>2, <2>1, <3>1, <3>2, <3>3
  <2>7. \A j \in 1..n : \E k \in 1..n : s[j] = item.priors[k]
    <3> TAKE j \in 1..n
    <3>1. CASE j = 1
      BY <2>1, <2>2, <3>1
    <3>2. CASE j # 1 /\ j <= p
      <4>1. s[j] = item.priors[j - 1] /\ j - 1 \in 1..n
        BY <1>2, <2>1, <2>2, <3>2
      <4> QED BY <4>1
    <3>3. CASE j # 1 /\ ~(j <= p)
      <4>1. s[j] = item.priors[j]
        BY <1>2, <2>1, <2>2, <3>3
      <4> QED BY <4>1
    <3> QED BY <3>1, <3>2, <3>3
  <2>8. {item.priors[k].hnum : k \in 1..n} = {s[k].hnum : k \in 1..n}
    <3> HIDE DEF n
    <3>1. ASSUME NEW k \in 1..n PROVE item.priors[k].hnum \in {s[j].hnum : j \in 1..n}
      <4> PICK j \in 1..n : s[j] = item.priors[k]
        BY <2>6
      <4> QED OBVIOUS
    <3>2. ASSUME NEW j \in 1..n PROVE s[j].hnum \in {item.priors[k].hnum : k \in 1..n}
      <4> PICK k \in 1..n : s[j] = item.priors[k]
        BY <2>7
      <4> QED OBVIOUS
    <3> QED BY <3>1, <3>2
  <2>9. s[1].hnum = item.priors[p].hnum
    BY <1>2, <2>1, <2>2
  <2>10. PrimaryHnum(item) = item.priors[p].hnum
    BY <1>4 DEF PrimaryHnum, p
  <2> QED
    BY <1>1, <2>5, <2>6, <2>7, <2>8, <2>9, <2>10 DEF PriorHnums, Indices, s, item, Primary
<1> QED BY <1>3, <1>4

\* In a permutation the position of an item is where it is.
LEMMA PositionIs ==
    ASSUME NEW order, NEW n \in Nat, IsPermutation(order, n), NEW k \in Indices(order)
    PROVE  Position(order, order[k]) = k
  BY DEF Position, IsPermutation, Indices

\* The rows of a plan that passed prevalidatePlanStructure.
LEMMA MatchedRows ==
    ASSUME TypeOK, active = Indices(txn.db), PlanMatches, PrimariesDistinct,
           ~txn.fixed => Parsed(txn.db, txn.items)
    PROVE  RowsFound(txn)
<1> SUFFICES ASSUME NEW i \in ItemIds(txn)
             PROVE  /\ Erases(txn, i) =>
                         /\ Priors(txn, i) = <<>>
                         /\ txn.items[i].hnum \in Indices(txn.db)
                         /\ SameNevra(txn.items[i].pkg, txn.db[txn.items[i].hnum])
                    /\ \A h \in PriorHnums(txn.items[i]) : h \in Indices(txn.db)
                    /\ \A k \in Indices(txn.items[i].priors) :
                         SameNevra(txn.items[i].priors[k].pkg, txn.db[txn.items[i].priors[k].hnum])
                    /\ Replaces(txn.items[i]) => Priors(txn, i) # <<>>
  BY DEF RowsFound
<1>0. txn \in Txns
  BY DEF TypeOK
<1>1. Erases(txn, i) =>
         /\ Priors(txn, i) = <<>>
         /\ txn.items[i].hnum \in Indices(txn.db)
         /\ txn.fixed => SameNevra(txn.items[i].pkg, txn.db[txn.items[i].hnum])
  BY DEF PlanMatches, RowMatches, SameNevra, Erases, PkgOf
<1>2. \A k \in Indices(Priors(txn, i)) :
         /\ Priors(txn, i)[k].hnum \in Indices(txn.db)
         /\ txn.fixed => SameNevra(Priors(txn, i)[k].pkg, txn.db[Priors(txn, i)[k].hnum])
  BY DEF PlanMatches, RowMatches, SameNevra, PkgOf
<1>3. \A h \in PriorHnums(txn.items[i]) : h \in Indices(txn.db)
  <2>1. PriorHnums(txn.items[i]) = {Priors(txn, i)[k].hnum : k \in Indices(Priors(txn, i))}
    BY <1>0, Visited, Zenon
  <2> QED BY <1>2, <2>1
<1>4. \A k \in Indices(txn.items[i].priors) :
         SameNevra(txn.items[i].priors[k].pkg, txn.db[txn.items[i].priors[k].hnum])
  <2> TAKE k \in Indices(txn.items[i].priors)
  <2>1. CASE txn.fixed
    <3> PICK j \in Indices(Priors(txn, i)) : Priors(txn, i)[j] = txn.items[i].priors[k]
      BY <1>0, Visited
    <3> QED BY <1>2, <2>1
  <2>2. CASE ~txn.fixed
    BY <2>2 DEF Parsed, ItemIds, SameNevra
  <2> QED BY <2>1, <2>2
<1>5. ~txn.fixed /\ Erases(txn, i) => SameNevra(txn.items[i].pkg, txn.db[txn.items[i].hnum])
  BY DEF Parsed, ItemIds, Erases, SameNevra
<1>6. Replaces(txn.items[i]) => Priors(txn, i) # <<>>
  BY DEF PrimariesDistinct
<1> QED BY <1>1, <1>3, <1>4, <1>5, <1>6

\* A replacing item has its primary among its priors.
LEMMA PrimaryIsPrior ==
    ASSUME NEW t \in Txns, NEW i \in ItemIds(t), Priors(t, i) # <<>>
    PROVE  Primary(t, i) \in PriorHnums(t.items[i]) /\ 1 \in Indices(Priors(t, i))
<1>1. Priors(t, i) \in Seq(PlanRows)
  BY Visited
<1>2. 1 \in Indices(Priors(t, i))
  BY <1>1 DEF Indices
<1>3. PriorHnums(t.items[i]) = {Priors(t, i)[k].hnum : k \in Indices(Priors(t, i))}
  BY Visited
<1> QED BY <1>2, <1>3 DEF Primary

\* The checks before the first change settle what the executor relies on: for a
\* recorded plan validateFixedOrder and the comparison with the database ...
LEMMA RecordedPlanSound ==
    ASSUME TypeOK, txn.fixed, active = Indices(txn.db),
           ValidateFixedOrder(txn.items, txn.order), PlanMatches, PrimariesDistinct
    PROVE  PlanSound(txn)
<1>0. txn \in Txns
  BY DEF TypeOK
<1>1. RowsFound(txn)
  BY MatchedRows
<1>2. RowsUnshared(txn)
  BY DEF RowsUnshared, ValidateFixedOrder, RowsNotShared, PrimariesDistinct, Erases,
         Primary, ItemIds
<1>3. ReplacersFirst(txn)
  <2> SUFFICES ASSUME NEW j \in Indices(txn.order), NEW k \in Indices(txn.order), j # k,
                      Replaces(txn.items[txn.order[j]]),
                      Primary(txn, txn.order[j]) \in PriorHnums(txn.items[txn.order[k]])
               PROVE  j < k
    BY Zenon DEF ReplacersFirst
  <2>1. IsPermutation(txn.order, Len(txn.items)) /\ Len(txn.items) \in Nat
    BY Lengths DEF ValidateFixedOrder
  <2>2. /\ txn.order[j] \in ItemIds(txn) /\ txn.order[k] \in ItemIds(txn)
        /\ txn.order[j] # txn.order[k]
    BY <2>1 DEF IsPermutation, Indices, ItemIds
  <2>3. PrimaryIndex(txn.items[txn.order[j]]) # 0
    BY <2>2 DEF ValidateFixedOrder, ValidItem, ItemIds
  <2>4. Primary(txn, txn.order[j]) = PrimaryHnum(txn.items[txn.order[j]])
    BY <1>0, <2>2, <2>3, Visited
  <2>5. Position(txn.order, txn.order[j]) < Position(txn.order, txn.order[k])
    BY <2>2, <2>4, Zenon DEF ValidateFixedOrder, OwnersGoFirst, ItemIds
  <2>6. Position(txn.order, txn.order[j]) = j /\ Position(txn.order, txn.order[k]) = k
    BY <2>1, PositionIs, Zenon
  <2> QED BY <2>5, <2>6
<1> QED BY <1>1, <1>2, <1>3 DEF PlanSound, ValidateFixedOrder

\* ... and for a plan made here parseTransaction and the order of its phases.
LEMMA NativePlanSound ==
    ASSUME TypeOK, ~txn.fixed, active = Indices(txn.db),
           NativePlanned(txn.db, txn.items, txn.order), PlanMatches, PrimariesDistinct
    PROVE  PlanSound(txn)
<1>0. txn \in Txns /\ Parsed(txn.db, txn.items)
  BY DEF TypeOK, NativePlanned
<1>1. RowsFound(txn)
  BY <1>0, MatchedRows
<1>2. RowsUnshared(txn)
  <2> SUFFICES ASSUME NEW i \in ItemIds(txn), NEW j \in ItemIds(txn), i # j
               PROVE  /\ Erases(txn, i) =>
                           /\ Erases(txn, j) => txn.items[i].hnum # txn.items[j].hnum
                           /\ txn.items[i].hnum \notin PriorHnums(txn.items[j])
                      /\ Replaces(txn.items[i]) /\ Replaces(txn.items[j]) =>
                           Primary(txn, i) # Primary(txn, j)
    BY Zenon DEF RowsUnshared
  <2>1. Erases(txn, i) /\ Erases(txn, j) => txn.items[i].hnum # txn.items[j].hnum
    BY <1>0 DEF Parsed, Erases, ItemIds
  <2>2. Erases(txn, i) => txn.items[i].hnum \notin PriorHnums(txn.items[j])
    <3>1. Erases(txn, i) => txn.items[i].hnum \in ErasedRows(txn.items)
      BY Zenon DEF Erases, ErasedRows, ItemIds
    <3>2. PriorHnums(txn.items[j]) = SelectedRows(txn.db, txn.items, j)
      BY <1>0 DEF Parsed, ItemIds
    <3> QED BY <3>1, <3>2 DEF SelectedRows
  <2>3. Replaces(txn.items[i]) /\ Replaces(txn.items[j]) =>
           Primary(txn, i) # Primary(txn, j)
    BY DEF PrimariesDistinct, Primary
  <2> QED BY <2>1, <2>2, <2>3
<1>3. ReplacersFirst(txn)
  <2> SUFFICES ASSUME NEW j \in Indices(txn.order), NEW k \in Indices(txn.order), j # k,
                      Replaces(txn.items[txn.order[j]]),
                      Primary(txn, txn.order[j]) \in PriorHnums(txn.items[txn.order[k]])
               PROVE  FALSE
    BY Zenon DEF ReplacersFirst
  <2>1. IsPermutation(txn.order, Len(txn.items)) /\ Len(txn.items) \in Nat
    BY Lengths DEF NativePlanned, NativeOrder
  <2>2. /\ txn.order[j] \in ItemIds(txn) /\ txn.order[k] \in ItemIds(txn)
        /\ txn.order[j] # txn.order[k]
    BY <2>1 DEF IsPermutation, Indices, ItemIds
  <2>3. Primary(txn, txn.order[j]) \in PriorHnums(txn.items[txn.order[j]])
    BY <1>0, <2>2, PrimaryIsPrior DEF PrimariesDistinct
  <2> QED BY <1>0, <2>2, <2>3 DEF Parsed, ItemIds
<1> QED BY <1>1, <1>2, <1>3 DEF PlanSound, NativePlanned, NativeOrder

-----------------------------------------------------------------------------
(* Checks before changes                                                   *)

PlanInv == Untouched /\ Planned

\* The executor starts with a plan that was not looked at yet.
LEMMA InitPlan == Init => PlanInv
  BY DEF Init, Start, PlanInv, Untouched, Planned

\* Once the checks are passed the plan is sound, and until then nothing changes.
LEMMA NextPlan == TypeInv /\ PlanInv /\ [Next]_vars => PlanInv'
<1> SUFFICES ASSUME TypeInv, PlanInv, [Next]_vars PROVE PlanInv'
  OBVIOUS
<1> USE DEF viewVars, stateVars
<1>t. TypeOK
  BY DEF TypeInv
<1>1. CASE Validate
  BY <1>1 DEF Validate, Finish, Goto, PlanInv, Untouched, Planned
<1>2. CASE Prevalidate
  <2>1. CASE \E o : Finish(o)
    BY <2>1 DEF Finish, PlanInv, Untouched, Planned
  <2>2. CASE PlanMatches /\ PrimariesDistinct /\ Goto("pretrans")
             /\ UNCHANGED <<pos, viewVars, stateVars, todo, repl, next, victim>>
    <3>1. active = Indices(txn.db)
      BY <1>2 DEF Prevalidate, PlanInv, Untouched
    <3>2. PlanSound(txn)
      <4>1. CASE txn.fixed
        BY <1>t, <1>2, <2>2, <3>1, <4>1, RecordedPlanSound DEF Prevalidate, PlanInv, Planned
      <4>2. CASE ~txn.fixed
        BY <1>t, <1>2, <2>2, <3>1, <4>2, NativePlanSound DEF Prevalidate, PlanInv, Planned
      <4> QED BY <4>1, <4>2
    <3> QED BY <1>2, <2>2, <3>2 DEF Prevalidate, Goto, PlanInv, Untouched, Planned
  <2> QED BY <1>2, <2>1, <2>2 DEF Prevalidate
<1>3. CASE RunPretrans \/ RunPre \/ RunPost \/ RunPreun \/ RunPostun \/ PassPrior
           \/ BeginErasePrior \/ FilesErased \/ WriteDb
  BY <1>3 DEF RunPretrans, RunPre, RunPost, RunPreun, RunPostun, PassPrior, BeginErasePrior,
              FilesErased, WriteDb, Commit, Goto, PlanInv, Untouched, Planned
<1>4. CASE BeginInstall \/ BeginErase \/ PriorsDone \/ EraseRow
  BY <1>4 DEF BeginInstall, BeginErase, PriorsDone, EraseRow, AfterErase, CompleteItem, Finish,
              Goto, PlanInv, Untouched, Planned
<1>5. CASE \E path \in Paths : InstallFile(path) \/ WriteFile(path) \/ EraseFile(path)
  BY <1>5 DEF InstallFile, WriteFile, EraseFile, ErasePath, Goto, Finish, PlanInv, Untouched, Planned
<1>6. CASE \E o : Finish(o)
  BY <1>6 DEF Finish, PlanInv, Untouched, Planned
<1>7. CASE UNCHANGED vars
  BY <1>7 DEF vars, PlanInv, Untouched, Planned
<1> QED
  BY <1>1, <1>2, <1>3, <1>4, <1>5, <1>6, <1>7 DEF Next, Run, Fail, Crash, Done, RunPosttrans

-----------------------------------------------------------------------------
(* The current item                                                        *)

\* What the executor may rely on while it processes an item.
LEMMA SoundItem ==
    ASSUME TypeOK, PlanSound(txn), pos <= Len(txn.order)
    PROVE  /\ txn.order[pos] \in ItemIds(txn) /\ pos \in Indices(txn.order)
           /\ Item \in Items /\ ItemPriors \in Seq(PlanRows)
           /\ PriorHnums(Item) = {ItemPriors[k].hnum : k \in Indices(ItemPriors)}
           /\ \A k \in Indices(ItemPriors) : ItemPriors[k].hnum \in PriorHnums(Item)
           /\ PriorHnums(Item) \subseteq Indices(txn.db)
           /\ Replaces(Item) => /\ Primary(txn, txn.order[pos]) \in PriorHnums(Item)
                                /\ Primary(txn, txn.order[pos]) = ItemPriors[1].hnum
                                /\ ItemPriors # <<>> /\ 1 \in Indices(ItemPriors)
           /\ Item.type = "erase" => /\ ItemPriors = <<>> /\ PriorHnums(Item) = {}
                                     /\ Item.hnum \in Indices(txn.db) /\ ~Replaces(Item)
<1>0. txn \in Txns
  BY DEF TypeOK
<1>1. txn.order[pos] \in ItemIds(txn) /\ Item \in Items
  BY CurrentItem DEF PlanSound
<1>2. pos \in Indices(txn.order)
  BY Lengths DEF TypeOK, Hnums, Indices
<1>3. /\ ItemPriors \in Seq(PlanRows)
      /\ PriorHnums(Item) = {ItemPriors[k].hnum : k \in Indices(ItemPriors)}
  BY <1>0, <1>1, Visited DEF Item, ItemPriors
<1>4. PriorHnums(Item) \subseteq Indices(txn.db)
  BY <1>1 DEF PlanSound, RowsFound, Item
<1>5. Replaces(Item) => /\ Primary(txn, txn.order[pos]) \in PriorHnums(Item)
                        /\ Primary(txn, txn.order[pos]) = ItemPriors[1].hnum
                        /\ ItemPriors # <<>> /\ 1 \in Indices(ItemPriors)
  BY <1>0, <1>1, PrimaryIsPrior DEF PlanSound, RowsFound, Item, ItemPriors, Primary
<1>6. Item.type = "erase" => /\ ItemPriors = <<>>
                             /\ Item.hnum \in Indices(txn.db) /\ ~Replaces(Item)
  BY <1>1 DEF PlanSound, RowsFound, Item, ItemPriors, Erases, Replaces
<1>7. Item.type = "erase" => PriorHnums(Item) = {}
  <2>1. Indices(<<>>) = {}
    BY DEF Indices
  <2> QED BY <1>3, <1>6, <2>1
<1>8. \A k \in Indices(ItemPriors) : ItemPriors[k].hnum \in PriorHnums(Item)
  BY <1>3
<1> QED BY <1>1, <1>2, <1>3, <1>4, <1>5, <1>6, <1>7, <1>8

\* The row that selectReplacementPriorIndex picks is the item's own primary, or a
\* prior that is nobody's.
LEMMA ReplacementRole ==
    ASSUME TypeOK, PlanSound(txn), pos <= Len(txn.order)
    PROVE  IF Replaces(Item) THEN Replacement = ItemPriors[1].hnum
           ELSE Replacement = 0 \/ Replacement \in PriorHnums(Item) \ PrimaryHnums(txn)
<1>1. CASE Replaces(Item) \/ Replaceable = {}
  BY <1>1 DEF Replacement
<1>2. CASE ~Replaces(Item) /\ Replaceable # {}
  <2> DEFINE first == CHOOSE k \in Replaceable : \A j \in Replaceable : k <= j
  <2>1. Replaceable \subseteq Indices(ItemPriors) /\ Indices(ItemPriors) \subseteq Nat
    BY DEF Replaceable, Indices
  <2>2. \E k \in Replaceable : \A j \in Replaceable : k <= j
    BY <1>2, <2>1, SmallestIndex
  <2>3. first \in Replaceable
    BY <2>2, Zenon
  <2> HIDE DEF first
  <2>4. Replacement = ItemPriors[first].hnum
    BY <1>2, Zenon DEF Replacement, first
  <2>5. ItemPriors[first].hnum \notin PrimaryHnums(txn)
    BY <2>3 DEF Replaceable
  <2>6. ItemPriors[first].hnum \in PriorHnums(Item)
    BY <2>1, <2>3, SoundItem
  <2> QED BY <1>2, <2>4, <2>5, <2>6
<1> QED BY <1>1, <1>2

\* One more item is behind the iterator.
LEMMA OneMore ==
    ASSUME NEW n \in Nat \ {0}, NEW f
    PROVE  {f[k] : k \in 1..((n + 1) - 1)} = {f[k] : k \in 1..(n - 1)} \cup {f[n]}
<1>1. 1..((n + 1) - 1) = (1..(n - 1)) \cup {n}
  OBVIOUS
<1> QED BY <1>1

\* Completing an item.
LEMMA CompleteProgress ==
    ASSUME TypeOK, CompleteItem, pos <= Len(txn.order),
           completed = {txn.order[k] : k \in 1..(pos - 1)}
    PROVE  Progress' /\ Roles'
<1>1. completed' = {txn.order[k] : k \in 1..((pos + 1) - 1)}
  BY OneMore DEF CompleteItem, TypeOK, Hnums
<1>2. pos + 1 <= Len(txn.order) + 1
  BY Lengths DEF TypeOK, Hnums
<1>3. Progress'
  BY <1>1, <1>2 DEF CompleteItem, Progress, Working, Written, Erasing
<1>4. Roles'
  BY DEF CompleteItem, Roles, Working, Written, Erasing
<1> QED BY <1>3, <1>4

CursorInv == Progress /\ Roles

\* The executor knows which item it is at, which row the item replaces and which
\* row it is erasing.
LEMMA NextCursor ==
    TypeInv /\ ViewInv /\ PlanInv /\ CursorInv /\ [Next]_vars => CursorInv'
<1> SUFFICES ASSUME TypeInv, ViewInv, PlanInv, CursorInv, [Next]_vars PROVE CursorInv'
  OBVIOUS
<1> USE DEF viewVars, stateVars
<1>t. TypeOK /\ PlanSettled /\ Progress /\ Roles
  BY DEF TypeInv, CursorInv
<1>s. pc \in {"item"} \cup Working => PlanSound(txn)
  BY DEF PlanInv, Planned, Working, Written, Erasing
<1>1. CASE Validate \/ Prevalidate
  BY <1>1 DEF Validate, Prevalidate, Finish, Goto, CursorInv, Progress, Roles, Working, Written, Erasing
<1>2. CASE RunPretrans
  <2>1. pos = 1 /\ completed = {} /\ next = 1 /\ Len(txn.order) \in Nat
    BY <1>t, <1>2, Lengths DEF RunPretrans, PlanInv, Untouched
  <2>2. pos <= Len(txn.order) + 1
    BY <2>1
  <2>3. completed = {txn.order[k] : k \in 1..(pos - 1)}
    <3>1. 1..(1 - 1) = {}
      OBVIOUS
    <3> QED BY <2>1, <3>1
  <2> QED BY <1>2, <2>1, <2>2, <2>3 DEF RunPretrans, Goto, CursorInv, Progress, Roles, Working, Written, Erasing
<1>3. CASE RunPre \/ RunPost \/ RunPreun \/ RunPostun \/ PassPrior \/ FilesErased \/ WriteDb
  BY <1>t, <1>3 DEF RunPre, RunPost, RunPreun, RunPostun, PassPrior, FilesErased, WriteDb, Commit,
       Goto, CursorInv, Progress, Roles, Working, Written, Erasing, Test, Item, ItemPriors
<1>4. CASE BeginErasePrior
  <2>1. victim' \in PriorHnums(Item)
    <3>1. next \in Indices(ItemPriors)
      <4>1. ItemPriors \in Seq(PlanRows) /\ Len(ItemPriors) \in Nat
        BY <1>t, <1>s, <1>4, SoundItem DEF BeginErasePrior, PlanSettled, Working, Written
      <4> QED BY <1>t, <1>4, <4>1 DEF BeginErasePrior, TypeOK, Hnums, Indices
    <3> QED BY <1>t, <1>s, <1>4, <3>1, SoundItem DEF BeginErasePrior, PlanSettled, Working, Written
  <2>2. victim' = repl \/ victim' \notin PrimaryHnums(txn)
    BY <1>4 DEF BeginErasePrior, SkipPrior
  <2> QED
    BY <1>t, <1>4, <2>1, <2>2 DEF BeginErasePrior, Goto, CursorInv, Progress, Roles, Working, Written, Erasing,
       Test, Item, ItemPriors
<1>5. CASE BeginInstall \/ BeginErase
  <2>0. pc = "item" /\ pos <= Len(txn.order) /\ PlanSound(txn)
    BY <1>s, <1>5 DEF BeginInstall, BeginErase
  <2>1. CASE Finish("invalid")
    BY <2>1 DEF Finish, CursorInv, Progress, Roles, Working, Written, Erasing
  <2>2. CASE CompleteItem
    BY <1>t, <2>0, <2>2, CompleteProgress DEF CursorInv, Progress
  <2>3. CASE repl' = Replacement /\ ~Test /\ BeginInstall /\ Goto("pre")
             /\ UNCHANGED <<pos, viewVars, stateVars, todo, next, victim>>
    <3>1. IF Replaces(Item) THEN repl' = ItemPriors[1].hnum
          ELSE repl' = 0 \/ repl' \in PriorHnums(Item) \ PrimaryHnums(txn)
      BY <1>t, <2>0, <2>3, ReplacementRole
    <3> QED
      BY <1>t, <2>0, <2>3, <3>1 DEF BeginInstall, Goto, CursorInv, Progress, Roles, Working, Written, Erasing,
         Test, Item, ItemPriors
  <2>4. CASE victim' = Item.hnum /\ ~Test /\ BeginErase /\ Goto("preun")
             /\ UNCHANGED <<pos, viewVars, stateVars, todo, repl, next>>
    <3>1. repl = 0 /\ ~Replaces(Item)
      BY <2>0, <2>4 DEF BeginErase, Replaces, ViewInv, VictimsInErase, Working, Written, Erasing
    <3> QED
      BY <1>t, <2>0, <2>4, <3>1 DEF BeginErase, Goto, CursorInv, Progress, Roles, Working, Written, Erasing,
         Test, Item, ItemPriors
  <2> QED BY <1>5, <2>1, <2>2, <2>3, <2>4 DEF BeginInstall, BeginErase
<1>6. CASE PriorsDone
  BY <1>t, <1>6, CompleteProgress DEF PriorsDone, CursorInv, Progress, PlanSettled, Working, Written
<1>7. CASE EraseRow
  <2>1. CASE pc' = "end"
    BY <2>1 DEF CursorInv, Progress, Roles, Working, Written, Erasing
  <2>2. CASE CompleteItem
    BY <1>t, <1>7, <2>2, CompleteProgress DEF EraseRow, CursorInv, Progress, PlanSettled, Working, Written, Erasing
  <2>3. CASE Item.type # "erase" /\ Goto("priors") /\ UNCHANGED <<pos, todo, repl, next>>
    BY <1>t, <1>7, <2>3 DEF EraseRow, Goto, CursorInv, Progress, Roles, Working, Written, Erasing,
         Test, Item, ItemPriors
  <2> QED BY <1>7, <2>1, <2>2, <2>3 DEF EraseRow, AfterErase
<1>8. CASE \E path \in Paths : InstallFile(path) \/ WriteFile(path) \/ EraseFile(path)
  BY <1>t, <1>8 DEF InstallFile, WriteFile, EraseFile, ErasePath, Goto, Finish, CursorInv, Progress, Roles,
       Working, Written, Erasing, Test, Item, ItemPriors
<1>9. CASE \E o : Finish(o)
  BY <1>9 DEF Finish, CursorInv, Progress, Roles, Working, Written, Erasing
<1>10. CASE UNCHANGED vars
  BY <1>t, <1>10 DEF vars, CursorInv, Progress, Roles, Test, Item, ItemPriors
<1> QED
  BY <1>1, <1>2, <1>3, <1>4, <1>5, <1>6, <1>7, <1>8, <1>9, <1>10
  DEF Next, Run, Fail, Crash, Done, RunPosttrans

-----------------------------------------------------------------------------
(* No refusal on the way                                                   *)

\* The row being erased is none that another item erases or replaces.
LEMMA VictimIsOwn ==
    ASSUME TypeOK, PlanSound(txn), Roles, pc \in Erasing, pos <= Len(txn.order),
           NEW k \in Indices(txn.order), k # pos
    PROVE  /\ Erases(txn, txn.order[k]) => txn.items[txn.order[k]].hnum # victim
           /\ Replaces(txn.items[txn.order[k]]) => Primary(txn, txn.order[k]) # victim
<1> DEFINE i == txn.order[pos]
<1> DEFINE o == txn.order[k]
<1>1. o \in ItemIds(txn) /\ i \in ItemIds(txn) /\ o # i /\ Item = txn.items[i]
  <2>1. IsPermutation(txn.order, Len(txn.items)) /\ Len(txn.items) \in Nat
    BY Lengths DEF PlanSound
  <2>2. pos \in Indices(txn.order)
    BY SoundItem
  <2> QED BY <2>1, <2>2 DEF IsPermutation, Indices, ItemIds, Item
<1>2. RowsUnshared(txn) /\ RowsFound(txn)
  BY DEF PlanSound
<1> HIDE DEF i, o
<1>3. /\ Erases(txn, o) =>
            /\ Erases(txn, i) => txn.items[o].hnum # txn.items[i].hnum
            /\ txn.items[o].hnum \notin PriorHnums(txn.items[i])
      /\ Replaces(txn.items[i]) /\ Replaces(txn.items[o]) => Primary(txn, i) # Primary(txn, o)
      /\ Erases(txn, i) => txn.items[i].hnum \notin PriorHnums(txn.items[o])
  BY <1>1, <1>2 DEF RowsUnshared
<1>4. Replaces(txn.items[o]) =>
         Primary(txn, o) \in PriorHnums(txn.items[o]) /\ Primary(txn, o) \in PrimaryHnums(txn)
  <2>1. txn \in Txns
    BY DEF TypeOK
  <2>2. Replaces(txn.items[o]) => Priors(txn, o) # <<>>
    BY <1>1, <1>2 DEF RowsFound
  <2>3. Replaces(txn.items[o]) => Primary(txn, o) \in PriorHnums(txn.items[o])
    BY <1>1, <2>1, <2>2, PrimaryIsPrior
  <2>4. Replaces(txn.items[o]) => Primary(txn, o) \in PrimaryHnums(txn)
    BY <1>1, <2>2, Zenon DEF PrimaryHnums, Primary
  <2> QED BY <2>3, <2>4
<1>5. CASE Item.type = "erase"
  BY <1>1, <1>3, <1>4, <1>5 DEF Roles, Erases, o, i
<1>6. CASE Item.type # "erase"
  <2>1. /\ victim \in PriorHnums(txn.items[i])
        /\ victim = repl \/ victim \notin PrimaryHnums(txn)
    BY <1>1, <1>6 DEF Roles
  <2>2. IF Replaces(Item) THEN repl = Primary(txn, i)
        ELSE repl = 0 \/ repl \notin PrimaryHnums(txn)
    BY SoundItem DEF Roles, Working, Written, i
  <2>3. 0 \notin PriorHnums(txn.items[i])
    <3>1. 0 \notin Indices(txn.db)
      BY DEF Indices
    <3> QED BY <1>1, <3>1, SoundItem
  <2> QED BY <1>1, <1>3, <1>4, <2>1, <2>2, <2>3 DEF o
<1> QED BY <1>5, <1>6

SelectionInv == Waiting /\ Visibility

\* Completing an item: the others still wait.
LEMMA CompleteSelection ==
    ASSUME TypeOK, Waiting, CompleteItem, pos <= Len(txn.order), UNCHANGED active,
           pc \in {"item"} \cup Working, ~NoDb => active \subseteq visible'
    PROVE  SelectionInv'
<1>1. \A k \in Indices(txn.order) : pos + 1 <= k => pos < k /\ pos <= k
  BY DEF TypeOK, Hnums, Indices
<1>2. Waiting'
  BY <1>1 DEF Waiting, CompleteItem
<1>3. Visibility'
  BY DEF Visibility, CompleteItem, NoDb, Erasing
<1> QED BY <1>2, <1>3 DEF SelectionInv

\* No item takes the row that another one needs, and a row stays visible until
\* its erase ends.
LEMMA NextSelection ==
    TypeInv /\ ViewInv /\ PlanInv /\ CursorInv /\ SelectionInv /\ [Next]_vars => SelectionInv'
<1> SUFFICES ASSUME TypeInv, ViewInv, PlanInv, CursorInv, SelectionInv, [Next]_vars
             PROVE  SelectionInv'
  OBVIOUS
<1> USE DEF viewVars, stateVars
<1>t. TypeOK /\ PlanSettled /\ Progress /\ Roles /\ Waiting /\ Visibility
  BY DEF TypeInv, CursorInv, SelectionInv
<1>s. pc \notin {"validate", "prevalidate", "end"} => PlanSound(txn)
  BY DEF PlanInv, Planned
<1>1. CASE Validate \/ Prevalidate
  BY <1>1 DEF Validate, Prevalidate, Finish, Goto, SelectionInv, Waiting, Visibility, NoDb,
              PlanInv, Untouched, Working, Written, Erasing
<1>2. CASE RunPretrans
  <2>1. active = Indices(txn.db) /\ PlanSound(txn)
    BY <1>2, <1>s DEF RunPretrans, PlanInv, Untouched
  <2>2. \A k \in Indices(txn.order) :
           /\ Erases(txn, txn.order[k]) => txn.items[txn.order[k]].hnum \in active
           /\ Replaces(txn.items[txn.order[k]]) => Primary(txn, txn.order[k]) \in active
    <3> TAKE k \in Indices(txn.order)
    <3>1. txn.order[k] \in ItemIds(txn) /\ txn \in Txns
      BY <1>t, <2>1 DEF TypeOK, PlanSound, IsPermutation, Indices, ItemIds
    <3> QED BY <2>1, <3>1, PrimaryIsPrior DEF PlanSound, RowsFound
  <2> QED
    BY <1>t, <1>2, <2>2 DEF RunPretrans, Goto, SelectionInv, Waiting, Visibility, NoDb, Erasing
<1>3. CASE RunPre \/ RunPost \/ RunPreun \/ PassPrior \/ WriteDb
  BY <1>t, <1>3 DEF RunPre, RunPost, RunPreun, PassPrior, WriteDb, Commit,
       Goto, SelectionInv, Waiting, Visibility, NoDb, Working, Written, Erasing
<1>4. CASE RunPostun
  BY <1>t, <1>4 DEF RunPostun, Goto, SelectionInv, Waiting, Visibility, NoDb, Working, Written, Erasing
<1>5. CASE BeginErasePrior
  BY <1>t, <1>5 DEF BeginErasePrior, SkipPrior, Goto, SelectionInv, Waiting, Visibility, NoDb,
       Working, Written, Erasing
<1>6. CASE BeginInstall \/ BeginErase
  <2>0. pc = "item" /\ pos <= Len(txn.order)
    BY <1>6 DEF BeginInstall, BeginErase
  <2>1. CASE Finish("invalid")
    BY <2>1 DEF Finish, SelectionInv, Waiting, Visibility, Working, Written, Erasing
  <2>2. CASE CompleteItem /\ UNCHANGED <<viewVars, stateVars>>
    BY <1>t, <2>0, <2>2, CompleteSelection DEF Visibility
  <2>3. CASE (pc' = "pre" \/ (pc' = "preun" /\ victim' \in active)) /\ txn' = txn
             /\ UNCHANGED <<pos, viewVars, stateVars>>
    <3>1. \A k \in Indices(txn.order) : pos < k => pos <= k
      BY <1>t DEF TypeOK, Hnums, Indices
    <3> QED
      BY <1>t, <2>0, <2>3, <3>1 DEF SelectionInv, Waiting, Visibility, NoDb, Working, Written, Erasing
  <2> QED BY <1>6, <2>1, <2>2, <2>3 DEF BeginInstall, BeginErase, Goto
<1>7. CASE PriorsDone
  BY <1>t, <1>7, CompleteSelection DEF PriorsDone, PlanSettled, Working, Written, Visibility
<1>8. CASE FilesErased
  <2>1. \A k \in Indices(txn.order) : pos < k =>
           /\ Erases(txn, txn.order[k]) => txn.items[txn.order[k]].hnum # victim
           /\ Replaces(txn.items[txn.order[k]]) => Primary(txn, txn.order[k]) # victim
    <3>1. pos <= Len(txn.order) /\ PlanSound(txn) /\ pc \in Erasing
      BY <1>t, <1>s, <1>8 DEF FilesErased, PlanSettled, Working, Written, Erasing
    <3>2. \A k \in Indices(txn.order) : pos < k => k # pos
      BY <1>t DEF TypeOK, Hnums, Indices
    <3> QED BY <1>t, <3>1, <3>2, VictimIsOwn
  <2>2. Waiting'
    BY <1>t, <1>8, <2>1 DEF FilesErased, Goto, Waiting, Working, Written, Erasing
  <2>3. Visibility'
    BY <1>t, <1>8 DEF FilesErased, Goto, Visibility, NoDb, Erasing
  <2> QED BY <2>2, <2>3 DEF SelectionInv
<1>9. CASE EraseRow
  <2>1. CASE pc' = "end"
    BY <2>1 DEF SelectionInv, Waiting, Visibility, Working, Written, Erasing
  <2>2. ~NoDb => active \subseteq visible'
    BY <1>t, <1>9 DEF EraseRow, Visibility
  <2>3. CASE CompleteItem
    BY <1>t, <1>9, <2>2, <2>3, CompleteSelection
    DEF EraseRow, PlanSettled, Working, Written, Erasing
  <2>4. CASE Goto("priors") /\ UNCHANGED <<pos, todo, repl, next>>
    BY <1>t, <1>9, <2>2, <2>4
    DEF EraseRow, Goto, SelectionInv, Waiting, Visibility, NoDb, Working, Written, Erasing
  <2> QED BY <1>9, <2>1, <2>3, <2>4 DEF EraseRow, AfterErase
<1>10. CASE \E path \in Paths : InstallFile(path) \/ WriteFile(path) \/ EraseFile(path)
  BY <1>t, <1>10 DEF InstallFile, WriteFile, EraseFile, ErasePath, Goto, Finish, SelectionInv, Waiting,
       Visibility, NoDb, Working, Written, Erasing
<1>11. CASE \E o : Finish(o)
  BY <1>11 DEF Finish, SelectionInv, Waiting, Visibility, Working, Written, Erasing
<1>12. CASE UNCHANGED vars
  BY <1>t, <1>12 DEF vars, SelectionInv, Waiting, Visibility, NoDb
<1> QED
  BY <1>1, <1>2, <1>3, <1>4, <1>5, <1>6, <1>7, <1>8, <1>9, <1>10, <1>11, <1>12
  DEF Next, Run, Fail, Crash, Done, RunPosttrans

BaseInv == TypeInv /\ ViewInv /\ PlanInv /\ CursorInv /\ SelectionInv

\* The first state: nothing is claimed of an item yet.
LEMMA InitBase == Init => BaseInv
<1> SUFFICES ASSUME Init PROVE CursorInv /\ SelectionInv
  BY InitTypes, InitFiles, InitPlan DEF BaseInv
<1> QED
  BY DEF Init, Start, CursorInv, Progress, Roles, SelectionInv, Waiting, Visibility,
         Working, Written, Erasing

LEMMA NextBase == BaseInv /\ [Next]_vars => BaseInv'
  BY NextTypes, NextView, NextPlan, NextCursor, NextSelection DEF BaseInv

\* The check of selectReplacementPriorIndex holds whenever it is made.
LEMMA SelectionHolds ==
    ASSUME BaseInv, pc = "item", pos <= Len(txn.order)
    PROVE  SelectionValid /\ (Item.type = "erase" => Item.hnum \in active)
<1>1. TypeOK /\ PlanSound(txn) /\ Waiting
  BY DEF BaseInv, TypeInv, PlanInv, Planned, SelectionInv
<1>2. pos \in Indices(txn.order) /\ pos <= pos
  BY <1>1, SoundItem DEF Indices
<1>3. /\ Erases(txn, txn.order[pos]) => txn.items[txn.order[pos]].hnum \in active
      /\ Replaces(txn.items[txn.order[pos]]) => Primary(txn, txn.order[pos]) \in active
  BY <1>1, <1>2 DEF Waiting
<1>4. \A k \in Indices(ItemPriors) : ItemPriors[k].hnum \in Indices(txn.db)
  BY <1>1, SoundItem
<1>5. Replaces(Item) => ItemPriors # <<>> /\ ItemPriors[1].hnum = Primary(txn, txn.order[pos])
  BY <1>1, SoundItem
<1> QED BY <1>3, <1>4, <1>5 DEF SelectionValid, Item, Erases

\* The rows of a victim are visible when they are erased.
LEMMA EraseRowSucceeds ==
    ASSUME BaseInv, EraseRow
    PROVE  AfterErase
  BY DEF BaseInv, SelectionInv, Visibility, EraseRow, Erasing

\* No step refuses a plan but the checks before the first change.
LEMMA NextRefused == BaseInv /\ RefusedBeforeChange /\ [Next]_vars => RefusedBeforeChange'
<1> SUFFICES ASSUME BaseInv, RefusedBeforeChange, [Next]_vars, rc' \in {"invalid", "mismatch"}
             PROVE  rows' = Indices(txn'.db) /\ disk' = InitialDisk(txn')
  BY DEF RefusedBeforeChange
<1> USE DEF viewVars, stateVars
<1>t. Untouched /\ (pc # "end" => rc = "none")
  BY DEF BaseInv, PlanInv, Planned
<1>1. CASE Validate \/ Prevalidate
  BY <1>t, <1>1 DEF Validate, Prevalidate, Finish, Goto, Untouched
<1>2. CASE BeginInstall \/ BeginErase
  <2>1. pc = "item" /\ SelectionValid /\ (Item.type = "erase" => Item.hnum \in active)
    BY <1>2, SelectionHolds DEF BeginInstall, BeginErase
  <2> QED BY <1>t, <1>2, <2>1 DEF BeginInstall, BeginErase, CompleteItem, Goto
<1>3. CASE EraseRow
  <2>1. AfterErase /\ pc = "eraseRow"
    BY <1>3, EraseRowSucceeds DEF EraseRow
  <2> QED BY <1>t, <2>1 DEF AfterErase, CompleteItem, Goto
<1>4. CASE RunPretrans \/ RunPre \/ RunPost \/ RunPreun \/ RunPostun \/ PassPrior
           \/ BeginErasePrior \/ PriorsDone \/ FilesErased \/ WriteDb
  BY <1>t, <1>4 DEF RunPretrans, RunPre, RunPost, RunPreun, RunPostun, PassPrior, BeginErasePrior,
              PriorsDone, CompleteItem, FilesErased, WriteDb, Commit, Goto
<1>5. CASE \E path \in Paths : InstallFile(path) \/ WriteFile(path) \/ EraseFile(path)
  BY <1>t, <1>5 DEF InstallFile, WriteFile, EraseFile, ErasePath, Goto, Finish
<1>6. CASE \E o \in {"ok", "failed", "crashed"} : Finish(o)
  BY <1>6 DEF Finish
<1>7. CASE UNCHANGED vars
  BY <1>7 DEF vars, RefusedBeforeChange
<1> QED
  BY <1>1, <1>2, <1>3, <1>4, <1>5, <1>6, <1>7 DEF Next, Run, Fail, Crash, Done, RunPosttrans

\* A plan that the executor refuses has changed neither a row nor a file, for
\* every plan and every database: what it checks on its way, the primary of an
\* item still active, an erased row still there and still visible, follows from
\* validateFixedOrder and prevalidatePlanStructure, however items share priors.
THEOREM RefusalsChangeNothing == Spec => []RefusedBeforeChange
<1> DEFINE Inv == BaseInv /\ RefusedBeforeChange
<1>1. Init => Inv
  BY InitBase DEF Init, Start, RefusedBeforeChange
<1>2. Inv /\ [Next]_vars => Inv'
  BY NextBase, NextRefused
<1>3. Inv => RefusedBeforeChange
  OBVIOUS
<1> QED BY <1>1, <1>2, <1>3, PTL DEF Spec

-----------------------------------------------------------------------------
(* Rows                                                                    *)

\* The transaction is what it was.
LEMMA TxnStays == ASSUME [Next]_vars PROVE txn' = txn
  BY DEF Next, Run, Fail, Crash, Done, RunPosttrans, Validate, Prevalidate, RunPretrans, RunPre, RunPost,
         RunPreun, RunPostun, PassPrior, BeginErasePrior, PriorsDone, CompleteItem, FilesErased,
         WriteDb, Commit, Goto, Finish, BeginInstall, BeginErase, EraseRow, AfterErase, InstallFile, WriteFile,
         EraseFile, ErasePath, vars

\* Only two steps change the rpmdb.
LEMMA RowSteps ==
    ASSUME [Next]_vars
    PROVE  \/ rows' = rows
           \/ ~NoDb /\ WriteDb /\ rows' = (rows \ {repl}) \cup {ItemHnum}
           \/ ~NoDb /\ EraseRow /\ victim # repl /\ rows' = rows \ {victim}
<1> USE DEF viewVars, stateVars
<1>1. CASE WriteDb \/ EraseRow
  BY <1>1 DEF WriteDb, Commit, EraseRow
<1>2. CASE UNCHANGED vars
  BY <1>2 DEF vars
<1>3. CASE ~(WriteDb \/ EraseRow) /\ Next
  BY <1>3 DEF Next, Run, Fail, Crash, Done, RunPosttrans, Validate, Prevalidate, RunPretrans, RunPre,
         RunPost, RunPreun, RunPostun, PassPrior, BeginErasePrior, PriorsDone, FilesErased,
         Goto, Finish, BeginInstall, BeginErase, InstallFile, WriteFile, EraseFile, ErasePath, vars
<1> QED BY <1>1, <1>2, <1>3

\* Rows that leave are rows of the old database that the plan removes; the new
\* row is one that the old database did not have.
LEMMA RoleRows ==
    ASSUME BaseInv, pc \in Working
    PROVE  /\ repl = 0 \/ (repl \in RemovedHnums(txn) /\ repl \in PriorHnums(Item))
           /\ repl # 0 => Item.type # "erase"
           /\ pc \in Erasing => victim \in RemovedHnums(txn)
           /\ RemovedHnums(txn) \subseteq Indices(txn.db)
           /\ Item.type # "erase" => ItemHnum \in NewHnums(txn)
           /\ ItemHnum = NewHnum(txn, txn.order[pos])
           /\ NewHnums(txn) \cap Indices(txn.db) = {}
           /\ 0 \notin Indices(txn.db) /\ 0 \notin NewHnums(txn)
<1>1. TypeOK /\ PlanSound(txn) /\ Roles /\ pos <= Len(txn.order)
  BY DEF BaseInv, TypeInv, PlanSettled, PlanInv, Planned, CursorInv, Working, Written, Erasing
<1>2. txn.order[pos] \in ItemIds(txn) /\ Item = txn.items[txn.order[pos]]
  BY <1>1, SoundItem DEF Item
<1>3. PriorHnums(Item) \subseteq RemovedHnums(txn)
  BY <1>2 DEF RemovedHnums
<1>4. Item.type = "erase" => Item.hnum \in RemovedHnums(txn)
  BY <1>2, Zenon DEF RemovedHnums, ErasedRows, ItemIds
<1>5. repl = 0 \/ repl \in PriorHnums(Item)
  BY <1>1, SoundItem DEF Roles
<1>6. pc \in Erasing => victim \in RemovedHnums(txn)
  BY <1>1, <1>3, <1>4 DEF Roles
<1>7. RemovedHnums(txn) \subseteq Indices(txn.db)
  BY <1>1 DEF PlanSound, RowsFound, RemovedHnums, ErasedRows, Erases, ItemIds
<1>8. Item.type # "erase" => ItemHnum \in NewHnums(txn)
  BY <1>2, Zenon DEF ItemHnum, NewHnums, AddedItems
<1>9. NewHnums(txn) \cap Indices(txn.db) = {} /\ 0 \notin NewHnums(txn)
  <2>1. \A i \in ItemIds(txn) : NewHnum(txn, i) \notin Indices(txn.db) /\ NewHnum(txn, i) # 0
    BY <1>1, Lengths DEF NewHnum, ItemIds, Indices
  <2> QED BY <2>1 DEF NewHnums, AddedItems
<1>10. 0 \notin Indices(txn.db)
  BY DEF Indices
<1>11. repl # 0 => Item.type # "erase"
  BY <1>1, <1>5, SoundItem
<1> QED BY <1>3, <1>5, <1>6, <1>7, <1>8, <1>9, <1>10, <1>11 DEF ItemHnum

\* A row that a sound plan removes holds the NEVRA that the plan says it does.
RecordedRow(t, h) ==
    \E i \in ItemIds(t) :
        \/ t.items[i].hnum = h /\ SameNevra(t.items[i].pkg, t.db[h])
        \/ \E k \in Indices(t.items[i].priors) :
              /\ t.items[i].priors[k].hnum = h
              /\ SameNevra(t.items[i].priors[k].pkg, t.db[h])

LEMMA SoundRowsRecorded ==
    ASSUME TypeOK, PlanSound(txn), NEW h \in RemovedHnums(txn)
    PROVE  RecordedRow(txn, h)
<1>1. CASE h \in ErasedRows(txn.items)
  <2> PICK i \in ItemIds(txn) : Erases(txn, i) /\ h = txn.items[i].hnum
    BY <1>1 DEF ErasedRows, Erases, ItemIds
  <2> QED BY DEF PlanSound, RowsFound, RecordedRow
<1>2. CASE \E i \in ItemIds(txn) : h \in PriorHnums(txn.items[i])
  <2> PICK i \in ItemIds(txn) : h \in PriorHnums(txn.items[i])
    BY <1>2
  <2>1. PICK k \in Indices(txn.items[i].priors) : h = txn.items[i].priors[k].hnum
    BY DEF PriorHnums
  <2>2. SameNevra(txn.items[i].priors[k].pkg, txn.db[h])
    BY <2>1 DEF PlanSound, RowsFound
  <2> QED BY <2>1, <2>2 DEF RecordedRow
<1> QED BY <1>1, <1>2 DEF RemovedHnums

\* The executor takes away only what was planned or recorded, whatever the
\* recording says and however the database differs from the one it was made on: a
\* row that no longer holds the NEVRA it had stays (identityMatchesHeader).
THEOREM RemovesAsRecorded == Spec => []RemovedAsRecorded
<1> DEFINE Inv == BaseInv /\ RemovedAsRecorded
<1>0. RemovedAsRecorded <=> \A h \in Indices(txn.db) \ rows : RecordedRow(txn, h)
  BY DEF RemovedAsRecorded, RecordedRow
<1>1. Init => Inv
  BY <1>0, InitBase DEF Init, Start
<1>2. Inv /\ [Next]_vars => Inv'
  <2> SUFFICES ASSUME BaseInv, RemovedAsRecorded, [Next]_vars
               PROVE  RemovedAsRecorded'
    BY NextBase
  <2>0. (RemovedAsRecorded <=> \A h \in Indices(txn.db) \ rows : RecordedRow(txn, h))'
    BY DEF RemovedAsRecorded, RecordedRow
  <2>1. txn' = txn
    BY TxnStays
  <2>2. ASSUME NEW h \in Indices(txn.db) \ rows', h \in rows PROVE RecordedRow(txn, h)
    <3>1. pc \in Working /\ (h = repl \/ (pc \in Erasing /\ h = victim))
      BY <2>2, RowSteps DEF WriteDb, Commit, EraseRow, Working, Written, Erasing
    <3>2. h # 0
      BY DEF Indices
    <3>3. h \in RemovedHnums(txn)
      BY <3>1, <3>2, RoleRows
    <3>4. TypeOK /\ PlanSound(txn)
      BY <3>1 DEF BaseInv, TypeInv, PlanInv, Planned, Working, Written, Erasing
    <3> QED BY <3>3, <3>4, SoundRowsRecorded
  <2> QED BY <1>0, <2>0, <2>1, <2>2
<1>3. Inv => RemovedAsRecorded
  OBVIOUS
<1> QED BY <1>1, <1>2, <1>3, PTL DEF Spec

\* The rows of the goal are numbers from 1.
LEMMA GoalIsRows == ASSUME TypeOK PROVE Indices(txn.db) \subseteq Hnums /\ GoalRows(txn) \subseteq Hnums
<1>1. Indices(txn.db) \subseteq Hnums
  BY DEF Indices, Hnums
<1>2. \A i \in ItemIds(txn) : NewHnum(txn, i) \in Hnums
  BY Lengths DEF NewHnum, ItemIds, Indices, Hnums
<1> QED BY <1>1, <1>2 DEF GoalRows, NewHnums, AddedItems

\* Readers of the rpmdb see the abstract transaction of InstalledSet: every commit
\* of the executor adds at most one row, of the goal, and takes at most one away,
\* not of the goal; a row that stays is never missing, and no removed row returns.
THEOREM RefinesInstalledSet == Spec => CommitsTowardsGoal
<1>1. Init => Abstract!Init
  BY InitTypes, GoalIsRows DEF Init, Start, TypeInv, Abstract!Init
<1>2. BaseInv /\ [Next]_vars => [Abstract!Next]_<<rows, GoalRows(txn)>>
  <2> SUFFICES ASSUME BaseInv, [Next]_vars
               PROVE  \/ Abstract!Next
                      \/ UNCHANGED <<rows, GoalRows(txn)>>
    OBVIOUS
  <2>1. GoalRows(txn)' = GoalRows(txn)
    BY TxnStays
  <2>2. CASE rows' = rows
    BY <2>1, <2>2
  <2>3. CASE WriteDb /\ rows' = (rows \ {repl}) \cup {ItemHnum}
    <3>1. pc \in Working /\ Item.type # "erase"
      BY <2>3 DEF WriteDb, Commit, Working, BaseInv, CursorInv, Roles
    <3>2. /\ ItemHnum \in GoalRows(txn) /\ repl \notin GoalRows(txn)
      BY <3>1, RoleRows DEF GoalRows
    <3>3. CASE ItemHnum \in rows /\ repl \notin rows
      BY <2>1, <2>3, <3>3
    <3>4. CASE ItemHnum \in rows /\ repl \in rows
      <4>1. repl \in rows \ GoalRows(txn) /\ rows' = rows \ {repl}
        BY <2>3, <3>2, <3>4
      <4> QED BY <2>1, <4>1 DEF Abstract!Next, Abstract!Remove
    <3>5. CASE ItemHnum \notin rows /\ repl \in rows
      <4>1. repl \in rows \ GoalRows(txn) /\ ItemHnum \in GoalRows(txn) \ rows
        BY <3>2, <3>5
      <4> QED BY <2>1, <2>3, <4>1 DEF Abstract!Next, Abstract!Add
    <3>6. CASE ItemHnum \notin rows /\ repl \notin rows
      <4>1. ItemHnum \in GoalRows(txn) \ rows /\ rows' = rows \cup {ItemHnum}
        BY <2>3, <3>2, <3>6
      <4> QED BY <2>1, <4>1 DEF Abstract!Next, Abstract!Add
    <3> QED BY <3>3, <3>4, <3>5, <3>6
  <2>4. CASE EraseRow /\ rows' = rows \ {victim}
    <3>1. victim \notin GoalRows(txn)
      BY <2>4, RoleRows DEF EraseRow, Working, Written, Erasing, GoalRows
    <3>2. CASE victim \notin rows
      BY <2>1, <2>4, <3>2
    <3>3. CASE victim \in rows
      <4>1. victim \in rows \ GoalRows(txn)
        BY <3>1, <3>3
      <4> QED BY <2>1, <2>4, <4>1 DEF Abstract!Next, Abstract!Remove
    <3> QED BY <3>2, <3>3
  <2> QED BY <2>2, <2>3, <2>4, RowSteps
<1> QED BY <1>1, <1>2, InitBase, NextBase, PTL DEF Spec, CommitsTowardsGoal, Abstract!Spec

\* Only three steps change which packages are active.
LEMMA ActiveSteps ==
    ASSUME [Next]_vars
    PROVE  \/ active' = active
           \/ Validate /\ active' = rows
           \/ WriteDb /\ active' = active \cup {ItemHnum}
           \/ FilesErased /\ active' = active \ {victim}
<1> USE DEF viewVars, stateVars
<1>1. CASE Validate \/ WriteDb \/ FilesErased
  BY <1>1 DEF Validate, Finish, WriteDb, Commit, FilesErased
<1>2. CASE UNCHANGED vars
  BY <1>2 DEF vars
<1>3. CASE ~(Validate \/ WriteDb \/ FilesErased) /\ Next
  BY <1>3 DEF Next, Run, Fail, Crash, Done, RunPosttrans, Prevalidate, RunPretrans, RunPre,
         RunPost, RunPreun, RunPostun, PassPrior, BeginErasePrior, PriorsDone, EraseRow,
         Goto, Finish, BeginInstall, BeginErase, InstallFile, WriteFile, EraseFile, ErasePath, vars
<1> QED BY <1>1, <1>2, <1>3

\* An item is reported when it is done: a package was added, a row erased, or
\* nothing was to be done but to test.
LEMMA ReportSteps ==
    ASSUME BaseInv, [Next]_vars
    PROVE  \/ completed' = completed
           \/ /\ completed' = completed \cup {txn.order[pos]}
              /\ CompleteItem
              /\ \/ Test /\ pc = "item" /\ UNCHANGED <<viewVars, stateVars>>
                 \/ PriorsDone
                 \/ EraseRow /\ Item.type = "erase"
<1> USE DEF viewVars, stateVars
<1>1. CASE BeginInstall \/ BeginErase \/ PriorsDone
  BY <1>1 DEF BeginInstall, BeginErase, PriorsDone, CompleteItem, Finish, Goto
<1>2. CASE EraseRow
  BY <1>2 DEF EraseRow, AfterErase, CompleteItem, Goto
<1>3. CASE UNCHANGED vars
  BY <1>3 DEF vars
<1>4. CASE ~(BeginInstall \/ BeginErase \/ PriorsDone \/ EraseRow) /\ Next
  BY <1>4 DEF Next, Run, Fail, Crash, Done, RunPosttrans, Validate, Prevalidate, RunPretrans, RunPre,
         RunPost, RunPreun, RunPostun, PassPrior, BeginErasePrior, FilesErased, WriteDb, Commit,
         Goto, Finish, InstallFile, WriteFile, EraseFile, ErasePath, vars
<1> QED BY <1>1, <1>2, <1>3, <1>4

\* Where the executor is after the new row was written: on the same item.
LEMMA WrittenSteps ==
    ASSUME BaseInv, [Next]_vars, pc' \in Written
    PROVE  /\ pos' = pos /\ Item' = Item /\ ItemHnum' = ItemHnum
           /\ pc \notin Written => WriteDb \/ (BeginErase /\ Item.type = "erase")
<1> USE DEF viewVars, stateVars
<1>1. CASE BeginInstall \/ BeginErase \/ PriorsDone \/ EraseRow
  BY <1>1 DEF BeginInstall, BeginErase, PriorsDone, EraseRow, AfterErase, CompleteItem, Finish, Goto,
              Written, Erasing, Item, ItemHnum
<1>2. CASE UNCHANGED vars
  BY <1>2 DEF vars, Item, ItemHnum
<1>3. CASE ~(BeginInstall \/ BeginErase \/ PriorsDone \/ EraseRow) /\ Next
  BY <1>3 DEF Next, Run, Fail, Crash, Done, RunPosttrans, Validate, Prevalidate, RunPretrans, RunPre,
         RunPost, RunPreun, RunPostun, PassPrior, BeginErasePrior, FilesErased, WriteDb, Commit,
         Goto, Finish, InstallFile, WriteFile, EraseFile, ErasePath, vars, Written, Erasing, Item, ItemHnum
<1> QED BY <1>1, <1>2, <1>3

\* The view is read once, and after the end nothing happens.
LEMMA LiveSteps ==
    ASSUME [Next]_vars, pc' \notin {"validate", "end"}
    PROVE  pc \notin {"validate", "end"} \/ (Validate /\ active' = rows /\ visible' = rows)
<1> USE DEF viewVars, stateVars
<1>1. CASE Next
  BY <1>1 DEF Next, Run, Fail, Crash, Done, RunPosttrans, Validate, Prevalidate, RunPretrans, RunPre,
         RunPost, RunPreun, RunPostun, PassPrior, BeginErasePrior, PriorsDone, EraseRow, FilesErased,
         WriteDb, Commit, Goto, Finish, BeginInstall, BeginErase, InstallFile, WriteFile, EraseFile, ErasePath, vars
<1> QED BY <1>1 DEF vars

HoldInv == ViewHolds /\ RowsHold

\* What the transaction keeps is in the view and in the database all the time, and
\* what it brings is there from its commit on.
LEMMA NextHold == BaseInv /\ HoldInv /\ [Next]_vars => HoldInv'
<1> SUFFICES ASSUME BaseInv, HoldInv, [Next]_vars PROVE HoldInv'
  OBVIOUS
<1>t. txn' = txn /\ ViewHolds /\ RowsHold /\ TypeOK /\ Untouched /\ Roles
  BY TxnStays DEF HoldInv, BaseInv, TypeInv, PlanInv, CursorInv
<1>f. NoDb' = NoDb /\ Test' = Test
  BY <1>t DEF NoDb, Test
<1>w. WriteDb => pc \in Working /\ Item.type # "erase"
  BY <1>t DEF WriteDb, Commit, Working, Roles
<1>e. FilesErased \/ EraseRow => pc \in Working /\ pc \in Erasing
  BY DEF FilesErased, EraseRow, Working, Written, Erasing
<1>k. pc # "validate" => active \ RemovedHnums(txn) \subseteq active'
  BY <1>e, ActiveSteps, RoleRows DEF Validate
<1>n. pc \in Working => NewHnums(txn) \cap RemovedHnums(txn) = {}
  BY RoleRows
<1>1. active' \subseteq Indices(txn.db) \cup NewHnums(txn)
  BY <1>t, <1>w, ActiveSteps, RoleRows DEF ViewHolds, Untouched, Validate
<1>2. pc' \notin {"validate", "end"} => Indices(txn.db) \ RemovedHnums(txn) \subseteq active'
  BY <1>t, <1>k, LiveSteps DEF ViewHolds, RowsHold, Validate
<1>3. ASSUME pc' \notin {"validate", "end"}, ~Test, NEW i \in completed', ~Erases(txn, i)
      PROVE  NewHnum(txn, i) \in active'
  <2>1. CASE i \notin completed
    <3>1. i = txn.order[pos] /\ PriorsDone /\ Item.type # "erase"
      BY <1>3, <2>1, ReportSteps DEF Item, Erases
    <3>2. ItemHnum \in active /\ active' = active
      BY <1>t, <3>1 DEF ViewHolds, PriorsDone, Written, viewVars
    <3> QED BY <3>1, <3>2 DEF ItemHnum
  <2>2. CASE i \in completed
    <3>1. pc # "validate" /\ pc \notin {"validate", "end"}
      BY <1>t, <1>3, <2>2, LiveSteps DEF Untouched, Validate
    <3>2. NewHnum(txn, i) \in active /\ NewHnum(txn, i) \in NewHnums(txn)
      BY <1>t, <1>3, <2>2, <3>1 DEF ViewHolds, NewHnums, AddedItems, TypeOK, Erases
    <3>3. CASE FilesErased
      BY <1>e, <1>n, <1>k, <3>1, <3>2, <3>3
    <3>4. CASE ~FilesErased
      BY <3>1, <3>2, <3>4, ActiveSteps DEF Validate
    <3> QED BY <3>3, <3>4
  <2> QED BY <2>1, <2>2
<1>4. ASSUME pc' \in Written, Item'.type # "erase"
      PROVE  ItemHnum' \in active' /\ (~NoDb => ItemHnum' \in rows')
  <2>1. Item' = Item /\ ItemHnum' = ItemHnum /\ (pc \notin Written => WriteDb)
    BY <1>4, WrittenSteps
  <2>2. CASE WriteDb
    BY <2>1, <2>2 DEF WriteDb, Commit
  <2>3. CASE pc \in Written /\ ~WriteDb
    <3>1. pc \in Working /\ pc # "validate"
      BY <2>3 DEF Working, Written, Erasing
    <3>2. ItemHnum \in active /\ (~NoDb => ItemHnum \in rows)
      BY <1>t, <1>4, <2>1, <2>3 DEF ViewHolds, RowsHold
    <3>3. ItemHnum \in NewHnums(txn)
      BY <1>4, <2>1, <3>1, RoleRows
    <3>4. ItemHnum \in active'
      BY <1>k, <1>n, <3>1, <3>2, <3>3
    <3>5. ~NoDb => ItemHnum \in rows'
      BY <1>e, <1>n, <2>3, <3>1, <3>2, <3>3, RowSteps, RoleRows
    <3> QED BY <2>1, <3>4, <3>5
  <2> QED BY <2>1, <2>2, <2>3
<1>5. rows' \subseteq Indices(txn.db) \cup NewHnums(txn)
  BY <1>t, <1>w, RowSteps, RoleRows DEF RowsHold
<1>6. Indices(txn.db) \ RemovedHnums(txn) \subseteq rows'
  <2>1. CASE rows' = rows
    BY <1>t, <2>1 DEF RowsHold
  <2>2. CASE WriteDb /\ rows' = (rows \ {repl}) \cup {ItemHnum}
    BY <1>t, <1>w, <2>2, RoleRows DEF RowsHold
  <2>3. CASE EraseRow /\ rows' = rows \ {victim}
    BY <1>t, <1>e, <2>3, RoleRows DEF RowsHold
  <2> QED BY <2>1, <2>2, <2>3, RowSteps
<1>7. NoDb => rows' = Indices(txn.db)
  BY <1>t, RowSteps DEF RowsHold
<1>8. ViewHolds'
  BY <1>t, <1>f, <1>1, <1>2, <1>3, <1>4 DEF ViewHolds
<1>9. RowsHold'
  BY <1>t, <1>f, <1>4, <1>5, <1>6, <1>7 DEF RowsHold
<1> QED BY <1>8, <1>9 DEF HoldInv

-----------------------------------------------------------------------------
(* Items that are done                                                     *)

\* A permutation leaves no item out.
LEMMA EveryItemOrdered ==
    ASSUME NEW order, NEW n \in Nat, IsPermutation(order, n), NEW i \in 1..n
    PROVE  \E k \in 1..n : order[k] = i
<1> DEFINE f == [k \in 1..n |-> order[k]]
<1>1. f \in Injection(1..n, 1..n)
  BY DEF IsPermutation, Injection, IsInjective
<1>2. IsFiniteSet(1..n)
  BY FS_Interval
<1>3. f \in Surjection(1..n, 1..n)
  BY <1>1, <1>2, FS_Injection, Zenon
<1> QED BY <1>3 DEF Surjection

LEMMA OrderedItem ==
    ASSUME TypeOK, PlanSound(txn), NEW i \in ItemIds(txn)
    PROVE  \E k \in Indices(txn.order) : txn.order[k] = i
<1>1. IsPermutation(txn.order, Len(txn.items)) /\ Len(txn.items) \in Nat
  BY Lengths DEF PlanSound
<1>2. \E k \in 1..Len(txn.items) : txn.order[k] = i
  BY <1>1, EveryItemOrdered DEF ItemIds, Indices
<1> QED BY <1>1, <1>2 DEF IsPermutation, Indices

\* A prior that is left to the item whose primary it is: that item is done, and
\* the row gone.
LEMMA OwnerWasBefore ==
    ASSUME BaseInv, CompletedStayApplied, ~NoDb, pc = "priors",
           NEW h \in PriorHnums(Item), h # repl, h \in PrimaryHnums(txn)
    PROVE  h \notin rows
<1>1. /\ TypeOK /\ PlanSound(txn) /\ Roles /\ pos <= Len(txn.order) /\ txn \in Txns
      /\ completed = {txn.order[k] : k \in 1..(pos - 1)}
  BY DEF BaseInv, TypeInv, TypeOK, PlanSettled, PlanInv, Planned, CursorInv, Progress,
         Working, Written, Erasing
<1>2. PICK o \in ItemIds(txn) : /\ Replaces(txn.items[o]) /\ Priors(txn, o) # <<>>
                                /\ h = Primary(txn, o)
  BY DEF PrimaryHnums, Primary
<1>3. pos \in Indices(txn.order) /\ txn.order[pos] \in ItemIds(txn)
  BY <1>1, SoundItem
<1>4. o # txn.order[pos]
  BY <1>1, <1>2, SoundItem DEF Roles, Working, Written, Item
<1>5. PICK j \in Indices(txn.order) : txn.order[j] = o
  BY <1>1, OrderedItem
<1>6. j < pos
  <2>1. j # pos /\ Replaces(txn.items[txn.order[j]])
        /\ Primary(txn, txn.order[j]) \in PriorHnums(txn.items[txn.order[pos]])
    BY <1>2, <1>4, <1>5 DEF Item
  <2> QED BY <1>1, <1>3, <2>1, Zenon DEF PlanSound, ReplacersFirst
<1>7. o \in completed
  <2>1. j \in 1..(pos - 1)
    BY <1>1, <1>5, <1>6, Lengths DEF Indices, TypeOK, Hnums
  <2> QED BY <1>1, <1>5, <2>1
<1>8. h \in PriorHnums(txn.items[o])
  BY <1>1, <1>2, PrimaryIsPrior
<1>9. txn.items[o].type # "erase"
  BY <1>2 DEF Replaces
<1> QED BY <1>7, <1>8, <1>9 DEF CompletedStayApplied

\* The loop over the priors and the view of the replaced one.
LEMMA NextLoop ==
    BaseInv /\ CompletedStayApplied /\ PriorsBehind /\ [Next]_vars => PriorsBehind'
<1> SUFFICES ASSUME BaseInv, CompletedStayApplied, PriorsBehind, [Next]_vars,
                    pc' \in {"priors"} \cup Erasing
             PROVE  PriorsBehind'
  BY DEF PriorsBehind
<1> USE DEF viewVars, stateVars
<1>t. /\ TypeOK /\ VictimsInErase /\ RowsAreActive /\ ReplacedRowGone /\ Visibility /\ Progress
      /\ 0 \notin rows /\ 0 \notin active
  <2>1. TypeOK
    BY DEF BaseInv, TypeInv
  <2>2. \A n : 0 \notin 1..n
    OBVIOUS
  <2>3. 0 \notin active
    BY <2>1, <2>2, Zenon DEF TypeOK, Known
  <2> QED BY <2>1, <2>3, NoRowZero DEF BaseInv, ViewInv, SelectionInv, CursorInv
<1>s. pc \in {"item"} \cup Working => PlanSound(txn)
  BY DEF BaseInv, PlanInv, Planned, Working, Written, Erasing
<1>n. next \in Nat \ {0} /\ \A k \in Indices(ItemPriors) : k \in Nat /\ k >= 1
  BY <1>t DEF TypeOK, Hnums, Indices
<1>1. CASE RunPost
  <2>1. next' = 1 /\ ItemPriors' = ItemPriors
    BY <1>t, <1>1 DEF RunPost, Goto, Progress, Working, Written, ItemPriors
  <2>2. \A k \in Indices(ItemPriors) : ~(k < 1)
    BY <1>n
  <2> QED BY <2>1, <2>2 DEF PriorsBehind
<1>2. CASE BeginErase
  <2>1. ItemPriors' = ItemPriors
    BY <1>2 DEF BeginErase, CompleteItem, Finish, Goto, ItemPriors, Erasing
  <2>2. ItemPriors = <<>>
    BY <1>t, <1>s, <1>2, SoundItem DEF BeginErase
  <2>3. Indices(<<>>) = {}
    BY DEF Indices
  <2> QED BY <2>1, <2>2, <2>3 DEF PriorsBehind
<1>3. CASE PassPrior \/ BeginErasePrior
  <2> DEFINE h == ItemPriors[next].hnum
  <2>1. pc = "priors" /\ victim = 0 /\ next' = next + 1
    BY <1>t, <1>3 DEF PassPrior, BeginErasePrior, VictimsInErase, Erasing
  <2>2. /\ ItemPriors' = ItemPriors /\ repl' = repl /\ rows' = rows /\ active' = active
        /\ NoDb' = NoDb
    BY <1>3 DEF PassPrior, BeginErasePrior, Goto, ItemPriors, NoDb
  <2>3. \A k \in Indices(ItemPriors) : k < next + 1 => k < next \/ k = next
    BY <1>n
  <2>4. next \in Indices(ItemPriors)
    <3>1. ItemPriors \in Seq(PlanRows) /\ Len(ItemPriors) \in Nat
      BY <1>t, <1>s, <2>1, SoundItem DEF BaseInv, TypeInv, PlanSettled, Working, Written
    <3> QED BY <1>n, <1>3, <3>1 DEF PassPrior, BeginErasePrior, Indices
  <2>5. h \in PriorHnums(Item)
    BY <1>t, <1>s, <2>1, <2>4, SoundItem DEF BaseInv, TypeInv, PlanSettled, Working, Written
  <2>6. (~NoDb => h \notin rows \ {victim'}) /\ (h = repl => repl \notin active \ {victim'})
    <3>1. CASE BeginErasePrior
      BY <3>1 DEF BeginErasePrior
    <3>2. CASE PassPrior /\ h \notin active
      BY <1>t, <2>1, <3>2 DEF RowsAreActive
    <3>3. CASE PassPrior /\ h # repl /\ h \in PrimaryHnums(txn)
      BY <2>1, <2>5, <3>3, OwnerWasBefore
    <3> QED BY <1>3, <3>1, <3>2, <3>3 DEF PassPrior, SkipPrior
  <2>7. \A k \in Indices(ItemPriors) : k < next =>
           /\ ~NoDb => ItemPriors[k].hnum \notin rows
           /\ ItemPriors[k].hnum = repl => repl \notin active
    BY <1>t, <2>1 DEF PriorsBehind
  <2> QED BY <2>1, <2>2, <2>3, <2>6, <2>7 DEF PriorsBehind
<1>4. CASE RunPreun \/ RunPostun \/ FilesErased \/ EraseRow \/ (\E path \in Paths : EraseFile(path))
  <2>1. pc \in Erasing /\ ItemPriors' = ItemPriors /\ repl' = repl /\ next' = next /\ NoDb' = NoDb
    BY <1>4 DEF RunPreun, RunPostun, FilesErased, EraseRow, AfterErase, CompleteItem, EraseFile, ErasePath,
                Goto, ItemPriors, NoDb, Erasing
  <2>2. ~NoDb => rows' \ {victim'} \subseteq rows \ {victim}
    <3>1. CASE EraseRow
      BY <1>t, <3>1 DEF EraseRow, ReplacedRowGone, Written, Erasing
    <3>2. CASE ~EraseRow
      BY <1>4, <3>2 DEF RunPreun, RunPostun, FilesErased, EraseFile, ErasePath
    <3> QED BY <3>1, <3>2
  <2>3. active' \ {victim'} \subseteq active \ {victim}
    <3>1. CASE EraseRow
      BY <1>t, <3>1 DEF EraseRow, Visibility
    <3>2. CASE ~EraseRow
      BY <1>4, <3>2 DEF RunPreun, RunPostun, FilesErased, EraseFile, ErasePath
    <3> QED BY <3>1, <3>2
  <2> QED BY <2>1, <2>2, <2>3 DEF PriorsBehind
<1>5. CASE UNCHANGED vars
  BY <1>5 DEF vars, PriorsBehind, ItemPriors, NoDb, Erasing
<1>6. CASE Validate \/ Prevalidate \/ RunPretrans \/ BeginInstall \/ RunPre
           \/ (\E path \in Paths : InstallFile(path) \/ WriteFile(path)) \/ WriteDb \/ PriorsDone
  BY <1>6 DEF Validate, Prevalidate, RunPretrans, BeginInstall, RunPre, InstallFile, WriteFile, WriteDb, Commit,
              PriorsDone, CompleteItem, Finish, Goto, Erasing
<1>7. CASE \E o : Finish(o)
  BY <1>7 DEF Finish, Erasing
<1> QED
  BY <1>1, <1>2, <1>3, <1>4, <1>5, <1>6, <1>7 DEF Next, Run, Fail, Crash, Done, RunPosttrans

\* When the loop is over the replaced package is not active any more and no prior
\* is left.
LEMMA LoopOver ==
    ASSUME BaseInv, PriorsBehind, PriorsDone
    PROVE  repl \notin active /\ (~NoDb => PriorHnums(Item) \cap rows = {})
<1>t. /\ TypeOK /\ PlanSound(txn) /\ pos <= Len(txn.order) /\ victim = 0 /\ pc \in Working
      /\ pc = "priors"
  BY DEF BaseInv, TypeInv, PlanSettled, PlanInv, Planned, ViewInv, VictimsInErase, PriorsDone,
         Working, Written, Erasing
<1>z. 0 \notin rows /\ 0 \notin active
  <2>1. \A n : 0 \notin 1..n
    OBVIOUS
  <2> QED BY <1>t, <2>1, NoRowZero, Zenon DEF TypeOK, Known
<1>1. \A k \in Indices(ItemPriors) : k < next
  <2>1. ItemPriors \in Seq(PlanRows) /\ Len(ItemPriors) \in Nat
    BY <1>t, SoundItem
  <2> QED BY <1>t, <2>1 DEF PriorsDone, Indices, TypeOK, Hnums
<1>2. \A k \in Indices(ItemPriors) :
         /\ ~NoDb => ItemPriors[k].hnum \notin rows
         /\ ItemPriors[k].hnum = repl => repl \notin active
  BY <1>t, <1>z, <1>1 DEF PriorsBehind
<1>3. PriorHnums(Item) = {ItemPriors[k].hnum : k \in Indices(ItemPriors)}
  BY <1>t, SoundItem
<1>4. repl = 0 \/ repl \in PriorHnums(Item)
  BY <1>t, RoleRows
<1> QED BY <1>z, <1>2, <1>3, <1>4

\* Nothing that was reported is undone: rows that come are new, rows that go are
\* old, and the item that is reported is done with.
LEMMA NextCompleted ==
    BaseInv /\ HoldInv /\ PriorsBehind /\ CompletedStayApplied /\ [Next]_vars
        => CompletedStayApplied'
<1> SUFFICES ASSUME BaseInv, HoldInv, PriorsBehind, CompletedStayApplied, [Next]_vars
             PROVE  CompletedStayApplied'
  OBVIOUS
<1> SUFFICES ASSUME ~NoDb, NEW i \in completed'
             PROVE  IF txn.items[i].type = "erase" THEN txn.items[i].hnum \notin rows'
                    ELSE NewHnum(txn, i) \in rows' /\ PriorHnums(txn.items[i]) \cap rows' = {}
  <2>1. txn' = txn
    BY TxnStays
  <2> QED BY <2>1 DEF CompletedStayApplied, NoDb
<1>t. TypeOK /\ Roles
  BY DEF BaseInv, TypeInv, CursorInv
<1>1. CASE i \in completed
  <2>0. IF txn.items[i].type = "erase" THEN txn.items[i].hnum \notin rows
        ELSE NewHnum(txn, i) \in rows /\ PriorHnums(txn.items[i]) \cap rows = {}
    BY <1>1 DEF CompletedStayApplied
  <2>1. CASE rows' = rows
    BY <2>0, <2>1
  <2>2. CASE pc \in Working
    <3>1. PlanSound(txn) /\ i \in ItemIds(txn)
      BY <1>t, <1>1, <2>2 DEF BaseInv, PlanInv, Planned, TypeOK, Working, Written, Erasing
    <3>2. /\ txn.items[i].type = "erase" => txn.items[i].hnum \in Indices(txn.db)
          /\ PriorHnums(txn.items[i]) \subseteq Indices(txn.db)
      BY <3>1 DEF PlanSound, RowsFound, Erases
    <3>3. txn.items[i].type # "erase" => NewHnum(txn, i) \in NewHnums(txn)
      BY <3>1 DEF NewHnums, AddedItems
    <3>4. CASE WriteDb /\ rows' = (rows \ {repl}) \cup {ItemHnum}
      <4>1. ItemHnum \in NewHnums(txn)
        BY <1>t, <2>2, <3>4, RoleRows DEF WriteDb, Commit, Roles
      <4> QED BY <2>0, <2>2, <3>2, <3>3, <3>4, <4>1, RoleRows
    <3>5. CASE EraseRow /\ rows' = rows \ {victim}
      BY <2>0, <2>2, <3>3, <3>5, RoleRows DEF EraseRow, Erasing
    <3> QED BY <2>1, <3>4, <3>5, RowSteps
  <2> QED BY <2>1, <2>2, RowSteps DEF WriteDb, Commit, EraseRow, Working, Written, Erasing
<1>2. CASE i \notin completed
  <2>1. i = txn.order[pos] /\ Item = txn.items[i] /\ ~Test
    BY <1>2, ReportSteps DEF Item, NoDb, Test
  <2>2. CASE PriorsDone
    <3>1. Item.type # "erase" /\ ItemHnum \in rows /\ rows' = rows
      BY <1>t, <2>2 DEF PriorsDone, Roles, HoldInv, RowsHold, Written, stateVars
    <3> QED BY <2>1, <2>2, <3>1, LoopOver DEF ItemHnum
  <2>3. CASE EraseRow /\ Item.type = "erase"
    <3>1. victim = Item.hnum /\ pc \in Working
      BY <1>t, <2>3 DEF EraseRow, Roles, Working, Written, Erasing
    <3>2. repl = 0 /\ victim # 0
      BY <2>3, <3>1, RoleRows DEF EraseRow, Erasing
    <3> QED BY <2>1, <2>3, <3>1, <3>2 DEF EraseRow
  <2> QED BY <1>2, <2>1, <2>2, <2>3, ReportSteps
<1> QED BY <1>1, <1>2

\* The view loses a package no later than the database does, but for the replaced
\* one, and that before the item is done.
LEMMA NextActive ==
    BaseInv /\ PriorsBehind /\ ActiveAreRows /\ [Next]_vars => ActiveAreRows'
<1> SUFFICES ASSUME BaseInv, PriorsBehind, ActiveAreRows, [Next]_vars
             PROVE  ActiveAreRows'
  OBVIOUS
<1> SUFFICES ASSUME ~NoDb, pc' \notin {"validate", "end"}
             PROVE  active' \subseteq rows' \cup {repl'}
  <2>1. NoDb' = NoDb
    BY TxnStays DEF NoDb
  <2> QED BY <2>1 DEF ActiveAreRows
<1> USE DEF viewVars, stateVars
<1>t. TypeOK /\ VictimsInErase /\ Visibility
  BY DEF BaseInv, TypeInv, ViewInv, SelectionInv
<1>z. 0 \notin active
  <2>1. \A n : 0 \notin 1..n
    OBVIOUS
  <2> QED BY <1>t, <2>1, Zenon DEF TypeOK, Known
<1>1. CASE Validate
  BY <1>1, LiveSteps DEF Validate, Finish, Goto
<1>2. CASE WriteDb \/ FilesErased
  BY <1>2 DEF WriteDb, Commit, FilesErased, Goto, ActiveAreRows
<1>3. CASE BeginInstall \/ BeginErase
  <2>1. repl = 0
    BY <1>t, <1>3 DEF BeginInstall, BeginErase, VictimsInErase, Working, Written, Erasing
  <2> QED
    BY <1>z, <1>3, <2>1 DEF BeginInstall, BeginErase, CompleteItem, Finish, Goto, ActiveAreRows
<1>4. CASE PriorsDone
  BY <1>4, LoopOver DEF PriorsDone, ActiveAreRows
<1>5. CASE EraseRow
  <2>1. victim \notin active /\ active' = active /\ active \subseteq rows \cup {repl}
    BY <1>t, <1>5 DEF EraseRow, Visibility, ActiveAreRows
  <2>2. repl' = repl \/ repl = 0
    <3>1. CASE Item.type = "erase"
      BY <1>5, <3>1, RoleRows DEF EraseRow, Working, Written, Erasing
    <3>2. CASE Item.type # "erase"
      BY <1>5, <3>2, EraseRowSucceeds DEF AfterErase
    <3> QED BY <3>1, <3>2
  <2> QED BY <1>z, <1>5, <2>1, <2>2 DEF EraseRow
<1>6. CASE Prevalidate \/ RunPretrans \/ RunPre \/ RunPost \/ RunPreun \/ RunPostun \/ PassPrior
           \/ BeginErasePrior
  BY <1>6 DEF Prevalidate, RunPretrans, RunPre, RunPost, RunPreun, RunPostun, PassPrior,
              BeginErasePrior, Finish, Goto, ActiveAreRows
<1>7. CASE \E path \in Paths : InstallFile(path) \/ WriteFile(path) \/ EraseFile(path)
  BY <1>7 DEF InstallFile, WriteFile, EraseFile, ErasePath, Goto, Finish, ActiveAreRows
<1>8. CASE \E o : Finish(o)
  BY <1>8 DEF Finish
<1>9. CASE UNCHANGED vars
  BY <1>9 DEF vars, ActiveAreRows
<1> QED
  BY <1>1, <1>2, <1>3, <1>4, <1>5, <1>6, <1>7, <1>8, <1>9
  DEF Next, Run, Fail, Crash, Done, RunPosttrans

RowInv == BaseInv /\ HoldInv /\ PriorsBehind /\ CompletedStayApplied /\ ActiveAreRows

LEMMA InitRows == Init => RowInv
<1> SUFFICES ASSUME Init PROVE RowInv
  OBVIOUS
<1>1. HoldInv
  BY DEF Init, Start, HoldInv, ViewHolds, RowsHold, Written, Erasing
<1>2. PriorsBehind /\ CompletedStayApplied /\ ActiveAreRows
  BY DEF Init, Start, PriorsBehind, CompletedStayApplied, ActiveAreRows, Erasing
<1> QED BY <1>1, <1>2, InitBase DEF RowInv

LEMMA NextRows == RowInv /\ [Next]_vars => RowInv'
  BY NextBase, NextHold, NextLoop, NextCompleted, NextActive DEF RowInv

\* What the observer was told stays true whatever happens later, for every plan
\* that passed the checks: the added package's row is there, every row it
\* supersedes is gone, whichever item had to remove it, and erased rows are gone.
THEOREM ReportsStayTrue == Spec => []CompletedStayApplied
<1>1. RowInv => CompletedStayApplied
  BY DEF RowInv
<1> QED BY <1>1, InitRows, NextRows, PTL DEF Spec

-----------------------------------------------------------------------------
(* Names, for transactions planned here                                    *)

\* A package made here supersedes rows of its own name.
LEMMA PriorsOfName ==
    ASSUME Parsed(txn.db, txn.items), NEW i \in ItemIds(txn), NEW h \in PriorHnums(txn.items[i])
    PROVE  h \in Indices(txn.db) /\ txn.db[h].name = txn.items[i].pkg.name
<1>1. h \in SelectedRows(txn.db, txn.items, i)
  BY DEF Parsed, ItemIds
<1> QED BY <1>1 DEF SelectedRows, SameNevra

\* The package of a new row is the item's.
LEMMA NewPackage ==
    ASSUME TypeOK, NEW i \in ItemIds(txn)
    PROVE  PkgOf(txn, NewHnum(txn, i)) = txn.items[i].pkg /\ NewHnum(txn, i) \notin Indices(txn.db)
<1>1. NewHnum(txn, i) \notin Indices(txn.db) /\ NewHnum(txn, i) - Len(txn.db) = i
  BY Lengths DEF NewHnum, ItemIds, Indices
<1> QED BY <1>1 DEF PkgOf

\* When a transaction planned here erases, everything it adds has been added.
LEMMA AddedBeforeErased ==
    ASSUME BaseInv, ~txn.fixed, pc \in Erasing, Item.type = "erase", NEW i \in AddedItems(txn)
    PROVE  i \in completed
<1>1. /\ TypeOK /\ PlanSound(txn) /\ pos <= Len(txn.order)
      /\ completed = {txn.order[k] : k \in 1..(pos - 1)}
      /\ NativeOrder(txn.items, txn.order)
  BY DEF BaseInv, TypeInv, PlanSettled, PlanInv, Planned, NativePlanned, CursorInv, Progress,
         Working, Written, Erasing
<1>2. pos \in Indices(txn.order)
  BY <1>1, SoundItem
<1>3. PICK k \in Indices(txn.order) : txn.order[k] = i
  BY <1>1, OrderedItem DEF AddedItems
<1>4. k < pos
  BY <1>1, <1>2, <1>3 DEF NativeOrder, AddedItems, Item
<1>5. k \in 1..(pos - 1)
  BY <1>1, <1>3, <1>4, Lengths DEF Indices, TypeOK, Hnums
<1> QED BY <1>1, <1>3, <1>5

\* What the executor counts before it runs %preun.
LEMMA NamesWhileErasing == RowInv => LastOfName
<1> DEFINE Elsewhere(hnums) ==
        \E h \in hnums \ {victim} : PkgOf(txn, h).name = PkgOf(txn, victim).name
<1> SUFFICES ASSUME RowInv, pc \in {"preun", "unlink"}, ~txn.fixed, Elsewhere(GoalRows(txn))
             PROVE  Elsewhere(active)
  BY DEF LastOfName
<1>t. /\ BaseInv /\ ViewHolds /\ TypeOK /\ Roles /\ ~Test /\ pos <= Len(txn.order)
      /\ Parsed(txn.db, txn.items) /\ pc \in Erasing /\ pc \in Working /\ pc \in Written
      /\ pc \notin {"validate", "end"} /\ PlanSound(txn)
  BY DEF RowInv, HoldInv, BaseInv, TypeInv, PlanSettled, PlanInv, Planned, NativePlanned, CursorInv,
         Progress, Working, Written, Erasing
<1>1. PICK h \in GoalRows(txn) \ {victim} : PkgOf(txn, h).name = PkgOf(txn, victim).name
  OBVIOUS
<1>2. CASE h \in Indices(txn.db) \ RemovedHnums(txn)
  BY <1>t, <1>1, <1>2 DEF ViewHolds
<1>3. CASE h \in NewHnums(txn) /\ Item.type = "erase"
  <2>1. PICK i \in AddedItems(txn) : h = NewHnum(txn, i)
    BY <1>3 DEF NewHnums
  <2>2. i \in completed /\ ~Erases(txn, i)
    BY <1>t, <1>3, AddedBeforeErased DEF AddedItems, Erases
  <2> QED BY <1>t, <1>1, <2>1, <2>2 DEF ViewHolds
<1>4. CASE Item.type # "erase"
  <2>1. ItemHnum \in active /\ victim \in PriorHnums(Item)
    BY <1>t, <1>4 DEF ViewHolds, Roles
  <2>2. txn.order[pos] \in ItemIds(txn) /\ Item = txn.items[txn.order[pos]]
    BY <1>t, SoundItem DEF Item
  <2>3. victim \in Indices(txn.db) /\ txn.db[victim].name = Item.pkg.name
    BY <1>t, <2>1, <2>2, PriorsOfName
  <2>4. PkgOf(txn, ItemHnum) = Item.pkg /\ ItemHnum \notin Indices(txn.db)
    BY <1>t, <2>2, NewPackage DEF ItemHnum
  <2> QED BY <2>1, <2>3, <2>4 DEF PkgOf
<1> QED BY <1>1, <1>2, <1>3, <1>4 DEF GoalRows

\* The argument 0 of %preun and %postun, for every transaction planned here: a
\* package whose name is still installed at the end is never taken for the last
\* one, because additions come first and a new package before the old one goes.
THEOREM LastOfNameIsLast == Spec => []LastOfName
  BY InitRows, NextRows, NamesWhileErasing, PTL DEF Spec

\* A row goes for a new one that is there, or after everything was added.
LEMMA NextSuperseded == RowInv /\ Superseded /\ [Next]_vars => Superseded'
<1> SUFFICES ASSUME RowInv, Superseded, [Next]_vars PROVE Superseded'
  OBVIOUS
<1> SUFFICES ASSUME ~txn.fixed, ~NoDb, NEW h \in Indices(txn.db) \ rows'
             PROVE  \/ \E i \in AddedItems(txn) :
                          h \in PriorHnums(txn.items[i]) /\ NewHnum(txn, i) \in rows'
                    \/ NewHnums(txn) \subseteq rows'
  <2>1. txn' = txn
    BY TxnStays
  <2> QED BY <2>1 DEF Superseded, NoDb
<1>t. BaseInv /\ RowsHold /\ CompletedStayApplied /\ TypeOK /\ Roles
  BY DEF RowInv, HoldInv, BaseInv, TypeInv, CursorInv
<1>n. \A i \in AddedItems(txn) : NewHnum(txn, i) \in NewHnums(txn)
  BY DEF NewHnums
<1>1. rows \cap NewHnums(txn) \subseteq rows'
  <2>1. CASE rows' = rows
    BY <2>1
  <2>2. CASE WriteDb /\ rows' = (rows \ {repl}) \cup {ItemHnum}
    BY <1>t, <2>2, RoleRows DEF WriteDb, Commit, Working
  <2>3. CASE EraseRow /\ rows' = rows \ {victim}
    BY <1>t, <2>3, RoleRows DEF EraseRow, Working, Written, Erasing
  <2> QED BY <2>1, <2>2, <2>3, RowSteps
<1>2. CASE h \notin rows
  BY <1>n, <1>1, <1>2 DEF Superseded
<1>3. CASE h \in rows
  <2>1. pc \in Working /\ PlanSound(txn) /\ pos <= Len(txn.order)
    BY <1>t, <1>3, RowSteps DEF BaseInv, TypeInv, PlanSettled, PlanInv, Planned, WriteDb, Commit,
         EraseRow, Working, Written, Erasing
  <2>2. txn.order[pos] \in ItemIds(txn) /\ Item = txn.items[txn.order[pos]]
    BY <1>t, <2>1, SoundItem DEF Item
  <2>3. Item.type # "erase" => txn.order[pos] \in AddedItems(txn)
    BY <2>2 DEF AddedItems
  <2>4. CASE WriteDb /\ rows' = (rows \ {repl}) \cup {ItemHnum}
    <3>1. h = repl /\ h # 0 /\ Item.type # "erase" /\ ItemHnum \in rows'
      BY <1>t, <1>3, <2>4 DEF WriteDb, Commit, Roles, Indices
    <3> QED BY <1>t, <2>1, <2>2, <2>3, <3>1, RoleRows DEF ItemHnum
  <2>5. CASE EraseRow /\ rows' = rows \ {victim} /\ Item.type # "erase"
    <3>1. h = victim /\ victim \in PriorHnums(Item) /\ ItemHnum \in rows
      BY <1>t, <1>3, <2>5 DEF EraseRow, Roles, Erasing, RowsHold, Written
    <3>2. ItemHnum \in rows'
      BY <1>n, <1>1, <2>2, <2>3, <2>5, <3>1 DEF ItemHnum
    <3> QED BY <2>2, <2>3, <2>5, <3>1, <3>2 DEF ItemHnum
  <2>6. CASE EraseRow /\ Item.type = "erase"
    <3>1. ASSUME NEW i \in AddedItems(txn) PROVE NewHnum(txn, i) \in rows
      <4>1. i \in completed
        BY <1>t, <2>6, AddedBeforeErased DEF EraseRow, Erasing
      <4> QED BY <1>t, <4>1 DEF CompletedStayApplied, AddedItems
    <3> QED BY <1>1, <3>1 DEF NewHnums
  <2> QED BY <1>3, <2>4, <2>5, <2>6, RowSteps
<1> QED BY <1>2, <1>3

\* A package that a transaction planned here keeps in some version is in the rpmdb
\* at every moment, wherever the transaction stops, for every such transaction.
THEOREM NamesNeverMissing == Spec => []NameNeverMissing
<1> DEFINE Inv == RowInv /\ Superseded
<1>1. Init => Inv
  BY InitRows DEF Init, Start, Superseded
<1>2. Inv /\ [Next]_vars => Inv'
  BY NextRows, NextSuperseded
<1>3. Inv => NameNeverMissing
  <2> SUFFICES ASSUME RowInv, Superseded, ~txn.fixed, ~NoDb,
                      NEW h \in Indices(txn.db), NEW g \in GoalRows(txn),
                      PkgOf(txn, h).name = PkgOf(txn, g).name
               PROVE  \E r \in rows : PkgOf(txn, r).name = PkgOf(txn, h).name
    BY DEF NameNeverMissing
  <2>t. RowsHold /\ TypeOK /\ Parsed(txn.db, txn.items)
    BY DEF RowInv, HoldInv, BaseInv, TypeInv, PlanInv, Planned, NativePlanned
  <2>1. CASE h \in rows
    BY <2>1
  <2>2. CASE g \in Indices(txn.db) \ RemovedHnums(txn)
    BY <2>t, <2>2 DEF RowsHold
  <2>3. CASE g \in NewHnums(txn) /\ NewHnums(txn) \subseteq rows
    BY <2>3
  <2>4. CASE \E i \in AddedItems(txn) :
                h \in PriorHnums(txn.items[i]) /\ NewHnum(txn, i) \in rows
    <3> PICK i \in AddedItems(txn) :
                h \in PriorHnums(txn.items[i]) /\ NewHnum(txn, i) \in rows
      BY <2>4
    <3>1. i \in ItemIds(txn)
      BY DEF AddedItems
    <3>2. txn.db[h].name = txn.items[i].pkg.name
      BY <2>t, <3>1, PriorsOfName
    <3>3. PkgOf(txn, NewHnum(txn, i)) = txn.items[i].pkg
      BY <2>t, <3>1, NewPackage
    <3> QED BY <3>2, <3>3 DEF PkgOf
  <2> QED BY <2>1, <2>2, <2>3, <2>4 DEF Superseded, GoalRows
<1> QED BY <1>1, <1>2, <1>3, PTL DEF Spec

-----------------------------------------------------------------------------
(* The disk                                                                *)

\* The new rows are none of the old ones.
LEMMA NewRowsAreNew == ASSUME TypeOK PROVE NewHnums(txn) \cap Indices(txn.db) = {}
  BY NewPackage DEF NewHnums, AddedItems

\* Before the transaction exactly the files of the installed packages are on disk.
LEMMA InitiallyOwned ==
    ASSUME TypeOK, NEW path \in Paths
    PROVE  InitialDisk(txn)[path] # 0 <=> \E h \in Indices(txn.db) : path \in FilesOf(h)
<1>1. Owners(txn, path) = {h \in Indices(txn.db) : path \in FilesOf(h)}
  BY DEF Owners, FilesOf, PkgOf
<1>2. CASE Owners(txn, path) = {}
  BY <1>1, <1>2 DEF InitialDisk
<1>3. CASE Owners(txn, path) # {}
  <2>1. InitialDisk(txn)[path] \in Owners(txn, path)
    BY <1>3 DEF InitialDisk
  <2>2. 0 \notin Owners(txn, path)
    BY <1>1 DEF Indices
  <2> QED BY <1>1, <1>3, <2>1, <2>2
<1> QED BY <1>2, <1>3

DiskInv == FilesAreOwned /\ NewFilesStay

\* A step that leaves disk and view alone, other than into an install or an erase.
LEMMA QuietDisk ==
    ASSUME DiskInv, txn' = txn, disk' = disk, hand' = hand, active' = active,
           pc \notin {"validate", "end", "files"}, pc' \notin {"files", "unlink"}
    PROVE  DiskInv'
  BY DEF DiskInv, FilesAreOwned, NewFilesStay, PathOwned, FilesOf, JustDb

\* Every file on disk has an owner that is installed or being installed, and what
\* a new package brought stays its own or another new package's.
LEMMA NextDisk == BaseInv /\ HoldInv /\ DiskInv /\ [Next]_vars => DiskInv'
<1> SUFFICES ASSUME BaseInv, HoldInv, DiskInv, [Next]_vars PROVE DiskInv'
  OBVIOUS
<1> USE DEF viewVars, stateVars
<1>t. /\ TypeOK /\ PlanSettled /\ Roles /\ Untouched /\ FilesAreOwned /\ NewFilesStay
      /\ txn' = txn /\ JustDb' = JustDb /\ NewHnums(txn)' = NewHnums(txn)
      /\ \A h : FilesOf(h)' = FilesOf(h)
  BY TxnStays DEF BaseInv, TypeInv, CursorInv, PlanInv, DiskInv, JustDb, FilesOf
<1>p. \A h \in active : FilesOf(h) \subseteq Paths
  BY <1>t, KnownPackages DEF TypeOK
<1>e. CASE pc' \in {"end", "validate"}
  BY <1>e DEF DiskInv, FilesAreOwned, NewFilesStay
<1>1. CASE Validate /\ pc' # "end"
  <2>1. active' = Indices(txn.db) /\ disk' = InitialDisk(txn) /\ pc' = "prevalidate"
    BY <1>t, <1>1 DEF Validate, Finish, Goto, Untouched
  <2>2. \A path \in Paths : disk'[path] # 0 => \E h \in active' : path \in FilesOf(h)
    BY <1>t, <2>1, InitiallyOwned
  <2>3. active' \cap NewHnums(txn) = {}
    BY <1>t, <2>1, NewRowsAreNew
  <2> QED BY <1>t, <2>1, <2>2, <2>3 DEF DiskInv, FilesAreOwned, NewFilesStay, PathOwned
<1>2. CASE pc' # "end" /\ (Prevalidate \/ RunPretrans \/ BeginInstall \/ BeginErase \/ RunPost
           \/ PassPrior \/ BeginErasePrior \/ PriorsDone \/ RunPostun \/ EraseRow)
  BY <1>t, <1>2, QuietDisk
  DEF Prevalidate, RunPretrans, BeginInstall, BeginErase, RunPost, PassPrior, BeginErasePrior,
      PriorsDone, RunPostun, EraseRow, AfterErase, CompleteItem, Finish, Goto
<1>3. CASE RunPre
  <2>1. /\ pc = "pre" /\ pc' = "files" /\ disk' = disk /\ active' = active /\ Item' = Item
        /\ hand = {} /\ hand' = {}
        /\ todo' = IF JustDb THEN {} ELSE Item.pkg.files
    BY <1>3 DEF RunPre, Goto, Item, BaseInv, ViewInv, VictimsInErase
  <2> QED BY <1>t, <2>1 DEF DiskInv, FilesAreOwned, NewFilesStay, PathOwned
<1>4. CASE \E path \in Paths : InstallFile(path) /\ pc' # "end"
  <2> PICK path \in Paths : InstallFile(path) /\ pc' # "end"
    BY <1>4
  <2>1. /\ pc = "files" /\ pc' = "files" /\ active' = active /\ Item' = Item /\ path \in todo
        /\ hand = {} /\ hand' = {path}
        /\ todo' = todo \ {path} /\ disk' = [disk EXCEPT ![path] = 0]
    BY DEF InstallFile, Finish, Goto, Item
  <2>2. \A p \in Paths : disk'[p] = IF p = path THEN 0 ELSE disk[p]
    BY <1>t, <2>1 DEF TypeOK
  <2>3. Item.pkg.files \subseteq Paths /\ todo \subseteq Item.pkg.files
    BY <1>t, <2>1, CurrentItem DEF PlanSettled, Working, Items, Packages, FilesAreOwned
  <2>4. FilesAreOwned'
    BY <1>t, <2>1, <2>2, <2>3 DEF FilesAreOwned, PathOwned
  <2>5. NewFilesStay'
    BY <1>t, <1>p, <2>1, <2>2, <2>3 DEF NewFilesStay
  <2> QED BY <2>4, <2>5 DEF DiskInv
<1>10. CASE \E path \in Paths : WriteFile(path)
  <2> PICK path \in Paths : WriteFile(path)
    BY <1>10
  <2>1. /\ pc = "files" /\ pc' = "files" /\ active' = active /\ Item' = Item /\ todo' = todo
        /\ path \in hand /\ hand' = {} /\ disk' = [disk EXCEPT ![path] = ItemHnum]
    BY DEF WriteFile, Goto, Item
  <2>2. /\ \A p \in Paths : disk'[p] = IF p = path THEN ItemHnum ELSE disk[p]
        /\ \A p \in hand : p = path
    BY <1>t, <2>1 DEF TypeOK
  <2>3. ItemHnum \in NewHnums(txn)
    BY <1>t, <2>1, RoleRows DEF Roles, Working
  <2>4. Item.pkg.files \subseteq Paths /\ hand \subseteq Item.pkg.files
    BY <1>t, <2>1, CurrentItem DEF PlanSettled, Working, Items, Packages, FilesAreOwned
  <2>5. FilesAreOwned'
    BY <1>t, <2>1, <2>2, <2>4 DEF FilesAreOwned, PathOwned
  <2>6. NewFilesStay'
    BY <1>t, <1>p, <2>1, <2>2, <2>3, <2>4 DEF NewFilesStay
  <2> QED BY <2>5, <2>6 DEF DiskInv
<1>5. CASE WriteDb
  <2>1. /\ pc = "files" /\ pc' = "post" /\ active' = active \cup {ItemHnum} /\ disk' = disk
        /\ todo = {} /\ hand = {} /\ hand' = {}
    BY <1>5 DEF WriteDb, Commit, Goto
  <2>2. FilesOf(ItemHnum) = Item.pkg.files
    BY <1>t, <2>1, CurrentItem DEF PlanSettled, Working
  <2>3. FilesAreOwned'
    BY <1>t, <2>1, <2>2 DEF FilesAreOwned, PathOwned
  <2>4. NewFilesStay'
    BY <1>t, <2>1, <2>2 DEF NewFilesStay
  <2> QED BY <2>3, <2>4 DEF DiskInv
<1>6. CASE RunPreun
  <2>1. /\ pc = "preun" /\ pc' = "unlink" /\ active' = active /\ disk' = disk /\ victim' = victim
        /\ ~JustDb => todo' = FilesOf(victim)
        /\ hand' = hand
    BY <1>6 DEF RunPreun, Goto
  <2> QED BY <1>t, <2>1 DEF DiskInv, FilesAreOwned, NewFilesStay, PathOwned
<1>7. CASE \E path \in Paths : EraseFile(path)
  <2> PICK path \in Paths : EraseFile(path)
    BY <1>7
  <2>1. /\ pc = "unlink" /\ pc' = "unlink" /\ active' = active /\ victim' = victim
        /\ todo' = todo \ {path} /\ hand' = hand
    BY DEF EraseFile, ErasePath, Goto
  <2>2. \A p \in Paths : disk'[p] = IF p = path /\ ~PathOwned(path, {victim}) THEN 0 ELSE disk[p]
    BY <1>t DEF EraseFile, ErasePath, TypeOK
  <2>3. FilesOf(victim) \subseteq Paths
    BY <1>t, <2>1, KnownPackages DEF PlanSettled, Erasing
  <2>4. victim \notin NewHnums(txn)
    BY <2>1, RoleRows DEF Working, Written, Erasing
  <2>5. FilesAreOwned'
    BY <1>t, <2>1, <2>2, <2>3 DEF FilesAreOwned, PathOwned
  <2>6. NewFilesStay'
    BY <1>t, <1>p, <2>1, <2>2, <2>4 DEF NewFilesStay, PathOwned
  <2> QED BY <2>5, <2>6 DEF DiskInv
<1>8. CASE FilesErased
  <2>1. /\ pc = "unlink" /\ pc' = "postun" /\ active' = active \ {victim} /\ disk' = disk
        /\ todo = {} /\ hand' = hand
    BY <1>8 DEF FilesErased, Goto
  <2>2. FilesAreOwned'
    BY <1>t, <2>1 DEF FilesAreOwned, PathOwned
  <2>3. NewFilesStay'
    BY <1>t, <2>1 DEF NewFilesStay
  <2> QED BY <2>2, <2>3 DEF DiskInv
<1>9. CASE UNCHANGED vars
  BY <1>t, <1>9 DEF vars, DiskInv, FilesAreOwned, NewFilesStay, PathOwned, Item
<1> QED
  BY <1>e, <1>1, <1>2, <1>3, <1>4, <1>5, <1>6, <1>7, <1>8, <1>9, <1>10
  DEF Next, Run, Fail, Crash, Done, RunPosttrans, Finish

\* After the last item the whole plan has been carried out.
LEMMA AllDone ==
    ASSUME RowInv, FileInv, DiskInv, pc = "item", pos > Len(txn.order)
    PROVE  RowsReachGoal /\ NoOrphans
<1>t. /\ BaseInv /\ TypeOK /\ PlanSound(txn) /\ victim = 0 /\ repl = 0 /\ hand = {} /\ RowsHold
      /\ completed = {txn.order[k] : k \in 1..(pos - 1)}
      /\ CompletedStayApplied /\ RowsAreActive /\ ActiveAreRows /\ FilesAreOwned /\ NewFilesStay
      /\ RowsHaveFiles
  BY DEF RowInv, HoldInv, BaseInv, TypeInv, PlanInv, Planned, ViewInv, VictimsInErase, CursorInv,
         Progress, FileInv, DiskInv, Working, Written, Erasing
<1>z. 0 \notin rows /\ 0 \notin active
  <2>1. \A n : 0 \notin 1..n
    OBVIOUS
  <2> QED BY <1>t, <2>1, NoRowZero, Zenon DEF TypeOK, Known
<1>1. ItemIds(txn) \subseteq completed
  <2> SUFFICES ASSUME NEW i \in ItemIds(txn) PROVE i \in completed
    OBVIOUS
  <2>1. PICK k \in Indices(txn.order) : txn.order[k] = i
    BY <1>t, OrderedItem
  <2>2. k \in 1..(pos - 1)
    BY <1>t, <2>1, Lengths DEF Indices, TypeOK, Hnums
  <2> QED BY <1>t, <2>1, <2>2
<1>2. ASSUME ~NoDb PROVE NewHnums(txn) \subseteq rows /\ RemovedHnums(txn) \cap rows = {}
  <2>1. \A i \in ItemIds(txn) :
           IF txn.items[i].type = "erase" THEN txn.items[i].hnum \notin rows
           ELSE NewHnum(txn, i) \in rows /\ PriorHnums(txn.items[i]) \cap rows = {}
    BY <1>t, <1>1, <1>2 DEF CompletedStayApplied
  <2>2. NewHnums(txn) \subseteq rows
    BY <2>1 DEF NewHnums, AddedItems
  <2>3. ErasedRows(txn.items) \cap rows = {}
    BY <2>1 DEF ErasedRows, ItemIds
  <2>4. \A i \in ItemIds(txn) : PriorHnums(txn.items[i]) \cap rows = {}
    <3> TAKE i \in ItemIds(txn)
    <3>1. CASE txn.items[i].type # "erase"
      BY <2>1, <3>1
    <3>2. CASE txn.items[i].type = "erase"
      <4>1. Priors(txn, i) = <<>>
        BY <1>t, <3>2 DEF PlanSound, RowsFound, Erases
      <4>2. PriorHnums(txn.items[i]) = {Priors(txn, i)[k].hnum : k \in Indices(Priors(txn, i))}
        BY <1>t, Visited DEF TypeOK
      <4>3. Indices(<<>>) = {}
        BY DEF Indices
      <4> QED BY <4>1, <4>2, <4>3
    <3> QED BY <3>1, <3>2
  <2> QED BY <2>2, <2>3, <2>4 DEF RemovedHnums
<1>3. RowsReachGoal
  BY <1>t, <1>2 DEF RowsReachGoal, GoalRows, RowsHold
<1>4. ASSUME ~NoDb PROVE rows = active
  <2>1. rows \subseteq active \cup {0} /\ active \subseteq rows \cup {0}
    BY <1>t, <1>4 DEF RowsAreActive, ActiveAreRows
  <2>2. rows \subseteq active /\ active \subseteq rows
    BY <1>z, <2>1
  <2> QED BY <2>2, Zenon
<1>5. NoOrphans
  <2> SUFFICES ASSUME ~NoDb, ~JustDb
               PROVE  /\ {path \in Paths : disk[path] # 0} = UNION {FilesOf(h) : h \in rows}
                      /\ \A h \in NewHnums(txn) : \A path \in FilesOf(h) :
                            disk[path] \in NewHnums(txn)
    BY DEF NoOrphans
  <2>1. \A path \in Paths : disk[path] # 0 => \E h \in rows : path \in FilesOf(h)
    BY <1>t, <1>4 DEF FilesAreOwned, PathOwned
  <2>2. \A h \in rows : \A path \in FilesOf(h) : disk[path] # 0
    BY <1>t, <1>z DEF RowsHaveFiles
  <2>3. \A h \in rows : FilesOf(h) \subseteq Paths
    BY <1>t, KnownPackages DEF TypeOK
  <2>4. {path \in Paths : disk[path] # 0} = UNION {FilesOf(h) : h \in rows}
    BY <2>1, <2>2, <2>3
  <2>5. \A h \in NewHnums(txn) : \A path \in FilesOf(h) : disk[path] \in NewHnums(txn)
    BY <1>t, <1>2, <1>4 DEF NewFilesStay
  <2> QED BY <2>4, <2>5
<1> QED BY <1>3, <1>5

\* An empty recording is carried out by doing nothing.
LEMMA EmptyDone ==
    ASSUME RowInv, pc = "validate", txn.items = <<>>
    PROVE  RowsReachGoal /\ NoOrphans
<1>t. TypeOK /\ rows = Indices(txn.db) /\ disk = InitialDisk(txn)
  BY DEF RowInv, BaseInv, TypeInv, PlanInv, Untouched
<1>1. Indices(<<>>) = {}
  BY DEF Indices
<1>2. NewHnums(txn) = {} /\ RemovedHnums(txn) = {}
  BY <1>1 DEF NewHnums, AddedItems, RemovedHnums, ErasedRows, ItemIds
<1>3. RowsReachGoal
  BY <1>t, <1>2 DEF RowsReachGoal, GoalRows
<1>4. \A h \in rows : FilesOf(h) \subseteq Paths
  BY <1>t, KnownPackages DEF TypeOK
<1>5. \A path \in Paths : disk[path] # 0 <=> \E h \in rows : path \in FilesOf(h)
  BY <1>t, InitiallyOwned
<1>6. {path \in Paths : disk[path] # 0} = UNION {FilesOf(h) : h \in rows}
  BY <1>4, <1>5
<1> QED BY <1>2, <1>3, <1>6 DEF NoOrphans

\* Success is reported in two places only.
LEMMA NextSuccess ==
    RowInv /\ FileInv /\ DiskInv /\ SuccessIsExact /\ [Next]_vars => SuccessIsExact'
<1> SUFFICES ASSUME RowInv, FileInv, DiskInv, SuccessIsExact, [Next]_vars, rc' = "ok"
             PROVE  RowsReachGoal' /\ NoOrphans'
  BY DEF SuccessIsExact
<1> USE DEF viewVars, stateVars
<1>t. txn' = txn /\ (pc # "end" => rc = "none") /\ BaseInv
  BY TxnStays DEF RowInv, BaseInv, PlanInv, Planned
<1>1. ASSUME RowsReachGoal, NoOrphans, rows' = rows, disk' = disk
      PROVE  RowsReachGoal' /\ NoOrphans'
  BY <1>t, <1>1 DEF RowsReachGoal, NoOrphans, FilesOf, NoDb, JustDb
<1>2. CASE Validate
  <2>1. pc = "validate" /\ txn.items = <<>> /\ rows' = rows /\ disk' = disk
    BY <1>t, <1>2 DEF Validate, Finish, Goto
  <2> QED BY <1>1, <2>1, EmptyDone
<1>3. CASE RunPosttrans
  <2>1. rows' = rows /\ disk' = disk
    BY <1>3 DEF RunPosttrans, Finish
  <2> QED BY <1>1, <1>3, <2>1, AllDone DEF RunPosttrans
<1>4. CASE UNCHANGED vars
  BY <1>1, <1>4 DEF vars, SuccessIsExact
<1>5. CASE EraseRow
  BY <1>t, <1>5 DEF EraseRow, AfterErase, CompleteItem, Goto
<1>6. CASE Prevalidate \/ RunPretrans \/ RunPre \/ RunPost \/ RunPreun \/ RunPostun \/ PassPrior
           \/ BeginErasePrior \/ PriorsDone \/ FilesErased \/ WriteDb \/ BeginInstall \/ BeginErase
  BY <1>t, <1>6 DEF Prevalidate, RunPretrans, RunPre, RunPost, RunPreun, RunPostun, PassPrior,
              BeginErasePrior, PriorsDone, CompleteItem, FilesErased, WriteDb, Commit, BeginInstall,
              BeginErase, Finish, Goto
<1>7. CASE \E path \in Paths : InstallFile(path) \/ WriteFile(path) \/ EraseFile(path)
  BY <1>t, <1>7 DEF InstallFile, WriteFile, EraseFile, ErasePath, Goto, Finish
<1>8. CASE Fail \/ Crash
  BY <1>8 DEF Fail, Crash, Finish
<1> QED
  BY <1>2, <1>3, <1>4, <1>5, <1>6, <1>7, <1>8 DEF Next, Run, Done

\* Success means the whole plan, for every plan: the rpmdb holds what was there,
\* less all that the plan supersedes or erases, and all that it adds; the disk
\* holds the files of exactly these packages, those of the added ones as they
\* brought them.
THEOREM SuccessMeansDone == Spec => []SuccessIsExact
<1> DEFINE Inv == RowInv /\ FileInv /\ DiskInv /\ SuccessIsExact
<1>1. Init => Inv
  <2>1. Init => DiskInv /\ SuccessIsExact
    BY DEF Init, Start, DiskInv, FilesAreOwned, NewFilesStay, SuccessIsExact
  <2> QED BY <2>1, InitRows, InitFiles
<1>2. Inv /\ [Next]_vars => Inv'
  <2>1. RowInv /\ FileInv /\ [Next]_vars => FileInv'
    BY NextFiles DEF RowInv, BaseInv
  <2>2. RowInv /\ DiskInv /\ [Next]_vars => DiskInv'
    BY NextDisk DEF RowInv
  <2> QED BY <2>1, <2>2, NextRows, NextSuccess
<1>3. Inv => SuccessIsExact
  OBVIOUS
<1> QED BY <1>1, <1>2, <1>3, PTL DEF Spec

-----------------------------------------------------------------------------
(* For the callers of the executor                                         *)

\* Success is reported only when the observer has heard of every item.
AllReported == rc = "ok" => completed = ItemIds(txn)

ExecInv == RowInv /\ FileInv /\ DiskInv /\ SuccessIsExact /\ AllReported

\* The executor does not stop with success before its last item.
LEMMA NextReported == RowInv /\ AllReported /\ [Next]_vars => AllReported'
<1> SUFFICES ASSUME RowInv, AllReported, [Next]_vars, rc' = "ok"
             PROVE  completed' = ItemIds(txn)'
  BY DEF AllReported
<1> USE DEF viewVars, stateVars
<1>t. txn' = txn /\ (pc # "end" => rc = "none") /\ BaseInv /\ TypeOK
  BY TxnStays DEF RowInv, BaseInv, PlanInv, Planned, TypeInv
<1>1. CASE Validate
  <2>1. txn.items = <<>> /\ completed' = completed /\ completed = {}
    BY <1>t, <1>1 DEF Validate, Finish, Goto, BaseInv, PlanInv, Untouched
  <2>2. ItemIds(txn)' = {}
    BY <1>t, <2>1 DEF ItemIds, Indices
  <2> QED BY <2>1, <2>2
<1>2. CASE RunPosttrans
  <2>1. /\ PlanSound(txn) /\ pos > Len(txn.order) /\ completed' = completed
        /\ completed = {txn.order[k] : k \in 1..(pos - 1)}
    BY <1>t, <1>2 DEF RunPosttrans, Finish, BaseInv, PlanInv, Planned, CursorInv, Progress
  <2>2. ItemIds(txn) \subseteq completed
    <3> SUFFICES ASSUME NEW i \in ItemIds(txn) PROVE i \in completed
      OBVIOUS
    <3>1. PICK k \in Indices(txn.order) : txn.order[k] = i
      BY <1>t, <2>1, OrderedItem
    <3>2. k \in 1..(pos - 1)
      BY <1>t, <2>1, <3>1, Lengths DEF Indices, TypeOK, Hnums
    <3> QED BY <2>1, <3>1, <3>2
  <2> QED BY <1>t, <2>1, <2>2 DEF TypeOK, ItemIds
<1>3. CASE UNCHANGED vars
  BY <1>t, <1>3 DEF vars, AllReported, ItemIds
<1>4. CASE EraseRow
  BY <1>t, <1>4 DEF EraseRow, AfterErase, CompleteItem, Goto
<1>5. CASE Prevalidate \/ RunPretrans \/ RunPre \/ RunPost \/ RunPreun \/ RunPostun \/ PassPrior
           \/ BeginErasePrior \/ PriorsDone \/ FilesErased \/ WriteDb \/ BeginInstall \/ BeginErase
  BY <1>t, <1>5 DEF Prevalidate, RunPretrans, RunPre, RunPost, RunPreun, RunPostun, PassPrior,
              BeginErasePrior, PriorsDone, CompleteItem, FilesErased, WriteDb, Commit, BeginInstall,
              BeginErase, Finish, Goto
<1>6. CASE \E path \in Paths : InstallFile(path) \/ WriteFile(path) \/ EraseFile(path)
  BY <1>t, <1>6 DEF InstallFile, WriteFile, EraseFile, ErasePath, Goto, Finish
<1>7. CASE Fail \/ Crash
  BY <1>7 DEF Fail, Crash, Finish
<1> QED
  BY <1>1, <1>2, <1>3, <1>4, <1>5, <1>6, <1>7 DEF Next, Run, Done

\* The invariant of an execution, for the proofs about its callers.
LEMMA InitExec == Init => ExecInv
<1>1. Init => DiskInv /\ SuccessIsExact /\ AllReported
  BY DEF Init, Start, DiskInv, FilesAreOwned, NewFilesStay, SuccessIsExact, AllReported
<1> QED BY <1>1, InitRows, InitFiles DEF ExecInv

LEMMA NextExec == ExecInv /\ [Next]_vars => ExecInv'
<1>1. RowInv /\ FileInv /\ [Next]_vars => FileInv'
  BY NextFiles DEF RowInv, BaseInv
<1>2. RowInv /\ DiskInv /\ [Next]_vars => DiskInv'
  BY NextDisk DEF RowInv
<1> QED BY <1>1, <1>2, NextRows, NextSuccess, NextReported DEF ExecInv

\* The observer hears of one item at a time, and of none twice.
LEMMA OneReport ==
    ASSUME ExecInv, [Next]_vars
    PROVE  \/ completed' = completed
           \/ \E i \in ItemIds(txn) \ completed : completed' = completed \cup {i}
<1>1. BaseInv /\ TypeInv
  BY DEF ExecInv, RowInv, BaseInv
<1>2. completed' \subseteq ItemIds(txn)
  BY <1>1, NextTypes, TxnStays DEF TypeInv, TypeOK, ItemIds
<1>3. completed' = completed \/ completed' = completed \cup {txn.order[pos]}
  BY <1>1, ReportSteps
<1> QED BY <1>2, <1>3

\* What is refused is refused by one of the checks before the first change.
LEMMA RefusedByChecks ==
    ASSUME ExecInv, [Next]_vars, rc \notin {"invalid", "mismatch"},
           rc' \in {"invalid", "mismatch"}
    PROVE  \/ pc = "validate" /\ txn.fixed /\ ~ValidateFixedOrder(txn.items, txn.order)
           \/ pc = "prevalidate" /\ ~(PlanMatches /\ PrimariesDistinct)
<1> USE DEF viewVars, stateVars
<1>t. BaseInv /\ (pc # "end" => rc = "none")
  BY DEF ExecInv, RowInv, BaseInv, PlanInv, Planned
<1>1. CASE Validate \/ Prevalidate
  BY <1>1 DEF Validate, Prevalidate, Finish, Goto
<1>2. CASE BeginInstall \/ BeginErase
  <2>1. pc = "item" /\ SelectionValid /\ (Item.type = "erase" => Item.hnum \in active)
    BY <1>t, <1>2, SelectionHolds DEF BeginInstall, BeginErase
  <2> QED BY <1>t, <1>2, <2>1 DEF BeginInstall, BeginErase, CompleteItem, Goto
<1>3. CASE EraseRow
  <2>1. AfterErase /\ pc = "eraseRow"
    BY <1>t, <1>3, EraseRowSucceeds DEF EraseRow
  <2> QED BY <1>t, <2>1 DEF AfterErase, CompleteItem, Goto
<1>4. CASE RunPretrans \/ RunPre \/ RunPost \/ RunPreun \/ RunPostun \/ PassPrior
           \/ BeginErasePrior \/ PriorsDone \/ FilesErased \/ WriteDb
  BY <1>t, <1>4 DEF RunPretrans, RunPre, RunPost, RunPreun, RunPostun, PassPrior, BeginErasePrior,
              PriorsDone, CompleteItem, FilesErased, WriteDb, Commit, Goto
<1>5. CASE \E path \in Paths : InstallFile(path) \/ WriteFile(path) \/ EraseFile(path)
  BY <1>t, <1>5 DEF InstallFile, WriteFile, EraseFile, ErasePath, Goto, Finish
<1>6. CASE \E o \in {"ok", "failed", "crashed"} : Finish(o)
  BY <1>6 DEF Finish
<1>7. CASE UNCHANGED vars
  BY <1>7 DEF vars
<1> QED
  BY <1>1, <1>2, <1>3, <1>4, <1>5, <1>6, <1>7 DEF Next, Run, Fail, Crash, Done, RunPosttrans
=============================================================================
