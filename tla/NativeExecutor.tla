--------------------------- MODULE NativeExecutor ---------------------------
(***************************************************************************)
(* The native transaction executor: runTransactionNativeImpl of            *)
(* client/transaction.zig with the package installer (rpmzig/install.zig), *)
(* the eraser (rpmzig/erase.zig) and the rpmdb writer it calls.            *)
(*                                                                         *)
(* The executor keeps a view of the packages (TransactionView): an entry   *)
(* is active while its files count as owned and db_visible while its row   *)
(* counts as present.  Files are written and removed one by one and every  *)
(* change of the rpmdb is a commit of its own; there is no rollback.  So   *)
(* any call that fails, and a crash at any point, leaves the files and the *)
(* rows of that moment behind.  Directories, ghosts and %config files are  *)
(* not distinguished here (see ConfigFile for the latter).                 *)
(***************************************************************************)
EXTENDS TransactionPlan, FiniteSets

CONSTANTS
    Txns,  \* the transactions to execute
    Paths  \* the paths that packages own

Packages == [name : STRING, arch : STRING, evr : Nat, files : SUBSET Paths]
PlanRows == [hnum : Nat, pkg : Packages]
Items == [type : ItemTypes, pkg : Packages, hnum : Nat, priors : Seq(PlanRows)]

ASSUME TxnsAssumption ==
    Txns \subseteq [db : Seq(Packages), items : Seq(Items), order : Seq(Nat),
                   fixed : BOOLEAN, flags : SUBSET Flags]

VARIABLES
    txn,        \* the transaction being executed
    pc,         \* the step of the executor
    pos,        \* PlanOrderIterator.position, from 1
    active,     \* hnums of the active view entries
    visible,    \* hnums of the db_visible view entries
    rows,       \* hnums of the rows in the rpmdb
    disk,       \* for each path the hnum whose package wrote it, 0 = no whole file
    hand,       \* the path the installer has unlinked and not written yet, if any
    todo,       \* paths the running install or erase still has to look at
    repl,       \* hnum of the replacement prior of the item, 0 = none
    next,       \* index of the next prior the item has to visit
    victim,     \* hnum being erased, 0 = none
    completed,  \* input indices reported to the observer
    rc          \* outcome

viewVars == <<active, visible>>
stateVars == <<rows, disk, hand>>
vars == <<txn, pc, pos, viewVars, stateVars, todo, repl, next, victim,
          completed, rc>>

Test == "TEST" \in txn.flags
NoDb == txn.flags \cap {"TEST", "NODB"} # {}        \* effectiveFlags
JustDb == txn.flags \cap {"TEST", "JUSTDB"} # {}

Item == txn.items[txn.order[pos]]
ItemPriors == Priors(txn, txn.order[pos])
ItemHnum == NewHnum(txn, txn.order[pos])
FilesOf(h) == PkgOf(txn, h).files

\* nativePathOwned: an active entry that is not ignored owns the path.
PathOwned(path, ignored) == \E h \in active \ ignored : path \in FilesOf(h)

\* The files of the installed packages are on disk, a shared one written by any
\* of its owners.
Owners(t, path) == {h \in Indices(t.db) : path \in t.db[h].files}
InitialDisk(t) ==
    [path \in Paths |->
        IF Owners(t, path) = {} THEN 0 ELSE CHOOSE h \in Owners(t, path) : TRUE]

\* The executor is called.
Start ==
    /\ ~txn.fixed => NativePlanned(txn.db, txn.items, txn.order)
    /\ pc = "validate"
    /\ pos = 1
    /\ rows = Indices(txn.db)
    /\ active = {} /\ visible = {}
    /\ disk = InitialDisk(txn) /\ hand = {}
    /\ todo = {}
    /\ repl = 0 /\ next = 1 /\ victim = 0
    /\ completed = {}
    /\ rc = "none"

Init == txn \in Txns /\ Start

-----------------------------------------------------------------------------
\* Return to the caller: nothing is undone.
Finish(outcome) ==
    /\ pc' = "end"
    /\ rc' = outcome
    /\ UNCHANGED <<txn, pos, viewVars, stateVars, todo, repl, next, victim, completed>>

\* Move on within the executor.
Goto(step) == pc' = step /\ UNCHANGED <<txn, completed, rc>>

\* executeFixedOrderObserved checks the item graph; runTransactionNativeImpl
\* then reads the view from the rpmdb.
Validate ==
    /\ pc = "validate"
    /\ IF txn.fixed /\ ~ValidateFixedOrder(txn.items, txn.order)
       THEN Finish("invalid")
       ELSE IF txn.fixed /\ txn.items = <<>> THEN Finish("ok")
       ELSE /\ active' = rows /\ visible' = rows
            /\ Goto("prevalidate")
            /\ UNCHANGED <<pos, stateVars, todo, repl, next, victim>>

\* Mutant: a recorded row is looked up by its number alone.
RowMatches_Anything(row) == row.hnum \in active

\* A row the plan speaks of is in the view, and for a recorded plan it still
\* holds the name, version and architecture it had (identityMatchesHeader); the
\* rest of the package, its files among it, is not compared.
RowMatches(row) ==
    /\ row.hnum \in active
    /\ txn.fixed => SameNevra(PkgOf(txn, row.hnum), row.pkg)

\* prevalidatePlanStructure
PlanMatches ==
    /\ IsPermutation(txn.order, Len(txn.items))
    /\ \A i \in ItemIds(txn) :
          /\ txn.items[i].type = "erase" =>
                /\ Priors(txn, i) = <<>>
                /\ RowMatches([hnum |-> txn.items[i].hnum, pkg |-> txn.items[i].pkg])
          /\ \A k \in Indices(Priors(txn, i)) : RowMatches(Priors(txn, i)[k])

\* The collection of primary_hnums: a replacing item has a prior to replace,
\* and no two of them the same.
PrimariesDistinct ==
    /\ \A i \in ItemIds(txn) : Replaces(txn.items[i]) => Priors(txn, i) # <<>>
    /\ \A i, j \in ItemIds(txn) :
          /\ Replaces(txn.items[i]) /\ Replaces(txn.items[j])
          /\ Priors(txn, i)[1].hnum = Priors(txn, j)[1].hnum
          => i = j

Prevalidate ==
    /\ pc = "prevalidate"
    /\ IF ~PlanMatches THEN Finish(IF txn.fixed THEN "mismatch" ELSE "invalid")
       ELSE IF ~PrimariesDistinct THEN Finish("invalid")
       ELSE Goto("pretrans")
            /\ UNCHANGED <<pos, viewVars, stateVars, todo, repl, next, victim>>

\* %pretrans and the transaction file triggers on removal.
RunPretrans ==
    /\ pc = "pretrans"
    /\ Goto("item")
    /\ UNCHANGED <<pos, viewVars, stateVars, todo, repl, next, victim>>

-----------------------------------------------------------------------------
\* The item is done: the observer hears of it and the iterator moves on.
CompleteItem ==
    /\ pc' = "item"
    /\ pos' = pos + 1
    /\ completed' = completed \cup {txn.order[pos]}
    /\ repl' = 0 /\ next' = 1 /\ victim' = 0 /\ todo' = {}
    /\ UNCHANGED <<txn, rc>>

\* selectReplacementPriorIndex.  Invalid when a prior is not in the view or the
\* primary of a replacing item is no longer active.
SelectionValid ==
    /\ \A k \in Indices(ItemPriors) : ItemPriors[k].hnum \in Indices(txn.db)
    /\ Replaces(Item) => ItemPriors # <<>> /\ ItemPriors[1].hnum \in active

Replaceable ==
    {k \in Indices(ItemPriors) :
        ItemPriors[k].hnum \in active \ PrimaryHnums(txn)}

Replacement ==
    IF Replaces(Item) THEN ItemPriors[1].hnum
    ELSE IF Replaceable = {} THEN 0
    ELSE ItemPriors[CHOOSE k \in Replaceable : \A j \in Replaceable : k <= j].hnum

\* processInstallItem up to the %pre scriptlet.
BeginInstall ==
    /\ pc = "item" /\ pos <= Len(txn.order) /\ Item.type # "erase"
    /\ IF ~SelectionValid THEN Finish("invalid")
       ELSE IF Test THEN CompleteItem /\ UNCHANGED <<viewVars, stateVars>>
       ELSE /\ repl' = Replacement
            /\ Goto("pre")
            /\ UNCHANGED <<pos, viewVars, stateVars, todo, next, victim>>

\* %pre succeeded; the installer walks the payload unless only the database is
\* to change.
RunPre ==
    /\ pc = "pre"
    /\ todo' = IF JustDb THEN {} ELSE Item.pkg.files
    /\ Goto("files")
    /\ UNCHANGED <<pos, viewVars, stateVars, repl, next, victim>>

\* decideAction: a file that is already there belongs to a prior of the item, or
\* to nobody who stays.
Conflicts(path) ==
    /\ disk[path] # 0
    /\ \A k \in Indices(ItemPriors) : path \notin PkgOf(txn, ItemPriors[k].hnum).files
    /\ PathOwned(path, RemovedHnums(txn))

\* writeRegularFile replaces a path in place: it unlinks what is there ...
InstallFile(path) ==
    /\ pc = "files" /\ hand = {} /\ path \in todo
    /\ IF Conflicts(path) THEN Finish("failed")
       ELSE /\ disk' = [disk EXCEPT ![path] = 0]
            /\ hand' = {path}
            /\ todo' = todo \ {path}
            /\ Goto("files")
            /\ UNCHANGED <<pos, viewVars, rows, repl, next, victim>>

\* ... then creates the file and writes it to its end.
WriteFile(path) ==
    /\ pc = "files" /\ path \in hand
    /\ disk' = [disk EXCEPT ![path] = ItemHnum]
    /\ hand' = {}
    /\ Goto("files")
    /\ UNCHANGED <<pos, viewVars, rows, todo, repl, next, victim>>

\* The new package enters the view; the database holds newRows.
Commit(newRows) ==
    /\ pc = "files" /\ todo = {} /\ hand = {}
    /\ IF NoDb THEN UNCHANGED <<rows, visible>>
       ELSE /\ rows' = newRows
            /\ visible' = visible \cup {ItemHnum}
    /\ active' = active \cup {ItemHnum}
    /\ Goto("post")
    /\ UNCHANGED <<pos, disk, hand, todo, repl, next, victim>>

\* Mutants: all priors go in one commit; nothing is written unless a row is
\* replaced.
WriteDb_DropsPriors == Commit((rows \ PriorHnums(Item)) \cup {ItemHnum})
WriteDb_OnlyReplaces ==
    Commit(IF repl = 0 THEN rows ELSE (rows \ {repl}) \cup {ItemHnum})

\* rpmz_rpmdb_write_replace_file_config deletes the prior's row and inserts the
\* new one in one commit; rpmz_rpmdb_write_install_file_config only inserts.
\* view.activate follows, for which room was reserved beforehand.
WriteDb == Commit((rows \ {repl}) \cup {ItemHnum})

\* %filetriggerin, %post and %triggerin.
RunPost ==
    /\ pc = "post"
    /\ Goto("priors")
    /\ UNCHANGED <<pos, viewVars, stateVars, todo, repl, next, victim>>

\* Mutant: the replaced prior, too, is left to the item that has it as primary.
SkipPrior_AnyPrimary(h) == h \notin active \/ h \in PrimaryHnums(txn)

\* The loop over the priors: one that is gone is skipped, and one that is the
\* primary of another item is left to that item.
SkipPrior(h) == h \notin active \/ (h # repl /\ h \in PrimaryHnums(txn))

\* Mutant: the loop does not get past a prior it skips.
PassPrior_Again ==
    /\ pc = "priors" /\ next <= Len(ItemPriors)
    /\ SkipPrior(ItemPriors[next].hnum)
    /\ Goto("priors")
    /\ UNCHANGED <<pos, viewVars, stateVars, todo, repl, next, victim>>

\* A skipped prior: the loop continues.
PassPrior ==
    /\ pc = "priors" /\ next <= Len(ItemPriors)
    /\ SkipPrior(ItemPriors[next].hnum)
    /\ next' = next + 1
    /\ Goto("priors")
    /\ UNCHANGED <<pos, viewVars, stateVars, todo, repl, victim>>

\* eraseOldAfterReplace begins.
BeginErasePrior ==
    /\ pc = "priors" /\ next <= Len(ItemPriors)
    /\ ~SkipPrior(ItemPriors[next].hnum)
    /\ victim' = ItemPriors[next].hnum
    /\ next' = next + 1
    /\ Goto("preun")
    /\ UNCHANGED <<pos, viewVars, stateVars, todo, repl>>

PriorsDone ==
    /\ pc = "priors" /\ next > Len(ItemPriors)
    /\ CompleteItem
    /\ UNCHANGED <<viewVars, stateVars>>

\* processEraseItem begins.
BeginErase ==
    /\ pc = "item" /\ pos <= Len(txn.order) /\ Item.type = "erase"
    /\ IF Item.hnum \notin active THEN Finish("invalid")
       ELSE IF Test THEN CompleteItem /\ UNCHANGED <<viewVars, stateVars>>
       ELSE /\ victim' = Item.hnum
            /\ Goto("preun")
            /\ UNCHANGED <<pos, viewVars, stateVars, todo, repl, next>>

\* %filetriggerun, %triggerun and %preun.
RunPreun ==
    /\ pc = "preun"
    /\ todo' = IF JustDb THEN {} ELSE FilesOf(victim)
    /\ Goto("unlink")
    /\ UNCHANGED <<pos, viewVars, stateVars, repl, next, victim>>

\* The eraser looks at one path, which may be kept.
ErasePath(path, keep) ==
    /\ pc = "unlink" /\ path \in todo
    /\ disk' = IF keep THEN disk ELSE [disk EXCEPT ![path] = 0]
    /\ todo' = todo \ {path}
    /\ Goto("unlink")
    /\ UNCHANGED <<pos, viewVars, rows, hand, repl, next, victim>>

\* Mutant: as for an install, no row that the transaction removes counts as an
\* owner, though some still wait for their turn.
EraseFile_IgnoresRemoved(path) ==
    ErasePath(path, PathOwned(path, {victim} \cup RemovedHnums(txn)))

\* erase.zig: a path that another active package owns is kept.
EraseFile(path) == ErasePath(path, PathOwned(path, {victim}))

FilesErased ==
    /\ pc = "unlink" /\ todo = {}
    /\ active' = active \ {victim}
    /\ Goto("postun")
    /\ UNCHANGED <<pos, visible, stateVars, todo, repl, next, victim>>

\* %filetriggerpostun, %postun, %triggerpostun and schedulePostun.
RunPostun ==
    /\ pc = "postun"
    /\ Goto("eraseRow")
    /\ UNCHANGED <<pos, viewVars, stateVars, todo, repl, next, victim>>

\* After an erase comes the next item, after a prior the next prior.
AfterErase ==
    IF Item.type = "erase" THEN CompleteItem
    ELSE /\ victim' = 0
         /\ Goto("priors")
         /\ UNCHANGED <<pos, todo, repl, next>>

\* The victim's row goes, unless the replacement already took it; it must have
\* been visible until then.
EraseRow ==
    /\ pc = "eraseRow"
    /\ rows' = IF NoDb \/ victim = repl THEN rows ELSE rows \ {victim}
    /\ visible' = IF NoDb THEN visible ELSE visible \ {victim}
    /\ IF ~NoDb /\ victim \notin visible
       THEN /\ pc' = "end" /\ rc' = "invalid"
            /\ UNCHANGED <<txn, pos, todo, repl, next, victim, completed>>
       ELSE AfterErase
    /\ UNCHANGED <<active, disk, hand>>

\* %posttrans and the transaction file triggers on installation.
RunPosttrans ==
    /\ pc = "item" /\ pos > Len(txn.order)
    /\ Finish("ok")

-----------------------------------------------------------------------------
\* A scriptlet or trigger that fails, an I/O error of the installer, the eraser
\* or the rpmdb: the executor returns at once.
Fallible == {"validate", "prevalidate", "pretrans", "pre", "files", "post",
             "preun", "unlink", "postun", "eraseRow", "item"}

Fail == pc \in Fallible /\ Finish("failed")

\* The machine stops: no outcome is ever reported.
Crash ==
    /\ pc # "end"
    /\ Finish("crashed")

Run ==
    \/ Validate \/ Prevalidate \/ RunPretrans
    \/ BeginInstall \/ RunPre \/ (\E path \in Paths : InstallFile(path) \/ WriteFile(path)) \/ WriteDb
    \/ RunPost \/ PassPrior \/ BeginErasePrior \/ PriorsDone
    \/ BeginErase \/ RunPreun \/ (\E path \in Paths : EraseFile(path)) \/ FilesErased
    \/ RunPostun \/ EraseRow \/ RunPosttrans

\* The caller has its answer.
Done == pc = "end" /\ UNCHANGED vars

Next == Run \/ Fail \/ Crash \/ Done

Spec == Init /\ [][Next]_vars

\* The executor is a sequential program that keeps running.
FairSpec == Spec /\ WF_vars(Run)

-----------------------------------------------------------------------------
Hnums == Nat \ {0}

\* The rows there are or will be: the old ones and one for every added package.
Known == 1..(Len(txn.db) + Len(txn.items))

TypeOK ==
    /\ txn \in Txns
    /\ pc \in Fallible \cup {"priors", "end"}
    /\ pos \in Hnums /\ next \in Hnums
    /\ active \subseteq Known /\ visible \subseteq Known /\ rows \subseteq Known
    /\ disk \in [Paths -> Nat]
    /\ hand \subseteq Paths /\ \A p, q \in hand : p = q
    /\ todo \subseteq Paths
    /\ repl \in Nat /\ victim \in Known \cup {0}
    /\ completed \subseteq ItemIds(txn)
    /\ rc \in {"none", "ok", "invalid", "mismatch", "failed", "crashed"}

\* A plan that is refused has changed nothing: "unsupported graphs never become
\* transaction-time failures" (comment on validateFixedOrder).  Every check the
\* executor makes on its way must follow from those made before the first
\* change, however items share priors and in whatever order they are recorded.
RefusedBeforeChange ==
    rc \in {"invalid", "mismatch"} =>
        rows = Indices(txn.db) /\ disk = InitialDisk(txn)

\* Whenever the executor stops, by crash, failure or success, each row of the
\* rpmdb has its files whole on disk, except the one row being erased and the one
\* file that was being replaced, which may be missing or cut short though an old
\* or a sharing package's row names it: installing writes all files before the
\* row and no erase takes a file another row owns.
RowsHaveFiles ==
    ~JustDb /\ ~NoDb =>
        /\ \A p, q \in hand : p = q
        /\ \A h \in rows \ {victim} : \A path \in FilesOf(h) \ hand : disk[path] # 0

\* All priors and erased rows are gone although items skip priors that others
\* handle, all new rows are there, nothing else changed.
RowsReachGoal == ~NoDb => rows = GoalRows(txn)

\* The disk holds the files of the installed packages and no
\* leftovers of removed ones, and what an added package brought was not
\* overwritten or removed by cleaning up after a package it superseded.
NoOrphans ==
    ~NoDb /\ ~JustDb =>
        /\ {path \in Paths : disk[path] # 0} = UNION {FilesOf(h) : h \in rows}
        /\ \A h \in NewHnums(txn) : \A path \in FilesOf(h) : disk[path] \in NewHnums(txn)

\* Success means the whole plan, in the rpmdb and on disk.
SuccessIsExact == rc = "ok" => RowsReachGoal /\ NoOrphans

\* What the observer was told stays true, even when a later item fails: the
\* item's row is in the rpmdb and no row it supersedes is, whichever item had
\* the task of removing it; an erased row is gone.
CompletedStayApplied ==
    ~NoDb => \A i \in completed :
        IF txn.items[i].type = "erase" THEN txn.items[i].hnum \notin rows
        ELSE NewHnum(txn, i) \in rows /\ PriorHnums(txn.items[i]) \cap rows = {}

\* The argument of %preun and %postun: the executor runs them with 0 only for
\* the last package of a name, so never for one whose name is still installed
\* when a transaction planned here has succeeded.
LastOfName ==
    LET Elsewhere(hnums) ==
            \E h \in hnums \ {victim} : PkgOf(txn, h).name = PkgOf(txn, victim).name
    IN  pc \in {"preun", "unlink"} /\ ~txn.fixed /\ Elsewhere(GoalRows(txn))
            => Elsewhere(active)

\* A recorded transaction takes away only what it recorded: a row that holds
\* another name, version or architecture than at the time of the recording stays.
\* A row of the same NEVRA goes, with the files it has now, whatever files the
\* recorded package had.
RemovedAsRecorded ==
    LET Recorded(h) ==
            \E i \in ItemIds(txn) :
                \/ txn.items[i].hnum = h /\ SameNevra(txn.items[i].pkg, txn.db[h])
                \/ \E k \in Indices(txn.items[i].priors) :
                      /\ txn.items[i].priors[k].hnum = h
                      /\ SameNevra(txn.items[i].priors[k].pkg, txn.db[h])
    IN  \A h \in Indices(txn.db) \ rows : Recorded(h)

\* A package that a transaction planned here keeps in some version is never
\* absent from the rpmdb, wherever the transaction stops: its new row takes the
\* place of its own old one, and packages come before others go.
NameNeverMissing ==
    LET Names(hnums) == {PkgOf(txn, h).name : h \in hnums}
    IN  ~txn.fixed /\ ~NoDb
            => Names(Indices(txn.db)) \cap Names(GoalRows(txn)) \subseteq Names(rows)

\* Every execution ends.
Terminates == <>(pc = "end")

\* Readers of the rpmdb see the abstract transaction of InstalledSet.
Abstract == INSTANCE InstalledSet
            WITH Rows <- Hnums, installed <- rows, goal <- GoalRows(txn)
CommitsTowardsGoal == Abstract!Spec
=============================================================================
