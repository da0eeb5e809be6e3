------------------------------- MODULE Replay -------------------------------
(***************************************************************************)
(* Replaying a recorded transaction: runValidated of client/replay.zig     *)
(* over the native executor (NativeExecutor).  A plan is validated, the    *)
(* lock of the install root taken, the rpmdb compared with the recording,  *)
(* the recorded steps turned into a fixed order and executed, and the      *)
(* outcome of every recorded action reported with the final inventory.     *)
(*                                                                         *)
(* A plan is a record                                                      *)
(*   db        the rows of the target's rpmdb: hnum h holds db[h];         *)
(*   recorded  the rows of the rpmdb that the plan was recorded against;   *)
(*   actions   [kind, pkg, hnum, priors]: what the transaction means, hnum *)
(*             the row that an erase removes, 0 for a new package, priors  *)
(*             the rows that the new package supersedes;                   *)
(*   steps     [action, op, row]: what was done for which action, row the  *)
(*             one that was erased, 0 for the action's new package;        *)
(*   main      whether the rpmdb file is "present" or "absent" at first.   *)
(*                                                                         *)
(* Two others act on the target: another rpmz process that holds the lock  *)
(* while it removes packages, and a program that knows nothing of the lock *)
(* and may create an rpmdb where there is none.                            *)
(***************************************************************************)
EXTENDS TransactionPlan, FiniteSets

CONSTANTS
    Plans,  \* the recorded plans
    Paths   \* the paths that packages own

VARIABLES
    txn, pc, pos, active, visible, rows, disk, hand, todo, repl, next, victim,
    completed, rc,  \* the executor
    plan,
    stage,    \* how far runValidated has come
    lock,     \* who has the lock of the install root
    main,     \* the rpmdb file; "empty" after Materialize, "foreign" if not ours
    pin,      \* what main was when the lock was taken
    outcome,  \* status of each action
    count,    \* Progress.completed
    result    \* [status, why, digest, inventory], an inventory as <<rows>> or <<>>

execVars == <<txn, pc, pos, active, visible, rows, disk, hand, todo, repl, next,
              victim, completed, rc>>
vars == <<execVars, plan, stage, lock, main, pin, outcome, count, result>>

-----------------------------------------------------------------------------
(* The recorded plan                                                       *)

ActionIds(p) == Indices(p.actions)
Erases(action) == action.kind \in {"downgrade", "obsolete"}
PriorRows(action) == {action.priors[k] : k \in Indices(action.priors)}

\* targetExecutionOperation: a downgrade and an obsolete are an install, and
\* erases of their own for the rows they supersede.
TargetOperation(kind) == IF kind \in {"downgrade", "obsolete"} THEN "install" ELSE kind

Primary(p, step) ==
    /\ step.op = TargetOperation(p.actions[step.action].kind)
    /\ step.row = p.actions[step.action].hnum

\* validateActionRelation: compares with the newest prior of the same name.
ValidRelation(p, action) ==
    LET evrs == {p.recorded[h].evr : h \in {g \in PriorRows(action) :
                                               p.recorded[g].name = action.pkg.name}}
        newest == CHOOSE v \in evrs : \A w \in evrs : w <= v
    IN  CASE action.kind = "obsolete"  -> evrs = {}
          [] action.kind = "reinstall" -> evrs # {} /\ action.pkg.evr = newest
          [] action.kind = "upgrade"   -> evrs # {} /\ action.pkg.evr > newest
          [] action.kind = "downgrade" -> evrs # {} /\ action.pkg.evr < newest

\* validateActions
ValidActions(p) ==
    /\ \A a \in ActionIds(p) : LET action == p.actions[a] IN
          /\ PriorRows(action) \subseteq Indices(p.recorded)
          /\ Cardinality(PriorRows(action)) = Len(action.priors)
          /\ IF action.kind = "erase"
             THEN /\ action.hnum \in Indices(p.recorded)
                  /\ action.pkg = p.recorded[action.hnum]
             ELSE action.hnum = 0
          /\ IF action.kind \in {"install", "erase"} THEN action.priors = <<>>
             ELSE action.priors # <<>> /\ ValidRelation(p, action)
    /\ \A a, b \in ActionIds(p) :
          /\ p.actions[a].pkg = p.actions[b].pkg
          /\ p.actions[a].hnum = p.actions[b].hnum
          => a = b

RequiredErases(p) ==
    UNION {PriorRows(p.actions[a]) : a \in {b \in ActionIds(p) : Erases(p.actions[b])}}

\* validateExecution: one step for every action and one erase, on behalf of an
\* action that supersedes it, for every row that has to go that way.
ValidExecution(p) ==
    LET own == {s \in Indices(p.steps) : Primary(p, p.steps[s])}
        others == Indices(p.steps) \ own
    IN  /\ Len(p.steps) = Len(p.actions) + Cardinality(RequiredErases(p))
        /\ \A s \in Indices(p.steps) : p.steps[s].action \in ActionIds(p)
        /\ \A s, t \in own : p.steps[s].action = p.steps[t].action => s = t
        /\ \A s \in others :
              LET action == p.actions[p.steps[s].action]
              IN  p.steps[s].op = "erase" /\ Erases(action)
                  /\ p.steps[s].row \in PriorRows(action)
        /\ \A s, t \in others : p.steps[s].row = p.steps[t].row => s = t
        /\ {p.steps[s].action : s \in own} = ActionIds(p)
        /\ {p.steps[s].row : s \in others} = RequiredErases(p)

\* buildFixedOrder: the item of one step.
StepItem(p, step) ==
    LET action == p.actions[step.action]
    IN  IF ~Primary(p, step) \/ action.kind = "erase"
        THEN [type |-> "erase", pkg |-> p.db[step.row], hnum |-> step.row, priors |-> <<>>]
        ELSE [type |-> TargetOperation(action.kind), pkg |-> action.pkg, hnum |-> 0,
              priors |-> IF Erases(action) THEN <<>>
                         ELSE [k \in Indices(action.priors) |->
                                 [hnum |-> action.priors[k],
                                  pkg |-> p.db[action.priors[k]]]]]

Txn(p) ==
    [db |-> p.db, items |-> [s \in Indices(p.steps) |-> StepItem(p, p.steps[s])],
     order |-> [s \in Indices(p.steps) |-> s], fixed |-> TRUE, flags |-> {}]

Exec == INSTANCE NativeExecutor WITH Txns <- {Txn(p) : p \in Plans}

\* What the parser of a plan makes of any bundle, valid or not.
ASSUME PlansAssumption ==
    Plans \subseteq
        [db : Seq(Exec!Packages), recorded : Seq(Exec!Packages),
         actions : Seq([kind : ItemTypes, pkg : Exec!Packages, hnum : Nat,
                        priors : Seq(Nat)]),
         steps : Seq([action : Nat, op : ItemTypes, row : Nat]),
         main : {"present", "absent"}]

\* The step that installs the package of an action.
PrimaryStep(p, a) ==
    CHOOSE s \in Indices(p.steps) : p.steps[s].action = a /\ Primary(p, p.steps[s])

\* projectFinalInventory: the rows that stay and one for every new package.
ProjectedInventory(p) ==
    LET gone == (UNION {PriorRows(p.actions[a]) : a \in ActionIds(p)})
                \cup {p.actions[a].hnum : a \in ActionIds(p)}
        new == {a \in ActionIds(p) : p.actions[a].kind # "erase"}
    IN  (Indices(p.db) \ gone) \cup {NewHnum(Txn(p), PrimaryStep(p, a)) : a \in new}

\* inventoriesEqual: the same packages, each as often.
SameInventory(p, S, T) ==
    LET id(h) == LET q == PkgOf(Txn(p), h) IN <<q.name, q.evr, q.arch>>
    IN  \A h \in S \cup T :
            Cardinality({g \in S : id(g) = id(h)}) = Cardinality({g \in T : id(g) = id(h)})

-----------------------------------------------------------------------------
(* Progress                                                                *)

\* Mutant: an erase counts only for the action it was recorded for.
Affected_OwnAction(p, s) == {p.steps[s].action}

\* progressForStep: the actions that have the step as part of their work.
Affected(p, s) ==
    {p.steps[s].action} \cup
    {a \in ActionIds(p) : /\ p.steps[s].op = "erase"
                          /\ Erases(p.actions[a])
                          /\ p.steps[s].row \in PriorRows(p.actions[a])}

Expected(p, a) == Cardinality({s \in Indices(p.steps) : a \in Affected(p, s)})

\* incrementCompleted, for every action that the step concerns.
Progress(s) ==
    LET newCount == [a \in ActionIds(plan) |->
                        IF a \in Affected(plan, s) THEN count[a] + 1 ELSE count[a]]
    IN  /\ count' = newCount
        /\ outcome' = [a \in ActionIds(plan) |->
                          IF a \in Affected(plan, s) /\ newCount[a] = Expected(plan, a)
                          THEN "applied" ELSE outcome[a]]

-----------------------------------------------------------------------------
Init ==
    /\ plan \in Plans
    /\ txn = Txn(plan)
    /\ Exec!Start
    /\ stage = "preflight"
    /\ lock = "free"
    /\ main = plan.main
    /\ pin = "none"
    /\ outcome = [a \in ActionIds(plan) |-> "not_attempted"]
    /\ count = [a \in ActionIds(plan) |-> 0]
    /\ result = [status |-> "none", why |-> "none", digest |-> "null", inventory |-> <<>>]

\* Move on.
Goto(step) == stage' = step /\ UNCHANGED <<plan, outcome, count>>

\* Return to the caller, which gives up the lock.
Return(status, why, digest, inventory) ==
    /\ stage' = "end"
    /\ lock' = IF lock = "replay" THEN "free" ELSE lock
    /\ result' = [status |-> status, why |-> why, digest |-> digest, inventory |-> inventory]
    /\ UNCHANGED <<execVars, plan, main, pin>>

\* An error that runValidated returns.
Refuse(why) ==
    /\ Return("validation_failed", why, "null", result.inventory)
    /\ UNCHANGED <<outcome, count>>

\* captureSnapshot can read the rpmdb, unless one was put where it found none.
Readable == ~(pin = "absent" /\ main = "foreign")

\* markIndeterminate
MarkIndeterminate ==
    /\ outcome' = [a \in ActionIds(plan) |->
                      IF outcome[a] = "applied" THEN "applied" ELSE "indeterminate"]
    /\ UNCHANGED count

\* Mutant: the inventory of before the execution is returned.
RecordTransactionFailure_Stale(why) ==
    /\ MarkIndeterminate
    /\ Return("transaction_failed", why, "null", result.inventory)

\* recordTransactionFailure and captureFailedFinalInventory
RecordTransactionFailure(why) ==
    /\ MarkIndeterminate
    /\ \/ Readable /\ Return("transaction_failed", why, "null", <<rows>>)
       \/ Return("transaction_failed", "final_inventory_unreadable", "null", <<>>)

\* The bundle is read and everything in it verified, the plan parsed.
Preflight ==
    /\ stage = "preflight"
    /\ \/ Refuse("bundle_mismatch")
       \/ ~(ValidActions(plan) /\ ValidExecution(plan)) /\ Refuse("plan_mismatch")
       \/ /\ ValidActions(plan) /\ ValidExecution(plan)
          /\ Goto("lock")
          /\ UNCHANGED <<execVars, lock, main, pin, result>>

\* transaction_lock.acquire: waits, may fail, and pins the rpmdb it finds.
Acquire ==
    /\ stage = "lock"
    /\ \/ Refuse("lock_failed")
       \/ /\ lock = "free"
          /\ lock' = "replay"
          /\ pin' = IF main = "absent" THEN "absent" ELSE "present"
          /\ Goto("snapshot")
          /\ UNCHANGED <<execVars, main, result>>

\* verifyRpmdbIdentity compares digests of all rows, which makes the comparison
\* of single rows in verifyInstalledRows succeed as well.
AsRecorded ==
    main # "foreign" /\ rows = Indices(plan.recorded) /\ plan.db = plan.recorded

\* Mutant: the target is not compared with the recording.
Snapshot_Trusting ==
    /\ stage = "snapshot"
    /\ Goto("build")
    /\ result' = [result EXCEPT !.inventory = <<rows>>]
    /\ UNCHANGED <<execVars, lock, main, pin>>

Snapshot ==
    /\ stage = "snapshot"
    /\ \/ Refuse("target_unreadable")
       \/ /\ Readable /\ ~AsRecorded
          /\ Return("validation_failed", "rpmdb_mismatch", "null", <<rows>>)
          /\ UNCHANGED <<outcome, count>>
       \/ /\ Readable /\ AsRecorded
          /\ Goto("build")
          /\ result' = [result EXCEPT !.inventory = <<rows>>]
          /\ UNCHANGED <<execVars, lock, main, pin>>

\* buildFixedOrder and projectedInventoryMatchesPlan; validateSelected has made
\* sure that the selected packages are the projected ones.
Build ==
    /\ stage = "build"
    /\ IF ~ValidateFixedOrder(txn.items, txn.order)
       THEN Refuse("action_shape_mismatch")
       ELSE /\ Goto(IF plan.steps = <<>> THEN "nothing"
                    ELSE IF pin = "absent" THEN "begin" ELSE "execute")
            /\ UNCHANGED <<execVars, lock, main, pin, result>>

\* A plan without steps: the target is looked at once more.
Nothing ==
    /\ stage = "nothing"
    /\ \/ Refuse("rpmdb_mismatch")
       \/ /\ Readable /\ AsRecorded
          /\ SameInventory(plan, ProjectedInventory(plan), rows)
          /\ Return("succeeded", "none", "plan", <<rows>>)
          /\ UNCHANGED <<outcome, count>>

\* TDNFRpmDbPreparedWriteBegin opens what is needed to create the rpmdb.
Begin ==
    /\ stage = "begin"
    /\ \/ Refuse("target_unreadable")
       \/ Goto("revalidate") /\ UNCHANGED <<execVars, lock, main, pin, result>>

\* revalidatePinnedRpmDbAbsence
Revalidate ==
    /\ stage = "revalidate"
    /\ IF main # "absent" THEN Refuse("rpmdb_mismatch")
       ELSE Goto("materialize") /\ UNCHANGED <<execVars, lock, main, pin, result>>

\* Mutant: an existing file is opened.
Materialize_NotExclusive ==
    /\ stage = "materialize"
    /\ main' = IF main = "absent" THEN "empty" ELSE main
    /\ Goto("initialize")
    /\ UNCHANGED <<execVars, lock, pin, result>>

\* TDNFRpmDbPreparedWriteMaterialize creates the file exclusively.
Materialize ==
    /\ stage = "materialize"
    /\ \/ RecordTransactionFailure("execution_failed")
       \/ /\ main = "absent"
          /\ main' = "empty"
          /\ pin' = "present"
          /\ Goto("initialize")
          /\ UNCHANGED <<execVars, lock, result>>

\* TDNFRpmDbPreparedWriteInitialize
Initialize ==
    /\ stage = "initialize"
    /\ \/ RecordTransactionFailure("execution_failed")
       \/ /\ main' = IF main = "empty" THEN "present" ELSE main
          /\ Goto("execute")
          /\ UNCHANGED <<execVars, lock, pin, result>>

\* executeFixedOrderObserved, with progressCompleted as the observer.
Execute ==
    /\ stage = "execute" /\ pc # "end"
    /\ Exec!Run \/ Exec!Fail
    /\ IF completed' = completed THEN UNCHANGED <<outcome, count>>
       ELSE \E s \in completed' \ completed : Progress(s)
    /\ UNCHANGED <<plan, stage, lock, main, pin, result>>

\* Mutant: what the executor refuses is reported as a failed validation.
ExecuteFailed_AsValidation ==
    /\ stage = "execute" /\ pc = "end" /\ rc # "ok"
    /\ Refuse(rc)

ExecuteFailed ==
    /\ stage = "execute" /\ pc = "end" /\ rc # "ok"
    /\ RecordTransactionFailure(rc)

ExecuteDone ==
    /\ stage = "execute" /\ pc = "end" /\ rc = "ok"
    /\ Goto("inventory")
    /\ UNCHANGED <<execVars, lock, main, pin, result>>

\* The final captureSnapshot and its comparison with the projection.
FinalInventory ==
    /\ stage = "inventory"
    /\ \/ /\ MarkIndeterminate
          /\ Return("transaction_failed", "final_inventory_unreadable", "null", <<>>)
       \/ /\ ~SameInventory(plan, ProjectedInventory(plan), rows)
          /\ MarkIndeterminate
          /\ Return("transaction_failed", "expected_inventory_mismatch", "null", <<rows>>)
       \/ /\ SameInventory(plan, ProjectedInventory(plan), rows)
          /\ Return("succeeded", "none", "plan", <<rows>>)
          /\ UNCHANGED <<outcome, count>>

\* The process dies: no result, and the kernel releases the lock.
Crash ==
    /\ stage # "end"
    /\ stage' = "end"
    /\ lock' = IF lock = "replay" THEN "free" ELSE lock
    /\ UNCHANGED <<execVars, plan, main, pin, outcome, count, result>>

-----------------------------------------------------------------------------
(* The others                                                              *)

OtherLocks ==
    /\ lock = "free" /\ lock' = "other"
    /\ UNCHANGED <<execVars, plan, stage, main, pin, outcome, count, result>>

OtherErases ==
    /\ lock = "other" /\ main = "present"
    /\ \E h \in rows : rows' = rows \ {h}
    /\ UNCHANGED <<txn, pc, pos, active, visible, disk, hand, todo, repl, next, victim,
                   completed, rc, plan, stage, lock, main, pin, outcome, count, result>>

OtherUnlocks ==
    /\ lock = "other" /\ lock' = "free"
    /\ UNCHANGED <<execVars, plan, stage, main, pin, outcome, count, result>>

ForeignCreates ==
    /\ stage # "end"
    /\ main = "absent" /\ main' = "foreign"
    /\ UNCHANGED <<execVars, plan, stage, lock, pin, outcome, count, result>>

Run ==
    \/ Preflight \/ Acquire \/ Snapshot \/ Build \/ Nothing
    \/ Begin \/ Revalidate \/ Materialize \/ Initialize
    \/ Execute \/ ExecuteFailed \/ ExecuteDone \/ FinalInventory

Others == OtherLocks \/ OtherErases \/ OtherUnlocks \/ ForeignCreates

Next == Run \/ Crash \/ Others

Spec == Init /\ [][Next]_vars

-----------------------------------------------------------------------------
\* What passes the validation of replay is never refused by the executor, which
\* would be reported as a failed transaction although nothing was done.
ExecutorNeverRefuses == rc \notin {"invalid", "mismatch"}

\* "Replay does not create, remove, or modify a target file" when it answers
\* validation_failed (doc/replay-api.md): every check that can end this way is
\* made before the first change, and the ones the executor makes again never
\* find anything.
RefusalChangesNothing ==
    /\ ExecutorNeverRefuses
    /\ result.status = "validation_failed" =>
          /\ disk = Exec!InitialDisk(txn)
          /\ rows \subseteq Indices(plan.db)
          /\ plan.main = "absent" => main \in {"absent", "foreign"}

\* An action reported as applied is in the rpmdb, whatever failed afterwards:
\* its new package is there, the rows it erases or supersedes are gone, though
\* the erase of a shared row was recorded for another action.
AppliedIsDone ==
    lock = "replay" => \A a \in ActionIds(plan) : outcome[a] = "applied" =>
        LET action == plan.actions[a]
        IN  /\ rows \cap (PriorRows(action) \cup {action.hnum}) = {}
            /\ action.kind # "erase" => NewHnum(txn, PrimaryStep(plan, a)) \in rows

\* Success means that every action was applied in full and that the rpmdb holds
\* what the plan says; nothing else carries the plan's digest as applied.
SuccessIsWhole ==
    /\ result.status = "succeeded" =>
          /\ \A a \in ActionIds(plan) : outcome[a] = "applied"
          /\ result.inventory = <<ProjectedInventory(plan)>>
    /\ result.digest = "plan" <=> result.status = "succeeded"

\* "Actions whose complete recorded low-level work was observed retain applied;
\* every other action becomes indeterminate" (doc/replay-api.md).
FailureIsExact ==
    result.status = "transaction_failed" => \A a \in ActionIds(plan) :
        outcome[a] = IF \A s \in Indices(plan.steps) :
                             a \in Affected(plan, s) => s \in completed
                     THEN "applied" ELSE "indeterminate"

\* The report of a replay is true, action by action, whether it succeeded or
\* failed half-way.
ReportIsExact == AppliedIsDone /\ SuccessIsWhole /\ FailureIsExact

\* A target that is not the one of the recording is left alone.  The fixed order
\* is built from the rows that were found, so that the executor, which compares
\* them again, could not tell.
OtherTargetUntouched ==
    plan.db # plan.recorded =>
        disk = Exec!InitialDisk(txn) /\ rows \subseteq Indices(plan.db)

\* A returned inventory is the rpmdb at the moment of the return: the lock is
\* held from the first snapshot to the last.
InventoryIsCurrent ==
    [][ result'.status # result.status /\ result'.inventory # <<>>
            => result'.inventory = <<rows'>> ]_vars

\* An rpmdb that appears where the target had none is never adopted: replay
\* neither writes to it nor installs files next to it.
ForeignNeverAdopted ==
    [][ plan.main = "absent" /\ main = "foreign" => UNCHANGED <<rows, disk, main>> ]_vars

\* "If another database or sidecar appears first, replay returns rpmdb_mismatch
\* without adopting it" (doc/replay-api.md), of a replay that has pinned the
\* absence of the rpmdb.
ForeignIsMismatch ==
    result.status # "none" /\ pin = "absent" /\ main = "foreign"
        => result.why = "rpmdb_mismatch"
=============================================================================
