# A TLA+ development for rpmz

rpmz is an RPM package manager written mostly in Zig: a client that plans and
runs transactions without librpm's transaction engine, a native reader and
writer of the sqlite rpmdb, a package installer and eraser, repository metadata
and a solver, a downloader, and a *replay* mode that re-executes a recorded
transaction bit by bit on an identical target. This directory models the parts
where a mistake damages a system and no unit test would see it: what happens
when two processes, a crash, a failing scriptlet or a stale recording meet a
transaction that changes files and rows one at a time and never rolls back.
The second half of the repository is Python around the program: the packager,
the workflow that releases it and the audit that guards the workflow, the audits
of the source tree, and the harness of the golden command-line fixtures. They
are programs with files, processes and failures of their own, and are modelled
too.

Contents: [inventory](#inventory), [modules](#modules-and-how-they-correspond-to-the-code),
[runs](#runs), [proofs](#proofs), [findings](#findings),
[what is not modelled](#what-is-not-modelled), [plan](#plan).

Check a run with `tlc -config Lock.cfg MCTransactionLock`, a proof with
`tlapm NativeExecutor_proofs.tla`. `PROJECT.json` maps every definition to the
source lines it stands for.

## Inventory

| Component | Sources | State | Operations | Hard behaviour |
|---|---|---|---|---|
| transaction lock | `client/transaction_lock.zig` | lock directories and lock file on disk, flock, descriptor | resolve directory, create/open file, flock, check the name again, release | other processes between any two system calls, unlinked file, crash between `mkdirat` and `fchown`, waiting |
| native executor | `client/transaction.zig` | `TransactionView` (active, db_visible), position in the plan, rpmdb rows, files | validate fixed order, prevalidate, process an install or erase item, erase priors, report to observer | failure or crash in the middle of an item without rollback, priors shared by items, paths that change hands |
| transaction ordering | `repomd/transaction_native.zig` | per phase: remaining packages, in-degrees, order | find provider, build edges, take a ready package, break a cycle | parallel requirements, cycles, two phases in opposite directions |
| replay | `client/replay.zig` | stage, pinned rpmdb state, per-action progress, result | verify bundle, lock, snapshot, build fixed order, create an absent rpmdb, execute, report | the boundary between "nothing changed" and "something may have", shared erases, a foreign rpmdb |
| file installer and eraser | `rpmzig/install.zig`, `rpmzig/erase.zig` | files, `.rpmsave`, `.rpmnew` | decide, rename aside, unlink, create, write; keep, rename or remove | interruption between system calls, retry, edits by the administrator |
| rpmdb writer | `rpmzig/rpmdb_write.zig`, `rpmzig/rpmdb.zig` | sqlite tables | insert, replace, delete, create | one commit each; external sqlite |
| pinned configuration, confined sqlite | `rpmzig/txn_config.zig`, `common/sqlite_confined.zig` | descriptors of the install root and the rpmdb | pin, revalidate, prepare, materialise | a name that changes its meaning after it was pinned |
| scriptlets and triggers | `rpmzig/scriptlet.zig`, `rpmzig/trigger.zig`, `rpmzig/lua_scriptlet_zig.zig` | deferred postun queue | run, fail | ordering and arguments |
| history | `history/store.zig`, `history/db.zig`, `client/history.zig` | sqlite table of transactions | record, undo, redo, rollback | overlapping transactions |
| download, mirrors | `client/verified_fetch.zig`, `client/download/`, `client/remoterepo.zig` | staged files | fetch, verify, publish | truncation, retry, stale staging |
| bundle export, publication | `client/atomic_publish.zig`, `client/bundle_*.zig` | temporary and published names | write, sync, rename | crash between steps |
| metadata and cache | `repomd/repo_cache.zig`, `repomd/cache.zig`, parsers | cache directory | parse, refresh, expire | replacement while used |
| solver | `repomd/solver_*.zig`, `client/resolver.zig`, `client/goal.zig` | decisions, rules | decide, propagate, backtrack | completeness of the search |
| release packaging | `scripts/release.py` | the output directory: archives, checksums, SBOMs, staging trees | package-binary, package-source, verify, dry-run | killed between two files, files of other versions and earlier runs |
| release workflow, smoke test | `.github/workflows/release.yml`, `scripts/release-smoke.py` | jobs, artifacts, attestations, the release page | build, upload, download, attest, publish, read back | failed steps, re-runs of some jobs or of all, artifacts of two attempts |
| release audit | `scripts/release-audit.py` | none; reads workflows and scripts | parse the workflow, compare it with what is demanded | which workflows it lets pass; the document it believes to have read |
| public API and product audits | `scripts/public-zig-api-audit.py`, `scripts/product-no-libsolv-fetch-audit.py` | copied packages, frozen tree, scratch directory, exported program | walk the manifests, copy, freeze, build, export, compare, clean up | shared pins, missing packages, kills, read-only trees, two exports to one file |
| golden fixtures | `pytests/cli_testlib.py`, `pytests/scripts/refresh_cli_golden.py`, `pytests/tests/test_cli_golden.py` | fixtures, runtime tree | reset, prepare, run, write, compare, remove stale ones | interrupted refresh, another user, state left by a case |
| source audits | `scripts/dead-errdefer-audit.py`, `scripts/replay-confinement-audit.py` | none | lex, find functions or imports, judge | delimiters of one kind of token inside another |
| other audits | remaining `scripts/*.py` | none | look for fixed text | none of interest here |
| signatures, configuration, queries, command line | remaining sources | none that lasts | parse, verify, print | none of interest here |

How they interact: the command line builds a request; the solver turns it into
actions; the planner orders them; the client takes the transaction lock, which
also pins the install root and the rpmdb's presence; the executor walks the plan
and calls scriptlets, installer or eraser and the rpmdb writer for each item;
an observer callback hears of every completed item, and replay turns these calls
into per-action outcomes. All processes share the install root: its files, its
rpmdb and the lock.

Beside the program, CI runs the audits on every change, so that the release
workflow that a tag starts is one the release audit accepts; that workflow calls
the packager in its jobs and the smoke test on what it published. The public API
audit exports the replay program that other tests use.

Correctness, per component:

* lock: one holder per install root, as long as all end up in one lock directory; a
  holder's file is the one the name denotes;
  an acquire comes to an end;
* executor: a refusal comes before the first change; wherever it stops each row
  has its files, but for the one path being replaced; success is the whole plan and leaves nothing over; readers of
  the rpmdb see steps towards the goal only; a package kept in some version is
  never missing; each row that goes is the one the plan recorded;
* ordering: a permutation, additions first; a requirement is ignored only when
  every remaining package waits for another;
* replay: `validation_failed` changed nothing; what is reported as applied is
  applied, and what is not is reported so; inventories are current; another
  target, or an rpmdb that somebody else made, is left alone;
* configuration files: an edit is at its path or in `.rpmsave`, unless the code lets
  it go in one of the ways listed under "What is not modelled"; success puts the
  release's file in place, unless the transaction found a half-written one;
* packaging: what a verification accepts is of one packaging; a dry run does not
  depend on what the directory held;
* release workflow, for every workflow the audit accepts: a green run left the
  whole release on the page; what is on the page is of the tag and attested, at
  every moment; an incomplete release is not published; a re-run repairs;
* API and product audits: exactly the closure of the manifests is provided to the
  build; a pass means what the comparisons cover, and no more; the exported program
  is whole; the audit ends, and the public one leaves nothing behind;
* golden fixtures: a capture does not depend on the captures before; a refresh
  leaves exactly the fixtures of the build; a test passes exactly when the fixtures
  are right and nobody else's tree is in the way;
* readers of text: what they make of it is what it means, outside the cases listed.

`PROJECT.json` lists the hazards behind these properties, each with its line.

## Modules and how they correspond to the code

```
TransactionPlan      plans as data; what the validators accept
  NativeExecutor     runTransactionNativeImpl         --refines-->  InstalledSet
    Replay           runValidated, INSTANCE NativeExecutor
TransactionOrder     buildNativeOrder, topoOrderPhase
TransactionLock      acquire / Guard.deinit
ConfigFile           one %config path through install.zig and erase.zig
ReleaseAssets        asset names, archives, checksums, SBOMs; what verify accepts
  Packager           release.py over an output directory
  ReleaseAudit       which workflows and scripts release-audit.py accepts
    ReleasePipeline  a run of an accepted workflow
  Release            Packager and ReleasePipeline together
DependencyClosure    the walks of the manifests
  PublicApi          the two audits around them
CliGolden            the harness, its refreshes and test runs
DeadErrdefer, ConfinementAudit, WorkflowYaml     readers of text (MCScanners)
MC*                  instances for TLC

NativeExecutor_proofs --INSTANCE--> Replay_proofs
TransactionOrder_proofs, TransactionLock_proofs, ConfigFile_proofs,
PublicApi_proofs, Release_proofs, CliGolden_proofs              theorems
```

**TransactionLock.** One target root, any number of processes. `pc[p]` is the
place of process `p` in `openDefaultTargetDirectory` and `openProtectedLockAt`;
each action is one system call another process can observe. Directories are
`absent`, `raw` (made, not yet given the owner and mode everybody insists on) or
`ready`; lock files are inodes, `name` says which inode a directory entry
denotes, `owned` which have their final owner. A host record says which
processes are privileged, which wait, who owns the target and what is found on
disk. `ResolutionFails` is a call on the way to the directory that fails for one
process and not for the next (an open, `getpwuid_r`, `mkdirat`, `fchown`): from the
home a privileged process goes on to the global directory, from the parent to the
home, and otherwise the acquire fails. `MaxDiversions` bounds such failures,
`diversions` counts them. `Crash` may happen anywhere; `UnlinkLock` is a cleaner that removes a lock
file nobody holds. Descriptors of the pinned install root are left out: `Pin` is
a step that may fail and then gives the lock back.

**TransactionPlan.** Items, priors, order and flags, with the validators of a
recorded order (`validateFixedOrderInput`), the choice of the primary prior
(`fixedReplacementPrimaryIndex`), and what `parseTransaction` and
`buildNativeOrder` guarantee of a native plan. A package is name, arch, a number
for its EVR and its set of paths.

**NativeExecutor.** Actions follow the phases of the code: `Validate`,
`Prevalidate`, `RunPretrans`; for an added package `BeginInstall`, `RunPre`,
`InstallFile`, `WriteFile`, `WriteDb`, `RunPost`, then the loop over priors (`PassPrior`,
`BeginErasePrior`, `PriorsDone`); for a removed one, prior or item, `RunPreun`,
`EraseFile`, `FilesErased`, `RunPostun`, `EraseRow`; at last `RunPosttrans`.
`Fail` ends the executor at any call that can fail, `Crash` anywhere.
The order in which the payload's files are handled is left open, so the checks
hold for every order. `rows` are the rpmdb's rows by hnum, `disk` says which
row's package wrote a path. `writeRegularFile` unlinks a path and then creates and
writes it: `InstallFile` is the unlink, `WriteFile` the rest, and `hand` is the path
in between, of which a crash or a full disk leaves nothing or a part. That a recorded
row is still the package of the plan is decided by name, EVR and arch alone
(`RowMatches`, as in `identityMatchesHeader`); the databases of the run have rows of
equal NEVRA with other files.

**InstalledSet.** What a reader of the rpmdb may count on while a transaction
runs: single commits, each towards the goal, none undone.
`NativeExecutor!CommitsTowardsGoal` is its specification under the mapping
`installed <- rows`, `goal <- GoalRows(txn)`.

**TransactionOrder.** `Provider` is `findMatchingTransactionProvider` (by name,
else file, else provide, the first in input order), `Precedes` the merged edges,
`IncomingPre`/`OutgoingCount` the keys of the two comparisons. `Place` removes a
package and decrements its successors; `PickReady` and `BreakCycle` choose it.
EVR ranges and capability matching are abstracted to sets of matching packages.

**Replay.** `stage` walks through `runValidated`; `Execute` is a step of the
executor (the same module, by INSTANCE) with `progressCompleted` attached.
`main` is the rpmdb file, `pin` what was found when the lock was taken. Reading
and verifying the bundle is one step that passes or fails. Two other actors
share the target: `OtherLocks/OtherErases/OtherUnlocks`, a process that respects
the lock, and `ForeignCreates`, one that does not and makes an rpmdb.

**ConfigFile.** One path, its `.rpmsave` and `.rpmnew`, one system call per step,
`Interrupt` before any of them. `edit` and `start` are history variables. Two
things the code does are written into the model rather than hidden: `GivenUp`
names when the code lets an edit go (below), and a transaction that starts from
a half-written file is exempt from `SuccessInstalls`.

**ReleaseAssets, Packager.** An archive is its content (the tree that was
installed: an identity, an architecture, its executables, directories and what
the two `--version` calls print) and the name it unpacks to; a checksum file
holds the sum of a content and a name; an SBOM lists the files of a tree.
`verify_assets` compares them as the code does. In `Packager` the commands of
`release.py` write one file at a time into `output`: a write is `Partial` first,
may fail there, and a command may be killed at any step, which leaves its staging
directory. `last` remembers how the last command ended.

**ReleaseAudit, ReleasePipeline, Release.** A candidate is a record with a field
for each thing the audit compares. `Candidates` are the repository's files and
those that differ from them in one field, over alternatives that somebody might
write: a finite list of edits, not all programs. The audit looks at the shape of the
two scripts, the calls, their arguments and the names of their keywords, and neither at
conditions around most calls nor at what is done with a result: `LenientSmokes` are
smoke scripts that check less and that it accepts, and `Counts` says which checks of a
script can end it. Changed bodies of helper functions, and `check=False` in the
packager, it accepts too; they are not among the candidates. `audit` is the conjunction of the audit's functions, each under its own
name. The pipeline starts from a candidate that passes, so that its properties
are about the audit as much as about the workflow: were a demand dropped, a
workflow that misses the property would pass. Steps are those of `release.yml`
in order; `Upload` fails when the name is taken in this attempt; a re-run keeps
artifacts, attestations and the page. The release page is written a pattern at a
time, and a failing step may have removed the files it was about to replace.
In `Release` a behaviour is either of a developer's directory or of a pushed tag.

**DependencyClosure, PublicApi.** `pending`, `provided` and `system` are the list,
the set and the directory of `provide_system_packages` and
`extract_dependency_closure`; `Again`, `Copy`, `Stop` and the like are what a
popped hash may meet. The list may hold a hash twice, and the second one is
skipped; the public walk's is a set here, so that its repeated pops are no steps of the
model, while the product's (`Again`) are. `PublicApi` has the rest of the two scripts in the order
of their `main`: the copied package, its inspection and its freezing, the walk,
the builds (external: they may fail, or change what is around them), the
export by a staging file, the comparisons, the `finally`. `Changes` are the kinds of
change a build can make, `Noticed` those that the comparisons see: the contents of
regular files in the package and the names directly in the system directory, not the
targets of symbolic links, nor what is below an entry. `readonly` says which parts of the
scratch tree cannot be removed as they are (the frozen package; copied packages
whose directories are read-only, `sealed`). The public script makes all of it
writable first; the product's removes with `ignore_errors=True`, may leave it, and then
the next run fails at `mkdir`. `KillAndRestart` ends a run
anywhere, `RunAgain` starts another one in what is left; `OtherExport` is a second run
that exports to the same path.

**CliGolden.** Refreshes and test runs one after another, over shared fixtures
and two runtime trees, `cli-golden-runtime` and `cli-golden-test-runtime`, each owned by
the user who made it: `removable` is what `rmtree` needs, and without it a capture
raises (`ResetRaises`). What rpmz does with a command line is `classify`, from the
dispatcher; what it then prints (external) depends on the command, the user, the tree
it runs in and, in the builds of `Mentioning`, on the path of the configuration file,
which the harness passes with `-c` and which differs between the two trees. A run
changes the tree, so that a missing reset is seen. Who owns the fixture files is left
out: a refused write is one of the ways in which a refresh raises.

**DeadErrdefer, ConfinementAudit, WorkflowYaml.** Each has the reader as an
operator and, as its state, an input with its meaning: a Zig source that grows
by declarations and statements in the layout of `zig fmt`; a text of segments
each with its code and its value; a document printed as YAML to which comments,
blank lines and doubled keys are added. Characters are kept only where the
reader tells them apart. Left out because the readers, by design, do not handle
them: container return types whose members contain `!` or end in `;`
(`dead-errdefer-audit.py` refuses or misjudges them), tabs, a comment behind a
key that has a nested block, commas in quoted items of a flow list, list items with a
colon inside quotes (read as a mapping), lists at the indentation of their own key
(refused), and more than one blank line behind a block scalar (which the reader keeps
and YAML drops). Two things are in the inputs although the readers get them wrong, and the
properties name them: tests behind a one-line function or in a container of a
function without errors (`Shadowed`), and a slash followed by a star
(`SlashStars`); see the findings.

## Runs

| Run | Question | Bounds and why they are enough |
|---|---|---|
| `Lock` | `OneHolder`, `SameDirectoryExclusion`: when can two processes hold the lock, at all or through one directory? | three processes, so that one can open a file another is about to leave while a third replaces it; `MaxUnlinks` = 1, an unlink before any look at the name; `MaxDiversions` = 1, one failing call; four hosts: everything in place, one root process that makes the directories for the owner's two, no usable home, a root-owned target; crashes everywhere |
| `LockLive` | `AcquireEnds`: does every acquire end? | two processes that wait, one unlink, nothing in place |
| `LockFirstUse` | `MutualExclusion` for two root processes and an owner who has never locked: **violated**, see findings | two processes, no unlink, no failing call |
| `Exec` | `RefusedBeforeChange`, `RowsHaveFiles`, `SuccessIsExact` (the rows of the plan, no file over), `CompletedStayApplied`, `RemovedAsRecorded`, `LastOfName`, `NameNeverMissing`, `CommitsTowardsGoal`, `Terminates` | *recorded* transactions: two installed packages that share a path; all pairs of items of all six types with up to two priors, valid or not, in both orders; triples of two upgrades and an obsolete with all claims on the two rows in all orders, the smallest in which one item's prior is another one's primary and a third item's prior too; recordings against another database. *Planned* ones: all pairs of requests the native planner accepts over two databases, one with two packages of one name (the case in which the count passed to `%preun` matters), with each flag. Failure and crash at each step. `NameNeverMissing` is of planned transactions: a recorded order may remove before it adds |
| `Order` | `CountersExact`, `OrderComplete`, `OnlyCyclesBreakOrder`, `BreaksOnlyDeadlocks` | three packages with ambiguous, unordered, reflexive and repeated requirements in one phase or in both; all graphs of four packages with up to two requirements each, enough for a cycle with a tail and for two separate cycles |
| `Replays` | `RefusalChangesNothing`, `ReportIsExact` (what is called applied, whole or failed is), `OtherTargetUntouched`, `InventoryIsCurrent`, `ForeignNeverAdopted` | all lists of up to two actions of all kinds with their steps (`MaxSteps` = 4) in every order, with a shared erase recorded for either action or for both; a recording of another target; an absent rpmdb |
| `ReplayForeign` | `ForeignIsMismatch`: **violated**, see findings | plans for a target without an rpmdb |
| `Config` | `EditSurvives`, `SuccessInstalls` | three releases with different content, one of them `noreplace`, one that no longer ships the path, two edits so that an edit can follow a saved one; any number of transactions |
| `Release` | `VerdictIsExact` (accepted is of one packaging, a dry run accepts itself); `GreenIsWhole`, `PublishedIsOfTheTag`, `PublishedIsAttested`, `PublishesComplete`, `UndisturbedIsGreen` | `MaxCommands` = 3 and `MaxFaults` = 1: a packaging, a broken one over it, a verification; five builds, two of them alike but for their content; two versions of which one's name begins with the other's. Two platforms; every candidate that differs in one field; `MaxAttempts` = 2 and `MaxFailures` = 2, a failure in each attempt; a tag that does not parse; a page with a file of another hand |
| `PublicApi` | `WalkIsExact` (the closure is provided, or a needed package is missing), `PassIsHermetic`, `ExportIsWhole`, `AuditEnds` (with nothing left behind that the script could remove) | all acyclic pinnings of four packages with every set of extracted ones (a pin is a hash of what it pins, so none is cyclic); checkouts with one flaw each, also with a module whose root is no public file and with packages that are read-only when extracted; a budget of disturbances (a kill, a step of the other export, a build that changes something) |
| `Golden` | `CaptureIsIsolated`, `RefreshIsExact`, `TestsAreExact`, `CasesReachTheirCommand` (no fixture is of a third command) | five cases, one of every kind the code treats in its own way, one stale fixture; two builds, one of which mentions its configuration file; `MaxRuns` = 3: a refresh, another user's killed run, a test; `MaxFaults` = 2 |
| `Scanners` | `ScanIsExact`, `AuditIsExact` (each with the lexer under it), `ReadIsExact` | `MaxItems` = 4, enough for a function in a container in a function with an errdefer; `MaxSegments` = 4, an import with something between its literal and its parenthesis; `MaxNoise` = 2 lines added to documents three levels deep with scripts, lists of maps, and plain, single- and double-quoted scalars |

`Terminates`, `AcquireEnds` and `AuditEnds` are the liveness properties. The type
invariants of the lock, the executor, the order and configuration files are
proved rather than run.

*Fairness.* `NativeExecutor!FairSpec` has weak fairness on `Run`: the executor
is a sequential loop without waiting, so as long as the process lives it takes
its next step. `Fail` and `Crash` are not fair, nothing makes them happen.
`TransactionLock!FairSpec` has weak fairness on the steps of each process, which
makes holders release (`Release` is part of `Step`: a transaction ends, by
`Terminates`), and strong fairness on `FlockTake`, the kernel's promise to a
blocked `flock`: a waiter is served if the lock becomes free again and again.
Starting a new acquire, crashing and unlinking are not fair. `FlockWouldBlock` is
a step of a process that does not wait. `PublicApi!FairSpec` has weak fairness on
the script's own steps: it is sequential, and the builds it waits for are assumed
to return. The other run of the audit, kills and writes by builds are not fair.

*Deadlock* is checked in the runs of the program. The runs `Release`, `PublicApi`,
`Golden` and `Scanners` switch it off: a script ends, and so do its bounds. `Done` in `NativeExecutor` and
`TransactionOrder` is the caller that has its answer; in the other modules
somebody (a process, another user of the target, the administrator) can always
go on.

*Mutants.* Beside the definitions stand `X_...` variants, a plausible mistake
each: a dropped re-check of the name, an erase that ignores rows still waiting
for their turn, a skipped prior looked at for ever, an in-degree counted per
requirement, an outcome counted for its own action only. `PROJECT.json` pairs
each property with one that breaks it.

## Proofs

All theorems hold for every value of the constants that the named assumptions
admit: any number of processes, packages, platforms, items, paths, failures and
re-runs. The assumptions give constants their types and say little more:
`ConfigAssumption`, that edits differ from what releases ship and that the
markers for "no file", "half-written" and "not installed" are no contents;
`ReleaseAssumption` and `PipelineAssumption`, that there is a platform, that none
is called `source`, and that a string begins with itself (`StartsWith` is a
constant); `PublicApiAssumption`, that the public sources are among the files of
the checkout. None of them excludes an invalid plan, a stale recording or a
broken build.

* **TransactionLock_proofs** (`ConstantsAssumption`): `TypeCorrect`;
  `ExclusionWithinDirectory`, `Spec => []SameDirectoryExclusion`. The property is
  not inductive: that a newcomer cannot pass `recheck` needs to know that a
  holder's inode is still the one the name denotes and is locked. `LockInv` adds
  `FlockDiscipline` (a process has the flock exactly when it is past the call, and
  no two have it on one inode) and `HolderIsNamed`.

  Exclusion over all directories is false: the findings below show two ways to two
  holders. `AtMostOneHolder`, `Spec => []OneHolder`, says what is left. Both ways need a
  host with `TwoPlaces`: a target of another user, whose home can be used. There it takes
  a failing call, or a host of `FirstUse`: two privileged processes, neither the
  owner's directories nor the fallback made yet. On every other host one process at
  most holds the lock, whatever fails.
  The proof has two parts beyond `LockInv`. With one place, `PlaceInv` says of every
  process that wherever a failing call sends it, the directory it can end in is the
  same (`OnePlace`). With two places and no failed call, all who
  resolve a lock directory resolve the same one (`OneDirectory`), from `RouteInv`:
  what a process has seen at each point of its way (`Route`, `Creating`,
  `ParentUseless`), a fallback found ready is taken by everybody (`GlobalGiven`),
  directories that were found stay as they were (`HostDirsKept`), and the
  fallback is made only once the home can no longer become a lock directory, for
  instance because a crash left a child of it without its owner
  (`FallbackIsLast`, `HomeStuck`). The one thing assumed of a
  host beside types is `Nested`: a directory is not there without its parent.

* **NativeExecutor_proofs** (`TxnsAssumption`): `TypeCorrect`, with `PlanSettled`
  (past prevalidation the order is a permutation, within an item the iterator
  stands on it, within an erase the victim is a row); `FilesOfRows`,
  `Spec => []RowsHaveFiles`, for every transaction, recorded or planned.
  `ViewInv` — each row other than one being erased is active in the view, nothing
  is a victim or replaced outside an item's work, a replaced row left with the
  commit of the new one — is what makes the eraser's question "does another
  active package own this path?" the right one; `FileInv` adds that the package
  being installed has on disk all but its `todo` and the path in `hand`, so that the
  row arrives after the files. The path in `hand` is exempt from the property: the code
  unlinks it before it writes it, and an old or a sharing package's row names it
  meanwhile.

  The second half of the module is about whole plans. The two ways to a plan, the validators of a recorded order followed by
  `Prevalidate` and what the planner guarantees, both give `PlanSound`: the rows
  named are there with the packages recorded, none is erased twice or replaced
  twice, and whoever replaces a row comes before the others that supersede it.
  From there
  * `RefusalsChangeNothing`: the rows of the items to come are still in the view
    (`Waiting`, `Visibility`), so no check on the way ever refuses. This is the
    comment on `validateFixedOrder`, "unsupported graphs never become
    transaction-time failures", for every graph;
  * `RemovesAsRecorded` and `RefinesInstalledSet` (the refinement
    `CommitsTowardsGoal`): what goes is what the plan names (`Roles`), up to the
    files of a package of the same name, EVR and arch, which the code does not
    compare; what comes is new, and neither is ever undone;
  * `ReportsStayTrue`: `PriorsBehind`, the loop over priors leaves none behind,
    not even those it skips because another item replaces them: by
    `ReplacersFirst` that item has had its turn;
  * `LastOfNameIsLast` and `NamesNeverMissing`: of planned transactions,
    additions come first; `Superseded` says of every row that is gone which new
    row took its place, or that all new rows are there;
  * `SuccessMeansDone`: `ActiveAreRows`, `FilesAreOwned` and `NewFilesStay`
    account for every path on the disk at every moment, so that the end has no
    file without a row and no new file overwritten.

* **TransactionOrder_proofs** (`PlansAssumption`): `CountersAreExact`,
  `TypeCorrect`, `OrderIsComplete`, and the action property
  `OrderBreaksOnlyDeadlocks`, from `OrderInv` = types, `remaining` within the
  phase, exact counters. The counters need a lemma on the cardinality of a set
  that loses one element. `OnlyCyclesBreak`, `Spec => []OnlyCyclesBreakOrder`: a
  package stands before one it has to follow only if it is downstream of a cycle.
  `DownstreamOfCycle(ph, i)` says it without paths: `i` is in a set of packages
  each of which has a predecessor in the set. When a cycle is broken, the remaining
  packages are such a set, because every counter is above zero and counts
  unplaced predecessors; `FollowsAll` carries this for the packages placed before.

* **Replay_proofs** (`PlansAssumption` of `Replay`: the fields of a plan have
  their types, nothing is assumed valid). The executor's theorems are about
  steps of `NativeExecutor`, and replay takes those steps through the same
  module, so `Native == INSTANCE NativeExecutor_proofs` gives them here, once it is
  shown that every plan replay lets pass (`Usable`) is a transaction of the type
  they assume, and that `validateExecution` makes its fixed order one the
  executor's checks accept. `ReplayInv`: what each stage may rely on (`StageInv`),
  the executor's own invariant while it runs and no refusal by it (`ExecutorInv`),
  the counters of `Progress` as cardinalities of sets of observed steps
  (`ProgressInv`), whose rpmdb it is (`MainInv`), what the result holds so far
  (`ResultInv`). Theorems: `LeavesOtherTargets`, `RefusesUnchanged`,
  `ReportsExactly`, `ReturnsCurrent`, `AdoptsNothing` — all of the run `Replays`.

* **ConfigFile_proofs** (`ConfigAssumption`): `TypeCorrect`; `LastEditSurvives`,
  `Spec => []EditSurvives`: the invariant says where an edit can be at each step
  (`EditPlaces`: before the unlink of `.rpmsave` it is at the path, after the
  rename in `.rpmsave`) and which releases each step deals with (`StepReleases`);
  `SuccessPutsInPlace`, the action property `SuccessInstalls`, with `Settling`:
  what each step can rely on in a transaction that writes configuration files
  and did not start from a half-written one.

* **PublicApi_proofs** (`ClosureAssumption`, `PublicApiAssumption`): first the walk
  by itself, `WalkExact` and `NoLazyInProduct`, for any packages and manifests
  (also cyclic ones) and any order in which hashes are popped. `ClosureInv` says
  that every pin of the root and of a provided package is provided, pending or
  skipped (`Accounted`), that all of these are in every closed set (`Needed`), and
  that the directory holds what was provided (`Mirrors`); with nothing pending the
  first two are the two halves of "least closed set". Then the two audits:
  `AuditsWalkExactly` (a kill and a restart begin the walk anew),
  `PassesHermetic` (`Checked`: what has been looked at when the script has come so
  far; the property speaks of imports of files, of registered module names and of the
  changes the comparisons notice, and of nothing beyond them) and `ExportsWhole` (`StagingInv`: a staging file is what its own run made
  of it).

* **Release_proofs** (`ReleaseAssumption`, `PipelineAssumption`). For the workflow,
  all five properties of the run: `PublishesOnlyComplete`, `PublishesTheTag`,
  `PublishesAttested`, `GreenReleases`, `RerunsRepair`. They begin with
  what `audit` makes sure of: the value of each field of a candidate that the run
  depends on follows from a demand of the audit, so the theorems say that the
  audit is strict enough for them among the candidates. It is not for everything: the
  last part of `GreenIsWhole`, that nothing else is on the page, is conditional on a smoke
  script that acts on its list of assets, because the audit accepts scripts that do not. The steps of the workflow are then sorted
  by effect (`Starting`, `Skipping`, `Going`, `Opening`, `Uploading`, `Failing`,
  `Rerunning`), once, and each part of `PipelineInv` is preserved by each effect:
  where jobs are and what they waited for (`JobsInv`, `NeedsInv`), the version
  they computed, the files they hold as functions of tag, platform and attempt
  (`FilesInv`, `ArtifactsInv`), what is on the page and attested (`PageInv`,
  `AttestedInv`), that the kinds already uploaded are on the page as downloaded
  (`UploadedInv`), what the smoke test saw (`SmokedInv`), and, for
  `RerunsRepair`, that an artifact name is free for the job that is to upload it
  (`FreeNames`), so that only an accident fails a step (`CleanInv`).
  For the packager, `VerdictsAreExact`: `OutputInv` (a readable archive is of a
  build that reports the version of its name, a readable SBOM lists one tree) and
  `CommandInv` give what acceptance means; `DryRunInv` (a dry run's directory
  holds exactly what it has written) gives that a complete build is accepted.

* **CliGolden_proofs** (`CasesAssumption`: a case has a command line, and no two
  have one name): `CapturesAreIsolated`, `RefreshesAreExact`, `TestRunsAreExact`,
  `CommandsAreReached`, all four properties of the run `Golden`, for any cases,
  any number of refreshes, test runs, new builds and interruptions. `GoldenInv`
  says that the tree a command runs in is what `reset` and `prepare_case` make for
  its case and user (`TreeIsFresh`), so that a capture is what the case gives alone;
  that a refresh has written the fixtures of the cases it has done, over whatever was
  there (`Refreshing`); that a test run has found the fixtures it has looked at
  good, or a bad one, or a tree it could not remove (`Testing`); and that a verdict
  stays true until the next run or build (`Settled`, `StillCurrent`). `SameAnywhere`
  is the reason why fixtures of the refresh's tree hold in the tests' tree: without a
  build that mentions it, the path of the configuration file does not show. `ActionKept`
  compares the command of a case with that of its decorated command line.

The proofs changed the model in one place. The case of `VerdictsAreExact` in which
a dry run has to accept its own packaging could not be proved, because
`verify_archive` demanded that an archive have the required directories and no
others; `release.py` demands only that each required directory have a file below
it. The model now says so, and one of the builds of the run `Release` has a
further directory. The other edits for the provers' sake keep the meaning:
records are built by constructors (`fresh`, `command`), and `ValidExecution`
quantifies over steps instead of filtering sequences. `OnlyCyclesBreakOrder` was
about paths in the graph at the end of a phase; with `DownstreamOfCycle` it is
about sets and holds in every state.

Only model-checked:

* liveness (`Terminates`, `AcquireEnds`, `AuditEnds`), which the prover does not
  handle;
* that `FirstUse` is no larger than it has to be: TLC finds `MutualExclusion`
  violated on a host of each of its four layouts of directories, and that a
  behaviour exists is nothing a theorem about all of them can say;
* the readers of text (`ScanIsExact`, `AuditIsExact`, `ReadIsExact`): what a
  recursive function computes for every text is an induction over data.

## Findings

Two runs state what the documentation says and find a behaviour of the code that
differs.

* `LockFirstUse`. `doc/replay-api.md` says of the lock "Replay and ordinary rpmz
  transactions use the same install-root-wide lock". For a target that is not
  root's, a privileged process creates `~/.tdnf` and hands it to the owner with a
  separate `fchown`; a second privileged process that looks in between rejects
  the directory, falls back to the global per-owner directory and locks a file
  there. Both hold the lock. It takes two first uses at the same time, on a host
  described by `FirstUse`.
* `ReplayForeign`. `doc/replay-api.md` says "If another database or sidecar
  appears first, replay returns `rpmdb_mismatch` without adopting it". Between
  the pin of the absence and the first snapshot the answer is
  `target_unreadable`. Nothing is adopted: `ForeignNeverAdopted` holds.

Other differences between a text of the repository and its code, which the
properties state as they are:

* A second way to two holders (`OneHolder`). A privileged process for which a call on
  the way into the home fails (any error counts, `transaction_lock.zig` 627-631) locks
  in the global directory, while another process locks in the home. `AtMostOneHolder`
  proves that there is no third way.
* What the public audit follows (`PassIsHermetic`). `public-zig-api-audit.py` says of its
  list that it is "Every source file a dependency consumer can reach through the public
  module graph". Its check follows imports of files and takes the name of a registered
  module as it is; `rpmz.zig` imports `client_root`, whose root `client/root.zig` is not
  in the list. Only where the roots of the modules are public does a pass say that
  all that is reached is.
* Commands that are not reached (`CasesReachTheirCommand`). `refresh_cli_golden.py` has
  the case `rpmz-version` with the command line `rpmz --version`. The harness puts
  `-c <conf>` behind `rpmz`, the dispatcher takes `-c` for the command, and the fixture,
  like those of `rpmz-no-args` and `rpmz-bad-command`, says "Unknown rpmz command: -c".
* False reports (`ScanIsExact`). `dead-errdefer-audit.py` is to "Fail when a Zig
  `errdefer` sits in a function that cannot return an error". Behind a one-line
  function, `fn f() void {}`, the brace of a following `test` is taken for the function's
  body, and a live errdefer of the test is reported. A test in a container of a function
  without errors is judged by that function. Among the sources of the run these are the
  only false reports, and no dead errdefer is missed.
* Text that is not looked at (`AuditIsExact`). `replay-confinement-audit.py` demands that
  "every replay @import must contain exactly one literal string", but blanks what stands
  behind `/*` as a comment. Zig has none of that form; what is blanked is code, and the
  property is about texts without it or up to it. `client/replay.zig` has no such text
  today, and `zig fmt` separates the two operators.

## What is not modelled

* An administrator's edit *during* a transaction, between the digest and the
  unlink: the code has no protection and the model has no such step.
* Two ways in which the code lets an edit go are part of `ConfigFile` as
  `GivenUp`: a half-written or stray file left by an interrupted transaction is
  taken for an edit by the next one and replaces `.rpmsave`; and an obsoleting
  package counts as an installation, so a modified file it takes over is
  overwritten. Nothing in the repository promises otherwise; the properties say
  what holds outside these cases.
* Rollback: there is none in the code, so a failed transaction leaves what it did.
* Scriptlets' and triggers' selection and contents; hard links, directories,
  ghosts, device nodes, metadata of files; headers and secondary tables of the
  rpmdb; EVR comparison (a number here) and capability matching.
* Dependency, conflict and file-conflict problems found before the order is built.
* In the release workflow: a tag that is moved, or two runs at once; the workflow
  has no concurrency group, and what GitHub does then is not in the repository.
* Two product audits, or two refreshes with one runtime root, at the same time:
  they share fixed directories by design.
* The remaining audits (`docs-audit.py`, `replay-docs-audit.py`,
  `rebrand-audit.py`, `librpm-audit.py`, `libsolv-*-audit.py`,
  `sqlite-confined-singleton-audit.py`, `c-to-zig-audit.py`) and
  `fix-copyright.py` make one pass over files in search of fixed text; a model
  would repeat the text.
* Components listed as `not_modelled` in `PROJECT.json`, with the reason: data
  conversions (metadata, signatures, output), and those the plan below still has.

## Plan

Done: lock, executor with plans, order, replay, configuration files; the release
tooling, the API and product audits, the golden fixtures and the readers of
text; theorems of the lock, the executor, the order, replay, configuration files,
the API and product audits, the packager, the release workflow and the golden
fixtures. Every invariant and action property of the runs is a theorem but those
of the readers of text.

Next, in this order:

1. *Publication*: `atomic_publish.zig` and the staging of `verified_fetch.zig`,
   crashes between write, sync and rename, refused or repeated fetches; abstract
   specification: a name denotes a complete verified file or nothing.
2. *History*: recording, undo, redo and rollback over overlapping transactions;
   reference definition: replaying the prefix.
3. *Metadata cache*: replacement of a repository's cache while it is in use.
4. *Confined sqlite and pinned configuration*: prepare, revalidate, materialise;
   composed with `Replay` in place of `main` and `pin`.
5. *Trigger queue*: the deferred `%transfiletriggerpostun` entries of the executor.
6. *Solver search*: decide, propagate, backtrack over small rule sets, against a
   reference definition of satisfiability.

Theorems worth proving next: the abstract specification of publication (item 1) and
its refinement, and `Undo` after `Record` as the identity on rows (item 2).
