----------------------------- MODULE PublicApi -----------------------------
(***************************************************************************)
(* The two audits that build against a --system directory.                 *)
(* public-zig-api-audit.py copies the distributable package to a fresh     *)
(* directory, inspects it, makes it read-only, fills the system directory, *)
(* builds a consumer, exports a program to a path that other runs write as *)
(* well, compares and cleans up.  product-no-libsolv-fetch-audit.py does   *)
(* the middle part in one fixed scratch directory.  A run can be killed    *)
(* anywhere and started again.                                             *)
(***************************************************************************)
EXTENDS DependencyClosure

CONSTANTS
    Worlds,         \* the checkouts and package caches the audits find
    Files, Modules, \* source files and module names
    PublicSources,  \* PUBLIC_SOURCE_FILES
    RequiredFiles,  \* REQUIRED_PUBLIC_FILES
    Generated,      \* GENERATED_SOURCE_FILES
    Forbidden,      \* the files forbidden_packaged_surface names
    Exports,        \* REQUIRED_PUBLIC_EXPORTS
    PathOf          \* the .paths entry a file is under

VARIABLES
    tree,       \* the checkout: .paths, tracked files, imports, registered
                \* modules, the root file of each module, exports and the
                \* extracted packages that have read-only directories
    pc,
    audit,      \* is there an audit tree?
    readonly,   \* its read-only parts
    touched,    \* what builds have changed
    export,     \* the exporting runs: this one and another
    staging,    \* their staging files
    target,     \* the exported program at --replay-export-output
    result,
    budget      \* kills and misbehaving builds left

auditVars == <<tree, pc, audit, readonly, touched, export, staging, target,
               result, budget>>
vars == <<closureVars, auditVars>>

\* The audits find manifests that pin packages of the cache.
ASSUME PublicApiAssumption ==
    /\ PublicSources \subseteq Files
    /\ \A w \in Worlds :
          /\ w.script \in Scripts
          /\ w.pins \in [Packages -> SUBSET Packages]
          /\ w.roots \subseteq Packages /\ w.present \subseteq Packages

Runs == {"this", "other"}

\* What a build may change: a file or directory of the package, the target of
\* a symbolic link in it; an entry of the --system directory, libsolv being
\* one, or something below an entry; a package in its global cache.
Changes == {"file", "link", "entry", "libsolv", "below", "cache"}

Init ==
    /\ \E w \in Worlds :
           /\ script = w.script
           /\ pins = w.pins
           /\ roots = w.roots
           /\ present = w.present
           /\ tree = w.tree
           /\ budget = w.budget
    /\ pending = {} /\ provided = {} /\ system = {} /\ walk = "idle"
    /\ pc = "start"
    /\ audit = FALSE
    /\ readonly = {}
    /\ touched = {}
    /\ export = [r \in Runs |-> "idle"]
    /\ staging = [r \in Runs \cup {"shared"} |-> "none"]
    /\ target = "old"
    /\ result = "none"

\* Everything but the place in the script.
Goto(label) ==
    /\ pc' = label
    /\ UNCHANGED <<tree, export, staging, target, budget>>

\* An exception: the finally clause of main comes next.
Raise ==
    /\ Goto("cleanup")
    /\ result' = "failed"
    /\ UNCHANGED <<closureVars, audit, readonly, touched>>

\* A run with a new tree and an empty --system directory.
Begin(label) ==
    /\ audit' = TRUE
    /\ readonly' = {}
    /\ result' = "none"
    /\ touched' = {}
    /\ system' = {} /\ walk' = "idle" /\ pending' = {} /\ provided' = {}
    /\ Goto(label)
    /\ UNCHANGED world

-----------------------------------------------------------------------------
(* public-zig-api-audit.py up to the builds.                               *)

Mkdtemp ==
    /\ pc = "start" /\ script = "public"
    /\ Begin("package")

\* Every entry of .paths has a tracked file.
tracked_files(t) == \A q \in t.paths : \E f \in t.files : PathOf[f] = q

CopyPackage ==
    /\ pc = "package"
    /\ IF "include" \notin tree.paths /\ tracked_files(tree)
       THEN Goto("inspect") /\ UNCHANGED <<closureVars, audit, readonly, touched,
                                            result>>
       ELSE Raise

forbidden_packaged_surface(t) == t.files \cap Forbidden

check_supported_exports(t) == Exports \subseteq t.exports

check_public_closure_Modules(t) ==
    \A f \in PublicSources : f \in t.files /\ t.imports[f] \cap Modules
                                                  \subseteq t.modules

\* A public file imports registered modules and public files only.
check_public_closure(t) ==
    \A f \in PublicSources :
        /\ f \in t.files
        /\ t.imports[f] \cap Modules \subseteq t.modules
        /\ t.imports[f] \cap Files \subseteq PublicSources

Inspect ==
    /\ pc = "inspect"
    /\ IF /\ forbidden_packaged_surface(tree) = {}
          /\ RequiredFiles \subseteq tree.files
          /\ Generated \cap tree.files = {}
          /\ check_supported_exports(tree)
          /\ check_public_closure(tree)
       THEN Goto("freeze") /\ UNCHANGED <<closureVars, audit, readonly, touched,
                                           result>>
       ELSE Raise

\* make_read_only and the snapshot that is compared at the end.
Freeze ==
    /\ pc = "freeze"
    /\ readonly' = readonly \cup {"package"}
    /\ Goto("walk")
    /\ UNCHANGED <<closureVars, audit, touched, result>>

\* product-no-libsolv-fetch-audit.py: what is in the scratch directory is
\* removed, errors ignored, and mkdir makes the directory anew.  Where the
\* removal could not do its work mkdir raises, and nothing else happens.
StartProduct ==
    /\ pc = "start" /\ script = "product"
    /\ IF audit /\ readonly # {}
       THEN /\ Goto("over")
            /\ result' = "failed"
            /\ UNCHANGED <<closureVars, audit, readonly, touched>>
       ELSE Begin("walk")

\* A copied package keeps the modes of its directories.
Walk ==
    /\ pc = "walk"
    /\ ClosureNext
    /\ readonly' = readonly \cup (IF system' \cap tree.sealed = {}
                                  THEN {} ELSE {"system"})
    /\ UNCHANGED <<tree, pc, audit, touched, export, staging, target, result,
                   budget>>

\* The public audit makes the --system directory read-only as well.
WalkOver ==
    /\ pc = "walk"
    /\ walk \notin {"idle", "running"}
    /\ IF walk = "done"
       THEN /\ Goto("build")
            /\ readonly' = readonly \cup (IF script = "public" THEN {"system"}
                                                             ELSE {})
            /\ UNCHANGED <<closureVars, audit, touched, result>>
       ELSE Raise

-----------------------------------------------------------------------------
(* The builds, the export and the end.                                     *)

\* zig build: it may fail, and may change what it should not.
Build(at, next) ==
    /\ pc = at
    /\ \/ Raise
       \/ /\ Goto(next)
          /\ UNCHANGED <<closureVars, audit, readonly, touched, result>>
       \/ /\ budget > 0
          /\ budget' = budget - 1
          /\ \E what \in Changes : touched' = touched \cup {what}
          /\ pc' = next
          /\ UNCHANGED <<closureVars, tree, audit, readonly, export, staging,
                         target, result>>

BuildConsumer ==
    IF script = "public" THEN Build("build", "compare") \/ Build("build", "export")
                         ELSE Build("build", "compare")

BuildExport ==
    /\ Build("export", "copyout")

stagingName_Fixed(r) == "shared"

\* with_name(f".{destination.name}.{os.getpid()}")
stagingName(r) == r

\* shutil.copy2 in two steps, chmod, replace, unlink.
ExportStep(r) ==
    LET s == stagingName(r)
    IN  \/ /\ export[r] = "copy"
           /\ staging' = [staging EXCEPT ![s] = "partial"]
           /\ export' = [export EXCEPT ![r] = "copying"]
           /\ UNCHANGED target
        \/ /\ export[r] = "copying"
           /\ staging' = [staging EXCEPT ![s] = "plain"]
           /\ export' = [export EXCEPT ![r] = "chmod"]
           /\ UNCHANGED target
        \/ /\ export[r] = "chmod" /\ staging[s] # "none"
           /\ staging' = [staging EXCEPT ![s] =
                             IF @ = "plain" THEN "executable" ELSE @]
           /\ export' = [export EXCEPT ![r] = "replace"]
           /\ UNCHANGED target
        \/ /\ export[r] = "replace" /\ staging[s] # "none"
           /\ target' = staging[s]
           /\ staging' = [staging EXCEPT ![s] = "none"]
           /\ export' = [export EXCEPT ![r] = "done"]

BeginExport ==
    /\ pc = "copyout" /\ export["this"] = "idle"
    /\ export' = [export EXCEPT !["this"] = "copy"]
    /\ UNCHANGED <<closureVars, tree, pc, audit, readonly, touched, staging,
                   target, result, budget>>

ThisExport ==
    /\ pc = "copyout"
    /\ ExportStep("this")
    /\ UNCHANGED <<closureVars, tree, pc, audit, readonly, touched, result, budget>>

\* The inner finally: the staging file is unlinked whether or not the copy
\* was finished.
EndExport ==
    /\ pc = "copyout" /\ export["this"] # "idle"
    /\ staging' = [staging EXCEPT ![stagingName("this")] = "none"]
    /\ export' = [export EXCEPT !["this"] = "idle"]
    /\ IF export["this"] = "done"
       THEN pc' = "compare" /\ UNCHANGED result
       ELSE pc' = "cleanup" /\ result' = "failed"
    /\ UNCHANGED <<closureVars, tree, audit, readonly, touched, target, budget>>

\* Another run of the audit exports to the same path.
OtherExport ==
    /\ budget > 0
    /\ \/ /\ export["other"] = "idle" /\ pc \in {"export", "copyout"}
          /\ export' = [export EXCEPT !["other"] = "copy"]
          /\ UNCHANGED <<staging, target>>
       \/ ExportStep("other")
    /\ UNCHANGED <<closureVars, tree, pc, audit, readonly, touched, result, budget>>

\* What a comparison notices.  The public audit compares the names of the
\* entries of the --system directory, the modes and contents of the files and
\* directories of the package, and what is in the package cache: not what is
\* below an entry of the --system directory, and no symbolic link.  The
\* product's audit looks for an entry that begins with "libsolv-".
Noticed == IF script = "public" THEN {"file", "entry", "libsolv", "cache"}
                                ELSE {"libsolv"}

Compare ==
    /\ pc = "compare"
    /\ IF touched \cap Noticed = {} /\ (script = "product" => system \cap Lazy = {})
       THEN /\ Goto("cleanup")
            /\ result' = "ok"
            /\ UNCHANGED <<closureVars, audit, readonly, touched>>
       ELSE Raise

MakeWritable_Package == readonly \ {"package"}

\* The finally clause of the public audit goes through the whole tree, that
\* of the product's does not.
MakeWritable == IF script = "public" THEN {} ELSE readonly

\* rmtree: what is in a read-only directory stays.  The public audit's raises
\* then, the product's ignores the error.
Cleanup ==
    /\ pc = "cleanup"
    /\ readonly' = MakeWritable
    /\ audit' = (readonly' # {})
    /\ result' = IF script = "public" /\ audit' THEN "failed" ELSE result
    /\ Goto("over")
    /\ UNCHANGED <<closureVars, touched>>

\* No finally clause runs.  The next run of the public audit takes a new
\* directory and, having another pid, another staging file; that of the
\* product's audit takes the same scratch directory.
KillAndRestart ==
    /\ pc \notin {"start", "over"}
    /\ budget > 0
    /\ budget' = budget - 1
    /\ pc' = "start"
    /\ audit' = (script = "product")
    /\ readonly' = IF script = "product" THEN readonly ELSE {}
    /\ export' = [export EXCEPT !["this"] = "idle"]
    /\ staging' = [staging EXCEPT !["this"] = "none"]
    /\ UNCHANGED <<closureVars, tree, touched, target, result>>

\* The audit is run once more, in the same checkout.
RunAgain ==
    /\ pc = "over"
    /\ budget > 0
    /\ budget' = budget - 1
    /\ pc' = "start"
    /\ UNCHANGED <<closureVars, tree, audit, readonly, touched, export, staging,
                   target, result>>

Next ==
    \/ Mkdtemp
    \/ CopyPackage
    \/ Inspect
    \/ Freeze
    \/ StartProduct
    \/ Walk
    \/ WalkOver
    \/ BuildConsumer
    \/ BuildExport
    \/ BeginExport
    \/ ThisExport
    \/ EndExport
    \/ OtherExport
    \/ Compare
    \/ Cleanup
    \/ KillAndRestart
    \/ RunAgain

Spec == Init /\ [][Next]_vars

\* The interpreter goes on with the script; kills and further runs
\* are not owed.
FairSpec ==
    Spec /\ WF_vars(Mkdtemp \/ CopyPackage \/ Inspect \/ Freeze \/ StartProduct
                    \/ Walk \/ WalkOver \/ BuildConsumer \/ BuildExport
                    \/ BeginExport \/ ThisExport \/ EndExport \/ Compare
                    \/ Cleanup)

-----------------------------------------------------------------------------
\* What the public files lead to, by imports of files alone or through the
\* root files of the modules they import as well.
Leads(t, f, follows) ==
    (t.imports[f] \cap Files)
        \cup (IF follows THEN UNION {t.root[m] : m \in t.imports[f] \cap Modules}
                          ELSE {})

Least(t, follows, S) ==
    /\ PublicSources \subseteq S
    /\ \A f \in S : Leads(t, f, follows) \subseteq S
    /\ \A R \in SUBSET Files :
           /\ PublicSources \subseteq R
           /\ \A f \in R : Leads(t, f, follows) \subseteq R
           => S \subseteq R

Reachable(t, follows) == CHOOSE S \in SUBSET Files : Least(t, follows, S)

\* A public audit that passes: what the public files reach by importing files
\* is public and packaged and imports no module but the registered ones; the
\* build had a closed set of packages; and both builds changed at most link
\* targets in the package and what is below an entry of the --system directory.
\* "Every source file a dependency consumer can reach through the public module
\* graph" is in the list only if the roots of the registered modules are: the
\* audit does not look behind a module's name.
PassIsHermetic ==
    script = "public" /\ result = "ok" =>
        /\ Reachable(tree, FALSE) \subseteq PublicSources \cap tree.files
        /\ \A f \in Reachable(tree, FALSE) :
               tree.imports[f] \cap Modules \subseteq tree.modules
        /\ (\A m \in tree.modules : tree.root[m] \subseteq PublicSources) =>
               Reachable(tree, TRUE) \subseteq PublicSources
        /\ touched \subseteq {"link", "below"}
        /\ Required \subseteq system
        /\ Closed(system)

\* Two runs export to one path and either may be killed: the path has the old
\* program or a complete, executable new one at every moment.
ExportIsWhole == target \in {"old", "executable"}

\* Every run comes to an end, since a traversal does (shared and repeated pins
\* do not keep it going); by then its staging file is gone, and its audit tree
\* with everything that was made read-only in it, whether it passed or failed.
\* The product's audit keeps the second part of this only where no package
\* that it copies has read-only directories.
AuditEnds ==
    <>[](/\ pc = "over"
         /\ (script = "product" => system \cap tree.sealed = {}) => ~audit
         /\ staging[stagingName("this")] = "none")
=============================================================================
