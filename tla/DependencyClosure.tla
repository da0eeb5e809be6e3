------------------------- MODULE DependencyClosure -------------------------
(***************************************************************************)
(* The two traversals of pinned packages that fill the directory given to  *)
(* "zig build --system": provide_system_packages of                        *)
(* scripts/public-zig-api-audit.py ("public") and                          *)
(* extract_dependency_closure of scripts/product-no-libsolv-fetch-audit.py *)
(* ("product").  Both pop a hash from a list of pending ones, copy its     *)
(* package and append what the copied manifest pins.  The lists start from *)
(* sets and may hold a hash twice; the second pop does nothing, so pending *)
(* is a set here and the next hash is any of it.                           *)
(***************************************************************************)
EXTENDS Naturals, FiniteSets

CONSTANTS
    Packages,       \* package hashes
    Lazy,           \* the hashes that begin with "libsolv-"
    Required,       \* the packages of REQUIRED_DEPENDENCY_NAMES
    Scripts         \* the scripts that run: "public", "product"

ASSUME ClosureAssumption ==
    /\ Lazy \subseteq Packages
    /\ Required \subseteq Packages
    /\ Scripts \subseteq {"public", "product"}

VARIABLES
    script,
    pins,       \* what the manifest of each package pins
    roots,      \* what the manifest of the checkout pins
    present,    \* the packages that were extracted by an earlier build
    pending, provided,
    system,     \* the packages in the --system directory
    walk        \* "idle", "running", "done", or why the traversal stopped

world == <<script, pins, roots, present>>
closureVars == <<world, pending, provided, system, walk>>

\* What a traversal leaves out: an oracle dependency nobody has extracted.
Skipped == IF script = "public" THEN Lazy \ present ELSE {}

ClosureTypeOK ==
    /\ script \in Scripts
    /\ pins \in [Packages -> SUBSET Packages]
    /\ roots \in SUBSET Packages
    /\ present \in SUBSET Packages
    /\ pending \in SUBSET Packages
    /\ provided \in SUBSET Packages
    /\ system \in SUBSET Packages
    /\ walk \in {"idle", "running", "done", "missing", "libsolv", "exists",
                 "required"}

ClosureInit ==
    /\ script \in Scripts
    /\ pins \in [Packages -> SUBSET Packages]
    /\ roots \in SUBSET Packages
    /\ present \in SUBSET Packages
    /\ pending = {}
    /\ provided = {}
    /\ system = {}
    /\ walk = "idle"

BeginWalk ==
    /\ walk = "idle"
    /\ pending' = roots
    /\ provided' = {}
    /\ walk' = "running"
    /\ UNCHANGED <<world, system>>

Stop(h, why) ==
    /\ walk' = why
    /\ pending' = pending \ {h}
    /\ UNCHANGED <<world, provided, system>>

Again_NoPop(h) ==
    /\ walk = "running"
    /\ h \in pending \cap provided
    /\ UNCHANGED closureVars

\* if package_hash in provided: continue
Again(h) ==
    /\ walk = "running"
    /\ h \in pending \cap provided
    /\ pending' = pending \ {h}
    /\ UNCHANGED <<world, provided, system, walk>>

\* The product's closure must not ask for libsolv at all.
RefuseLazy(h) ==
    /\ walk = "running"
    /\ script = "product"
    /\ h \in (pending \ provided) \cap Lazy
    /\ Stop(h, "libsolv")

SkipAbsent(h) ==
    /\ walk = "running"
    /\ script = "public"
    /\ h \in (pending \ provided) \cap Lazy
    /\ h \notin present
    /\ pending' = pending \ {h}
    /\ UNCHANGED <<world, provided, system, walk>>

Missing(h) ==
    /\ walk = "running"
    /\ h \in (pending \ provided) \ Lazy
    /\ h \notin present
    /\ Stop(h, "missing")

Copyable(h) ==
    /\ walk = "running"
    /\ h \in (pending \ provided) \cap present
    /\ script = "product" => h \notin Lazy

Copy_ForgetsPins(h) ==
    /\ Copyable(h)
    /\ h \notin system
    /\ system' = system \cup {h}
    /\ provided' = provided \cup {h}
    /\ pending' = pending \ {h}
    /\ UNCHANGED <<world, walk>>

\* copytree, which refuses a directory that exists, then the pins of the
\* copied manifest; the public audit leaves out those it has provided already.
Copy(h) ==
    /\ Copyable(h)
    /\ IF h \in system THEN Stop(h, "exists")
       ELSE /\ system' = system \cup {h}
            /\ provided' = provided \cup {h}
            /\ pending' = (pending \ {h})
                             \cup (IF script = "public"
                                   THEN pins[h] \ (provided \cup {h})
                                   ELSE pins[h])
            /\ UNCHANGED <<world, walk>>

\* The public audit also insists on the packages it names.
FinishWalk ==
    /\ walk = "running"
    /\ pending = {}
    /\ walk' = IF script = "public" /\ ~(Required \subseteq provided)
               THEN "required" ELSE "done"
    /\ UNCHANGED <<world, pending, provided, system>>

Visit(h) ==
    \/ Again(h)
    \/ RefuseLazy(h)
    \/ SkipAbsent(h)
    \/ Missing(h)
    \/ Copy(h)

ClosureNext == BeginWalk \/ (\E h \in Packages : Visit(h)) \/ FinishWalk

ClosureSpec == ClosureInit /\ [][ClosureNext]_closureVars

-----------------------------------------------------------------------------
\* A set of packages a build can do with: the pins of the checkout and of
\* every package in it, apart from what is left out.
Closed(S) ==
    /\ roots \ Skipped \subseteq S
    /\ \A h \in S : pins[h] \ Skipped \subseteq S

\* "It holds exactly the closure pinned in the project manifest"
\* (public-zig-api-audit.py): when a traversal is done, what it put into the
\* --system directory is closed, and is part of every closed set.  Shared and
\* repeated pins, packages extracted for older pins and absent lazy ones are
\* what could make it too small or too large.
ProvidedIsClosure ==
    walk = "done" =>
        /\ Closed(provided)
        /\ \A S \in SUBSET Packages : Closed(S) => provided \subseteq S
        /\ system = provided

\* A traversal that stops for a package stops for one the build needs: it is
\* in every closed set; and no package is copied over itself.
StopsForNeeded ==
    /\ walk = "missing" =>
           \E h \in Packages \ present :
               \A S \in SUBSET Packages : Closed(S) => h \in S
    /\ walk # "exists"

\* A traversal provides exactly what the build needs or stops for good reason.
WalkIsExact == ProvidedIsClosure /\ StopsForNeeded

\* The closure of the product has no libsolv in it, whatever is cached.
ProductWithoutLazy ==
    script = "product" => system \cap Lazy = {}
=============================================================================
