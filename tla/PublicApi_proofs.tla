-------------------------- MODULE PublicApi_proofs --------------------------
(***************************************************************************)
(* The traversal of pinned packages provides exactly their closure, for    *)
(* any packages, pins and extracted revisions; and the audits that build   *)
(* on it pass only what is hermetic and export only whole programs,        *)
(* whatever is killed and started again.                                   *)
(***************************************************************************)
EXTENDS PublicApi, TLAPS

-----------------------------------------------------------------------------
(* The traversal by itself                                                 *)

\* While the traversal goes on, what is pinned by the checkout or by a
\* package already provided is provided or still pending.
Accounted ==
    walk \in {"running", "done", "required"} =>
        /\ roots \ Skipped \subseteq provided \cup pending
        /\ \A h \in provided : pins[h] \ Skipped \subseteq provided \cup pending

\* Nothing is provided, or pending other than to be skipped, that some closed
\* set does without.
Needed ==
    \A S \in SUBSET Packages :
        Closed(S) => provided \cup (pending \ Skipped) \subseteq S

\* The directory holds what the traversal has provided.
Mirrors ==
    /\ system = provided
    /\ walk = "idle" => pending = {} /\ provided = {}
    /\ walk \in {"done", "required"} => pending = {}
    /\ script = "product" => provided \cap Lazy = {}

ClosureInv ==
    ClosureTypeOK /\ Accounted /\ Needed /\ Mirrors /\ StopsForNeeded

LEMMA InitInv == ClosureInit => ClosureInv
  BY ClosureAssumption
  DEF ClosureInit, ClosureInv, ClosureTypeOK, Accounted, Needed, Mirrors,
      StopsForNeeded

\* Which sets are closed depends on the world alone, and no step changes it.
LEMMA ClosedStable ==
    ASSUME UNCHANGED world, NEW S
    PROVE  Closed(S)' <=> Closed(S)
  BY DEF world, Closed, Skipped

LEMMA BeginInv == ClosureInv /\ BeginWalk => ClosureInv'
<1> SUFFICES ASSUME ClosureInv, BeginWalk PROVE ClosureInv'
    OBVIOUS
<1> USE ClosureAssumption DEF ClosureInv
<1>0. UNCHANGED world /\ Skipped' = Skipped
    BY DEF BeginWalk, world, Skipped
<1>1. ClosureTypeOK'
    BY DEF BeginWalk, ClosureTypeOK, world
<1>2. Accounted'
    BY <1>0 DEF BeginWalk, Accounted, world
<1>3. Needed'
    <2> SUFFICES ASSUME NEW S \in SUBSET Packages, Closed(S)'
                 PROVE  provided' \cup (pending' \ Skipped') \subseteq S
        BY DEF Needed
    <2>1. Closed(S)
        BY <1>0, ClosedStable
    <2> QED
        BY <1>0, <2>1 DEF BeginWalk, Closed, Needed
<1>4. Mirrors'
    BY DEF BeginWalk, Mirrors, world
<1>5. StopsForNeeded'
    BY DEF BeginWalk, StopsForNeeded
<1> QED
    BY <1>1, <1>2, <1>3, <1>4, <1>5

\* A pop that changes neither the directory nor the outcome: the hash is
\* provided already or is one that is left out.
LEMMA DropInv ==
    ASSUME ClosureInv, NEW h \in Packages, h \in provided \cup Skipped,
           walk = "running", pending' = pending \ {h},
           UNCHANGED <<world, provided, system, walk>>
    PROVE  ClosureInv'
<1> USE ClosureAssumption DEF ClosureInv
<1>0. UNCHANGED world /\ Skipped' = Skipped
    BY DEF world, Skipped
<1>1. ClosureTypeOK'
    BY DEF ClosureTypeOK, world
<1>2. Accounted'
    BY <1>0 DEF Accounted, world
<1>3. Needed'
    <2> SUFFICES ASSUME NEW S \in SUBSET Packages, Closed(S)'
                 PROVE  provided' \cup (pending' \ Skipped') \subseteq S
        BY DEF Needed
    <2>1. Closed(S)
        BY <1>0, ClosedStable
    <2> QED
        BY <1>0, <2>1 DEF Needed
<1>4. Mirrors'
    BY DEF Mirrors, world
<1>5. StopsForNeeded'
    BY DEF StopsForNeeded
<1> QED
    BY <1>1, <1>2, <1>3, <1>4, <1>5

LEMMA StopInv ==
    ASSUME ClosureInv, NEW h \in Packages, walk = "running",
           NEW why \in {"missing", "libsolv"}, Stop(h, why),
           why = "missing" => h \in pending \ (provided \cup Lazy \cup present)
    PROVE  ClosureInv'
<1> USE ClosureAssumption DEF ClosureInv
<1>0. UNCHANGED world /\ Skipped' = Skipped
    BY DEF Stop, world, Skipped
<1>1. ClosureTypeOK'
    BY DEF ClosureTypeOK, Stop, world
<1>2. Accounted'
    BY DEF Accounted, Stop
<1>3. Needed'
    <2> SUFFICES ASSUME NEW S \in SUBSET Packages, Closed(S)'
                 PROVE  provided' \cup (pending' \ Skipped') \subseteq S
        BY DEF Needed
    <2>1. Closed(S)
        BY <1>0, ClosedStable
    <2> QED
        BY <1>0, <2>1 DEF Needed, Stop
<1>4. Mirrors'
    BY DEF Mirrors, Stop, world
<1>5. StopsForNeeded'
    <2> SUFFICES ASSUME why = "missing"
                 PROVE  \E g \in Packages \ present' :
                            \A S \in SUBSET Packages : Closed(S)' => g \in S
        BY DEF StopsForNeeded, Stop
    <2>1. h \in Packages \ present' /\ h \in pending \ Skipped
        BY <1>0 DEF world, Skipped
    <2>2. ASSUME NEW S \in SUBSET Packages, Closed(S)' PROVE h \in S
        <3>1. Closed(S)
            BY <1>0, <2>2, ClosedStable
        <3> QED
            BY <2>1, <3>1 DEF Needed
    <2> QED
        BY <2>1, <2>2
<1> QED
    BY <1>1, <1>2, <1>3, <1>4, <1>5

LEMMA CopyInv ==
    ASSUME ClosureInv, NEW h \in Packages, Copy(h)
    PROVE  ClosureInv'
<1> USE ClosureAssumption DEF ClosureInv
<1>a. h \in pending /\ h \in present /\ h \notin provided
    BY DEF Copy, Copyable
<1>e. h \notin system
    BY <1>a DEF Mirrors
<1> USE <1>e
<1>0. UNCHANGED world /\ Skipped' = Skipped
    BY DEF Copy, world, Skipped
<1>b. h \notin Skipped
    BY <1>a DEF Skipped
<1>c. pins[h] \in SUBSET Packages
    BY DEF ClosureTypeOK
<1>d. /\ provided' = provided \cup {h}
      /\ (pending \ {h}) \cup (pins[h] \ provided')
             \subseteq pending' \cup provided'
      /\ pending' \subseteq (pending \ {h}) \cup pins[h]
    BY DEF Copy
<1>1. ClosureTypeOK'
    BY <1>c, <1>d DEF ClosureTypeOK, Copy, world
<1>2. Accounted'
    <2>1. /\ roots \ Skipped \subseteq provided \cup pending
          /\ \A g \in provided :
                 pins[g] \ Skipped \subseteq provided \cup pending
        BY DEF Accounted, Copy, Copyable
    <2>2. provided \cup pending \subseteq provided' \cup pending'
        BY <1>d
    <2>3. pins[h] \subseteq provided' \cup pending'
        BY <1>d
    <2>4. \A g \in provided' :
              pins[g] \ Skipped \subseteq provided' \cup pending'
        BY <1>d, <2>1, <2>2, <2>3
    <2> QED
        BY <1>0, <2>1, <2>2, <2>4 DEF Accounted, world
<1>3. Needed'
    <2> SUFFICES ASSUME NEW S \in SUBSET Packages, Closed(S)'
                 PROVE  provided' \cup (pending' \ Skipped') \subseteq S
        BY DEF Needed
    <2>1. Closed(S)
        BY <1>0, ClosedStable
    <2>2. provided \cup (pending \ Skipped) \subseteq S
        BY <2>1 DEF Needed
    <2>3. h \in S
        BY <1>a, <1>b, <2>2
    <2>4. pins[h] \ Skipped \subseteq S
        BY <2>1, <2>3 DEF Closed
    <2> QED
        BY <1>0, <1>d, <2>2, <2>3, <2>4
<1>4. Mirrors'
    BY <1>a, <1>d DEF Mirrors, Copy, Copyable, world
<1>5. StopsForNeeded'
    BY DEF StopsForNeeded, Copy, Copyable
<1> QED
    BY <1>1, <1>2, <1>3, <1>4, <1>5

LEMMA FinishInv == ClosureInv /\ FinishWalk => ClosureInv'
<1> SUFFICES ASSUME ClosureInv, FinishWalk PROVE ClosureInv'
    OBVIOUS
<1> USE DEF ClosureInv
<1>0. UNCHANGED world /\ Skipped' = Skipped
    BY DEF FinishWalk, world, Skipped
<1>1. ClosureTypeOK'
    BY DEF ClosureTypeOK, FinishWalk, world
<1>2. Accounted'
    BY <1>0 DEF Accounted, FinishWalk, world
<1>3. Needed'
    <2> SUFFICES ASSUME NEW S \in SUBSET Packages, Closed(S)'
                 PROVE  provided' \cup (pending' \ Skipped') \subseteq S
        BY DEF Needed
    <2>1. Closed(S)
        BY <1>0, ClosedStable
    <2> QED
        BY <1>0, <2>1 DEF Needed, FinishWalk
<1>4. Mirrors'
    BY DEF Mirrors, FinishWalk, world
<1>5. StopsForNeeded'
    BY DEF StopsForNeeded, FinishWalk
<1> QED
    BY <1>1, <1>2, <1>3, <1>4, <1>5

LEMMA VisitInv ==
    ASSUME ClosureInv, NEW h \in Packages, Visit(h)
    PROVE  ClosureInv'
<1>1. CASE Again(h)
    BY <1>1, DropInv DEF Again
<1>2. CASE RefuseLazy(h)
    <2>1. walk = "running" /\ Stop(h, "libsolv")
        BY <1>2 DEF RefuseLazy
    <2> QED
        BY <2>1, StopInv
<1>3. CASE SkipAbsent(h)
    <2>1. h \in Skipped
        BY <1>3 DEF SkipAbsent, Skipped
    <2> QED
        BY <1>3, <2>1, DropInv DEF SkipAbsent
<1>4. CASE Missing(h)
    <2>1. /\ walk = "running" /\ Stop(h, "missing")
          /\ h \in pending \ (provided \cup Lazy \cup present)
        BY <1>4 DEF Missing
    <2> QED
        BY <2>1, StopInv
<1>5. CASE Copy(h)
    BY <1>5, CopyInv
<1> QED
    BY <1>1, <1>2, <1>3, <1>4, <1>5 DEF Visit

LEMMA StutterInv == ClosureInv /\ UNCHANGED closureVars => ClosureInv'
<1> SUFFICES ASSUME ClosureInv, UNCHANGED closureVars PROVE ClosureInv'
    OBVIOUS
<1>0. UNCHANGED world /\ UNCHANGED <<pending, provided, system, walk>>
    BY DEF closureVars
<1> USE <1>0 DEF world
<1>1. ClosureTypeOK'
    BY DEF ClosureInv, ClosureTypeOK
<1>2. Skipped' = Skipped /\ \A S : Closed(S)' <=> Closed(S)
    BY DEF Skipped, Closed
<1>3. Accounted' /\ Needed' /\ Mirrors' /\ StopsForNeeded'
    BY <1>2 DEF ClosureInv, Accounted, Needed, Mirrors, StopsForNeeded
<1> QED
    BY <1>1, <1>3 DEF ClosureInv

LEMMA NextInv == ClosureInv /\ [ClosureNext]_closureVars => ClosureInv'
  BY BeginInv, VisitInv, FinishInv, StutterInv DEF ClosureNext

\* The inductive invariant holds in every reachable state.
THEOREM ClosureInvariant == ClosureSpec => []ClosureInv
<1>1. ClosureInit => ClosureInv
    BY InitInv
<1>2. ClosureInv /\ [ClosureNext]_closureVars => ClosureInv'
    BY NextInv
<1> QED
    BY <1>1, <1>2, PTL DEF ClosureSpec

\* What a traversal that is done has provided.
LEMMA DoneIsClosure == ClosureInv => ProvidedIsClosure
<1> SUFFICES ASSUME ClosureInv, walk = "done" PROVE ProvidedIsClosure
    BY DEF ProvidedIsClosure
<1>1. pending = {} /\ system = provided
    BY DEF ClosureInv, Mirrors
<1>2. Closed(provided)
    BY <1>1 DEF ClosureInv, Accounted, Closed
<1>3. \A S \in SUBSET Packages : Closed(S) => provided \subseteq S
    BY DEF ClosureInv, Needed
<1> QED
    BY <1>1, <1>2, <1>3 DEF ProvidedIsClosure

\* A traversal that is done has put into the --system directory the least
\* closed set of packages, neither more nor less.
THEOREM ClosureExact == ClosureSpec => []ProvidedIsClosure
  BY DoneIsClosure, ClosureInvariant, PTL

\* It stops for a missing package only if every closed set has it, and never
\* copies a package over itself.
THEOREM StopsOnlyForNeeded == ClosureSpec => []StopsForNeeded
<1>1. ClosureInv => StopsForNeeded
    BY DEF ClosureInv
<1> QED
    BY <1>1, ClosureInvariant, PTL

\* A traversal provides exactly the least closed set of packages or stops for
\* a package that every closed set has.
THEOREM WalkExact == ClosureSpec => []WalkIsExact
<1>1. ProvidedIsClosure /\ StopsForNeeded => WalkIsExact
    BY DEF WalkIsExact
<1> QED
    BY <1>1, ClosureExact, StopsOnlyForNeeded, PTL

\* The product's traversal never copies an oracle dependency.
THEOREM NoLazyInProduct == ClosureSpec => []ProductWithoutLazy
<1>1. ClosureInv => ProductWithoutLazy
    BY DEF ClosureInv, Mirrors, ProductWithoutLazy
<1> QED
    BY <1>1, ClosureInvariant, PTL
-----------------------------------------------------------------------------
(* The audits                                                              *)

Middle == {"package", "inspect", "freeze", "walk", "build", "export", "copyout", "compare"}
Built == {"build", "export", "copyout", "compare"}

\* A traversal of the public audit is done only with what the audit insists on.
InsistsOn == walk = "done" /\ script = "public" => Required \subseteq provided

\* What the script has checked when it has come so far, and when it passes.
Checked ==
    /\ script = "public" /\ pc \in Built \cup {"freeze", "walk"} => check_public_closure(tree)
    /\ pc \in Built => walk = "done"
    /\ pc \in Middle => result = "none"
    /\ touched \subseteq Changes
    /\ script = "public" /\ result = "ok" =>
          check_public_closure(tree) /\ walk = "done" /\ touched \subseteq {"link", "below"}

AuditInv == ClosureInv /\ InsistsOn /\ Checked

LEMMA InitAudit == Init => AuditInv
<1> SUFFICES ASSUME Init PROVE AuditInv
    OBVIOUS
<1>1. ClosureInit
    BY PublicApiAssumption DEF Init, ClosureInit
<1>2. InsistsOn /\ Checked
    BY DEF Init, InsistsOn, Checked, Middle, Built
<1> QED
    BY <1>1, <1>2, InitInv DEF AuditInv

\* A new run starts with a new --system directory.
LEMMA StartInv ==
    ASSUME ClosureInv, UNCHANGED world, system' = {}, walk' = "idle", pending' = {},
           provided' = {}
    PROVE  ClosureInv'
<1>1. ClosureInit'
    BY DEF ClosureInv, ClosureTypeOK, ClosureInit, world
<1> QED
    BY <1>1, ClosureAssumption
    DEF ClosureInit, ClosureInv, ClosureTypeOK, Accounted, Needed, Mirrors, StopsForNeeded

LEMMA NextClosure == AuditInv /\ [Next]_vars => ClosureInv' /\ InsistsOn'
<1> SUFFICES ASSUME AuditInv, [Next]_vars PROVE ClosureInv' /\ InsistsOn'
    OBVIOUS
<1>1. CASE UNCHANGED closureVars
    BY <1>1, StutterInv DEF AuditInv, InsistsOn, closureVars, world
<1>2. CASE Mkdtemp \/ StartProduct
    <2>1. \/ UNCHANGED closureVars
          \/ /\ UNCHANGED world /\ system' = {} /\ walk' = "idle" /\ pending' = {}
             /\ provided' = {}
        BY <1>2 DEF Mkdtemp, StartProduct, Begin
    <2> QED
        BY <1>1, <2>1, StartInv DEF AuditInv, InsistsOn
<1>3. CASE Walk
    <2>1. ClosureNext
        BY <1>3 DEF Walk
    <2>2. ClosureInv'
        BY <2>1, NextInv DEF AuditInv
    <2>3. InsistsOn'
        <3>1. CASE BeginWalk \/ FinishWalk
            BY <3>1 DEF BeginWalk, FinishWalk, InsistsOn, world
        <3>2. CASE \E h \in Packages : Visit(h)
            BY <3>2
            DEF Visit, Again, RefuseLazy, SkipAbsent, Missing, Copy, Copyable, Stop, InsistsOn
        <3> QED
            BY <2>1, <3>1, <3>2 DEF ClosureNext
    <2> QED
        BY <2>2, <2>3
<1>4. CASE CopyPackage \/ Inspect \/ Freeze \/ WalkOver
    BY <1>1, <1>4 DEF CopyPackage, Inspect, Freeze, WalkOver, Raise
<1>5. CASE BuildConsumer \/ BuildExport
    BY <1>1, <1>5 DEF BuildConsumer, BuildExport, Build, Raise
<1>6. CASE BeginExport \/ ThisExport \/ EndExport \/ OtherExport \/ Compare \/ Cleanup
           \/ KillAndRestart \/ RunAgain \/ UNCHANGED vars
    BY <1>1, <1>6 DEF BeginExport, ThisExport, EndExport, OtherExport, Compare, Cleanup,
                      KillAndRestart, RunAgain, Raise, vars
<1> QED
    BY <1>2, <1>3, <1>4, <1>5, <1>6 DEF Next

\* A step of the traversal decides nothing else.
LEMMA NextChecked == AuditInv /\ [Next]_vars => Checked'
<1> SUFFICES ASSUME Checked, [Next]_vars PROVE Checked'
    BY DEF AuditInv
<1> USE DEF Middle, Built
<1>1. CASE Raise
    BY <1>1 DEF Raise, Goto, Checked, closureVars, world
<1>2. CASE Mkdtemp \/ StartProduct
    <2>1. CASE /\ pc' \in {"package", "walk"} /\ result' = "none" /\ touched' = {}
               /\ UNCHANGED <<script, tree>> /\ (script = "public" => pc' = "package")
        BY <2>1 DEF Checked
    <2>2. CASE /\ pc' = "over" /\ result' = "failed" /\ UNCHANGED touched
        BY <2>2 DEF Checked
    <2> QED
        BY <1>2, <2>1, <2>2 DEF Mkdtemp, StartProduct, Begin, Goto, world
<1>3. CASE CopyPackage \/ Inspect \/ Freeze
    BY <1>1, <1>3 DEF CopyPackage, Inspect, Freeze, Goto, Checked, closureVars, world
<1>4. CASE Walk
    <2>1. UNCHANGED <<script, tree, pc, result, touched>> /\ pc = "walk"
        BY <1>4
        DEF Walk, auditVars, ClosureNext, BeginWalk, FinishWalk, Visit, Again, RefuseLazy,
            SkipAbsent, Missing, Copy, Stop, world
    <2> QED
        BY <2>1 DEF Checked
<1>5. CASE WalkOver
    BY <1>1, <1>5 DEF WalkOver, Goto, Checked, closureVars, world
<1>6. CASE BuildConsumer \/ BuildExport
    <2>1. CASE /\ pc \in {"build", "export"} /\ pc' \in {"export", "copyout", "compare"}
               /\ UNCHANGED <<closureVars, tree, result>> /\ touched' \subseteq Changes
        BY <2>1 DEF Checked, closureVars, world
    <2>2. touched \subseteq Changes
        BY DEF Checked
    <2> QED
        BY <1>1, <1>6, <2>1, <2>2 DEF BuildConsumer, BuildExport, Build, Goto
<1>7. CASE BeginExport \/ ThisExport \/ EndExport \/ OtherExport
    BY <1>7
    DEF BeginExport, ThisExport, EndExport, OtherExport, Checked, closureVars, world
<1>8. CASE Compare
    <2>1. script = "public" /\ touched \cap Noticed = {} => touched \subseteq {"link", "below"}
        BY DEF Checked, Changes, Noticed
    <2> QED
        BY <1>1, <1>8, <2>1 DEF Compare, Goto, Checked, closureVars, world
<1>9. CASE Cleanup \/ KillAndRestart \/ RunAgain \/ UNCHANGED vars
    BY <1>9
    DEF Cleanup, KillAndRestart, RunAgain, Goto, Checked, closureVars, world, vars, auditVars
<1> QED
    BY <1>2, <1>3, <1>4, <1>5, <1>6, <1>7, <1>8, <1>9 DEF Next

\* The invariant of a run of an audit.
THEOREM AuditInvariant == Spec => []AuditInv
<1>1. AuditInv /\ [Next]_vars => AuditInv'
    BY NextClosure, NextChecked DEF AuditInv
<1> QED
    BY <1>1, InitAudit, PTL DEF Spec

\* In every audit the traversal provides exactly what the build needs, also
\* after a kill in the middle of one and a restart.
THEOREM AuditsWalkExactly == Spec => []WalkIsExact
<1>1. AuditInv => WalkIsExact
    BY DoneIsClosure DEF AuditInv, ClosureInv, WalkIsExact
<1> QED
    BY <1>1, AuditInvariant, PTL

\* Imports of files that stay among the public files lead nowhere else, nor do
\* registered modules whose roots are public.
LEMMA ReachesPublic ==
    ASSUME check_public_closure(tree), NEW follows \in BOOLEAN,
           follows => \A m \in tree.modules : tree.root[m] \subseteq PublicSources
    PROVE  Reachable(tree, follows) \subseteq PublicSources
<1>1. ASSUME NEW f \in PublicSources
      PROVE  Leads(tree, f, follows) \subseteq PublicSources
    <2>1. /\ tree.imports[f] \cap Modules \subseteq tree.modules
          /\ tree.imports[f] \cap Files \subseteq PublicSources
        BY DEF check_public_closure
    <2>2. CASE follows
        BY <2>1, <2>2 DEF Leads
    <2>3. CASE ~follows
        BY <2>1, <2>3 DEF Leads
    <2> QED
        BY <2>2, <2>3
<1>2. PublicSources \in SUBSET Files /\ Least(tree, follows, PublicSources)
    BY <1>1, PublicApiAssumption DEF Least
<1>3. Least(tree, follows, Reachable(tree, follows))
    BY <1>2, Zenon DEF Reachable
<1> QED
    BY <1>1, <1>2, <1>3 DEF Least

\* The public audit passes only a package whose public files reach by imports
\* of files what is public and in it, and of modules those that are
\* registered, and what these lead to if their roots are public; built against a closed set of packages with those that the
\* audit names; by builds that changed nothing but link targets and what is
\* below an entry of the --system directory: for every checkout and cache,
\* and every sequence of kills, restarts and further runs.
THEOREM PassesHermetic == Spec => []PassIsHermetic
<1>1. AuditInv => PassIsHermetic
    <2> SUFFICES ASSUME AuditInv, script = "public", result = "ok"
                 PROVE  /\ Reachable(tree, FALSE) \subseteq PublicSources \cap tree.files
                        /\ \A f \in Reachable(tree, FALSE) :
                               tree.imports[f] \cap Modules \subseteq tree.modules
                        /\ (\A m \in tree.modules : tree.root[m] \subseteq PublicSources) =>
                               Reachable(tree, TRUE) \subseteq PublicSources
                        /\ touched \subseteq {"link", "below"}
                        /\ Required \subseteq system /\ Closed(system)
        BY DEF PassIsHermetic
    <2>1. /\ check_public_closure(tree) /\ walk = "done"
          /\ touched \subseteq {"link", "below"}
        BY DEF AuditInv, Checked
    <2>2. Required \subseteq provided /\ system = provided /\ Closed(provided)
        BY <2>1, DoneIsClosure DEF AuditInv, InsistsOn, ProvidedIsClosure
    <2>3. PublicSources \subseteq tree.files
        BY <2>1 DEF check_public_closure
    <2>4. \A f \in PublicSources : tree.imports[f] \cap Modules \subseteq tree.modules
        BY <2>1 DEF check_public_closure
    <2> QED
        BY <2>1, <2>2, <2>3, <2>4, ReachesPublic
<1> QED
    BY <1>1, AuditInvariant, PTL

-----------------------------------------------------------------------------
(* The export                                                              *)

\* A staging file is what its own run has made of it, and of no other run.
StagingInv ==
    /\ export \in [Runs -> {"idle", "copy", "copying", "chmod", "replace", "done"}]
    /\ staging \in [Runs \cup {"shared"} -> {"none", "partial", "plain", "executable"}]
    /\ \A r \in Runs :
          /\ export[r] = "chmod" => staging[r] \in {"none", "plain"}
          /\ export[r] = "replace" => staging[r] \in {"none", "executable"}

LEMMA StepExports ==
    ASSUME StagingInv, ExportIsWhole, NEW r \in Runs, ExportStep(r)
    PROVE  StagingInv' /\ ExportIsWhole'
  BY DEF ExportStep, stagingName, StagingInv, ExportIsWhole, Runs

\* Two runs that export to one path leave a whole program there at every
\* moment, since each has a staging file of its own and renames it last.
THEOREM ExportsWhole == Spec => []ExportIsWhole
<1> DEFINE Inv == StagingInv /\ ExportIsWhole
<1>1. Init => Inv
    BY DEF Init, StagingInv, ExportIsWhole, Runs
<1>2. Inv /\ [Next]_vars => Inv'
    <2> SUFFICES ASSUME Inv, [Next]_vars PROVE Inv'
        OBVIOUS
    <2>0. "this" \in Runs /\ "other" \in Runs
        BY DEF Runs
    <2>1. CASE UNCHANGED <<export, staging, target>>
        BY <2>1 DEF StagingInv, ExportIsWhole
    <2>2. CASE ThisExport
        BY <2>0, <2>2, StepExports DEF ThisExport
    <2>3. CASE OtherExport
        <3>1. CASE ExportStep("other")
            BY <2>0, <3>1, StepExports
        <3>2. CASE export' = [export EXCEPT !["other"] = "copy"] /\ UNCHANGED <<staging, target>>
            BY <3>2 DEF StagingInv, ExportIsWhole, Runs
        <3> QED
            BY <2>3, <3>1, <3>2 DEF OtherExport
    <2>4. CASE BeginExport \/ EndExport \/ KillAndRestart
        BY <2>4 DEF BeginExport, EndExport, KillAndRestart, stagingName, StagingInv, ExportIsWhole,
                    Runs
    <2>5. CASE Mkdtemp \/ StartProduct \/ CopyPackage \/ Inspect \/ Freeze \/ Walk \/ WalkOver
        BY <2>1, <2>5 DEF Mkdtemp, StartProduct, Begin, CopyPackage, Inspect, Freeze, Walk, WalkOver, Raise,
                    Goto, auditVars
    <2>6. CASE BuildConsumer \/ BuildExport
        BY <2>1, <2>6 DEF BuildConsumer, BuildExport, Build, Raise, Goto
    <2>7. CASE Compare \/ Cleanup \/ RunAgain \/ UNCHANGED vars
        BY <2>1, <2>7 DEF Compare, Cleanup, RunAgain, Raise, Goto, vars, auditVars
    <2> QED
        BY <2>2, <2>3, <2>4, <2>5, <2>6, <2>7 DEF Next
<1>3. Inv => ExportIsWhole
    OBVIOUS
<1> QED
    BY <1>1, <1>2, <1>3, PTL DEF Spec
=============================================================================
