-------------------------- MODULE ReleasePipeline --------------------------
(***************************************************************************)
(* A run of the release workflow for a pushed tag: the jobs of             *)
(* .github/workflows/release.yml on fresh machines, the artifacts they     *)
(* hand over, the attestations, the release page and the smoke test        *)
(* (scripts/release-smoke.py) of what was published.  The workflow and the *)
(* scripts are any candidate that release-audit.py accepts, since CI runs  *)
(* the audit on every change.  Any step may fail, and a maintainer may     *)
(* re-run the failed jobs or all of them.                                  *)
(***************************************************************************)
EXTENDS ReleaseAudit

CONSTANTS
    Tags,           \* [version, parses, prerelease] of the tags to push
    FixedVersion,   \* the version of a hard-coded tag
    StrayPages,     \* whether a release page may hold a file of another hand
    MaxAttempts,    \* bound on the attempts of a run
    MaxFailures     \* bound on the steps that fail

ASSUME PipelineAssumption ==
    \A t \in Tags : t.prerelease \in BOOLEAN /\ StartsWith(t.version, t.version)

VARIABLES
    workflow,   \* the accepted candidate
    tag,        \* the pushed tag
    attempt,    \* of the run
    job,        \* job instances: status, step, workspace, ...
    artifacts,  \* uploaded artifacts: the attempt and the files
    attested,   \* contents with a provenance attestation
    page,       \* the release page of each version
    failures, failedNow     \* injected failures: all, and of this attempt

pipelineVars == <<workflow, tag, attempt, job, artifacts, attested, page,
                  failures, failedNow>>

Instances ==
    {<<"source", "any">>, <<"release", "any">>}
        \cup ({"build", "smoke"} \X Platforms)

NoFiles == [n \in {} |-> Partial]
store(f, n, x) == [m \in DOMAIN f \cup {n} |-> IF m = n THEN x ELSE f[m]]
restrict(f, S) == [m \in DOMAIN f \cap S |-> f[m]]
\* The files of g over those of f.
over(f, g) == [m \in DOMAIN f \cup DOMAIN g |->
                  IF m \in DOMAIN g THEN g[m] ELSE f[m]]

\* A job with nothing done: on no machine yet, or on a fresh one.
fresh(status, step, k) ==
    [status |-> status, step |-> step, attempt |-> k, version |-> "none",
     files |-> NoFiles, todo |-> {}]
queued == fresh("queued", 0, 0)

\* What no step of a job changes.
Kept == UNCHANGED <<workflow, tag, attempt, failures, failedNow>>

Pages == Versions \cup {t.version : t \in Tags}
Stray == nameOf("stray", "none", "any")

PipelineInit ==
    /\ workflow \in {c \in Candidates : audit(c)}
    /\ tag \in Tags
    /\ attempt = 1
    /\ job = [i \in Instances |-> queued]
    /\ artifacts = NoFiles
    /\ attested = {}
    /\ \E stray \in StrayPages :
           page = [v \in Pages |->
                      [files |-> IF stray /\ v = tag.version
                                 THEN store(NoFiles, Stray, Partial)
                                 ELSE NoFiles,
                       prerelease |-> FALSE]]
    /\ failures = 0
    /\ failedNow = FALSE

-----------------------------------------------------------------------------
(* Jobs.                                                                   *)

Ok(i) == job[i].status = "ok"
Final(i) == job[i].status \in {"ok", "failed", "skipped", "cancelled"}
Needed(i) == {j \in Instances : j[1] \in workflow.needs[i[1]]}
At(i, s) ==
    job[i].status = "running" /\ workflow.steps[i[1]][job[i].step] = s

\* The step succeeds and leaves "r" of the job's record.
Advance(i, r) ==
    job' = [job EXCEPT ![i] =
               IF r.step = Len(workflow.steps[i[1]])
               THEN [r EXCEPT !.status = "ok"]
               ELSE [r EXCEPT !.step = @ + 1]]

\* The job fails; a matrix that fails fast cancels its other instances.
Fail(i) ==
    job' = [j \in Instances |->
               IF j = i THEN [job[i] EXCEPT !.status = "failed"]
               ELSE IF workflow.failFast /\ j[1] = i[1] /\ ~Final(j)
                    THEN [job[j] EXCEPT !.status = "cancelled"]
                    ELSE job[j]]

Start(i) ==
    /\ job[i].status = "queued"
    /\ \A j \in Needed(i) : Ok(j)
    /\ job' = [job EXCEPT ![i] = fresh("running", 1, attempt)]
    /\ Kept /\ UNCHANGED <<artifacts, attested, page>>

Skip(i) ==
    /\ job[i].status = "queued"
    /\ \A j \in Needed(i) : Final(j)
    /\ \E j \in Needed(i) : ~Ok(j)
    /\ job' = [job EXCEPT ![i].status = "skipped"]
    /\ Kept /\ UNCHANGED <<artifacts, attested, page>>

-----------------------------------------------------------------------------
(* Steps.                                                                  *)

\* Steps that leave nothing the others look at.
Setup(i) ==
    /\ \E s \in {"checkout", "zig", "cache", "build", "ghr", "sign"} : At(i, s)
    /\ Advance(i, job[i])
    /\ Kept /\ UNCHANGED <<artifacts, attested, page>>

emit_version(i) ==
    /\ At(i, "version")
    /\ IF workflow.versionFrom[i[1]] = "fixed"
       THEN Advance(i, [job[i] EXCEPT !.version = FixedVersion])
       ELSE IF tag.parses
            THEN Advance(i, [job[i] EXCEPT !.version = tag.version])
            ELSE Fail(i)
    /\ Kept /\ UNCHANGED <<artifacts, attested, page>>

\* What "zig build install" leaves for package_binary: no two builds agree.
BuiltTree(i) ==
    Tree(<<job[i].attempt, i[2]>>, workflow.buildOn[i[2]], job[i].version)

PackagedBinary(i) ==
    LET v == job[i].version
        n == Archive(v, i[2])
        archive == archiveOf(BuiltTree(i), <<v, i[2]>>)
        calls == workflow.packager.calls["package_binary"]
        all == store(store(store(NoFiles, n, archive),
                           Sidecar(n), sumOf(archive, n)),
                     Sbom(v, i[2]), write_sbom(BuiltTree(i), v, i[2]))
    IN  restrict(all, {n} \cup (IF "write_checksum" \in calls
                                THEN {Sidecar(n)} ELSE {})
                          \cup (IF "write_sbom" \in calls
                                THEN {Sbom(v, i[2])} ELSE {}))

PackageBinary(i) ==
    /\ At(i, "binary")
    /\ IF Packageable(BuiltTree(i), job[i].version, workflow.buildOn[i[2]])
       THEN Advance(i, [job[i] EXCEPT !.files = PackagedBinary(i)])
       ELSE Fail(i)
    /\ Kept /\ UNCHANGED <<artifacts, attested, page>>

\* git archive of what the script names: the tag is checked out as HEAD.
PackageSource(i) ==
    /\ At(i, "source")
    /\ LET n == Source(job[i].version)
           commit == IF workflow.packager.argv["package_source"]
                         = "git archive HEAD" THEN "tagged" ELSE "other"
           archive == archiveOf([id |-> commit, climbs |-> FALSE],
                                job[i].version)
       IN  Advance(i, [job[i] EXCEPT !.files =
                          store(store(NoFiles, n, archive),
                                Sidecar(n), sumOf(archive, n))])
    /\ Kept /\ UNCHANGED <<artifacts, attested, page>>

artifactName(i) ==
    IF workflow.artifact[i[1]] = "per platform" THEN i[2]
    ELSE workflow.artifact[i[1]]

\* The name must be free in this attempt.
Upload(i) ==
    /\ At(i, "upload")
    /\ LET name == artifactName(i)
       IN  IF name \in DOMAIN artifacts
                 /\ artifacts[name].attempt = job[i].attempt
           THEN Fail(i) /\ UNCHANGED artifacts
           ELSE /\ artifacts' = store(artifacts, name,
                       [attempt |-> job[i].attempt, files |-> job[i].files])
                /\ Advance(i, job[i])
    /\ Kept /\ UNCHANGED <<attested, page>>

Downloaded ==
    LET all == UNION {DOMAIN artifacts[a].files : a \in DOMAIN artifacts}
    IN  [n \in all |-> artifacts[CHOOSE a \in DOMAIN artifacts :
                                     n \in DOMAIN artifacts[a].files].files[n]]

Download(i) ==
    /\ At(i, "download")
    /\ Advance(i, [job[i] EXCEPT !.files =
                      IF workflow.merge THEN Downloaded ELSE NoFiles])
    /\ Kept /\ UNCHANGED <<artifacts, attested, page>>

Scopes(i) ==
    IF workflow.token[i[1]].own THEN workflow.token[i[1]].write
                                ELSE workflow.writeDefault

ofKinds(files, kinds) == {n \in DOMAIN files : n.kind \in kinds}

Attest(i) ==
    /\ At(i, "attest")
    /\ LET subjects == ofKinds(job[i].files, workflow.subjects)
       IN  IF {"id-token", "attestations"} \subseteq Scopes(i)
                 /\ subjects # {}
           THEN /\ attested' = attested
                        \cup {job[i].files[n] : n \in subjects}
                /\ Advance(i, job[i])
           ELSE Fail(i) /\ UNCHANGED attested
    /\ Kept /\ UNCHANGED <<artifacts, page>>

-----------------------------------------------------------------------------
(* Create release: the page, then the files, a pattern at a time.          *)

ReleaseOf(i) ==
    IF "tag_name" \in workflow.inputs THEN FixedVersion ELSE tag.version

OpenPage(i) ==
    /\ At(i, "create")
    /\ job[i].todo = {}
    /\ IF "contents" \in Scopes(i)
       THEN /\ page' = [page EXCEPT ![ReleaseOf(i)].prerelease =
                           workflow.prerelease = "parsed" /\ tag.prerelease]
            /\ job' = [job EXCEPT ![i].todo = workflow.files \cup {"end"}]
       ELSE Fail(i) /\ UNCHANGED page
    /\ Kept /\ UNCHANGED <<artifacts, attested>>

UploadAssets(i) ==
    /\ At(i, "create")
    /\ \E kind \in job[i].todo \ {"end"} :
           /\ page' = [page EXCEPT ![ReleaseOf(i)].files =
                  over(@, restrict(job[i].files,
                                   ofKinds(job[i].files, {kind})))]
           /\ job' = [job EXCEPT ![i].todo = @ \ {kind}]
    /\ Kept /\ UNCHANGED <<artifacts, attested>>

PageDone(i) ==
    /\ At(i, "create")
    /\ job[i].todo = {"end"}
    /\ Advance(i, [job[i] EXCEPT !.todo = {}])
    /\ Kept /\ UNCHANGED <<artifacts, attested, page>>

-----------------------------------------------------------------------------
(* release-smoke.py.                                                       *)

validate_arguments(i) ==
    /\ job[i].version = tag.version
    /\ tag.parses
    /\ i[2] \in workflow.manifest

\* ghr installs the archive of the machine it runs on.
GhrInstall(i) ==
    LET n == Archive(job[i].version, i[2])
        files == page[tag.version].files
    IN  /\ workflow.smokeOn[i[2]] = i[2]
        /\ n \in DOMAIN files
        /\ files[n].type = "archive"

\* A check of the script counts: it is called whatever the conditions, and the
\* script fails when it does.
Counts(check) ==
    check \notin workflow.smoke.conditional \cup workflow.smoke.ignored

Made(check) ==
    check \in workflow.smoke.calls \cup workflow.smoke.methods /\ Counts(check)

InstalledIsGood(i) ==
    LET tree == page[tag.version].files[Archive(job[i].version, i[2])].tree
    IN  /\ tree.arch = workflow.smokeOn[i[2]]
        /\ Made("rpmz_version") => tree.rpmz = job[i].version
        /\ Made("compatibility_version") => tree.tdnf = job[i].version
        /\ tree.bins = {"rpmz"} /\ {"lib", "libexec", "etc"} \subseteq tree.dirs
        /\ Made("native_audit") => tree.native

expected_assets(v) == names(v, workflow.manifest)

run_smoke(i) ==
    LET n == Archive(job[i].version, i[2])
        files == page[tag.version].files
    IN  /\ Made("validate_arguments") => validate_arguments(i)
        /\ GhrInstall(i)
        /\ InstalledIsGood(i)
        /\ Made("expected_assets") => DOMAIN files = expected_assets(job[i].version)
        /\ Made("verify_checksum") =>
              Sidecar(n) \in DOMAIN files /\ verify_checksum(files, n)

Smoke(i) ==
    /\ At(i, "smoke")
    /\ IF workflow.smokeScript = "release-smoke.py" => run_smoke(i)
       THEN Advance(i, job[i])
       ELSE Fail(i)
    /\ Kept /\ UNCHANGED <<artifacts, attested, page>>

-----------------------------------------------------------------------------
(* Failures and re-runs.                                                   *)

\* A step fails; one that replaces published files may have removed them.
StepFails(i) ==
    /\ job[i].status = "running"
    /\ failures < MaxFailures
    /\ failures' = failures + 1
    /\ failedNow' = TRUE
    /\ Fail(i)
    /\ \/ UNCHANGED page
       \/ \E kind \in job[i].todo \ {"end"} :
              page' = [page EXCEPT ![ReleaseOf(i)].files =
                  restrict(@, DOMAIN @ \ ofKinds(job[i].files, {kind}))]
    /\ UNCHANGED <<workflow, tag, attempt, artifacts, attested>>

RunOver == \A i \in Instances : Final(i)
Green == \A i \in Instances : Ok(i)

Rerun(again) ==
    /\ RunOver /\ ~Green
    /\ attempt < MaxAttempts
    /\ attempt' = attempt + 1
    /\ job' = [i \in Instances |-> IF i \in again THEN queued ELSE job[i]]
    /\ failedNow' = FALSE
    /\ UNCHANGED <<workflow, tag, artifacts, attested, page, failures>>

RerunFailed == Rerun({i \in Instances : ~Ok(i)})
RerunAll == Rerun(Instances)

RunStep(i) ==
    \/ Start(i)
    \/ Skip(i)
    \/ Setup(i)
    \/ emit_version(i)
    \/ PackageBinary(i)
    \/ PackageSource(i)
    \/ Upload(i)
    \/ Download(i)
    \/ Attest(i)
    \/ OpenPage(i)
    \/ UploadAssets(i)
    \/ PageDone(i)
    \/ Smoke(i)

PipelineNext ==
    \/ \E i \in Instances : RunStep(i) \/ StepFails(i)
    \/ RerunFailed
    \/ RerunAll

-----------------------------------------------------------------------------
\* Published by this run: everything on the page but a file of another hand.
Published == restrict(page[tag.version].files, DOMAIN page[tag.version].files
                                                   \ {Stray})

\* A run that ends green has published exactly the files of the release, which
\* "release.py verify" would accept although no job runs it, marked as a
\* prerelease if the version is one, whatever failed and was re-run before and
\* however little the smoke script checks.  That nothing else is on the page is
\* up to the script alone: the audit makes sure that it lists the expected
\* assets, not that it acts on a difference.
GreenIsWhole ==
    Green =>
        /\ DOMAIN Published = names(tag.version, Platforms)
        /\ verify_assets(Published, tag.version, Platforms)
        /\ page[tag.version].prerelease = tag.prerelease
        /\ Counts("expected_assets") => Stray \notin DOMAIN page[tag.version].files

\* Even when the run fails afterwards, what is on the page was built for the
\* tag: every file has its version, a binary archive runs on the platform of
\* its name, the source is of the tagged commit, and no page of another
\* version is touched.
PublishedIsOfTheTag ==
    /\ \A n \in DOMAIN Published : n.v = tag.version
    /\ \A p \in Platforms :
           Archive(tag.version, p) \in DOMAIN Published =>
               Published[Archive(tag.version, p)].tree.arch = p
    /\ Source(tag.version) \in DOMAIN Published =>
           Published[Source(tag.version)].tree.id = "tagged"
    /\ \A v \in Pages \ {tag.version} : page[v].files = NoFiles

\* No archive is on the page, at any moment, without an attestation of the
\* very content that is served.
PublishedIsAttested ==
    \A n \in ofKinds(Published, {"tar.gz", "tar.xz"}) :
        Published[n] \in attested

\* A step changes the page only when the tag parses and every build and the
\* source of the run succeeded: no release with a platform missing.
PublishesComplete ==
    [][page' # page =>
           /\ tag.parses
           /\ \A i \in Instances : i[1] \in {"build", "source"} => Ok(i)
      ]_pipelineVars

\* A run that is over, in whose last attempt no step failed by accident, is
\* green if the tag parses and nobody else wrote on the page: a re-run, of
\* the failed jobs or of all, repairs what failures left behind.
UndisturbedIsGreen ==
    /\ RunOver /\ ~failedNow
    /\ tag.parses
    /\ Stray \notin DOMAIN page[tag.version].files
    => Green

=============================================================================
