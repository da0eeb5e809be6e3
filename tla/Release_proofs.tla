--------------------------- MODULE Release_proofs ---------------------------
(***************************************************************************)
(* What holds of release.py and of the release workflow for every set of   *)
(* platforms, versions, tags and builds, and any number of commands,       *)
(* failures and re-runs.                                                   *)
(***************************************************************************)
EXTENDS Release, TLAPS

-----------------------------------------------------------------------------
(* The invariants of the workflow                                          *)

SourceJob == <<"source", "any">>
ReleaseJob == <<"release", "any">>

\* The job has passed the first k steps.
Passed(i, k) == job[i].status \in {"running", "ok"} /\ job[i].step > k

\* The fields of a job are all there, and it is at one of its steps.
IsJob(r) ==
    r = [status |-> r.status, step |-> r.step, attempt |-> r.attempt,
         version |-> r.version, files |-> r.files, todo |-> r.todo]

JobsInv ==
    /\ workflow \in Candidates /\ audit(workflow) /\ tag \in Tags
    /\ attempt \in Nat
    /\ job = [i \in Instances |-> job[i]]
    /\ \A i \in Instances :
          /\ IsJob(job[i])
          /\ job[i].status \in {"queued", "running", "ok", "failed", "skipped", "cancelled"}
          /\ job[i].status = "running" =>
                /\ job[i].step \in 1..Len(expected_steps[i[1]])
                /\ job[i].attempt = attempt
          /\ job[i].status = "ok" => job[i].step = Len(expected_steps[i[1]])
          /\ job[i].status = "running" /\ job[i].todo # {} =>
                i = ReleaseJob /\ job[i].step = 5 /\ "end" \in job[i].todo

\* A job that runs, or has succeeded, waited for those it needs.
NeedsInv ==
    /\ job[ReleaseJob].status \in {"running", "ok"} =>
          \A i \in Instances : i[1] \in {"build", "source"} => Ok(i)
    /\ \A i \in Instances : i[1] = "smoke" /\ job[i].status \in {"running", "ok"} =>
          Ok(ReleaseJob)

\* The place of the version step in a job.
VersionAt == [build |-> 4, source |-> 2, release |-> 3, smoke |-> 3]

VersionInv ==
    \A i \in Instances : Passed(i, VersionAt[i[1]]) =>
        tag.parses /\ job[i].version = tag.version

\* What a build of the platform in an attempt packages, and the source job.
BinaryFiles(v, p, k) ==
    LET tree == Tree(<<k, p>>, p, v)
        archive == archiveOf(tree, <<v, p>>)
    IN  [n \in {Archive(v, p), Sidecar(Archive(v, p)), Sbom(v, p)} |->
            CASE n = Archive(v, p) -> archive
              [] n = Sidecar(Archive(v, p)) -> sumOf(archive, Archive(v, p))
              [] n = Sbom(v, p) -> sbomOf(tree, <<v, p>>)]

SourceFiles(v) ==
    LET archive == archiveOf([id |-> "tagged", climbs |-> FALSE], v)
    IN  [n \in {Source(v), Sidecar(Source(v))} |->
            IF n = Source(v) THEN archive ELSE sumOf(archive, Source(v))]

FilesInv ==
    /\ \A p \in Platforms : Passed(<<"build", p>>, 6) =>
          job[<<"build", p>>].files = BinaryFiles(tag.version, p, job[<<"build", p>>].attempt)
    /\ Passed(SourceJob, 3) => job[SourceJob].files = SourceFiles(tag.version)
    /\ Passed(ReleaseJob, 2) => job[ReleaseJob].files = Downloaded

\* What is handed over, and that it is there once a job has succeeded.
ArtifactsInv ==
    /\ DOMAIN artifacts \subseteq Platforms \cup {"source"}
    /\ \A a \in DOMAIN artifacts : artifacts[a].attempt \in Nat
    /\ \A p \in Platforms \cap DOMAIN artifacts :
          artifacts[p].files = BinaryFiles(tag.version, p, artifacts[p].attempt)
    /\ "source" \in DOMAIN artifacts => artifacts["source"].files = SourceFiles(tag.version)
    /\ \A p \in Platforms : Ok(<<"build", p>>) => p \in DOMAIN artifacts
    /\ Ok(SourceJob) => "source" \in DOMAIN artifacts

\* A name of the release, and contents that are right for it.
Suits(n, c) ==
    /\ n \in names(tag.version, Platforms)
    /\ n.kind = "tar.gz" => c.tree.arch = n.p
    /\ n.kind = "tar.xz" => c.tree.id = "tagged"

PageInv ==
    /\ page = [v \in Pages |-> [files |-> page[v].files, prerelease |-> page[v].prerelease]]
    /\ \A v \in Pages \ {tag.version} : page[v].files = NoFiles
    /\ \A n \in DOMAIN Published : Suits(n, Published[n])

AttestedInv ==
    /\ Passed(ReleaseJob, 4) =>
          \A n \in ofKinds(job[ReleaseJob].files, {"tar.gz", "tar.xz"}) :
              job[ReleaseJob].files[n] \in attested
    /\ PublishedIsAttested

\* While the release is made, the kinds that are done are on the page as they
\* were downloaded; in the end all are.
Uploaded(n) ==
    /\ n \in DOMAIN page[tag.version].files
    /\ page[tag.version].files[n] = job[ReleaseJob].files[n]

UploadedInv ==
    /\ job[ReleaseJob].status = "running" /\ job[ReleaseJob].todo # {} =>
          /\ page[tag.version].prerelease = tag.prerelease
          /\ \A n \in DOMAIN job[ReleaseJob].files :
                n.kind \notin job[ReleaseJob].todo => Uploaded(n)
    /\ Ok(ReleaseJob) =>
          /\ page[tag.version].prerelease = tag.prerelease
          /\ \A n \in DOMAIN job[ReleaseJob].files : Uploaded(n)

SmokedInv ==
    \A p \in Platforms : Ok(<<"smoke", p>>) /\ Counts("expected_assets") =>
        DOMAIN page[tag.version].files = names(tag.version, Platforms)

\* An artifact of this attempt is of a job that has uploaded it.
FreeNames ==
    /\ \A a \in DOMAIN artifacts : artifacts[a].attempt <= attempt
    /\ \A p \in Platforms \cap DOMAIN artifacts :
          job[<<"build", p>>].status \in {"queued", "running"} => artifacts[p].attempt < attempt
    /\ "source" \in DOMAIN artifacts /\ job[SourceJob].status \in {"queued", "running"} =>
          artifacts["source"].attempt < attempt

Undisturbed ==
    /\ ~failedNow /\ tag.parses
    /\ Stray \notin DOMAIN page[tag.version].files

CleanInv ==
    Undisturbed => \A i \in Instances : job[i].status \in {"queued", "running", "ok"}

-----------------------------------------------------------------------------
(* What the audit makes sure of                                            *)

\* The fields of an accepted candidate that the run of its workflow depends on.
LEMMA Accepted ==
    ASSUME JobsInv
    PROVE  /\ workflow.steps = expected_steps
           /\ workflow.needs["release"] = {"build", "source"}
           /\ workflow.needs["smoke"] = {"release"}
           /\ workflow.buildOn = [p \in Platforms |-> p]
           /\ workflow.smokeOn = [p \in Platforms |-> p]
           /\ \A j \in Jobs : workflow.versionFrom[j] = "tag"
           /\ workflow.artifact["build"] = "per platform"
           /\ workflow.artifact["source"] = "source"
           /\ workflow.merge
           /\ workflow.subjects = {"tar.gz", "tar.xz"}
           /\ "tag_name" \notin workflow.inputs
           /\ workflow.files = {"tar.gz", "tar.xz", "gz.sha256", "xz.sha256", "sbom"}
           /\ workflow.prerelease = "parsed"
           /\ workflow.token["release"] = releaseToken
           /\ workflow.smokeScript = "release-smoke.py"
           /\ workflow.manifest = Platforms
           /\ workflow.packager.argv["package_source"] = "git archive HEAD"
           /\ {"write_checksum", "write_sbom"} \subseteq workflow.packager.calls["package_binary"]
           /\ SmokeChecks \subseteq workflow.smoke.calls
<1>1. audit_release_workflow(workflow) /\ audit_packager(workflow) /\ audit_smoke_source(workflow)
  BY DEF JobsInv, audit
<1>2. /\ AuditPermissions(workflow) /\ AuditNeeds(workflow) /\ AuditMatrix(workflow)
      /\ AuditSteps(workflow) /\ AuditVersion(workflow) /\ AuditArtifacts(workflow)
      /\ AuditAttestation(workflow) /\ AuditCreate(workflow) /\ AuditSmokeStep(workflow)
  BY <1>1 DEF audit_release_workflow
<1>3. /\ workflow.steps = expected_steps
      /\ workflow.needs["release"] = {"build", "source"}
      /\ workflow.needs["smoke"] = {"release"}
      /\ workflow.buildOn = [p \in Platforms |-> p]
      /\ workflow.smokeOn = [p \in Platforms |-> p]
      /\ \A j \in Jobs : workflow.versionFrom[j] = "tag"
      /\ workflow.subjects = {"tar.gz", "tar.xz"}
      /\ workflow.token["release"] = releaseToken
      /\ workflow.smokeScript = "release-smoke.py"
  BY <1>2 DEF AuditSteps, AuditNeeds, AuditMatrix, AuditVersion, AuditAttestation,
              AuditPermissions, AuditSmokeStep
<1>4. /\ workflow.artifact["build"] = "per platform"
      /\ workflow.artifact["source"] = "source"
      /\ workflow.merge
  BY <1>2 DEF AuditArtifacts
<1>5. /\ "tag_name" \notin workflow.inputs
      /\ workflow.files = {"tar.gz", "tar.xz", "gz.sha256", "xz.sha256", "sbom"}
      /\ workflow.prerelease = "parsed"
  BY <1>2 DEF AuditCreate
<1>6. /\ workflow.manifest = Platforms
      /\ workflow.packager.argv["package_source"] = "git archive HEAD"
      /\ {"write_checksum", "write_sbom"} \subseteq workflow.packager.calls["package_binary"]
  <2>1. workflow.manifest = Platforms /\ workflow.packager.argv = allowed_packager_argv
    BY <1>1 DEF audit_packager, audit_process_execution
  <2>2. expected_calls["package_binary"] \subseteq workflow.packager.calls["package_binary"]
    BY <1>1 DEF audit_packager, expected_calls
  <2>3. {"write_checksum", "write_sbom"} \subseteq expected_calls["package_binary"]
    BY DEF expected_calls
  <2>4. allowed_packager_argv["package_source"] = "git archive HEAD"
    BY DEF allowed_packager_argv
  <2>5. workflow.packager.argv["package_source"] = "git archive HEAD"
    BY <2>1, <2>4
  <2> QED BY <2>1, <2>2, <2>3, <2>5
<1>7. SmokeChecks \subseteq workflow.smoke.calls
  BY <1>1 DEF audit_smoke_source
<1> QED BY <1>3, <1>4, <1>5, <1>6, <1>7

\* A build, and a smoke test, runs on a machine of its platform.
LEMMA Runners ==
    ASSUME JobsInv
    PROVE  \A p \in Platforms : workflow.buildOn[p] = p /\ workflow.smokeOn[p] = p
<1>1. workflow.buildOn = [p \in Platforms |-> p] /\ workflow.smokeOn = [p \in Platforms |-> p]
  BY Accepted
<1> QED BY <1>1

-----------------------------------------------------------------------------
(* Jobs                                                                    *)

\* The instances of the jobs.
LEMMA Kinds ==
    /\ SourceJob \in Instances /\ SourceJob[1] = "source"
    /\ ReleaseJob \in Instances /\ ReleaseJob[1] = "release"
    /\ \A p \in Platforms : /\ <<"build", p>> \in Instances
                            /\ <<"smoke", p>> \in Instances
    /\ \A i \in Instances :
          \/ i = SourceJob \/ i = ReleaseJob
          \/ i[1] \in {"build", "smoke"} /\ i[2] \in Platforms /\ i = <<i[1], i[2]>>
    /\ \A i \in Instances : i[1] \in Jobs
    /\ \A i \in Instances : i[1] = "source" => i = SourceJob
    /\ \A i \in Instances : i[1] = "release" => i = ReleaseJob
  BY DEF Instances, SourceJob, ReleaseJob, Jobs

\* Which step a job is at tells which job it is and how far it has come.
LEMMA Places ==
    ASSUME JobsInv, NEW i \in Instances, job[i].status = "running"
    PROVE  LET k == job[i].step IN
           /\ At(i, "version") <=> k = VersionAt[i[1]]
           /\ At(i, "binary") <=> i[1] = "build" /\ k = 6
           /\ At(i, "source") <=> i[1] = "source" /\ k = 3
           /\ At(i, "upload") <=> \/ i[1] = "build" /\ k = 7
                                  \/ i[1] = "source" /\ k = 4
           /\ At(i, "download") <=> i[1] = "release" /\ k = 2
           /\ At(i, "attest") <=> i[1] = "release" /\ k = 4
           /\ At(i, "create") <=> i[1] = "release" /\ k = 5
           /\ At(i, "smoke") <=> i[1] = "smoke" /\ k = 4
<1>1. i[1] \in Jobs /\ job[i].step \in 1..Len(expected_steps[i[1]])
  BY Kinds DEF JobsInv
<1>2. \A s : At(i, s) <=> expected_steps[i[1]][job[i].step] = s
  BY Accepted DEF At
<1>3. CASE i[1] = "build"
  <2>1. expected_steps[i[1]] = <<"checkout", "zig", "cache", "version", "build", "binary",
                                 "upload">>
    BY <1>3 DEF expected_steps
  <2> QED BY <1>1, <1>2, <1>3, <2>1 DEF VersionAt
<1>4. CASE i[1] = "source"
  <2>1. expected_steps[i[1]] = <<"checkout", "version", "source", "upload">>
    BY <1>4 DEF expected_steps
  <2> QED BY <1>1, <1>2, <1>4, <2>1 DEF VersionAt
<1>5. CASE i[1] = "release"
  <2>1. expected_steps[i[1]] = <<"checkout", "download", "version", "attest", "create">>
    BY <1>5 DEF expected_steps
  <2> QED BY <1>1, <1>2, <1>5, <2>1 DEF VersionAt
<1>6. CASE i[1] = "smoke"
  <2>1. expected_steps[i[1]] = <<"checkout", "ghr", "version", "smoke">>
    BY <1>6 DEF expected_steps
  <2> QED BY <1>1, <1>2, <1>6, <2>1 DEF VersionAt
<1> QED BY <1>1, <1>3, <1>4, <1>5, <1>6 DEF Jobs

\* The step of a job ends well: it moves on, or the job has succeeded.
LEMMA Advances ==
    ASSUME JobsInv, NEW i \in Instances, NEW r, IsJob(r), r.step \in Nat, Advance(i, r)
    PROVE  /\ job' = [k \in Instances |-> job'[k]]
           /\ \A k \in Instances \ {i} : job'[k] = job[k]
           /\ IsJob(job'[i])
           /\ job'[i].files = r.files /\ job'[i].version = r.version
           /\ job'[i].todo = r.todo /\ job'[i].attempt = r.attempt
           /\ IF r.step = Len(expected_steps[i[1]])
              THEN job'[i].status = "ok" /\ job'[i].step = r.step
              ELSE job'[i].status = r.status /\ job'[i].step = r.step + 1
<1> DEFINE atEnd == r.step = Len(expected_steps[i[1]])
           q == IF atEnd THEN [r EXCEPT !.status = "ok"] ELSE [r EXCEPT !.step = @ + 1]
<1>1. job' = [job EXCEPT ![i] = q]
  BY Accepted DEF Advance
<1>2. /\ atEnd => q = [status |-> "ok", step |-> r.step, attempt |-> r.attempt,
                      version |-> r.version, files |-> r.files, todo |-> r.todo]
      /\ ~atEnd => q = [status |-> r.status, step |-> r.step + 1, attempt |-> r.attempt,
                       version |-> r.version, files |-> r.files, todo |-> r.todo]
  BY DEF IsJob
<1> HIDE DEF q, atEnd
<1>3. job' = [k \in Instances |-> IF k = i THEN q ELSE job[k]]
  BY <1>1 DEF JobsInv
<1>4. job'[i] = q /\ \A k \in Instances \ {i} : job'[k] = job[k]
  BY <1>3
<1>5. job' = [k \in Instances |-> job'[k]]
  BY <1>3
<1> QED BY <1>2, <1>4, <1>5 DEF IsJob, atEnd

\* The step fails: other jobs of a matrix may be cancelled, and no job gets
\* another field changed.
LEMMA Fails ==
    ASSUME JobsInv, NEW i \in Instances, Fail(i)
    PROVE  /\ job' = [k \in Instances |-> job'[k]]
           /\ job'[i].status = "failed"
           /\ \A k \in Instances :
                 /\ IsJob(job'[k])
                 /\ \/ job'[k] = job[k]
                    \/ job'[k].status \in {"failed", "cancelled"} /\ (k = i \/ ~Final(k))
<1> DEFINE q(k) == IF k = i THEN [job[i] EXCEPT !.status = "failed"]
                   ELSE IF workflow.failFast /\ k[1] = i[1] /\ ~Final(k)
                        THEN [job[k] EXCEPT !.status = "cancelled"]
                        ELSE job[k]
<1>1. job' = [k \in Instances |-> q(k)]
  BY DEF Fail
<1>2. ASSUME NEW k \in Instances, NEW s
      PROVE  LET r == [job[k] EXCEPT !.status = s] IN IsJob(r) /\ r.status = s
  <2>1. IsJob(job[k])
    BY DEF JobsInv
  <2>2. [job[k] EXCEPT !.status = s] =
           [status |-> s, step |-> job[k].step, attempt |-> job[k].attempt,
            version |-> job[k].version, files |-> job[k].files, todo |-> job[k].todo]
    BY <2>1 DEF IsJob
  <2> QED BY <2>2 DEF IsJob
<1>3. \A k \in Instances : IsJob(job[k])
  BY DEF JobsInv
<1>4. /\ q(i).status = "failed" /\ IsJob(q(i))
      /\ \A k \in Instances :
            /\ IsJob(q(k))
            /\ \/ q(k) = job[k]
               \/ q(k).status \in {"failed", "cancelled"} /\ (k = i \/ ~Final(k))
  BY <1>2, <1>3, Zenon
<1> HIDE DEF q
<1>5. \A k \in Instances : job'[k] = q(k)
  BY <1>1
<1>6. job' = [k \in Instances |-> job'[k]]
  BY <1>1
<1> QED BY <1>4, <1>5, <1>6, Zenon

\* What packaging leaves, written out.
LEMMA PackagesBinary ==
    ASSUME JobsInv, NEW p \in Platforms, NEW i \in Instances, i = <<"build", p>>
    PROVE  PackagedBinary(i) = BinaryFiles(job[i].version, p, job[i].attempt)
<1> DEFINE v == job[i].version
           a == Archive(v, p)
           s == Sidecar(Archive(v, p))
           b == Sbom(v, p)
           tree == Tree(<<job[i].attempt, p>>, p, v)
           archive == archiveOf(tree, <<v, p>>)
<1>1. BuiltTree(i) = tree /\ i[2] = p
  <2>1. i[2] = p
    OBVIOUS
  <2>2. workflow.buildOn[i[2]] = p
    BY <2>1, Runners
  <2> QED BY <2>1, <2>2 DEF BuiltTree
<1>2. a # s /\ a # b /\ s # b
  BY DEF Archive, Sidecar, Sbom, nameOf
<1>3. {"write_checksum", "write_sbom"} \subseteq workflow.packager.calls["package_binary"]
  BY Accepted
<1>4. PackagedBinary(i) =
         restrict(store(store(store(NoFiles, a, archive), s, sumOf(archive, a)), b,
                        sbomOf(tree, <<v, p>>)), {a} \cup {s} \cup {b})
  BY <1>1, <1>3 DEF PackagedBinary, write_sbom
<1>5. BinaryFiles(v, p, job[i].attempt) =
         [n \in {a, s, b} |-> CASE n = a -> archive
                                [] n = s -> sumOf(archive, a)
                                [] n = b -> sbomOf(tree, <<v, p>>)]
  BY DEF BinaryFiles
<1> HIDE DEF a, s, b, tree, archive
<1>6. restrict(store(store(store(NoFiles, a, archive), s, sumOf(archive, a)), b,
                     sbomOf(tree, <<v, p>>)), {a} \cup {s} \cup {b})
         = [n \in {a, s, b} |-> CASE n = a -> archive
                                  [] n = s -> sumOf(archive, a)
                                  [] n = b -> sbomOf(tree, <<v, p>>)]
  BY <1>2 DEF restrict, store, NoFiles
<1> QED BY <1>4, <1>5, <1>6

LEMMA PackagesSource ==
    ASSUME NEW v
    PROVE  LET archive == archiveOf([id |-> "tagged", climbs |-> FALSE], v)
           IN  store(store(NoFiles, Source(v), archive), Sidecar(Source(v)),
                     sumOf(archive, Source(v))) = SourceFiles(v)
<1>1. Source(v) # Sidecar(Source(v))
  BY DEF Source, Sidecar, nameOf
<1> QED BY <1>1 DEF store, NoFiles, SourceFiles

\* What a step of the workflow does to the job that takes it: start it, let it
\* go on, or go on with the release page.
Begins(k) ==
    /\ job[k].status = "queued" /\ job'[k].status = "running"
    /\ job'[k].step = 1 /\ job'[k].attempt = attempt /\ job'[k].todo = {}
    /\ \A j \in Needed(k) : Ok(j)

Moves(k) ==
    /\ job[k].status = "running"
    /\ IF job[k].step = Len(expected_steps[k[1]])
       THEN job'[k].status = "ok" /\ job'[k].step = job[k].step
       ELSE job'[k].status = "running" /\ job'[k].step = job[k].step + 1
    /\ job'[k].attempt = job[k].attempt /\ job'[k].todo = {}
    /\ IF At(k, "version") THEN tag.parses /\ job'[k].version = tag.version
       ELSE job'[k].version = job[k].version
    /\ job'[k].files = IF At(k, "binary") THEN PackagedBinary(k)
                       ELSE IF At(k, "source") THEN SourceFiles(job[k].version)
                       ELSE IF At(k, "download") THEN Downloaded
                       ELSE job[k].files

Publishes(k) ==
    /\ k = ReleaseJob /\ At(k, "create")
    /\ job'[k].status = "running" /\ job'[k].step = job[k].step
    /\ job'[k].attempt = job[k].attempt /\ job'[k].version = job[k].version
    /\ job'[k].files = job[k].files

\* The steps by their effect on everything.
OnlyJob(k) ==
    /\ job' = [j \in Instances |-> job'[j]]
    /\ IsJob(job'[k])
    /\ \A j \in Instances \ {k} : job'[j] = job[j]

Starting(k) ==
    Begins(k) /\ OnlyJob(k) /\ Kept /\ UNCHANGED <<artifacts, attested, page>>

Skipping(k) ==
    /\ job[k].status = "queued" /\ job'[k].status = "skipped" /\ OnlyJob(k)
    /\ \E j \in Needed(k) : Final(j) /\ ~Ok(j)
    /\ Kept /\ UNCHANGED <<artifacts, attested, page>>

Going(k) ==
    /\ Moves(k) /\ OnlyJob(k) /\ Kept /\ UNCHANGED page
    /\ artifacts' = IF At(k, "upload")
                    THEN store(artifacts, artifactName(k),
                               [attempt |-> job[k].attempt, files |-> job[k].files])
                    ELSE artifacts
    /\ attested' = IF At(k, "attest")
                   THEN attested \cup {job[k].files[n] :
                                         n \in ofKinds(job[k].files, {"tar.gz", "tar.xz"})}
                   ELSE attested
    /\ At(k, "create") => job[k].todo = {"end"}
    /\ At(k, "smoke") => run_smoke(k)

Opening(k) ==
    /\ Publishes(k) /\ OnlyJob(k) /\ Kept /\ UNCHANGED <<artifacts, attested>>
    /\ job'[k].todo = workflow.files \cup {"end"}
    /\ page' = [page EXCEPT ![tag.version].prerelease = tag.prerelease]

Uploading(k) ==
    /\ Publishes(k) /\ OnlyJob(k) /\ Kept /\ UNCHANGED <<artifacts, attested>>
    /\ \E kind \in job[k].todo \ {"end"} :
          /\ job'[k].todo = job[k].todo \ {kind}
          /\ page' = [page EXCEPT ![tag.version].files =
                         over(@, restrict(job[k].files, ofKinds(job[k].files, {kind})))]

Failing(k) ==
    /\ job[k].status = "running" /\ Fail(k)
    /\ UNCHANGED <<workflow, tag, attempt, artifacts, attested>>
    /\ \/ page' = page
       \/ \E kind \in job[k].todo \ {"end"} :
             page' = [page EXCEPT ![tag.version].files =
                         restrict(@, DOMAIN @ \ ofKinds(job[k].files, {kind}))]

\* Why a step that is not made to fail does.
Because(k) ==
    \/ ~tag.parses
    \/ /\ At(k, "upload") /\ artifactName(k) \in DOMAIN artifacts
       /\ artifacts[artifactName(k)].attempt = job[k].attempt
    \/ At(k, "attest") /\ ofKinds(job[k].files, {"tar.gz", "tar.xz"}) = {}
    \/ At(k, "smoke") /\ ~run_smoke(k)

Rerunning ==
    /\ RunOver /\ attempt' = attempt + 1 /\ failedNow' = FALSE
    /\ UNCHANGED <<workflow, tag, artifacts, attested, page>>
    /\ \E again \in {Instances, {i \in Instances : ~Ok(i)}} :
          job' = [i \in Instances |-> IF i \in again THEN queued ELSE job[i]]

-----------------------------------------------------------------------------
(* Every step has one of these effects                                     *)

\* The job goes on with this version and these files.
LEMMA GoesOn ==
    ASSUME JobsInv, NEW k \in Instances, job[k].status = "running", NEW v, NEW f, NEW r,
           r = [status |-> job[k].status, step |-> job[k].step, attempt |-> job[k].attempt,
                version |-> v, files |-> f, todo |-> {}],
           Advance(k, r)
    PROVE  /\ OnlyJob(k)
           /\ IF job[k].step = Len(expected_steps[k[1]])
              THEN job'[k].status = "ok" /\ job'[k].step = job[k].step
              ELSE job'[k].status = "running" /\ job'[k].step = job[k].step + 1
           /\ job'[k].attempt = job[k].attempt /\ job'[k].todo = {}
           /\ job'[k].version = v /\ job'[k].files = f
<1>1. IsJob(r)
  BY DEF IsJob
<1>2. r.step \in Nat
  BY Kinds DEF JobsInv
<1>3. /\ job' = [j \in Instances |-> job'[j]]
      /\ \A j \in Instances \ {k} : job'[j] = job[j]
      /\ IsJob(job'[k])
      /\ job'[k].files = r.files /\ job'[k].version = r.version
      /\ job'[k].todo = r.todo /\ job'[k].attempt = r.attempt
      /\ IF r.step = Len(expected_steps[k[1]])
         THEN job'[k].status = "ok" /\ job'[k].step = r.step
         ELSE job'[k].status = r.status /\ job'[k].step = r.step + 1
  BY <1>1, <1>2, Advances
<1> QED BY <1>3 DEF OnlyJob

\* A job's record with one of its fields replaced.
LEMMA Rewritten ==
    ASSUME JobsInv, NEW k \in Instances, NEW x
    PROVE  /\ job[k] = [status |-> job[k].status, step |-> job[k].step,
                        attempt |-> job[k].attempt, version |-> job[k].version,
                        files |-> job[k].files, todo |-> job[k].todo]
           /\ [job[k] EXCEPT !.status = x] =
                       [status |-> x, step |-> job[k].step,
                        attempt |-> job[k].attempt, version |-> job[k].version,
                        files |-> job[k].files, todo |-> job[k].todo]
           /\ [job[k] EXCEPT !.version = x] =
                       [status |-> job[k].status, step |-> job[k].step,
                        attempt |-> job[k].attempt, version |-> x,
                        files |-> job[k].files, todo |-> job[k].todo]
           /\ [job[k] EXCEPT !.files = x] =
                       [status |-> job[k].status, step |-> job[k].step,
                        attempt |-> job[k].attempt, version |-> job[k].version,
                        files |-> x, todo |-> job[k].todo]
           /\ [job[k] EXCEPT !.todo = x] =
                       [status |-> job[k].status, step |-> job[k].step,
                        attempt |-> job[k].attempt, version |-> job[k].version,
                        files |-> job[k].files, todo |-> x]
<1>1. IsJob(job[k])
  BY DEF JobsInv
<1> QED BY <1>1 DEF IsJob

\* The record of one job is replaced.
LEMMA Replaced ==
    ASSUME JobsInv, NEW k \in Instances, NEW r, IsJob(r), job' = [job EXCEPT ![k] = r]
    PROVE  job'[k] = r /\ OnlyJob(k)
<1>1. job' = [j \in Instances |-> IF j = k THEN r ELSE job[j]]
  BY DEF JobsInv
<1>2. job'[k] = r
  BY <1>1
<1>3. \A j \in Instances \ {k} : job'[j] = job[j]
  BY <1>1
<1>4. job' = [j \in Instances |-> job'[j]]
  BY <1>1
<1> QED BY <1>2, <1>3, <1>4 DEF OnlyJob

LEMMA Starts ==
    ASSUME JobsInv, NEW k \in Instances, Start(k)
    PROVE  Starting(k)
<1> DEFINE r == fresh("running", 1, attempt)
<1>1. IsJob(r) /\ r.status = "running" /\ r.step = 1 /\ r.attempt = attempt /\ r.todo = {}
  BY DEF fresh, IsJob
<1>2. job' = [job EXCEPT ![k] = r]
  BY DEF Start
<1> HIDE DEF r
<1>3. job'[k] = r /\ OnlyJob(k)
  BY <1>1, <1>2, Replaced
<1>4. Begins(k)
  BY <1>1, <1>3 DEF Begins, Start
<1> QED BY <1>3, <1>4 DEF Starting, Start

LEMMA Skips ==
    ASSUME JobsInv, NEW k \in Instances, Skip(k)
    PROVE  Skipping(k)
<1> DEFINE r == [job[k] EXCEPT !.status = "skipped"]
<1>1. IsJob(r) /\ r.status = "skipped"
  BY Rewritten DEF IsJob
<1>2. job' = [job EXCEPT ![k] = r]
  BY DEF Skip
<1> HIDE DEF r
<1>3. job'[k] = r /\ OnlyJob(k)
  BY <1>1, <1>2, Replaced
<1> QED BY <1>1, <1>3 DEF Skipping, Skip

\* A job is at one step, which its place in the list of steps determines.
LEMMA OneStep ==
    ASSUME JobsInv, NEW k \in Instances, NEW s, At(k, s)
    PROVE  /\ job[k].status = "running"
           /\ \A t : At(k, t) <=> t = s
           /\ s # "create" => job[k].todo = {}
<1>1. job[k].status = "running" /\ \A t : At(k, t) <=> t = s
  BY DEF At
<1>2. ASSUME s # "create" PROVE job[k].todo = {}
  <2>1. ~At(k, "create")
    BY <1>1, <1>2
  <2>2. ~(k[1] = "release" /\ job[k].step = 5)
    BY <1>1, <2>1, Places
  <2> QED BY <1>1, <2>2, Kinds DEF JobsInv
<1> QED BY <1>1, <1>2

LEMMA SetsUp ==
    ASSUME JobsInv, NEW k \in Instances, Setup(k)
    PROVE  Going(k)
<1>1. PICK s \in {"checkout", "zig", "cache", "build", "ghr", "sign"} : At(k, s)
  BY DEF Setup
<1>2. /\ job[k].status = "running" /\ job[k].todo = {} /\ s # "create"
      /\ \A t : At(k, t) <=> t = s
  BY <1>1, OneStep
<1>3. job[k] = [status |-> job[k].status, step |-> job[k].step, attempt |-> job[k].attempt,
                version |-> job[k].version, files |-> job[k].files, todo |-> {}]
  BY <1>2, Rewritten
<1>4. Advance(k, job[k])
  BY DEF Setup
<1>5. Moves(k) /\ OnlyJob(k)
  BY <1>2, <1>3, <1>4, GoesOn DEF Moves
<1> QED BY <1>2, <1>5 DEF Going, Setup

LEMMA EmitsVersion ==
    ASSUME JobsInv, NEW k \in Instances, emit_version(k)
    PROVE  Going(k) \/ (~tag.parses /\ Failing(k))
<1>1. At(k, "version")
  BY DEF emit_version
<1>2. /\ job[k].status = "running" /\ job[k].todo = {}
      /\ \A t : At(k, t) <=> t = "version"
  BY <1>1, OneStep
<1>3. workflow.versionFrom[k[1]] = "tag"
  BY Accepted, Kinds
<1>r. IsJob(job[k])
  BY DEF JobsInv
<1>4. CASE tag.parses
  <2>1. Advance(k, [job[k] EXCEPT !.version = tag.version])
    BY <1>3, <1>4 DEF emit_version
  <2>2. [job[k] EXCEPT !.version = tag.version] =
           [status |-> job[k].status, step |-> job[k].step, attempt |-> job[k].attempt,
            version |-> tag.version, files |-> job[k].files, todo |-> {}]
    BY <1>2, <1>r DEF IsJob
  <2>3. Moves(k) /\ OnlyJob(k)
    BY <1>2, <1>4, <2>1, <2>2, GoesOn DEF Moves
  <2> QED BY <1>2, <2>3 DEF Going, emit_version
<1>5. CASE ~tag.parses
  BY <1>2, <1>3, <1>5 DEF emit_version, Failing, Kept
<1> QED BY <1>4, <1>5

LEMMA PackagesB ==
    ASSUME JobsInv, NEW k \in Instances, PackageBinary(k)
    PROVE  Going(k)
<1>1. At(k, "binary")
  BY DEF PackageBinary
<1>2. /\ job[k].status = "running" /\ job[k].todo = {}
      /\ \A t : At(k, t) <=> t = "binary"
  BY <1>1, OneStep
<1>3. k[1] = "build" /\ k[2] \in Platforms
  BY <1>1, <1>2, Places, Kinds DEF SourceJob, ReleaseJob
<1>4. workflow.buildOn[k[2]] = k[2]
  BY <1>3, Runners
<1>5. Packageable(BuiltTree(k), job[k].version, workflow.buildOn[k[2]])
  BY <1>4 DEF Packageable, BuiltTree, Tree, verify_public_bin, Dirs
<1>6. Advance(k, [job[k] EXCEPT !.files = PackagedBinary(k)])
  BY <1>5 DEF PackageBinary
<1>7. [job[k] EXCEPT !.files = PackagedBinary(k)] =
         [status |-> job[k].status, step |-> job[k].step, attempt |-> job[k].attempt,
          version |-> job[k].version, files |-> PackagedBinary(k), todo |-> {}]
  BY <1>2, Rewritten
<1>8. Moves(k) /\ OnlyJob(k)
  BY <1>2, <1>6, <1>7, GoesOn DEF Moves
<1> QED BY <1>2, <1>8 DEF Going, PackageBinary

LEMMA PackagesS ==
    ASSUME JobsInv, NEW k \in Instances, PackageSource(k)
    PROVE  Going(k)
<1>1. At(k, "source")
  BY DEF PackageSource
<1>2. /\ job[k].status = "running" /\ job[k].todo = {}
      /\ \A t : At(k, t) <=> t = "source"
  BY <1>1, OneStep
<1> DEFINE v == job[k].version
           archive == archiveOf([id |-> "tagged", climbs |-> FALSE], v)
           files == store(store(NoFiles, Source(v), archive), Sidecar(Source(v)),
                          sumOf(archive, Source(v)))
<1>3. workflow.packager.argv["package_source"] = "git archive HEAD"
  BY Accepted
<1>4. Advance(k, [job[k] EXCEPT !.files = files])
  BY <1>3 DEF PackageSource
<1>5. files = SourceFiles(v)
  BY PackagesSource
<1> HIDE DEF files
<1>6. [job[k] EXCEPT !.files = files] =
         [status |-> job[k].status, step |-> job[k].step, attempt |-> job[k].attempt,
          version |-> job[k].version, files |-> files, todo |-> {}]
  BY <1>2, Rewritten
<1>7. Moves(k) /\ OnlyJob(k)
  BY <1>2, <1>4, <1>5, <1>6, GoesOn DEF Moves
<1> QED BY <1>2, <1>7 DEF Going, PackageSource

LEMMA Downloads ==
    ASSUME JobsInv, NEW k \in Instances, Download(k)
    PROVE  Going(k)
<1>1. At(k, "download")
  BY DEF Download
<1>2. /\ job[k].status = "running" /\ job[k].todo = {}
      /\ \A t : At(k, t) <=> t = "download"
  BY <1>1, OneStep
<1>3. Advance(k, [job[k] EXCEPT !.files = Downloaded])
  <2>1. workflow.merge
    BY Accepted
  <2> QED BY <2>1 DEF Download
<1>4. [job[k] EXCEPT !.files = Downloaded] =
         [status |-> job[k].status, step |-> job[k].step, attempt |-> job[k].attempt,
          version |-> job[k].version, files |-> Downloaded, todo |-> {}]
  BY <1>2, Rewritten
<1>5. Moves(k) /\ OnlyJob(k)
  BY <1>2, <1>3, <1>4, GoesOn DEF Moves
<1> QED BY <1>2, <1>5 DEF Going, Download

LEMMA Uploads ==
    ASSUME JobsInv, NEW k \in Instances, Upload(k)
    PROVE  \/ Going(k)
           \/ /\ Failing(k) /\ At(k, "upload")
              /\ artifactName(k) \in DOMAIN artifacts
              /\ artifacts[artifactName(k)].attempt = job[k].attempt
<1>1. At(k, "upload")
  BY DEF Upload
<1>2. /\ job[k].status = "running" /\ job[k].todo = {}
      /\ \A t : At(k, t) <=> t = "upload"
  BY <1>1, OneStep
<1> DEFINE taken == /\ artifactName(k) \in DOMAIN artifacts
                    /\ artifacts[artifactName(k)].attempt = job[k].attempt
<1>3. CASE taken
  BY <1>1, <1>2, <1>3 DEF Upload, Failing, Kept
<1>4. CASE ~taken
  <2>1. /\ artifacts' = store(artifacts, artifactName(k),
                              [attempt |-> job[k].attempt, files |-> job[k].files])
        /\ Advance(k, job[k])
    BY <1>4 DEF Upload
  <2>2. job[k] = [status |-> job[k].status, step |-> job[k].step, attempt |-> job[k].attempt,
                  version |-> job[k].version, files |-> job[k].files, todo |-> {}]
    BY <1>2, Rewritten
  <2>3. Moves(k) /\ OnlyJob(k)
    BY <1>2, <2>1, <2>2, GoesOn DEF Moves
  <2> QED BY <1>2, <2>1, <2>3 DEF Going, Upload
<1> QED BY <1>3, <1>4

LEMMA Attests ==
    ASSUME JobsInv, NEW k \in Instances, Attest(k)
    PROVE  \/ Going(k)
           \/ /\ Failing(k) /\ At(k, "attest")
              /\ ofKinds(job[k].files, {"tar.gz", "tar.xz"}) = {}
<1>1. At(k, "attest")
  BY DEF Attest
<1>2. /\ job[k].status = "running" /\ job[k].todo = {}
      /\ \A t : At(k, t) <=> t = "attest"
  BY <1>1, OneStep
<1>3. k[1] = "release"
  BY <1>1, <1>2, Places
<1>4. workflow.token["release"] = releaseToken /\ workflow.subjects = {"tar.gz", "tar.xz"}
  BY Accepted
<1>5. {"id-token", "attestations"} \subseteq Scopes(k)
  BY <1>3, <1>4 DEF Scopes, releaseToken
<1> DEFINE subjects == ofKinds(job[k].files, {"tar.gz", "tar.xz"})
<1>6. CASE subjects = {}
  BY <1>1, <1>2, <1>4, <1>6 DEF Attest, Failing, Kept
<1>7. CASE subjects # {}
  <2>1. /\ attested' = attested \cup {job[k].files[n] : n \in subjects}
        /\ Advance(k, job[k])
    BY <1>4, <1>5, <1>7 DEF Attest
  <2>2. job[k] = [status |-> job[k].status, step |-> job[k].step, attempt |-> job[k].attempt,
                  version |-> job[k].version, files |-> job[k].files, todo |-> {}]
    BY <1>2, Rewritten
  <2>3. Moves(k) /\ OnlyJob(k)
    BY <1>2, <2>1, <2>2, GoesOn DEF Moves
  <2> QED BY <1>2, <2>1, <2>3 DEF Going, Attest
<1> QED BY <1>6, <1>7

LEMMA TestsSmoke ==
    ASSUME JobsInv, NEW k \in Instances, Smoke(k)
    PROVE  Going(k) \/ (Failing(k) /\ At(k, "smoke") /\ ~run_smoke(k))
<1>1. At(k, "smoke")
  BY DEF Smoke
<1>2. /\ job[k].status = "running" /\ job[k].todo = {}
      /\ \A t : At(k, t) <=> t = "smoke"
  BY <1>1, OneStep
<1>3. workflow.smokeScript = "release-smoke.py"
  BY Accepted
<1>4. CASE run_smoke(k)
  <2>1. Advance(k, job[k])
    BY <1>4 DEF Smoke
  <2>2. job[k] = [status |-> job[k].status, step |-> job[k].step, attempt |-> job[k].attempt,
                  version |-> job[k].version, files |-> job[k].files, todo |-> {}]
    BY <1>2, Rewritten
  <2>3. Moves(k) /\ OnlyJob(k)
    BY <1>2, <2>1, <2>2, GoesOn DEF Moves
  <2> QED BY <1>2, <1>4, <2>3 DEF Going, Smoke
<1>5. CASE ~run_smoke(k)
  BY <1>1, <1>2, <1>3, <1>5 DEF Smoke, Failing, Kept
<1> QED BY <1>4, <1>5

\* The step that creates the release is the release job's.
LEMMA Creates ==
    ASSUME JobsInv, NEW k \in Instances, At(k, "create")
    PROVE  /\ k = ReleaseJob /\ job[k].status = "running" /\ job[k].step = 5
           /\ ReleaseOf(k) = tag.version
           /\ "contents" \in Scopes(k)
<1>1. job[k].status = "running"
  BY DEF At
<1>2. k[1] = "release" /\ job[k].step = 5
  BY <1>1, Places
<1>3. workflow.token["release"] = releaseToken /\ "tag_name" \notin workflow.inputs
  BY Accepted
<1> QED BY <1>1, <1>2, <1>3, Kinds DEF ReleaseOf, Scopes, releaseToken

LEMMA OpensPage ==
    ASSUME JobsInv, NEW k \in Instances, OpenPage(k)
    PROVE  Opening(k)
<1>1. /\ k = ReleaseJob /\ job[k].status = "running" /\ ReleaseOf(k) = tag.version
      /\ "contents" \in Scopes(k) /\ At(k, "create")
  BY Creates DEF OpenPage
<1>2. workflow.prerelease = "parsed" /\ tag.prerelease \in BOOLEAN
  BY Accepted, PipelineAssumption DEF JobsInv
<1>3. /\ page' = [page EXCEPT ![tag.version].prerelease = tag.prerelease]
      /\ job' = [job EXCEPT ![k] = [job[k] EXCEPT !.todo = workflow.files \cup {"end"}]]
  BY <1>1, <1>2 DEF OpenPage
<1> DEFINE r == [job[k] EXCEPT !.todo = workflow.files \cup {"end"}]
<1>4. r = [status |-> job[k].status, step |-> job[k].step, attempt |-> job[k].attempt,
           version |-> job[k].version, files |-> job[k].files,
           todo |-> workflow.files \cup {"end"}]
  BY Rewritten
<1> HIDE DEF r
<1>5. IsJob(r)
  BY <1>4 DEF IsJob
<1>6. job'[k] = r /\ OnlyJob(k)
  BY <1>3, <1>5, Replaced DEF r
<1>7. Publishes(k)
  BY <1>1, <1>4, <1>6 DEF Publishes
<1> QED BY <1>3, <1>4, <1>6, <1>7 DEF Opening, OpenPage

LEMMA UploadsAssets ==
    ASSUME JobsInv, NEW k \in Instances, UploadAssets(k)
    PROVE  Uploading(k)
<1>1. /\ k = ReleaseJob /\ job[k].status = "running" /\ ReleaseOf(k) = tag.version
      /\ At(k, "create")
  BY Creates DEF UploadAssets
<1>2. PICK kind \in job[k].todo \ {"end"} :
         /\ page' = [page EXCEPT ![tag.version].files =
                        over(@, restrict(job[k].files, ofKinds(job[k].files, {kind})))]
         /\ job' = [job EXCEPT ![k] = [job[k] EXCEPT !.todo = job[k].todo \ {kind}]]
  BY <1>1 DEF UploadAssets
<1> DEFINE r == [job[k] EXCEPT !.todo = job[k].todo \ {kind}]
<1>3. r = [status |-> job[k].status, step |-> job[k].step, attempt |-> job[k].attempt,
           version |-> job[k].version, files |-> job[k].files, todo |-> job[k].todo \ {kind}]
  BY Rewritten
<1> HIDE DEF r
<1>4. IsJob(r)
  BY <1>3 DEF IsJob
<1>5. job'[k] = r /\ OnlyJob(k)
  BY <1>2, <1>4, Replaced DEF r
<1>6. Publishes(k)
  BY <1>1, <1>3, <1>5 DEF Publishes
<1>7. job'[k].todo = job[k].todo \ {kind}
  BY <1>3, <1>5
<1>8. Kept /\ UNCHANGED <<artifacts, attested>>
  BY DEF UploadAssets
<1> QED BY <1>2, <1>5, <1>6, <1>7, <1>8, Zenon DEF Uploading

LEMMA ClosesPage ==
    ASSUME JobsInv, NEW k \in Instances, PageDone(k)
    PROVE  Going(k)
<1>1. At(k, "create") /\ job[k].todo = {"end"} /\ Advance(k, [job[k] EXCEPT !.todo = {}])
  BY DEF PageDone
<1>2. /\ job[k].status = "running"
      /\ \A t : At(k, t) <=> t = "create"
  BY <1>1, OneStep
<1>3. [job[k] EXCEPT !.todo = {}] =
         [status |-> job[k].status, step |-> job[k].step, attempt |-> job[k].attempt,
          version |-> job[k].version, files |-> job[k].files, todo |-> {}]
  BY Rewritten
<1>4. Moves(k) /\ OnlyJob(k)
  BY <1>1, <1>2, <1>3, GoesOn DEF Moves
<1> QED BY <1>1, <1>2, <1>4 DEF Going, PageDone

LEMMA JobStep ==
    ASSUME JobsInv, NEW k \in Instances, RunStep(k)
    PROVE  \/ Starting(k) \/ Skipping(k) \/ Going(k) \/ Opening(k) \/ Uploading(k)
           \/ Failing(k) /\ Because(k) /\ Kept
<1>0. Kept
  BY DEF RunStep, Start, Skip, Setup, emit_version, PackageBinary, PackageSource, Upload,
         Download, Attest, OpenPage, UploadAssets, PageDone, Smoke
<1>1. CASE Start(k)
  BY <1>1, Starts
<1>2. CASE Skip(k)
  BY <1>2, Skips
<1>3. CASE Setup(k) \/ PackageBinary(k) \/ PackageSource(k) \/ Download(k) \/ PageDone(k)
  BY <1>3, SetsUp, PackagesB, PackagesS, Downloads, ClosesPage
<1>4. CASE emit_version(k)
  BY <1>0, <1>4, EmitsVersion DEF Because
<1>5. CASE Upload(k)
  BY <1>0, <1>5, Uploads DEF Because
<1>6. CASE Attest(k)
  BY <1>0, <1>6, Attests DEF Because
<1>7. CASE Smoke(k)
  BY <1>0, <1>7, TestsSmoke DEF Because
<1>8. CASE OpenPage(k)
  BY <1>8, OpensPage
<1>9. CASE UploadAssets(k)
  BY <1>9, UploadsAssets
<1> QED BY <1>1, <1>2, <1>3, <1>4, <1>5, <1>6, <1>7, <1>8, <1>9 DEF RunStep

LEMMA MadeToFail ==
    ASSUME JobsInv, NEW k \in Instances, StepFails(k)
    PROVE  Failing(k) /\ failedNow'
<1>1. ReleaseOf(k) = tag.version
  BY Accepted DEF ReleaseOf
<1> QED BY <1>1 DEF StepFails, Failing

LEMMA Effects ==
    ASSUME JobsInv, [PipelineNext]_pipelineVars
    PROVE  \/ \E k \in Instances :
                 \/ Starting(k) \/ Skipping(k) \/ Going(k) \/ Opening(k) \/ Uploading(k)
                 \/ Failing(k) /\ ((Because(k) /\ Kept) \/ failedNow')
           \/ Rerunning
           \/ UNCHANGED pipelineVars
<1>1. CASE \E k \in Instances : RunStep(k) \/ StepFails(k)
  BY <1>1, JobStep, MadeToFail
<1>2. CASE RerunFailed \/ RerunAll
  BY <1>2 DEF RerunFailed, RerunAll, Rerun, Rerunning
<1> QED BY <1>1, <1>2 DEF PipelineNext

LEMMA JobsStep ==
    ASSUME JobsInv, [PipelineNext]_pipelineVars
    PROVE  JobsInv'
<1>1. CASE UNCHANGED pipelineVars
  BY <1>1 DEF pipelineVars, JobsInv, IsJob
<1>2. ASSUME NEW k \in Instances,
             Starting(k) \/ Skipping(k) \/ Going(k) \/ Opening(k) \/ Uploading(k)
      PROVE  JobsInv'
  <2>1. OnlyJob(k) /\ Kept
    BY <1>2 DEF Starting, Skipping, Going, Opening, Uploading
  <2>2. /\ job'[k].status \in {"queued", "running", "ok", "failed", "skipped", "cancelled"}
        /\ job'[k].status = "running" =>
                /\ job'[k].step \in 1..Len(expected_steps[k[1]])
                /\ job'[k].attempt = attempt
        /\ job'[k].status = "ok" => job'[k].step = Len(expected_steps[k[1]])
        /\ job'[k].status = "running" /\ job'[k].todo # {} =>
                k = ReleaseJob /\ job'[k].step = 5 /\ "end" \in job'[k].todo
    <3>1. CASE Starting(k)
      <4>1. 1 \in 1..Len(expected_steps[k[1]])
        BY Kinds DEF Jobs, expected_steps
      <4> QED BY <3>1, <4>1 DEF Starting, Begins
    <3>2. CASE Skipping(k)
      BY <3>2 DEF Skipping
    <3>3. CASE Going(k)
      <4>1. Len(expected_steps[k[1]]) \in Nat
        BY Kinds DEF Jobs, expected_steps
      <4> QED BY <3>3, <4>1 DEF Going, Moves, JobsInv
    <3>4. CASE Opening(k)
      <4>1. job[k].status = "running" /\ job[k].step = 5 /\ k = ReleaseJob
        BY <3>4, Creates DEF Opening, Publishes
      <4> QED BY <3>4, <4>1 DEF Opening, Publishes, JobsInv
    <3>5. CASE Uploading(k)
      <4>1. job[k].status = "running" /\ job[k].step = 5 /\ k = ReleaseJob
        BY <3>5, Creates DEF Uploading, Publishes
      <4> QED BY <3>5, <4>1 DEF Uploading, Publishes, JobsInv
    <3> QED BY <1>2, <3>1, <3>2, <3>3, <3>4, <3>5
  <2> QED BY <2>1, <2>2 DEF OnlyJob, Kept, JobsInv, IsJob
<1>3. ASSUME NEW k \in Instances, Failing(k)
      PROVE  JobsInv'
  BY <1>3, Fails DEF Failing, JobsInv
<1>4. CASE Rerunning
  <2>1. IsJob(queued) /\ queued.status = "queued"
    BY DEF IsJob, queued, fresh
  <2> QED BY <1>4, <2>1 DEF Rerunning, RunOver, Final, JobsInv
<1> QED BY <1>1, <1>2, <1>3, <1>4, Effects

-----------------------------------------------------------------------------
(* What becomes of the jobs                                                *)

\* For the proofs that do not tell the reasons of a failure.
Effect(k) ==
    Starting(k) \/ Skipping(k) \/ Going(k) \/ Opening(k) \/ Uploading(k) \/ Failing(k)

\* One job takes a step; only a failure reaches others, and no job that is
\* over.  Only the release job changes the page.
LEMMA EffectOnJobs ==
    ASSUME JobsInv, NEW k \in Instances, Effect(k)
    PROVE  /\ UNCHANGED <<workflow, tag, attempt>>
           /\ job[k].status \in {"queued", "running"}
           /\ \A i \in Instances : Final(i) => job'[i] = job[i]
           /\ \A i \in Instances : job'[i].status \in {"queued", "running", "ok"} =>
                 \/ job'[i] = job[i]
                 \/ i = k /\ (Starting(k) \/ Going(k) \/ Opening(k) \/ Uploading(k))
           /\ page' # page => k = ReleaseJob /\ At(k, "create")
<1>1. CASE Starting(k) \/ Skipping(k) \/ Going(k) \/ Opening(k) \/ Uploading(k)
  <2>1. OnlyJob(k) /\ Kept
    BY <1>1 DEF Starting, Skipping, Going, Opening, Uploading
  <2>2. job[k].status \in {"queued", "running"}
    BY <1>1 DEF Starting, Skipping, Going, Opening, Uploading, Begins, Moves, Publishes, At
  <2>3. page' # page => k = ReleaseJob /\ At(k, "create")
    BY <1>1 DEF Starting, Skipping, Going, Opening, Uploading, Publishes
  <2>4. Skipping(k) => job'[k].status = "skipped"
    BY DEF Skipping
  <2> QED BY <1>1, <2>1, <2>2, <2>3, <2>4 DEF OnlyJob, Kept, Final
<1>2. CASE Failing(k)
  <2>1. job[k].status = "running" /\ UNCHANGED <<workflow, tag, attempt>>
    BY <1>2 DEF Failing
  <2>2. page' # page => job[k].todo # {}
    BY <1>2 DEF Failing
  <2>3. job[k].todo # {} => k = ReleaseJob /\ At(k, "create")
    BY <2>1, Places, Kinds DEF JobsInv
  <2>4. \A i \in Instances :
           \/ job'[i] = job[i]
           \/ job'[i].status \in {"failed", "cancelled"} /\ (i = k \/ ~Final(i))
    BY <1>2, Fails DEF Failing
  <2> QED BY <2>1, <2>2, <2>3, <2>4 DEF Final
<1> QED BY <1>1, <1>2 DEF Effect

\* A re-run queues a job again or leaves it, if it was successful; every job
\* that was, or none, is left.
LEMMA RerunOfJobs ==
    ASSUME Rerunning
    PROVE  /\ \A i \in Instances :
                 \/ job'[i].status = "queued"
                 \/ Ok(i) /\ job'[i] = job[i]
           /\ \/ \A i \in Instances : Ok(i) => job'[i] = job[i]
              \/ \A i \in Instances : job'[i].status = "queued"
<1>1. queued.status = "queued"
  BY DEF queued, fresh
<1>2. PICK again \in {Instances, {i \in Instances : ~Ok(i)}} :
         job' = [i \in Instances |-> IF i \in again THEN queued ELSE job[i]]
  BY DEF Rerunning
<1>3. \A i \in Instances : job'[i] = IF i \in again THEN queued ELSE job[i]
  BY <1>2
<1>4. again = Instances \/ again = {i \in Instances : ~Ok(i)}
  OBVIOUS
<1>5. CASE again = Instances
  BY <1>1, <1>3, <1>5
<1>6. CASE again = {i \in Instances : ~Ok(i)}
  BY <1>1, <1>3, <1>6
<1> QED BY <1>4, <1>5, <1>6

\* The three kinds of step, for the lemmas below.
LEMMA Steps ==
    ASSUME JobsInv, [PipelineNext]_pipelineVars
    PROVE  \/ \E k \in Instances : Effect(k)
           \/ Rerunning
           \/ UNCHANGED pipelineVars
  BY Effects DEF Effect

-----------------------------------------------------------------------------
(* The order of the jobs and the version they work for                     *)

LEMMA NeedsStep ==
    ASSUME JobsInv, NeedsInv, [PipelineNext]_pipelineVars
    PROVE  NeedsInv'
<1>1. CASE UNCHANGED pipelineVars
  BY <1>1 DEF pipelineVars, NeedsInv, Ok
<1>2. ASSUME NEW k \in Instances, Effect(k)
      PROVE  NeedsInv'
  <2>1. \A i \in Instances : Ok(i) => Ok(i)'
    BY <1>2, EffectOnJobs DEF Ok, Final
  <2>2. \A i \in Instances : job'[i].status \in {"running", "ok"} =>
           \/ job[i].status \in {"running", "ok"}
           \/ \A j \in Needed(i) : Ok(j)
    BY <1>2, EffectOnJobs DEF Starting, Begins, Going, Moves, Opening, Uploading, Publishes, At
  <2>3. ASSUME job'[ReleaseJob].status \in {"running", "ok"}, NEW i \in Instances,
               i[1] \in {"build", "source"}
        PROVE  Ok(i)
    <3>1. i \in Needed(ReleaseJob)
      BY <2>3, Accepted, Kinds DEF Needed
    <3> QED BY <2>2, <2>3, <3>1, Kinds DEF NeedsInv
  <2>4. ASSUME NEW i \in Instances, i[1] = "smoke", job'[i].status \in {"running", "ok"}
        PROVE  Ok(ReleaseJob)
    <3>1. ReleaseJob \in Needed(i)
      BY <2>4, Accepted, Kinds DEF Needed
    <3> QED BY <2>2, <2>4, <3>1, Kinds DEF NeedsInv
  <2> QED BY <2>1, <2>3, <2>4, Kinds DEF NeedsInv
<1>3. CASE Rerunning
  <2>1. \A i \in Instances : job'[i].status \in {"running", "ok"} => Ok(i)
    BY <1>3, RerunOfJobs
  <2>2. ASSUME NEW i \in Instances, job'[i].status \in {"running", "ok"}
        PROVE  \A j \in Instances : Ok(j) => Ok(j)'
    BY <1>3, <2>2, RerunOfJobs DEF Ok
  <2> QED BY <2>1, <2>2, Kinds DEF NeedsInv, Ok
<1> QED BY <1>1, <1>2, <1>3, Steps

LEMMA VersionStep ==
    ASSUME JobsInv, VersionInv, [PipelineNext]_pipelineVars
    PROVE  VersionInv'
<1>1. CASE UNCHANGED pipelineVars
  BY <1>1 DEF pipelineVars, VersionInv, Passed
<1>2. ASSUME NEW k \in Instances, Effect(k), NEW i \in Instances,
             Passed(i, VersionAt[i[1]])'
      PROVE  tag.parses /\ job'[i].version = tag.version
  <2>1. i[1] \in Jobs /\ VersionAt[i[1]] \in 2..4
    BY Kinds DEF Jobs, VersionAt
  <2>2. CASE job'[i] = job[i]
    BY <1>2, <2>2 DEF VersionInv, Passed
  <2>3. CASE i = k /\ Starting(k)
    BY <1>2, <2>1, <2>3 DEF Passed, Starting, Begins
  <2>4. CASE i = k /\ Going(k)
    <3>1. /\ job[k].status = "running" /\ job[k].step \in Nat
          /\ At(k, "version") <=> job[k].step = VersionAt[k[1]]
      BY <2>4, Places, Kinds DEF Going, Moves, JobsInv
    <3>2. At(k, "version") \/ Passed(k, VersionAt[k[1]])
      BY <1>2, <2>1, <2>4, <3>1 DEF Going, Moves, Passed
    <3> QED BY <2>4, <3>2 DEF Going, Moves, VersionInv
  <2>5. CASE i = k /\ (Opening(k) \/ Uploading(k))
    BY <1>2, <2>5 DEF Opening, Uploading, Publishes, Passed, VersionInv, At
  <2> QED BY <1>2, <2>2, <2>3, <2>4, <2>5, EffectOnJobs DEF Passed
<1>3. ASSUME NEW k \in Instances, Effect(k)
      PROVE  VersionInv'
  <2>1. tag' = tag
    BY <1>3, EffectOnJobs
  <2> QED BY <1>2, <1>3, <2>1 DEF VersionInv
<1>4. CASE Rerunning
  <2>1. \A i \in Instances : Passed(i, VersionAt[i[1]])' =>
           Passed(i, VersionAt[i[1]]) /\ job'[i] = job[i]
    BY <1>4, RerunOfJobs DEF Passed
  <2> QED BY <1>4, <2>1 DEF VersionInv, Rerunning
<1> QED BY <1>1, <1>3, <1>4, Steps

-----------------------------------------------------------------------------
(* The files that are packaged and handed over                             *)

\* Only a build, or the source job, uploads an artifact, under its own name;
\* it has packaged before.
LEMMA Handed ==
    ASSUME JobsInv, VersionInv, FilesInv, NEW k \in Instances, At(k, "upload")
    PROVE  /\ job[k].status = "running" /\ job[k].attempt = attempt
           /\ job[k].step = Len(expected_steps[k[1]])
           /\ \/ /\ k[1] = "build" /\ k[2] \in Platforms /\ k = <<"build", k[2]>>
                 /\ artifactName(k) = k[2]
                 /\ job[k].files = BinaryFiles(tag.version, k[2], job[k].attempt)
              \/ /\ k = SourceJob /\ artifactName(k) = "source"
                 /\ job[k].files = SourceFiles(tag.version)
<1>1. job[k].status = "running" /\ job[k].attempt = attempt
  BY DEF At, JobsInv
<1>2. (k[1] = "build" /\ job[k].step = 7) \/ (k[1] = "source" /\ job[k].step = 4)
  BY <1>1, Places
<1>3. workflow.artifact["build"] = "per platform" /\ workflow.artifact["source"] = "source"
  BY Accepted
<1>4. CASE k[1] = "build" /\ job[k].step = 7
  <2>1. k[2] \in Platforms /\ k = <<"build", k[2]>>
    BY <1>4, Kinds DEF SourceJob, ReleaseJob
  <2>2. artifactName(k) = k[2]
    BY <1>3, <1>4 DEF artifactName
  <2>3. Passed(k, 6)
    BY <1>1, <1>4 DEF Passed
  <2>4. job[k].files = BinaryFiles(tag.version, k[2], job[k].attempt)
    BY <2>1, <2>3 DEF FilesInv
  <2>5. job[k].step = Len(expected_steps[k[1]])
    BY <1>4 DEF expected_steps
  <2> QED BY <1>1, <1>4, <2>1, <2>2, <2>4, <2>5
<1>5. CASE k[1] = "source" /\ job[k].step = 4
  <2>1. k = SourceJob
    BY <1>5, Kinds
  <2>2. artifactName(k) = "source"
    BY <1>3, <1>5 DEF artifactName
  <2>3. Passed(k, 3)
    BY <1>1, <1>5 DEF Passed
  <2>4. job[k].files = SourceFiles(tag.version)
    BY <2>1, <2>3 DEF FilesInv
  <2>5. job[k].step = Len(expected_steps[k[1]])
    BY <1>5 DEF expected_steps
  <2> QED BY <1>1, <2>1, <2>2, <2>4, <2>5
<1> QED BY <1>2, <1>4, <1>5

\* Artifacts change only when one is uploaded, which none is while the release
\* job runs or after it has succeeded.
LEMMA ArtifactsChange ==
    ASSUME JobsInv, NeedsInv, NEW k \in Instances, Effect(k)
    PROVE  /\ \/ artifacts' = artifacts
              \/ Going(k) /\ At(k, "upload")
           /\ job[ReleaseJob].status \in {"running", "ok"} => artifacts' = artifacts
<1>1. artifacts' = artifacts \/ (Going(k) /\ At(k, "upload"))
  BY DEF Effect, Starting, Skipping, Going, Opening, Uploading, Failing
<1>2. ASSUME At(k, "upload") PROVE job[ReleaseJob].status \notin {"running", "ok"}
  <2>1. job[k].status = "running" /\ k[1] \in {"build", "source"}
    BY <1>2, Places DEF At
  <2> QED BY <2>1 DEF NeedsInv, Ok
<1> QED BY <1>1, <1>2

LEMMA FilesStep ==
    ASSUME JobsInv, NeedsInv, VersionInv, FilesInv, [PipelineNext]_pipelineVars
    PROVE  FilesInv'
<1>1. CASE UNCHANGED pipelineVars
  BY <1>1 DEF pipelineVars, FilesInv, Passed, Downloaded
<1>2. ASSUME NEW k \in Instances, Effect(k)
      PROVE  FilesInv'
  <2>1. tag' = tag
    BY <1>2, EffectOnJobs
  <2>2. ASSUME NEW i \in Instances, NEW n \in 2..6, Passed(i, n)', job'[i] # job[i]
        PROVE  /\ i = k
               /\ \/ /\ Going(k) /\ job[k].status = "running" /\ job[k].step \in Nat
                     /\ job[k].step = n \/ Passed(k, n)
                  \/ Passed(k, n) /\ job'[k].files = job[k].files /\ k = ReleaseJob
    <3>1. i = k /\ (Starting(k) \/ Going(k) \/ Opening(k) \/ Uploading(k))
      BY <1>2, <2>2, EffectOnJobs DEF Passed
    <3>2. ~Starting(k)
      BY <2>2, <3>1 DEF Starting, Begins, Passed
    <3>3. CASE Going(k)
      <4>1. job[k].status = "running" /\ job[k].step \in Nat
        BY <3>3, Kinds DEF Going, Moves, JobsInv
      <4> QED BY <2>2, <3>1, <3>3, <4>1 DEF Going, Moves, Passed
    <3>4. CASE Opening(k) \/ Uploading(k)
      BY <2>2, <3>1, <3>4 DEF Opening, Uploading, Publishes, Passed, At
    <3> QED BY <3>1, <3>2, <3>3, <3>4
  <2>3. ASSUME NEW p \in Platforms, Passed(<<"build", p>>, 6)'
        PROVE  job'[<<"build", p>>].files =
                  BinaryFiles(tag.version, p, job'[<<"build", p>>].attempt)
    <3> DEFINE i == <<"build", p>>
    <3>1. i \in Instances /\ i[1] = "build" /\ i # ReleaseJob
      BY Kinds DEF ReleaseJob
    <3>2. CASE job'[i] = job[i]
      BY <2>3, <3>2 DEF Passed, FilesInv
    <3>3. CASE job'[i] # job[i]
      <4>1. /\ i = k /\ Going(k) /\ job[k].status = "running" /\ job[k].step \in Nat
            /\ job[k].step = 6 \/ Passed(k, 6)
        BY <2>2, <2>3, <3>1, <3>3
      <4>2. At(k, "binary") <=> job[k].step = 6
        BY <3>1, <4>1, Places
      <4>3. ~At(k, "source") /\ ~At(k, "download")
        BY <3>1, <4>1, Places
      <4>4. job'[k].attempt = job[k].attempt
        BY <4>1 DEF Going, Moves
      <4>5. CASE job[k].step = 6
        <5>1. job'[k].files = PackagedBinary(k)
          BY <4>1, <4>2, <4>5 DEF Going, Moves
        <5>2. Passed(k, VersionAt[k[1]])
          BY <3>1, <4>1, <4>5 DEF Passed, VersionAt
        <5>3. job[k].version = tag.version
          BY <5>2 DEF VersionInv
        <5> QED BY <4>1, <4>4, <5>1, <5>3, PackagesBinary
      <4>6. CASE job[k].step # 6
        BY <4>1, <4>2, <4>3, <4>4, <4>6 DEF Going, Moves, FilesInv
      <4> QED BY <4>5, <4>6
    <3> QED BY <3>2, <3>3
  <2>4. ASSUME Passed(SourceJob, 3)'
        PROVE  job'[SourceJob].files = SourceFiles(tag.version)
    <3>1. SourceJob \in Instances /\ SourceJob[1] = "source" /\ SourceJob # ReleaseJob
      BY Kinds DEF ReleaseJob, SourceJob
    <3>2. CASE job'[SourceJob] = job[SourceJob]
      BY <2>4, <3>2 DEF Passed, FilesInv
    <3>3. CASE job'[SourceJob] # job[SourceJob]
      <4>1. /\ SourceJob = k /\ Going(k) /\ job[k].status = "running" /\ job[k].step \in Nat
            /\ job[k].step = 3 \/ Passed(k, 3)
        BY <2>2, <2>4, <3>1, <3>3
      <4>2. At(k, "source") <=> job[k].step = 3
        BY <3>1, <4>1, Places
      <4>3. ~At(k, "binary") /\ ~At(k, "download")
        BY <3>1, <4>1, Places
      <4>5. CASE job[k].step = 3
        <5>1. job'[k].files = SourceFiles(job[k].version)
          BY <4>1, <4>2, <4>3, <4>5 DEF Going, Moves
        <5>2. Passed(k, VersionAt[k[1]])
          BY <3>1, <4>1, <4>5 DEF Passed, VersionAt
        <5>3. job[k].version = tag.version
          BY <5>2 DEF VersionInv
        <5> QED BY <4>1, <5>1, <5>3
      <4>6. CASE job[k].step # 3
        BY <4>1, <4>2, <4>3, <4>6 DEF Going, Moves, FilesInv
      <4> QED BY <4>5, <4>6
    <3> QED BY <3>2, <3>3
  <2>5. ASSUME Passed(ReleaseJob, 2)'
        PROVE  job'[ReleaseJob].files = Downloaded'
    <3>1. ReleaseJob \in Instances /\ ReleaseJob[1] = "release"
      BY Kinds
    <3>2. CASE job'[ReleaseJob] = job[ReleaseJob]
      <4>1. Passed(ReleaseJob, 2)
        BY <2>5, <3>2 DEF Passed
      <4>2. artifacts' = artifacts
        BY <1>2, <4>1, ArtifactsChange DEF Passed
      <4> QED BY <3>2, <4>1, <4>2 DEF FilesInv, Downloaded
    <3>3. CASE job'[ReleaseJob] # job[ReleaseJob]
      <4>1. /\ ReleaseJob = k
            /\ \/ /\ Going(k) /\ job[k].status = "running" /\ job[k].step \in Nat
                  /\ job[k].step = 2 \/ Passed(k, 2)
               \/ Passed(k, 2) /\ job'[k].files = job[k].files
        BY <2>2, <2>5, <3>1, <3>3
      <4>2. artifacts' = artifacts
        BY <1>2, <4>1, ArtifactsChange DEF Passed
      <4>3. CASE Passed(k, 2) /\ job'[k].files = job[k].files
        BY <4>1, <4>2, <4>3 DEF FilesInv, Downloaded
      <4>4. CASE Going(k) /\ job[k].status = "running"
        <5>1. At(k, "download") <=> job[k].step = 2
          BY <3>1, <4>1, <4>4, Places
        <5>2. ~At(k, "binary") /\ ~At(k, "source")
          BY <3>1, <4>1, <4>4, Places
        <5>3. job'[k].files = IF job[k].step = 2 THEN Downloaded ELSE job[k].files
          BY <4>4, <5>1, <5>2 DEF Going, Moves
        <5>4. job[k].step # 2 => Passed(k, 2)
          BY <4>1 DEF Passed
        <5> QED BY <4>1, <4>2, <5>3, <5>4 DEF FilesInv, Downloaded
      <4> QED BY <4>1, <4>3, <4>4
    <3> QED BY <3>2, <3>3
  <2> QED BY <2>1, <2>3, <2>4, <2>5 DEF FilesInv
<1>3. CASE Rerunning
  <2>1. \A i \in Instances, n \in Nat : Passed(i, n)' => Passed(i, n) /\ job'[i] = job[i]
    BY <1>3, RerunOfJobs DEF Passed
  <2>2. Downloaded' = Downloaded /\ tag' = tag
    BY <1>3 DEF Rerunning, Downloaded
  <2> QED BY <2>1, <2>2, Kinds DEF FilesInv
<1> QED BY <1>1, <1>2, <1>3, Steps

LEMMA ArtifactsStep ==
    ASSUME JobsInv, NeedsInv, VersionInv, FilesInv, ArtifactsInv, [PipelineNext]_pipelineVars
    PROVE  ArtifactsInv'
<1>1. CASE UNCHANGED pipelineVars
  BY <1>1 DEF pipelineVars, ArtifactsInv, Ok
<1>2. ASSUME NEW k \in Instances, Effect(k), Going(k), At(k, "upload")
      PROVE  ArtifactsInv'
  <2> DEFINE a == artifactName(k)
             x == [attempt |-> job[k].attempt, files |-> job[k].files]
  <2>1. artifacts' = store(artifacts, a, x)
    BY <1>2 DEF Going
  <2> HIDE DEF a, x
  <2>2. /\ DOMAIN artifacts' = DOMAIN artifacts \cup {a}
        /\ artifacts'[a] = x
        /\ \A b \in DOMAIN artifacts \ {a} : artifacts'[b] = artifacts[b]
    BY <2>1 DEF store
  <2>3. x.attempt = attempt /\ attempt \in Nat /\ x.files = job[k].files
    BY <1>2, Handed DEF JobsInv, x
  <2> USE DEF a
  <2>4. /\ tag' = tag
        /\ \A i \in Instances : Ok(i)' => Ok(i) \/ i = k
    BY <1>2, EffectOnJobs DEF Ok
  <2>5. CASE k[2] \in Platforms /\ k = <<"build", k[2]>> /\ a = k[2]
    <3>1. x.files = BinaryFiles(tag.version, a, x.attempt)
      <4>1. k # SourceJob
        BY <2>5 DEF SourceJob
      <4>2. job[k].files = BinaryFiles(tag.version, k[2], job[k].attempt)
        BY <1>2, <4>1, Handed
      <4>3. job[k].attempt = attempt
        BY <1>2, Handed
      <4> QED BY <2>3, <2>5, <4>2, <4>3
    <3>2. a # "source"
      BY <2>5, ReleaseAssumption
    <3>3. ASSUME NEW p \in Platforms, Ok(<<"build", p>>)'
          PROVE  Ok(<<"build", p>>) \/ p = a
      <4>1. <<"build", p>> \in Instances
        BY Kinds
      <4>2. Ok(<<"build", p>>) \/ <<"build", p>> = k
        BY <2>4, <3>3, <4>1
      <4> QED BY <2>5, <4>2
    <3>4. Ok(SourceJob)' => Ok(SourceJob)
      BY <2>4, <2>5, Kinds DEF SourceJob
    <3> HIDE DEF a
    <3> QED BY <2>2, <2>3, <2>4, <2>5, <3>1, <3>2, <3>3, <3>4 DEF ArtifactsInv
  <2>6. CASE k = SourceJob /\ a = "source"
    <3>1. x.files = SourceFiles(tag.version)
      <4>1. k[1] # "build"
        BY <2>6 DEF SourceJob
      <4> QED BY <1>2, <2>3, <4>1, Handed
    <3>2. a \notin Platforms
      BY <2>6, ReleaseAssumption
    <3>3. \A p \in Platforms : Ok(<<"build", p>>)' => Ok(<<"build", p>>)
      BY <2>4, <2>6, Kinds DEF SourceJob
    <3> HIDE DEF a
    <3> QED BY <2>2, <2>3, <2>4, <2>6, <3>1, <3>2, <3>3, Kinds DEF ArtifactsInv
  <2> QED BY <1>2, <2>5, <2>6, Handed
<1>3. ASSUME NEW k \in Instances, Effect(k), ~(Going(k) /\ At(k, "upload"))
      PROVE  ArtifactsInv'
  <2>1. artifacts' = artifacts /\ tag' = tag
    BY <1>3, ArtifactsChange, EffectOnJobs
  <2>2. ASSUME NEW i \in Instances, i[1] \in {"build", "source"}, Ok(i)'
        PROVE  Ok(i)
    <3>1. job'[i] = job[i] \/ (i = k /\ Going(k))
      BY <1>3, <2>2, EffectOnJobs DEF Ok, Starting, Begins, Opening, Uploading, Publishes
    <3>2. ASSUME i = k, Going(k) PROVE FALSE
      <4>1. job[k].status = "running" /\ job[k].step = Len(expected_steps[k[1]])
        BY <2>2, <3>2 DEF Going, Moves, Ok
      <4>2. At(k, "upload")
        <5>1. /\ Len(expected_steps["build"]) = 7
              /\ Len(expected_steps["source"]) = 4
          BY DEF expected_steps
        <5>2. \/ k[1] = "build" /\ job[k].step = 7
              \/ k[1] = "source" /\ job[k].step = 4
          BY <2>2, <3>2, <4>1, <5>1
        <5> QED BY <4>1, <5>2, Places
      <4> QED BY <1>3, <3>2, <4>2
    <3> QED BY <2>2, <3>1, <3>2 DEF Ok
  <2>3. \A p \in Platforms : Ok(<<"build", p>>)' => Ok(<<"build", p>>)
    BY <2>2, Kinds
  <2>4. Ok(SourceJob)' => Ok(SourceJob)
    BY <2>2, Kinds
  <2> QED BY <2>1, <2>3, <2>4 DEF ArtifactsInv
<1>4. CASE Rerunning
  <2>1. \A i \in Instances : Ok(i)' => Ok(i)
    BY <1>4, RerunOfJobs DEF Ok
  <2>2. \A p \in Platforms : Ok(<<"build", p>>)' => Ok(<<"build", p>>)
    BY <2>1, Kinds
  <2>3. Ok(SourceJob)' => Ok(SourceJob)
    BY <2>1, Kinds
  <2> QED BY <1>4, <2>2, <2>3 DEF ArtifactsInv, Rerunning
<1> QED BY <1>1, <1>2, <1>3, <1>4, Steps

LEMMA FreeNamesStep ==
    ASSUME JobsInv, NeedsInv, VersionInv, FilesInv, ArtifactsInv, FreeNames,
           [PipelineNext]_pipelineVars
    PROVE  FreeNames'
<1>1. CASE UNCHANGED pipelineVars
  BY <1>1 DEF pipelineVars, FreeNames
<1>2. ASSUME NEW k \in Instances, Effect(k)
      PROVE  FreeNames'
  <2>1. attempt' = attempt /\ attempt \in Nat
    BY <1>2, EffectOnJobs DEF JobsInv
  <2>2. \A i \in Instances : job'[i].status \in {"queued", "running"} =>
           job[i].status \in {"queued", "running"}
    BY <1>2, EffectOnJobs
  <2>3. CASE artifacts' = artifacts
    <3>1. \A p \in Platforms : job'[<<"build", p>>].status \in {"queued", "running"} =>
             job[<<"build", p>>].status \in {"queued", "running"}
      BY <2>2, Kinds
    <3>2. job'[SourceJob].status \in {"queued", "running"} =>
             job[SourceJob].status \in {"queued", "running"}
      BY <2>2, Kinds
    <3> QED BY <2>1, <2>3, <3>1, <3>2 DEF FreeNames
  <2>4. CASE Going(k) /\ At(k, "upload")
    <3> DEFINE a == artifactName(k)
               x == [attempt |-> job[k].attempt, files |-> job[k].files]
    <3>1. artifacts' = store(artifacts, a, x)
      BY <2>4 DEF Going
    <3> HIDE DEF a, x
    <3>2. /\ DOMAIN artifacts' = DOMAIN artifacts \cup {a}
          /\ artifacts'[a] = x
          /\ \A b \in DOMAIN artifacts \ {a} : artifacts'[b] = artifacts[b]
      BY <3>1 DEF store
    <3>3. x.attempt = attempt /\ job'[k].status = "ok"
      BY <2>4, Handed DEF Going, Moves, x
    <3>4. \/ k = SourceJob /\ a = "source"
          \/ k[2] \in Platforms /\ k = <<"build", k[2]>> /\ a = k[2]
      BY <2>4, Handed DEF a
    <3>5. \A p \in Platforms : job'[<<"build", p>>].status \in {"queued", "running"} =>
             job[<<"build", p>>].status \in {"queued", "running"} /\ p # a
      BY <2>2, <3>3, <3>4, Kinds, ReleaseAssumption
    <3>6. job'[SourceJob].status \in {"queued", "running"} =>
             job[SourceJob].status \in {"queued", "running"} /\ "source" # a
      BY <2>2, <3>3, <3>4, Kinds, ReleaseAssumption
    <3>7. \A b \in DOMAIN artifacts' : artifacts'[b].attempt <= attempt
      BY <2>1, <3>2, <3>3 DEF FreeNames
    <3>8. \A p \in Platforms \cap DOMAIN artifacts' :
             job'[<<"build", p>>].status \in {"queued", "running"} =>
                artifacts'[p].attempt < attempt
      BY <3>2, <3>5 DEF FreeNames
    <3>9. "source" \in DOMAIN artifacts' /\ job'[SourceJob].status \in {"queued", "running"} =>
             artifacts'["source"].attempt < attempt
      BY <3>2, <3>6 DEF FreeNames
    <3> QED BY <2>1, <3>7, <3>8, <3>9 DEF FreeNames
  <2> QED BY <1>2, <2>3, <2>4, ArtifactsChange
<1>3. CASE Rerunning
  <2>1. attempt' = attempt + 1 /\ attempt \in Nat /\ artifacts' = artifacts
    BY <1>3 DEF Rerunning, JobsInv
  <2>2. \A a \in DOMAIN artifacts : artifacts[a].attempt \in Nat /\ artifacts[a].attempt <= attempt
    BY DEF ArtifactsInv, FreeNames
  <2> QED BY <2>1, <2>2 DEF FreeNames
<1> QED BY <1>1, <1>2, <1>3, Steps

-----------------------------------------------------------------------------
(* The files of a release                                                  *)

\* What packaging leaves, name by name.
BinaryContents(v, p, k) ==
    /\ DOMAIN BinaryFiles(v, p, k) = {Archive(v, p), Sidecar(Archive(v, p)), Sbom(v, p)}
    /\ DOMAIN BinaryFiles(v, p, k) \subseteq names(v, Platforms)
    /\ \A n \in DOMAIN BinaryFiles(v, p, k) :
          n.p = p /\ n.kind # "tar.xz" /\ n.kind # "xz.sha256"
    /\ BinaryFiles(v, p, k)[Archive(v, p)] = archiveOf(Tree(<<k, p>>, p, v), <<v, p>>)
    /\ BinaryFiles(v, p, k)[Sidecar(Archive(v, p))]
          = sumOf(archiveOf(Tree(<<k, p>>, p, v), <<v, p>>), Archive(v, p))
    /\ BinaryFiles(v, p, k)[Sbom(v, p)] = sbomOf(Tree(<<k, p>>, p, v), <<v, p>>)

LEMMA BinaryNames ==
    ASSUME NEW v, NEW p \in Platforms, NEW k
    PROVE  BinaryContents(v, p, k)
<1> DEFINE a == Archive(v, p)
           s == Sidecar(Archive(v, p))
           b == Sbom(v, p)
<1>1. /\ a = [kind |-> "tar.gz", v |-> v, p |-> p]
      /\ s = [kind |-> "gz.sha256", v |-> v, p |-> p]
      /\ b = [kind |-> "sbom", v |-> v, p |-> p]
  BY DEF Archive, Sidecar, Sbom, nameOf
<1>2. a # s /\ a # b /\ s # b
  BY <1>1
<1>3. {a, s, b} \subseteq names(v, Platforms)
  BY DEF names
<1>4. \A n \in {a, s, b} : n.p = p /\ n.kind # "tar.xz" /\ n.kind # "xz.sha256"
  BY <1>1
<1> HIDE DEF a, s, b
<1>5. BinaryFiles(v, p, k) =
         [n \in {a, s, b} |->
            CASE n = a -> archiveOf(Tree(<<k, p>>, p, v), <<v, p>>)
              [] n = s -> sumOf(archiveOf(Tree(<<k, p>>, p, v), <<v, p>>), a)
              [] n = b -> sbomOf(Tree(<<k, p>>, p, v), <<v, p>>)]
  BY DEF BinaryFiles, a, s, b
<1>6. /\ DOMAIN BinaryFiles(v, p, k) = {a, s, b}
      /\ BinaryFiles(v, p, k)[a] = archiveOf(Tree(<<k, p>>, p, v), <<v, p>>)
      /\ BinaryFiles(v, p, k)[s]
            = sumOf(archiveOf(Tree(<<k, p>>, p, v), <<v, p>>), a)
      /\ BinaryFiles(v, p, k)[b] = sbomOf(Tree(<<k, p>>, p, v), <<v, p>>)
  BY <1>2, <1>5
<1>7. DOMAIN BinaryFiles(v, p, k) \subseteq names(v, Platforms)
  BY <1>3, <1>6
<1>8. \A n \in DOMAIN BinaryFiles(v, p, k) :
         n.p = p /\ n.kind # "tar.xz" /\ n.kind # "xz.sha256"
  BY <1>4, <1>6
<1> QED BY <1>6, <1>7, <1>8 DEF a, s, b, BinaryContents

LEMMA SourceNames ==
    ASSUME NEW v
    PROVE  /\ DOMAIN SourceFiles(v) = {Source(v), Sidecar(Source(v))}
           /\ DOMAIN SourceFiles(v) \subseteq names(v, Platforms)
           /\ \A n \in DOMAIN SourceFiles(v) : n.kind \in {"tar.xz", "xz.sha256"}
           /\ SourceFiles(v)[Source(v)] = archiveOf([id |-> "tagged", climbs |-> FALSE], v)
           /\ SourceFiles(v)[Sidecar(Source(v))]
                 = sumOf(archiveOf([id |-> "tagged", climbs |-> FALSE], v), Source(v))
<1> DEFINE a == Source(v)
           s == Sidecar(Source(v))
<1>1. /\ a = [kind |-> "tar.xz", v |-> v, p |-> "any"]
      /\ s = [kind |-> "xz.sha256", v |-> v, p |-> "any"]
  BY DEF Source, Sidecar, nameOf
<1>2. a # s
  BY <1>1
<1>3. {a, s} \subseteq names(v, Platforms)
  BY DEF names
<1>4. \A n \in {a, s} : n.kind \in {"tar.xz", "xz.sha256"}
  BY <1>1
<1> HIDE DEF a, s
<1>5. SourceFiles(v) =
         [n \in {a, s} |->
            IF n = a THEN archiveOf([id |-> "tagged", climbs |-> FALSE], v)
                     ELSE sumOf(archiveOf([id |-> "tagged", climbs |-> FALSE], v), a)]
  BY DEF SourceFiles, a, s
<1>6. /\ DOMAIN SourceFiles(v) = {a, s}
      /\ SourceFiles(v)[a] = archiveOf([id |-> "tagged", climbs |-> FALSE], v)
      /\ SourceFiles(v)[s] = sumOf(archiveOf([id |-> "tagged", climbs |-> FALSE], v), a)
  BY <1>2, <1>5
<1> QED BY <1>3, <1>4, <1>6 DEF a, s

\* The names of a release: their kinds and their version.
LEMMA NamesOfRelease ==
    ASSUME NEW v, NEW n \in names(v, Platforms)
    PROVE  /\ n.v = v
           /\ n.kind \in {"tar.gz", "tar.xz", "gz.sha256", "xz.sha256", "sbom"}
           /\ n # Stray
           /\ \/ n \in {Source(v), Sidecar(Source(v))}
              \/ \E p \in Platforms : n \in {Archive(v, p), Sidecar(Archive(v, p)), Sbom(v, p)}
<1>1. \/ n \in {Source(v), Sidecar(Source(v))}
      \/ \E p \in Platforms : n \in {Archive(v, p), Sidecar(Archive(v, p)), Sbom(v, p)}
  BY DEF names
<1>2. n.v = v /\ n.kind \in {"tar.gz", "tar.xz", "gz.sha256", "xz.sha256", "sbom"}
  <2>1. CASE n \in {Source(v), Sidecar(Source(v))}
    <3>1. /\ Source(v) = [kind |-> "tar.xz", v |-> v, p |-> "any"]
          /\ Sidecar(Source(v)) = [kind |-> "xz.sha256", v |-> v, p |-> "any"]
      BY DEF Source, Sidecar, nameOf
    <3> QED BY <2>1, <3>1
  <2>2. ASSUME NEW p \in Platforms,
               n \in {Archive(v, p), Sidecar(Archive(v, p)), Sbom(v, p)}
        PROVE  n.v = v /\ n.kind \in {"tar.gz", "gz.sha256", "sbom"}
    <3>1. /\ Archive(v, p) = [kind |-> "tar.gz", v |-> v, p |-> p]
          /\ Sidecar(Archive(v, p)) = [kind |-> "gz.sha256", v |-> v, p |-> p]
          /\ Sbom(v, p) = [kind |-> "sbom", v |-> v, p |-> p]
      BY DEF Archive, Sidecar, Sbom, nameOf
    <3> QED BY <2>2, <3>1
  <2> QED BY <1>1, <2>1, <2>2
<1>3. Stray.kind = "stray"
  BY DEF Stray, nameOf
<1>4. n # Stray
  BY <1>2, <1>3
<1> QED BY <1>1, <1>2, <1>4

\* A downloaded file is of one artifact: that of its platform, or the source.
LEMMA DownloadedFrom ==
    ASSUME ArtifactsInv, NEW n \in DOMAIN Downloaded
    PROVE  \E a \in DOMAIN artifacts :
              n \in DOMAIN artifacts[a].files /\ Downloaded[n] = artifacts[a].files[n]
<1> DEFINE all == UNION {DOMAIN artifacts[a].files : a \in DOMAIN artifacts}
           c == CHOOSE a \in DOMAIN artifacts : n \in DOMAIN artifacts[a].files
<1>1. n \in all
  BY DEF Downloaded
<1>2. \E a \in DOMAIN artifacts : n \in DOMAIN artifacts[a].files
  BY <1>1
<1>3. c \in DOMAIN artifacts /\ n \in DOMAIN artifacts[c].files
  BY <1>2
<1>4. Downloaded[n] = artifacts[c].files[n]
  BY <1>1 DEF Downloaded
<1> HIDE DEF c
<1> QED BY <1>3, <1>4

LEMMA DownloadedSuits ==
    ASSUME ArtifactsInv, NEW n \in DOMAIN Downloaded
    PROVE  Suits(n, Downloaded[n])
<1>1. PICK a \in DOMAIN artifacts :
         n \in DOMAIN artifacts[a].files /\ Downloaded[n] = artifacts[a].files[n]
  BY DownloadedFrom
<1> DEFINE v == tag.version
           k == artifacts[a].attempt
<1> HIDE DEF v, k
<1>2. CASE a \in Platforms
  <2>1. artifacts[a].files = BinaryFiles(v, a, k)
    BY <1>2 DEF ArtifactsInv, v, k
  <2>c. BinaryContents(v, a, k)
    BY <1>2, BinaryNames
  <2>2. n \in names(v, Platforms) /\ n.p = a /\ n.kind # "tar.xz"
    BY <1>1, <2>1, <2>c DEF BinaryContents
  <2>3. n.kind = "tar.gz" => Downloaded[n].tree.arch = n.p
    <3>1. n.kind = "tar.gz" => n = Archive(v, a)
      <4>1. n \in {Archive(v, a), Sidecar(Archive(v, a)), Sbom(v, a)}
        BY <1>1, <2>1, <2>c DEF BinaryContents
      <4> QED BY <4>1 DEF Archive, Sidecar, Sbom, nameOf
    <3>2. BinaryFiles(v, a, k)[Archive(v, a)] = archiveOf(Tree(<<k, a>>, a, v), <<v, a>>)
      BY <2>c DEF BinaryContents
    <3>3. archiveOf(Tree(<<k, a>>, a, v), <<v, a>>).tree.arch = a
      BY DEF archiveOf, Tree
    <3> QED BY <1>1, <2>1, <2>2, <3>1, <3>2, <3>3
  <2> QED BY <2>2, <2>3 DEF Suits, v
<1>3. CASE a = "source"
  <2>1. artifacts[a].files = SourceFiles(v)
    BY <1>3 DEF ArtifactsInv, v
  <2>2. n \in names(v, Platforms) /\ n.kind # "tar.gz"
    BY <1>1, <2>1, SourceNames
  <2>3. n.kind = "tar.xz" => Downloaded[n].tree.id = "tagged"
    <3>1. n.kind = "tar.xz" => n = Source(v)
      <4>1. n \in {Source(v), Sidecar(Source(v))}
        BY <1>1, <2>1, SourceNames
      <4> QED BY <4>1 DEF Source, Sidecar, nameOf
    <3>2. SourceFiles(v)[Source(v)] = archiveOf([id |-> "tagged", climbs |-> FALSE], v)
      BY SourceNames
    <3>3. archiveOf([id |-> "tagged", climbs |-> FALSE], v).tree.id = "tagged"
      BY DEF archiveOf
    <3> QED BY <1>1, <2>1, <3>1, <3>2, <3>3
  <2> QED BY <2>2, <2>3 DEF Suits, v
<1> QED BY <1>2, <1>3 DEF ArtifactsInv

\* The files of an artifact are all downloaded, and are no other artifact's.
LEMMA DownloadedBinary ==
    ASSUME ArtifactsInv, NEW p \in Platforms, p \in DOMAIN artifacts,
           NEW n \in DOMAIN artifacts[p].files
    PROVE  n \in DOMAIN Downloaded /\ Downloaded[n] = artifacts[p].files[n]
<1>1. n \in DOMAIN Downloaded
  BY DEF Downloaded
<1>2. PICK a \in DOMAIN artifacts :
         n \in DOMAIN artifacts[a].files /\ Downloaded[n] = artifacts[a].files[n]
  BY <1>1, DownloadedFrom
<1>3. ASSUME NEW q \in Platforms, q \in DOMAIN artifacts, n \in DOMAIN artifacts[q].files
      PROVE  n.p = q /\ n.kind # "tar.xz" /\ n.kind # "xz.sha256"
  <2>1. artifacts[q].files = BinaryFiles(tag.version, q, artifacts[q].attempt)
    BY <1>3 DEF ArtifactsInv
  <2>2. BinaryContents(tag.version, q, artifacts[q].attempt)
    BY BinaryNames
  <2> QED BY <1>3, <2>1, <2>2 DEF BinaryContents
<1>4. a # "source"
  <2>1. SUFFICES ASSUME a = "source" PROVE FALSE
    OBVIOUS
  <2>2. artifacts[a].files = SourceFiles(tag.version)
    BY <2>1 DEF ArtifactsInv
  <2>3. n.kind \in {"tar.xz", "xz.sha256"}
    BY <1>2, <2>2, SourceNames
  <2> QED BY <1>3, <2>3
<1>5. a = p
  BY <1>2, <1>3, <1>4 DEF ArtifactsInv
<1> QED BY <1>1, <1>2, <1>5

LEMMA DownloadedSource ==
    ASSUME ArtifactsInv, "source" \in DOMAIN artifacts,
           NEW n \in DOMAIN artifacts["source"].files
    PROVE  n \in DOMAIN Downloaded /\ Downloaded[n] = artifacts["source"].files[n]
<1>1. n \in DOMAIN Downloaded
  BY DEF Downloaded
<1>2. PICK a \in DOMAIN artifacts :
         n \in DOMAIN artifacts[a].files /\ Downloaded[n] = artifacts[a].files[n]
  BY <1>1, DownloadedFrom
<1>3. n.kind \in {"tar.xz", "xz.sha256"}
  <2>1. artifacts["source"].files = SourceFiles(tag.version)
    BY DEF ArtifactsInv
  <2> QED BY <2>1, SourceNames
<1>4. a \notin Platforms
  <2>1. SUFFICES ASSUME a \in Platforms PROVE FALSE
    OBVIOUS
  <2>2. artifacts[a].files = BinaryFiles(tag.version, a, artifacts[a].attempt)
    BY <2>1 DEF ArtifactsInv
  <2>3. BinaryContents(tag.version, a, artifacts[a].attempt)
    BY <2>1, BinaryNames
  <2> QED BY <1>2, <1>3, <2>2, <2>3 DEF BinaryContents
<1>5. a = "source"
  BY <1>2, <1>4 DEF ArtifactsInv
<1> QED BY <1>1, <1>2, <1>5

\* Files that a release has: each archive with the checksum and the SBOM of its
\* own build, and the source.
Whole(files, v) ==
    /\ DOMAIN files = names(v, Platforms)
    /\ \A p \in Platforms : \E k \in Nat :
          /\ files[Archive(v, p)] = archiveOf(Tree(<<k, p>>, p, v), <<v, p>>)
          /\ files[Sidecar(Archive(v, p))]
                = sumOf(archiveOf(Tree(<<k, p>>, p, v), <<v, p>>), Archive(v, p))
          /\ files[Sbom(v, p)] = sbomOf(Tree(<<k, p>>, p, v), <<v, p>>)
    /\ files[Source(v)] = archiveOf([id |-> "tagged", climbs |-> FALSE], v)
    /\ files[Sidecar(Source(v))]
          = sumOf(archiveOf([id |-> "tagged", climbs |-> FALSE], v), Source(v))

LEMMA DownloadedWhole ==
    ASSUME ArtifactsInv, \A i \in Instances : i[1] \in {"build", "source"} => Ok(i)
    PROVE  Whole(Downloaded, tag.version)
<1> DEFINE v == tag.version
<1>1. "source" \in DOMAIN artifacts /\ \A p \in Platforms : p \in DOMAIN artifacts
  <2>1. \A p \in Platforms : Ok(<<"build", p>>)
    BY Kinds
  <2>2. Ok(SourceJob)
    BY Kinds
  <2> QED BY <2>1, <2>2 DEF ArtifactsInv
<1>2. ASSUME NEW p \in Platforms
      PROVE  /\ {Archive(v, p), Sidecar(Archive(v, p)), Sbom(v, p)} \subseteq DOMAIN Downloaded
             /\ \E k \in Nat :
                  /\ Downloaded[Archive(v, p)] = archiveOf(Tree(<<k, p>>, p, v), <<v, p>>)
                  /\ Downloaded[Sidecar(Archive(v, p))]
                        = sumOf(archiveOf(Tree(<<k, p>>, p, v), <<v, p>>), Archive(v, p))
                  /\ Downloaded[Sbom(v, p)] = sbomOf(Tree(<<k, p>>, p, v), <<v, p>>)
  <2> DEFINE k == artifacts[p].attempt
  <2>1. artifacts[p].files = BinaryFiles(v, p, k) /\ k \in Nat
    BY <1>1 DEF ArtifactsInv
  <2>2. BinaryContents(v, p, k)
    BY BinaryNames
  <2>3. /\ DOMAIN artifacts[p].files = {Archive(v, p), Sidecar(Archive(v, p)), Sbom(v, p)}
        /\ artifacts[p].files[Archive(v, p)] = archiveOf(Tree(<<k, p>>, p, v), <<v, p>>)
        /\ artifacts[p].files[Sidecar(Archive(v, p))]
              = sumOf(archiveOf(Tree(<<k, p>>, p, v), <<v, p>>), Archive(v, p))
        /\ artifacts[p].files[Sbom(v, p)] = sbomOf(Tree(<<k, p>>, p, v), <<v, p>>)
    BY <2>1, <2>2 DEF BinaryContents
  <2>4. \A n \in DOMAIN artifacts[p].files :
           n \in DOMAIN Downloaded /\ Downloaded[n] = artifacts[p].files[n]
    BY <1>1, DownloadedBinary
  <2> HIDE DEF k
  <2>5. {Archive(v, p), Sidecar(Archive(v, p)), Sbom(v, p)} \subseteq DOMAIN Downloaded
    BY <2>3, <2>4
  <2>6. /\ Downloaded[Archive(v, p)] = archiveOf(Tree(<<k, p>>, p, v), <<v, p>>)
        /\ Downloaded[Sidecar(Archive(v, p))]
              = sumOf(archiveOf(Tree(<<k, p>>, p, v), <<v, p>>), Archive(v, p))
        /\ Downloaded[Sbom(v, p)] = sbomOf(Tree(<<k, p>>, p, v), <<v, p>>)
    BY <2>3, <2>4
  <2> QED BY <2>1, <2>5, <2>6, Zenon
<1>3. /\ {Source(v), Sidecar(Source(v))} \subseteq DOMAIN Downloaded
      /\ Downloaded[Source(v)] = archiveOf([id |-> "tagged", climbs |-> FALSE], v)
      /\ Downloaded[Sidecar(Source(v))]
            = sumOf(archiveOf([id |-> "tagged", climbs |-> FALSE], v), Source(v))
  <2>1. artifacts["source"].files = SourceFiles(v)
    BY <1>1 DEF ArtifactsInv
  <2>2. \A n \in DOMAIN artifacts["source"].files :
           n \in DOMAIN Downloaded /\ Downloaded[n] = artifacts["source"].files[n]
    BY <1>1, DownloadedSource
  <2> QED BY <2>1, <2>2, SourceNames
<1>4. DOMAIN Downloaded = names(v, Platforms)
  <2>1. \A n \in DOMAIN Downloaded : n \in names(v, Platforms)
    BY DownloadedSuits DEF Suits
  <2>2. ASSUME NEW n \in names(v, Platforms)
        PROVE  n \in DOMAIN Downloaded
    <3>1. \/ n \in {Source(v), Sidecar(Source(v))}
          \/ \E p \in Platforms : n \in {Archive(v, p), Sidecar(Archive(v, p)), Sbom(v, p)}
      BY NamesOfRelease
    <3> QED BY <1>2, <1>3, <3>1
  <2> QED BY <2>1, <2>2
<1> QED BY <1>2, <1>3, <1>4 DEF Whole

-----------------------------------------------------------------------------
(* The release page                                                        *)

LEMMA PageKept ==
    ASSUME JobsInv, PageInv, NEW f,
           \/ page' = [page EXCEPT ![tag.version].files = f]
           \/ page' = [page EXCEPT ![tag.version].prerelease = f]
    PROVE  /\ page' = [v \in Pages |->
                          [files |-> page'[v].files, prerelease |-> page'[v].prerelease]]
           /\ \A v \in Pages \ {tag.version} : page'[v] = page[v]
<1>1. tag.version \in Pages
  BY DEF JobsInv, Pages
<1>2. page = [v \in Pages |-> [files |-> page[v].files, prerelease |-> page[v].prerelease]]
  BY DEF PageInv
<1>3. CASE page' = [page EXCEPT ![tag.version].files = f]
  BY <1>1, <1>2, <1>3
<1>4. CASE page' = [page EXCEPT ![tag.version].prerelease = f]
  BY <1>1, <1>2, <1>4
<1> QED BY <1>3, <1>4

\* What is on the page after a step was there before, or is a file of the
\* release job that is being uploaded.
LEMMA PageChange ==
    ASSUME JobsInv, PageInv, NEW k \in Instances, Effect(k)
    PROVE  /\ page' = [v \in Pages |->
                          [files |-> page'[v].files, prerelease |-> page'[v].prerelease]]
           /\ \A v \in Pages \ {tag.version} : page'[v] = page[v]
           /\ \A n \in DOMAIN page'[tag.version].files :
                 \/ /\ n \in DOMAIN page[tag.version].files
                    /\ page'[tag.version].files[n] = page[tag.version].files[n]
                 \/ /\ Uploading(k) /\ n \in DOMAIN job[k].files
                    /\ page'[tag.version].files[n] = job[k].files[n]
<1>0. /\ page = [v \in Pages |-> [files |-> page[v].files, prerelease |-> page[v].prerelease]]
      /\ tag.version \in Pages
  BY DEF PageInv, JobsInv, Pages
<1>1. CASE page' = page
  BY <1>0, <1>1
<1>2. CASE Opening(k)
  <2>1. page' = [page EXCEPT ![tag.version].prerelease = tag.prerelease]
    BY <1>2 DEF Opening
  <2>2. page'[tag.version].files = page[tag.version].files
    BY <1>0, <2>1
  <2> QED BY <2>1, <2>2, PageKept
<1>3. CASE Uploading(k)
  <2>1. PICK kind \in job[k].todo \ {"end"} :
           page' = [page EXCEPT ![tag.version].files =
                       over(@, restrict(job[k].files, ofKinds(job[k].files, {kind})))]
    BY <1>3 DEF Uploading
  <2> DEFINE f == over(page[tag.version].files,
                       restrict(job[k].files, ofKinds(job[k].files, {kind})))
  <2>2. page' = [page EXCEPT ![tag.version].files = f]
    BY <2>1
  <2>3. \A n \in DOMAIN f :
           \/ n \in DOMAIN page[tag.version].files /\ f[n] = page[tag.version].files[n]
           \/ n \in DOMAIN job[k].files /\ f[n] = job[k].files[n]
    BY DEF over, restrict
  <2> HIDE DEF f
  <2>4. page'[tag.version].files = f
    BY <1>0, <2>2
  <2> QED BY <1>3, <2>2, <2>3, <2>4, PageKept
<1>4. CASE Failing(k)
  <2>1. CASE page' # page
    <3>1. PICK kind \in job[k].todo \ {"end"} :
             page' = [page EXCEPT ![tag.version].files =
                         restrict(@, DOMAIN @ \ ofKinds(job[k].files, {kind}))]
      BY <1>4, <2>1 DEF Failing
    <3> DEFINE g == page[tag.version].files
               f == restrict(g, DOMAIN g \ ofKinds(job[k].files, {kind}))
    <3>2. page' = [page EXCEPT ![tag.version].files = f]
      BY <3>1
    <3>3. \A n \in DOMAIN f : n \in DOMAIN g /\ f[n] = g[n]
      BY DEF restrict
    <3> HIDE DEF f
    <3>4. page'[tag.version].files = f
      BY <1>0, <3>2
    <3> QED BY <3>2, <3>3, <3>4, PageKept
  <2> QED BY <1>1, <2>1
<1> QED BY <1>1, <1>2, <1>3, <1>4 DEF Effect, Starting, Skipping, Going

LEMMA PublishedFiles ==
    /\ DOMAIN Published = DOMAIN page[tag.version].files \ {Stray}
    /\ \A n \in DOMAIN Published : Published[n] = page[tag.version].files[n]
  BY DEF Published, restrict

\* While it creates the release, the job has what it downloaded and attested.
LEMMA Creating ==
    ASSUME JobsInv, NEW k \in Instances, At(k, "create")
    PROVE  /\ k = ReleaseJob
           /\ Passed(ReleaseJob, 2) /\ Passed(ReleaseJob, 3) /\ Passed(ReleaseJob, 4)
  BY Creates DEF Passed

LEMMA PageStep ==
    ASSUME JobsInv, FilesInv, ArtifactsInv, PageInv, [PipelineNext]_pipelineVars
    PROVE  PageInv'
<1>1. CASE UNCHANGED pipelineVars
  BY <1>1 DEF pipelineVars, PageInv, Published, Suits
<1>2. ASSUME NEW k \in Instances, Effect(k)
      PROVE  PageInv'
  <2>1. tag' = tag
    BY <1>2, EffectOnJobs
  <2>2. ASSUME NEW n \in DOMAIN Published'
        PROVE  Suits(n, Published'[n])
    <3>1. /\ n \in DOMAIN page'[tag.version].files /\ n # Stray
          /\ Published'[n] = page'[tag.version].files[n]
      BY <2>1, <2>2 DEF Published, restrict
    <3>2. CASE /\ n \in DOMAIN page[tag.version].files
               /\ page'[tag.version].files[n] = page[tag.version].files[n]
      BY <3>1, <3>2, PublishedFiles DEF PageInv
    <3>3. CASE /\ Uploading(k) /\ n \in DOMAIN job[k].files
               /\ page'[tag.version].files[n] = job[k].files[n]
      <4>1. At(k, "create")
        BY <3>3 DEF Uploading, Publishes
      <4>2. job[k].files = Downloaded
        BY <4>1, Creating DEF FilesInv
      <4> QED BY <3>1, <3>3, <4>2, DownloadedSuits
    <3> QED BY <1>2, <3>1, <3>2, <3>3, PageChange
  <2>3. (\A n \in DOMAIN Published : Suits(n, Published[n]))'
    BY <2>1, <2>2 DEF Suits
  <2> QED BY <1>2, <2>1, <2>3, PageChange DEF PageInv
<1>3. CASE Rerunning
  BY <1>3 DEF Rerunning, PageInv, Published, Suits
<1> QED BY <1>1, <1>2, <1>3, Steps

LEMMA AttestedStep ==
    ASSUME JobsInv, PageInv, AttestedInv, [PipelineNext]_pipelineVars
    PROVE  AttestedInv'
<1>1. CASE UNCHANGED pipelineVars
  BY <1>1 DEF pipelineVars, AttestedInv, Passed, PublishedIsAttested, Published
<1>2. ASSUME NEW k \in Instances, Effect(k)
      PROVE  AttestedInv'
  <2>1. tag' = tag
    BY <1>2, EffectOnJobs
  <2>2. attested \subseteq attested'
    BY <1>2 DEF Effect, Starting, Skipping, Going, Opening, Uploading, Failing
  <2>3. ASSUME Passed(ReleaseJob, 4)'
        PROVE  \A n \in ofKinds(job'[ReleaseJob].files, {"tar.gz", "tar.xz"}) :
                  job'[ReleaseJob].files[n] \in attested'
    <3>1. ReleaseJob \in Instances /\ ReleaseJob[1] = "release"
      BY Kinds
    <3>2. CASE Passed(ReleaseJob, 4) /\ job'[ReleaseJob].files = job[ReleaseJob].files
      BY <2>2, <3>2 DEF AttestedInv
    <3>3. CASE ReleaseJob = k /\ Going(k)
      <4>1. job[k].status = "running" /\ job[k].step \in Nat
        BY <3>3, Kinds DEF Going, Moves, JobsInv
      <4>2. job[k].step = 4 \/ Passed(k, 4)
        BY <2>3, <3>3, <4>1 DEF Going, Moves, Passed
      <4>3. job'[k].files = job[k].files
        <5>1. ~At(k, "binary") /\ ~At(k, "source") /\ ~At(k, "download")
          BY <3>1, <3>3, <4>1, <4>2, Places DEF Passed
        <5> QED BY <3>3, <5>1 DEF Going, Moves
      <4>4. CASE job[k].step = 4
        <5>1. At(k, "attest")
          BY <3>1, <3>3, <4>1, <4>4, Places
        <5>2. attested' = attested \cup {job[k].files[n] :
                                            n \in ofKinds(job[k].files, {"tar.gz", "tar.xz"})}
          BY <3>3, <5>1 DEF Going
        <5> QED BY <3>3, <4>3, <5>2
      <4> QED BY <3>2, <3>3, <4>2, <4>3, <4>4
    <3>4. CASE ReleaseJob = k /\ (Opening(k) \/ Uploading(k))
      <4>1. /\ job[k].status = "running" /\ job'[k].step = job[k].step
            /\ job'[k].files = job[k].files
        BY <3>4 DEF Opening, Uploading, Publishes, At
      <4> QED BY <2>3, <3>2, <3>4, <4>1 DEF Passed
    <3>5. ~Starting(ReleaseJob)
      BY <2>3 DEF Starting, Begins, Passed
    <3>6. CASE job'[ReleaseJob] = job[ReleaseJob]
      BY <2>3, <3>2, <3>6 DEF Passed
    <3> QED BY <1>2, <2>3, <3>1, <3>3, <3>4, <3>5, <3>6, EffectOnJobs DEF Passed
  <2>4. PublishedIsAttested'
    <3>1. SUFFICES ASSUME NEW n \in DOMAIN Published', n.kind \in {"tar.gz", "tar.xz"}
                   PROVE  Published'[n] \in attested'
      BY DEF PublishedIsAttested, ofKinds
    <3>2. /\ n \in DOMAIN page'[tag.version].files /\ n # Stray
          /\ Published'[n] = page'[tag.version].files[n]
      BY <2>1, <3>1 DEF Published, restrict
    <3>3. CASE /\ n \in DOMAIN page[tag.version].files
               /\ page'[tag.version].files[n] = page[tag.version].files[n]
      <4>1. n \in ofKinds(Published, {"tar.gz", "tar.xz"})
        BY <3>1, <3>2, <3>3, PublishedFiles DEF ofKinds
      <4>2. Published[n] \in attested
        BY <4>1 DEF AttestedInv, PublishedIsAttested
      <4> QED BY <2>2, <3>2, <3>3, <4>2, PublishedFiles
    <3>4. CASE /\ Uploading(k) /\ n \in DOMAIN job[k].files
               /\ page'[tag.version].files[n] = job[k].files[n]
      <4>1. At(k, "create")
        BY <3>4 DEF Uploading, Publishes
      <4>2. n \in ofKinds(job[k].files, {"tar.gz", "tar.xz"})
        BY <3>1, <3>4 DEF ofKinds
      <4> QED BY <2>2, <3>2, <3>4, <4>1, <4>2, Creating DEF AttestedInv
    <3> QED BY <1>2, <3>2, <3>3, <3>4, PageChange
  <2> QED BY <2>3, <2>4 DEF AttestedInv
<1>3. CASE Rerunning
  <2>1. Passed(ReleaseJob, 4)' => Passed(ReleaseJob, 4) /\ job'[ReleaseJob] = job[ReleaseJob]
    BY <1>3, RerunOfJobs, Kinds DEF Passed
  <2> QED BY <1>3, <2>1 DEF Rerunning, AttestedInv, PublishedIsAttested, Published
<1> QED BY <1>1, <1>2, <1>3, Steps

\* An upload of one kind leaves the files of the others as they are.
LEMMA KindUploaded ==
    ASSUME JobsInv, PageInv, NEW k \in Instances, Uploading(k)
    PROVE  \E kind \in job[k].todo \ {"end"} :
              /\ job'[k].todo = job[k].todo \ {kind}
              /\ page'[tag.version].prerelease = page[tag.version].prerelease
              /\ \A n \in DOMAIN job[k].files : n.kind = kind =>
                    /\ n \in DOMAIN page'[tag.version].files
                    /\ page'[tag.version].files[n] = job[k].files[n]
              /\ \A n \in DOMAIN page[tag.version].files :
                    /\ n \in DOMAIN page'[tag.version].files
                    /\ n.kind # kind =>
                         page'[tag.version].files[n] = page[tag.version].files[n]
<1>1. PICK kind \in job[k].todo \ {"end"} :
         /\ job'[k].todo = job[k].todo \ {kind}
         /\ page' = [page EXCEPT ![tag.version].files =
                        over(@, restrict(job[k].files, ofKinds(job[k].files, {kind})))]
  BY DEF Uploading
<1> DEFINE f == over(page[tag.version].files,
                     restrict(job[k].files, ofKinds(job[k].files, {kind})))
<1>2. page' = [page EXCEPT ![tag.version].files = f]
  BY <1>1
<1>3. \A n \in DOMAIN job[k].files : n.kind = kind => n \in DOMAIN f /\ f[n] = job[k].files[n]
  BY DEF over, restrict, ofKinds
<1>4. \A n \in DOMAIN page[tag.version].files :
         n \in DOMAIN f /\ (n.kind # kind => f[n] = page[tag.version].files[n])
  BY DEF over, restrict, ofKinds
<1> HIDE DEF f
<1>5. /\ page'[tag.version].files = f
      /\ page'[tag.version].prerelease = page[tag.version].prerelease
  <2>1. /\ page = [v \in Pages |-> [files |-> page[v].files, prerelease |-> page[v].prerelease]]
        /\ tag.version \in Pages
    BY DEF PageInv, JobsInv, Pages
  <2> QED BY <1>2, <2>1
<1> QED BY <1>1, <1>3, <1>4, <1>5

LEMMA UploadedStep ==
    ASSUME JobsInv, NeedsInv, FilesInv, ArtifactsInv, PageInv, UploadedInv,
           [PipelineNext]_pipelineVars
    PROVE  UploadedInv'
<1>0. ReleaseJob \in Instances /\ ReleaseJob[1] = "release"
  BY Kinds
<1>1. CASE UNCHANGED pipelineVars
  BY <1>1 DEF pipelineVars, UploadedInv, Uploaded, Ok
<1>2. ASSUME NEW k \in Instances, Effect(k), k # ReleaseJob \/ ~(Opening(k) \/ Uploading(k))
      PROVE  UploadedInv'
  <2>1. tag' = tag
    BY <1>2, EffectOnJobs
  <2>2. CASE job'[ReleaseJob] = job[ReleaseJob] /\ page' = page
    BY <2>1, <2>2 DEF UploadedInv, Uploaded, Ok
  <2>3. CASE k = ReleaseJob
    <3>1. CASE Going(k)
      <4>1. page' = page /\ job'[k].todo = {}
        BY <3>1 DEF Going, Moves
      <4>2. ASSUME Ok(ReleaseJob)'
            PROVE  /\ page[tag.version].prerelease = tag.prerelease
                   /\ job'[k].files = job[k].files
                   /\ \A n \in DOMAIN job[k].files : Uploaded(n)
        <5>1. job[k].status = "running" /\ job[k].step = 5
          <6>1. Len(expected_steps["release"]) = 5
            BY DEF expected_steps
          <6> QED BY <1>0, <2>3, <3>1, <4>2, <6>1 DEF Going, Moves, Ok
        <5>2. At(k, "create") /\ ~At(k, "binary") /\ ~At(k, "source") /\ ~At(k, "download")
          BY <1>0, <2>3, <5>1, Places
        <5>3. job[k].todo = {"end"} /\ job'[k].files = job[k].files
          BY <3>1, <5>2 DEF Going, Moves
        <5>4. \A n \in DOMAIN job[k].files : n.kind # "end"
          <6>1. job[k].files = Downloaded
            BY <2>3, <5>2, Creating DEF FilesInv
          <6> QED BY <6>1, DownloadedSuits, NamesOfRelease DEF Suits
        <5> QED BY <2>3, <5>1, <5>3, <5>4 DEF UploadedInv
      <4> QED BY <2>1, <2>3, <4>1, <4>2 DEF UploadedInv, Uploaded
    <3>2. CASE Starting(k)
      BY <2>3, <3>2 DEF Starting, Begins, UploadedInv, Ok
    <3>3. CASE Skipping(k)
      BY <2>3, <3>3 DEF Skipping, UploadedInv, Ok
    <3>4. CASE Failing(k)
      <4>1. job'[k].status = "failed"
        BY <3>4, Fails DEF Failing
      <4> QED BY <2>3, <4>1 DEF UploadedInv, Ok
    <3> QED BY <1>2, <2>3, <3>1, <3>2, <3>3, <3>4 DEF Effect
  <2>4. CASE k # ReleaseJob /\ job'[ReleaseJob] # job[ReleaseJob]
    <3>1. job'[ReleaseJob].status \notin {"running", "ok"}
      BY <1>0, <1>2, <2>4, EffectOnJobs
    <3> QED BY <3>1 DEF UploadedInv, Ok
  <2>5. k # ReleaseJob => page' = page
    BY <1>2, EffectOnJobs
  <2> QED BY <2>2, <2>3, <2>4, <2>5
<1>3. ASSUME NEW k \in Instances, Effect(k), k = ReleaseJob, Opening(k)
      PROVE  UploadedInv'
  <2>1. tag' = tag /\ At(k, "create")
    BY <1>3, EffectOnJobs DEF Opening, Publishes
  <2>2. /\ job'[k].status = "running" /\ job'[k].files = job[k].files
        /\ job'[k].todo = workflow.files \cup {"end"}
    BY <1>3 DEF Opening, Publishes
  <2>3. page'[tag.version].prerelease = tag.prerelease
    <3>1. page' = [page EXCEPT ![tag.version].prerelease = tag.prerelease]
      BY <1>3 DEF Opening
    <3>2. /\ page = [v \in Pages |-> [files |-> page[v].files,
                                      prerelease |-> page[v].prerelease]]
          /\ tag.version \in Pages
      BY DEF PageInv, JobsInv, Pages
    <3> QED BY <3>1, <3>2
  <2>4. \A n \in DOMAIN job[k].files : n.kind \in job'[k].todo
    <3>1. job[k].files = Downloaded
      BY <1>3, <2>1, Creating DEF FilesInv
    <3>2. workflow.files = {"tar.gz", "tar.xz", "gz.sha256", "xz.sha256", "sbom"}
      BY Accepted
    <3> QED BY <2>2, <3>1, <3>2, DownloadedSuits, NamesOfRelease DEF Suits
  <2> QED BY <1>3, <2>1, <2>2, <2>3, <2>4 DEF UploadedInv, Ok
<1>4. ASSUME NEW k \in Instances, Effect(k), k = ReleaseJob, Uploading(k)
      PROVE  UploadedInv'
  <2>1. tag' = tag /\ job[k].status = "running"
    BY <1>4, EffectOnJobs DEF Uploading, Publishes, At
  <2>2. job'[k].status = "running" /\ job'[k].files = job[k].files
    BY <1>4 DEF Uploading, Publishes
  <2>3. PICK kind \in job[k].todo \ {"end"} :
           /\ job'[k].todo = job[k].todo \ {kind}
           /\ page'[tag.version].prerelease = page[tag.version].prerelease
           /\ \A n \in DOMAIN job[k].files : n.kind = kind =>
                 /\ n \in DOMAIN page'[tag.version].files
                 /\ page'[tag.version].files[n] = job[k].files[n]
           /\ \A n \in DOMAIN page[tag.version].files :
                 /\ n \in DOMAIN page'[tag.version].files
                 /\ n.kind # kind =>
                      page'[tag.version].files[n] = page[tag.version].files[n]
    BY <1>4, KindUploaded
  <2>4. page[tag.version].prerelease = tag.prerelease
    BY <1>4, <2>1, <2>3 DEF UploadedInv
  <2>5. ASSUME NEW n \in DOMAIN job[k].files, n.kind \notin job'[k].todo
        PROVE  /\ n \in DOMAIN page'[tag.version].files
               /\ page'[tag.version].files[n] = job[k].files[n]
    <3>1. CASE n.kind = kind
      BY <2>3, <3>1
    <3>2. CASE n.kind # kind
      <4>1. n.kind \notin job[k].todo
        BY <2>3, <2>5, <3>2
      <4>2. Uploaded(n)
        BY <1>4, <2>1, <2>3, <4>1 DEF UploadedInv
      <4> QED BY <1>4, <2>3, <3>2, <4>2 DEF Uploaded
    <3> QED BY <3>1, <3>2
  <2> QED BY <1>4, <2>1, <2>2, <2>3, <2>4, <2>5 DEF UploadedInv, Uploaded, Ok
<1>5. CASE Rerunning
  <2>1. job'[ReleaseJob].status \in {"running", "ok"} =>
           Ok(ReleaseJob) /\ job'[ReleaseJob] = job[ReleaseJob]
    BY <1>0, <1>5, RerunOfJobs
  <2> QED BY <1>5, <2>1 DEF Rerunning, UploadedInv, Uploaded, Ok
<1> QED BY <1>1, <1>2, <1>3, <1>4, <1>5, Steps

LEMMA SmokedStep ==
    ASSUME JobsInv, NeedsInv, VersionInv, SmokedInv, [PipelineNext]_pipelineVars
    PROVE  SmokedInv'
<1>1. CASE UNCHANGED pipelineVars
  BY <1>1 DEF pipelineVars, SmokedInv, Ok, Counts
<1>2. ASSUME NEW k \in Instances, Effect(k), NEW p \in Platforms, Ok(<<"smoke", p>>)',
             Counts("expected_assets")
      PROVE  DOMAIN page'[tag.version].files = names(tag.version, Platforms)
  <2> DEFINE i == <<"smoke", p>>
  <2>1. i \in Instances /\ i[1] = "smoke" /\ i # ReleaseJob
    BY Kinds DEF ReleaseJob
  <2>2. job'[i] = job[i] \/ (i = k /\ Going(k))
    BY <1>2, <2>1, EffectOnJobs DEF Ok, Starting, Begins, Opening, Uploading, Publishes
  <2>3. job[i].status \in {"running", "ok"}
    BY <1>2, <2>2 DEF Ok, Going, Moves
  <2>4. page' = page
    <3>1. Ok(ReleaseJob)
      BY <2>1, <2>3 DEF NeedsInv
    <3>2. k # ReleaseJob
      BY <1>2, <3>1, EffectOnJobs DEF Ok
    <3> QED BY <1>2, <3>2, EffectOnJobs
  <2>5. CASE Ok(i)
    BY <1>2, <2>4, <2>5 DEF SmokedInv
  <2>6. CASE i = k /\ Going(k)
    <3>1. job[k].status = "running" /\ job[k].step = 4
      <4>1. Len(expected_steps["smoke"]) = 4
        BY DEF expected_steps
      <4> QED BY <1>2, <2>1, <2>6, <4>1 DEF Going, Moves, Ok
    <3>2. At(k, "smoke")
      BY <2>1, <2>6, <3>1, Places
    <3>3. run_smoke(k)
      BY <2>6, <3>2 DEF Going
    <3>4. DOMAIN page[tag.version].files = names(job[k].version, workflow.manifest)
      <4>1. "expected_assets" \in workflow.smoke.calls
        BY Accepted DEF SmokeChecks
      <4> QED BY <1>2, <3>3, <4>1 DEF run_smoke, expected_assets, Made
    <3>5. job[k].version = tag.version
      BY <2>1, <2>6, <3>1 DEF VersionInv, VersionAt, Passed
    <3> QED BY <2>4, <3>4, <3>5, Accepted
  <2> QED BY <1>2, <2>2, <2>5, <2>6 DEF Ok
<1>3. ASSUME NEW k \in Instances, Effect(k)
      PROVE  SmokedInv'
  <2>1. tag' = tag /\ workflow' = workflow
    BY <1>3, EffectOnJobs
  <2> QED BY <1>2, <1>3, <2>1 DEF SmokedInv, Counts
<1>4. CASE Rerunning
  <2>1. \A p \in Platforms : Ok(<<"smoke", p>>)' => Ok(<<"smoke", p>>)
    BY <1>4, RerunOfJobs, Kinds DEF Ok
  <2> QED BY <1>4, <2>1 DEF Rerunning, SmokedInv, Counts
<1> QED BY <1>1, <1>3, <1>4, Steps

-----------------------------------------------------------------------------
(* A release that is finished                                              *)

\* Once the release job has succeeded, all that it downloaded, which is all of
\* a release, is on the page.
LEMMA Released ==
    ASSUME JobsInv, NeedsInv, FilesInv, ArtifactsInv, UploadedInv, Ok(ReleaseJob)
    PROVE  /\ Whole(Downloaded, tag.version)
           /\ \A n \in names(tag.version, Platforms) :
                 /\ n \in DOMAIN page[tag.version].files
                 /\ page[tag.version].files[n] = Downloaded[n]
           /\ page[tag.version].prerelease = tag.prerelease
<1>1. \A i \in Instances : i[1] \in {"build", "source"} => Ok(i)
  BY DEF NeedsInv, Ok
<1>2. Whole(Downloaded, tag.version)
  BY <1>1, DownloadedWhole
<1>3. Passed(ReleaseJob, 2)
  <2>1. ReleaseJob \in Instances /\ ReleaseJob[1] = "release"
    BY Kinds
  <2>2. Len(expected_steps["release"]) = 5
    BY DEF expected_steps
  <2>3. job[ReleaseJob].step = Len(expected_steps[ReleaseJob[1]])
    BY <2>1 DEF JobsInv, Ok
  <2>4. job[ReleaseJob].step = 5
    BY <2>1, <2>2, <2>3
  <2> QED BY <2>4 DEF Ok, Passed
<1>4. job[ReleaseJob].files = Downloaded
  BY <1>3 DEF FilesInv
<1> QED BY <1>2, <1>4 DEF UploadedInv, Uploaded, Whole

LEMMA PageIsWhole ==
    ASSUME JobsInv, NeedsInv, FilesInv, ArtifactsInv, UploadedInv, Ok(ReleaseJob),
           NEW f, DOMAIN f = names(tag.version, Platforms),
           \A n \in DOMAIN f : f[n] = page[tag.version].files[n]
    PROVE  Whole(f, tag.version)
<1> DEFINE v == tag.version
           d == Downloaded
<1>1. /\ Whole(d, v) /\ DOMAIN f = names(v, Platforms)
      /\ \A n \in names(v, Platforms) : f[n] = d[n]
  BY Released
<1> HIDE DEF v, d
<1>2. /\ \A p \in Platforms :
            {Archive(v, p), Sidecar(Archive(v, p)), Sbom(v, p)} \subseteq names(v, Platforms)
      /\ {Source(v), Sidecar(Source(v))} \subseteq names(v, Platforms)
  BY DEF names
<1>3. ASSUME NEW p \in Platforms
      PROVE  \E k \in Nat :
                /\ f[Archive(v, p)] = archiveOf(Tree(<<k, p>>, p, v), <<v, p>>)
                /\ f[Sidecar(Archive(v, p))]
                      = sumOf(archiveOf(Tree(<<k, p>>, p, v), <<v, p>>), Archive(v, p))
                /\ f[Sbom(v, p)] = sbomOf(Tree(<<k, p>>, p, v), <<v, p>>)
  <2>1. PICK k \in Nat :
           /\ d[Archive(v, p)] = archiveOf(Tree(<<k, p>>, p, v), <<v, p>>)
           /\ d[Sidecar(Archive(v, p))]
                 = sumOf(archiveOf(Tree(<<k, p>>, p, v), <<v, p>>), Archive(v, p))
           /\ d[Sbom(v, p)] = sbomOf(Tree(<<k, p>>, p, v), <<v, p>>)
    BY <1>1 DEF Whole
  <2>2. /\ f[Archive(v, p)] = d[Archive(v, p)]
        /\ f[Sidecar(Archive(v, p))] = d[Sidecar(Archive(v, p))]
        /\ f[Sbom(v, p)] = d[Sbom(v, p)]
    BY <1>1, <1>2
  <2> QED BY <2>1, <2>2
<1>4. f[Source(v)] = d[Source(v)] /\ f[Sidecar(Source(v))] = d[Sidecar(Source(v))]
  BY <1>1, <1>2
<1>5. Whole(f, v)
  BY <1>1, <1>3, <1>4 DEF Whole
<1> QED BY <1>5 DEF v

\* Such files pass "release.py verify".
LEMMA WholeVerifies ==
    ASSUME NEW f, NEW v, Whole(f, v), StartsWith(v, v)
    PROVE  verify_assets(f, v, Platforms)
<1>1. {n \in DOMAIN f : StartsWith(n.v, v)} = names(v, Platforms)
  <2>1. \A n \in names(v, Platforms) : n.v = v
    BY NamesOfRelease
  <2> QED BY <2>1 DEF Whole
<1>2. ASSUME NEW p \in Platforms
      PROVE  /\ verify_archive(f[Archive(v, p)], v, p)
             /\ verify_checksum(f, Archive(v, p))
             /\ SbomMatches(f, v, p)
  <2>1. PICK k \in Nat :
           /\ f[Archive(v, p)] = archiveOf(Tree(<<k, p>>, p, v), <<v, p>>)
           /\ f[Sidecar(Archive(v, p))]
                 = sumOf(archiveOf(Tree(<<k, p>>, p, v), <<v, p>>), Archive(v, p))
           /\ f[Sbom(v, p)] = sbomOf(Tree(<<k, p>>, p, v), <<v, p>>)
    BY DEF Whole
  <2>2. verify_archive(f[Archive(v, p)], v, p)
    <3>1. verify_archive(archiveOf(Tree(<<k, p>>, p, v), <<v, p>>), v, p)
      BY DEF verify_archive, archiveOf, Tree, Dirs
    <3> QED BY <2>1, <3>1
  <2>3. verify_checksum(f, Archive(v, p))
    BY <2>1 DEF verify_checksum
  <2>4. SbomMatches(f, v, p)
    BY <2>1 DEF SbomMatches, sbomOf, archiveOf
  <2> QED BY <2>2, <2>3, <2>4
<1>3. verify_checksum(f, Source(v))
  BY DEF Whole, verify_checksum
<1>4. SourceReadable(f, v)
  BY DEF Whole, SourceReadable, archiveOf
<1> QED BY <1>1, <1>2, <1>3, <1>4 DEF verify_assets

\* The smoke test of an undisturbed release passes.
LEMMA SmokePasses ==
    ASSUME JobsInv, NeedsInv, VersionInv, FilesInv, ArtifactsInv, PageInv, UploadedInv,
           NEW k \in Instances, At(k, "smoke"),
           tag.parses, Stray \notin DOMAIN page[tag.version].files
    PROVE  run_smoke(k)
<1> DEFINE v == tag.version
           f == page[tag.version].files
           n == Archive(v, k[2])
<1>1. /\ job[k].status = "running" /\ k[1] = "smoke" /\ job[k].step = 4
      /\ k[2] \in Platforms
  <2>1. job[k].status = "running"
    BY DEF At
  <2>2. k[1] = "smoke" /\ job[k].step = 4
    BY <2>1, Places
  <2> QED BY <2>1, <2>2, Kinds DEF SourceJob, ReleaseJob
<1>2. job[k].version = v
  BY <1>1 DEF VersionInv, VersionAt, Passed
<1>3. Ok(ReleaseJob)
  BY <1>1 DEF NeedsInv
<1>4. DOMAIN f = names(v, Platforms)
  <2>1. \A m \in names(v, Platforms) : m \in DOMAIN f
    BY <1>3, Released
  <2>2. \A m \in DOMAIN f : m \in names(v, Platforms)
    BY PublishedFiles DEF PageInv, Suits
  <2> QED BY <2>1, <2>2
<1>5. Whole(f, v)
  BY <1>3, <1>4, PageIsWhole
<1>6. workflow.smokeOn[k[2]] = k[2] /\ workflow.manifest = Platforms
  BY <1>1, Runners, Accepted
<1> HIDE DEF v, f
<1>7. n \in DOMAIN f /\ Sidecar(n) \in DOMAIN f
  BY <1>1, <1>4 DEF names
<1>8. PICK a \in Nat :
         /\ f[n] = archiveOf(Tree(<<a, k[2]>>, k[2], v), <<v, k[2]>>)
         /\ f[Sidecar(n)] = sumOf(archiveOf(Tree(<<a, k[2]>>, k[2], v), <<v, k[2]>>), n)
  BY <1>1, <1>5 DEF Whole
<1> HIDE DEF n
<1>9. verify_checksum(f, n)
  BY <1>8 DEF verify_checksum
<1>10. /\ f[n].type = "archive"
       /\ f[n].tree.arch = k[2] /\ f[n].tree.rpmz = v /\ f[n].tree.tdnf = v
       /\ f[n].tree.bins = {"rpmz"} /\ {"lib", "libexec", "etc"} \subseteq f[n].tree.dirs
       /\ f[n].tree.native
  BY <1>8 DEF archiveOf, Tree, Dirs
<1>11. GhrInstall(k) /\ InstalledIsGood(k)
  BY <1>2, <1>6, <1>7, <1>10 DEF GhrInstall, InstalledIsGood, v, f, n
<1>12. validate_arguments(k)
  BY <1>1, <1>2, <1>6 DEF validate_arguments, v
<1>13. DOMAIN f = expected_assets(job[k].version)
  BY <1>2, <1>4, <1>6 DEF expected_assets
<1> QED BY <1>2, <1>7, <1>9, <1>11, <1>12, <1>13 DEF run_smoke, v, f, n

\* Without a step that is made to fail none fails, if the tag parses and the
\* page holds no file of another hand.
LEMMA NoReason ==
    ASSUME JobsInv, NeedsInv, VersionInv, FilesInv, ArtifactsInv, PageInv, UploadedInv,
           FreeNames, NEW k \in Instances, Because(k),
           tag.parses, Stray \notin DOMAIN page[tag.version].files
    PROVE  FALSE
<1>1. CASE /\ At(k, "upload") /\ artifactName(k) \in DOMAIN artifacts
           /\ artifacts[artifactName(k)].attempt = job[k].attempt
  <2>1. artifacts[artifactName(k)].attempt < attempt
    <3>1. CASE k[2] \in Platforms /\ k = <<"build", k[2]>> /\ artifactName(k) = k[2]
      BY <1>1, <3>1, Handed DEF FreeNames
    <3>2. CASE k = SourceJob /\ artifactName(k) = "source"
      BY <1>1, <3>2, Handed DEF FreeNames
    <3> QED BY <1>1, <3>1, <3>2, Handed
  <2>2. job[k].attempt = attempt /\ attempt \in Nat
    BY <1>1, Handed DEF JobsInv
  <2> QED BY <1>1, <2>1, <2>2
<1>2. CASE At(k, "attest") /\ ofKinds(job[k].files, {"tar.gz", "tar.xz"}) = {}
  <2>1. job[k].status = "running"
    BY <1>2 DEF At
  <2>2. k = ReleaseJob /\ job[k].step = 4
    BY <1>2, <2>1, Places, Kinds
  <2>3. job[k].files = Downloaded
    BY <2>1, <2>2 DEF FilesInv, Passed
  <2>4. \A i \in Instances : i[1] \in {"build", "source"} => Ok(i)
    BY <2>1, <2>2 DEF NeedsInv
  <2>5. Source(tag.version) \in DOMAIN Downloaded
    BY <2>4, DownloadedWhole DEF Whole, names
  <2>6. Source(tag.version).kind = "tar.xz"
    BY DEF Source, nameOf
  <2> QED BY <1>2, <2>3, <2>5, <2>6 DEF ofKinds
<1>3. CASE At(k, "smoke") /\ ~run_smoke(k)
  BY <1>3, SmokePasses
<1> QED BY <1>1, <1>2, <1>3 DEF Because

LEMMA CleanStep ==
    ASSUME JobsInv, NeedsInv, VersionInv, FilesInv, ArtifactsInv, PageInv, UploadedInv,
           FreeNames, CleanInv, [PipelineNext]_pipelineVars
    PROVE  CleanInv'
<1> DEFINE Good(s) == s \in {"queued", "running", "ok"}
<1>1. CASE UNCHANGED pipelineVars
  BY <1>1 DEF pipelineVars, CleanInv, Undisturbed
<1>2. ASSUME NEW k \in Instances,
             Starting(k) \/ Skipping(k) \/ Going(k) \/ Opening(k) \/ Uploading(k),
             Undisturbed'
      PROVE  \A i \in Instances : Good(job'[i].status)
  <2>1. Kept /\ OnlyJob(k)
    BY <1>2 DEF Starting, Skipping, Going, Opening, Uploading
  <2>2. Stray \notin DOMAIN page[tag.version].files
    <3>1. Stray \notin DOMAIN page'[tag.version].files
      BY <1>2, <2>1 DEF Kept, Undisturbed
    <3>2. CASE page' = page
      BY <3>1, <3>2
    <3>3. CASE Opening(k)
      <4>1. page' = [page EXCEPT ![tag.version].prerelease = tag.prerelease]
        BY <3>3 DEF Opening
      <4>2. /\ page = [v \in Pages |-> [files |-> page[v].files,
                                        prerelease |-> page[v].prerelease]]
            /\ tag.version \in Pages
        BY DEF PageInv, JobsInv, Pages
      <4>3. page'[tag.version].files = page[tag.version].files
        BY <4>1, <4>2
      <4> QED BY <3>1, <4>3
    <3>4. CASE Uploading(k)
      BY <3>1, <3>4, KindUploaded
    <3> QED BY <1>2, <3>2, <3>3, <3>4 DEF Starting, Skipping, Going
  <2>3. Undisturbed
    BY <1>2, <2>1, <2>2 DEF Kept, Undisturbed
  <2>4. \A i \in Instances : Good(job[i].status)
    BY <2>3 DEF CleanInv
  <2>5. ~Skipping(k)
    BY <2>4 DEF Skipping, Needed, Final, Ok
  <2>6. Good(job'[k].status)
    BY <1>2, <2>5 DEF Starting, Begins, Going, Moves, Opening, Uploading, Publishes
  <2> QED BY <2>1, <2>4, <2>6 DEF OnlyJob
<1>3. ASSUME NEW k \in Instances, Failing(k), (Because(k) /\ Kept) \/ failedNow'
      PROVE  ~Undisturbed'
  <2>1. SUFFICES ASSUME Undisturbed' PROVE FALSE
    OBVIOUS
  <2>2. Because(k) /\ Kept
    BY <1>3, <2>1 DEF Undisturbed
  <2>3. tag.parses
    BY <2>1, <2>2 DEF Undisturbed, Kept
  <2>4. CASE Stray \notin DOMAIN page[tag.version].files
    BY <2>2, <2>3, <2>4, NoReason
  <2>5. CASE Stray \in DOMAIN page[tag.version].files
    <3>1. page' # page
      BY <2>1, <2>2, <2>5 DEF Undisturbed, Kept
    <3>2. At(k, "create")
      BY <1>3, <3>1, EffectOnJobs DEF Effect
    <3>3. \A t : At(k, t) <=> t = "create"
      BY <3>2, OneStep
    <3> QED BY <2>2, <2>3, <3>3 DEF Because
  <2> QED BY <2>4, <2>5
<1>4. CASE Rerunning
  BY <1>4, RerunOfJobs DEF CleanInv, Ok
<1> QED BY <1>1, <1>2, <1>3, <1>4, Effects DEF CleanInv

-----------------------------------------------------------------------------
(* The invariant                                                           *)

PipelineInv ==
    /\ JobsInv /\ NeedsInv /\ VersionInv /\ FilesInv /\ ArtifactsInv /\ FreeNames
    /\ PageInv /\ AttestedInv /\ UploadedInv /\ SmokedInv /\ CleanInv

LEMMA PipelineStarts ==
    ASSUME PipelineInit
    PROVE  PipelineInv
<1>1. IsJob(queued) /\ queued.status = "queued"
  BY DEF IsJob, queued, fresh
<1>2. job = [i \in Instances |-> queued]
  BY DEF PipelineInit
<1>3. \A i \in Instances : IsJob(job[i]) /\ job[i].status = "queued"
  BY <1>1, <1>2
<1>4. job = [i \in Instances |-> job[i]]
  BY <1>2
<1>5. JobsInv
  BY <1>3, <1>4 DEF PipelineInit, JobsInv
<1>6. NeedsInv /\ VersionInv /\ FilesInv /\ UploadedInv /\ SmokedInv /\ CleanInv
  BY <1>3, Kinds DEF NeedsInv, VersionInv, FilesInv, UploadedInv, SmokedInv, CleanInv, Passed, Ok
<1>7. DOMAIN artifacts = {}
  BY DEF PipelineInit, NoFiles
<1>8. ArtifactsInv /\ FreeNames
  BY <1>3, <1>7, Kinds DEF ArtifactsInv, FreeNames, Ok
<1>9. PICK stray \in StrayPages :
         page = [v \in Pages |-> [files |-> IF stray /\ v = tag.version
                                            THEN store(NoFiles, Stray, Partial) ELSE NoFiles,
                                  prerelease |-> FALSE]]
  BY DEF PipelineInit
<1>10. \A v \in Pages :
          /\ page[v] = [files |-> page[v].files, prerelease |-> page[v].prerelease]
          /\ v # tag.version => page[v].files = NoFiles
          /\ page[v].files \in {store(NoFiles, Stray, Partial), NoFiles}
  BY <1>9
<1>11. page = [v \in Pages |-> [files |-> page[v].files, prerelease |-> page[v].prerelease]]
  BY <1>9, <1>10
<1>12. DOMAIN store(NoFiles, Stray, Partial) = {Stray} /\ DOMAIN NoFiles = {}
  BY DEF store, NoFiles
<1>13. tag.version \in Pages
  BY DEF PipelineInit, Pages
<1>14. DOMAIN Published = {}
  BY <1>10, <1>12, <1>13, PublishedFiles
<1>15. PageInv
  BY <1>10, <1>11, <1>14 DEF PageInv
<1>16. AttestedInv
  BY <1>3, <1>14, Kinds DEF AttestedInv, PublishedIsAttested, ofKinds, Passed
<1> QED BY <1>5, <1>6, <1>8, <1>15, <1>16 DEF PipelineInv

LEMMA PipelineStep ==
    ASSUME PipelineInv, [PipelineNext]_pipelineVars
    PROVE  PipelineInv'
  BY JobsStep, NeedsStep, VersionStep, FilesStep, ArtifactsStep, FreeNamesStep, PageStep,
     AttestedStep, UploadedStep, SmokedStep, CleanStep DEF PipelineInv

\* A step of the tooling is one of the workflow, or leaves it alone.
LEMMA StepOfTooling ==
    ASSUME [Next]_releaseVars
    PROVE  [PipelineNext]_pipelineVars
  BY DEF Next, Local, Hosted, releaseVars

THEOREM ReleaseInvariant == Spec => []PipelineInv
<1>1. Init => PipelineInv
  BY PipelineStarts DEF Init
<1>2. PipelineInv /\ [Next]_releaseVars => PipelineInv'
  BY PipelineStep, StepOfTooling
<1> QED BY <1>1, <1>2, PTL DEF Spec

-----------------------------------------------------------------------------
(* What the workflow promises                                              *)

\* No step of any job, and no failure, touches a release page before the tag
\* parsed and every build and the source archive of the run had succeeded
\* (the "needs" of release.yml that audit_release_workflow insists on).
THEOREM PublishesOnlyComplete == Spec => PublishesComplete
<1>1. ASSUME PipelineInv, [Next]_releaseVars, page' # page
      PROVE  /\ tag.parses
             /\ \A i \in Instances : i[1] \in {"build", "source"} => Ok(i)
  <2>1. [PipelineNext]_pipelineVars /\ JobsInv /\ NeedsInv /\ VersionInv
    BY <1>1, StepOfTooling DEF PipelineInv
  <2>2. PICK k \in Instances : Effect(k)
    BY <1>1, <2>1, Steps DEF Rerunning, pipelineVars
  <2>3. k = ReleaseJob /\ At(k, "create")
    BY <1>1, <2>1, <2>2, EffectOnJobs
  <2>4. Passed(ReleaseJob, 3) /\ job[ReleaseJob].status = "running"
    BY <2>1, <2>3, Creating DEF At
  <2>5. tag.parses
    BY <2>1, <2>4, Kinds DEF VersionInv, VersionAt
  <2> QED BY <2>1, <2>4, <2>5 DEF NeedsInv
<1>2. PipelineInv /\ [Next]_releaseVars =>
         [page' # page => /\ tag.parses
                          /\ \A i \in Instances : i[1] \in {"build", "source"} => Ok(i)
         ]_pipelineVars
  BY <1>1
<1> QED BY <1>2, ReleaseInvariant, PTL DEF Spec, PublishesComplete

\* Whatever failed before or fails later, the page of the tag holds files of
\* the tag only, and other pages are left alone.
THEOREM PublishesTheTag == Spec => []PublishedIsOfTheTag
<1>1. ASSUME PipelineInv PROVE PublishedIsOfTheTag
  <2>1. PageInv
    BY <1>1 DEF PipelineInv
  <2>2. \A n \in DOMAIN Published : n.v = tag.version
    BY <2>1, NamesOfRelease DEF PageInv, Suits
  <2>3. \A p \in Platforms : Archive(tag.version, p).kind = "tar.gz" /\ Archive(tag.version, p).p = p
    BY DEF Archive, nameOf
  <2>4. Source(tag.version).kind = "tar.xz"
    BY DEF Source, nameOf
  <2> QED BY <2>1, <2>2, <2>3, <2>4 DEF PageInv, Suits, PublishedIsOfTheTag
<1> QED BY <1>1, ReleaseInvariant, PTL

\* An archive is attested before it is published, also by a re-run that
\* replaces what an earlier attempt published.
THEOREM PublishesAttested == Spec => []PublishedIsAttested
<1>1. PipelineInv => PublishedIsAttested
  BY DEF PipelineInv, AttestedInv
<1> QED BY <1>1, ReleaseInvariant, PTL

\* A green run has published a complete release that "release.py verify" accepts,
\* and nothing else is on the page if the smoke script acts on a difference.
THEOREM GreenReleases == Spec => []GreenIsWhole
<1>1. ASSUME PipelineInv PROVE GreenIsWhole
  <2>1. SUFFICES ASSUME Green
                 PROVE  /\ DOMAIN Published = names(tag.version, Platforms)
                        /\ verify_assets(Published, tag.version, Platforms)
                        /\ page[tag.version].prerelease = tag.prerelease
                        /\ Counts("expected_assets") =>
                              Stray \notin DOMAIN page[tag.version].files
    BY DEF GreenIsWhole
  <2>2. PICK p \in Platforms : TRUE
    BY ReleaseAssumption
  <2>3. Ok(<<"smoke", p>>) /\ Ok(ReleaseJob)
    BY <2>1, Kinds DEF Green
  <2>9. Stray \notin names(tag.version, Platforms)
    BY NamesOfRelease
  <2>4. DOMAIN Published = names(tag.version, Platforms)
    <3>1. \A n \in names(tag.version, Platforms) : n \in DOMAIN page[tag.version].files
      BY <1>1, <2>3, Released DEF PipelineInv
    <3>2. \A n \in DOMAIN Published : n \in names(tag.version, Platforms)
      BY <1>1 DEF PipelineInv, PageInv, Suits
    <3>3. Stray \notin names(tag.version, Platforms)
      BY <2>9
    <3> QED BY <3>1, <3>2, <3>3, PublishedFiles
  <2>10. Counts("expected_assets") => Stray \notin DOMAIN page[tag.version].files
    BY <1>1, <2>3, <2>9 DEF PipelineInv, SmokedInv
  <2>5. page[tag.version].prerelease = tag.prerelease
    BY <1>1, <2>3, Released DEF PipelineInv
  <2>6. Whole(Published, tag.version)
    BY <1>1, <2>3, <2>4, PublishedFiles, PageIsWhole DEF PipelineInv
  <2>7. StartsWith(tag.version, tag.version)
    BY <1>1, PipelineAssumption DEF PipelineInv, JobsInv
  <2>8. verify_assets(Published, tag.version, Platforms)
    BY <2>6, <2>7, WholeVerifies
  <2> QED BY <2>4, <2>5, <2>8, <2>10
<1> QED BY <1>1, ReleaseInvariant, PTL

\* A re-run repairs what failures left behind: an attempt in which no step is
\* made to fail ends green.
THEOREM RerunsRepair == Spec => []UndisturbedIsGreen
<1>1. PipelineInv => UndisturbedIsGreen
  BY DEF PipelineInv, CleanInv, Undisturbed, UndisturbedIsGreen, RunOver, Final, Green, Ok
<1> QED BY <1>1, ReleaseInvariant, PTL

-----------------------------------------------------------------------------
(* release.py: the invariants of its commands                              *)

BinarySteps == {"check", "stage", "copy", "archive", "sum", "sbom", "clean"}
CommandSteps == {"idle", "source", "sourcesum", "verify"} \cup BinarySteps

\* A command is at a step that it has, with the arguments it takes, and has
\* checked the build before it stages it.
CommandOk(c) ==
    /\ c = command(c.name, c.v, c.ps, c.tree, c.pc, c.raised)
    /\ c.pc \in CommandSteps /\ c.raised \in BOOLEAN
    /\ c.raised => c.pc = "clean"
    /\ c.pc \in BinarySteps =>
          /\ c.name \in {"binary", "dry-run"}
          /\ \E p \in Platforms \cup {Host} : c.ps = {p}
    /\ c.pc \in {"source", "sourcesum"} => c.name \in {"source", "dry-run"}
    /\ c.pc = "verify" => c.name \in {"verify", "dry-run"}
    /\ c.name = "dry-run" => c.ps = {Host} /\ c.v \in Versions
    /\ c.pc \in BinarySteps \ {"check"} => Packageable(c.tree, c.v, Host)

\* While a command runs, none has ended; what it packages is staged.
CommandInv ==
    /\ CommandOk(cmd)
    /\ cmd.pc # "idle" => last = NoneEnded
    /\ cmd.pc \in {"archive", "sum", "sbom"} => staging[package] = cmd.tree

\* Whatever was interrupted: an archive that is readable is of a build that
\* reports the version of its name.
OutputInv ==
    \A n \in DOMAIN output :
        /\ n.kind = "tar.gz" /\ output[n].type = "archive" =>
              output[n].tree.rpmz = n.v /\ output[n].tree.tdnf = n.v
        /\ n.kind = "sbom" /\ output[n].type = "sbom" =>
              output[n] = sbomOf(output[n].tree, output[n].top)

\* The files a dry run has written when it comes to a step.
WrittenBefore(pc, v) ==
    LET a == Archive(v, Host)
        upto == [sum |-> {a}, sbom |-> {a, Sidecar(a)},
                 clean |-> {a, Sidecar(a), Sbom(v, Host)},
                 source |-> {a, Sidecar(a), Sbom(v, Host)},
                 sourcesum |-> {a, Sidecar(a), Sbom(v, Host), Source(v)},
                 verify |-> {a, Sidecar(a), Sbom(v, Host), Source(v), Sidecar(Source(v))}]
    IN  IF pc \in {"check", "stage", "copy", "archive"} THEN {} ELSE upto[pc]

\* What a dry run of a build writes.
DryRunContent(n, v, tree) ==
    LET a == Archive(v, Host)
        archive == archiveOf(tree, <<v, Host>>)
        source == archiveOf(Commit, v)
    IN  CASE n = a -> archive
          [] n = Sidecar(a) -> sumOf(archive, a)
          [] n = Sbom(v, Host) -> sbomOf(tree, <<v, Host>>)
          [] n = Source(v) -> source
          [] n = Sidecar(Source(v)) -> sumOf(source, Source(v))

DryRunInv ==
    cmd.name = "dry-run" /\ cmd.pc # "idle" /\ ~cmd.raised =>
        /\ DOMAIN output = WrittenBefore(cmd.pc, cmd.v)
        /\ \A n \in DOMAIN output : output[n] = DryRunContent(n, cmd.v, cmd.tree)

PackagerInv == CommandInv /\ OutputInv /\ DryRunInv /\ VerdictIsExact

-----------------------------------------------------------------------------
(* The steps of a command                                                  *)

LEMMA Idle ==
    CommandOk(NoCmd) /\ NoCmd.pc = "idle" /\ NoCmd.name = "none" /\ ~NoCmd.raised
  BY DEF CommandOk, NoCmd, command, CommandSteps, BinarySteps

\* The command goes on to another step.
LEMMA GoesTo ==
    ASSUME CommandInv, NEW pc, Goto(pc)
    PROVE  /\ cmd' = command(cmd.name, cmd.v, cmd.ps, cmd.tree, pc, cmd.raised)
           /\ cmd'.name = cmd.name /\ cmd'.v = cmd.v /\ cmd'.ps = cmd.ps
           /\ cmd'.tree = cmd.tree /\ cmd'.pc = pc /\ cmd'.raised = cmd.raised
           /\ last' = last /\ platform' = platform /\ package' = package
<1>1. cmd = [name |-> cmd.name, v |-> cmd.v, ps |-> cmd.ps, tree |-> cmd.tree,
             pc |-> cmd.pc, raised |-> cmd.raised, hurt |-> cmd.raised]
  BY DEF CommandInv, CommandOk, command
<1>2. cmd' = [cmd EXCEPT !.pc = pc] /\ last' = last
  BY DEF Goto
<1>3. cmd' = [name |-> cmd.name, v |-> cmd.v, ps |-> cmd.ps, tree |-> cmd.tree,
              pc |-> pc, raised |-> cmd.raised, hurt |-> cmd.raised]
  BY <1>1, <1>2
<1>4. cmd'.ps = cmd.ps /\ cmd'.v = cmd.v
  BY <1>3
<1>5. platform' = platform
  BY <1>4 DEF platform
<1> QED BY <1>2, <1>3, <1>4, <1>5 DEF command, package

\* The command ends.
LEMMA Ends ==
    ASSUME NEW result, End(result)
    PROVE  /\ cmd' = NoCmd
           /\ last'.name = cmd.name /\ last'.v = cmd.v /\ last'.ps = cmd.ps
           /\ last'.hurt = cmd.hurt /\ last'.result = result /\ last'.of = cmd.tree
  BY DEF End, ended

LEMMA BeginsCommand ==
    ASSUME NEW name, NEW v, NEW ps, NEW trees, NEW pc, Begin(name, v, ps, trees, pc)
    PROVE  /\ cmd.pc = "idle" /\ last' = NoneEnded
           /\ \E tree \in trees :
                 /\ cmd' = command(name, v, ps, tree, pc, FALSE)
                 /\ cmd'.name = name /\ cmd'.v = v /\ cmd'.ps = ps /\ cmd'.tree = tree
                 /\ cmd'.pc = pc /\ cmd'.raised = FALSE
<1>1. PICK tree \in trees : cmd' = command(name, v, ps, tree, pc, FALSE)
  BY DEF Begin
<1>2. /\ cmd'.name = name /\ cmd'.v = v /\ cmd'.ps = ps /\ cmd'.tree = tree
      /\ cmd'.pc = pc /\ cmd'.raised = FALSE
  BY <1>1 DEF command
<1>3. cmd.pc = "idle" /\ last' = NoneEnded
  BY DEF Begin
<1> QED BY <1>1, <1>2, <1>3

\* The first steps.
Begun == \/ \E v \in Versions, p \in Platforms : StartBinary(v, p)
         \/ \E v \in Versions : StartSource(v)
         \/ \E v \in Versions, ps \in {Platforms} \cup {{p} : p \in Platforms} :
               StartVerify(v, ps)
         \/ \E v \in Versions : StartDryRun(v)

LEMMA BegunCommand ==
    ASSUME Begun
    PROVE  /\ CommandOk(cmd') /\ last' = NoneEnded /\ cmd'.raised = FALSE
           /\ cmd'.pc \in {"check", "source", "verify"}
           /\ \/ output' = output /\ cmd'.name # "dry-run"
              \/ output' = Nothing /\ cmd'.name = "dry-run" /\ cmd'.pc = "check"
<1>1. ASSUME NEW v \in Versions, NEW p \in Platforms, StartBinary(v, p)
      PROVE  /\ CommandOk(cmd') /\ last' = NoneEnded /\ cmd'.raised = FALSE
             /\ cmd'.pc = "check" /\ cmd'.name = "binary" /\ output' = output
  <2>1. Begin("binary", v, {p}, Installs, "check") /\ output' = output
    BY <1>1 DEF StartBinary
  <2>2. /\ last' = NoneEnded
        /\ \E tree \in Installs :
              /\ cmd' = command("binary", v, {p}, tree, "check", FALSE)
              /\ cmd'.name = "binary" /\ cmd'.v = v /\ cmd'.ps = {p} /\ cmd'.tree = tree
              /\ cmd'.pc = "check" /\ cmd'.raised = FALSE
    BY <2>1, BeginsCommand
  <2> QED BY <2>1, <2>2 DEF CommandOk, CommandSteps, BinarySteps
<1>2. ASSUME NEW v \in Versions, StartSource(v)
      PROVE  /\ CommandOk(cmd') /\ last' = NoneEnded /\ cmd'.raised = FALSE
             /\ cmd'.pc = "source" /\ cmd'.name = "source" /\ output' = output
  <2>1. Begin("source", v, {}, {Partial}, "source") /\ output' = output
    BY <1>2 DEF StartSource
  <2>2. /\ last' = NoneEnded
        /\ \E tree \in {Partial} :
              /\ cmd' = command("source", v, {}, tree, "source", FALSE)
              /\ cmd'.name = "source" /\ cmd'.v = v /\ cmd'.ps = {} /\ cmd'.tree = tree
              /\ cmd'.pc = "source" /\ cmd'.raised = FALSE
    BY <2>1, BeginsCommand
  <2> QED BY <2>1, <2>2 DEF CommandOk, CommandSteps, BinarySteps
<1>3. ASSUME NEW v \in Versions, NEW ps, StartVerify(v, ps)
      PROVE  /\ CommandOk(cmd') /\ last' = NoneEnded /\ cmd'.raised = FALSE
             /\ cmd'.pc = "verify" /\ cmd'.name = "verify" /\ output' = output
  <2>1. Begin("verify", v, ps, {Partial}, "verify") /\ output' = output
    BY <1>3 DEF StartVerify
  <2>2. /\ last' = NoneEnded
        /\ \E tree \in {Partial} :
              /\ cmd' = command("verify", v, ps, tree, "verify", FALSE)
              /\ cmd'.name = "verify" /\ cmd'.v = v /\ cmd'.ps = ps /\ cmd'.tree = tree
              /\ cmd'.pc = "verify" /\ cmd'.raised = FALSE
    BY <2>1, BeginsCommand
  <2> QED BY <2>1, <2>2 DEF CommandOk, CommandSteps, BinarySteps
<1>4. ASSUME NEW v \in Versions, StartDryRun(v)
      PROVE  /\ CommandOk(cmd') /\ last' = NoneEnded /\ cmd'.raised = FALSE
             /\ cmd'.pc = "check" /\ cmd'.name = "dry-run" /\ output' = Nothing
  <2>1. Begin("dry-run", v, {Host}, Installs, "check") /\ output' = Nothing
    BY <1>4 DEF StartDryRun
  <2>2. /\ last' = NoneEnded
        /\ \E tree \in Installs :
              /\ cmd' = command("dry-run", v, {Host}, tree, "check", FALSE)
              /\ cmd'.name = "dry-run" /\ cmd'.v = v /\ cmd'.ps = {Host} /\ cmd'.tree = tree
              /\ cmd'.pc = "check" /\ cmd'.raised = FALSE
    BY <2>1, BeginsCommand
  <2> QED BY <2>1, <2>2 DEF CommandOk, CommandSteps, BinarySteps
<1> QED BY <1>1, <1>2, <1>3, <1>4 DEF Begun

\* What the step of a command does to it, by the step it is at.
LEMMA StepOfCommand ==
    ASSUME CommandInv, PackagerStep
    PROVE  \/ /\ CheckPrefix /\ cmd.pc = "check" /\ output' = output
              /\ \/ Goto("stage") /\ Packageable(cmd.tree, cmd.v, Host)
                 \/ End("failed") /\ ~Packageable(cmd.tree, cmd.v, Host)
           \/ cmd.pc = "stage" /\ Goto("copy") /\ output' = output
           \/ /\ cmd.pc = "copy" /\ Goto("archive") /\ output' = output
              /\ staging' = put(staging, package, cmd.tree)
           \/ /\ cmd.pc = "archive" /\ Goto("sum") /\ output' = put(output, target, content)
              /\ staging' = staging
           \/ /\ cmd.pc = "sum" /\ Goto("sbom") /\ output' = put(output, target, content)
              /\ staging' = staging
           \/ cmd.pc = "sbom" /\ Goto("clean") /\ output' = put(output, target, content)
           \/ /\ cmd.pc = "clean" /\ output' = output
              /\ \/ cmd.raised /\ End("failed")
                 \/ ~cmd.raised /\ cmd.name = "dry-run" /\ Goto("source")
                 \/ ~cmd.raised /\ cmd.name # "dry-run" /\ End("ok")
           \/ cmd.pc = "source" /\ Goto("sourcesum") /\ output' = put(output, target, content)
           \/ /\ cmd.pc = "sourcesum" /\ output' = put(output, target, content)
              /\ \/ cmd.name = "dry-run" /\ Goto("verify")
                 \/ cmd.name # "dry-run" /\ End("ok")
           \/ /\ cmd.pc = "verify" /\ output' = output
              /\ End(IF verify_assets(output, cmd.v, cmd.ps) THEN "ok" ELSE "failed")
<1>1. CASE RemoveStaging
  <2>1. cmd.raised \in BOOLEAN
    BY DEF CommandInv, CommandOk
  <2>2. \/ cmd.raised /\ End("failed")
        \/ ~cmd.raised /\ cmd.name = "dry-run" /\ Goto("source")
        \/ ~cmd.raised /\ cmd.name # "dry-run" /\ End("ok")
    BY <1>1, <2>1 DEF RemoveStaging
  <2> QED BY <1>1, <2>2 DEF RemoveStaging
<1>2. CASE PackagerStep /\ ~RemoveStaging
  BY <1>2 DEF PackagerStep, CheckPrefix, MakeStaging, copy_install_tree, WriteArchive,
     write_checksum, WriteSbom, WriteSource, WriteSourceChecksum, Verify, Write
<1> QED BY <1>1, <1>2

LEMMA CommandStep ==
    ASSUME CommandInv, [PackagerNext]_packagerVars
    PROVE  CommandInv'
<1>1. CASE UNCHANGED packagerVars
  BY <1>1 DEF packagerVars, CommandInv, CommandOk, package, platform
<1>2. CASE Begun
  BY <1>2, BegunCommand DEF CommandInv
<1>3. ASSUME cmd' = NoCmd PROVE CommandInv'
  BY <1>3, Idle DEF CommandInv
<1>4. ASSUME NEW pc, Goto(pc), cmd.pc # "idle", CommandOk(cmd'),
             pc \in {"archive", "sum", "sbom"} => staging'[package] = cmd.tree
      PROVE  CommandInv'
  BY <1>4, GoesTo DEF CommandInv
<1>5. ASSUME NEW pc, Goto(pc), cmd.raised = FALSE \/ pc = "clean", pc \in CommandSteps,
             pc \in BinarySteps =>
                /\ cmd.name \in {"binary", "dry-run"}
                /\ \E p \in Platforms \cup {Host} : cmd.ps = {p},
             pc \in {"source", "sourcesum"} => cmd.name \in {"source", "dry-run"},
             pc = "verify" => cmd.name \in {"verify", "dry-run"},
             pc \in BinarySteps \ {"check"} => Packageable(cmd.tree, cmd.v, Host)
      PROVE  CommandOk(cmd')
  BY <1>5, GoesTo DEF CommandInv, CommandOk
<1>6. CASE PackagerStep
  <2>0. /\ cmd.raised => cmd.pc = "clean"
        /\ cmd.raised \in BOOLEAN
        /\ cmd.pc \in BinarySteps =>
              cmd.name \in {"binary", "dry-run"} /\ \E p \in Platforms \cup {Host} : cmd.ps = {p}
        /\ cmd.pc \in {"source", "sourcesum"} => cmd.name \in {"source", "dry-run"}
        /\ cmd.pc \in BinarySteps \ {"check"} => Packageable(cmd.tree, cmd.v, Host)
    BY DEF CommandInv, CommandOk
  <2>1. CASE cmd.pc = "check" /\ Goto("stage") /\ Packageable(cmd.tree, cmd.v, Host)
    <3>1. CommandOk(cmd')
      BY <1>5, <2>0, <2>1 DEF CommandSteps, BinarySteps
    <3> QED BY <1>4, <2>1, <3>1
  <2>2. CASE cmd.pc = "stage" /\ Goto("copy")
    <3>1. CommandOk(cmd')
      BY <1>5, <2>0, <2>2 DEF CommandSteps, BinarySteps
    <3> QED BY <1>4, <2>2, <3>1
  <2>3. CASE cmd.pc = "copy" /\ Goto("archive") /\ staging' = put(staging, package, cmd.tree)
    <3>1. CommandOk(cmd')
      BY <1>5, <2>0, <2>3 DEF CommandSteps, BinarySteps
    <3>2. staging'[package] = cmd.tree
      BY <2>3 DEF put
    <3> QED BY <1>4, <2>3, <3>1, <3>2
  <2>4. CASE \/ cmd.pc = "archive" /\ Goto("sum") /\ staging' = staging
             \/ cmd.pc = "sum" /\ Goto("sbom") /\ staging' = staging
             \/ cmd.pc = "sbom" /\ Goto("clean")
    <3>1. PICK pc \in {"sum", "sbom", "clean"} : Goto(pc) /\ (pc = "clean" \/ staging' = staging)
      BY <2>4
    <3>2. CommandOk(cmd')
      BY <1>5, <2>0, <2>4, <3>1 DEF CommandSteps, BinarySteps
    <3>3. staging[package] = cmd.tree
      BY <2>4 DEF CommandInv
    <3> QED BY <1>4, <2>4, <3>1, <3>2, <3>3
  <2>5. CASE cmd.pc = "clean" /\ ~cmd.raised /\ cmd.name = "dry-run" /\ Goto("source")
    <3>1. CommandOk(cmd')
      BY <1>5, <2>0, <2>5 DEF CommandSteps, BinarySteps
    <3> QED BY <1>4, <2>5, <3>1
  <2>6. CASE cmd.pc = "source" /\ Goto("sourcesum")
    <3>1. CommandOk(cmd')
      BY <1>5, <2>0, <2>6 DEF CommandSteps, BinarySteps
    <3> QED BY <1>4, <2>6, <3>1
  <2>7. CASE cmd.pc = "sourcesum" /\ cmd.name = "dry-run" /\ Goto("verify")
    <3>1. CommandOk(cmd')
      BY <1>5, <2>0, <2>7 DEF CommandSteps, BinarySteps
    <3> QED BY <1>4, <2>7, <3>1
  <2>8. CASE \E result : End(result)
    BY <1>3, <2>8 DEF End
  <2> QED BY <1>6, <2>1, <2>2, <2>3, <2>4, <2>5, <2>6, <2>7, <2>8, StepOfCommand
<1>7. CASE Raise
  <2>1. CASE InTry
    <3>1. /\ cmd' = command(cmd.name, cmd.v, cmd.ps, cmd.tree, "clean", TRUE)
          /\ last' = last /\ cmd.pc # "idle"
      BY <1>7, <2>1 DEF Raise, InTry
    <3>2. /\ cmd'.name = cmd.name /\ cmd'.v = cmd.v /\ cmd'.ps = cmd.ps
          /\ cmd'.tree = cmd.tree /\ cmd'.pc = "clean" /\ cmd'.raised = TRUE
      BY <3>1 DEF command
    <3>3. cmd.pc \in BinarySteps \ {"check"}
      BY <2>1 DEF InTry, BinarySteps
    <3>4. CommandOk(cmd')
      BY <3>1, <3>2, <3>3 DEF CommandInv, CommandOk, CommandSteps, BinarySteps
    <3> QED BY <3>1, <3>2, <3>4 DEF CommandInv
  <2>2. CASE ~InTry
    BY <1>3, <1>7, <2>2 DEF Raise
  <2> QED BY <2>1, <2>2
<1>8. CASE Kill
  BY <1>3, <1>8 DEF Kill
<1> QED BY <1>1, <1>2, <1>6, <1>7, <1>8 DEF PackagerNext, Begun

-----------------------------------------------------------------------------
(* The output directory                                                    *)

\* The names are told apart by their kinds.
LEMMA KindsOfNames ==
    ASSUME NEW v, NEW p
    PROVE  /\ Archive(v, p).kind = "tar.gz" /\ Archive(v, p).v = v
           /\ Sidecar(Archive(v, p)).kind = "gz.sha256"
           /\ Sbom(v, p).kind = "sbom" /\ Sbom(v, p).v = v
           /\ Source(v).kind = "tar.xz" /\ Sidecar(Source(v)).kind = "xz.sha256"
  BY DEF Archive, Sidecar, Sbom, Source, nameOf

\* Where each writing step writes, and what.
LEMMA Writes ==
    /\ cmd.pc = "archive" => /\ target = Archive(cmd.v, platform)
                             /\ content = archiveOf(staging[package], package)
    /\ cmd.pc = "sum" => /\ target = Sidecar(Archive(cmd.v, platform))
                         /\ content = sumOf(output[Archive(cmd.v, platform)],
                                            Archive(cmd.v, platform))
    /\ cmd.pc = "sbom" => /\ target = Sbom(cmd.v, platform)
                          /\ content = sbomOf(staging[package], <<cmd.v, platform>>)
    /\ cmd.pc = "source" => target = Source(cmd.v) /\ content = archiveOf(Commit, cmd.v)
    /\ cmd.pc = "sourcesum" => /\ target = Sidecar(Source(cmd.v))
                               /\ content = sumOf(output[Source(cmd.v)], Source(cmd.v))
<1>1. CASE cmd.pc = "archive"
  BY <1>1 DEF target, content
<1>2. CASE cmd.pc = "sum"
  BY <1>2 DEF target, content
<1>3. CASE cmd.pc = "sbom"
  BY <1>3 DEF target, content, write_sbom
<1>4. CASE cmd.pc = "source"
  BY <1>4 DEF target, content
<1>5. CASE cmd.pc = "sourcesum"
  BY <1>5 DEF target, content
<1> QED BY <1>1, <1>2, <1>3, <1>4, <1>5

\* What a name and its content must agree on.
Fits(n, c) ==
    /\ n.kind = "tar.gz" /\ c.type = "archive" => c.tree.rpmz = n.v /\ c.tree.tdnf = n.v
    /\ n.kind = "sbom" /\ c.type = "sbom" => c = sbomOf(c.tree, c.top)

LEMMA WritesFit ==
    ASSUME CommandInv, Writing
    PROVE  Fits(target, content) /\ Fits(target, Partial)
<1>1. Fits(target, Partial)
  BY DEF Fits, Partial
<1>2. CASE cmd.pc = "archive"
  <2>1. Packageable(cmd.tree, cmd.v, Host) /\ staging[package] = cmd.tree
    BY <1>2 DEF CommandInv, CommandOk, BinarySteps
  <2>2. target.v = cmd.v /\ target.kind = "tar.gz"
    BY <1>2, Writes, KindsOfNames
  <2>3. content = archiveOf(cmd.tree, package)
    BY <1>2, <2>1, Writes
  <2>4. content.tree = cmd.tree
    BY <2>3 DEF archiveOf
  <2> QED BY <1>1, <2>1, <2>2, <2>4 DEF Fits, Packageable
<1>3. CASE cmd.pc = "sum"
  <2>1. target.kind = "gz.sha256"
    BY <1>3, Writes, KindsOfNames
  <2> QED BY <1>1, <2>1 DEF Fits
<1>4. CASE cmd.pc = "sbom"
  <2>1. target.kind = "sbom"
    BY <1>4, Writes, KindsOfNames
  <2>2. content = sbomOf(staging[package], <<cmd.v, platform>>)
    BY <1>4, Writes
  <2>3. content = sbomOf(content.tree, content.top)
    BY <2>2 DEF sbomOf
  <2> QED BY <1>1, <2>1, <2>3 DEF Fits
<1>5. CASE cmd.pc = "source"
  <2>1. target.kind = "tar.xz"
    BY <1>5, Writes, KindsOfNames
  <2> QED BY <1>1, <2>1 DEF Fits
<1>6. CASE cmd.pc = "sourcesum"
  <2>1. target.kind = "xz.sha256"
    BY <1>6, Writes, KindsOfNames
  <2> QED BY <1>1, <2>1 DEF Fits
<1> QED BY <1>2, <1>3, <1>4, <1>5, <1>6 DEF Writing

\* A step empties the output directory, leaves it, or writes one file of it,
\* perhaps not to the end.
LEMMA OutputChanges ==
    ASSUME CommandInv, [PackagerNext]_packagerVars
    PROVE  \/ output' = output
           \/ output' = Nothing
           \/ Writing /\ output' = put(output, target, content)
           \/ Writing /\ output' = put(output, target, Partial)
<1>1. CASE Begun
  BY <1>1, BegunCommand
<1>2. CASE PackagerStep
  BY <1>2, StepOfCommand DEF Writing
<1>3. CASE Raise \/ Kill
  BY <1>3 DEF Raise, Kill, CutShort
<1> QED BY <1>1, <1>2, <1>3 DEF PackagerNext, Begun, packagerVars

LEMMA OutputStep ==
    ASSUME CommandInv, OutputInv, [PackagerNext]_packagerVars
    PROVE  OutputInv'
<1>1. \A n \in DOMAIN output : Fits(n, output[n])
  BY DEF OutputInv, Fits
<1>2. ASSUME NEW n, NEW c, Fits(n, c), output' = put(output, n, c)
      PROVE  \A m \in DOMAIN output' : Fits(m, output'[m])
  BY <1>1, <1>2 DEF put
<1>3. \A n \in DOMAIN output' : Fits(n, output'[n])
  <2>1. CASE output' = output
    BY <1>1, <2>1
  <2>2. CASE output' = Nothing
    BY <2>2 DEF Nothing
  <2>3. CASE Writing /\ output' = put(output, target, content)
    BY <1>2, <2>3, WritesFit
  <2>4. CASE Writing /\ output' = put(output, target, Partial)
    BY <1>2, <2>4, WritesFit
  <2> QED BY <2>1, <2>2, <2>3, <2>4, OutputChanges
<1> QED BY <1>3 DEF OutputInv, Fits

-----------------------------------------------------------------------------
(* A dry run                                                               *)

LEMMA DryRunContents ==
    ASSUME NEW v, NEW tree
    PROVE  LET a == Archive(v, Host)
               archive == archiveOf(tree, <<v, Host>>)
               source == archiveOf(Commit, v)
           IN  /\ DryRunContent(a, v, tree) = archive
               /\ DryRunContent(Sidecar(a), v, tree) = sumOf(archive, a)
               /\ DryRunContent(Sbom(v, Host), v, tree) = sbomOf(tree, <<v, Host>>)
               /\ DryRunContent(Source(v), v, tree) = source
               /\ DryRunContent(Sidecar(Source(v)), v, tree) = sumOf(source, Source(v))
<1> DEFINE a == Archive(v, Host)
           s == Sidecar(Archive(v, Host))
           b == Sbom(v, Host)
           c == Source(v)
           d == Sidecar(Source(v))
<1>1. /\ a # s /\ a # b /\ a # c /\ a # d /\ s # b /\ s # c /\ s # d
      /\ b # c /\ b # d /\ c # d
  <2>1. /\ a.kind = "tar.gz" /\ s.kind = "gz.sha256" /\ b.kind = "sbom"
        /\ c.kind = "tar.xz" /\ d.kind = "xz.sha256"
    BY KindsOfNames
  <2> HIDE DEF a, s, b, c, d
  <2> QED BY <2>1
<1>2. \A n : DryRunContent(n, v, tree) =
               CASE n = a -> archiveOf(tree, <<v, Host>>)
                 [] n = s -> sumOf(archiveOf(tree, <<v, Host>>), a)
                 [] n = b -> sbomOf(tree, <<v, Host>>)
                 [] n = c -> archiveOf(Commit, v)
                 [] n = d -> sumOf(archiveOf(Commit, v), c)
  BY DEF DryRunContent
<1> HIDE DEF a, s, b, c, d
<1>3. /\ DryRunContent(a, v, tree) = archiveOf(tree, <<v, Host>>)
      /\ DryRunContent(s, v, tree) = sumOf(archiveOf(tree, <<v, Host>>), a)
      /\ DryRunContent(b, v, tree) = sbomOf(tree, <<v, Host>>)
      /\ DryRunContent(c, v, tree) = archiveOf(Commit, v)
      /\ DryRunContent(d, v, tree) = sumOf(archiveOf(Commit, v), c)
  BY <1>1, <1>2
<1> QED BY <1>3 DEF a, s, b, c, d

LEMMA WrittenBySteps ==
    ASSUME NEW v
    PROVE  LET a == Archive(v, Host) IN
           /\ \A pc \in {"check", "stage", "copy", "archive"} : WrittenBefore(pc, v) = {}
           /\ WrittenBefore("sum", v) = {a}
           /\ WrittenBefore("sbom", v) = {a, Sidecar(a)}
           /\ WrittenBefore("clean", v) = {a, Sidecar(a), Sbom(v, Host)}
           /\ WrittenBefore("source", v) = {a, Sidecar(a), Sbom(v, Host)}
           /\ WrittenBefore("sourcesum", v) = {a, Sidecar(a), Sbom(v, Host), Source(v)}
           /\ WrittenBefore("verify", v)
                 = {a, Sidecar(a), Sbom(v, Host), Source(v), Sidecar(Source(v))}
  BY DEF WrittenBefore

LEMMA DryRunStep ==
    ASSUME CommandInv, DryRunInv, [PackagerNext]_packagerVars
    PROVE  DryRunInv'
<1>1. CASE UNCHANGED packagerVars
  BY <1>1 DEF packagerVars, DryRunInv
<1>2. CASE Begun
  <2>1. DOMAIN Nothing = {}
    BY DEF Nothing
  <2> QED BY <1>2, <2>1, BegunCommand, WrittenBySteps DEF DryRunInv
<1>3. ASSUME cmd' = NoCmd PROVE DryRunInv'
  BY <1>3, Idle DEF DryRunInv
<1>4. ASSUME NEW pc, Goto(pc), output' = output, cmd.pc # "idle",
             cmd.name = "dry-run" => WrittenBefore(pc, cmd.v) = WrittenBefore(cmd.pc, cmd.v)
      PROVE  DryRunInv'
  BY <1>4, GoesTo DEF DryRunInv
<1>5. ASSUME NEW pc, Goto(pc), output' = put(output, target, content), cmd.pc # "idle",
             cmd.name = "dry-run" /\ ~cmd.raised =>
                /\ WrittenBefore(pc, cmd.v) = WrittenBefore(cmd.pc, cmd.v) \cup {target}
                /\ content = DryRunContent(target, cmd.v, cmd.tree)
      PROVE  DryRunInv'
  <2>1. SUFFICES ASSUME cmd.name = "dry-run", ~cmd.raised
                 PROVE  /\ DOMAIN output' = WrittenBefore(pc, cmd.v)
                        /\ \A n \in DOMAIN output' :
                              output'[n] = DryRunContent(n, cmd.v, cmd.tree)
    BY <1>5, GoesTo DEF DryRunInv
  <2>2. /\ DOMAIN output = WrittenBefore(cmd.pc, cmd.v)
        /\ \A n \in DOMAIN output : output[n] = DryRunContent(n, cmd.v, cmd.tree)
    BY <1>5, <2>1 DEF DryRunInv
  <2>3. /\ DOMAIN output' = DOMAIN output \cup {target}
        /\ output'[target] = content
        /\ \A m \in DOMAIN output : m # target => output'[m] = output[m]
    BY <1>5 DEF put
  <2> QED BY <1>5, <2>1, <2>2, <2>3
<1>6. ASSUME cmd.name = "dry-run"
      PROVE  platform = Host /\ package = <<cmd.v, Host>>
  <2>1. cmd.ps = {Host}
    BY <1>6 DEF CommandInv, CommandOk
  <2> QED BY <2>1 DEF platform, package
<1>7. CASE PackagerStep
  <2> DEFINE v == cmd.v
             a == Archive(v, Host)
  <2>1. CASE \/ cmd.pc = "check" /\ Goto("stage") /\ output' = output
             \/ cmd.pc = "stage" /\ Goto("copy") /\ output' = output
             \/ cmd.pc = "copy" /\ Goto("archive") /\ output' = output
    <3>1. WrittenBefore("stage", v) = {} /\ WrittenBefore("copy", v) = {}
          /\ WrittenBefore("archive", v) = {} /\ WrittenBefore("check", v) = {}
      BY WrittenBySteps
    <3> QED BY <1>4, <2>1, <3>1
  <2>2. CASE cmd.pc = "archive" /\ Goto("sum") /\ output' = put(output, target, content)
    <3>1. ASSUME cmd.name = "dry-run"
          PROVE  /\ WrittenBefore("sum", v) = WrittenBefore("archive", v) \cup {target}
                 /\ content = DryRunContent(target, v, cmd.tree)
      <4>1. target = a /\ content = archiveOf(cmd.tree, <<v, Host>>)
        BY <1>6, <2>2, <3>1, Writes DEF CommandInv
      <4>2. WrittenBefore("sum", v) = {a} /\ WrittenBefore("archive", v) = {}
        BY WrittenBySteps
      <4> QED BY <4>1, <4>2, DryRunContents
    <3> QED BY <1>5, <2>2, <3>1
  <2>3. CASE cmd.pc = "sum" /\ Goto("sbom") /\ output' = put(output, target, content)
    <3>1. ASSUME cmd.name = "dry-run", ~cmd.raised
          PROVE  /\ WrittenBefore("sbom", v) = WrittenBefore("sum", v) \cup {target}
                 /\ content = DryRunContent(target, v, cmd.tree)
      <4>1. target = Sidecar(a) /\ content = sumOf(output[a], a)
        BY <1>6, <2>3, <3>1, Writes
      <4>2. WrittenBefore("sum", v) = {a} /\ WrittenBefore("sbom", v) = {a, Sidecar(a)}
        BY WrittenBySteps
      <4>3. output[a] = archiveOf(cmd.tree, <<v, Host>>)
        BY <2>3, <3>1, <4>2, DryRunContents DEF DryRunInv
      <4> QED BY <4>1, <4>2, <4>3, DryRunContents
    <3> QED BY <1>5, <2>3, <3>1
  <2>4. CASE cmd.pc = "sbom" /\ Goto("clean") /\ output' = put(output, target, content)
    <3>1. ASSUME cmd.name = "dry-run"
          PROVE  /\ WrittenBefore("clean", v) = WrittenBefore("sbom", v) \cup {target}
                 /\ content = DryRunContent(target, v, cmd.tree)
      <4>1. target = Sbom(v, Host) /\ content = sbomOf(cmd.tree, <<v, Host>>)
        BY <1>6, <2>4, <3>1, Writes DEF CommandInv
      <4>2. /\ WrittenBefore("sbom", v) = {a, Sidecar(a)}
            /\ WrittenBefore("clean", v) = {a, Sidecar(a), Sbom(v, Host)}
        BY WrittenBySteps
      <4> QED BY <4>1, <4>2, DryRunContents
    <3> QED BY <1>5, <2>4, <3>1
  <2>5. CASE cmd.pc = "clean" /\ Goto("source") /\ output' = output
    <3>1. WrittenBefore("clean", v) = WrittenBefore("source", v)
      BY WrittenBySteps
    <3> QED BY <1>4, <2>5, <3>1
  <2>6. CASE cmd.pc = "source" /\ Goto("sourcesum") /\ output' = put(output, target, content)
    <3>1. /\ WrittenBefore("sourcesum", v) = WrittenBefore("source", v) \cup {target}
          /\ content = DryRunContent(target, v, cmd.tree)
      <4>1. target = Source(v) /\ content = archiveOf(Commit, v)
        BY <2>6, Writes
      <4>2. /\ WrittenBefore("source", v) = {a, Sidecar(a), Sbom(v, Host)}
            /\ WrittenBefore("sourcesum", v) = {a, Sidecar(a), Sbom(v, Host), Source(v)}
        BY WrittenBySteps
      <4> QED BY <4>1, <4>2, DryRunContents
    <3> QED BY <1>5, <2>6, <3>1
  <2>7. CASE cmd.pc = "sourcesum" /\ Goto("verify") /\ output' = put(output, target, content)
    <3>1. ASSUME cmd.name = "dry-run", ~cmd.raised
          PROVE  /\ WrittenBefore("verify", v) = WrittenBefore("sourcesum", v) \cup {target}
                 /\ content = DryRunContent(target, v, cmd.tree)
      <4>1. target = Sidecar(Source(v)) /\ content = sumOf(output[Source(v)], Source(v))
        BY <2>7, Writes
      <4>2. /\ WrittenBefore("sourcesum", v) = {a, Sidecar(a), Sbom(v, Host), Source(v)}
            /\ WrittenBefore("verify", v)
                  = {a, Sidecar(a), Sbom(v, Host), Source(v), Sidecar(Source(v))}
        BY WrittenBySteps
      <4>3. output[Source(v)] = archiveOf(Commit, v)
        BY <2>7, <3>1, <4>2, DryRunContents DEF DryRunInv
      <4> QED BY <4>1, <4>2, <4>3, DryRunContents
    <3> QED BY <1>5, <2>7, <3>1
  <2>8. CASE \E result : End(result)
    BY <1>3, <2>8 DEF End
  <2> QED BY <1>7, <2>1, <2>2, <2>3, <2>4, <2>5, <2>6, <2>7, <2>8, StepOfCommand
<1>8. CASE Raise
  <2>1. CASE InTry
    <3>1. cmd' = command(cmd.name, cmd.v, cmd.ps, cmd.tree, "clean", TRUE)
      BY <1>8, <2>1 DEF Raise
    <3>2. cmd'.raised
      BY <3>1 DEF command
    <3> QED BY <3>2 DEF DryRunInv
  <2>2. CASE ~InTry
    BY <1>3, <1>8, <2>2 DEF Raise
  <2> QED BY <2>1, <2>2
<1>9. CASE Kill
  BY <1>3, <1>9 DEF Kill
<1> QED BY <1>1, <1>2, <1>7, <1>8, <1>9 DEF PackagerNext, Begun

-----------------------------------------------------------------------------
(* The verdict                                                             *)

\* What verify accepts is one packaging for each platform it was asked about.
LEMMA VerifySound ==
    ASSUME OutputInv, NEW v, NEW ps, verify_assets(output, v, ps), NEW p \in ps
    PROVE  OnePackaging(output, v, p)
<1> DEFINE a == Archive(v, p)
           b == Sbom(v, p)
<1>1. a \in DOMAIN output /\ b \in DOMAIN output
  <2>1. {n \in DOMAIN output : StartsWith(n.v, v)} = names(v, ps)
    BY DEF verify_assets
  <2>2. a \in names(v, ps) /\ b \in names(v, ps)
    BY DEF names
  <2> QED BY <2>1, <2>2
<1>2. /\ verify_archive(output[a], v, p)
      /\ verify_checksum(output, a)
      /\ SbomMatches(output, v, p)
  BY DEF verify_assets
<1>3. output[a].type = "archive" /\ output[a].top = <<v, p>>
  BY <1>2 DEF verify_archive
<1>4. output[a].tree.rpmz = v /\ output[a].tree.tdnf = v
  BY <1>1, <1>3, KindsOfNames DEF OutputInv
<1>5. output[Sidecar(a)] = sumOf(output[a], a)
  BY <1>2 DEF verify_checksum
<1>6. /\ output[b].type = "sbom" /\ output[b].tree = output[a].tree
      /\ output[b].top = output[a].top
  BY <1>2 DEF SbomMatches
<1>7. output[b] = sbomOf(output[b].tree, output[b].top)
  BY <1>1, <1>6, KindsOfNames DEF OutputInv
<1>8. output[b] = sbomOf(output[a].tree, <<v, p>>)
  BY <1>3, <1>6, <1>7
<1> QED BY <1>3, <1>4, <1>5, <1>8 DEF OnePackaging

\* A dry run of a complete build verifies.
LEMMA DryRunVerifies ==
    ASSUME CommandInv, DryRunInv, cmd.name = "dry-run", cmd.pc = "verify",
           Packageable(cmd.tree, cmd.v, Host), cmd.tree.empty = {}, ~cmd.tree.climbs
    PROVE  verify_assets(output, cmd.v, cmd.ps)
<1> DEFINE v == cmd.v
           tree == cmd.tree
           a == Archive(v, Host)
           b == Sbom(v, Host)
           f == output
<1>1. ~cmd.raised /\ cmd.ps = {Host} /\ StartsWith(v, v)
  BY ReleaseAssumption DEF CommandInv, CommandOk
<1>2. /\ DOMAIN f = {a, Sidecar(a), b, Source(v), Sidecar(Source(v))}
      /\ \A n \in DOMAIN f : f[n] = DryRunContent(n, v, tree)
  BY <1>1, WrittenBySteps DEF DryRunInv
<1>3. /\ f[a] = archiveOf(tree, <<v, Host>>)
      /\ f[Sidecar(a)] = sumOf(archiveOf(tree, <<v, Host>>), a)
      /\ f[b] = sbomOf(tree, <<v, Host>>)
      /\ f[Source(v)] = archiveOf(Commit, v)
      /\ f[Sidecar(Source(v))] = sumOf(archiveOf(Commit, v), Source(v))
  BY <1>2, DryRunContents
<1>4. {n \in DOMAIN f : StartsWith(n.v, v)} = names(v, {Host})
  <2>1. names(v, {Host}) = {a, Sidecar(a), b, Source(v), Sidecar(Source(v))}
    BY DEF names
  <2>2. /\ a = [kind |-> "tar.gz", v |-> v, p |-> Host]
        /\ Sidecar(a) = [kind |-> "gz.sha256", v |-> v, p |-> Host]
        /\ b = [kind |-> "sbom", v |-> v, p |-> Host]
        /\ Source(v) = [kind |-> "tar.xz", v |-> v, p |-> "any"]
        /\ Sidecar(Source(v)) = [kind |-> "xz.sha256", v |-> v, p |-> "any"]
    BY DEF Archive, Sidecar, Sbom, Source, nameOf
  <2>3. \A n \in DOMAIN f : n.v = v
    BY <1>2, <2>2
  <2> QED BY <1>1, <1>2, <2>1, <2>3
<1>5. verify_archive(f[a], v, Host)
  <2>1. verify_archive(archiveOf(tree, <<v, Host>>), v, Host)
    BY DEF verify_archive, archiveOf, Packageable, verify_public_bin
  <2> QED BY <1>3, <2>1
<1>6. verify_checksum(f, a) /\ verify_checksum(f, Source(v))
  BY <1>3 DEF verify_checksum
<1>7. SbomMatches(f, v, Host)
  BY <1>3 DEF SbomMatches, sbomOf, archiveOf
<1>8. SourceReadable(f, v)
  BY <1>3 DEF SourceReadable, archiveOf, Commit
<1> QED BY <1>1, <1>4, <1>5, <1>6, <1>7, <1>8 DEF verify_assets

LEMMA VerdictStep ==
    ASSUME CommandInv, OutputInv, DryRunInv, VerdictIsExact, [PackagerNext]_packagerVars
    PROVE  VerdictIsExact'
<1>1. CASE UNCHANGED packagerVars
  BY <1>1 DEF packagerVars, VerdictIsExact, AcceptedIsOnePackaging, DryRunAccepts, OnePackaging
<1>2. ASSUME last' = NoneEnded PROVE VerdictIsExact'
  <2>1. last'.name = "none"
    BY <1>2 DEF NoneEnded
  <2> QED BY <2>1 DEF VerdictIsExact, AcceptedIsOnePackaging, DryRunAccepts
<1>3. ASSUME last'.hurt = TRUE, last'.result # "ok" PROVE VerdictIsExact'
  BY <1>3 DEF VerdictIsExact, AcceptedIsOnePackaging, DryRunAccepts
<1>4. CASE Begun
  BY <1>2, <1>4, BegunCommand
<1>5. CASE PackagerStep
  <2>0. cmd.pc # "idle" => last = NoneEnded
    BY DEF CommandInv
  <2>1. CASE (\E pc : Goto(pc)) /\ cmd.pc # "idle"
    BY <1>2, <2>0, <2>1 DEF Goto
  <2>2. CASE End("failed") /\ ~Packageable(cmd.tree, cmd.v, Host)
    <3>1. /\ last'.result = "failed" /\ last'.of = cmd.tree /\ last'.v = cmd.v
      BY <2>2, Ends
    <3> QED BY <2>2, <3>1 DEF VerdictIsExact, AcceptedIsOnePackaging, DryRunAccepts
  <2>3. CASE cmd.raised /\ End("failed")
    <3>1. last'.hurt = cmd.hurt /\ last'.result = "failed"
      BY <2>3, Ends
    <3>2. cmd.hurt = cmd.raised /\ cmd.raised \in BOOLEAN
      BY DEF CommandInv, CommandOk, command
    <3> QED BY <1>3, <2>3, <3>1, <3>2
  <2>4. CASE /\ cmd.pc \in {"clean", "sourcesum"}
             /\ cmd.name # "dry-run" /\ End("ok")
    <3>1. last'.name = cmd.name /\ last'.result = "ok"
      BY <2>4, Ends
    <3>2. cmd.name \in {"binary", "source"}
      BY <2>4 DEF CommandInv, CommandOk, BinarySteps
    <3> QED BY <3>1, <3>2 DEF VerdictIsExact, AcceptedIsOnePackaging, DryRunAccepts
  <2>5. CASE /\ cmd.pc = "verify" /\ output' = output
             /\ End(IF verify_assets(output, cmd.v, cmd.ps) THEN "ok" ELSE "failed")
    <3>1. /\ last'.name = cmd.name /\ last'.v = cmd.v /\ last'.ps = cmd.ps
          /\ last'.of = cmd.tree
          /\ last'.result = IF verify_assets(output, cmd.v, cmd.ps) THEN "ok" ELSE "failed"
      BY <2>5, Ends
    <3>2. AcceptedIsOnePackaging'
      <4>1. SUFFICES ASSUME last'.result = "ok", NEW p \in last'.ps
                     PROVE  OnePackaging(output, last'.v, p)
        BY <2>5 DEF AcceptedIsOnePackaging, OnePackaging
      <4>2. verify_assets(output, cmd.v, cmd.ps)
        BY <3>1, <4>1
      <4>3. OnePackaging(output, cmd.v, p)
        BY <3>1, <4>1, <4>2, VerifySound
      <4> QED BY <3>1, <4>3
    <3>3. DryRunAccepts'
      <4>1. SUFFICES ASSUME cmd.name = "dry-run", Packageable(cmd.tree, cmd.v, Host),
                            cmd.tree.empty = {}, ~cmd.tree.climbs
                     PROVE  last'.result = "ok"
        BY <3>1 DEF DryRunAccepts
      <4>2. verify_assets(output, cmd.v, cmd.ps)
        BY <2>5, <4>1, DryRunVerifies
      <4> QED BY <3>1, <4>2
    <3> QED BY <3>2, <3>3 DEF VerdictIsExact
  <2> QED BY <1>5, <2>1, <2>2, <2>3, <2>4, <2>5, StepOfCommand
<1>6. CASE Raise
  <2>1. CASE InTry
    <3>1. last' = last /\ cmd.pc # "idle"
      BY <1>6, <2>1 DEF Raise, InTry
    <3> QED BY <1>2, <3>1 DEF CommandInv
  <2>2. CASE ~InTry
    <3>1. last' = ended(TRUE, "failed")
      BY <1>6, <2>2 DEF Raise
    <3>2. last'.hurt = TRUE /\ last'.result = "failed"
      BY <3>1 DEF ended
    <3> QED BY <1>3, <3>2
  <2> QED BY <2>1, <2>2
<1>7. CASE Kill
  <2>1. last' = ended(TRUE, "killed")
    BY <1>7 DEF Kill
  <2>2. last'.hurt = TRUE /\ last'.result = "killed"
    BY <2>1 DEF ended
  <2> QED BY <1>3, <2>2
<1> QED BY <1>1, <1>4, <1>5, <1>6, <1>7 DEF PackagerNext, Begun

LEMMA PackagerStarts ==
    ASSUME PackagerInit
    PROVE  PackagerInv
<1>1. cmd = NoCmd /\ last.name = "none" /\ DOMAIN output = {}
  BY DEF PackagerInit, NoneEnded, Nothing
<1> QED BY <1>1, Idle DEF PackagerInv, CommandInv, OutputInv, DryRunInv, VerdictIsExact,
            AcceptedIsOnePackaging, DryRunAccepts

\* release.py's verdict is right both ways: what verify or a dry run accepts is
\* one packaging for each platform, whatever was interrupted or left over, and
\* a dry run of a complete build that nothing interrupts is accepted.
THEOREM VerdictsAreExact == Spec => []VerdictIsExact
<1>1. Init => PackagerInv
  BY PackagerStarts DEF Init
<1>2. PackagerInv /\ [Next]_releaseVars => PackagerInv'
  <2>1. [Next]_releaseVars => [PackagerNext]_packagerVars
    BY DEF Next, Local, Hosted, releaseVars
  <2> QED BY <2>1, CommandStep, OutputStep, DryRunStep, VerdictStep DEF PackagerInv
<1>3. PackagerInv => VerdictIsExact
  BY DEF PackagerInv
<1> QED BY <1>1, <1>2, <1>3, PTL DEF Spec
=============================================================================
