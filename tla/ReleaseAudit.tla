---------------------------- MODULE ReleaseAudit ----------------------------
(***************************************************************************)
(* scripts/release-audit.py: which release workflow, CI workflow, manifest *)
(* and release scripts the audit accepts.                                  *)
(*                                                                         *)
(* A candidate "c" is a record of what the audited files say, one field    *)
(* for each thing the audit compares: the release workflow's triggers,     *)
(* token scopes with write access, matrices, steps and step inputs; the CI *)
(* workflow's; the platforms of the manifest; and for each script the      *)
(* programs its functions run, the functions they call, and the shape of   *)
(* its imports.  A condition of the audit on the wording of a document is  *)
(* a comparison with the field's value in release.yml as it stands.        *)
(***************************************************************************)
EXTENDS ReleaseAssets, Sequences

Jobs == {"build", "source", "release", "smoke"}

\* The steps of release.yml, by job.
expected_steps ==
    [build |-> <<"checkout", "zig", "cache", "version", "build", "binary",
                 "upload">>,
     source |-> <<"checkout", "version", "source", "upload">>,
     release |-> <<"checkout", "download", "version", "attest", "create">>,
     smoke |-> <<"checkout", "ghr", "version", "smoke">>]

allowed_packager_argv ==
    [rpmz_version |-> "rpmz --version",
     compatibility_version |-> "rpmz tdnf --version",
     package_source |-> "git archive HEAD"]

allowed_smoke_argv ==
    [ghr_install |-> "ghr install", rpmz_version |-> "rpmz --version",
     compatibility_version |-> "rpmz tdnf --version",
     native_audit |-> "librpm-audit", release_assets |-> "gh release view",
     download_assets |-> "gh release download"]

expected_calls ==
    [package_binary |-> {"verify_public_bin", "rpmz_version",
                         "compatibility_version", "copy_install_tree",
                         "add_tree", "write_checksum", "write_sbom"},
     package_source |-> {"write_checksum"},
     verify_assets |-> {"verify_archive", "verify_checksum",
                        "archive_members"},
     dry_run |-> {"package_binary", "package_source", "verify_assets"},
     self_test |-> {"verify_public_archive_bin"}]

SmokeChecks == {"validate_arguments", "expected_assets", "verify_checksum"}

\* token.own: the job states its permissions; token.write: the write scopes.
inherited == [own |-> FALSE, write |-> {}]
releaseToken ==
    [own |-> TRUE, write |-> {"contents", "id-token", "attestations"}]

\* The files as they are in the repository.
Repository ==
    [rootKeys |-> {"name", "on", "permissions", "jobs"},
     on |-> {"v*"},
     writeDefault |-> {},
     token |-> [j \in Jobs |-> IF j = "release" THEN releaseToken
                                                ELSE inherited],
     persist |-> FALSE,
     needs |-> [j \in Jobs |-> CASE j = "release" -> {"build", "source"}
                                 [] j = "smoke" -> {"release"}
                                 [] OTHER -> {}],
     buildOn |-> [p \in Platforms |-> p],
     smokeOn |-> [p \in Platforms |-> p],
     failFast |-> FALSE,
     steps |-> expected_steps,
     versionFrom |-> [j \in Jobs |-> "tag"],
     zigPin |-> "v0.17.0",
     artifact |-> [j \in {"build", "source"} |->
                      IF j = "build" THEN "per platform" ELSE "source"],
     merge |-> TRUE,
     subjects |-> {"tar.gz", "tar.xz"},
     inputs |-> {"name", "body", "files", "prerelease"},
     files |-> {"tar.gz", "tar.xz", "gz.sha256", "xz.sha256", "sbom"},
     prerelease |-> "parsed",
     smokeScript |-> "release-smoke.py",
     env |-> {<<"build", "zig">>, <<"smoke", "smoke">>},
     signing |-> FALSE,
     ci |-> [writeDefault |-> {}, zigPin |-> "v0.17.0", cacheAfterZig |-> TRUE,
             dryRunToken |-> inherited, dryRun |-> "release-dry-run"],
     manifest |-> Platforms,
     packager |-> [argv |-> allowed_packager_argv, calls |-> expected_calls,
                   imports |-> "allowed", signs |-> FALSE,
                   indirect |-> FALSE],
     smoke |-> [argv |-> allowed_smoke_argv,
                methods |-> DOMAIN allowed_smoke_argv,
                calls |-> SmokeChecks, conditional |-> {}, ignored |-> {},
                imports |-> "allowed", signs |-> FALSE,
                indirect |-> FALSE],
     common |-> [imports |-> "allowed", signs |-> FALSE, indirect |-> FALSE]]

-----------------------------------------------------------------------------
(* audit_release_workflow, in the order of its code.                       *)

AuditRoot(c) ==
    c.rootKeys = {"name", "on", "permissions", "jobs"} /\ c.on = {"v*"}

AuditPermissions(c) ==
    /\ c.writeDefault = {}
    /\ \A j \in Jobs \ {"release"} : ~c.token[j].own
    /\ c.token["release"] = releaseToken
    /\ ~c.persist

AuditNeeds_SmokeOnly(c) == c.needs["smoke"] = {"release"}

AuditNeeds(c) ==
    c.needs["release"] = {"build", "source"} /\ c.needs["smoke"] = {"release"}

AuditMatrix_Names(c) == DOMAIN c.buildOn = Platforms

AuditMatrix(c) ==
    /\ c.buildOn = [p \in Platforms |-> p]
    /\ c.smokeOn = [p \in Platforms |-> p]

AuditSteps(c) == c.steps = expected_steps

AuditVersion(c) == \A j \in Jobs : c.versionFrom[j] = "tag"

audit_zig_install(pin) == pin = "v0.17.0"

AuditArtifacts_Merged(c) == c.artifact["source"] = "source" /\ c.merge

AuditArtifacts(c) ==
    /\ c.artifact = [j \in {"build", "source"} |->
                         IF j = "build" THEN "per platform" ELSE "source"]
    /\ c.merge

AuditAttestation_Binaries(c) == "tar.gz" \in c.subjects

AuditAttestation(c) == c.subjects = {"tar.gz", "tar.xz"}

AuditCreate(c) ==
    /\ c.inputs = {"name", "body", "files", "prerelease"}
    /\ c.files = {"tar.gz", "tar.xz", "gz.sha256", "xz.sha256", "sbom"}
    /\ c.prerelease = "parsed"

AuditSmokeStep(c) == c.smokeScript = "release-smoke.py"

AuditEnv(c) == c.env = {<<"build", "zig">>, <<"smoke", "smoke">>}

AuditTokens(c) == ~c.signing

audit_release_workflow(c) ==
    /\ AuditRoot(c)
    /\ AuditPermissions(c)
    /\ AuditNeeds(c)
    /\ AuditMatrix(c)
    /\ AuditSteps(c)
    /\ AuditVersion(c)
    /\ audit_zig_install(c.zigPin)
    /\ AuditArtifacts(c)
    /\ AuditAttestation(c)
    /\ AuditCreate(c)
    /\ AuditSmokeStep(c)
    /\ AuditEnv(c)
    /\ AuditTokens(c)

audit_ci_workflow(c) ==
    /\ c.ci.writeDefault = {}
    /\ audit_zig_install(c.ci.zigPin)
    /\ c.ci.cacheAfterZig
    /\ c.ci.dryRunToken = inherited
    /\ c.ci.dryRun = "release-dry-run"

-----------------------------------------------------------------------------
(* The scripts.                                                            *)

\* A string constant that names a signing program.
audit_script_signing(script) == ~script.signs

audit_imports(script) == script.imports = "allowed"

\* Every subprocess.run is direct and runs what its function may run; of its
\* keywords the names are compared, not the values (check=True).
audit_process_execution(script, allowed) ==
    ~script.indirect /\ script.argv = allowed

audit_packager(c) ==
    /\ c.manifest = Platforms
    /\ audit_script_signing(c.packager)
    /\ audit_imports(c.packager)
    /\ audit_process_execution(c.packager, allowed_packager_argv)
    /\ \A f \in DOMAIN expected_calls :
           expected_calls[f] \subseteq c.packager.calls[f]

audit_smoke_source_NoHelpers(c) ==
    audit_process_execution(c.smoke, allowed_smoke_argv)

\* The calls have to be there, two of them outside of any condition; what the
\* script makes of their results is not looked at.
audit_smoke_source(c) ==
    /\ audit_script_signing(c.smoke)
    /\ audit_imports(c.smoke)
    /\ audit_process_execution(c.smoke, allowed_smoke_argv)
    /\ c.smoke.methods = DOMAIN allowed_smoke_argv
    /\ c.smoke.conditional \cap {"ghr_install", "run_smoke"} = {}
    /\ SmokeChecks \subseteq c.smoke.calls

audit(c) ==
    /\ audit_release_workflow(c)
    /\ audit_ci_workflow(c)
    /\ audit_packager(c)
    /\ audit_smoke_source(c)
    /\ audit_script_signing(c.common)
    /\ audit_imports(c.common) /\ ~c.common.indirect

-----------------------------------------------------------------------------
(* The variants of self_test that change what the run does; each of them   *)
(* must be refused.                                                        *)

\* p builds on the machine of q.
Swapped(on, p, q) == [on EXCEPT ![p] = q]

SelfTestVariants ==
    {[Repository EXCEPT !.writeDefault = {"contents"}],
     [Repository EXCEPT !.token["release"] = inherited],
     [Repository EXCEPT !.token["build"] = [own |-> TRUE,
                                            write |-> {"contents"}]],
     [Repository EXCEPT !.persist = TRUE],
     [Repository EXCEPT !.needs["smoke"] = {"build"}],
     [Repository EXCEPT !.files = @ \ {"gz.sha256", "xz.sha256"}],
     [Repository EXCEPT !.smokeScript = "release-smoke-decoy.py"],
     [Repository EXCEPT !.steps["release"] =
         SubSeq(@, 1, 4) \o <<"sign">> \o SubSeq(@, 5, 5)],
     [Repository EXCEPT !.inputs = @ \cup {"tag_name"}],
     [Repository EXCEPT !.inputs = @ \cup {"draft"}],
     [Repository EXCEPT !.signing = TRUE],
     [Repository EXCEPT !.ci.writeDefault = {"contents"}],
     [Repository EXCEPT !.zigPin = "0000000"],
     [Repository EXCEPT !.ci.zigPin = "v0.15.2"],
     [Repository EXCEPT !.rootKeys = @ \cup {"env"}],
     [Repository EXCEPT !.packager.indirect = TRUE],
     [Repository EXCEPT !.smoke.argv["ghr_install"] = "ghr download"],
     [Repository EXCEPT !.smoke.conditional = {"ghr_install"}]}
        \cup (UNION {{[Repository EXCEPT !.buildOn = Swapped(@, p, q)]
                          : q \in Platforms \ {p}} : p \in Platforms})
        \cup {[Repository EXCEPT !.manifest = {p}] : p \in Platforms}

\* Checks of the smoke script that do not count: called only under a condition
\* that does not hold, or with a result that ends nothing (check=False, or a
\* comparison left out).  The audit accepts all of these.
LenientSmokes ==
    {[Repository EXCEPT !.smoke.conditional = {"expected_assets"}],
     [Repository EXCEPT !.smoke.conditional = {"verify_checksum"}],
     [Repository EXCEPT !.smoke.ignored = {"native_audit"}]}

\* Other edits of the same files that a maintainer could make.
OtherVariants ==
    {[Repository EXCEPT !.failFast = TRUE],
     [Repository EXCEPT !.needs["release"] = {"build"}],
     [Repository EXCEPT !.versionFrom["source"] = "fixed"],
     [Repository EXCEPT !.artifact["build"] = "one name"],
     [Repository EXCEPT !.subjects = {"tar.gz"}],
     [Repository EXCEPT !.prerelease = "false"],
     [Repository EXCEPT !.packager.argv["package_source"] =
         "git archive main"],
     [Repository EXCEPT !.packager.calls["package_binary"] =
         @ \ {"write_sbom"}],
     [Repository EXCEPT !.smoke.calls = @ \ {"expected_assets"}]}

Candidates ==
    {Repository} \cup SelfTestVariants \cup LenientSmokes \cup OtherVariants
=============================================================================
