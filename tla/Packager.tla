------------------------------ MODULE Packager ------------------------------
(***************************************************************************)
(* scripts/release.py on a developer's machine or in the dry run of CI:    *)
(* the commands binary, source, verify and dry-run, one after the other,   *)
(* in an output directory that keeps what earlier commands left there.  A  *)
(* command can fail at any write and be killed at any point; a write that  *)
(* is cut short leaves a partial file.                                     *)
(***************************************************************************)
EXTENDS ReleaseAssets

CONSTANTS
    Host,           \* the platform of this machine
    Installs,       \* the install layouts a build can leave in the prefix
    MaxCommands,    \* bound on the commands of a behaviour
    MaxFaults       \* bound on the failures and kills of a behaviour

VARIABLES
    output,     \* the files of the output directory
    staging,    \* its staging directories, by version and platform
    cmd,        \* the running command: its step, its arguments, the layout
                \* found in --prefix, and whether an exception is on its way
                \* to the finally clause
    last,       \* the last command that ended, with its result
    commands, faults

packagerVars == <<output, staging, cmd, last, commands, faults>>

put(f, n, c) == [m \in DOMAIN f \cup {n} |-> IF m = n THEN c ELSE f[m]]
drop(f, n) == [m \in DOMAIN f \ {n} |-> f[m]]
Nothing == [n \in {} |-> Partial]

\* A command; one that raised was hurt by a fault.
command(name, v, ps, tree, pc, raised) ==
    [name |-> name, v |-> v, ps |-> ps, tree |-> tree, pc |-> pc,
     raised |-> raised, hurt |-> raised]
NoCmd == command("none", "none", {}, Partial, "idle", FALSE)

NoneEnded == [name |-> "none", v |-> "none", ps |-> {}, hurt |-> FALSE,
              result |-> "none", of |-> "none"]

\* The source archive is made from the commit that is checked out.
Commit == [id |-> "HEAD", climbs |-> FALSE]

PackagerInit ==
    /\ output = Nothing
    /\ staging = Nothing
    /\ cmd = NoCmd
    /\ last = NoneEnded
    /\ commands = 0
    /\ faults = 0

Begin(name, v, ps, trees, pc) ==
    /\ cmd.pc = "idle"
    /\ commands < MaxCommands
    /\ commands' = commands + 1
    /\ \E tree \in trees : cmd' = command(name, v, ps, tree, pc, FALSE)
    /\ last' = NoneEnded
    /\ UNCHANGED faults

ended(hurt, result) ==
    [name |-> cmd.name, v |-> cmd.v, ps |-> cmd.ps, hurt |-> hurt,
     result |-> result, of |-> cmd.tree]

End(result) ==
    /\ cmd' = NoCmd
    /\ last' = ended(cmd.hurt, result)

Goto(pc) == cmd' = [cmd EXCEPT !.pc = pc] /\ UNCHANGED last

\* The one platform of binary and dry-run.
platform == CHOOSE p \in cmd.ps : TRUE
package == <<cmd.v, platform>>

-----------------------------------------------------------------------------
\* Any build may be in the prefix when a command starts.
StartBinary(v, p) ==
    /\ Begin("binary", v, {p}, Installs, "check")
    /\ UNCHANGED <<output, staging>>

StartSource(v) ==
    Begin("source", v, {}, {Partial}, "source")
        /\ UNCHANGED <<output, staging>>

StartVerify(v, ps) ==
    Begin("verify", v, ps, {Partial}, "verify")
        /\ UNCHANGED <<output, staging>>

\* dry_run empties the output directory first.
StartDryRun(v) ==
    /\ Begin("dry-run", v, {Host}, Installs, "check")
    /\ output' = Nothing
    /\ staging' = Nothing

CheckPrefix ==
    /\ cmd.pc = "check"
    /\ IF Packageable(cmd.tree, cmd.v, Host) THEN Goto("stage")
                                            ELSE End("failed")
    /\ UNCHANGED <<output, staging, commands, faults>>

MakeStaging ==
    /\ cmd.pc = "stage"
    /\ staging' = put(staging, package, Partial)
    /\ Goto("copy")
    /\ UNCHANGED <<output, commands, faults>>

copy_install_tree ==
    /\ cmd.pc = "copy"
    /\ staging' = put(staging, package, cmd.tree)
    /\ Goto("archive")
    /\ UNCHANGED <<output, commands, faults>>

\* The file the step at hand writes, and what it writes into it.
target ==
    CASE cmd.pc = "archive" -> Archive(cmd.v, platform)
      [] cmd.pc = "sum" -> Sidecar(Archive(cmd.v, platform))
      [] cmd.pc = "sbom" -> Sbom(cmd.v, platform)
      [] cmd.pc = "source" -> Source(cmd.v)
      [] cmd.pc = "sourcesum" -> Sidecar(Source(cmd.v))

content ==
    CASE cmd.pc = "archive" -> archiveOf(staging[package], package)
      [] cmd.pc = "sum" -> sumOf(output[Archive(cmd.v, platform)],
                                 Archive(cmd.v, platform))
      [] cmd.pc = "sbom" -> write_sbom(staging[package], cmd.v, platform)
      [] cmd.pc = "source" -> archiveOf(Commit, cmd.v)
      [] cmd.pc = "sourcesum" -> sumOf(output[Source(cmd.v)], Source(cmd.v))

Write(pc, next) ==
    /\ cmd.pc = pc
    /\ output' = put(output, target, content)
    /\ next
    /\ UNCHANGED <<staging, commands, faults>>

WriteArchive == Write("archive", Goto("sum"))
write_checksum == Write("sum", Goto("sbom"))
WriteSbom == Write("sbom", Goto("clean"))
WriteSource == Write("source", Goto("sourcesum"))
WriteSourceChecksum ==
    Write("sourcesum", IF cmd.name = "dry-run" THEN Goto("verify")
                                               ELSE End("ok"))

\* The finally clause; rmtree ignores errors, so the directory may stay.
RemoveStaging ==
    /\ cmd.pc = "clean"
    /\ \/ staging' = drop(staging, package)
       \/ /\ package \in DOMAIN staging
          /\ staging' = put(staging, package, Partial)
    /\ CASE cmd.raised -> End("failed")
         [] ~cmd.raised /\ cmd.name = "dry-run" -> Goto("source")
         [] OTHER -> End("ok")
    /\ UNCHANGED <<output, commands, faults>>

Verify ==
    /\ cmd.pc = "verify"
    /\ End(IF verify_assets(output, cmd.v, cmd.ps) THEN "ok" ELSE "failed")
    /\ UNCHANGED <<output, staging, commands, faults>>

-----------------------------------------------------------------------------
Writing == cmd.pc \in {"archive", "sum", "sbom", "source", "sourcesum"}
InTry == cmd.pc \in {"stage", "copy", "archive", "sum", "sbom"}

\* A write that does not finish may have truncated its file already.
CutShort ==
    /\ faults < MaxFaults
    /\ faults' = faults + 1
    /\ \/ UNCHANGED output
       \/ Writing /\ output' = put(output, target, Partial)
    /\ UNCHANGED <<staging, commands>>

\* An exception: the finally clause runs when the step is inside the try.
Raise ==
    /\ Writing \/ cmd.pc \in {"stage", "copy"}
    /\ CutShort
    /\ IF InTry
       THEN /\ cmd' = command(cmd.name, cmd.v, cmd.ps, cmd.tree, "clean", TRUE)
            /\ UNCHANGED last
       ELSE /\ cmd' = NoCmd
            /\ last' = ended(TRUE, "failed")

Kill ==
    /\ cmd.pc # "idle"
    /\ CutShort
    /\ cmd' = NoCmd
    /\ last' = ended(TRUE, "killed")

PackagerStep ==
    \/ CheckPrefix
    \/ MakeStaging
    \/ copy_install_tree
    \/ WriteArchive
    \/ write_checksum
    \/ WriteSbom
    \/ RemoveStaging
    \/ WriteSource
    \/ WriteSourceChecksum
    \/ Verify

PackagerNext ==
    \/ \E v \in Versions, p \in Platforms : StartBinary(v, p)
    \/ \E v \in Versions : StartSource(v)
    \/ \E v \in Versions, ps \in {Platforms} \cup {{p} : p \in Platforms} :
           StartVerify(v, ps)
    \/ \E v \in Versions : StartDryRun(v)
    \/ PackagerStep
    \/ Raise
    \/ Kill

-----------------------------------------------------------------------------
\* What makes the files of a platform one packaging: an archive of a tree that
\* reports the version, its own checksum and the SBOM of that very tree.
OnePackaging(files, v, p) ==
    LET archive == files[Archive(v, p)]
    IN  /\ archive.type = "archive"
        /\ archive.tree.rpmz = v /\ archive.tree.tdnf = v
        /\ files[Sidecar(Archive(v, p))] = sumOf(archive, Archive(v, p))
        /\ files[Sbom(v, p)] = sbomOf(archive.tree, <<v, p>>)

\* release.py verify and dry-run: whatever was interrupted, repeated or left
\* over before, a directory they accept holds for each platform the files of
\* one packaging, of a build that reports the version, although verify never
\* runs it.
AcceptedIsOnePackaging ==
    last.name \in {"verify", "dry-run"} /\ last.result = "ok" =>
        \A p \in last.ps : OnePackaging(output, last.v, p)

\* release.py dry-run: if nothing fails it accepts a complete build, whatever
\* the output directory held (other versions, partial files, staging).
DryRunAccepts ==
    /\ last.name = "dry-run" /\ ~last.hurt
    /\ Packageable(last.of, last.v, Host)
    /\ last.of.empty = {} /\ ~last.of.climbs
    => last.result = "ok"

\* The verdict of release.py on an output directory is right both ways.
VerdictIsExact == AcceptedIsOnePackaging /\ DryRunAccepts
=============================================================================
