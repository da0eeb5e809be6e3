--------------------------- MODULE ReleaseAssets ---------------------------
(***************************************************************************)
(* The files of a release: their names (release-assets.json, names of      *)
(* scripts/release.py), what packaging writes into them and what           *)
(* "release.py verify" requires of them.                                   *)
(*                                                                         *)
(* A file is named by a record of its kind, version and platform.  Its     *)
(* content is a record of its type: an archive of a tree under a top       *)
(* directory, a checksum line (the archive and the name it was computed    *)
(* from), an SPDX document (the files it lists are those of one tree), or  *)
(* Partial, what a write that did not finish leaves behind.                *)
(***************************************************************************)
EXTENDS Naturals, FiniteSets

CONSTANTS
    Platforms,      \* "platforms" of .github/release-assets.json
    Versions,       \* versions that parse as SemVer
    StartsWith(_, _)    \* the text of the first version begins with the second

\* There is a platform, and none has the name of the source artifact.
ASSUME ReleaseAssumption ==
    /\ Platforms # {} /\ "source" \notin Platforms
    /\ \A v \in Versions : StartsWith(v, v)

Dirs == {"bin", "lib", "libexec", "etc"}

\* An install layout: who built it, the machine it runs on, the version that
\* "rpmz" and "rpmz tdnf" report, the entries of bin/, whether bin/rpmz is
\* executable, the directories that are there, those of them that are empty,
\* whether a symbolic link in it climbs with "..", and whether its binaries are
\* free of librpm and what librpm-audit.py forbids with it.
Tree(id, arch, version) ==
    [id |-> id, arch |-> arch, rpmz |-> version, tdnf |-> version,
     bins |-> {"rpmz"}, executable |-> TRUE, dirs |-> Dirs, empty |-> {},
     climbs |-> FALSE, native |-> TRUE]

-----------------------------------------------------------------------------
(* Names.                                                                  *)

nameOf(kind, v, p) == [kind |-> kind, v |-> v, p |-> p]

Archive(v, p) == nameOf("tar.gz", v, p)
Sbom(v, p) == nameOf("sbom", v, p)
Source(v) == nameOf("tar.xz", v, "any")

\* path.name + ".sha256"
Sidecar(n) == [n EXCEPT !.kind = IF n.kind = "tar.xz" THEN "xz.sha256"
                                                      ELSE "gz.sha256"]

names(v, ps) ==
    {Source(v), Sidecar(Source(v))}
        \cup UNION {{Archive(v, p), Sidecar(Archive(v, p)), Sbom(v, p)}
                        : p \in ps}

-----------------------------------------------------------------------------
(* Contents.                                                               *)

Partial == [type |-> "partial"]

archiveOf(tree, top) == [type |-> "archive", tree |-> tree, top |-> top]
sumOf(content, n) == [type |-> "sum", of |-> content, name |-> n]
sbomOf(tree, top) == [type |-> "sbom", tree |-> tree, top |-> top]

\* An SBOM lists the regular files below the staging directory.
write_sbom(staged, v, p) == sbomOf(staged, <<v, p>>)

verify_public_bin(tree) == "bin" \in tree.dirs /\ tree.bins = {"rpmz"}

\* What package_binary asks of the install prefix before it writes anything.
\* It runs bin/rpmz, so the machine must be able to.
Packageable(tree, v, host) ==
    /\ Dirs \subseteq tree.dirs
    /\ verify_public_bin(tree)
    /\ tree.executable
    /\ tree.arch = host
    /\ tree.rpmz = v
    /\ tree.tdnf = v

-----------------------------------------------------------------------------
(* release.py verify.  "files" maps the names in the directory to contents. *)

verify_archive(content, v, p) ==
    /\ content.type = "archive"
    /\ content.top = <<v, p>>
    /\ ~content.tree.climbs
    /\ content.tree.bins = {"rpmz"}
    /\ content.tree.executable
    /\ Dirs \subseteq content.tree.dirs \ content.tree.empty

verify_checksum(files, n) ==
    files[Sidecar(n)] = sumOf(files[n], n)

SbomMatches_Names(files, v, p) ==
    files[Sbom(v, p)].type = "sbom"
        /\ files[Sbom(v, p)].top = files[Archive(v, p)].top

\* The archive's files and the SBOM's, name by name and digest by digest.
SbomMatches(files, v, p) ==
    LET content == files[Archive(v, p)]
        sbom == files[Sbom(v, p)]
    IN  sbom.type = "sbom" /\ sbom.tree = content.tree /\ sbom.top = content.top

SourceReadable(files, v) ==
    files[Source(v)].type = "archive" /\ ~files[Source(v)].tree.climbs

\* Every file whose name begins with "rpmz-" and the version is looked at, so
\* those of a version that extends this one are too.
verify_assets(files, v, ps) ==
    /\ {n \in DOMAIN files : StartsWith(n.v, v)} = names(v, ps)
    /\ \A p \in ps :
           /\ verify_archive(files[Archive(v, p)], v, p)
           /\ verify_checksum(files, Archive(v, p))
           /\ SbomMatches(files, v, p)
    /\ verify_checksum(files, Source(v))
    /\ SourceReadable(files, v)
=============================================================================
