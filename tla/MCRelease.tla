----------------------------- MODULE MCRelease -----------------------------
(***************************************************************************)
(* Two platforms, a version and a prerelease of it, a tag of each and one  *)
(* that does not parse; builds that are complete, with one directory more, *)
(* of the other version, with an empty directory, a retired executable or  *)
(* a climbing link.                                                        *)
(***************************************************************************)
EXTENDS Release

MCStartsWith(text, prefix) == text = prefix \/ (text = "0.1.0-rc.1" /\ prefix = "0.1.0")

MCTags ==
    {[version |-> "0.1.0", parses |-> TRUE, prerelease |-> FALSE],
     [version |-> "0.1.0-rc.1", parses |-> TRUE, prerelease |-> TRUE],
     [version |-> "01.0", parses |-> FALSE, prerelease |-> FALSE]}

first == Tree(1, "x64", "0.1.0")

MCInstalls ==
    {first,
     [Tree(2, "x64", "0.1.0") EXCEPT !.dirs = @ \cup {"share"}],
     Tree(3, "x64", "0.1.0-rc.1"),
     [first EXCEPT !.bins = {"rpmz", "tdnf"}],
     [first EXCEPT !.empty = {"etc"}, !.climbs = TRUE]}
=============================================================================
