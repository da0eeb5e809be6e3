----------------------------- MODULE MCConfigFile -----------------------------
(***************************************************************************)
(* ConfigFile with three releases that ship the path, with and without     *)
(* %config(noreplace), and one that no longer does.                        *)
(***************************************************************************)
EXTENDS ConfigFile

CONSTANTS c1, c2, c3

MCReleases == {[content |-> c1, noreplace |-> FALSE], [content |-> c2, noreplace |-> TRUE],
               [content |-> c3, noreplace |-> FALSE], [content |-> Absent, noreplace |-> FALSE]}
=============================================================================
