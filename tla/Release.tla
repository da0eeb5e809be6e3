------------------------------ MODULE Release ------------------------------
(***************************************************************************)
(* The release tooling: release.py in a developer's output directory, or,  *)
(* once a tag is pushed, the release workflow.  The two share no files; a  *)
(* behaviour is of one or of the other.                                    *)
(***************************************************************************)
EXTENDS Packager, ReleasePipeline

VARIABLE pushed

releaseVars == <<packagerVars, pipelineVars, pushed>>

\* The side that takes no part starts from one of its initial states.
Init ==
    /\ PackagerInit
    /\ PipelineInit
    /\ pushed \in BOOLEAN
    /\ ~pushed => /\ workflow = Repository
                  /\ tag = CHOOSE t \in Tags : TRUE
                  /\ Stray \notin DOMAIN page[tag.version].files

Local == ~pushed /\ PackagerNext /\ UNCHANGED <<pipelineVars, pushed>>
Hosted == pushed /\ PipelineNext /\ UNCHANGED <<packagerVars, pushed>>

Next == Local \/ Hosted

Spec == Init /\ [][Next]_releaseVars
=============================================================================
