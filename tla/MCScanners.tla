----------------------------- MODULE MCScanners -----------------------------
(***************************************************************************)
(* The three readers of text on which the repository's audits rest, each   *)
(* against what its input means: one of them gets its input, the others    *)
(* keep an empty one.                                                      *)
(***************************************************************************)
EXTENDS DeadErrdefer, ConfinementAudit, WorkflowYaml

VARIABLE scanner

scannerVars == <<scanner, zigVars, segments, yamlVars>>

Init ==
    /\ scanner \in {"errdefer", "confinement", "workflow"}
    /\ ZigInit
    /\ TextInit /\ (scanner # "confinement" => segments = <<>>)
    /\ YamlInit /\ (scanner # "workflow" => tree = entries(<<>>))

Next ==
    \/ /\ scanner = "errdefer" /\ ZigNext
       /\ UNCHANGED <<scanner, segments, yamlVars>>
    \/ /\ scanner = "confinement" /\ AddSegment
       /\ UNCHANGED <<scanner, zigVars, yamlVars>>
    \/ /\ scanner = "workflow" /\ YamlNext
       /\ UNCHANGED <<scanner, zigVars, segments>>

Spec == Init /\ [][Next]_scannerVars
=============================================================================
