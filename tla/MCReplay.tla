------------------------------ MODULE MCReplay ------------------------------
(***************************************************************************)
(* Recorded plans of up to two actions on a target with two packages, with *)
(* their steps in every order, and plans that install into a target that   *)
(* has no rpmdb yet.                                                       *)
(***************************************************************************)
EXTENDS Replay, SequencesExt

pkg(n, v, fs) == [name |-> n, arch |-> "x86_64", evr |-> v, files |-> fs]
a0 == pkg("a", 0, {"p"})
a1 == pkg("a", 1, {"p", "q"})
a2 == pkg("a", 2, {"p"})
b1 == pkg("b", 1, {"q"})
c1 == pkg("c", 1, {"r"})
d1 == pkg("d", 1, {"q"})

MCPaths == {"p", "q", "r"}
Db == <<a1, b1>>

action(kind, p, h, priors) == [kind |-> kind, pkg |-> p, hnum |-> h, priors |-> priors]
step(a, op, row) == [action |-> a, op |-> op, row |-> row]
planOf(db, recorded, actions, steps, file) ==
    [db |-> db, recorded |-> recorded, actions |-> actions, steps |-> steps, main |-> file]

Actions ==
    {action("install", c1, 0, <<>>),
     action("upgrade", a2, 0, <<1>>), action("upgrade", a2, 0, <<2, 1>>),
     action("downgrade", a0, 0, <<1>>), action("reinstall", a1, 0, <<1>>),
     action("obsolete", d1, 0, <<1>>), action("obsolete", d1, 0, <<1, 2>>),
     action("obsolete", c1, 0, <<1>>), action("obsolete", c1, 0, <<2, 1>>),
     action("erase", a1, 1, <<>>), action("erase", b1, 2, <<>>)}

\* The steps that an action's own part of the transaction consists of.
OwnSteps(actions, a) ==
    {step(a, TargetOperation(actions[a].kind), actions[a].hnum)}
    \cup {step(a, "erase", h) :
             h \in IF Erases(actions[a]) THEN PriorRows(actions[a]) ELSE {}}

\* The orders of a set of steps; MaxSteps bounds the plans.
MaxSteps == 4
Perms == [n \in 0..MaxSteps |->
            {o \in [1..n -> 1..n] : \A j, k \in 1..n : o[j] = o[k] => j = k}]
Orders(S) ==
    LET seq == SetToSeq(S)
    IN  IF Cardinality(S) > MaxSteps THEN {}
        ELSE {[k \in DOMAIN o |-> seq[o[k]]] : o \in Perms[Cardinality(S)]}

\* All sets of steps that serve the actions, with and without a shared erase.
StepSets(actions) ==
    LET all == UNION {OwnSteps(actions, a) : a \in DOMAIN actions}
    IN  {all} \cup {all \ {x} : x \in {y \in all : y.op = "erase"}}

PlansOf(db, recorded, file, lists) ==
    UNION {{planOf(db, recorded, actions, o, file) :
               o \in UNION {Orders(S) : S \in StepSets(actions)}} :
           actions \in lists}

Pairs(S) == {<<x, y>> : x, y \in S}

PresentPlans ==
    PlansOf(Db, Db, "present", {<<>>} \cup {<<x>> : x \in Actions} \cup Pairs(Actions))

\* Recorded against another target.
OtherPlans ==
    PlansOf(Db, <<a1, c1>>, "present",
            {<<action("erase", c1, 2, <<>>)>>, <<action("install", c1, 0, <<>>)>>,
             <<action("upgrade", a2, 0, <<1>>)>>})

AbsentPlans ==
    PlansOf(<<>>, <<>>, "absent",
            {<<>>, <<action("install", c1, 0, <<>>)>>,
             <<action("install", c1, 0, <<>>), action("install", a1, 0, <<>>)>>})

MCPlans == PresentPlans \cup OtherPlans \cup AbsentPlans
=============================================================================
