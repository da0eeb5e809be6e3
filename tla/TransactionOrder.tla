-------------------------- MODULE TransactionOrder --------------------------
(***************************************************************************)
(* How the native planner orders a transaction: buildNativeOrder and       *)
(* topoOrderPhase of repomd/transaction_native.zig.  The packages that are *)
(* added come first, providers before what requires them; then the ones    *)
(* that are erased, in the opposite direction.  Each phase repeatedly      *)
(* takes a package whose count of unplaced predecessors is zero and, when  *)
(* requirements form a cycle, one that chooseCycleBreak picks.             *)
(*                                                                         *)
(* A package is known by its input index.  A plan gives for each index     *)
(*   op        "add" or "erase";                                           *)
(*   requires  its requirements [name, file, provide, flags]: the packages *)
(*             that match by name, by a file and by a provide, and whether *)
(*             the requirement is "pre" or "unordered" (isUnorderedReq).   *)
(***************************************************************************)
EXTENDS Naturals, Sequences, FiniteSets

CONSTANT Plans  \* the transactions to order

Requirements == [name : SUBSET Nat, file : SUBSET Nat, provide : SUBSET Nat,
                 flags : SUBSET {"pre", "unordered"}]

Packages == [op : {"add", "erase"}, requires : Seq(Requirements)]

ASSUME PlansAssumption == Plans \subseteq Seq(Packages)

VARIABLES
    plan,
    phase,      \* the phase being ordered, "end" when there is none left
    remaining,  \* packages of the phase that are not placed yet
    indegree,   \* for each package the predecessors it is still waiting for
    order       \* input indices in execution order

vars == <<plan, phase, remaining, indegree, order>>

Inputs == DOMAIN plan
Members(ph) == {i \in Inputs : plan[i].op = ph}

Least(S) == CHOOSE i \in S : \A j \in S : i <= j

\* findMatchingTransactionProvider: the first other package of the phase that
\* matches, a name before a file before a provide; none for a requirement that
\* does not order.
Provider(ph, i, relation) ==
    LET Among(S) == (S \cap Members(ph)) \ {i}
    IN  IF "unordered" \in relation.flags THEN {}
        ELSE IF Among(relation.name) # {} THEN {Least(Among(relation.name))}
        ELSE IF Among(relation.file) # {} THEN {Least(Among(relation.file))}
        ELSE IF Among(relation.provide) # {} THEN {Least(Among(relation.provide))}
        ELSE {}

\* The places in i's list of requirements that p is the provider for.
Uses(ph, i, p) ==
    {k \in DOMAIN plan[i].requires : p \in Provider(ph, i, plan[i].requires[k])}

\* An edge of the adjacency lists, kept once however many requirements agree.
Precedes(ph, from, to) ==
    IF ph = "add" THEN Uses(ph, to, from) # {} ELSE Uses(ph, from, to) # {}

Predecessors(ph, i) == {j \in Members(ph) : Precedes(ph, j, i)}
Successors(ph, i) == {j \in Members(ph) : Precedes(ph, i, j)}

OutgoingCount(ph, i) == Cardinality(Successors(ph, i))

\* incoming_pre: an edge counts when the requirement it was made for is "pre",
\* which is the first one that agrees.
IncomingPre(ph, i) ==
    Cardinality({j \in Predecessors(ph, i) :
        LET c == IF ph = "add" THEN i ELSE j
            p == IF ph = "add" THEN j ELSE i
        IN  "pre" \in plan[c].requires[Least(Uses(ph, c, p))].flags})

\* lessPhaseNode, the order among packages that are ready.
LessPhaseNode(ph, l, r) ==
    \/ OutgoingCount(ph, l) > OutgoingCount(ph, r)
    \/ /\ OutgoingCount(ph, l) = OutgoingCount(ph, r)
       /\ \/ IncomingPre(ph, l) < IncomingPre(ph, r)
          \/ IncomingPre(ph, l) = IncomingPre(ph, r) /\ l < r

\* chooseCycleBreak's order among all that remain.
LessCycleBreak(ph, l, r) ==
    \/ IncomingPre(ph, l) < IncomingPre(ph, r)
    \/ /\ IncomingPre(ph, l) = IncomingPre(ph, r)
       /\ \/ OutgoingCount(ph, l) > OutgoingCount(ph, r)
          \/ OutgoingCount(ph, l) = OutgoingCount(ph, r) /\ l < r

\* Mutant: one per requirement, as if the edges were not merged.
Degrees_PerRequirement(ph) ==
    [i \in Inputs |->
        IF ph = "add"
        THEN Cardinality({k \in DOMAIN plan[i].requires :
                             Provider(ph, i, plan[i].requires[k]) # {}})
        ELSE Cardinality(Predecessors(ph, i))]

Degrees(ph) == [i \in Inputs |-> Cardinality(Predecessors(ph, i))]

Init ==
    /\ plan \in Plans
    /\ phase = "add"
    /\ remaining = Members("add")
    /\ indegree = Degrees("add")
    /\ order = <<>>

Ready == {i \in remaining : indegree[i] = 0}

\* The package leaves: it is placed, and those it precedes wait for one less.
Place(n) ==
    /\ remaining' = remaining \ {n}
    /\ order' = Append(order, n)
    /\ indegree' = [i \in Inputs |->
                      IF Precedes(phase, n, i) /\ indegree[i] > 0
                      THEN indegree[i] - 1 ELSE indegree[i]]
    /\ UNCHANGED <<plan, phase>>

PickReady(n) ==
    /\ n \in Ready
    /\ \A r \in Ready \ {n} : LessPhaseNode(phase, n, r)
    /\ Place(n)

\* Mutant: the best candidate is taken, ready or not.
BreakCycle_Eager(n) ==
    /\ n \in remaining
    /\ \A r \in remaining \ {n} : LessCycleBreak(phase, n, r)
    /\ Place(n)

BreakCycle(n) ==
    /\ Ready = {}
    /\ n \in remaining
    /\ \A r \in remaining \ {n} : LessCycleBreak(phase, n, r)
    /\ Place(n)

\* Mutant: the second phase starts over with an empty list.
StartErase_Clears ==
    /\ phase = "add" /\ remaining = {}
    /\ phase' = "erase"
    /\ remaining' = Members("erase")
    /\ indegree' = Degrees("erase")
    /\ order' = <<>>
    /\ UNCHANGED plan

\* The second call of topoOrderPhase, reversed.
StartErase ==
    /\ phase = "add" /\ remaining = {}
    /\ phase' = "erase"
    /\ remaining' = Members("erase")
    /\ indegree' = Degrees("erase")
    /\ UNCHANGED <<plan, order>>

Return ==
    /\ phase = "erase" /\ remaining = {}
    /\ phase' = "end"
    /\ UNCHANGED <<plan, remaining, indegree, order>>

Done == phase = "end" /\ UNCHANGED vars

Next ==
    \/ \E n \in remaining : PickReady(n) \/ BreakCycle(n)
    \/ StartErase \/ Return \/ Done

Spec == Init /\ [][Next]_vars

-----------------------------------------------------------------------------
TypeOK ==
    /\ plan \in Seq(Packages)
    /\ phase \in {"add", "erase", "end"}
    /\ remaining \subseteq Inputs
    /\ indegree \in [Inputs -> Nat]
    /\ order \in Seq(Inputs)

\* A counter of the loop is the number of unplaced predecessors, although
\* several requirements may agree on one provider and a broken cycle places
\* packages whose counter is not zero.
CountersExact ==
    phase # "end" => \A i \in remaining :
        indegree[i] = Cardinality(Predecessors(phase, i) \cap remaining)

\* A package goes before one it should follow only when each package that
\* remains has to wait for another that remains, so that no choice was right.
BreaksOnlyDeadlocks ==
    [][ \A n \in remaining \ remaining' :
          Predecessors(phase, n) \cap remaining # {} =>
              \A r \in remaining : Predecessors(phase, r) \cap remaining # {} ]_vars

\* i lies on a cycle of requirements or has to follow one: it belongs to packages
\* of the phase each of which has to follow another of them.  Going back from i
\* within them never ends, and a phase is finite.
DownstreamOfCycle(ph, i) ==
    \E S \in SUBSET Members(ph) :
        i \in S /\ \A m \in S : Predecessors(ph, m) \cap S # {}

\* A requirement is broken only downstream of a cycle: where there is none, the
\* order is the topological one, providers before install and consumers before
\* erase ("puts providers before install prereqs and consumers before erase
\* prereqs", test in transaction_native.zig).
OnlyCyclesBreakOrder ==
    \A ph \in {"add", "erase"} : \A j, k \in DOMAIN order :
        j < k /\ order[j] \in Members(ph) /\ order[k] \in Predecessors(ph, order[j])
            => DownstreamOfCycle(ph, order[j])

\* What is placed so far and what remains partition the transaction, with every
\* addition before every erase: at the end the order is the NativeOrder that
\* the executor's plans have (TransactionPlan).
OrderComplete ==
    LET placed == {order[k] : k \in DOMAIN order}
    IN  /\ \A j, k \in DOMAIN order : order[j] = order[k] => j = k
        /\ \A j, k \in DOMAIN order :
              plan[order[j]].op = "erase" /\ plan[order[k]].op = "add" => k < j
        /\ placed \cap remaining = {}
        /\ phase = "add" => placed \cup remaining = Members("add")
        /\ phase = "erase" => placed \cup remaining = Inputs
        /\ phase = "end" => placed = Inputs
=============================================================================
