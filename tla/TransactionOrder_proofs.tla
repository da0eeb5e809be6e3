----------------------- MODULE TransactionOrder_proofs -----------------------
(***************************************************************************)
(* What the ordering loop guarantees for every transaction, whatever its   *)
(* requirements.  The counters are exact (CountersExact), so a counter of  *)
(* zero means that nothing the package has to follow remains.              *)
(***************************************************************************)
EXTENDS TransactionOrder, FiniteSetTheorems, TLAPS

\* The phase's packages are what remains to be placed in it.
RemainingInPhase ==
    /\ phase # "end" => remaining \subseteq Members(phase)
    /\ phase = "end" => remaining = {}

OrderInv == TypeOK /\ RemainingInPhase /\ CountersExact

\* The requirements of a transaction do not change while it is ordered.
LEMMA PlanFixed ==
    ASSUME plan' = plan, NEW ph, NEW i
    PROVE  /\ Inputs' = Inputs
           /\ Members(ph)' = Members(ph)
           /\ Predecessors(ph, i)' = Predecessors(ph, i)
  BY DEF Inputs, Members, Predecessors, Precedes, Uses, Provider, Least

\* A transaction has finitely many packages, so counting predecessors counts.
LEMMA Finiteness ==
    ASSUME plan \in Seq(Packages), NEW ph, NEW i
    PROVE  /\ IsFiniteSet(Inputs)
           /\ IsFiniteSet(Predecessors(ph, i))
           /\ Cardinality(Predecessors(ph, i)) \in Nat
           /\ Predecessors(ph, i) \subseteq Members(ph)
           /\ Members(ph) \subseteq Inputs
  <1>1. Inputs = 1..Len(plan) /\ Len(plan) \in Nat
    BY DEF Inputs
  <1>2. IsFiniteSet(Inputs)
    BY <1>1, FS_Interval
  <1>3. Members(ph) \subseteq Inputs /\ Predecessors(ph, i) \subseteq Members(ph)
    BY DEF Members, Predecessors
  <1>4. IsFiniteSet(Predecessors(ph, i))
    BY <1>2, <1>3, FS_Subset
  <1> QED
    BY <1>2, <1>3, <1>4, FS_CardinalityType

-----------------------------------------------------------------------------
\* The invariant holds when the first phase begins: nothing is placed.
LEMMA InitOrder == Init => OrderInv
  <1> SUFFICES ASSUME Init PROVE OrderInv
    OBVIOUS
  <1>1. plan \in Seq(Packages)
    BY PlansAssumption DEF Init
  <1>2. \A i : /\ IsFiniteSet(Predecessors("add", i))
               /\ Cardinality(Predecessors("add", i)) \in Nat
               /\ Predecessors("add", i) \subseteq Members("add")
    BY <1>1, Finiteness
  <1>3. TypeOK
    BY <1>1, <1>2 DEF Init, TypeOK, Degrees, Members
  <1>4. CountersExact
    <2> SUFFICES ASSUME NEW i \in remaining
                 PROVE  indegree[i] = Cardinality(Predecessors(phase, i) \cap remaining)
      BY DEF CountersExact
    <2>1. phase = "add" /\ remaining = Members("add") /\ i \in Inputs
      BY DEF Init, Members
    <2>2. Predecessors(phase, i) \cap remaining = Predecessors("add", i)
      BY <1>2, <2>1
    <2> QED
      BY <2>1, <2>2 DEF Init, Degrees
  <1> QED
    BY <1>3, <1>4 DEF OrderInv, RemainingInPhase, Init

\* Placing a package, for whatever reason it was chosen, lowers exactly the
\* counters of the packages it precedes.
LEMMA PlaceCounts ==
    ASSUME OrderInv, NEW n \in remaining, Place(n)
    PROVE  OrderInv'
  <1>1. /\ plan' = plan /\ phase' = phase
        /\ remaining' = remaining \ {n}
        /\ order' = Append(order, n)
    BY DEF Place
  <1>2. /\ Inputs' = Inputs
        /\ \A ph, i : /\ Members(ph)' = Members(ph)
                      /\ Predecessors(ph, i)' = Predecessors(ph, i)
    BY <1>1, PlanFixed
  <1>3. phase # "end" /\ remaining \subseteq Members(phase) /\ n \in Inputs
    BY DEF OrderInv, RemainingInPhase, TypeOK
  <1>4. indegree \in [Inputs -> Nat] /\ indegree' \in [Inputs -> Nat]
    BY DEF OrderInv, TypeOK, Place
  <1>5. TypeOK'
    BY <1>1, <1>2, <1>3, <1>4 DEF OrderInv, TypeOK
  <1>6. RemainingInPhase'
    BY <1>1, <1>2, <1>3 DEF RemainingInPhase
  <1>7. CountersExact'
    <2> SUFFICES ASSUME NEW i \in remaining'
                 PROVE  indegree'[i] = Cardinality(Predecessors(phase, i) \cap remaining')
      BY <1>1, <1>2 DEF CountersExact
    <2> DEFINE before == Predecessors(phase, i) \cap remaining
               after == Predecessors(phase, i) \cap remaining'
    <2>1. i \in remaining /\ i \in Inputs /\ after = before \ {n}
      BY <1>1 DEF OrderInv, TypeOK
    <2>2. indegree[i] = Cardinality(before)
      BY <2>1, <1>3 DEF OrderInv, CountersExact
    <2>3. IsFiniteSet(before)
      BY Finiteness, FS_Intersection DEF OrderInv, TypeOK
    <2>4. n \in before <=> Precedes(phase, n, i)
      BY <1>3 DEF Predecessors
    <2>5. indegree'[i] = IF Precedes(phase, n, i) /\ indegree[i] > 0
                         THEN indegree[i] - 1 ELSE indegree[i]
      BY <2>1 DEF Place
    <2>6. CASE n \in before
      <3>1. Cardinality(after) = Cardinality(before) - 1 /\ Cardinality(before) \in Nat
        BY <2>1, <2>3, <2>6, FS_RemoveElement, FS_CardinalityType
      <3>2. Cardinality(before) # 0
        BY <2>3, <2>6, FS_EmptySet
      <3> HIDE DEF before, after
      <3> QED
        BY <2>2, <2>4, <2>5, <2>6, <3>1, <3>2 DEF after
    <2>7. CASE n \notin before
      <3>1. after = before
        BY <2>1, <2>7
      <3> QED
        BY <2>2, <2>4, <2>5, <2>7, <3>1
    <2> QED
      BY <2>6, <2>7
  <1> QED
    BY <1>5, <1>6, <1>7 DEF OrderInv

\* Every step keeps the counters exact.
LEMMA NextOrder == OrderInv /\ [Next]_vars => OrderInv'
  <1> SUFFICES ASSUME OrderInv, [Next]_vars PROVE OrderInv'
    OBVIOUS
  <1>1. ASSUME NEW n \in remaining, PickReady(n) \/ BreakCycle(n)
        PROVE  OrderInv'
    BY <1>1, PlaceCounts DEF PickReady, BreakCycle
  <1>2. CASE StartErase
    <2>1. plan' = plan /\ phase' = "erase" /\ remaining' = Members("erase")
          /\ order' = order /\ indegree' = Degrees("erase")
      BY <1>2 DEF StartErase
    <2>2. /\ Inputs' = Inputs
          /\ \A ph, i : /\ Members(ph)' = Members(ph)
                        /\ Predecessors(ph, i)' = Predecessors(ph, i)
      BY <2>1, PlanFixed
    <2>3. /\ Members("erase") \subseteq Inputs
          /\ \A i : /\ Cardinality(Predecessors("erase", i)) \in Nat
                    /\ Predecessors("erase", i) \subseteq Members("erase")
      BY Finiteness DEF OrderInv, TypeOK
    <2>4. TypeOK'
      BY <2>1, <2>2, <2>3 DEF OrderInv, TypeOK, Degrees
    <2>5. CountersExact'
      <3> SUFFICES ASSUME NEW i \in remaining'
                   PROVE  indegree'[i] = Cardinality(Predecessors("erase", i) \cap remaining')
        BY <2>1, <2>2 DEF CountersExact
      <3>1. Predecessors("erase", i) \cap remaining' = Predecessors("erase", i)
        BY <2>1, <2>3
      <3> QED
        BY <2>1, <2>3, <3>1 DEF Degrees
    <2> QED
      BY <2>1, <2>2, <2>4, <2>5 DEF OrderInv, RemainingInPhase
  <1>3. CASE Return
    <2>1. plan' = plan /\ phase' = "end" /\ UNCHANGED <<remaining, indegree, order>> /\ remaining = {}
      BY <1>3 DEF Return
    <2>2. Inputs' = Inputs
      BY <2>1, PlanFixed
    <2> QED
      BY <2>1, <2>2 DEF OrderInv, TypeOK, RemainingInPhase, CountersExact
  <1>4. CASE UNCHANGED vars
    <2>1. plan' = plan /\ UNCHANGED <<phase, remaining, indegree, order>>
      BY <1>4 DEF vars
    <2>2. /\ Inputs' = Inputs
          /\ \A ph, i : /\ Members(ph)' = Members(ph)
                        /\ Predecessors(ph, i)' = Predecessors(ph, i)
      BY <2>1, PlanFixed
    <2> QED
      BY <2>1, <2>2 DEF OrderInv, TypeOK, RemainingInPhase, CountersExact
  <1> QED
    BY <1>1, <1>2, <1>3, <1>4 DEF Next, Done

\* The loop's counters are the numbers of unplaced predecessors in every state
\* of every transaction.
THEOREM CountersAreExact == Spec => []CountersExact
  <1>1. OrderInv => CountersExact
    BY DEF OrderInv
  <1> QED
    BY InitOrder, NextOrder, <1>1, PTL DEF Spec

\* Type correctness.
THEOREM TypeCorrect == Spec => []TypeOK
  <1>1. OrderInv => TypeOK
    BY DEF OrderInv
  <1> QED
    BY InitOrder, NextOrder, <1>1, PTL DEF Spec

-----------------------------------------------------------------------------
\* A package taken before one it should follow means that nothing was ready.
LEMMA StepBreaksDeadlock ==
    ASSUME OrderInv, [Next]_vars, NEW n \in remaining \ remaining',
           Predecessors(phase, n) \cap remaining # {}, NEW r \in remaining
    PROVE  Predecessors(phase, r) \cap remaining # {}
  <1>1. PICK m \in remaining : (PickReady(m) \/ BreakCycle(m)) /\ remaining' = remaining \ {m}
    BY DEF Next, Done, vars, PickReady, BreakCycle, Place, StartErase, Return
  <1>2. n = m /\ phase # "end"
    BY <1>1 DEF OrderInv, RemainingInPhase
  <1>3. \A i \in remaining : indegree[i] # 0 => Predecessors(phase, i) \cap remaining # {}
    <2> TAKE i \in remaining
    <2>1. indegree[i] = Cardinality(Predecessors(phase, i) \cap remaining)
      BY <1>2 DEF OrderInv, CountersExact
    <2> QED
      BY <2>1, FS_EmptySet
  <1>4. indegree[n] # 0
    <2>1. indegree[n] = Cardinality(Predecessors(phase, n) \cap remaining)
      BY <1>2 DEF OrderInv, CountersExact
    <2>2. IsFiniteSet(Predecessors(phase, n) \cap remaining)
      BY Finiteness, FS_Intersection DEF OrderInv, TypeOK
    <2> QED
      BY <2>1, <2>2, FS_EmptySet
  <1>5. Ready = {}
    BY <1>1, <1>2, <1>4 DEF PickReady, BreakCycle, Ready
  <1> QED
    BY <1>3, <1>5 DEF Ready

\* The order leaves a requirement unmet only when every package that remains
\* waits for another one that remains.
THEOREM OrderBreaksOnlyDeadlocks == Spec => BreaksOnlyDeadlocks
  <1>1. OrderInv /\ [Next]_vars =>
          [ \A n \in remaining \ remaining' :
              Predecessors(phase, n) \cap remaining # {} =>
                  \A r \in remaining : Predecessors(phase, r) \cap remaining # {} ]_vars
    BY StepBreaksDeadlock
  <1> QED
    BY InitOrder, NextOrder, <1>1, PTL DEF Spec, BreaksOnlyDeadlocks

-----------------------------------------------------------------------------
CompleteInv == OrderInv /\ OrderComplete

\* Placing a package moves it from what remains to the end of the order.
LEMMA PlaceCompletes ==
    ASSUME CompleteInv, NEW n \in remaining, Place(n)
    PROVE  OrderComplete'
  <1>1. plan' = plan /\ phase' = phase /\ remaining' = remaining \ {n}
        /\ order' = Append(order, n)
    BY DEF Place
  <1>2. Inputs' = Inputs /\ \A ph : Members(ph)' = Members(ph)
    BY <1>1, PlanFixed
  <1>3. order \in Seq(Inputs) /\ n \in Inputs /\ phase \in {"add", "erase"}
        /\ n \in Members(phase)
    BY DEF CompleteInv, OrderInv, TypeOK, RemainingInPhase
  <1> DEFINE placed == {order[k] : k \in DOMAIN order}
             len == Len(order)
  <1>4. /\ len \in Nat /\ DOMAIN order = 1..len /\ DOMAIN order' = 1..(len + 1)
        /\ \A k \in 1..len : order'[k] = order[k] /\ order[k] \in placed
        /\ order'[len + 1] = n
    BY <1>1, <1>3
  <1>5. {order'[k] : k \in DOMAIN order'} = placed \cup {n}
    BY <1>4
  <1>6. /\ placed \cap remaining = {}
        /\ phase = "add" => placed \cup remaining = Members("add")
        /\ phase = "erase" => placed \cup remaining = Inputs
        /\ \A j, k \in 1..len : order[j] = order[k] => j = k
        /\ \A j, k \in 1..len :
              plan[order[j]].op = "erase" /\ plan[order[k]].op = "add" => k < j
    BY <1>4 DEF CompleteInv, OrderComplete
  <1> HIDE DEF placed, len
  <1>7. \A j, k \in DOMAIN order' : order'[j] = order'[k] => j = k
    BY <1>4, <1>6
  <1>8. \A j, k \in DOMAIN order' :
          plan[order'[j]].op = "erase" /\ plan[order'[k]].op = "add" => k < j
    <2> SUFFICES ASSUME NEW j \in 1..(len + 1), NEW k \in 1..(len + 1),
                        plan[order'[j]].op = "erase", plan[order'[k]].op = "add"
                 PROVE  k < j
      BY <1>4
    <2>1. CASE k = len + 1
      <3>1. plan[n].op = "add" /\ plan[n].op = phase
        BY <1>3, <1>4, <2>1 DEF Members
      <3>2. order'[j] \in Members("add")
        BY <1>4, <1>6, <3>1, <1>3
      <3> QED
        BY <3>2 DEF Members
    <2>2. CASE k \in 1..len /\ j = len + 1
      BY <1>4, <2>2
    <2>3. CASE k \in 1..len /\ j \in 1..len
      BY <1>4, <1>6, <2>3
    <2> QED
      BY <1>4, <2>1, <2>2, <2>3
  <1>9. /\ (placed \cup {n}) \cap remaining' = {}
        /\ (placed \cup {n}) \cup remaining' = placed \cup remaining
    BY <1>1, <1>6
  <1> QED
    BY <1>1, <1>2, <1>3, <1>5, <1>6, <1>7, <1>8, <1>9 DEF OrderComplete

\* Every step keeps the order and the rest a partition of the transaction.
LEMMA NextCompletes == CompleteInv /\ [Next]_vars => CompleteInv'
  <1> SUFFICES ASSUME CompleteInv, [Next]_vars PROVE OrderComplete'
    BY NextOrder DEF CompleteInv
  <1>1. ASSUME NEW n \in remaining, PickReady(n) \/ BreakCycle(n)
        PROVE  OrderComplete'
    BY <1>1, PlaceCompletes DEF PickReady, BreakCycle
  <1>2. ASSUME StartErase \/ Return \/ UNCHANGED vars
        PROVE  OrderComplete'
    <2>1. plan' = plan /\ order' = order
      BY <1>2 DEF StartErase, Return, vars
    <2>2. Inputs' = Inputs /\ \A ph : Members(ph)' = Members(ph)
      BY <2>1, PlanFixed
    <2>3. CASE StartErase
      <3>1. Inputs = Members("add") \cup Members("erase")
            /\ Members("add") \cap Members("erase") = {}
        <4>1. \A i \in Inputs : plan[i] \in Packages
          BY DEF CompleteInv, OrderInv, TypeOK, Inputs
        <4>2. \A i \in Inputs : plan[i].op \in {"add", "erase"}
          BY <4>1 DEF Packages
        <4> QED
          BY <4>2 DEF Members
      <3> QED
        BY <2>1, <2>2, <2>3, <3>1 DEF StartErase, CompleteInv, OrderComplete
    <2>4. CASE Return
      BY <2>1, <2>2, <2>4 DEF Return, CompleteInv, OrderComplete
    <2>5. CASE UNCHANGED vars
      BY <2>1, <2>2, <2>5 DEF vars, CompleteInv, OrderComplete
    <2> QED
      BY <1>2, <2>3, <2>4, <2>5
  <1> QED
    BY <1>1, <1>2 DEF Next, Done

\* The planner returns every item once, the additions first.
THEOREM OrderIsComplete == Spec => []OrderComplete
  <1>1. Init => CompleteInv
    <2>1. Init => OrderComplete
      BY DEF Init, OrderComplete
    <2> QED
      BY <2>1, InitOrder DEF CompleteInv
  <1>2. CompleteInv => OrderComplete
    BY DEF CompleteInv
  <1> QED
    BY <1>1, <1>2, NextCompletes, PTL DEF Spec

-----------------------------------------------------------------------------
\* OnlyCyclesBreakOrder speaks of two packages that are placed.  What carries it
\* speaks of one: a placed package has all that it has to follow placed before it,
\* unless it is downstream of a cycle.
FollowsAll ==
    \A ph \in {"add", "erase"} : \A j \in DOMAIN order :
        order[j] \in Members(ph) =>
            \/ DownstreamOfCycle(ph, order[j])
            \/ \A m \in Predecessors(ph, order[j]) :
                  \E k \in DOMAIN order : k < j /\ order[k] = m

CycleInv == CompleteInv /\ FollowsAll

\* Cycles are a matter of the plan alone.
LEMMA CyclesFixed ==
    ASSUME plan' = plan, NEW ph, NEW i
    PROVE  DownstreamOfCycle(ph, i)' <=> DownstreamOfCycle(ph, i)
  <1>1. Members(ph)' = Members(ph) /\ \A m : Predecessors(ph, m)' = Predecessors(ph, m)
    BY PlanFixed
  <1> QED
    BY <1>1 DEF DownstreamOfCycle

\* A package that is taken while one it has to follow remains is taken from
\* packages that all wait for one another: they are the cycle, or what leads to it.
LEMMA PlaceFollows ==
    ASSUME CycleInv, [Next]_vars, NEW n \in remaining, Place(n)
    PROVE  FollowsAll'
  <1>1. plan' = plan /\ phase' = phase /\ remaining' = remaining \ {n}
        /\ order' = Append(order, n)
    BY DEF Place
  <1>2. \A ph, i : /\ Members(ph)' = Members(ph)
                   /\ Predecessors(ph, i)' = Predecessors(ph, i)
                   /\ DownstreamOfCycle(ph, i)' <=> DownstreamOfCycle(ph, i)
    BY <1>1, PlanFixed, CyclesFixed
  <1>3. order \in Seq(Inputs) /\ phase \in {"add", "erase"}
        /\ remaining \subseteq Members(phase)
    BY DEF CycleInv, CompleteInv, OrderInv, TypeOK, RemainingInPhase
  <1> DEFINE len == Len(order)
             placed == {order[k] : k \in DOMAIN order}
  <1>4. /\ len \in Nat /\ DOMAIN order = 1..len /\ DOMAIN order' = 1..(len + 1)
        /\ \A k \in 1..len : order'[k] = order[k]
        /\ order'[len + 1] = n
    BY <1>1, <1>3
  <1>5. \A m \in Predecessors(phase, n) : m \in placed \/ m \in remaining
    <2>1. Predecessors(phase, n) \subseteq Members(phase) /\ Members(phase) \subseteq Inputs
      BY DEF Predecessors, Members
    <2>2. Members(phase) \subseteq placed \cup remaining
      BY <1>3, <2>1 DEF CycleInv, CompleteInv, OrderComplete
    <2> QED
      BY <2>1, <2>2
  <1>6. \/ DownstreamOfCycle(phase, n)
        \/ \A m \in Predecessors(phase, n) : \E k \in 1..len : order[k] = m
    <2>1. CASE Predecessors(phase, n) \cap remaining # {}
      <3>1. n \in remaining \ remaining'
        BY <1>1
      <3>2. \A r \in remaining : Predecessors(phase, r) \cap remaining # {}
        BY <2>1, <3>1, StepBreaksDeadlock DEF CycleInv, CompleteInv
      <3> QED
        BY <1>3, <3>2 DEF DownstreamOfCycle
    <2>2. CASE Predecessors(phase, n) \cap remaining = {}
      BY <1>4, <1>5, <2>2
    <2> QED
      BY <2>1, <2>2
  <1>7. ASSUME NEW ph \in {"add", "erase"}, NEW j \in DOMAIN order',
               order'[j] \in Members(ph)
        PROVE  \/ DownstreamOfCycle(ph, order'[j])
               \/ \A m \in Predecessors(ph, order'[j]) :
                     \E k \in DOMAIN order' : k < j /\ order'[k] = m
    <2> HIDE DEF len, placed
    <2>1. CASE j \in 1..len
      <3>1. \/ DownstreamOfCycle(ph, order[j])
            \/ \A m \in Predecessors(ph, order[j]) :
                  \E k \in 1..len : k < j /\ order[k] = m
        BY <1>4, <1>7, <2>1 DEF CycleInv, FollowsAll
      <3> QED
        BY <1>4, <2>1, <3>1
    <2>2. CASE j = len + 1
      <3>1. ph = phase
        BY <1>3, <1>4, <1>7, <2>2 DEF Members
      <3> QED
        BY <1>4, <1>6, <2>2, <3>1
    <2> QED
      BY <1>4, <2>1, <2>2
  <1> QED
    BY <1>2, <1>7 DEF FollowsAll

\* Every step keeps each placed package behind all that it has to follow.
LEMMA NextFollows == CycleInv /\ [Next]_vars => CycleInv'
  <1> SUFFICES ASSUME CycleInv, [Next]_vars PROVE FollowsAll'
    BY NextCompletes DEF CycleInv
  <1>1. ASSUME NEW n \in remaining, PickReady(n) \/ BreakCycle(n)
        PROVE  FollowsAll'
    BY <1>1, PlaceFollows DEF PickReady, BreakCycle
  <1>2. ASSUME StartErase \/ Return \/ UNCHANGED vars
        PROVE  FollowsAll'
    <2>1. plan' = plan /\ order' = order
      BY <1>2 DEF StartErase, Return, vars
    <2>2. \A ph, i : /\ Members(ph)' = Members(ph)
                     /\ Predecessors(ph, i)' = Predecessors(ph, i)
                     /\ DownstreamOfCycle(ph, i)' <=> DownstreamOfCycle(ph, i)
      BY <2>1, PlanFixed, CyclesFixed
    <2> QED
      BY <2>1, <2>2 DEF CycleInv, FollowsAll
  <1> QED
    BY <1>1, <1>2 DEF Next, Done

\* A package goes before one that it has to follow only when it is on a cycle of
\* requirements or behind one, for every transaction that topoOrderPhase orders.
THEOREM OnlyCyclesBreak == Spec => []OnlyCyclesBreakOrder
  <1>1. Init => CycleInv
    <2>1. Init => OrderComplete
      BY DEF Init, OrderComplete
    <2>2. Init => FollowsAll
      BY DEF Init, FollowsAll
    <2> QED
      BY <2>1, <2>2, InitOrder DEF CycleInv, CompleteInv
  <1>2. CycleInv => OnlyCyclesBreakOrder
    <2> SUFFICES ASSUME CycleInv, NEW ph \in {"add", "erase"},
                        NEW j \in DOMAIN order, NEW k \in DOMAIN order,
                        j < k, order[j] \in Members(ph),
                        order[k] \in Predecessors(ph, order[j])
                 PROVE  DownstreamOfCycle(ph, order[j])
      BY DEF OnlyCyclesBreakOrder
    <2>1. \/ DownstreamOfCycle(ph, order[j])
          \/ \E i \in DOMAIN order : i < j /\ order[i] = order[k]
      BY DEF CycleInv, FollowsAll
    <2>2. \A i \in DOMAIN order : order[i] = order[k] => i = k
      BY DEF CycleInv, CompleteInv, OrderComplete
    <2>3. DOMAIN order \subseteq Nat
      BY DEF CycleInv, CompleteInv, OrderInv, TypeOK
    <2> QED
      BY <2>1, <2>2, <2>3
  <1> QED
    BY <1>1, <1>2, NextFollows, PTL DEF Spec
=============================================================================
