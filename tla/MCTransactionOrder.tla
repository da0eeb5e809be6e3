------------------------- MODULE MCTransactionOrder -------------------------
(***************************************************************************)
(* Instances of TransactionOrder: three packages with every way for two    *)
(* requirements to find a provider, and four packages with every graph of  *)
(* up to two requirements each.                                            *)
(***************************************************************************)
EXTENDS TransactionOrder

req(n, f, p, flags) == [name |-> n, file |-> f, provide |-> p, flags |-> flags]

\* Ambiguous, unordered, reflexive and unmatched requirements.
Ambiguous ==
    {req({}, {}, {i}, {}) : i \in 1..3} \cup
    {req({}, {}, {2}, {"pre"}),
     req({3}, {2}, {1}, {}), req({}, {3, 2}, {1}, {"pre"}),
     req({}, {}, {1, 2, 3}, {"unordered"})}

\* Requirements that may repeat an edge, with another kind or the same.
Later == {req({2}, {}, {}, {"pre"}), req({}, {}, {1}, {})}

AmbiguousPlans ==
    {[i \in 1..3 |-> [op |-> ops[i], requires |-> reqs[i]]] :
        ops \in {<<"erase", "erase", "erase">>, <<"erase", "add", "add">>,
                 <<"add", "erase", "erase">>},
        reqs \in [1..3 -> {<<r>> : r \in Ambiguous}
                          \cup {<<r, s>> : r \in Ambiguous, s \in Later}]}

\* Requirements of package i in a graph of four.
Graph(i) ==
    LET others == (1..4) \ {i}
        plain(j) == req({j}, {}, {}, {})
    IN  {<<>>} \cup {<<plain(j)>> : j \in others}
        \cup {<<req({j}, {}, {}, {"pre"})>> : j \in others}
        \cup {<<plain(jk[1]), plain(jk[2])>> :
                 jk \in {x \in others \X others : x[1] < x[2]}}

GraphPlans ==
    {<<[op |-> op, requires |-> q1], [op |-> op, requires |-> q2],
       [op |-> op, requires |-> q3], [op |-> op, requires |-> q4]>> :
        op \in {"add", "erase"},
        q1 \in Graph(1), q2 \in Graph(2), q3 \in Graph(3), q4 \in Graph(4)}

MCPlans == AmbiguousPlans \cup GraphPlans
=============================================================================
