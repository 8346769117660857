-------------------------- MODULE MCGraphExecution --------------------------
EXTENDS GraphExecution

CONSTANTS n1, n2, n3, n4

FourNodes == {n1, n2, n3, n4}
ThreeGroups == {n1, n2, n4}

Edges(pairs) == [n \in FourNodes |-> {m \in FourNodes : <<m, n>> \in pairs}]
Forward == {<<n1, n2>>, <<n1, n3>>, <<n1, n4>>, <<n2, n3>>, <<n2, n4>>, <<n3, n4>>}

\* Every CPU track over four nodes, with a GPU track that runs along it and one
\* that runs against it.
AllPlans ==
  {[cpu |-> Edges(c), gpu |-> g.edges, order |-> g.order] :
     c \in SUBSET Forward,
     g \in {[edges |-> {<<n1, n2>>, <<n2, n4>>}, order |-> <<n1, n3, n2, n4>>],
            [edges |-> {<<n4, n2>>, <<n2, n1>>}, order |-> <<n3, n4, n2, n1>>]}}
=============================================================================
