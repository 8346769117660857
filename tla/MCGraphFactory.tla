------------------------- MODULE MCGraphFactory ---------------------------
EXTENDS GraphFactory

BothTracks == {"cpu", "gpu"}
OneTrack == {"cpu"}
OneSubtype == {"s"}
TwoSubtypes == {"s", "r"}
AllKinds == Kinds
NoKinds == {}

Source(kinds, edges) ==
  [EmptyGraph EXCEPT
     !.usage = [i \in DOMAIN kinds |-> [id |-> i - 1, kind |-> kinds[i][1], subtype |-> kinds[i][2]]],
     !.slots = Len(kinds),
     !.deps = edges]

\* Every edge set that runs forward through n nodes.
Forward(n) == SUBSET {e \in (0 .. n - 1) \X (0 .. n - 1) : e[1] < e[2]}

St == <<"stage", "s">>
Un == <<"unique", "s">>
Ur == <<"unique", "r">>
Be == <<"sequenceBegin", "s">>
En == <<"sequenceEnd", "s">>
Te == <<"temporary", "s">>

\* A sequence before a node, one that uses a node every graph has, and a
\* helper between two such nodes.
Shapes == {<<Be, En, St>>, <<Un, Be, En>>, <<Un, Te, Ur>>}

\* On the GPU track the nodes form a chain, or the last does not follow.
TwoTrackSources ==
  {Source(k, [t \in Tracks |-> IF t = "cpu" THEN c ELSE g]) :
     k \in Shapes, c \in Forward(3), g \in {{<<0, 1>>, <<1, 2>>}, {<<0, 2>>}, {<<0, 1>>}}}
  \cup
  {Source(<<Be, St, En, St>>, [t \in Tracks |-> IF t = "cpu" THEN c ELSE g]) :
     c \in SUBSET {<<0, 1>>, <<1, 2>>, <<0, 2>>, <<2, 3>>},
     g \in {{<<0, 1>>, <<1, 2>>, <<2, 3>>}, {<<0, 1>>, <<0, 2>>}, {<<2, 3>>}}}

EditSources == {Source(<<Be, En>>, [t \in Tracks |-> {<<0, 1>>}]),
                Source(<<Un, Ur>>, [t \in Tracks |-> {<<0, 1>>}])}
============================================================================
