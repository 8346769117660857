-------------------------- MODULE RenderNodeGraph --------------------------
(***************************************************************************)
(* Render graph topology: node and edge mutation, import with merging of   *)
(* the special nodes, and the flattening that freezes the graph            *)
(* (render_node_graph.rs over storage.rs).                                 *)
(*                                                                         *)
(* A graph lists its live nodes in usage order, the order in which every   *)
(* scan of the code meets them; freeing a node moves the last one into its *)
(* place.  Ids are slot numbers and are never reused.  The linked          *)
(* dependency lists are sets of edges: every reader of a list either       *)
(* collects the whole list or looks one edge up.  Sequences, unique nodes  *)
(* and merging only look at the kind and subtype of a node; its            *)
(* implementation, role, camera and debug name are not here.               *)
(***************************************************************************)
EXTENDS Integers, FiniteSets, SequencesExt

CONSTANTS
  Tracks,       \* the dependency kinds of the code, CPU and GPU, or one of them
  Subtypes,
  Sources,      \* the graphs that may be imported
  AuthoredKinds,\* the kinds a client adds by hand
  EditedTracks, \* bound: the tracks a client edits by hand
  EditedSubtypes,
  MaxAuthored,  \* bound: ids below it may be authored and edited by hand
  MaxSlots      \* bound: slots a graph may have allocated

Kinds == {"stage", "unique", "sequenceBegin", "sequenceEnd", "temporary"}
HelperKinds == {"sequenceBegin", "sequenceEnd", "temporary"}
Node == [id : Nat, kind : Kinds, subtype : Subtypes]

ASSUME TracksAssumption == Tracks # {} /\ Subtypes # {}
ASSUME BoundsAssumption ==
  /\ AuthoredKinds \subseteq Kinds /\ EditedTracks \subseteq Tracks
  /\ EditedSubtypes \subseteq Subtypes
  /\ MaxAuthored \in Nat /\ MaxSlots \in Nat

VARIABLE graph

EmptyGraph ==
  [usage |-> <<>>, slots |-> 0, deps |-> [t \in Tracks |-> {}],
   frozen |-> FALSE, built |-> FALSE, flat |-> [t \in Tracks |-> <<>>]]

InitGraph == graph = EmptyGraph

----------------------------------------------------------------------------
(* Nodes and edges *)

\* The nodes that are of a set, in their order.
Those(nodes, set) ==
  FoldLeft(LAMBDA those, n : IF n \in set THEN Append(those, n) ELSE those, <<>>, nodes)

IdsIn(nodes) == [i \in DOMAIN nodes |-> nodes[i].id]
Live(g) == ToSet(IdsIn(g.usage))
Chosen(g, kind, s) ==
  IdsIn(Those(g.usage, [id : Nat, kind : {kind}, subtype : {s}]))
Helpers(g) == Those(g.usage, [id : Nat, kind : HelperKinds, subtype : Subtypes])
ParentsIn(g, n, t) == {e[1] : e \in {d \in g.deps[t] : d[2] = n}}
ChildrenIn(g, n, t) == {e[2] : e \in {d \in g.deps[t] : d[1] = n}}
NoSelf(edges) == {e \in edges : e[1] # e[2]}

Graph ==
  [usage : Seq(Node), slots : Nat, deps : [Tracks -> SUBSET (Nat \X Nat)],
   frozen : BOOLEAN, built : BOOLEAN, flat : [Tracks -> Seq(Nat)]]

\* The usage order lists distinct ids below the next slot, edges join two
\* different live nodes, and a graph is built only when it is frozen.
WellFormed(g) ==
  /\ g \in Graph
  /\ \A i, j \in DOMAIN g.usage : g.usage[i].id = g.usage[j].id => i = j
  /\ \A n \in Live(g) : n < g.slots
  /\ \A t \in Tracks : g.deps[t] = NoSelf(g.deps[t]) /\ g.deps[t] \subseteq Live(g) \X Live(g)
  /\ g.built => g.frozen

\* What is imported was made like any graph.
ASSUME SourcesAssumption == \A source \in Sources : WellFormed(source)

Allocate(g, kind, s) ==
  [g EXCEPT !.usage = Append(@, [id |-> g.slots, kind |-> kind, subtype |-> s]),
            !.slots = @ + 1]

\* The last node in usage order takes the place of the freed one.
Free(g, n) ==
  LET i == SelectInSeq(g.usage, LAMBDA x : x.id = n)
  IN  [g EXCEPT !.usage = Front(ReplaceAt(@, i, Last(@)))]

RemovedNode(g, n) ==
  [Free(g, n) EXCEPT
     !.deps = [t \in Tracks |-> {e \in g.deps[t] : n \notin {e[1], e[2]}}]]

\* Mutant of Bridged: the neighbours are read after the node is gone.
BridgedTooLate(g, n) ==
  LET h == RemovedNode(g, n)
  IN  [h EXCEPT !.deps = [t \in Tracks |-> @[t] \cup (ParentsIn(h, n, t) \X ChildrenIn(h, n, t))]]

Bridged(g, n) ==
  [RemovedNode(g, n) EXCEPT
     !.deps = [t \in Tracks |->
                 @[t] \cup NoSelf(ParentsIn(g, n, t) \X ChildrenIn(g, n, t))]]

\* Mutant of WithCopiedDependencies: what followed the duplicate is forgotten.
WithCopiedParents(g, from, to) ==
  [g EXCEPT !.deps =
     [t \in Tracks |-> @[t] \cup NoSelf(ParentsIn(g, from, t) \X {to})]]

WithCopiedDependencies(g, from, to) ==
  [g EXCEPT !.deps =
     [t \in Tracks |-> @[t] \cup NoSelf((ParentsIn(g, from, t) \X {to})
                                         \cup ({to} \X ChildrenIn(g, from, t)))]]

----------------------------------------------------------------------------
(* Merging *)

\* Groups are met in the order of their first member.
SubtypesInOrder(g, kinds) ==
  FoldLeft(LAMBDA seen, n : IF n.kind \in kinds /\ ~Contains(seen, n.subtype)
                            THEN Append(seen, n.subtype) ELSE seen,
           <<>>, g.usage)

Absorbed(g, survivor, duplicate) ==
  RemovedNode(WithCopiedDependencies(g, duplicate, survivor), duplicate)

\* The groups are read before the first of them is merged.
UniqueGroups(g) ==
  LET subtypes == SubtypesInOrder(g, {"unique"})
  IN  [i \in DOMAIN subtypes |-> Chosen(g, "unique", subtypes[i])]

WithOneOf(g, ids) == FoldLeft(LAMBDA h, d : Absorbed(h, Head(ids), d), g, Tail(ids))

MergedUnique(g) == FoldLeft(WithOneOf, g, UniqueGroups(g))

\* survivor begin .. survivor end -> duplicate begin .. duplicate end
Stitched(g, b1, e1, b2, e2) ==
  LET Track(t) ==
        LET linked == g.deps[t] \cup NoSelf(ParentsIn(g, b2, t) \X {b1})
            after == {e[2] : e \in {d \in linked : d[1] = e1}}
        IN  (linked \ ({e1} \X after))
              \cup NoSelf({e2} \X after) \cup {<<e1, b2>>}
  IN  [g EXCEPT !.deps = [t \in Tracks |-> Track(t)]]

WithOneSequence(g, s) ==
  LET begins == Chosen(g, "sequenceBegin", s)
      ends == Chosen(g, "sequenceEnd", s)
  IN  FoldLeft(LAMBDA h, i : Stitched(h, begins[1], ends[i], begins[i + 1], ends[i + 1]),
               g, [i \in 1 .. Len(begins) - 1 |-> i])

MergedSequences(g) ==
  FoldLeft(WithOneSequence, g, SubtypesInOrder(g, {"sequenceBegin", "sequenceEnd"}))

WithoutHelpers(g) ==
  FoldLeft(LAMBDA h, i : Bridged(h, Head(Helpers(h)).id), g,
           [i \in 1 .. Len(Helpers(g)) |-> i])

Pairs(g, s) == {Len(Chosen(g, "sequenceBegin", s)), Len(Chosen(g, "sequenceEnd", s))}
SequencesPaired(g) == \A s \in Subtypes : Cardinality(Pairs(g, s)) = 1
SequencesImportable(g) == \A s \in Subtypes : Pairs(g, s) \in {{0}, {1}}

MergedSpecial(g) == WithoutHelpers(MergedSequences(MergedUnique(g)))

\* The plain import: every id of the source moves behind the slots in use.
Imported(g, source) ==
  LET new == IdsIn(source.usage)
      To(n) == g.slots + SelectInSeq(new, LAMBDA m : m = n) - 1
  IN  [g EXCEPT
         !.usage = @ \o [i \in DOMAIN source.usage |->
                           [source.usage[i] EXCEPT !.id = To(@)]],
         !.slots = @ + Len(new),
         !.deps = [t \in Tracks |->
                     @[t] \cup {<<To(e[1]), To(e[2])>> : e \in source.deps[t]}]]

----------------------------------------------------------------------------
(* Flattening *)

\* Mutant of KahnStep: a node keeps the level its first parent gave it.
KahnStepFirstLevel(g, t, s) ==
  IF s.ready = <<>> THEN s
  ELSE LET p == Head(s.ready)
           kids == ChildrenIn(g, p, t)
           left == [n \in Live(g) |-> s.left[n] - (IF n \in kids THEN 1 ELSE 0)]
       IN  [left |-> left,
            level |-> [n \in Live(g) |->
                         IF n \in kids /\ s.level[n] = 0 THEN s.level[p] + 1 ELSE s.level[n]],
            ready |-> Tail(s.ready)
                        \o Those(IdsIn(g.usage), {n \in kids : left[n] = 0}),
            processed |-> s.processed + 1]

\* One turn of the ready queue of Kahn's algorithm.
KahnStep(g, t, s) ==
  IF s.ready = <<>> THEN s
  ELSE LET p == Head(s.ready)
           kids == ChildrenIn(g, p, t)
           left == [n \in Live(g) |-> s.left[n] - (IF n \in kids THEN 1 ELSE 0)]
       IN  [left |-> left,
            level |-> [n \in Live(g) |->
                         IF n \in kids /\ s.level[n] <= s.level[p]
                         THEN s.level[p] + 1 ELSE s.level[n]],
            ready |-> Tail(s.ready)
                        \o Those(IdsIn(g.usage), {n \in kids : left[n] = 0}),
            processed |-> s.processed + 1]

KahnStart(g, t) ==
  [left |-> [n \in Live(g) |-> Cardinality(ParentsIn(g, n, t))],
   level |-> [n \in Live(g) |-> 0],
   ready |-> Those(IdsIn(g.usage), {n \in Live(g) : ParentsIn(g, n, t) = {}}),
   processed |-> 0]

Kahn(g, t) == FoldLeft(LAMBDA s, n : KahnStep(g, t, s), KahnStart(g, t), g.usage)

HasCycle(g, t) == Kahn(g, t).processed # Len(g.usage)

\* Level by level, each level in usage order.
Flattened(g, t) ==
  LET level == Kahn(g, t).level
  IN  FlattenSeq([l \in 1 .. Len(g.usage) + 1 |->
        Those(IdsIn(g.usage), {n \in Live(g) : level[n] = l - 1})])

Position(order, n) == SelectInSeq(order, LAMBDA m : m = n)

ValidFlattening(g, t, order) ==
  /\ Len(order) = Len(g.usage)
  /\ \A i, j \in DOMAIN order : order[i] = order[j] => i = j
  /\ ToSet(order) = Live(g)
  /\ \A e \in g.deps[t] : Position(order, e[1]) < Position(order, e[2])

----------------------------------------------------------------------------
(* Operations: an operation the code refuses leaves the graph alone. *)

AddNode(kind, s) ==
  /\ ~graph.frozen /\ graph.slots < MaxAuthored
  /\ graph' = Allocate(graph, kind, s)

Editable == {n \in Live(graph) : n < MaxAuthored}

AddDependency(t, parent, child) ==
  /\ ~graph.frozen /\ parent # child /\ <<parent, child>> \notin graph.deps[t]
  /\ graph' = [graph EXCEPT !.deps[t] = @ \cup {<<parent, child>>}]

RemoveDependency(t, e) ==
  /\ ~graph.frozen
  /\ graph' = [graph EXCEPT !.deps[t] = @ \ {e}]

RemoveNode(n) ==
  /\ ~graph.frozen
  /\ graph' = RemovedNode(graph, n)

RemoveNodeAndBridge(n) ==
  /\ ~graph.frozen
  /\ graph' = Bridged(graph, n)

MergeSpecialNodes ==
  /\ ~graph.frozen /\ SequencesPaired(graph)
  /\ graph' = MergedSpecial(graph)

AddedGraph(g, source, merge) ==
  IF merge THEN MergedSpecial(Imported(g, source)) ELSE Imported(g, source)

AddGraph(source, merge) ==
  /\ ~graph.frozen /\ graph.slots + Len(source.usage) <= MaxSlots
  /\ merge => SequencesImportable(graph) /\ SequencesImportable(source)
  /\ graph' = AddedGraph(graph, source, merge)

FreezeTopology == graph' = [graph EXCEPT !.frozen = TRUE]

\* The order is stored before it is validated.
WithFlowGroups(g) ==
  LET order == [t \in Tracks |-> Flattened(g, t)]
      valid == \A t \in Tracks : ValidFlattening(g, t, order[t])
  IN  IF Helpers(g) # <<>> \/ \E t \in Tracks : HasCycle(g, t) THEN g
      ELSE [g EXCEPT !.flat = order, !.frozen = valid, !.built = valid]

BuildFlowGroups == ~graph.frozen /\ graph' = WithFlowGroups(graph)

Edit ==
  \/ \E kind \in AuthoredKinds, s \in EditedSubtypes : AddNode(kind, s)
  \/ \E t \in EditedTracks, p, c \in Editable : AddDependency(t, p, c)
  \/ \E t \in EditedTracks : \E e \in graph.deps[t] \cap (Editable \X Editable) : RemoveDependency(t, e)
  \/ \E n \in Editable : RemoveNode(n)
  \/ \E n \in Editable : RemoveNodeAndBridge(n)

EditOrMerge ==
  \/ Edit
  \/ MergeSpecialNodes
  \/ \E source \in Sources, merge \in BOOLEAN : AddGraph(source, merge)
  \/ FreezeTopology
  \/ BuildFlowGroups

----------------------------------------------------------------------------
(* Properties *)

TypeInv == WellFormed(graph)

Reach(edges, nodes) ==
  FoldLeft(LAMBDA r, n : r \cup ({e[1] : e \in {d \in r : d[2] = n}}
                                   \X {e[2] : e \in {d \in r : d[1] = n}}),
           edges, nodes)
Acyclic(edges, nodes) == Reach(edges, nodes) = NoSelf(Reach(edges, nodes))
Order(g, t) == NoSelf(Reach(g.deps[t], IdsIn(g.usage)))

\* Building the flow groups of a graph succeeds exactly when no helper node is
\* left and no track has a cycle; the validation of the stored order never
\* refuses what Kahn's algorithm let through (build_flow_groups).
BuildDecides ==
  ~graph.frozen =>
    (WithFlowGroups(graph).built <=>
       /\ \A i \in DOMAIN graph.usage : graph.usage[i].kind \in {"stage", "unique"}
       /\ \A t \in Tracks : Acyclic(graph.deps[t], IdsIn(graph.usage)))

\* How many edges the longest way to a node has.
Depth(edges, nodes) ==
  LET depth[n \in nodes] ==
        LET parents == {e[1] : e \in {d \in edges : d[2] = n}}
        IN  IF parents = {} THEN 0 ELSE 1 + Max({depth[p] : p \in parents})
  IN  depth

ByDepth(order, edges, nodes) ==
  LET depth == Depth(edges, ToSet(nodes))
      before(m, n) == \/ depth[m] < depth[n]
                      \/ depth[m] = depth[n] /\ Position(nodes, m) < Position(nodes, n)
  IN  /\ ToSet(order) = ToSet(nodes) /\ Len(order) = Len(nodes)
      /\ \A i, j \in DOMAIN order : i < j => before(order[i], order[j])

\* The built order of a track lists every live node once, by the longest
\* dependency chain that leads to it and, among equals, by usage order
\* (build_flattening_for_kind); so every parent is before its children.
BuiltOrderIsByDepth ==
  graph.built =>
    \A t \in Tracks : ByDepth(graph.flat[t], graph.deps[t], IdsIn(graph.usage))

\* The order a frame runs in is never made of a bad graph, nor refused for a
\* good one (build_flow_groups).
FlowGroupsAreRight == TypeInv /\ BuildDecides /\ BuiltOrderIsByDepth

\* Removing a node and bridging its dependencies changes nothing in the order
\* of the other nodes, on either track and whatever cycles there are
\* (remove_node_and_bridge_dependencies).
BridgeKeepsOrder ==
  \A n \in Live(graph), t \in Tracks :
    Order(Bridged(graph, n), t) = {e \in Order(graph, t) : n \notin {e[1], e[2]}}

Survivor(g, n) ==
  LET of == g.usage[SelectInSeq(g.usage, LAMBDA x : x.id = n)]
  IN  IF of.kind = "unique" THEN Head(Chosen(g, "unique", of.subtype)) ELSE n
MergedEdges(g, t) == {<<Survivor(g, e[1]), Survivor(g, e[2])>> : e \in g.deps[t]}

\* Where an edge of the merged graph leaves from and leads to: what follows an
\* end of a sequence follows its last one, and what precedes a begin of one
\* precedes the first, also where an edge does both.
LeavesFrom(g, n) ==
  {n} \cup {Last(Chosen(g, "sequenceEnd", s)) :
              s \in {x \in Subtypes : Contains(Chosen(g, "sequenceEnd", x), n)}}
LeadsTo(g, n) ==
  {n} \cup {Head(Chosen(g, "sequenceBegin", s)) :
              s \in {x \in Subtypes : Contains(Chosen(g, "sequenceBegin", x), n)}}

\* What a merge adds on a track: each later pair of a sequence follows the pair
\* before it, and the edges at a pair hold for its sequence.
ChainEdges(g, t) ==
  UNION {{<<Chosen(g, "sequenceEnd", s)[i - 1], Chosen(g, "sequenceBegin", s)[i]>> :
             i \in 2 .. Len(Chosen(g, "sequenceBegin", s))} : s \in Subtypes}
    \cup UNION {LeavesFrom(g, d[1]) \X LeadsTo(g, d[2]) : d \in MergedEdges(g, t)}

Lasting(g, edges) ==
  {e \in NoSelf(edges) : \A i \in DOMAIN g.usage :
     g.usage[i].id \in {e[1], e[2]} => g.usage[i].kind \notin HelperKinds}

\* The order a merge of the graph promises its lasting nodes on a track.
PromisedOrder(g, t) ==
  Lasting(g, Reach(NoSelf(MergedEdges(g, t) \cup ChainEdges(g, t)), IdsIn(g.usage)))

\* The unique nodes removed first do not disturb the pairing by usage order,
\* and every later begin reaches its end on every track.
PairsAreWellFormed(g) ==
  /\ \A s \in Subtypes, k \in {"sequenceBegin", "sequenceEnd"} :
       Chosen(MergedUnique(g), k, s) = Chosen(g, k, s)
  /\ \A s \in Subtypes, t \in Tracks : \A i \in 2 .. Len(Chosen(g, "sequenceBegin", s)) :
       <<Chosen(g, "sequenceBegin", s)[i], Chosen(g, "sequenceEnd", s)[i]>>
         \in Reach(MergedEdges(g, t), IdsIn(g.usage))

Orderable(g) ==
  \A t \in Tracks : Acyclic(NoSelf(MergedEdges(g, t) \cup ChainEdges(g, t)), IdsIn(g.usage))

Mergeable ==
  (IF SequencesPaired(graph) THEN {graph} ELSE {})
    \cup {Imported(graph, s) : s \in {x \in Sources :
            /\ SequencesImportable(graph) /\ SequencesImportable(x)
            /\ graph.slots + Len(x.usage) <= MaxSlots}}

\* Merging special nodes, after an import or on its own, leaves exactly the
\* promised order between the nodes that last: unique nodes of a subtype become
\* one, sequences of a subtype follow each other, helpers go, nothing else is
\* ordered and nothing is forgotten (merge_special_nodes, add_graph).
MergeHasPromisedOrder ==
  ~graph.frozen => \A g \in Mergeable :
    PairsAreWellFormed(g) /\ Orderable(g) =>
      \A t \in Tracks : Order(MergedSpecial(g), t) = PromisedOrder(g, t)

============================================================================
