---------------------------- MODULE GraphFactory ----------------------------
(***************************************************************************)
(* The three ways a graph comes about: a client edits it by hand           *)
(* (RenderNodeGraph), a cache entry imports the setup graphs of its        *)
(* cameras into it (graph/cache.rs), or it is authored through the factory *)
(* (graph/factory.rs).  The factory keeps nodes in groups; a link to or    *)
(* from a group goes through an anchor node, made when it is first needed, *)
(* that stands before or behind every member, those that come later too.   *)
(*                                                                         *)
(* Implementations and the subnodes of a command-list group are left out:  *)
(* the factory looks at whether a node has GPU work.                       *)
(***************************************************************************)
EXTENDS RenderNodeGraph

CONSTANTS
  CameraGraphs,  \* the setup graphs a cache entry may import
  MaxEdited,     \* bound: slots of a graph edited by hand
  MaxGroups,     \* bound: groups of a factory
  MaxCalls,      \* bound: nodes created and linking calls in a factory
  NoNode

ASSUME FactoryAssumption ==
  /\ NoNode \notin Nat
  /\ {MaxEdited, MaxGroups, MaxCalls} \subseteq Nat
  /\ \A source \in CameraGraphs : WellFormed(source)

VARIABLES
  author,        \* who makes the graph
  groups,        \* of each group: members, entry and exit anchor
  created,       \* created_node_ids
  gpu_work,      \* the created nodes with GPU work
  open,          \* open_command_group
  asked,         \* history: the order asked for, by track
  links          \* history: how many linking calls were made

factoryVars == <<groups, created, gpu_work, open, asked, links>>
authorVars == <<graph, author, factoryVars>>

InitFactory ==
  /\ InitGraph
  /\ author \in {"client", "cache", "factory"}
  /\ groups = <<>> /\ created = <<>> /\ gpu_work = {} /\ open = NoNode
  /\ asked = [t \in Tracks |-> {}] /\ links = 0

----------------------------------------------------------------------------
(* The factory's operators, on a graph and the groups. *)

\* Idempotent, and add_dependency refuses a node that depends on itself.
link_nodes(g, t, edges) == [g EXCEPT !.deps[t] = @ \cup NoSelf(edges)]

NodeOrNone(n) == IF n = NoNode THEN {} ELSE {n}

\* Mutant of add_node_to_group: a node that comes late is not behind the entry.
AddNodeBeforeExitOnly(g, group, n) ==
  link_nodes(g, "cpu", {n} \X NodeOrNone(groups[group].exit))

add_node_to_group(g, group, n) ==
  link_nodes(g, "cpu", (NodeOrNone(groups[group].entry) \X {n})
                         \cup ({n} \X NodeOrNone(groups[group].exit)))

\* An empty group passes on what comes before it.
link_empty_group_bridge(g, data) ==
  IF data.members = {}
  THEN link_nodes(g, "cpu", NodeOrNone(data.entry) \X NodeOrNone(data.exit))
  ELSE g

\* An ensure operator returns the graph, the groups and the anchor.
WithGroup(s, group, data, g) ==
  [graph |-> g, groups |-> [s.groups EXCEPT ![group] = data], anchor |-> s.graph.slots]

create_group_anchor(g) == Allocate(g, "stage", CHOOSE s \in Subtypes : TRUE)

ensure_group_entry(s, group) ==
  LET entry == s.graph.slots
      data == [s.groups[group] EXCEPT !.entry = entry]
      linked == link_nodes(create_group_anchor(s.graph), "cpu", {entry} \X data.members)
  IN  IF s.groups[group].entry # NoNode
      THEN [s EXCEPT !.anchor = s.groups[group].entry]
      ELSE WithGroup(s, group, data, link_empty_group_bridge(linked, data))

ensure_group_exit(s, group) ==
  LET exit == s.graph.slots
      data == [s.groups[group] EXCEPT !.exit = exit]
      linked == link_nodes(create_group_anchor(s.graph), "cpu", data.members \X {exit})
  IN  IF s.groups[group].exit # NoNode
      THEN [s EXCEPT !.anchor = s.groups[group].exit]
      ELSE WithGroup(s, group, data, link_empty_group_bridge(linked, data))

Here == [graph |-> graph, groups |-> groups, anchor |-> NoNode]

created_gpu_work_nodes == Those(created, gpu_work)
Windows(nodes) == {<<nodes[i], nodes[i + 1]>> : i \in 1 .. Len(nodes) - 1}
created_node_position(n) == SelectInSeq(created, LAMBDA m : m = n)
created_gpu_work_nodes_after(n) ==
  ToSet(SubSeq(created, created_node_position(n) + 1, Len(created))) \cap gpu_work
created_gpu_work_nodes_before(n) ==
  ToSet(SubSeq(created, 1, created_node_position(n) - 1)) \cap gpu_work

----------------------------------------------------------------------------
(* Operations of the factory. *)

GroupIds == DOMAIN groups
Created == ToSet(created)
Authoring == author = "factory" /\ ~graph.frozen

create_group ==
  /\ Authoring /\ Len(groups) < MaxGroups
  /\ groups' = Append(groups, [members |-> {}, entry |-> NoNode, exit |-> NoNode])
  /\ UNCHANGED <<graph, created, gpu_work, open, asked, links>>

\* A node of the graph that a group is told of.
AddCreated(group, work) ==
  LET n == graph.slots
      added == Allocate(graph, "stage", CHOOSE s \in Subtypes : TRUE)
  IN  /\ Authoring /\ open = NoNode /\ Len(created) + links < MaxCalls
      /\ graph' = add_node_to_group(added, group, n)
      /\ groups' = [groups EXCEPT ![group].members = @ \cup {n}]
      /\ created' = Append(created, n)
      /\ gpu_work' = IF work THEN gpu_work \cup {n} ELSE gpu_work
      /\ UNCHANGED <<asked, links>>

create_boxed_node(group, work) == AddCreated(group, work) /\ UNCHANGED open

begin_command_list_group(group) == AddCreated(group, TRUE) /\ open' = graph.slots

end_command_list_group ==
  /\ Authoring /\ open # NoNode
  /\ open' = NoNode
  /\ UNCHANGED <<graph, groups, created, gpu_work, asked, links>>

\* A call with nothing to link changes nothing.
Linking(t, order) ==
  /\ Authoring /\ Len(created) + links < MaxCalls /\ order # {}
  /\ links' = links + 1
  /\ asked' = [asked EXCEPT ![t] = @ \cup order]
  /\ UNCHANGED <<created, gpu_work, open>>

LinkCreated(t, edges, order) ==
  /\ Linking(t, order)
  /\ graph' = link_nodes(graph, t, edges)
  /\ UNCHANGED groups

\* Pairs of the sequence, the earlier first.
InOrder(nodes) == UNION {{<<nodes[i], nodes[j]>> : j \in i + 1 .. Len(nodes)} :
                           i \in DOMAIN nodes}

link_created_order_gpu_chain ==
  LinkCreated("gpu", Windows(created_gpu_work_nodes), InOrder(created_gpu_work_nodes))

link_created_order_cpu_chain == LinkCreated("cpu", Windows(created), InOrder(created))

link_cpu_to_later_gpu_work(n) ==
  LET edges == {n} \X created_gpu_work_nodes_after(n)
  IN  LinkCreated("cpu", edges, edges)

link_cpu_from_earlier_gpu_work(n) ==
  LET edges == created_gpu_work_nodes_before(n) \X {n}
  IN  LinkCreated("cpu", edges, edges)

\* The predicate is the client's, on the data of a created node.
Matchings == {gpu_work} \cup {groups[group].members : group \in GroupIds}

link_matching_to_node(n, t, matching) ==
  LinkCreated(t, matching \X {n}, NoSelf(matching \X {n}))

link_node_to_matching(n, t, matching) ==
  LinkCreated(t, {n} \X matching, NoSelf({n} \X matching))

\* What stands for a group in the history: all before and all behind it.
Before(group) == -2 * group
Behind(group) == -2 * group - 1

link_node_to_group(n, group) ==
  LET s == ensure_group_entry(Here, group)
  IN  /\ Linking("cpu", {<<n, Before(group)>>})
      /\ graph' = link_nodes(s.graph, "cpu", {<<n, s.anchor>>})
      /\ groups' = s.groups

link_group_to_node(group, n) ==
  LET s == ensure_group_exit(Here, group)
  IN  /\ Linking("cpu", {<<Behind(group), n>>})
      /\ graph' = link_nodes(s.graph, "cpu", {<<s.anchor, n>>})
      /\ groups' = s.groups

link_group_to_group(parent, child) ==
  LET e == ensure_group_exit(Here, parent)
      s == ensure_group_entry(e, child)
  IN  /\ parent # child
      /\ Linking("cpu", {<<Behind(parent), Before(child)>>})
      /\ graph' = link_nodes(s.graph, "cpu", {<<e.anchor, s.anchor>>})
      /\ groups' = s.groups

Link ==
  \/ link_created_order_gpu_chain
  \/ link_created_order_cpu_chain
  \/ \E n \in Created : \/ link_cpu_to_later_gpu_work(n)
                        \/ link_cpu_from_earlier_gpu_work(n)
  \/ \E n \in Created, matching \in Matchings :
        \/ link_matching_to_node(n, "cpu", matching)
        \/ link_node_to_matching(n, "cpu", matching)
  \/ \E n \in Created, group \in GroupIds : \/ link_node_to_group(n, group)
                                          \/ link_group_to_node(group, n)
  \/ \E parent, child \in GroupIds : link_group_to_group(parent, child)

finish ==
  /\ Authoring /\ open = NoNode
  /\ graph' = WithFlowGroups(graph)
  /\ UNCHANGED factoryVars

Factory ==
  \/ create_group
  \/ \E group \in GroupIds, work \in BOOLEAN : create_boxed_node(group, work)
  \/ \E group \in GroupIds : begin_command_list_group(group)
  \/ end_command_list_group
  \/ Link
  \/ finish

----------------------------------------------------------------------------
(* The other authors. *)

Client == author = "client" /\ EditOrMerge /\ graph'.slots <= MaxEdited /\ UNCHANGED factoryVars

\* Unique nodes and sequences of the cameras before are merged with those of
\* the new one; without merging it is the bare import.
import_camera_setup_graph_to_final(source, merge) ==
  author = "cache" /\ AddGraph(source, merge) /\ UNCHANGED factoryVars

NextGraph ==
  /\ \/ Factory
     \/ Client
     \/ \E source \in CameraGraphs, merge \in BOOLEAN :
           import_camera_setup_graph_to_final(source, merge)
  /\ UNCHANGED author

SpecFactory == InitFactory /\ [][NextGraph]_authorVars

----------------------------------------------------------------------------
(* Properties *)

GroupEdges ==
  UNION {({Before(g)} \X groups[g].members) \cup (groups[g].members \X {Behind(g)})
           \cup {<<Before(g), Behind(g)>>} : g \in GroupIds}

AskedOrder(t) ==
  LET edges == asked[t] \cup (IF t = "cpu" THEN GroupEdges ELSE {})
      points == created \o FlattenSeq([g \in GroupIds |-> <<Before(g), Behind(g)>>])
  IN  Reach(edges, points) \cap (Created \X Created)

\* A factory has no special nodes to merge.
MergedGraphsHavePromisedOrder == author # "factory" => MergeHasPromisedOrder

\* Between the nodes it created, a factory's graph has the order its caller
\* asked for and no other: a link to or from a group is one to or from each of
\* its members, those added after it too, and goes through a group without
\* members to what it is linked with; the chains and the links to GPU work take
\* what was created when they were called (factory.rs).
FactoryOrderIsTheAskedOne ==
  author = "factory" =>
    \A t \in Tracks :
      Reach(graph.deps[t], IdsIn(graph.usage)) \cap (Created \X Created) = AskedOrder(t)
============================================================================
