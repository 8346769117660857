--------------------------- MODULE GraphExecution ---------------------------
(***************************************************************************)
(* The node walks of one frame over a built render graph: the preconsume   *)
(* walk in GPU order, the consume walk driven by CPU dependency counters,  *)
(* the command recorders of the command-list groups and their submission   *)
(* (execution.rs, command_recorder.rs).                                    *)
(*                                                                         *)
(* One thread walks; a step is one node or one batch.  The ready queue is  *)
(* a bag: the code fills it in the order of the linked dependency lists,   *)
(* which is arbitrary here.  A caller may consume again with the same      *)
(* counters after an error, and between two walks may go on recording into *)
(* what the walk left and submit.                                          *)
(***************************************************************************)
EXTENDS Integers, FiniteSets, SequencesExt, CommandRecorders

CONSTANTS
  Nodes,   \* the live nodes of the built graph
  Groups,  \* those with the role CommandListGroup
  Plans    \* the built graphs: CPU parents, GPU edges and the GPU order

ASSUME NodesAssumption == IsFiniteSet(Nodes) /\ Groups \subseteq Nodes

\* What build_flow_groups guarantees of a graph it accepts.
ASSUME PlansAssumption ==
  \A p \in Plans :
    /\ p.cpu \in [Nodes -> SUBSET Nodes]
    /\ \E rank \in [Nodes -> 0 .. Cardinality(Nodes)] : \A n \in Nodes : \A m \in p.cpu[n] : rank[m] < rank[n]
    /\ p.order \in Seq(Nodes) /\ Len(p.order) = Cardinality(Nodes)
    /\ \A n \in Nodes : \E i \in DOMAIN p.order : p.order[i] = n
    /\ \A i, j \in DOMAIN p.order : p.order[i] = p.order[j] => i = j
    /\ \A i, j \in DOMAIN p.order : <<p.order[i], p.order[j]>> \in p.gpu => i < j

VARIABLES
  plan,
  phase,       \* preconsume, consume, consuming (inside the consume walk), over
  walked,      \* nodes the preconsume walk is through with
  kickoff, pending, started, completed, ready, terminal,  \* RenderGraphDependencyCounters
  batch,       \* what is left of the batch being processed
  lost,        \* history: nodes of batches an error cut short
  recorder,    \* the slot of each node's GPU flow group
  submissions,
  result       \* how the last call of the caller returned

counters == <<kickoff, pending, started, completed, ready, terminal>>
vars == <<plan, phase, walked, kickoff, pending, started, completed, ready, terminal,
          batch, lost, recorder, submissions, result>>

Nothing == [n \in Nodes |-> 0]
Parents(n) == plan.cpu[n]
Children(n) == {m \in Nodes : n \in plan.cpu[m]}

Init ==
  /\ plan \in Plans
  /\ phase = "preconsume" /\ walked = 0
  /\ kickoff = FALSE /\ pending = [n \in Nodes |-> Cardinality(plan.cpu[n])]
  /\ started = {} /\ completed = {} /\ ready = Nothing /\ terminal = FALSE
  /\ batch = Nothing /\ lost = {}
  /\ recorder = prepare(Nodes) /\ submissions = <<>>
  /\ result = "none"

\* update_terminal_completion, once `done` are the completed nodes.
TerminalNodes == {n \in Nodes : Children(n) = {}}
MarksTerminal(done) == done = Nodes /\ TerminalNodes \subseteq done

----------------------------------------------------------------------------
(* Preconsume *)

\* execute_graph_sequential_gpu_order: a failing node ends the walk.
WalkNode ==
  /\ phase = "preconsume" /\ walked < Len(plan.order)
  /\ walked' = walked + 1
  /\ UNCHANGED <<plan, phase, counters, batch, lost, recorder, submissions, result>>

WalkFails ==
  /\ phase = "preconsume" /\ walked < Len(plan.order)
  /\ phase' = "over" /\ result' = "error"
  /\ UNCHANGED <<plan, walked, counters, batch, lost, recorder, submissions>>

\* The allocator resolves the requests of the whole walk and enters consume.
Resolve ==
  /\ phase = "preconsume" /\ walked = Len(plan.order)
  /\ phase' = "consume"
  /\ UNCHANGED <<plan, walked, counters, batch, lost, recorder, submissions, result>>

----------------------------------------------------------------------------
(* Dependency counters *)

ReleaseKickoff ==
  /\ phase \in {"preconsume", "consume"} /\ ~kickoff
  /\ kickoff' = TRUE
  /\ ready' = [n \in Nodes |->
                 ready[n] + (IF pending[n] = 0 /\ n \notin started \cup completed THEN 1 ELSE 0)]
  /\ terminal' = (terminal \/ MarksTerminal(completed))
  /\ UNCHANGED <<plan, phase, walked, pending, started, completed, batch, lost, recorder,
                 submissions, result>>

BeginConsume ==
  /\ phase = "consume"
  /\ phase' = "consuming"
  /\ UNCHANGED <<plan, walked, counters, batch, lost, recorder, submissions, result>>

BatchDone == phase = "consuming" /\ batch = Nothing

TakeReadyBatch ==
  /\ BatchDone /\ completed # Nodes /\ ready # Nothing
  /\ batch' = ready /\ ready' = Nothing
  /\ UNCHANGED <<plan, phase, walked, kickoff, pending, started, completed, terminal, lost,
                 recorder, submissions, result>>

\* Mutant of Stall: an empty batch is polled for.
StallSpins == BatchDone /\ completed # Nodes /\ ready = Nothing /\ UNCHANGED vars

Stall ==
  /\ BatchDone /\ completed # Nodes /\ ready = Nothing
  /\ phase' = "consume" /\ result' = "stalled"
  /\ UNCHANGED <<plan, walked, counters, batch, lost, recorder, submissions>>

ConsumeReturns ==
  /\ BatchDone /\ completed = Nodes
  /\ phase' = "consume"
  /\ result' = IF terminal THEN "consumed" ELSE "incomplete"
  /\ UNCHANGED <<plan, walked, counters, batch, lost, recorder, submissions>>

----------------------------------------------------------------------------
(* Nodes *)

\* process_command_list_group_with_runtime: the group creates its recorder, its
\* subnodes run under it and may already finish it, the last one does.
OwnRecorder(n) == create_own_recorder(recorder[n])
GroupRecorder(n) == finish_recorder(OwnRecorder(n))

\* The protocol errors of begin_node, create_own_recorder and complete_node.
BeginRefused(n) == ~kickoff \/ pending[n] # 0 \/ n \in started \cup completed
SlotRefused(n) == n \in Groups /\ ~CanCreate(recorder[n])
CompleteRefused(n) == \E m \in Children(n) : pending[m] = 0

\* Mutant of Complete: a child is released by its first parent.
CompleteAnyParent(n) ==
  /\ completed' = completed \cup {n}
  /\ pending' = [m \in Nodes |-> IF m \in Children(n) THEN 0 ELSE pending[m]]
  /\ ready' = [m \in Nodes |-> ready[m] + (IF m \in Children(n) /\ pending[m] > 0 THEN 1 ELSE 0)]
  /\ terminal' = (terminal \/ MarksTerminal(completed \cup {n}))
\* complete_node: the children whose wait count reaches zero become ready.
Complete(n) ==
  /\ completed' = completed \cup {n}
  /\ pending' = [m \in Nodes |-> IF m \in Children(n) THEN pending[m] - 1 ELSE pending[m]]
  /\ ready' = [m \in Nodes |->
                 ready[m] + (IF m \in Children(n) /\ pending[m] = 1 THEN 1 ELSE 0)]
  /\ terminal' = (terminal \/ MarksTerminal(completed \cup {n}))

\* The error returns from the walk; the rest of the batch was drained from the
\* queue and goes with it.
GiveUp(n, why) ==
  /\ phase' = "consume" /\ result' = why
  /\ lost' = lost \cup {n} \cup {m \in Nodes : batch[m] > 0}
  /\ batch' = Nothing

\* process_node_core without an error: a group records from the first to the
\* last of its subnodes and finishes its recorder.  What a refused node leaves
\* half done is not followed: no node is refused.
ProcessNode(n) ==
  /\ phase = "consuming" /\ batch[n] > 0
  /\ IF BeginRefused(n) \/ SlotRefused(n) \/ CompleteRefused(n)
     THEN GiveUp(n, "refused") /\ UNCHANGED <<counters, recorder>>
     ELSE /\ batch' = [batch EXCEPT ![n] = @ - 1]
          /\ started' = started \cup {n}
          /\ recorder' = IF n \in Groups THEN [recorder EXCEPT ![n] = GroupRecorder(n)] ELSE recorder
          /\ Complete(n)
          /\ UNCHANGED <<phase, kickoff, lost, result>>
  /\ UNCHANGED <<plan, walked, submissions>>

\* An implementation fails or is missing: a group leaves its recorder open,
\* unless a subnode had finished it by itself.
NodeFails(n, open) ==
  /\ phase = "consuming" /\ batch[n] > 0 /\ ~BeginRefused(n) /\ ~SlotRefused(n)
  /\ started' = started \cup {n}
  /\ recorder' = IF n \in Groups
                 THEN [recorder EXCEPT ![n] = IF open THEN OwnRecorder(n) ELSE GroupRecorder(n)]
                 ELSE recorder
  /\ GiveUp(n, "error")
  /\ UNCHANGED <<plan, walked, kickoff, pending, completed, ready, terminal, submissions>>

----------------------------------------------------------------------------
(* Submission *)

\* Whoever holds the recorders goes on with one that the walk left open.
CallerRecords ==
  /\ phase = "consume"
  /\ \E n \in Nodes : \E s \in Recorded(recorder[n]) : recorder' = [recorder EXCEPT ![n] = s]
  /\ UNCHANGED <<plan, phase, walked, counters, batch, lost, submissions, result>>

SubmitFinished ==
  /\ phase = "consume"
  /\ submissions' = Submittable(recorder, plan.order)
  /\ recorder' = Submitted(recorder, plan.order)
  /\ result' = IF \E n \in Nodes : require_recorder(recorder[n]) THEN "error" ELSE "submitted"
  /\ UNCHANGED <<plan, phase, walked, counters, batch, lost>>

\* The next frame prepares new counters and new recorders for the same graph.
NextFrame ==
  /\ phase \in {"consume", "over"}
  /\ phase' = "preconsume" /\ walked' = 0
  /\ kickoff' = FALSE /\ pending' = [n \in Nodes |-> Cardinality(Parents(n))]
  /\ started' = {} /\ completed' = {} /\ ready' = Nothing /\ terminal' = FALSE
  /\ batch' = Nothing /\ lost' = {}
  /\ recorder' = prepare(Nodes) /\ submissions' = <<>>
  /\ result' = "none" /\ UNCHANGED plan

Walk ==
  \/ TakeReadyBatch \/ Stall \/ ConsumeReturns
  \/ \E n \in Nodes : ProcessNode(n) \/ \E open \in BOOLEAN : NodeFails(n, open)

Next ==
  \/ WalkNode \/ WalkFails \/ Resolve \/ ReleaseKickoff \/ BeginConsume
  \/ Walk \/ CallerRecords \/ SubmitFinished \/ NextFrame

\* The walk is a loop of one thread: it goes on while it is not over.
Spec == Init /\ [][Next]_vars /\ WF_vars(Walk)

----------------------------------------------------------------------------
(* Properties *)

TypeOK ==
  /\ plan \in Plans
  /\ phase \in {"preconsume", "consume", "consuming", "over"} /\ walked \in Nat
  /\ {kickoff, terminal} \subseteq BOOLEAN
  /\ {pending, ready, batch} \subseteq [Nodes -> Nat]
  /\ started \subseteq Nodes /\ completed \subseteq started /\ lost \subseteq Nodes
  /\ recorder \in [Nodes -> Slots]
  /\ submissions \in Seq(Nodes)
  /\ result \in {"none", "error", "stalled", "refused", "consumed", "incomplete", "submitted"}

\* A node starts only when all its CPU parents have completed in this frame,
\* whatever failed and however often the caller consumed again (begin_node,
\* complete_node).
CpuOrder == \A n \in started : Parents(n) \subseteq completed

\* The wait count of a node is the number of CPU parents still to complete.
PendingIsExact == \A n \in Nodes : pending[n] = Cardinality(Parents(n) \ completed)

\* No queue, counter or recorder slot ever hands the walk a node it must
\* refuse: nodes are queued once, after their parents, and own their slot.
NeverRefused == result # "refused"

\* The terminal completion mark means that every job completed, and a walk that
\* returns without an error has set it (debug_validate_terminal_completion), but
\* for the walk of an empty graph, which needs no kickoff to return.
TerminalMeansAll ==
  /\ terminal => completed = Nodes
  /\ result = "incomplete" => Nodes = {}

\* An acyclic graph never runs dry by itself: the walk has nothing to do before
\* the kickoff is released, or after an error threw away a node.
StallsOnlyAfterLoss ==
  BatchDone /\ completed # Nodes /\ ready = Nothing => ~kickoff \/ lost # {}

\* The walk keeps its books: no failure, repeated consume or empty graph makes
\* a count, a queue or the terminal mark disagree with what completed.
WalkIsSound ==
  /\ TypeOK /\ CpuOrder /\ PendingIsExact /\ NeverRefused
  /\ TerminalMeansAll /\ StallsOnlyAfterLoss

\* A submission lists the groups in an order that respects every GPU edge,
\* although they were recorded in CPU order; nothing is submitted in the middle
\* of a pass, whoever finished the recorder; and after a walk without errors
\* every group is recorded (submit_finished_in_gpu_order, finish_recorder).
SubmissionOrder ==
  /\ \A i, j \in DOMAIN submissions : i < j => <<submissions[j], submissions[i]>> \notin plan.gpu
  /\ \A i, j \in DOMAIN submissions : submissions[i] = submissions[j] => i = j
  /\ \A n \in Nodes :
       recorder[n].state \in {"finished", "submitted"} => recorder[n].active_pass = "none"
  /\ completed = Nodes =>
       \A n \in Groups : recorder[n].state = "submitted" \/ has_command_recorder(recorder[n])

\* Every call of the consume walk returns.
ConsumeComesBack == phase = "consuming" ~> phase # "consuming"

=============================================================================
