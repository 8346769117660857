------------------------ MODULE GraphProofs --------------------------------
(***************************************************************************)
(* Safety of the node walks of a frame for every built graph, every choice *)
(* of groups among its nodes and every failure.                            *)
(*                                                                         *)
(* The invariant says where a node may be: QueuedOnce gives it one place   *)
(* in the ready queue or the drained batch from the moment its last parent *)
(* completed until it starts or is thrown away by an error.                *)
(***************************************************************************)
EXTENDS GraphExecution, GraphFactory, FiniteSetTheorems, FoldTheorems, TLAPS

\* A node whose parents are complete waits for its turn.
Due(n) == kickoff /\ Parents(n) \subseteq completed /\ n \notin started \cup lost

\* It is queued or in the drained batch, once, and no other node is.
QueuedOnce ==
  \A n \in Nodes : ready[n] + batch[n] = IF Due(n) THEN 1 ELSE 0

\* Nothing happens to a node before the kickoff or before its parents.
Progress ==
  /\ ~kickoff => started = {} /\ lost = {}
  /\ \A n \in lost : Parents(n) \subseteq completed
  /\ started \subseteq completed \cup lost
  /\ kickoff /\ completed = Nodes => terminal

\* A recorder is untouched before its node starts, and no pass outlives the
\* recording.
RecordersOK ==
  /\ \A n \in Nodes \ started : recorder[n] = EmptySlot
  /\ \A n \in Nodes :
       recorder[n].state \in {"empty", "finished", "submitted"} => recorder[n].active_pass = "none"
  /\ \A n \in completed \cap Groups : recorder[n].state \in {"finished", "submitted"}

\* The submission of an earlier call is there until the next frame.
SubmittedInOrder ==
  /\ \A i, j \in DOMAIN submissions : i < j => <<submissions[j], submissions[i]>> \notin plan.gpu
  /\ \A i, j \in DOMAIN submissions : submissions[i] = submissions[j] => i = j

Inductive ==
  /\ TypeOK /\ CpuOrder /\ PendingIsExact /\ NeverRefused /\ TerminalMeansAll
  /\ QueuedOnce /\ Progress /\ RecordersOK /\ SubmittedInOrder

----------------------------------------------------------------------------
(* Sets of places *)

\* The places up to one of them.
UpTo(places, i) == {j \in places : j <= i}

\* A finite set of places has a k-th one for every k up to its size.
LEMMA NthExists ==
  ASSUME NEW N \in Nat, NEW places, places \subseteq 1 .. N,
         NEW k \in 1 .. Cardinality(places)
  PROVE  Nth(places, k) \in places /\ Cardinality(UpTo(places, Nth(places, k))) = k
<1>1. IsFiniteSet(places) /\ \A i : IsFiniteSet(UpTo(places, i))
  <2>1. IsFiniteSet(places)
    <3>1. IsFiniteSet(1 .. N)
      BY FS_Interval
    <3> QED BY <3>1, FS_Subset
  <2>2. ASSUME NEW i PROVE UpTo(places, i) \subseteq places
    BY Zenon DEF UpTo
  <2> QED BY <2>1, <2>2, FS_Subset
<1>2. \A i : Cardinality(UpTo(places, i)) \in Nat
  BY <1>1, FS_CardinalityType
<1> DEFINE T == {i \in 0 .. N : k <= Cardinality(UpTo(places, i))}
<1>3. N \in T
  <2> HIDE DEF T
  <2>1. \A j \in places : j <= N
    OBVIOUS
  <2>2. UpTo(places, N) = places
    <3>1. UpTo(places, N) \subseteq places
      BY Zenon DEF UpTo
    <3>2. ASSUME NEW j \in places PROVE j \in UpTo(places, N)
      BY <2>1, Zenon DEF UpTo
    <3> QED BY <3>1, <3>2, Zenon
  <2> QED BY <2>2 DEF T
<1>4. PICK i \in T : \A j \in T : i <= j
  <2>1. T \subseteq Nat /\ T # {}
    BY <1>3
  <2> HIDE DEF T
  <2> QED BY <2>1, LeastExists
<1>5. i # 0
  <2>1. \A j \in places : ~(j <= 0)
    OBVIOUS
  <2>2. UpTo(places, 0) = {}
    BY <2>1, Zenon DEF UpTo
  <2> QED BY <2>2, <1>4, FS_EmptySet
<1>6. i \in places /\ UpTo(places, i) = UpTo(places, i - 1) \cup {i} /\ i \notin UpTo(places, i - 1)
  <2>1. i - 1 \in 0 .. N /\ i - 1 \notin T
    BY <1>4, <1>5
  <2>2. i \in Nat \ {0} /\ k <= Cardinality(UpTo(places, i))
    BY <1>4, <1>5
  <2>3. ~(k <= Cardinality(UpTo(places, i - 1)))
    BY <2>1
  <2> HIDE DEF T
  <2>4. \A j \in places : j <= i <=> j <= i - 1 \/ j = i
    BY <2>2
  <2>5. i \in places
    <3>1. i \notin places => UpTo(places, i) = UpTo(places, i - 1)
      BY <2>4, Zenon DEF UpTo
    <3> QED BY <3>1, <2>2, <2>3
  <2>6. UpTo(places, i) = UpTo(places, i - 1) \cup {i}
    <3>1. i <= i
      BY <2>2
    <3> QED BY <2>4, <2>5, <3>1, Zenon DEF UpTo
  <2>7. i \notin UpTo(places, i - 1)
    <3>1. ~(i <= i - 1)
      BY <2>2
    <3> QED BY <3>1, Zenon DEF UpTo
  <2> QED BY <2>5, <2>6, <2>7
<1>7. Cardinality(UpTo(places, i)) = k
  <2>1. Cardinality(UpTo(places, i)) = Cardinality(UpTo(places, i - 1)) + 1
    BY <1>1, <1>6, FS_AddElement
  <2>2. ~(k <= Cardinality(UpTo(places, i - 1)))
    BY <1>4, <1>5
  <2> QED BY <2>1, <2>2, <1>2, <1>4
<1>8. \A j : UpTo(places, j) = {l \in places : l <= j}
  BY DEF UpTo
<1>9. Nth(places, k) = CHOOSE j \in places : Cardinality(UpTo(places, j)) = k
  BY <1>8 DEF Nth
<1> HIDE DEF T
<1> QED BY <1>6, <1>7, <1>9

\* The k-th places come in their order.
LEMMA NthIncreases ==
  ASSUME NEW N \in Nat, NEW places, places \subseteq 1 .. N,
         NEW k \in 1 .. Cardinality(places), NEW l \in 1 .. Cardinality(places), k < l
  PROVE  Nth(places, k) < Nth(places, l)
<1> DEFINE i == Nth(places, k)
           j == Nth(places, l)
<1>1. /\ i \in places /\ Cardinality(UpTo(places, i)) = k
      /\ j \in places /\ Cardinality(UpTo(places, j)) = l
  BY NthExists
<1>2. IsFiniteSet(UpTo(places, i))
  <2>1. IsFiniteSet(1 .. N)
    BY FS_Interval
  <2>2. UpTo(places, i) \subseteq places
    BY Zenon DEF UpTo
  <2> QED BY <2>1, <2>2, FS_Subset
<1> HIDE DEF i, j
<1>3. i \in Nat /\ j \in Nat
  BY <1>1
<1>4. CASE j <= i
  <2>1. \A p \in places : p \in Nat
    OBVIOUS
  <2>4. \A p \in places : p <= j => p <= i
    BY <2>1, <1>3, <1>4
  <2>2. UpTo(places, j) \subseteq UpTo(places, i)
    BY <2>4, Zenon DEF UpTo
  <2>3. Cardinality(UpTo(places, j)) <= Cardinality(UpTo(places, i))
    BY <1>2, <2>2, FS_Subset
  <2> QED BY <2>3, <1>1
<1>5. CASE i < j
  BY <1>5 DEF i, j
<1> QED BY <1>3, <1>4, <1>5

----------------------------------------------------------------------------
(* The submission *)

\* The plan of a frame is one of the built graphs.
LEMMA PlanIsBuilt ==
  ASSUME TypeOK
  PROVE  /\ \A n \in Nodes : Parents(n) \subseteq Nodes /\ IsFiniteSet(Parents(n))
         /\ plan.order \in Seq(Nodes)
         /\ \A i, j \in DOMAIN plan.order : plan.order[i] = plan.order[j] => i = j
         /\ \A i, j \in DOMAIN plan.order : <<plan.order[i], plan.order[j]>> \in plan.gpu => i < j
<1>1. plan \in Plans
  BY DEF TypeOK
<1>2. ASSUME NEW n \in Nodes PROVE Parents(n) \subseteq Nodes /\ IsFiniteSet(Parents(n))
  <2>1. Parents(n) \subseteq Nodes
    BY <1>1, PlansAssumption DEF Parents
  <2> QED BY <2>1, NodesAssumption, FS_Subset
<1> QED BY <1>1, <1>2, PlansAssumption

\* What a submission lists is in GPU order and lists no group twice.
LEMMA SubmittableInOrder ==
  ASSUME TypeOK
  PROVE  LET sent == Submittable(recorder, plan.order)
         IN  /\ sent \in Seq(Nodes)
             /\ \A i, j \in DOMAIN sent : i < j => <<sent[j], sent[i]>> \notin plan.gpu
             /\ \A i, j \in DOMAIN sent : sent[i] = sent[j] => i = j
<1> DEFINE order == plan.order
           places == FinishedPlaces(recorder, order)
           size == Cardinality(places)
           sent == Submittable(recorder, order)
<1>1. /\ order \in Seq(Nodes)
      /\ \A i, j \in DOMAIN order : order[i] = order[j] => i = j
      /\ \A i, j \in DOMAIN order : <<order[i], order[j]>> \in plan.gpu => i < j
  BY PlanIsBuilt
<1>2. Len(order) \in Nat /\ DOMAIN order = 1 .. Len(order)
  BY <1>1
<1>3. places \subseteq 1 .. Len(order)
  BY <1>2 DEF FinishedPlaces
<1>4. sent = [k \in 1 .. size |-> order[Nth(places, k)]]
  BY DEF Submittable
<1> HIDE DEF order, places, size, sent
<1>5. size \in Nat
  <2>1. IsFiniteSet(1 .. Len(order))
    BY <1>2, FS_Interval
  <2> QED BY <2>1, <1>3, FS_Subset, FS_CardinalityType DEF size
<1>6. \A k \in 1 .. size : Nth(places, k) \in 1 .. Len(order)
  BY <1>2, <1>3, NthExists DEF size
<1>7. \A k, l \in 1 .. size : k < l => Nth(places, k) < Nth(places, l)
  BY <1>2, <1>3, NthIncreases DEF size
<1>8. sent \in Seq(Nodes) /\ DOMAIN sent = 1 .. size
  <2>1. sent \in [1 .. size -> Nodes]
    BY <1>1, <1>2, <1>4, <1>6
  <2> QED BY <2>1, <1>5
<1>9. ASSUME NEW i \in 1 .. size, NEW j \in 1 .. size, i < j
      PROVE  <<sent[j], sent[i]>> \notin plan.gpu /\ sent[i] # sent[j]
  <2>1. /\ Nth(places, i) < Nth(places, j)
        /\ Nth(places, i) \in 1 .. Len(order) /\ Nth(places, j) \in 1 .. Len(order)
    BY <1>6, <1>7, <1>9
  <2>2. sent[i] = order[Nth(places, i)] /\ sent[j] = order[Nth(places, j)]
    BY <1>4
  <2>3. <<order[Nth(places, j)], order[Nth(places, i)]>> \notin plan.gpu
    <3>1. \A a, b \in 1 .. Len(order) : a < b => ~(b < a)
      OBVIOUS
    <3>2. \A a, b \in 1 .. Len(order) : <<order[a], order[b]>> \in plan.gpu => a < b
      BY <1>1, <1>2, Zenon
    <3> QED BY <2>1, <3>1, <3>2, Zenon
  <2>4. order[Nth(places, i)] # order[Nth(places, j)]
    BY <2>1, <1>1, <1>2
  <2> QED BY <2>2, <2>3, <2>4
<1>10. \A i, j \in 1 .. size : i < j => <<sent[j], sent[i]>> \notin plan.gpu
  BY <1>9
<1>11. \A i, j \in 1 .. size : sent[i] = sent[j] => i = j
  <2>1. \A i, j \in 1 .. size : i = j \/ i < j \/ j < i
    BY <1>5
  <2> QED BY <2>1, <1>9
<1> QED BY <1>8, <1>10, <1>11 DEF sent, order

----------------------------------------------------------------------------
(* What the invariant says of a node *)

\* A wait count of zero says that every parent completed.
LEMMA PendingZero ==
  ASSUME TypeOK, PendingIsExact, NEW n \in Nodes
  PROVE  pending[n] = 0 <=> Parents(n) \subseteq completed
<1>1. IsFiniteSet(Parents(n) \ completed)
  BY PlanIsBuilt, FS_Subset
<1>2. pending[n] = 0 <=> Parents(n) \ completed = {}
  BY <1>1, FS_EmptySet DEF PendingIsExact
<1> QED BY <1>2

\* A node of the batch is due, is nowhere else, and no call refuses it.
LEMMA BatchedIsDue ==
  ASSUME Inductive, NEW n \in Nodes, batch[n] > 0
  PROVE  /\ Due(n) /\ batch[n] = 1 /\ ready[n] = 0
         /\ n \notin started \cup completed \cup lost
         /\ recorder[n] = EmptySlot
         /\ ~BeginRefused(n) /\ ~SlotRefused(n) /\ ~CompleteRefused(n)
<1>1. TypeOK /\ PendingIsExact /\ QueuedOnce /\ RecordersOK
  BY DEF Inductive
<1>2. ready[n] \in Nat /\ batch[n] \in Nat /\ completed \subseteq started
  BY <1>1 DEF TypeOK
<1>3. Due(n) /\ batch[n] = 1 /\ ready[n] = 0
  <2>1. ready[n] + batch[n] = IF Due(n) THEN 1 ELSE 0
    BY <1>1 DEF QueuedOnce
  <2> QED BY <2>1, <1>2
<1>4. n \notin started \cup completed \cup lost
  BY <1>2, <1>3 DEF Due
<1>5. recorder[n] = EmptySlot
  BY <1>1, <1>4 DEF RecordersOK
<1>6. ~BeginRefused(n)
  BY <1>1, <1>3, <1>4, PendingZero DEF Due, BeginRefused
<1>7. ~SlotRefused(n)
  BY <1>5 DEF SlotRefused, CanCreate, EmptySlot
<1>8. ~CompleteRefused(n)
  <2>1. SUFFICES ASSUME NEW m \in Children(n), pending[m] = 0 PROVE FALSE
    BY DEF CompleteRefused
  <2>2. m \in Nodes /\ n \in Parents(m)
    BY DEF Children, Parents
  <2> QED BY <2>1, <2>2, <1>1, <1>4, PendingZero
<1> QED BY <1>3, <1>4, <1>5, <1>6, <1>7, <1>8

----------------------------------------------------------------------------
(* The invariant *)

LEMMA InitInductive == Init => Inductive
<1> SUFFICES ASSUME Init PROVE Inductive
  OBVIOUS
<1>1. plan \in Plans /\ plan.cpu \in [Nodes -> SUBSET Nodes]
  BY PlansAssumption DEF Init
<1>2. \A n \in Nodes : Cardinality(plan.cpu[n]) \in Nat
  BY <1>1, NodesAssumption, FS_Subset, FS_CardinalityType
<1>3. TypeOK
  <2>1. recorder \in [Nodes -> Slots]
    BY DEF Init, prepare, Slots, EmptySlot
  <2>2. {pending, ready, batch} \subseteq [Nodes -> Nat]
    BY <1>2 DEF Init, Nothing
  <2>3. submissions \in Seq(Nodes)
    BY DEF Init
  <2>4. /\ phase = "preconsume" /\ walked = 0 /\ kickoff = FALSE /\ terminal = FALSE
        /\ started = {} /\ completed = {} /\ lost = {} /\ result = "none"
    BY DEF Init
  <2> QED BY <1>1, <2>1, <2>2, <2>3, <2>4 DEF TypeOK
<1>4. CpuOrder /\ NeverRefused /\ TerminalMeansAll
  BY DEF Init, CpuOrder, NeverRefused, TerminalMeansAll
<1>5. PendingIsExact
  <2>1. \A n \in Nodes : Parents(n) \ completed = plan.cpu[n]
    BY DEF Init, Parents
  <2> QED BY <2>1 DEF Init, PendingIsExact
<1>6. QueuedOnce
  BY DEF Init, QueuedOnce, Nothing, Due
<1>7. Progress
  BY DEF Init, Progress
<1>8. RecordersOK
  BY DEF Init, RecordersOK, prepare, EmptySlot
<1>9. SubmittedInOrder
  BY DEF Init, SubmittedInOrder
<1> QED BY <1>3, <1>4, <1>5, <1>6, <1>7, <1>8, <1>9 DEF Inductive

\* Steps that only move the program counter of the caller or of the walk.
LEMMA MovesInductive ==
  ASSUME Inductive,
         \/ WalkNode \/ WalkFails \/ Resolve \/ BeginConsume \/ Stall \/ UNCHANGED vars
  PROVE  Inductive'
<1>1. UNCHANGED <<plan, counters, batch, lost, recorder, submissions>>
  BY DEF WalkNode, WalkFails, Resolve, BeginConsume, Stall, vars, counters
<1>2. /\ phase' \in {"preconsume", "consume", "consuming", "over"} /\ walked' \in Nat
      /\ result' \in {result, "error", "stalled"}
  <2>1. walked \in Nat /\ phase \in {"preconsume", "consume", "consuming", "over"}
    BY DEF Inductive, TypeOK
  <2> QED BY <2>1 DEF WalkNode, WalkFails, Resolve, BeginConsume, Stall, vars
<1>3. TypeOK'
  BY <1>1, <1>2 DEF Inductive, TypeOK, counters
<1>4. CpuOrder' /\ PendingIsExact' /\ NeverRefused' /\ TerminalMeansAll'
  BY <1>1, <1>2
     DEF Inductive, CpuOrder, PendingIsExact, NeverRefused, TerminalMeansAll, counters, Parents
<1>5. QueuedOnce' /\ Progress'
  BY <1>1 DEF Inductive, QueuedOnce, Progress, Due, counters, Parents
<1>6. RecordersOK' /\ SubmittedInOrder'
  BY <1>1 DEF Inductive, RecordersOK, SubmittedInOrder, counters
<1> QED BY <1>3, <1>4, <1>5, <1>6 DEF Inductive

LEMMA ReleaseKickoffInductive ==
  ASSUME Inductive, ReleaseKickoff
  PROVE  Inductive'
<1>1. /\ ~kickoff /\ kickoff' /\ UNCHANGED <<plan, pending, started, completed, batch, lost, result>>
      /\ started = {} /\ lost = {} /\ completed = {}
  BY DEF Inductive, ReleaseKickoff, Progress, TypeOK
<1>2. \A n \in Nodes : ready[n] = 0 /\ batch[n] = 0
  <2>1. \A n \in Nodes : ready[n] \in Nat /\ batch[n] \in Nat
    BY DEF Inductive, TypeOK
  <2>2. \A n \in Nodes : ready[n] + batch[n] = 0
    BY <1>1 DEF Inductive, QueuedOnce, Due
  <2> QED BY <2>1, <2>2
<1>3. \A n \in Nodes : ready'[n] = IF pending[n] = 0 THEN 1 ELSE 0
  BY <1>1, <1>2 DEF ReleaseKickoff
<1>4. TypeOK'
  <2>1. ready' \in [Nodes -> Nat]
    BY <1>1, <1>2 DEF ReleaseKickoff
  <2>2. terminal' \in BOOLEAN
    BY DEF ReleaseKickoff, Inductive, TypeOK, MarksTerminal
  <2> QED BY <2>1, <2>2, <1>1 DEF Inductive, TypeOK, ReleaseKickoff
<1>5. CpuOrder' /\ PendingIsExact' /\ NeverRefused'
  BY <1>1 DEF Inductive, CpuOrder, PendingIsExact, NeverRefused, Parents
<1>6. TerminalMeansAll' /\ Progress'
  BY <1>1 DEF Inductive, TerminalMeansAll, Progress, ReleaseKickoff, MarksTerminal,
              TerminalNodes, Parents
<1>7. QueuedOnce'
  <2> SUFFICES ASSUME NEW n \in Nodes PROVE ready'[n] + batch'[n] = IF Due(n)' THEN 1 ELSE 0
    BY DEF QueuedOnce
  <2>1. Due(n)' <=> Parents(n) \subseteq completed
    BY <1>1 DEF Due, Parents
  <2>2. Due(n)' <=> pending[n] = 0
    BY <2>1, PendingZero DEF Inductive
  <2> QED BY <2>2, <1>1, <1>2, <1>3
<1>8. RecordersOK' /\ SubmittedInOrder'
  BY DEF Inductive, RecordersOK, SubmittedInOrder, ReleaseKickoff
<1> QED BY <1>4, <1>5, <1>6, <1>7, <1>8 DEF Inductive

LEMMA TakeReadyBatchInductive ==
  ASSUME Inductive, TakeReadyBatch
  PROVE  Inductive'
<1>1. /\ UNCHANGED <<plan, phase, walked, kickoff, pending, started, completed, terminal, lost,
                     recorder, submissions, result>>
      /\ batch = Nothing /\ batch' = ready /\ ready' = Nothing
  BY DEF TakeReadyBatch, BatchDone
<1>2. TypeOK'
  BY <1>1 DEF Inductive, TypeOK, Nothing
<1>3. CpuOrder' /\ PendingIsExact' /\ NeverRefused' /\ TerminalMeansAll' /\ Progress'
  BY <1>1 DEF Inductive, CpuOrder, PendingIsExact, NeverRefused, TerminalMeansAll, Progress, Parents
<1>4. QueuedOnce'
  <2> SUFFICES ASSUME NEW n \in Nodes PROVE ready'[n] + batch'[n] = IF Due(n)' THEN 1 ELSE 0
    BY DEF QueuedOnce
  <2>1. Due(n)' <=> Due(n)
    BY <1>1 DEF Due, Parents
  <2>2. ready[n] \in Nat /\ batch[n] = 0 /\ ready'[n] = 0 /\ batch'[n] = ready[n]
    BY <1>1 DEF Inductive, TypeOK, Nothing
  <2>3. ready[n] + batch[n] = IF Due(n) THEN 1 ELSE 0
    BY DEF Inductive, QueuedOnce
  <2> QED BY <2>1, <2>2, <2>3
<1>5. RecordersOK' /\ SubmittedInOrder'
  BY <1>1 DEF Inductive, RecordersOK, SubmittedInOrder
<1> QED BY <1>2, <1>3, <1>4, <1>5 DEF Inductive

\* A walk that is through has set the terminal mark.
LEMMA ConsumeReturnsInductive ==
  ASSUME Inductive, ConsumeReturns
  PROVE  Inductive'
<1>1. /\ UNCHANGED <<plan, counters, batch, lost, recorder, submissions>> /\ walked' = walked
      /\ phase' = "consume" /\ result' = IF terminal THEN "consumed" ELSE "incomplete"
      /\ completed = Nodes
  BY DEF ConsumeReturns
<1>2. TypeOK'
  BY <1>1 DEF Inductive, TypeOK, counters
<1>3. CpuOrder' /\ PendingIsExact' /\ NeverRefused' /\ Progress'
  BY <1>1 DEF Inductive, CpuOrder, PendingIsExact, NeverRefused, Progress, counters, Parents
<1>4. TerminalMeansAll'
  <2>1. ~terminal => completed = {}
    BY <1>1 DEF Inductive, Progress, TypeOK
  <2> QED BY <2>1, <1>1 DEF Inductive, TerminalMeansAll, counters
<1>5. QueuedOnce'
  BY <1>1 DEF Inductive, QueuedOnce, Due, counters, Parents
<1>6. RecordersOK' /\ SubmittedInOrder'
  BY <1>1 DEF Inductive, RecordersOK, SubmittedInOrder, counters
<1> QED BY <1>2, <1>3, <1>4, <1>5, <1>6 DEF Inductive

\* Creation and finish move the state of a slot and leave the rest alone.
LEMMA RecorderCalls ==
  ASSUME NEW slot \in Slots
  PROVE  /\ create_own_recorder(slot) \in Slots /\ create_own_recorder(slot).state = "recording"
         /\ create_own_recorder(slot).active_pass = slot.active_pass
         /\ finish_recorder(slot) \in Slots /\ finish_recorder(slot).state = "finished"
         /\ finish_recorder(slot).active_pass = slot.active_pass
BY DEF Slots, create_own_recorder, finish_recorder

\* A recorder from its creation to the end of its group.
LEMMA OpenedRecorder ==
  /\ EmptySlot \in Slots /\ EmptySlot.state = "empty" /\ EmptySlot.active_pass = "none"
  /\ LET own == create_own_recorder(EmptySlot)
     IN  /\ own \in Slots /\ own.state = "recording" /\ own.active_pass = "none"
         /\ finish_recorder(own) \in Slots /\ finish_recorder(own).state = "finished"
         /\ finish_recorder(own).active_pass = "none"
<1>1. EmptySlot \in Slots /\ EmptySlot.state = "empty" /\ EmptySlot.active_pass = "none"
  BY DEF Slots, EmptySlot
<1> QED BY <1>1, RecorderCalls

\* The counts of the children of a node that completes.
LEMMA CompletedParent ==
  ASSUME TypeOK, PendingIsExact, NEW n \in Nodes \ completed, NEW m \in Nodes
  PROVE  /\ Cardinality(Parents(m) \ (completed \cup {n}))
              = IF n \in Parents(m) THEN pending[m] - 1 ELSE pending[m]
         /\ n \in Parents(m) => pending[m] > 0
         /\ n \in Parents(m) => (pending[m] = 1 <=> Parents(m) \subseteq completed \cup {n})
<1> DEFINE Left == Parents(m) \ completed
           Rest == Parents(m) \ (completed \cup {n})
<1>1. IsFiniteSet(Left) /\ Cardinality(Left) \in Nat /\ pending[m] = Cardinality(Left)
  BY PlanIsBuilt, FS_Subset, FS_CardinalityType DEF PendingIsExact
<1>2. Rest = Left \ {n} /\ (n \in Left <=> n \in Parents(m))
  OBVIOUS
<1>3. Rest = {} <=> Parents(m) \subseteq completed \cup {n}
  OBVIOUS
<1> HIDE DEF Left, Rest
<1>4. /\ IsFiniteSet(Rest)
      /\ Cardinality(Rest) = IF n \in Left THEN Cardinality(Left) - 1 ELSE Cardinality(Left)
  BY <1>1, <1>2, FS_RemoveElement
<1>5. Cardinality(Rest) = 0 <=> Rest = {}
  BY <1>4, FS_EmptySet
<1>6. Cardinality(Rest) \in Nat
  BY <1>4, FS_CardinalityType
<1> QED BY <1>1, <1>2, <1>3, <1>4, <1>5, <1>6 DEF Rest

\* Every node the walk takes is accepted, completes and releases exactly the
\* children it was the last parent of.
LEMMA ProcessNodeInductive ==
  ASSUME Inductive, NEW n \in Nodes, ProcessNode(n)
  PROVE  Inductive'
<1>1. /\ Due(n) /\ batch[n] = 1 /\ ready[n] = 0
      /\ n \notin started \cup completed \cup lost
      /\ recorder[n] = EmptySlot
      /\ ~BeginRefused(n) /\ ~SlotRefused(n) /\ ~CompleteRefused(n)
  BY BatchedIsDue DEF ProcessNode, Inductive, TypeOK
<1>2. /\ UNCHANGED <<plan, walked, submissions, phase, kickoff, lost, result>>
      /\ batch' = [batch EXCEPT ![n] = @ - 1]
      /\ started' = started \cup {n} /\ completed' = completed \cup {n}
      /\ recorder' = IF n \in Groups THEN [recorder EXCEPT ![n] = GroupRecorder(n)] ELSE recorder
      /\ Complete(n)
  BY <1>1 DEF ProcessNode, Complete
<1>3. \A m \in Nodes : m \in Children(n) <=> n \in Parents(m)
  BY DEF Children, Parents
<1>4. \A m \in Nodes :
        /\ pending'[m] = IF n \in Parents(m) THEN pending[m] - 1 ELSE pending[m]
        /\ ready'[m] = ready[m] + (IF n \in Parents(m) /\ pending[m] = 1 THEN 1 ELSE 0)
  BY <1>2, <1>3 DEF Complete
<1>5. \A m \in Nodes : ready[m] \in Nat /\ batch[m] \in Nat /\ pending[m] \in Nat
  BY DEF Inductive, TypeOK
<1>6. \A m \in Nodes :
         /\ Cardinality(Parents(m) \ completed') = pending'[m]
         /\ n \in Parents(m) => pending[m] > 0
         /\ n \in Parents(m) => (pending[m] = 1 <=> Parents(m) \subseteq completed')
  BY <1>1, <1>2, <1>4, CompletedParent DEF Inductive
<1>7. /\ GroupRecorder(n) \in Slots /\ GroupRecorder(n).state = "finished"
      /\ GroupRecorder(n).active_pass = "none"
  BY <1>1, OpenedRecorder DEF GroupRecorder, OwnRecorder
<1>8. TypeOK'
  <2>1. pending' \in [Nodes -> Nat]
    <3>1. ASSUME NEW m \in Nodes PROVE pending'[m] \in Nat
      <4>1. n \in Parents(m) => pending[m] > 0
        BY <1>6
      <4>2. /\ pending[m] \in Nat
            /\ pending'[m] = IF n \in Parents(m) THEN pending[m] - 1 ELSE pending[m]
        BY <1>4, <1>5
      <4> QED BY <4>1, <4>2
    <3> QED BY <3>1, <1>2 DEF Complete
  <2>2. ready' \in [Nodes -> Nat]
    <3>1. \A m \in Nodes : ready'[m] \in Nat
      BY <1>4, <1>5
    <3> QED BY <3>1, <1>2 DEF Complete
  <2>3. batch' \in [Nodes -> Nat]
    BY <1>1, <1>2, <1>5 DEF Inductive, TypeOK
  <2>4. terminal' \in BOOLEAN
    BY <1>2 DEF Inductive, TypeOK, Complete, MarksTerminal
  <2>5. recorder' \in [Nodes -> Slots]
    BY <1>2, <1>7 DEF Inductive, TypeOK
  <2> QED BY <2>1, <2>2, <2>3, <2>4, <2>5, <1>2 DEF Inductive, TypeOK
<1>9. CpuOrder' /\ NeverRefused'
  BY <1>1, <1>2 DEF Inductive, CpuOrder, NeverRefused, Due, Parents
<1>10. PendingIsExact'
  BY <1>2, <1>6 DEF PendingIsExact, Parents
<1>11. TerminalMeansAll' /\ Progress'
  <2>1. terminal' = (terminal \/ MarksTerminal(completed'))
    BY <1>2 DEF Complete
  <2>2. TerminalMeansAll'
    BY <2>1, <1>1, <1>2 DEF Inductive, TerminalMeansAll, MarksTerminal
  <2>3. kickoff /\ completed' = Nodes => terminal'
    BY <2>1 DEF MarksTerminal, TerminalNodes
  <2>4. Progress'
    BY <2>3, <1>1, <1>2 DEF Inductive, Progress, Due, Parents
  <2> QED BY <2>2, <2>4
<1>12. QueuedOnce'
  <2> SUFFICES ASSUME NEW m \in Nodes PROVE ready'[m] + batch'[m] = IF Due(m)' THEN 1 ELSE 0
    BY DEF QueuedOnce
  <2>1. ready[m] + batch[m] = IF Due(m) THEN 1 ELSE 0
    BY DEF Inductive, QueuedOnce
  <2>2. Due(m)' <=> kickoff /\ Parents(m) \subseteq completed' /\ m \notin started \cup {n} \cup lost
    BY <1>2 DEF Due, Parents
  <2>3. batch'[m] = IF m = n THEN batch[m] - 1 ELSE batch[m]
    BY <1>2 DEF Inductive, TypeOK
  <2>4. CASE m = n
    <3>1. n \notin Parents(n)
      BY <1>1 DEF Due
    <3> QED BY <2>2, <2>3, <2>4, <3>1, <1>1, <1>4
  <2>5. CASE m # n /\ n \in Parents(m)
    <3>1. ~Due(m) /\ m \notin started /\ m \notin lost
      BY <2>5, <1>1 DEF Due, Inductive, CpuOrder, Progress
    <3>2. Due(m)' <=> pending[m] = 1
      BY <2>2, <2>5, <3>1, <1>1, <1>6 DEF Due
    <3> QED BY <2>1, <2>3, <2>5, <3>1, <3>2, <1>4, <1>5
  <2>6. CASE m # n /\ n \notin Parents(m)
    <3>1. Due(m)' <=> Due(m)
      BY <2>2, <2>6, <1>2 DEF Due
    <3> QED BY <2>1, <2>3, <2>6, <3>1, <1>4, <1>5
  <2> QED BY <2>4, <2>5, <2>6
<1>13. RecordersOK' /\ SubmittedInOrder'
  <2>1. \A m \in Nodes \ {n} : recorder'[m] = recorder[m]
    BY <1>2 DEF Inductive, TypeOK
  <2>2. recorder'[n] = IF n \in Groups THEN GroupRecorder(n) ELSE EmptySlot
    BY <1>1, <1>2 DEF Inductive, TypeOK
  <2>3. RecordersOK'
    BY <2>1, <2>2, <1>2, <1>7 DEF Inductive, RecordersOK, EmptySlot
  <2> QED BY <2>3, <1>2 DEF Inductive, SubmittedInOrder
<1> QED BY <1>8, <1>9, <1>10, <1>11, <1>12, <1>13 DEF Inductive

\* A failing node takes the rest of the batch with it.
LEMMA NodeFailsInductive ==
  ASSUME Inductive, NEW n \in Nodes, NEW left \in BOOLEAN, NodeFails(n, left)
  PROVE  Inductive'
<1>1. /\ Due(n) /\ n \notin started \cup completed \cup lost /\ recorder[n] = EmptySlot
  BY BatchedIsDue DEF NodeFails, Inductive, TypeOK
<1>2. /\ UNCHANGED <<plan, walked, kickoff, pending, completed, ready, terminal, submissions>>
      /\ phase' = "consume" /\ result' = "error" /\ batch' = Nothing
      /\ started' = started \cup {n} /\ batch[n] > 0
      /\ lost' = lost \cup {n} \cup {m \in Nodes : batch[m] > 0}
      /\ recorder' = IF n \in Groups
                     THEN [recorder EXCEPT ![n] = IF left THEN OwnRecorder(n) ELSE GroupRecorder(n)]
                     ELSE recorder
  BY DEF NodeFails, GiveUp
<1> DEFINE slot == IF left THEN OwnRecorder(n) ELSE GroupRecorder(n)
<1>3. slot \in Slots /\ slot.active_pass = "none"
  BY <1>1, OpenedRecorder DEF GroupRecorder, OwnRecorder
<1> HIDE DEF slot
<1>4. TypeOK'
  <2>1. recorder' \in [Nodes -> Slots]
    BY <1>2, <1>3 DEF Inductive, TypeOK, slot
  <2>2. batch' \in [Nodes -> Nat]
    BY <1>2 DEF Nothing
  <2> QED BY <2>1, <2>2, <1>2 DEF Inductive, TypeOK
<1>5. CpuOrder' /\ PendingIsExact' /\ NeverRefused' /\ TerminalMeansAll'
  BY <1>1, <1>2
     DEF Inductive, CpuOrder, PendingIsExact, NeverRefused, TerminalMeansAll, Due, Parents
<1>6. Progress'
  <2>1. \A m \in Nodes : batch[m] > 0 => Parents(m) \subseteq completed
    BY BatchedIsDue DEF Due
  <2>2. \A m \in lost' : Parents(m) \subseteq completed
    BY <2>1, <1>1, <1>2 DEF Due, Inductive, Progress
  <2>3. kickoff
    BY <1>1 DEF Due
  <2> QED BY <2>2, <2>3, <1>2 DEF Inductive, Progress, Parents
<1>7. QueuedOnce'
  <2> SUFFICES ASSUME NEW m \in Nodes PROVE ready'[m] + batch'[m] = IF Due(m)' THEN 1 ELSE 0
    BY DEF QueuedOnce
  <2>1. ready[m] + batch[m] = IF Due(m) THEN 1 ELSE 0
    BY DEF Inductive, QueuedOnce
  <2>2. ready[m] \in Nat /\ batch[m] \in Nat /\ ready'[m] = ready[m] /\ batch'[m] = 0
    BY <1>2 DEF Inductive, TypeOK, Nothing
  <2>3. CASE batch[m] > 0
    <3>1. ready[m] = 0
      BY <2>3, BatchedIsDue
    <3>2. ~Due(m)'
      BY <2>3, <1>2 DEF Due
    <3> QED BY <2>2, <3>1, <3>2
  <2>4. CASE batch[m] = 0
    <3>1. m # n
      BY <2>4, <1>2
    <3>2. Due(m)' <=> Due(m)
      BY <2>4, <3>1, <1>2 DEF Due, Parents
    <3> QED BY <2>1, <2>2, <2>4, <3>2
  <2> QED BY <2>2, <2>3, <2>4
<1>8. RecordersOK' /\ SubmittedInOrder'
  <2>1. \A m \in Nodes \ {n} : recorder'[m] = recorder[m]
    BY <1>2 DEF Inductive, TypeOK
  <2>2. recorder'[n].active_pass = "none"
    BY <1>1, <1>2, <1>3, OpenedRecorder DEF Inductive, TypeOK, slot
  <2>3. RecordersOK'
    BY <2>1, <2>2, <1>1, <1>2 DEF Inductive, RecordersOK
  <2> QED BY <2>3, <1>2 DEF Inductive, SubmittedInOrder
<1> QED BY <1>4, <1>5, <1>6, <1>7, <1>8 DEF Inductive

\* A slot the caller may still record into is one a failing node left open.
LEMMA RecordedIsOpen ==
  ASSUME NEW slot \in Slots, NEW s \in Recorded(slot),
         slot.state \in {"empty", "finished", "submitted"} => slot.active_pass = "none"
  PROVE  /\ s \in Slots /\ slot.state = "recording"
         /\ s.state \in {"recording", "finished"}
         /\ s.state = "finished" => s.active_pass = "none"
<1>1. slot.state = "recording"
  BY DEF Recorded, CanBegin, CanEnd, CanFinish, require_recorder, Slots
<1>2. CASE \E p \in {"Render", "Compute"} : s = begin_pass(slot, p)
  BY <1>1, <1>2 DEF begin_pass, Slots
<1>3. CASE s = end_pass(slot)
  BY <1>1, <1>3 DEF end_pass, Slots
<1>4. CASE s = set_viewport(slot)
  BY <1>1, <1>4 DEF set_viewport, Slots
<1>5. CASE CanFinish(slot) /\ s = finish_recorder(slot)
  BY <1>1, <1>5, RecorderCalls DEF CanFinish
<1>6. \/ \E p \in {"Render", "Compute"} : s = begin_pass(slot, p)
      \/ s = end_pass(slot) \/ s = set_viewport(slot)
      \/ CanFinish(slot) /\ s = finish_recorder(slot)
  BY DEF Recorded
<1> QED BY <1>1, <1>2, <1>3, <1>4, <1>5, <1>6

LEMMA CallerRecordsInductive ==
  ASSUME Inductive, CallerRecords
  PROVE  Inductive'
<1>1. UNCHANGED <<plan, phase, walked, counters, batch, lost, submissions, result>>
  BY DEF CallerRecords
<1>2. PICK n \in Nodes : \E s \in Recorded(recorder[n]) : recorder' = [recorder EXCEPT ![n] = s]
  BY DEF CallerRecords
<1>3. PICK s \in Recorded(recorder[n]) : recorder' = [recorder EXCEPT ![n] = s]
  BY <1>2
<1>4. /\ s \in Slots /\ recorder[n].state = "recording"
      /\ s.state \in {"recording", "finished"}
      /\ s.state = "finished" => s.active_pass = "none"
  BY RecordedIsOpen DEF Inductive, TypeOK, RecordersOK
<1>5. recorder' \in [Nodes -> Slots] /\ recorder'[n] = s /\ \A m \in Nodes \ {n} : recorder'[m] = recorder[m]
  BY <1>3, <1>4 DEF Inductive, TypeOK
<1>6. TypeOK'
  BY <1>1, <1>5 DEF Inductive, TypeOK, counters
<1>7. CpuOrder' /\ PendingIsExact' /\ NeverRefused' /\ TerminalMeansAll' /\ QueuedOnce' /\ Progress'
  BY <1>1 DEF Inductive, CpuOrder, PendingIsExact, NeverRefused, TerminalMeansAll, QueuedOnce,
              Progress, Due, counters, Parents
<1>8. RecordersOK'
  <2>1. n \in started /\ n \notin completed \cap Groups
    <3>1. recorder[n] # EmptySlot
      BY <1>4 DEF EmptySlot
    <3> QED BY <3>1, <1>4 DEF Inductive, RecordersOK
  <2>2. started' = started /\ completed' = completed
    BY <1>1 DEF counters
  <2>3. RecordersOK
    BY DEF Inductive
  <2>4. \A m \in Nodes \ started : recorder'[m] = EmptySlot
    BY <2>1, <2>3, <1>5 DEF RecordersOK
  <2>5. \A m \in Nodes : recorder'[m].state \in {"empty", "finished", "submitted"}
                          => recorder'[m].active_pass = "none"
    BY <2>3, <1>4, <1>5 DEF RecordersOK
  <2>6. \A m \in completed \cap Groups : recorder'[m].state \in {"finished", "submitted"}
    BY <2>1, <2>3, <1>5, NodesAssumption DEF RecordersOK
  <2> QED BY <2>2, <2>4, <2>5, <2>6 DEF RecordersOK
<1>9. SubmittedInOrder'
  BY <1>1 DEF Inductive, SubmittedInOrder
<1> QED BY <1>6, <1>7, <1>8, <1>9 DEF Inductive

LEMMA SubmitFinishedInductive ==
  ASSUME Inductive, SubmitFinished
  PROVE  Inductive'
<1>1. UNCHANGED <<plan, phase, walked, counters, batch, lost>>
      /\ result' \in {"error", "submitted"}
  BY DEF SubmitFinished
<1>2. submissions' \in Seq(Nodes) /\ SubmittedInOrder'
  <2>1. submissions' = Submittable(recorder, plan.order) /\ plan' = plan
    BY DEF SubmitFinished
  <2> QED BY <2>1, SubmittableInOrder DEF Inductive, SubmittedInOrder
<1>3. /\ recorder' \in [Nodes -> Slots]
      /\ \A n \in Nodes :
           \/ recorder'[n] = recorder[n]
           \/ /\ recorder[n].state = "finished" /\ recorder'[n].state = "submitted"
              /\ recorder'[n].active_pass = recorder[n].active_pass
  <2> DEFINE places == FinishedPlaces(recorder, plan.order)
             sent(n) == \E i \in places : plan.order[i] = n
  <2>1. recorder' = [n \in Nodes |-> IF sent(n) THEN [recorder[n] EXCEPT !.state = "submitted"]
                                               ELSE recorder[n]]
    BY DEF SubmitFinished, Submitted, Inductive, TypeOK
  <2>2. \A n : sent(n) => recorder[n].state = "finished"
    BY DEF FinishedPlaces
  <2> HIDE DEF sent
  <2>3. ASSUME NEW slot \in Slots
        PROVE  LET s == [slot EXCEPT !.state = "submitted"]
               IN  s \in Slots /\ s.state = "submitted" /\ s.active_pass = slot.active_pass
    BY DEF Slots
  <2>4. \A n \in Nodes : recorder[n] \in Slots
    BY DEF Inductive, TypeOK
  <2> QED BY <2>1, <2>2, <2>3, <2>4
<1>4. TypeOK'
  BY <1>1, <1>2, <1>3 DEF Inductive, TypeOK, counters
<1>5. CpuOrder' /\ PendingIsExact' /\ NeverRefused' /\ TerminalMeansAll' /\ QueuedOnce' /\ Progress'
  BY <1>1 DEF Inductive, CpuOrder, PendingIsExact, NeverRefused, TerminalMeansAll, QueuedOnce,
              Progress, Due, counters, Parents
<1>6. RecordersOK'
  <2>1. started' = started /\ completed' = completed
    BY <1>1 DEF counters
  <2>2. \A n \in Nodes : recorder[n] = EmptySlot => recorder'[n] = EmptySlot
    BY <1>3 DEF EmptySlot
  <2> QED BY <2>1, <2>2, <1>3, NodesAssumption DEF Inductive, RecordersOK
<1> QED BY <1>2, <1>4, <1>5, <1>6 DEF Inductive

LEMMA NextFrameInductive ==
  ASSUME Inductive, NextFrame
  PROVE  Inductive'
<1>1. plan \in Plans /\ plan' = plan
  BY DEF NextFrame, Inductive, TypeOK
<1>2. \A n \in Nodes : Cardinality(Parents(n)) \in Nat
  BY PlanIsBuilt, FS_CardinalityType DEF Inductive
<1>3. /\ phase' = "preconsume" /\ walked' = 0 /\ kickoff' = FALSE /\ terminal' = FALSE
      /\ started' = {} /\ completed' = {} /\ lost' = {} /\ result' = "none"
      /\ submissions' = <<>> /\ ready' = Nothing /\ batch' = Nothing
      /\ pending' = [n \in Nodes |-> Cardinality(Parents(n))] /\ recorder' = prepare(Nodes)
  BY DEF NextFrame
<1>4. TypeOK'
  <2>1. recorder' \in [Nodes -> Slots]
    BY <1>3 DEF prepare, Slots, EmptySlot
  <2>2. {pending', ready', batch'} \subseteq [Nodes -> Nat]
    BY <1>2, <1>3 DEF Nothing
  <2>3. submissions' \in Seq(Nodes)
    BY <1>3
  <2> QED BY <1>1, <1>3, <2>1, <2>2, <2>3 DEF TypeOK
<1>5. CpuOrder' /\ NeverRefused' /\ TerminalMeansAll' /\ Progress' /\ SubmittedInOrder'
  BY <1>3 DEF CpuOrder, NeverRefused, TerminalMeansAll, Progress, SubmittedInOrder
<1>6. PendingIsExact'
  <2>1. \A n \in Nodes : Parents(n)' \ completed' = Parents(n)
    BY <1>1, <1>3 DEF Parents
  <2> QED BY <2>1, <1>3 DEF PendingIsExact
<1>7. QueuedOnce'
  BY <1>3 DEF QueuedOnce, Nothing, Due
<1>8. RecordersOK'
  BY <1>3 DEF RecordersOK, prepare, EmptySlot
<1> QED BY <1>4, <1>5, <1>6, <1>7, <1>8 DEF Inductive

----------------------------------------------------------------------------
(* The theorems *)

LEMMA NextInductive == Inductive /\ [Next]_vars => Inductive'
<1> SUFFICES ASSUME Inductive, [Next]_vars PROVE Inductive'
  OBVIOUS
<1>1. CASE \/ WalkNode \/ WalkFails \/ Resolve \/ BeginConsume \/ Stall \/ UNCHANGED vars
  BY <1>1, MovesInductive
<1>2. CASE ReleaseKickoff
  BY <1>2, ReleaseKickoffInductive
<1>3. CASE TakeReadyBatch
  BY <1>3, TakeReadyBatchInductive
<1>4. CASE ConsumeReturns
  BY <1>4, ConsumeReturnsInductive
<1>5. ASSUME NEW n \in Nodes, ProcessNode(n) PROVE Inductive'
  BY <1>5, ProcessNodeInductive
<1>6. ASSUME NEW n \in Nodes, NEW left \in BOOLEAN, NodeFails(n, left) PROVE Inductive'
  BY <1>6, NodeFailsInductive
<1>7. CASE CallerRecords
  BY <1>7, CallerRecordsInductive
<1>8. CASE SubmitFinished
  BY <1>8, SubmitFinishedInductive
<1>9. CASE NextFrame
  BY <1>9, NextFrameInductive
<1> QED BY <1>1, <1>2, <1>3, <1>4, <1>5, <1>6, <1>7, <1>8, <1>9 DEF Next, Walk

\* The inductive invariant holds in every reachable state of the walk.
THEOREM AlwaysInductive == Spec => []Inductive
<1>1. Init => Inductive
  BY InitInductive
<1>2. Inductive /\ [Next]_vars => Inductive'
  BY NextInductive
<1> QED BY <1>1, <1>2, PTL DEF Spec

\* An acyclic graph never runs dry: among the nodes that have not completed, one
\* of the lowest rank has only completed parents and is queued.
LEMMA NeverDry == Inductive => StallsOnlyAfterLoss
<1> SUFFICES ASSUME Inductive, kickoff, lost = {}, completed # Nodes,
                    batch = Nothing, ready = Nothing
             PROVE  FALSE
  BY DEF StallsOnlyAfterLoss, BatchDone
<1>1. plan \in Plans /\ completed \subseteq Nodes /\ started \subseteq completed
  BY DEF Inductive, TypeOK, Progress
<1>2. PICK rank \in [Nodes -> 0 .. Cardinality(Nodes)] :
        \A n \in Nodes : \A m \in Parents(n) : rank[m] < rank[n]
  BY <1>1, PlansAssumption DEF Parents
<1>3. \A n \in Nodes : rank[n] \in Nat
  BY <1>2
<1> DEFINE Waiting == Nodes \ completed
<1>4. PICK n \in Waiting : \A m \in Waiting : rank[n] <= rank[m]
  <2> DEFINE Ranks == {rank[n] : n \in Waiting}
  <2>1. Ranks \subseteq Nat /\ Ranks # {}
    BY <1>1, <1>3
  <2> HIDE DEF Ranks
  <2>2. PICK r \in Ranks : \A q \in Ranks : r <= q
    BY <2>1, LeastExists
  <2> QED BY <2>2 DEF Ranks
<1>5. Parents(n) \subseteq completed
  <2>1. SUFFICES ASSUME NEW m \in Parents(n), m \notin completed PROVE FALSE
    OBVIOUS
  <2>2. m \in Waiting /\ n \in Nodes
    BY <2>1, <1>4, PlanIsBuilt DEF Inductive
  <2>3. rank[n] <= rank[m] /\ rank[m] < rank[n]
    BY <2>1, <2>2, <1>2, <1>4
  <2> QED BY <2>2, <2>3, <1>3
<1>6. Due(n)
  BY <1>1, <1>4, <1>5 DEF Due
<1>7. ready[n] = 0 /\ batch[n] = 0
  BY <1>4 DEF Nothing
<1> QED BY <1>4, <1>6, <1>7 DEF Inductive, QueuedOnce

\* Every walk keeps its books: nodes run after their parents, no queue, count or
\* slot makes the walk refuse a node, the terminal mark means that all completed,
\* and the walk runs dry only before the kickoff or after an error lost a node.
THEOREM WalksAreSound == Spec => []WalkIsSound
<1>1. Inductive => WalkIsSound
  BY NeverDry DEF Inductive, WalkIsSound
<1> QED BY <1>1, AlwaysInductive, PTL

\* What is submitted is in GPU order, without repetition and outside a pass, and
\* a complete walk left no group unrecorded.
THEOREM SubmissionsAreOrdered == Spec => []SubmissionOrder
<1>1. ASSUME Inductive PROVE SubmissionOrder
  <2>1. \A n \in Nodes :
          recorder[n].state \in {"finished", "submitted"} => recorder[n].active_pass = "none"
    BY <1>1 DEF Inductive, RecordersOK
  <2>2. completed = Nodes =>
          \A n \in Groups : recorder[n].state = "submitted" \/ has_command_recorder(recorder[n])
    BY <1>1, NodesAssumption DEF Inductive, RecordersOK, has_command_recorder
  <2> QED BY <1>1, <2>1, <2>2 DEF Inductive, SubmittedInOrder, SubmissionOrder
<1> QED BY <1>1, AlwaysInductive, PTL

-----------------------------------------------------------------------------
(* Graphs: what is reached along edges *)

\* The pairs of a relation, and those it makes by way of n.
By(r, n) == r \cup ({e[1] : e \in {d \in r : d[2] = n}} \X {e[2] : e \in {d \in r : d[1] = n}})

LEMMA EndsOfPairs ==
  ASSUME NEW P, NEW R \in SUBSET (P \X P), NEW n
  PROVE  /\ \A x : x \in {e[1] : e \in {d \in R : d[2] = n}} <=> <<x, n>> \in R
         /\ \A y : y \in {e[2] : e \in {d \in R : d[1] = n}} <=> <<n, y>> \in R
<1>1. \A q \in R : q = <<q[1], q[2]>>
  OBVIOUS
<1>2. ASSUME NEW x, <<x, n>> \in R PROVE x \in {e[1] : e \in {d \in R : d[2] = n}}
  <2>1. <<x, n>>[1] = x /\ <<x, n>>[2] = n
    OBVIOUS
  <2> QED BY <1>2, <2>1, Zenon
<1>3. ASSUME NEW y, <<n, y>> \in R PROVE y \in {e[2] : e \in {d \in R : d[1] = n}}
  <2>1. <<n, y>>[1] = n /\ <<n, y>>[2] = y
    OBVIOUS
  <2> QED BY <1>3, <2>1, Zenon
<1> QED BY <1>1, <1>2, <1>3

LEMMA ByPairs ==
  ASSUME NEW P, NEW R \in SUBSET (P \X P), NEW n \in P
  PROVE  /\ By(R, n) \in SUBSET (P \X P)
         /\ R \subseteq By(R, n)
         /\ \A x, y : <<x, y>> \in By(R, n) <=>
              <<x, y>> \in R \/ (<<x, n>> \in R /\ <<n, y>> \in R)
<1> DEFINE from == {e[1] : e \in {d \in R : d[2] = n}}
           to == {e[2] : e \in {d \in R : d[1] = n}}
<1>1. \A x : x \in from <=> <<x, n>> \in R
  BY EndsOfPairs
<1>2. \A y : y \in to <=> <<n, y>> \in R
  BY EndsOfPairs
<1>3. By(R, n) = R \cup (from \X to)
  BY DEF By
<1> HIDE DEF from, to
<1>4. from \subseteq P /\ to \subseteq P
  <2>1. ASSUME NEW x \in from PROVE x \in P
    <3>1. <<x, n>> \in P \X P
      BY <1>1, <2>1
    <3> QED BY <3>1
  <2>2. ASSUME NEW y \in to PROVE y \in P
    <3>1. <<n, y>> \in P \X P
      BY <1>2, <2>2
    <3> QED BY <3>1
  <2> QED BY <2>1, <2>2
<1> QED BY <1>1, <1>2, <1>3, <1>4

\* The reach takes in the nodes one after the other.
ReachRun(P, nodes, edges, F) ==
  /\ F \in [0 .. Len(nodes) -> SUBSET (P \X P)] /\ F[0] = edges /\ F[Len(nodes)] = Reach(edges, nodes)
  /\ \A k \in 1 .. Len(nodes) : F[k] = By(F[k - 1], nodes[k])

LEMMA ReachRunExist ==
  ASSUME NEW P, NEW nodes \in Seq(P), NEW edges \in SUBSET (P \X P)
  PROVE  \E F : ReachRun(P, nodes, edges, F)
<1> DEFINE n == Len(nodes)
           W == SUBSET (P \X P)
           more(v, x) == By(v, x)
           h == [k \in 1 .. n |-> [v \in W |-> more(v, nodes[k])]]
           It == CHOOSE it : it = [r \in SUBSET (1 .. n) |->
                   IF r = {} THEN edges ELSE more(it[r \ {Max(r)}], nodes[Max(r)])]
<1>1. n \in Nat /\ DOMAIN nodes = 1 .. n
  OBVIOUS
<1>2. edges \in W /\ \A k \in 1 .. n : \A v \in W : more(v, nodes[k]) \in W
  <2> HIDE DEF n
  <2>1. \A k \in 1 .. n : nodes[k] \in P
    BY <1>1
  <2> QED BY <2>1, ByPairs
<1>3. \A k \in 1 .. n : \A v \in W : By(v, nodes[k]) = more(v, nodes[k])
  OBVIOUS
<1> HIDE DEF n, W, more
<1>4. h \in [1 .. n -> [W -> W]]
  BY <1>2
<1>5. \A k \in 1 .. n : \A v \in W : h[k][v] = more(v, nodes[k])
  OBVIOUS
<1> HIDE DEF h
<1>6. PICK m : FoldEquation(W, edges, h, n, m)
  BY <1>1, <1>2, <1>4, FoldExists
<1>7. m = [r \in SUBSET (1 .. n) |->
             IF r = {} THEN edges ELSE more(m[r \ {Max(r)}], nodes[Max(r)])]
  <2>1. ASSUME NEW r \in SUBSET (1 .. n), r # {}
        PROVE  m[r] = more(m[r \ {Max(r)}], nodes[Max(r)])
    <3>1. Max(r) \in 1 .. n
      BY <1>1, <2>1, MaxFacts
    <3>2. m[r \ {Max(r)}] \in W /\ m[r] = h[Max(r)][m[r \ {Max(r)}]]
      BY <1>6, <2>1 DEF FoldEquation
    <3> QED BY <1>5, <3>1, <3>2
  <2>2. m = [r \in SUBSET (1 .. n) |-> m[r]] /\ m[{}] = edges
    BY <1>6 DEF FoldEquation
  <2> QED BY <2>1, <2>2
<1>8. It = [r \in SUBSET (1 .. n) |->
              IF r = {} THEN edges ELSE more(It[r \ {Max(r)}], nodes[Max(r)])]
  BY <1>7, Zenon
<1>9. Reach(edges, nodes) = It[1 .. n]
  BY <1>1, Zenon DEF Reach, By, FoldLeft, MapThenFoldSet, more
<1> HIDE DEF It
<1>10. It[{}] = edges /\ \A k \in 1 .. n : It[1 .. k] = more(It[1 .. k-1], nodes[k])
  <2>1. \A k \in 1 .. n : k \in 1 .. k
    BY <1>1
  <2>2. {} \in SUBSET (1 .. n)
    OBVIOUS
  <2>3. \A k \in 1 .. n : 1 .. k \in SUBSET (1 .. n) /\ Max(1 .. k) = k /\ (1 .. k) \ {k} = 1 .. k-1
    BY <1>1, PrefixSets
  <2> QED BY <1>8, <2>1, <2>2, <2>3
<1> DEFINE F == [k \in 0 .. n |-> It[1 .. k]]
<1>11. F[0] = edges /\ \A k \in 1 .. n : F[k] = more(F[k - 1], nodes[k])
  <2>1. 1 .. 0 = {} /\ 0 \in 0 .. n /\ \A k \in 1 .. n : k \in 0 .. n /\ k - 1 \in 0 .. n
    BY <1>1
  <2> HIDE DEF more
  <2> QED BY <1>10, <2>1
<1>12. F \in [0 .. n -> W] /\ F[n] = It[1 .. n]
  <2> DEFINE WW == [k \in 0 .. n |-> W]
  <2>1. KeepsWithin(It, WW, n)
    <3>1. 0 \in 0 .. n /\ \A k \in 1 .. n : k \in 0 .. n /\ k - 1 \in 0 .. n
      BY <1>1
    <3> QED BY <1>2, <1>10, <3>1 DEF KeepsWithin
  <2> HIDE DEF WW
  <2>2. ASSUME NEW j \in 0 .. n PROVE It[1 .. j] \in W
    <3>1. j \in Nat /\ \A k \in 1 .. j : k \in 1 .. n
      BY <1>1
    <3>2. KeepsWithin(It, WW, j)
      BY <2>1, <3>1 DEF KeepsWithin
    <3>3. It[1 .. j] \in WW[j]
      BY <3>1, <3>2, FoldWithin
    <3> QED BY <3>3 DEF WW
  <2>3. n \in 0 .. n
    BY <1>1
  <2> QED BY <2>2, <2>3
<1> HIDE DEF F
<1>13. F \in [0 .. n -> W] /\ F[0] = edges /\ F[n] = Reach(edges, nodes) /\ \A k \in 1 .. n : F[k] = more(F[k - 1], nodes[k])
  BY <1>9, <1>11, <1>12
<1> HIDE DEF h
<1> QED BY <1>13 DEF n, W, more, ReachRun

Transitive(R) == \A x, y, z : <<x, y>> \in R /\ <<y, z>> \in R => <<x, z>> \in R

\* It is the least transitive relation with the edges, when the nodes are all
\* there are.
LEMMA ReachIsLeast ==
  ASSUME NEW P, NEW nodes \in Seq(P), NEW edges \in SUBSET (P \X P),
         \A x, y \in P : <<x, y>> \in edges => {x, y} \subseteq ToSet(nodes)
  PROVE  /\ edges \subseteq Reach(edges, nodes)
         /\ Reach(edges, nodes) \in SUBSET (P \X P)
         /\ Transitive(Reach(edges, nodes))
         /\ \A T : edges \subseteq T /\ Transitive(T) => Reach(edges, nodes) \subseteq T
<1> DEFINE n == Len(nodes)
<1>0. PICK F : ReachRun(P, nodes, edges, F)
  BY ReachRunExist
<1>1. /\ F \in [0 .. n -> SUBSET (P \X P)] /\ F[0] = edges /\ F[n] = Reach(edges, nodes)
      /\ \A k \in 1 .. n : F[k] = By(F[k - 1], nodes[k])
  BY <1>0 DEF ReachRun
<1>2. n \in Nat /\ DOMAIN nodes = 1 .. n /\ n \in 0 .. n
  OBVIOUS
<1>3. \A k \in 1 .. n : k \in 0 .. n /\ k - 1 \in 0 .. n /\ k - 1 \in Nat /\ (k - 1) + 1 = k
  BY <1>2
<1> HIDE DEF n
<1>4. ASSUME NEW k \in 1 .. n
      PROVE  /\ F[k - 1] \subseteq F[k]
             /\ \A x, y : <<x, y>> \in F[k] <=>
                  \/ <<x, y>> \in F[k - 1]
                  \/ <<x, nodes[k]>> \in F[k - 1] /\ <<nodes[k], y>> \in F[k - 1]
  <2>1. F[k - 1] \in SUBSET (P \X P) /\ nodes[k] \in P /\ F[k] = By(F[k - 1], nodes[k])
    BY <1>1, <1>2, <1>3
  <2>2. \A R \in SUBSET (P \X P), m \in P :
          /\ R \subseteq By(R, m)
          /\ \A x, y : <<x, y>> \in By(R, m) <=>
               <<x, y>> \in R \/ (<<x, m>> \in R /\ <<m, y>> \in R)
    BY ByPairs
  <2> HIDE DEF By
  <2> QED BY <2>1, <2>2
<1> DEFINE Through(k) == \A x, y, z : /\ \E i \in 1 .. k : y = nodes[i]
                                      /\ <<x, y>> \in F[k] /\ <<y, z>> \in F[k]
                                      => <<x, z>> \in F[k]
           D == {k \in Nat : k <= n => edges \subseteq F[k] /\ Through(k)}
<1>5. 0 \in D
  <2>1. 1 .. 0 = {}
    OBVIOUS
  <2> QED BY <1>1, <2>1
<1>6. ASSUME NEW k \in D PROVE k + 1 \in D
  <2>1. SUFFICES ASSUME k + 1 <= n PROVE edges \subseteq F[k + 1] /\ Through(k + 1)
    BY <1>6
  <2>2. /\ k + 1 \in 1 .. n /\ (k + 1) - 1 = k /\ k \in Nat
        /\ edges \subseteq F[k] /\ Through(k)
    BY <1>2, <1>6, <2>1
  <2>3. /\ F[k] \subseteq F[k + 1]
        /\ \A x, y : <<x, y>> \in F[k + 1] <=>
             \/ <<x, y>> \in F[k]
             \/ <<x, nodes[k + 1]>> \in F[k] /\ <<nodes[k + 1], y>> \in F[k]
    <3>1. F[(k + 1) - 1] \subseteq F[k + 1]
      BY <1>4, <2>2
    <3>2. \A x, y : <<x, y>> \in F[k + 1] <=>
             \/ <<x, y>> \in F[(k + 1) - 1]
             \/ <<x, nodes[k + 1]>> \in F[(k + 1) - 1] /\ <<nodes[k + 1], y>> \in F[(k + 1) - 1]
      BY <1>4, <2>2
    <3> QED BY <2>2, <3>1, <3>2
  <2>4. SUFFICES ASSUME NEW x, NEW y, NEW z, NEW i \in 1 .. k + 1, y = nodes[i],
                        <<x, y>> \in F[k + 1], <<y, z>> \in F[k + 1]
                 PROVE  <<x, z>> \in F[k + 1]
    BY <2>2, <2>3
  <2>5. CASE i = k + 1
    BY <2>3, <2>4, <2>5
  <2>6. CASE i # k + 1
    <3>1. i \in 1 .. k
      BY <2>2, <2>6
    <3>2. \A u, v : <<u, y>> \in F[k] /\ <<y, v>> \in F[k] => <<u, v>> \in F[k]
      BY <2>2, <2>4, <3>1
    <3> QED BY <2>3, <2>4, <3>2
  <2> QED BY <2>5, <2>6
<1> HIDE DEF D
<1>7. D = Nat
  <2>1. D \subseteq Nat
    BY DEF D
  <2> QED BY <1>5, <1>6, <2>1, Reached
<1>8. edges \subseteq F[n] /\ Through(n)
  BY <1>2, <1>7 DEF D
<1> DEFINE Span == {q \in P \X P : q[1] \in ToSet(nodes) /\ q[2] \in ToSet(nodes)}
<1>9. edges \subseteq Span /\ Transitive(Span)
  <2>1. edges \subseteq Span
    <3>1. SUFFICES ASSUME NEW q \in edges PROVE q \in Span
      OBVIOUS
    <3>2. PICK x \in P, y \in P : q = <<x, y>>
      BY <3>1
    <3> QED BY <3>1, <3>2
  <2>2. Transitive(Span)
    BY DEF Transitive
  <2> QED BY <2>1, <2>2
<1>10. ASSUME NEW T, edges \subseteq T, Transitive(T) PROVE F[n] \subseteq T
  <2> DEFINE E == {k \in Nat : k <= n => F[k] \subseteq T}
  <2>1. 0 \in E
    BY <1>1, <1>10
  <2>2. ASSUME NEW k \in E PROVE k + 1 \in E
    <3>1. SUFFICES ASSUME k + 1 <= n, NEW q \in F[k + 1] PROVE q \in T
      BY <2>2
    <3>2. k + 1 \in 1 .. n /\ (k + 1) - 1 = k /\ F[k] \subseteq T /\ k + 1 \in 0 .. n
      BY <1>2, <2>2, <3>1
    <3>3. PICK x \in P, y \in P : q = <<x, y>>
      <4>1. F[k + 1] \in SUBSET (P \X P)
        BY <1>1, <3>2
      <4> QED BY <3>1, <4>1
    <3>4. \/ <<x, y>> \in F[(k + 1) - 1]
          \/ <<x, nodes[k + 1]>> \in F[(k + 1) - 1] /\ <<nodes[k + 1], y>> \in F[(k + 1) - 1]
      BY <1>4, <3>1, <3>2, <3>3
    <3> QED BY <1>10, <3>2, <3>3, <3>4 DEF Transitive
  <2> HIDE DEF E
  <2>3. E \subseteq Nat
    BY DEF E
  <2>4. E = Nat
    BY <2>1, <2>2, <2>3, Reached
  <2> QED BY <1>2, <2>4 DEF E
<1>11. Transitive(F[n])
  <2>1. SUFFICES ASSUME NEW x, NEW y, NEW z, <<x, y>> \in F[n], <<y, z>> \in F[n]
                 PROVE  <<x, z>> \in F[n]
    BY DEF Transitive
  <2>2. F[n] \subseteq Span
    BY <1>9, <1>10
  <2>3. y \in ToSet(nodes)
    BY <2>1, <2>2
  <2>4. \E i \in 1 .. n : y = nodes[i]
    BY <1>2, <2>3 DEF ToSet
  <2> QED BY <1>8, <2>1, <2>4
<1> QED BY <1>1, <1>2, <1>8, <1>10, <1>11

-----------------------------------------------------------------------------
(* Graphs: sequences of nodes *)

Taken(those, set, n) == IF n \in set THEN Append(those, n) ELSE those

\* A node after the other is taken or left out.
ThoseRun(P, nodes, set, F) ==
  /\ F \in [0 .. Len(nodes) -> Seq(P)] /\ F[0] = <<>> /\ F[Len(nodes)] = Those(nodes, set)
  /\ \A k \in 1 .. Len(nodes) : F[k] = Taken(F[k - 1], set, nodes[k])

LEMMA ThoseRunExist ==
  ASSUME NEW P, NEW nodes \in Seq(P), NEW set
  PROVE  \E F : ThoseRun(P, nodes, set, F)
<1> DEFINE n == Len(nodes)
           W == Seq(P)
           more(v, x) == Taken(v, set, x)
           h == [k \in 1 .. n |-> [v \in W |-> more(v, nodes[k])]]
           It == CHOOSE it : it = [r \in SUBSET (1 .. n) |->
                   IF r = {} THEN <<>> ELSE more(it[r \ {Max(r)}], nodes[Max(r)])]
<1>1. n \in Nat /\ DOMAIN nodes = 1 .. n
  OBVIOUS
<1>2. <<>> \in W /\ \A k \in 1 .. n : \A v \in W : more(v, nodes[k]) \in W
  <2> HIDE DEF n
  <2>1. \A k \in 1 .. n : nodes[k] \in P
    BY <1>1
  <2> QED BY <2>1 DEF Taken
<1>3. \A k \in 1 .. n : \A v \in W : Taken(v, set, nodes[k]) = more(v, nodes[k])
  OBVIOUS
<1> HIDE DEF n, W, more
<1>4. h \in [1 .. n -> [W -> W]]
  BY <1>2
<1>5. \A k \in 1 .. n : \A v \in W : h[k][v] = more(v, nodes[k])
  OBVIOUS
<1> HIDE DEF h
<1>6. PICK m : FoldEquation(W, <<>>, h, n, m)
  BY <1>1, <1>2, <1>4, FoldExists
<1>7. m = [r \in SUBSET (1 .. n) |->
             IF r = {} THEN <<>> ELSE more(m[r \ {Max(r)}], nodes[Max(r)])]
  <2>1. ASSUME NEW r \in SUBSET (1 .. n), r # {}
        PROVE  m[r] = more(m[r \ {Max(r)}], nodes[Max(r)])
    <3>1. Max(r) \in 1 .. n
      BY <1>1, <2>1, MaxFacts
    <3>2. m[r \ {Max(r)}] \in W /\ m[r] = h[Max(r)][m[r \ {Max(r)}]]
      BY <1>6, <2>1 DEF FoldEquation
    <3> QED BY <1>5, <3>1, <3>2
  <2>2. m = [r \in SUBSET (1 .. n) |-> m[r]] /\ m[{}] = <<>>
    BY <1>6 DEF FoldEquation
  <2> QED BY <2>1, <2>2
<1>8. It = [r \in SUBSET (1 .. n) |->
              IF r = {} THEN <<>> ELSE more(It[r \ {Max(r)}], nodes[Max(r)])]
  BY <1>7, Zenon
<1>9. Those(nodes, set) = It[1 .. n]
  BY <1>1, Zenon DEF Those, Taken, FoldLeft, MapThenFoldSet, more
<1> HIDE DEF It
<1>10. It[{}] = <<>> /\ \A k \in 1 .. n : It[1 .. k] = more(It[1 .. k-1], nodes[k])
  <2>1. \A k \in 1 .. n : k \in 1 .. k
    BY <1>1
  <2>2. {} \in SUBSET (1 .. n)
    OBVIOUS
  <2>3. \A k \in 1 .. n : 1 .. k \in SUBSET (1 .. n) /\ Max(1 .. k) = k /\ (1 .. k) \ {k} = 1 .. k-1
    BY <1>1, PrefixSets
  <2> QED BY <1>8, <2>1, <2>2, <2>3
<1> DEFINE F == [k \in 0 .. n |-> It[1 .. k]]
<1>11. F[0] = <<>> /\ \A k \in 1 .. n : F[k] = more(F[k - 1], nodes[k])
  <2>1. 1 .. 0 = {} /\ 0 \in 0 .. n /\ \A k \in 1 .. n : k \in 0 .. n /\ k - 1 \in 0 .. n
    BY <1>1
  <2> HIDE DEF more
  <2> QED BY <1>10, <2>1
<1>12. F \in [0 .. n -> W] /\ F[n] = It[1 .. n]
  <2> DEFINE WW == [k \in 0 .. n |-> W]
  <2>1. KeepsWithin(It, WW, n)
    <3>1. 0 \in 0 .. n /\ \A k \in 1 .. n : k \in 0 .. n /\ k - 1 \in 0 .. n
      BY <1>1
    <3> QED BY <1>2, <1>10, <3>1 DEF KeepsWithin
  <2> HIDE DEF WW
  <2>2. ASSUME NEW j \in 0 .. n PROVE It[1 .. j] \in W
    <3>1. j \in Nat /\ \A k \in 1 .. j : k \in 1 .. n
      BY <1>1
    <3>2. KeepsWithin(It, WW, j)
      BY <2>1, <3>1 DEF KeepsWithin
    <3>3. It[1 .. j] \in WW[j]
      BY <3>1, <3>2, FoldWithin
    <3> QED BY <3>3 DEF WW
  <2>3. n \in 0 .. n
    BY <1>1
  <2> QED BY <2>2, <2>3
<1> HIDE DEF F
<1>13. F \in [0 .. n -> W] /\ F[0] = <<>> /\ F[n] = Those(nodes, set) /\ \A k \in 1 .. n : F[k] = more(F[k - 1], nodes[k])
  BY <1>9, <1>11, <1>12
<1> HIDE DEF h
<1> QED BY <1>13 DEF n, W, more, ThoseRun

\* Which of the first k nodes the sequence r is made of.
Picks(r, nodes, k, set, f) ==
  /\ f \in [1 .. Len(r) -> 1 .. k]
  /\ \A i, j \in 1 .. Len(r) : i < j => f[i] < f[j]
  /\ \A i \in 1 .. Len(r) : r[i] = nodes[f[i]]
  /\ \A j \in 1 .. k : nodes[j] \in set <=> \E i \in 1 .. Len(r) : f[i] = j

LEMMA ThosePick ==
  ASSUME NEW P, NEW nodes \in Seq(P), NEW set
  PROVE  /\ Those(nodes, set) \in Seq(P)
         /\ \E f : Picks(Those(nodes, set), nodes, Len(nodes), set, f)
<1> DEFINE n == Len(nodes)
<1>0. PICK F : ThoseRun(P, nodes, set, F)
  BY ThoseRunExist
<1>1. /\ F \in [0 .. n -> Seq(P)] /\ F[0] = <<>> /\ F[n] = Those(nodes, set)
      /\ \A k \in 1 .. n : F[k] = Taken(F[k - 1], set, nodes[k])
  BY <1>0 DEF ThoseRun
<1>2. n \in Nat /\ n \in 0 .. n /\ \A k \in 1 .. n : nodes[k] \in P
  OBVIOUS
<1> DEFINE D == {k \in Nat : k <= n => \E f : Picks(F[k], nodes, k, set, f)}
<1> HIDE DEF n
<1>3. 0 \in D
  <2>1. Picks(<<>>, nodes, 0, set, [i \in 1 .. 0 |-> 0])
    BY DEF Picks
  <2> QED BY <1>1, <2>1
<1>4. ASSUME NEW k \in D PROVE k + 1 \in D
  <2>1. SUFFICES ASSUME k + 1 <= n PROVE \E f : Picks(F[k + 1], nodes, k + 1, set, f)
    BY <1>4
  <2>2. /\ k \in Nat /\ k + 1 \in 1 .. n /\ (k + 1) - 1 = k /\ k \in 0 .. n /\ k + 1 \in 0 .. n
        /\ nodes[k + 1] \in P
    BY <1>2, <1>4, <2>1
  <2>3. PICK f : Picks(F[k], nodes, k, set, f)
    BY <1>4, <2>2
  <2>4. PICK r \in Seq(P) : r = F[k]
    BY <1>1, <2>2
  <2>5. /\ f \in [1 .. Len(r) -> 1 .. k]
        /\ \A i, j \in 1 .. Len(r) : i < j => f[i] < f[j]
        /\ \A i \in 1 .. Len(r) : r[i] = nodes[f[i]]
        /\ \A j \in 1 .. k : nodes[j] \in set <=> \E i \in 1 .. Len(r) : f[i] = j
        /\ Len(r) \in Nat
    BY <2>3, <2>4 DEF Picks
  <2>6. CASE nodes[k + 1] \notin set
    <3>1. F[k + 1] = r
      BY <1>1, <2>2, <2>4, <2>6 DEF Taken
    <3>2. f \in [1 .. Len(r) -> 1 .. k + 1]
      BY <2>2, <2>5
    <3>3. ASSUME NEW j \in 1 .. k + 1
          PROVE  nodes[j] \in set <=> \E i \in 1 .. Len(r) : f[i] = j
      <4>1. CASE j = k + 1
        BY <2>2, <2>5, <2>6, <4>1
      <4>2. CASE j # k + 1
        <5>1. j \in 1 .. k
          BY <2>2, <4>2
        <5> QED BY <2>5, <5>1
      <4> QED BY <4>1, <4>2
    <3>4. Picks(r, nodes, k + 1, set, f)
      BY <2>5, <3>2, <3>3 DEF Picks
    <3> QED BY <3>1, <3>4
  <2>7. CASE nodes[k + 1] \in set
    <3> DEFINE q == Append(r, nodes[k + 1])
               g == [i \in 1 .. Len(r) + 1 |-> IF i = Len(r) + 1 THEN k + 1 ELSE f[i]]
    <3>1. F[k + 1] = q
      BY <1>1, <2>2, <2>4, <2>7 DEF Taken
    <3>2. /\ Len(q) = Len(r) + 1 /\ q[Len(r) + 1] = nodes[k + 1]
          /\ \A i \in 1 .. Len(r) : q[i] = r[i]
      BY <2>2, <2>4
    <3>3. /\ g \in [1 .. Len(r) + 1 -> 1 .. k + 1] /\ g[Len(r) + 1] = k + 1
          /\ \A i \in 1 .. Len(r) : g[i] = f[i]
      BY <2>2, <2>5
    <3> HIDE DEF q, g
    <3>4. \A i \in 1 .. Len(r) + 1 : i = Len(r) + 1 \/ i \in 1 .. Len(r)
      BY <2>5
    <3>5. \A i, j \in 1 .. Len(r) + 1 : i < j => g[i] < g[j]
      <4>1. SUFFICES ASSUME NEW i \in 1 .. Len(r) + 1, NEW j \in 1 .. Len(r) + 1, i < j
                     PROVE  g[i] < g[j]
        OBVIOUS
      <4>2. i \in 1 .. Len(r) /\ f[i] \in 1 .. k
        <5>1. Len(r) \in Nat
          OBVIOUS
        <5>2. i \in 1 .. Len(r)
          BY <4>1, <5>1
        <5> QED BY <2>5, <5>2
      <4>3. CASE j = Len(r) + 1
        BY <2>2, <3>3, <4>2, <4>3
      <4>4. CASE j \in 1 .. Len(r)
        BY <2>5, <3>3, <4>1, <4>2, <4>4
      <4> QED BY <3>4, <4>3, <4>4
    <3>6. \A i \in 1 .. Len(r) + 1 : q[i] = nodes[g[i]]
      BY <2>5, <3>2, <3>3, <3>4
    <3>7. ASSUME NEW j \in 1 .. k + 1
          PROVE  nodes[j] \in set <=> \E i \in 1 .. Len(r) + 1 : g[i] = j
      <4>0. Len(r) + 1 \in 1 .. Len(r) + 1 /\ \A i \in 1 .. Len(r) : i \in 1 .. Len(r) + 1
        BY <2>5
      <4>1. CASE j = k + 1
        BY <2>7, <3>3, <4>0, <4>1
      <4>2. CASE j # k + 1
        <5>1. j \in 1 .. k
          BY <2>2, <4>2
        <5>2. nodes[j] \in set <=> \E i \in 1 .. Len(r) : f[i] = j
          BY <2>5, <5>1
        <5> QED BY <3>3, <3>4, <4>0, <4>2, <5>2
      <4> QED BY <4>1, <4>2
    <3>8. Picks(q, nodes, k + 1, set, g)
      BY <3>2, <3>3, <3>5, <3>6, <3>7 DEF Picks
    <3> QED BY <3>1, <3>8
  <2> QED BY <2>6, <2>7
<1> HIDE DEF D
<1>5. D = Nat
  <2>1. D \subseteq Nat
    BY DEF D
  <2> QED BY <1>3, <1>4, <2>1, Reached
<1> QED BY <1>1, <1>2, <1>5 DEF D, n

\* No node is there twice.
Distinct(nodes) == \A i, j \in 1 .. Len(nodes) : nodes[i] = nodes[j] => i = j

LEMMA ThoseFacts ==
  ASSUME NEW P, NEW nodes \in Seq(P), NEW set
  PROVE  /\ Those(nodes, set) \in Seq(P)
         /\ ToSet(Those(nodes, set)) = ToSet(nodes) \cap set
         /\ Distinct(nodes) => Distinct(Those(nodes, set))
<1> DEFINE r == Those(nodes, set)
<1>1. r \in Seq(P)
  BY ThosePick
<1>2. PICK f : Picks(r, nodes, Len(nodes), set, f)
  BY ThosePick
<1> HIDE DEF r
<1>3. /\ f \in [1 .. Len(r) -> 1 .. Len(nodes)]
      /\ \A i, j \in 1 .. Len(r) : i < j => f[i] < f[j]
      /\ \A i \in 1 .. Len(r) : r[i] = nodes[f[i]]
      /\ \A j \in 1 .. Len(nodes) : nodes[j] \in set <=> \E i \in 1 .. Len(r) : f[i] = j
      /\ Len(r) \in Nat /\ DOMAIN r = 1 .. Len(r) /\ DOMAIN nodes = 1 .. Len(nodes)
  BY <1>1, <1>2 DEF Picks
<1>4. ToSet(r) = ToSet(nodes) \cap set
  <2>1. ASSUME NEW i \in 1 .. Len(r) PROVE r[i] \in ToSet(nodes) \cap set
    <3>1. f[i] \in 1 .. Len(nodes) /\ r[i] = nodes[f[i]]
      BY <1>3
    <3> QED BY <1>3, <3>1 DEF ToSet
  <2>2. ASSUME NEW j \in 1 .. Len(nodes), nodes[j] \in set PROVE nodes[j] \in ToSet(r)
    <3>1. PICK i \in 1 .. Len(r) : f[i] = j
      BY <1>3, <2>2
    <3> QED BY <1>3, <3>1 DEF ToSet
  <2> QED BY <1>3, <2>1, <2>2 DEF ToSet
<1>5. ASSUME Distinct(nodes) PROVE Distinct(r)
  <2>1. SUFFICES ASSUME NEW i \in 1 .. Len(r), NEW j \in 1 .. Len(r), r[i] = r[j] PROVE i = j
    BY DEF Distinct
  <2>2. f[i] \in 1 .. Len(nodes) /\ f[j] \in 1 .. Len(nodes) /\ f[i] = f[j]
    BY <1>3, <1>5, <2>1 DEF Distinct
  <2>3. i < j => f[i] < f[j]
    BY <1>3
  <2>4. j < i => f[j] < f[i]
    BY <1>3
  <2> QED BY <2>2, <2>3, <2>4
<1> QED BY <1>1, <1>4, <1>5 DEF r

-----------------------------------------------------------------------------
(* Graphs: nodes and edges *)

LEMMA GraphShape ==
  ASSUME NEW g \in Graph
  PROVE  /\ g.usage \in Seq(Node) /\ g.slots \in Nat /\ g.deps \in [Tracks -> SUBSET (Nat \X Nat)]
         /\ g.frozen \in BOOLEAN /\ g.built \in BOOLEAN /\ g.flat \in [Tracks -> Seq(Nat)]
         /\ Len(g.usage) \in Nat /\ DOMAIN g.usage = 1 .. Len(g.usage)
         /\ \A i \in 1 .. Len(g.usage) : g.usage[i] \in Node /\ g.usage[i].id \in Nat
<1>1. /\ g.usage \in Seq(Node) /\ g.slots \in Nat /\ g.deps \in [Tracks -> SUBSET (Nat \X Nat)]
      /\ g.frozen \in BOOLEAN /\ g.built \in BOOLEAN /\ g.flat \in [Tracks -> Seq(Nat)]
  BY DEF Graph
<1>2. PICK u \in Seq(Node) : u = g.usage
  BY <1>1
<1>3. /\ Len(u) \in Nat /\ DOMAIN u = 1 .. Len(u)
      /\ \A i \in 1 .. Len(u) : u[i] \in Node /\ u[i].id \in Nat
  <2>1. \A x \in Node : x.id \in Nat
    BY DEF Node
  <2> QED BY <2>1
<1> QED BY <1>1, <1>2, <1>3

\* The ids of some nodes, in their order.
LEMMA IdsFacts ==
  ASSUME NEW u \in Seq(Node)
  PROVE  /\ IdsIn(u) \in Seq(Nat) /\ Len(IdsIn(u)) = Len(u)
         /\ DOMAIN u = 1 .. Len(u) /\ DOMAIN IdsIn(u) = 1 .. Len(u)
         /\ \A i \in 1 .. Len(u) : IdsIn(u)[i] = u[i].id /\ u[i].id \in Nat
         /\ ToSet(IdsIn(u)) = {x.id : x \in ToSet(u)}
<1>1. Len(u) \in Nat /\ DOMAIN u = 1 .. Len(u) /\ \A i \in 1 .. Len(u) : u[i] \in Node /\ u[i].id \in Nat
  <2>1. \A x \in Node : x.id \in Nat
    BY DEF Node
  <2> QED BY <2>1
<1>2. IdsIn(u) = [i \in 1 .. Len(u) |-> u[i].id]
  BY <1>1 DEF IdsIn
<1>3. IdsIn(u) \in [1 .. Len(u) -> Nat]
  BY <1>1, <1>2
<1>4. IdsIn(u) \in Seq(Nat) /\ Len(IdsIn(u)) = Len(u)
  BY <1>1, <1>3
<1>5. \A i \in 1 .. Len(u) : IdsIn(u)[i] = u[i].id
  BY <1>2
<1>6. ToSet(IdsIn(u)) = {x.id : x \in ToSet(u)}
  BY <1>1, <1>3, <1>5 DEF ToSet
<1> QED BY <1>1, <1>3, <1>4, <1>5, <1>6

\* What every well-formed graph has.
LEMMA GraphFacts ==
  ASSUME NEW g, WellFormed(g)
  PROVE  /\ IdsIn(g.usage) \in Seq(Nat) /\ Distinct(IdsIn(g.usage))
         /\ Len(IdsIn(g.usage)) = Len(g.usage)
         /\ Live(g) \subseteq Nat
         /\ \A m : m \in Live(g) <=> \E i \in 1 .. Len(g.usage) : g.usage[i].id = m
         /\ \A i, j \in 1 .. Len(g.usage) : g.usage[i].id = g.usage[j].id => i = j
         /\ \A m \in Live(g) : m < g.slots
         /\ \A t \in Tracks : /\ g.deps[t] \in SUBSET (Nat \X Nat)
                              /\ \A x, y : <<x, y>> \in g.deps[t] => x \in Live(g) /\ y \in Live(g) /\ x # y
<1>1. g \in Graph
  BY DEF WellFormed
<1>2. /\ g.usage \in Seq(Node) /\ g.deps \in [Tracks -> SUBSET (Nat \X Nat)]
      /\ DOMAIN g.usage = 1 .. Len(g.usage) /\ \A i \in 1 .. Len(g.usage) : g.usage[i].id \in Nat
  BY <1>1, GraphShape
<1>3. /\ IdsIn(g.usage) \in Seq(Nat) /\ Len(IdsIn(g.usage)) = Len(g.usage)
      /\ DOMAIN IdsIn(g.usage) = 1 .. Len(g.usage)
      /\ \A i \in 1 .. Len(g.usage) : IdsIn(g.usage)[i] = g.usage[i].id
  BY <1>2, IdsFacts
<1>4. \A i, j \in 1 .. Len(g.usage) : g.usage[i].id = g.usage[j].id => i = j
  BY <1>2 DEF WellFormed
<1>5. Distinct(IdsIn(g.usage))
  BY <1>3, <1>4 DEF Distinct
<1>6. \A m : m \in Live(g) <=> \E i \in 1 .. Len(g.usage) : g.usage[i].id = m
  BY <1>3 DEF Live, ToSet
<1>7. ASSUME NEW t \in Tracks
      PROVE  /\ g.deps[t] \in SUBSET (Nat \X Nat)
             /\ \A x, y : <<x, y>> \in g.deps[t] => x \in Live(g) /\ y \in Live(g) /\ x # y
  <2>1. g.deps[t] = NoSelf(g.deps[t]) /\ g.deps[t] \subseteq Live(g) \X Live(g)
    BY DEF WellFormed
  <2>2. \A x, y : <<x, y>> \in g.deps[t] => x # y
    <3>1. \A e \in g.deps[t] : e[1] # e[2]
      BY <2>1 DEF NoSelf
    <3> QED BY <3>1
  <2> QED BY <1>2, <2>1, <2>2
<1>8. Live(g) \subseteq Nat /\ \A m \in Live(g) : m < g.slots
  BY <1>2, <1>6 DEF WellFormed
<1> QED BY <1>3, <1>4, <1>5, <1>6, <1>7, <1>8

\* And what makes one.
LEMMA MakesGraph ==
  ASSUME NEW g \in Graph, g.built => g.frozen,
         \A i, j \in 1 .. Len(g.usage) : g.usage[i].id = g.usage[j].id => i = j,
         \A i \in 1 .. Len(g.usage) : g.usage[i].id < g.slots,
         \A t \in Tracks : \A x, y : <<x, y>> \in g.deps[t] => x \in Live(g) /\ y \in Live(g) /\ x # y
  PROVE  WellFormed(g)
<1>1. /\ g.usage \in Seq(Node) /\ g.deps \in [Tracks -> SUBSET (Nat \X Nat)]
      /\ DOMAIN g.usage = 1 .. Len(g.usage)
  BY GraphShape
<1>2. \A n \in Live(g) : n < g.slots
  <2>1. ToSet(IdsIn(g.usage)) = {x.id : x \in ToSet(g.usage)}
    BY <1>1, IdsFacts
  <2> QED BY <1>1, <2>1 DEF Live, ToSet
<1>3. ASSUME NEW t \in Tracks
      PROVE  g.deps[t] = NoSelf(g.deps[t]) /\ g.deps[t] \subseteq Live(g) \X Live(g)
  <2>1. \A e \in g.deps[t] : e = <<e[1], e[2]>>
    BY <1>1
  <2>2. \A e \in g.deps[t] : e[1] \in Live(g) /\ e[2] \in Live(g) /\ e[1] # e[2]
    BY <2>1
  <2>3. g.deps[t] = NoSelf(g.deps[t])
    BY <2>2 DEF NoSelf
  <2> QED BY <2>1, <2>2, <2>3
<1> QED BY <1>1, <1>2, <1>3 DEF WellFormed

\* An edge set of live nodes may replace another.
LEMMA NewEdges ==
  ASSUME NEW g, WellFormed(g), NEW D \in [Tracks -> SUBSET (Nat \X Nat)],
         \A t \in Tracks : \A x, y : <<x, y>> \in D[t] => x \in Live(g) /\ y \in Live(g) /\ x # y
  PROVE  LET h == [g EXCEPT !.deps = D] IN
           /\ WellFormed(h) /\ h.deps = D /\ h.usage = g.usage /\ h.slots = g.slots /\ Live(h) = Live(g)
<1> DEFINE h == [g EXCEPT !.deps = D]
<1>1. g \in Graph
  BY DEF WellFormed
<1>2. h \in Graph /\ h.deps = D /\ h.usage = g.usage /\ h.slots = g.slots /\ h.built = g.built /\ h.frozen = g.frozen
  BY <1>1 DEF Graph
<1> HIDE DEF h
<1>3. Live(h) = Live(g)
  BY <1>2 DEF Live
<1>4. /\ g.built => g.frozen
      /\ \A i, j \in 1 .. Len(g.usage) : g.usage[i].id = g.usage[j].id => i = j
      /\ \A i \in 1 .. Len(g.usage) : g.usage[i].id < g.slots
  <2>1. g.built => g.frozen
    BY DEF WellFormed
  <2> QED BY <2>1, GraphFacts
<1>5. WellFormed(h)
  BY <1>2, <1>3, <1>4, MakesGraph
<1> QED BY <1>2, <1>3, <1>5 DEF h

LEMMA AllocateFacts ==
  ASSUME NEW g, WellFormed(g), NEW kind \in Kinds, NEW s \in Subtypes
  PROVE  LET h == Allocate(g, kind, s) IN
           /\ WellFormed(h) /\ h.deps = g.deps /\ h.slots = g.slots + 1
           /\ h.usage = Append(g.usage, [id |-> g.slots, kind |-> kind, subtype |-> s])
           /\ Live(h) = Live(g) \cup {g.slots} /\ g.slots \in Nat /\ g.slots \notin Live(g)
           /\ h.frozen = g.frozen
<1> DEFINE x == [id |-> g.slots, kind |-> kind, subtype |-> s]
           h == Allocate(g, kind, s)
<1>1. g \in Graph /\ (g.built => g.frozen)
  BY DEF WellFormed
<1>2. /\ g.usage \in Seq(Node) /\ g.slots \in Nat /\ g.deps \in [Tracks -> SUBSET (Nat \X Nat)]
      /\ Len(g.usage) \in Nat
  BY <1>1, GraphShape
<1>3. x \in Node /\ x.id = g.slots
  BY <1>2 DEF Node
<1> HIDE DEF x
<1>4. PICK v \in Seq(Node) : v = Append(g.usage, x)
  <2>1. \A u \in Seq(Node) : Append(u, x) \in Seq(Node)
    BY <1>3
  <2> QED BY <1>2, <2>1
<1>5. /\ Len(v) = Len(g.usage) + 1 /\ v[Len(g.usage) + 1] = x
      /\ \A i \in 1 .. Len(g.usage) : v[i] = g.usage[i]
  BY <1>2, <1>3, <1>4
<1>6. /\ h \in Graph /\ h.usage = v /\ h.slots = g.slots + 1 /\ h.deps = g.deps
      /\ h.built = g.built /\ h.frozen = g.frozen
  <2>1. h = [g EXCEPT !.usage = Append(@, x), !.slots = @ + 1]
    BY DEF Allocate, x
  <2> HIDE DEF h
  <2>2. h = [g EXCEPT !.usage = v, !.slots = g.slots + 1]
    BY <1>4, <2>1
  <2>3. g.slots + 1 \in Nat
    BY <1>2
  <2> QED BY <1>1, <1>2, <2>2, <2>3 DEF Graph
<1> HIDE DEF h
<1>7. \A m : m \in Live(h) <=> \E i \in 1 .. Len(v) : v[i].id = m
  <2>1. /\ DOMAIN IdsIn(v) = 1 .. Len(v) /\ \A i \in 1 .. Len(v) : IdsIn(v)[i] = v[i].id
    BY <1>4, IdsFacts
  <2> QED BY <1>6, <2>1 DEF Live, ToSet
<1>8. /\ \A m : m \in Live(g) <=> \E i \in 1 .. Len(g.usage) : g.usage[i].id = m
      /\ \A m \in Live(g) : m < g.slots
      /\ \A i, j \in 1 .. Len(g.usage) : g.usage[i].id = g.usage[j].id => i = j
      /\ Live(g) \subseteq Nat
  BY GraphFacts
<1>9. \A i \in 1 .. Len(v) : i \in 1 .. Len(g.usage) \/ i = Len(g.usage) + 1
  BY <1>2, <1>5
<1>10. \A i \in 1 .. Len(g.usage) : i \in 1 .. Len(v) /\ v[i].id \in Live(g)
  BY <1>2, <1>5, <1>8
<1>11. Live(h) = Live(g) \cup {g.slots}
  <2>1. Len(g.usage) + 1 \in 1 .. Len(v)
    BY <1>2, <1>5
  <2> QED BY <1>3, <1>5, <1>7, <1>8, <1>9, <1>10, <2>1, SMTT(30)
<1>12. g.slots \notin Live(g)
  BY <1>2, <1>8
<1>13. WellFormed(h)
  <2>1. \A i, j \in 1 .. Len(v) : v[i].id = v[j].id => i = j
    BY <1>3, <1>5, <1>8, <1>9, <1>10, <1>12, SMTT(30)
  <2>2. \A i \in 1 .. Len(v) : v[i].id < g.slots + 1
    <3>1. SUFFICES ASSUME NEW i \in 1 .. Len(v) PROVE v[i].id < g.slots + 1
      OBVIOUS
    <3>2. CASE i = Len(g.usage) + 1
      BY <1>2, <1>3, <1>5, <3>2
    <3>3. CASE i \in 1 .. Len(g.usage)
      <4>1. v[i].id \in Nat /\ v[i].id < g.slots
        BY <1>8, <1>10, <3>3
      <4> QED BY <1>2, <4>1
    <3> QED BY <1>9, <3>2, <3>3
  <2>3. \A t \in Tracks : \A y, z : <<y, z>> \in g.deps[t] => y \in Live(h) /\ z \in Live(h) /\ y # z
    BY <1>11, GraphFacts
  <2> QED BY <1>1, <1>6, <2>1, <2>2, <2>3, MakesGraph
<1> QED BY <1>2, <1>4, <1>6, <1>11, <1>12, <1>13 DEF h, x

\* The place of a node.
Place(u, n) == SelectInSeq(u, LAMBDA x : x.id = n)

LEMMA PlaceFacts ==
  ASSUME NEW u \in Seq(Node), NEW n, NEW i \in 1 .. Len(u), u[i].id = n,
         \A j, k \in 1 .. Len(u) : u[j].id = u[k].id => j = k
  PROVE  Place(u, n) = i
<1> DEFINE I == {k \in 1 .. Len(u) : u[k].id = n}
<1>1. I = {i}
  OBVIOUS
<1>2. Min(I) = i
  <2>1. \E x \in I : \A y \in I : x <= y
    BY <1>1
  <2> HIDE DEF I
  <2>2. Min(I) \in I
    BY <2>1 DEF Min
  <2> QED BY <1>1, <2>2
<1>3. Place(u, n) = IF I # {} THEN Min(I) ELSE 0
  BY DEF SelectInSeq, Place
<1> HIDE DEF I
<1> QED BY <1>1, <1>2, <1>3

\* A freed node leaves the others, in another order.
LEMMA FreeFacts ==
  ASSUME NEW g, WellFormed(g), NEW n \in Live(g)
  PROVE  LET v == Free(g, n).usage IN
           /\ v \in Seq(Node) /\ Len(v) = Len(g.usage) - 1
           /\ \A i, j \in 1 .. Len(v) : v[i].id = v[j].id => i = j
           /\ ToSet(v) = {x \in ToSet(g.usage) : x.id # n}
           /\ Free(g, n) = [g EXCEPT !.usage = v]
<1> DEFINE u == g.usage
           L == Len(u)
           v == Free(g, n).usage
<1>1. /\ g \in Graph /\ u \in Seq(Node) /\ L \in Nat /\ DOMAIN u = 1 .. L
      /\ \A i \in 1 .. L : u[i] \in Node
      /\ \A i, j \in 1 .. L : u[i].id = u[j].id => i = j
  <2>1. g \in Graph
    BY DEF WellFormed
  <2> QED BY <2>1, GraphShape, GraphFacts
<1>2. PICK i \in 1 .. L : u[i].id = n
  BY GraphFacts
<1>3. Place(g.usage, n) = i
  BY <1>1, <1>2, PlaceFacts
<1>4. Free(g, n) = [g EXCEPT !.usage = Front(ReplaceAt(@, i, Last(@)))]
  BY <1>3, Zenon DEF Free, Place
<1>5. v = Front(ReplaceAt(u, i, Last(u))) /\ Free(g, n) = [g EXCEPT !.usage = v]
  BY <1>1, <1>4 DEF Graph
<1> HIDE DEF u, v, L
<1>6. PICK w \in Seq(Node) : w = ReplaceAt(u, i, Last(u))
  <2>1. Last(u) = u[L] /\ L \in 1 .. L /\ u[L] \in Node
    BY <1>1, <1>2 DEF Last, L
  <2>2. \A a \in Seq(Node), b \in Node : \A k \in 1 .. Len(a) : [a EXCEPT ![k] = b] \in Seq(Node)
    OBVIOUS
  <2>3. [u EXCEPT ![i] = Last(u)] \in Seq(Node)
    BY <1>1, <1>2, <2>1, <2>2 DEF L
  <2> QED BY <2>3 DEF ReplaceAt
<1>7. Len(w) = L /\ \A k \in 1 .. L : w[k] = IF k = i THEN u[L] ELSE u[k]
  <2>1. DOMAIN w = DOMAIN u /\ \A k \in 1 .. L : w[k] = IF k = i THEN u[L] ELSE u[k]
    BY <1>1, <1>2, <1>6 DEF ReplaceAt, Last, L
  <2>2. w \in [1 .. L -> Node]
    <3>1. w \in [DOMAIN w -> Node]
      OBVIOUS
    <3> QED BY <1>1, <2>1, <3>1
  <2>3. Len(w) = L
    BY <1>1, <2>2
  <2> QED BY <2>1, <2>3
<1>8. v = SubSeq(w, 1, L - 1) /\ L # 0
  BY <1>2, <1>5, <1>6, <1>7 DEF Front
<1>9. v \in Seq(Node) /\ Len(v) = L - 1 /\ \A k \in 1 .. L - 1 : v[k] = IF k = i THEN u[L] ELSE u[k]
  <2>1. \A a \in Seq(Node) : \A m \in 0 .. Len(a) :
          /\ SubSeq(a, 1, m) \in Seq(Node) /\ Len(SubSeq(a, 1, m)) = m
          /\ \A k \in 1 .. m : SubSeq(a, 1, m)[k] = a[k]
    OBVIOUS
  <2>2. L - 1 \in 0 .. Len(w) /\ \A k \in 1 .. L - 1 : k \in 1 .. L
    BY <1>1, <1>7, <1>8
  <2> QED BY <1>6, <1>7, <1>8, <2>1, <2>2
<1>10. ASSUME NEW j \in 1 .. L - 1, NEW k \in 1 .. L - 1, v[j].id = v[k].id PROVE j = k
  <2>1. j \in 1 .. L /\ k \in 1 .. L /\ L \in 1 .. L /\ j # L /\ k # L
    BY <1>1, <1>8
  <2> QED BY <1>1, <1>9, <1>10, <2>1
<1>11. ToSet(v) = {x \in ToSet(u) : x.id # n}
  <2>1. DOMAIN v = 1 .. L - 1 /\ L \in 1 .. L /\ \A k \in 1 .. L - 1 : k \in 1 .. L /\ k # L
    BY <1>1, <1>8, <1>9
  <2>2. ASSUME NEW k \in 1 .. L - 1 PROVE v[k] \in ToSet(u) /\ v[k].id # n
    <3>1. CASE k = i
      BY <1>1, <1>2, <1>9, <2>1, <3>1 DEF ToSet
    <3>2. CASE k # i
      BY <1>1, <1>2, <1>9, <2>1, <3>2 DEF ToSet
    <3> QED BY <3>1, <3>2
  <2>3. ASSUME NEW k \in 1 .. L, u[k].id # n PROVE u[k] \in ToSet(v)
    <3>1. k # i
      BY <1>2, <2>3
    <3>2. CASE k = L
      <4>1. i \in 1 .. L - 1
        BY <1>1, <1>2, <3>1, <3>2
      <4> QED BY <1>9, <2>1, <3>2, <4>1 DEF ToSet
    <3>3. CASE k # L
      <4>1. k \in 1 .. L - 1
        BY <1>1, <3>3
      <4> QED BY <1>9, <2>1, <3>1, <4>1 DEF ToSet
    <3> QED BY <3>2, <3>3
  <2> QED BY <1>1, <2>1, <2>2, <2>3 DEF ToSet
<1> QED BY <1>1, <1>5, <1>9, <1>10, <1>11 DEF u, v, L

\* The live nodes are the ids of the nodes.
LEMMA LiveOf ==
  ASSUME NEW g \in Graph
  PROVE  Live(g) = {x.id : x \in ToSet(g.usage)}
BY GraphShape, IdsFacts DEF Live

LEMMA RemovedFacts ==
  ASSUME NEW g, WellFormed(g), NEW n \in Live(g)
  PROVE  LET h == RemovedNode(g, n) IN
           /\ WellFormed(h) /\ Live(h) = Live(g) \ {n} /\ h.slots = g.slots
           /\ ToSet(h.usage) = {x \in ToSet(g.usage) : x.id # n}
           /\ Len(h.usage) = Len(g.usage) - 1
           /\ \A t \in Tracks : \A x, y :
                <<x, y>> \in h.deps[t] <=> <<x, y>> \in g.deps[t] /\ x # n /\ y # n
           /\ h.frozen = g.frozen
<1> DEFINE h == RemovedNode(g, n)
           v == Free(g, n).usage
           D == [t \in Tracks |-> {e \in g.deps[t] : n \notin {e[1], e[2]}}]
<1>1. /\ g \in Graph /\ (g.built => g.frozen) /\ g.deps \in [Tracks -> SUBSET (Nat \X Nat)]
  <2>1. g \in Graph /\ (g.built => g.frozen)
    BY DEF WellFormed
  <2> QED BY <2>1, GraphShape
<1>2. /\ v \in Seq(Node) /\ Len(v) = Len(g.usage) - 1
      /\ \A i, j \in 1 .. Len(v) : v[i].id = v[j].id => i = j
      /\ ToSet(v) = {x \in ToSet(g.usage) : x.id # n}
      /\ Free(g, n) = [g EXCEPT !.usage = v]
  BY FreeFacts
<1> HIDE DEF v
<1>3. h = [[g EXCEPT !.usage = v] EXCEPT !.deps = D]
  BY <1>2 DEF RemovedNode
<1>4. D \in [Tracks -> SUBSET (Nat \X Nat)]
  BY <1>1
<1>5. ASSUME NEW t \in Tracks, NEW x, NEW y
      PROVE  <<x, y>> \in D[t] <=> <<x, y>> \in g.deps[t] /\ x # n /\ y # n
  BY <1>1
<1> HIDE DEF h, D
<1>6. /\ h \in Graph /\ h.usage = v /\ h.deps = D /\ h.slots = g.slots
      /\ h.built = g.built /\ h.frozen = g.frozen
  BY <1>1, <1>2, <1>3, <1>4 DEF Graph
<1>7. Live(h) = Live(g) \ {n}
  <2>1. Live(h) = {x.id : x \in ToSet(v)} /\ Live(g) = {x.id : x \in ToSet(g.usage)}
    BY <1>1, <1>6, LiveOf
  <2> QED BY <1>2, <2>1
<1>8. WellFormed(h)
  <2>1. ASSUME NEW i \in 1 .. Len(v) PROVE v[i].id < g.slots
    <3>1. v[i].id \in Live(h)
      <4>1. v[i] \in ToSet(v)
        BY <1>2 DEF ToSet
      <4> QED BY <1>6, <4>1, LiveOf
    <3> QED BY <1>7, <3>1, GraphFacts
  <2>2. \A t \in Tracks : \A x, y : <<x, y>> \in D[t] => x \in Live(h) /\ y \in Live(h) /\ x # y
    BY <1>5, <1>7, GraphFacts
  <2> QED BY <1>1, <1>2, <1>6, <2>1, <2>2, MakesGraph
<1> QED BY <1>2, <1>5, <1>6, <1>7, <1>8 DEF h

\* Neighbours of a node.
LEMMA Neighbours ==
  ASSUME NEW g, WellFormed(g), NEW t \in Tracks, NEW n
  PROVE  /\ \A x : x \in ParentsIn(g, n, t) <=> <<x, n>> \in g.deps[t]
         /\ \A y : y \in ChildrenIn(g, n, t) <=> <<n, y>> \in g.deps[t]
<1>1. g.deps[t] \in SUBSET (Nat \X Nat)
  BY GraphFacts
<1> QED BY <1>1, EndsOfPairs DEF ParentsIn, ChildrenIn

LEMMA BridgedFacts ==
  ASSUME NEW g, WellFormed(g), NEW n \in Live(g)
  PROVE  LET h == Bridged(g, n) IN
           /\ WellFormed(h) /\ Live(h) = Live(g) \ {n} /\ h.slots = g.slots
           /\ ToSet(h.usage) = {x \in ToSet(g.usage) : x.id # n}
           /\ \A t \in Tracks : \A x, y :
                <<x, y>> \in h.deps[t] <=>
                  \/ <<x, y>> \in g.deps[t] /\ x # n /\ y # n
                  \/ <<x, n>> \in g.deps[t] /\ <<n, y>> \in g.deps[t] /\ x # y
           /\ h.frozen = g.frozen
<1> DEFINE r == RemovedNode(g, n)
           D == [t \in Tracks |-> r.deps[t] \cup NoSelf(ParentsIn(g, n, t) \X ChildrenIn(g, n, t))]
           h == Bridged(g, n)
<1>1. /\ WellFormed(r) /\ Live(r) = Live(g) \ {n} /\ r.slots = g.slots
      /\ ToSet(r.usage) = {x \in ToSet(g.usage) : x.id # n}
      /\ \A t \in Tracks : \A x, y :
           <<x, y>> \in r.deps[t] <=> <<x, y>> \in g.deps[t] /\ x # n /\ y # n
      /\ r.frozen = g.frozen
  BY RemovedFacts
<1> HIDE DEF r
<1>2. r \in Graph /\ \A t \in Tracks : r.deps[t] \in SUBSET (Nat \X Nat)
  <2>1. r \in Graph
    BY <1>1 DEF WellFormed
  <2> QED BY <1>1, <2>1, GraphFacts
<1>3. h = [r EXCEPT !.deps = D]
  BY <1>2 DEF Bridged, Graph, r
<1>4. \A t \in Tracks : /\ ParentsIn(g, n, t) \subseteq Live(g) /\ ChildrenIn(g, n, t) \subseteq Live(g)
                        /\ n \notin ParentsIn(g, n, t) /\ n \notin ChildrenIn(g, n, t)
  BY Neighbours, GraphFacts
<1>5. ASSUME NEW t \in Tracks
      PROVE  /\ D[t] \in SUBSET (Nat \X Nat)
             /\ \A x, y : <<x, y>> \in D[t] <=>
                  \/ <<x, y>> \in g.deps[t] /\ x # n /\ y # n
                  \/ <<x, n>> \in g.deps[t] /\ <<n, y>> \in g.deps[t] /\ x # y
  <2> DEFINE A == ParentsIn(g, n, t)
             B == ChildrenIn(g, n, t)
  <2>1. /\ \A x : x \in A <=> <<x, n>> \in g.deps[t]
        /\ \A y : y \in B <=> <<n, y>> \in g.deps[t]
    BY Neighbours
  <2>2. A \subseteq Nat /\ B \subseteq Nat
    BY <1>4, GraphFacts
  <2>3. D[t] = r.deps[t] \cup NoSelf(A \X B)
    OBVIOUS
  <2> HIDE DEF A, B, D
  <2>4. \A x, y : <<x, y>> \in NoSelf(A \X B) <=> x \in A /\ y \in B /\ x # y
    BY DEF NoSelf
  <2>5. NoSelf(A \X B) \subseteq Nat \X Nat
    BY <2>2 DEF NoSelf
  <2> QED BY <1>1, <1>2, <2>1, <2>3, <2>4, <2>5
<1>6. D \in [Tracks -> SUBSET (Nat \X Nat)]
  BY <1>5
<1>7. \A t \in Tracks : \A x, y : <<x, y>> \in D[t] => x \in Live(r) /\ y \in Live(r) /\ x # y
  <2>1. \A t \in Tracks : \A x, y : <<x, y>> \in g.deps[t] => x \in Live(g) /\ y \in Live(g) /\ x # y
    BY GraphFacts
  <2> HIDE DEF D
  <2> QED BY <1>1, <1>5, <2>1
<1> HIDE DEF D, h
<1>8. /\ WellFormed(h) /\ h.deps = D /\ h.usage = r.usage /\ h.slots = r.slots /\ Live(h) = Live(r)
  BY <1>1, <1>3, <1>6, <1>7, NewEdges
<1>9. h.frozen = r.frozen
  BY <1>2, <1>3 DEF Graph
<1> QED BY <1>1, <1>5, <1>8, <1>9 DEF h

-----------------------------------------------------------------------------
(* Graphs: the order of the nodes *)

Follows(g, t) == Reach(g.deps[t], IdsIn(g.usage))

LEMMA FollowsIsLeast ==
  ASSUME NEW g, WellFormed(g), NEW t \in Tracks
  PROVE  /\ g.deps[t] \subseteq Follows(g, t)
         /\ Follows(g, t) \in SUBSET (Nat \X Nat)
         /\ \A x, y : <<x, y>> \in Follows(g, t) => x \in Live(g) /\ y \in Live(g)
         /\ Transitive(Follows(g, t))
         /\ \A T : g.deps[t] \subseteq T /\ Transitive(T) => Follows(g, t) \subseteq T
<1>1. /\ IdsIn(g.usage) \in Seq(Nat) /\ g.deps[t] \in SUBSET (Nat \X Nat) /\ Live(g) \subseteq Nat
      /\ \A x, y : <<x, y>> \in g.deps[t] => x \in Live(g) /\ y \in Live(g)
  BY GraphFacts
<1>2. \A x, y \in Nat : <<x, y>> \in g.deps[t] => {x, y} \subseteq ToSet(IdsIn(g.usage))
  BY <1>1 DEF Live
<1>3. /\ g.deps[t] \subseteq Follows(g, t)
      /\ Follows(g, t) \in SUBSET (Nat \X Nat)
      /\ Transitive(Follows(g, t))
      /\ \A T : g.deps[t] \subseteq T /\ Transitive(T) => Follows(g, t) \subseteq T
  <2> DEFINE nodes == IdsIn(g.usage)
             edges == g.deps[t]
  <2>1. nodes \in Seq(Nat) /\ edges \in SUBSET (Nat \X Nat)
    BY <1>1
  <2>2. \A x, y \in Nat : <<x, y>> \in edges => {x, y} \subseteq ToSet(nodes)
    BY <1>2
  <2>3. Follows(g, t) = Reach(edges, nodes)
    BY DEF Follows
  <2> HIDE DEF nodes, edges
  <2>4. /\ edges \subseteq Reach(edges, nodes)
        /\ Reach(edges, nodes) \in SUBSET (Nat \X Nat)
        /\ Transitive(Reach(edges, nodes))
        /\ \A T : edges \subseteq T /\ Transitive(T) => Reach(edges, nodes) \subseteq T
    BY <2>1, <2>2, ReachIsLeast
  <2> QED BY <2>3, <2>4 DEF edges
<1>4. Follows(g, t) \subseteq Live(g) \X Live(g)
  <2>1. Transitive(Live(g) \X Live(g))
    BY DEF Transitive
  <2>2. g.deps[t] \subseteq Live(g) \X Live(g)
    BY DEF WellFormed
  <2> QED BY <1>3, <2>1, <2>2
<1> QED BY <1>3, <1>4

\* Without a node and with its neighbours joined the order of the others is the
\* same.
LEMMA BridgeOrder ==
  ASSUME NEW g, WellFormed(g), NEW n \in Live(g), NEW t \in Tracks
  PROVE  \A x, y : x # y => (<<x, y>> \in Follows(Bridged(g, n), t)
                               <=> <<x, y>> \in Follows(g, t) /\ x # n /\ y # n)
<1> DEFINE h == Bridged(g, n)
           C == Follows(g, t)
           B == Follows(h, t)
           G == g.deps[t]
           H == h.deps[t]
<1>1. /\ WellFormed(h) /\ Live(h) = Live(g) \ {n}
      /\ \A x, y : <<x, y>> \in H <=>
           \/ <<x, y>> \in G /\ x # n /\ y # n
           \/ <<x, n>> \in G /\ <<n, y>> \in G /\ x # y
  BY BridgedFacts
<1>2. /\ G \in SUBSET (Nat \X Nat) /\ H \in SUBSET (Nat \X Nat)
      /\ \A x, y : <<x, y>> \in G => x \in Live(g) /\ y \in Live(g) /\ x # y
      /\ \A x, y : <<x, y>> \in H => x \in Live(h) /\ y \in Live(h) /\ x # y
  BY <1>1, GraphFacts
<1> HIDE DEF h
<1>3. /\ G \subseteq C /\ Transitive(C) /\ \A x, y : <<x, y>> \in C => x \in Live(g) /\ y \in Live(g)
      /\ \A T : G \subseteq T /\ Transitive(T) => C \subseteq T
  BY FollowsIsLeast
<1>4. /\ H \subseteq B /\ Transitive(B) /\ \A x, y : <<x, y>> \in B => x \in Live(h) /\ y \in Live(h)
      /\ \A T : H \subseteq T /\ Transitive(T) => B \subseteq T
  BY <1>1, FollowsIsLeast
<1> HIDE DEF C, B, G, H
<1>5. Live(g) \subseteq Nat
  BY GraphFacts
<1>6. \A x, y : <<x, y>> \in B => <<x, y>> \in C /\ x # n /\ y # n
  <2>1. H \subseteq C
    <3>1. ASSUME NEW x, NEW y, <<x, y>> \in H PROVE <<x, y>> \in C
      BY <1>1, <1>3, <3>1 DEF Transitive
    <3> QED BY <1>2, <3>1
  <2>2. B \subseteq C
    BY <1>3, <1>4, <2>1
  <2> QED BY <1>1, <1>4, <2>2
<1> DEFINE Same(x, y) == x = y \/ <<x, y>> \in B
           Joined(x, y) ==
             /\ x # n /\ y # n => Same(x, y)
             /\ x # n /\ y = n => \E p : <<p, n>> \in G /\ Same(x, p)
             /\ x = n /\ y # n => \E c : <<n, c>> \in G /\ Same(c, y)
           T == {q \in Nat \X Nat : Joined(q[1], q[2])}
<1>7. \A x, y, z : Same(x, y) /\ Same(y, z) => Same(x, z)
  BY <1>4 DEF Transitive
<1>8. \A p, c : <<p, n>> \in G /\ <<n, c>> \in G => Same(p, c)
  BY <1>1, <1>4
<1>9. \A x, y : <<x, y>> \in T <=> x \in Nat /\ y \in Nat /\ Joined(x, y)
  BY ZenonT(60)
<1> HIDE DEF Same
<1>10. ASSUME NEW x, NEW y, NEW z, Joined(x, y), Joined(y, z) PROVE Joined(x, z)
  <2>1. ASSUME x # n, z # n PROVE Same(x, z)
    <3>1. CASE y = n
      BY <1>7, <1>8, <1>10, <2>1, <3>1
    <3>2. CASE y # n
      BY <1>7, <1>10, <2>1, <3>2
    <3> QED BY <3>1, <3>2
  <2>2. ASSUME x # n, z = n PROVE \E p : <<p, n>> \in G /\ Same(x, p)
    <3>1. CASE y = n
      BY <1>10, <2>2, <3>1
    <3>2. CASE y # n
      BY <1>7, <1>10, <2>2, <3>2
    <3> QED BY <3>1, <3>2
  <2>3. ASSUME x = n, z # n PROVE \E c : <<n, c>> \in G /\ Same(c, z)
    <3>1. CASE y = n
      BY <1>10, <2>3, <3>1
    <3>2. CASE y # n
      BY <1>7, <1>10, <2>3, <3>2
    <3> QED BY <3>1, <3>2
  <2> QED BY <2>1, <2>2, <2>3
<1>11. G \subseteq T
  <2>1. ASSUME NEW x, NEW y, <<x, y>> \in G PROVE Joined(x, y)
    <3>1. x # n /\ y # n => Same(x, y)
      BY <1>1, <1>4, <2>1 DEF Same
    <3>2. x # n /\ y = n => <<x, n>> \in G /\ Same(x, x)
      BY <2>1 DEF Same
    <3>3. x = n /\ y # n => <<n, y>> \in G /\ Same(y, y)
      BY <2>1 DEF Same
    <3> QED BY <3>1, <3>2, <3>3
  <2> HIDE DEF Joined, T
  <2> QED BY <1>2, <1>9, <2>1
<1> HIDE DEF Joined, T
<1>12. Transitive(T)
  BY <1>9, <1>10 DEF Transitive
<1>13. C \subseteq T
  BY <1>3, <1>11, <1>12
<1>14. ASSUME NEW x, NEW y, x # y, <<x, y>> \in C, x # n, y # n PROVE <<x, y>> \in B
  BY <1>9, <1>13, <1>14 DEF Joined, Same
<1> QED BY <1>6, <1>14 DEF B, C, h

LEMMA OrderPairs ==
  ASSUME NEW g, WellFormed(g), NEW t \in Tracks
  PROVE  /\ Order(g, t) \in SUBSET (Nat \X Nat)
         /\ \A x, y : <<x, y>> \in Order(g, t) <=> <<x, y>> \in Follows(g, t) /\ x # y
<1>1. Follows(g, t) \in SUBSET (Nat \X Nat) /\ Order(g, t) = NoSelf(Follows(g, t))
  BY FollowsIsLeast DEF Order, Follows
<1> QED BY <1>1 DEF NoSelf

LEMMA BridgeKeeps == TypeInv => BridgeKeepsOrder
<1> SUFFICES ASSUME WellFormed(graph), NEW n \in Live(graph), NEW t \in Tracks
             PROVE  Order(Bridged(graph, n), t) = {e \in Order(graph, t) : n \notin {e[1], e[2]}}
  BY DEF TypeInv, BridgeKeepsOrder
<1>1. WellFormed(Bridged(graph, n))
  BY BridgedFacts
<1> DEFINE A == Order(Bridged(graph, n), t)
           B == {e \in Order(graph, t) : n \notin {e[1], e[2]}}
<1>2. /\ A \in SUBSET (Nat \X Nat) /\ Order(graph, t) \in SUBSET (Nat \X Nat)
      /\ \A x, y : <<x, y>> \in A <=> <<x, y>> \in Follows(Bridged(graph, n), t) /\ x # y
      /\ \A x, y : <<x, y>> \in Order(graph, t) <=> <<x, y>> \in Follows(graph, t) /\ x # y
  BY <1>1, OrderPairs
<1>3. \A x, y : <<x, y>> \in B <=> <<x, y>> \in Order(graph, t) /\ x # n /\ y # n
  BY <1>2
<1>4. B \in SUBSET (Nat \X Nat)
  BY <1>2
<1> HIDE DEF A, B
<1>5. \A x, y : <<x, y>> \in A <=> <<x, y>> \in B
  <2>1. \A x, y : x # y => (<<x, y>> \in Follows(Bridged(graph, n), t)
                               <=> <<x, y>> \in Follows(graph, t) /\ x # n /\ y # n)
    BY BridgeOrder, Zenon
  <2> QED BY <1>2, <1>3, <2>1
<1> QED BY <1>2, <1>4, <1>5 DEF A, B

-----------------------------------------------------------------------------
(* Graphs: merging *)

\* What is freed, removed or joined stays a graph, whatever is named.
LEMMA FreeInGraph ==
  ASSUME NEW g \in Graph, NEW n
  PROVE  Free(g, n) \in Graph
<1> DEFINE i == Place(g.usage, n)
<1>1. /\ g.usage \in Seq(Node) /\ Len(g.usage) \in Nat /\ DOMAIN g.usage = 1 .. Len(g.usage)
      /\ \A k \in 1 .. Len(g.usage) : g.usage[k] \in Node
  BY GraphShape
<1>2. PICK u \in Seq(Node) : u = g.usage
  BY <1>1
<1>3. PICK w \in Seq(Node) : w = [u EXCEPT ![i] = Last(u)]
  <2>1. CASE Len(u) = 0
    <3>1. u = <<>>
      BY <2>1
    <3>2. [u EXCEPT ![i] = Last(u)] = u
      BY <3>1
    <3> QED BY <3>2
  <2>2. CASE Len(u) # 0
    <3>1. Last(u) \in Node
      BY <1>1, <1>2, <2>2 DEF Last
    <3>2. \A a \in Seq(Node), b \in Node : \A k \in 1 .. Len(a) : [a EXCEPT ![k] = b] \in Seq(Node)
      OBVIOUS
    <3> HIDE DEF i
    <3>3. CASE i \in 1 .. Len(u)
      BY <3>1, <3>2, <3>3
    <3>4. CASE i \notin 1 .. Len(u)
      <4>1. [u EXCEPT ![i] = Last(u)] = u
        BY <3>4
      <4> QED BY <4>1
    <3> QED BY <3>3, <3>4
  <2> QED BY <2>1, <2>2
<1>4. Front(w) \in Seq(Node)
  <2>1. \A k \in 1 .. Len(w) : w[k] \in Node
    OBVIOUS
  <2>2. Len(w) \in Nat /\ \A k \in 1 .. Len(w) - 1 : k \in 1 .. Len(w)
    OBVIOUS
  <2>3. SubSeq(w, 1, Len(w) - 1) \in Seq(Node)
    <3>1. CASE Len(w) = 0
      <4>1. w = <<>>
        BY <3>1
      <4>2. SubSeq(w, 1, Len(w) - 1) = <<>>
        BY <4>1
      <4> QED BY <4>2
    <3>2. CASE Len(w) # 0
      <4>1. Len(w) - 1 \in 0 .. Len(w)
        BY <2>2, <3>2
      <4> QED BY <4>1
    <3> QED BY <3>1, <3>2
  <2> QED BY <2>3 DEF Front
<1>5. Free(g, n) = [g EXCEPT !.usage = Front(w)]
  <2>1. Free(g, n) = [g EXCEPT !.usage = Front(ReplaceAt(@, i, Last(@)))]
    BY DEF Free, Place
  <2> HIDE DEF i
  <2>2. Free(g, n) = [g EXCEPT !.usage = Front(ReplaceAt(u, i, Last(u)))]
    BY <1>2, <2>1
  <2> QED BY <1>3, <2>2 DEF ReplaceAt
<1> QED BY <1>4, <1>5 DEF Graph

LEMMA RemovedInGraph ==
  ASSUME NEW g \in Graph, NEW n
  PROVE  RemovedNode(g, n) \in Graph
<1> DEFINE D == [t \in Tracks |-> {e \in g.deps[t] : n \notin {e[1], e[2]}}]
<1>1. D \in [Tracks -> SUBSET (Nat \X Nat)]
  BY GraphShape
<1>2. RemovedNode(g, n) = [Free(g, n) EXCEPT !.deps = D]
  BY DEF RemovedNode
<1>3. Free(g, n) \in Graph
  BY FreeInGraph
<1> HIDE DEF D
<1> QED BY <1>1, <1>2, <1>3 DEF Graph

LEMMA NeighboursInGraph ==
  ASSUME NEW g \in Graph, NEW t \in Tracks, NEW n
  PROVE  /\ ParentsIn(g, n, t) \subseteq Nat /\ ChildrenIn(g, n, t) \subseteq Nat
         /\ \A x : x \in ParentsIn(g, n, t) <=> <<x, n>> \in g.deps[t]
         /\ \A y : y \in ChildrenIn(g, n, t) <=> <<n, y>> \in g.deps[t]
<1>1. g.deps[t] \in SUBSET (Nat \X Nat)
  BY GraphShape
<1>2. /\ \A x : x \in ParentsIn(g, n, t) <=> <<x, n>> \in g.deps[t]
      /\ \A y : y \in ChildrenIn(g, n, t) <=> <<n, y>> \in g.deps[t]
  BY <1>1, EndsOfPairs DEF ParentsIn, ChildrenIn
<1>3. ASSUME NEW x \in ParentsIn(g, n, t) PROVE x \in Nat
  <2>1. <<x, n>> \in Nat \X Nat
    BY <1>1, <1>2, <1>3
  <2> QED BY <2>1
<1>4. ASSUME NEW y \in ChildrenIn(g, n, t) PROVE y \in Nat
  <2>1. <<n, y>> \in Nat \X Nat
    BY <1>1, <1>2, <1>4
  <2> QED BY <2>1
<1> QED BY <1>2, <1>3, <1>4

\* More edges on each track.
LEMMA MoreEdges ==
  ASSUME NEW g \in Graph, NEW E, \A t \in Tracks : E[t] \subseteq Nat \X Nat,
         NEW D, D = [t \in Tracks |-> g.deps[t] \cup NoSelf(E[t])]
  PROVE  /\ D \in [Tracks -> SUBSET (Nat \X Nat)]
         /\ \A t \in Tracks : \A x, y : <<x, y>> \in D[t] <=>
              <<x, y>> \in g.deps[t] \/ (<<x, y>> \in E[t] /\ x # y)
<1>1. ASSUME NEW t \in Tracks
      PROVE  /\ D[t] \in SUBSET (Nat \X Nat)
             /\ \A x, y : <<x, y>> \in D[t] <=>
                  <<x, y>> \in g.deps[t] \/ (<<x, y>> \in E[t] /\ x # y)
  <2>1. g.deps[t] \in SUBSET (Nat \X Nat) /\ D[t] = g.deps[t] \cup NoSelf(E[t])
    BY GraphShape
  <2> DEFINE e == E[t]
  <2>2. e \in SUBSET (Nat \X Nat)
    OBVIOUS
  <2> HIDE DEF e
  <2>3. NoSelf(e) \in SUBSET (Nat \X Nat) /\ \A x, y : <<x, y>> \in NoSelf(e) <=> <<x, y>> \in e /\ x # y
    BY <2>2 DEF NoSelf
  <2> QED BY <2>1, <2>3 DEF e
<1> QED BY <1>1

LEMMA CopiedInGraph ==
  ASSUME NEW g \in Graph, NEW from, NEW to \in Nat
  PROVE  LET h == WithCopiedDependencies(g, from, to) IN
           /\ h \in Graph /\ h = [g EXCEPT !.deps = h.deps]
           /\ \A t \in Tracks : \A x, y : <<x, y>> \in h.deps[t] <=>
                \/ <<x, y>> \in g.deps[t]
                \/ <<x, from>> \in g.deps[t] /\ y = to /\ x # to
                \/ <<from, y>> \in g.deps[t] /\ x = to /\ y # to
<1> DEFINE E == [t \in Tracks |-> (ParentsIn(g, from, t) \X {to}) \cup ({to} \X ChildrenIn(g, from, t))]
           D == [t \in Tracks |-> g.deps[t] \cup NoSelf(E[t])]
           h == WithCopiedDependencies(g, from, to)
<1>1. ASSUME NEW t \in Tracks
      PROVE  /\ E[t] \subseteq Nat \X Nat
             /\ \A x, y : <<x, y>> \in E[t] <=>
                  \/ <<x, from>> \in g.deps[t] /\ y = to
                  \/ <<from, y>> \in g.deps[t] /\ x = to
  <2> DEFINE A == ParentsIn(g, from, t)
             B == ChildrenIn(g, from, t)
  <2>1. /\ A \subseteq Nat /\ B \subseteq Nat
        /\ \A x : x \in A <=> <<x, from>> \in g.deps[t]
        /\ \A y : y \in B <=> <<from, y>> \in g.deps[t]
    BY NeighboursInGraph
  <2>2. E[t] = (A \X {to}) \cup ({to} \X B)
    OBVIOUS
  <2> HIDE DEF A, B, E
  <2> QED BY <2>1, <2>2
<1>2. h = [g EXCEPT !.deps = D]
  BY DEF WithCopiedDependencies, Graph
<1> HIDE DEF E
<1>3. /\ D \in [Tracks -> SUBSET (Nat \X Nat)]
      /\ \A t \in Tracks : \A x, y : <<x, y>> \in D[t] <=>
           <<x, y>> \in g.deps[t] \/ (<<x, y>> \in E[t] /\ x # y)
  BY <1>1, MoreEdges
<1> HIDE DEF D, h
<1>4. h \in Graph /\ h.deps = D /\ h = [g EXCEPT !.deps = h.deps]
  BY <1>2, <1>3 DEF Graph
<1> QED BY <1>1, <1>3, <1>4 DEF h

LEMMA AbsorbedInGraph ==
  ASSUME NEW g \in Graph, NEW survivor \in Nat, NEW duplicate
  PROVE  Absorbed(g, survivor, duplicate) \in Graph
BY CopiedInGraph, RemovedInGraph DEF Absorbed

LEMMA AbsorbedFacts ==
  ASSUME NEW g, WellFormed(g), NEW survivor \in Live(g), NEW duplicate \in Live(g)
  PROVE  LET h == Absorbed(g, survivor, duplicate) IN
           /\ WellFormed(h) /\ h.slots = g.slots /\ h.frozen = g.frozen
           /\ Live(h) = Live(g) \ {duplicate}
           /\ ToSet(h.usage) = {x \in ToSet(g.usage) : x.id # duplicate}
           /\ \A t \in Tracks : \A x, y : <<x, y>> \in h.deps[t] <=>
                /\ x # duplicate /\ y # duplicate
                /\ \/ <<x, y>> \in g.deps[t]
                   \/ <<x, duplicate>> \in g.deps[t] /\ y = survivor /\ x # survivor
                   \/ <<duplicate, y>> \in g.deps[t] /\ x = survivor /\ y # survivor
<1> DEFINE k == WithCopiedDependencies(g, duplicate, survivor)
<1>1. g \in Graph /\ survivor \in Nat
  BY GraphFacts DEF WellFormed
<1>2. /\ k \in Graph /\ k = [g EXCEPT !.deps = k.deps]
      /\ \A t \in Tracks : \A x, y : <<x, y>> \in k.deps[t] <=>
           \/ <<x, y>> \in g.deps[t]
           \/ <<x, duplicate>> \in g.deps[t] /\ y = survivor /\ x # survivor
           \/ <<duplicate, y>> \in g.deps[t] /\ x = survivor /\ y # survivor
  BY <1>1, CopiedInGraph
<1> HIDE DEF k
<1>3. k.deps \in [Tracks -> SUBSET (Nat \X Nat)]
  BY <1>2, GraphShape
<1>4. \A t \in Tracks : \A x, y : <<x, y>> \in k.deps[t] => x \in Live(g) /\ y \in Live(g) /\ x # y
  <2>1. \A t \in Tracks : \A x, y : <<x, y>> \in g.deps[t] => x \in Live(g) /\ y \in Live(g) /\ x # y
    BY GraphFacts
  <2> QED BY <1>2, <2>1
<1>5. WellFormed(k) /\ k.usage = g.usage /\ k.slots = g.slots /\ Live(k) = Live(g)
  <2> DEFINE D == k.deps
  <2>1. D \in [Tracks -> SUBSET (Nat \X Nat)] /\ k = [g EXCEPT !.deps = D]
    BY <1>2, <1>3
  <2>2. \A t \in Tracks : \A x, y : <<x, y>> \in D[t] => x \in Live(g) /\ y \in Live(g) /\ x # y
    BY <1>4
  <2> HIDE DEF D
  <2> QED BY <2>1, <2>2, NewEdges
<1>6. k.frozen = g.frozen
  BY <1>1, <1>2 DEF Graph
<1>7. duplicate \in Live(k) /\ Absorbed(g, survivor, duplicate) = RemovedNode(k, duplicate)
  BY <1>5 DEF Absorbed, k
<1> DEFINE h == RemovedNode(k, duplicate)
<1>8. /\ WellFormed(h) /\ Live(h) = Live(k) \ {duplicate} /\ h.slots = k.slots
      /\ ToSet(h.usage) = {x \in ToSet(k.usage) : x.id # duplicate}
      /\ \A t \in Tracks : \A x, y :
           <<x, y>> \in h.deps[t] <=> <<x, y>> \in k.deps[t] /\ x # duplicate /\ y # duplicate
      /\ h.frozen = k.frozen
  BY <1>5, <1>7, RemovedFacts
<1> HIDE DEF h
<1> QED BY <1>2, <1>5, <1>6, <1>7, <1>8 DEF h

\* The ids of the nodes of a kind and subtype.
KindIds(g, kind, s) == {x.id : x \in {y \in ToSet(g.usage) : y.kind = kind /\ y.subtype = s}}

\* A sequence without repetition is as long as it has members.
LEMMA DistinctLength ==
  ASSUME NEW P, NEW q \in Seq(P), Distinct(q)
  PROVE  IsFiniteSet(ToSet(q)) /\ Cardinality(ToSet(q)) = Len(q)
<1>1. Len(q) \in Nat /\ DOMAIN q = 1 .. Len(q) /\ q \in [1 .. Len(q) -> ToSet(q)]
  BY DEF ToSet
<1>2. q \in Bijection(1 .. Len(q), ToSet(q))
  <2>1. \A i, j \in 1 .. Len(q) : q[i] = q[j] => i = j
    BY DEF Distinct
  <2>2. \A x \in ToSet(q) : \E i \in 1 .. Len(q) : q[i] = x
    BY <1>1 DEF ToSet
  <2> DEFINE T == ToSet(q)
             I == 1 .. Len(q)
  <2> HIDE DEF T, I
  <2>3. q \in [I -> T]
    BY <1>1 DEF T, I
  <2>4. q \in Injection(I, T)
    BY <2>1, <2>3 DEF Injection, T, I, IsInjective
  <2>5. q \in Surjection(I, T)
    BY <2>2, <2>3 DEF Surjection, T, I
  <2> QED BY <2>4, <2>5 DEF Bijection, T, I
<1>3. IsFiniteSet(1 .. Len(q)) /\ Cardinality(1 .. Len(q)) = Len(q)
  BY <1>1, FS_Interval
<1>4. ExistsBijection(1 .. Len(q), ToSet(q))
  BY <1>2 DEF ExistsBijection
<1> QED BY <1>3, <1>4, FS_Bijection

LEMMA ChosenFacts ==
  ASSUME NEW g, WellFormed(g), NEW kind, NEW s
  PROVE  /\ Chosen(g, kind, s) \in Seq(Nat) /\ Distinct(Chosen(g, kind, s))
         /\ ToSet(Chosen(g, kind, s)) = KindIds(g, kind, s)
         /\ KindIds(g, kind, s) \subseteq Live(g)
         /\ IsFiniteSet(KindIds(g, kind, s)) /\ Len(Chosen(g, kind, s)) = Cardinality(KindIds(g, kind, s))
<1> DEFINE S == [id : Nat, kind : {kind}, subtype : {s}]
           those == Those(g.usage, S)
<1>1. /\ g \in Graph /\ g.usage \in Seq(Node) /\ DOMAIN g.usage = 1 .. Len(g.usage)
      /\ \A i, j \in 1 .. Len(g.usage) : g.usage[i].id = g.usage[j].id => i = j
      /\ \A i \in 1 .. Len(g.usage) : g.usage[i] \in Node
  <2>1. g \in Graph
    BY DEF WellFormed
  <2> QED BY <2>1, GraphShape, GraphFacts
<1>2. Distinct(g.usage)
  BY <1>1 DEF Distinct
<1>3. those \in Seq(Node) /\ ToSet(those) = ToSet(g.usage) \cap S /\ Distinct(those)
  BY <1>1, <1>2, ThoseFacts
<1>4. ToSet(g.usage) \cap S = {y \in ToSet(g.usage) : y.kind = kind /\ y.subtype = s}
  <2>1. ToSet(g.usage) \subseteq Node
    BY <1>1 DEF ToSet
  <2>2. \A y \in Node : y \in S <=> y.kind = kind /\ y.subtype = s
    BY DEF Node
  <2> QED BY <2>1, <2>2
<1> HIDE DEF S, those
<1>5. /\ IdsIn(those) \in Seq(Nat) /\ Len(IdsIn(those)) = Len(those)
      /\ DOMAIN those = 1 .. Len(those)
      /\ \A i \in 1 .. Len(those) : IdsIn(those)[i] = those[i].id
      /\ ToSet(IdsIn(those)) = {x.id : x \in ToSet(those)}
  BY <1>3, IdsFacts
<1>6. Chosen(g, kind, s) = IdsIn(those)
  BY DEF Chosen, those, S
<1>7. Distinct(IdsIn(those))
  <2>1. SUFFICES ASSUME NEW i \in 1 .. Len(those), NEW j \in 1 .. Len(those), those[i].id = those[j].id
                 PROVE  i = j
    BY <1>5 DEF Distinct
  <2>2. those[i] \in ToSet(g.usage) /\ those[j] \in ToSet(g.usage)
    BY <1>3, <1>5 DEF ToSet
  <2>3. \A x, y \in ToSet(g.usage) : x.id = y.id => x = y
    BY <1>1 DEF ToSet
  <2> QED BY <1>3, <2>1, <2>2, <2>3 DEF Distinct
<1>8. ToSet(IdsIn(those)) = KindIds(g, kind, s)
  BY <1>3, <1>4, <1>5 DEF KindIds
<1>9. KindIds(g, kind, s) \subseteq Live(g)
  BY <1>1, LiveOf DEF KindIds
<1> QED BY <1>5, <1>6, <1>7, <1>8, <1>9, DistinctLength

\* The subtypes met so far, in their order.
Seen(seen, kinds, n) ==
  IF n.kind \in kinds /\ ~Contains(seen, n.subtype) THEN Append(seen, n.subtype) ELSE seen

\* The nodes are met one after the other.
SubtypesRun(g, kinds, F) ==
  /\ F \in [0 .. Len(g.usage) -> Seq(Subtypes)] /\ F[0] = <<>> /\ F[Len(g.usage)] = SubtypesInOrder(g, kinds)
  /\ \A k \in 1 .. Len(g.usage) : F[k] = Seen(F[k - 1], kinds, g.usage[k])

LEMMA SubtypesRunExist ==
  ASSUME NEW g \in Graph, NEW kinds
  PROVE  \E F : SubtypesRun(g, kinds, F)
<1> DEFINE n == Len(g.usage)
           W == Seq(Subtypes)
           more(v, x) == Seen(v, kinds, x)
           h == [k \in 1 .. n |-> [v \in W |-> more(v, g.usage[k])]]
           It == CHOOSE it : it = [r \in SUBSET (1 .. n) |->
                   IF r = {} THEN <<>> ELSE more(it[r \ {Max(r)}], g.usage[Max(r)])]
<1>1. n \in Nat /\ DOMAIN g.usage = 1 .. n
  BY GraphShape
<1>2. <<>> \in W /\ \A k \in 1 .. n : \A v \in W : more(v, g.usage[k]) \in W
  <2> HIDE DEF n
  <2>1. \A k \in 1 .. n : g.usage[k].subtype \in Subtypes
    <3>1. \A k \in 1 .. n : g.usage[k] \in Node
      BY GraphShape DEF n
    <3> QED BY <3>1 DEF Node
  <2> QED BY <2>1 DEF Seen
<1>3. \A k \in 1 .. n : \A v \in W : Seen(v, kinds, g.usage[k]) = more(v, g.usage[k])
  OBVIOUS
<1> HIDE DEF n, W, more
<1>4. h \in [1 .. n -> [W -> W]]
  BY <1>2
<1>5. \A k \in 1 .. n : \A v \in W : h[k][v] = more(v, g.usage[k])
  OBVIOUS
<1> HIDE DEF h
<1>6. PICK m : FoldEquation(W, <<>>, h, n, m)
  BY <1>1, <1>2, <1>4, FoldExists
<1>7. m = [r \in SUBSET (1 .. n) |->
             IF r = {} THEN <<>> ELSE more(m[r \ {Max(r)}], g.usage[Max(r)])]
  <2>1. ASSUME NEW r \in SUBSET (1 .. n), r # {}
        PROVE  m[r] = more(m[r \ {Max(r)}], g.usage[Max(r)])
    <3>1. Max(r) \in 1 .. n
      BY <1>1, <2>1, MaxFacts
    <3>2. m[r \ {Max(r)}] \in W /\ m[r] = h[Max(r)][m[r \ {Max(r)}]]
      BY <1>6, <2>1 DEF FoldEquation
    <3> QED BY <1>5, <3>1, <3>2
  <2>2. m = [r \in SUBSET (1 .. n) |-> m[r]] /\ m[{}] = <<>>
    BY <1>6 DEF FoldEquation
  <2> QED BY <2>1, <2>2
<1>8. It = [r \in SUBSET (1 .. n) |->
              IF r = {} THEN <<>> ELSE more(It[r \ {Max(r)}], g.usage[Max(r)])]
  BY <1>7, Zenon
<1>9. SubtypesInOrder(g, kinds) = It[1 .. n]
  BY <1>1, Zenon DEF SubtypesInOrder, Seen, FoldLeft, MapThenFoldSet, more
<1> HIDE DEF It
<1>10. It[{}] = <<>> /\ \A k \in 1 .. n : It[1 .. k] = more(It[1 .. k-1], g.usage[k])
  <2>1. \A k \in 1 .. n : k \in 1 .. k
    BY <1>1
  <2>2. {} \in SUBSET (1 .. n)
    OBVIOUS
  <2>3. \A k \in 1 .. n : 1 .. k \in SUBSET (1 .. n) /\ Max(1 .. k) = k /\ (1 .. k) \ {k} = 1 .. k-1
    BY <1>1, PrefixSets
  <2> QED BY <1>8, <2>1, <2>2, <2>3
<1> DEFINE F == [k \in 0 .. n |-> It[1 .. k]]
<1>11. F[0] = <<>> /\ \A k \in 1 .. n : F[k] = more(F[k - 1], g.usage[k])
  <2>1. 1 .. 0 = {} /\ 0 \in 0 .. n /\ \A k \in 1 .. n : k \in 0 .. n /\ k - 1 \in 0 .. n
    BY <1>1
  <2> HIDE DEF more
  <2> QED BY <1>10, <2>1
<1>12. F \in [0 .. n -> W] /\ F[n] = It[1 .. n]
  <2> DEFINE WW == [k \in 0 .. n |-> W]
  <2>1. KeepsWithin(It, WW, n)
    <3>1. 0 \in 0 .. n /\ \A k \in 1 .. n : k \in 0 .. n /\ k - 1 \in 0 .. n
      BY <1>1
    <3> QED BY <1>2, <1>10, <3>1 DEF KeepsWithin
  <2> HIDE DEF WW
  <2>2. ASSUME NEW j \in 0 .. n PROVE It[1 .. j] \in W
    <3>1. j \in Nat /\ \A k \in 1 .. j : k \in 1 .. n
      BY <1>1
    <3>2. KeepsWithin(It, WW, j)
      BY <2>1, <3>1 DEF KeepsWithin
    <3>3. It[1 .. j] \in WW[j]
      BY <3>1, <3>2, FoldWithin
    <3> QED BY <3>3 DEF WW
  <2>3. n \in 0 .. n
    BY <1>1
  <2> QED BY <2>2, <2>3
<1> HIDE DEF F
<1>13. F \in [0 .. n -> W] /\ F[0] = <<>> /\ F[n] = SubtypesInOrder(g, kinds) /\ \A k \in 1 .. n : F[k] = more(F[k - 1], g.usage[k])
  BY <1>9, <1>11, <1>12
<1> HIDE DEF h
<1> QED BY <1>13 DEF n, W, more, SubtypesRun

LEMMA SubtypesFacts ==
  ASSUME NEW g \in Graph, NEW kinds
  PROVE  /\ SubtypesInOrder(g, kinds) \in Seq(Subtypes) /\ Distinct(SubtypesInOrder(g, kinds))
         /\ ToSet(SubtypesInOrder(g, kinds)) = {x.subtype : x \in {y \in ToSet(g.usage) : y.kind \in kinds}}
<1> DEFINE n == Len(g.usage)
<1>0. PICK F : SubtypesRun(g, kinds, F)
  BY SubtypesRunExist
<1>1. /\ F \in [0 .. n -> Seq(Subtypes)] /\ F[0] = <<>> /\ F[n] = SubtypesInOrder(g, kinds)
      /\ \A k \in 1 .. n : F[k] = Seen(F[k - 1], kinds, g.usage[k])
  BY <1>0 DEF SubtypesRun
<1>2. /\ n \in Nat /\ n \in 0 .. n /\ DOMAIN g.usage = 1 .. n
      /\ \A k \in 1 .. n : g.usage[k] \in Node /\ g.usage[k].subtype \in Subtypes
  <2>1. n \in Nat /\ DOMAIN g.usage = 1 .. n /\ \A k \in 1 .. n : g.usage[k] \in Node
    BY GraphShape
  <2>2. \A x \in Node : x.subtype \in Subtypes
    BY DEF Node
  <2> QED BY <2>1, <2>2
<1> DEFINE Met(k) == {g.usage[i].subtype : i \in {j \in 1 .. k : g.usage[j].kind \in kinds}}
           D == {k \in Nat : k <= n => Distinct(F[k]) /\ ToSet(F[k]) = Met(k)}
<1> HIDE DEF n
<1>3. 0 \in D
  <2>1. Met(0) = {}
    OBVIOUS
  <2>2. Distinct(<<>>) /\ ToSet(<<>>) = {}
    BY DEF Distinct, ToSet
  <2> QED BY <1>1, <2>1, <2>2
<1>4. ASSUME NEW k \in D PROVE k + 1 \in D
  <2>1. SUFFICES ASSUME k + 1 <= n PROVE Distinct(F[k + 1]) /\ ToSet(F[k + 1]) = Met(k + 1)
    BY <1>4
  <2>2. /\ k \in Nat /\ k + 1 \in 1 .. n /\ (k + 1) - 1 = k /\ k \in 0 .. n
        /\ Distinct(F[k]) /\ ToSet(F[k]) = Met(k)
    BY <1>2, <1>4, <2>1
  <2>3. PICK r \in Seq(Subtypes) : r = F[k]
    BY <1>1, <2>2
  <2>4. PICK s \in Subtypes : s = g.usage[k + 1].subtype
    BY <1>2, <2>2
  <2>5. /\ Len(r) \in Nat /\ DOMAIN r = 1 .. Len(r)
        /\ F[k + 1] = IF g.usage[k + 1].kind \in kinds /\ s \notin ToSet(r) THEN Append(r, s) ELSE r
    <3>1. Contains(r, s) <=> s \in ToSet(r)
      BY DEF Contains, ToSet
    <3>2. F[k + 1] = Seen(r, kinds, g.usage[k + 1])
      BY <1>1, <2>2, <2>3
    <3> QED BY <2>4, <3>1, <3>2 DEF Seen
  <2>6. Met(k + 1) = Met(k) \cup (IF g.usage[k + 1].kind \in kinds THEN {s} ELSE {})
    <3>1. 1 .. k + 1 = (1 .. k) \cup {k + 1}
      BY <2>2
    <3> QED BY <2>4, <3>1
  <2> HIDE DEF Met
  <2>7. CASE ~(g.usage[k + 1].kind \in kinds /\ s \notin ToSet(r))
    BY <2>2, <2>3, <2>5, <2>6, <2>7
  <2>8. CASE g.usage[k + 1].kind \in kinds /\ s \notin ToSet(r)
    <3> DEFINE q == Append(r, s)
    <3>1. /\ Len(q) = Len(r) + 1 /\ q[Len(r) + 1] = s /\ DOMAIN q = 1 .. Len(r) + 1
          /\ \A i \in 1 .. Len(r) : q[i] = r[i]
          /\ \A i \in 1 .. Len(r) + 1 : i \in 1 .. Len(r) \/ i = Len(r) + 1
          /\ \A i \in 1 .. Len(r) : i \in 1 .. Len(r) + 1
          /\ Len(r) + 1 \in 1 .. Len(r) + 1
      BY <2>5
    <3>2. F[k + 1] = q
      BY <2>5, <2>8
    <3> HIDE DEF q
    <3>3. \A i \in 1 .. Len(r) : r[i] # s
      BY <2>5, <2>8 DEF ToSet
    <3>4. Distinct(q)
      BY <2>2, <2>3, <3>1, <3>3 DEF Distinct
    <3>5. ToSet(q) = ToSet(r) \cup {s}
      BY <2>5, <3>1 DEF ToSet
    <3> QED BY <2>2, <2>3, <2>6, <2>8, <3>2, <3>4, <3>5
  <2> QED BY <2>7, <2>8
<1> HIDE DEF D
<1>5. D = Nat
  <2>1. D \subseteq Nat
    BY DEF D
  <2> QED BY <1>3, <1>4, <2>1, Reached
<1> HIDE DEF Met
<1>6. Distinct(F[n]) /\ ToSet(F[n]) = Met(n)
  BY <1>2, <1>5 DEF D
<1>7. Met(n) = {x.subtype : x \in {y \in ToSet(g.usage) : y.kind \in kinds}}
  BY <1>2 DEF ToSet, Met
<1> QED BY <1>1, <1>2, <1>6, <1>7

\* The duplicates go one after the other.
OneOfRun(g, ids, F) ==
  /\ F \in [0 .. Len(Tail(ids)) -> Graph] /\ F[0] = g /\ F[Len(Tail(ids))] = WithOneOf(g, ids)
  /\ \A k \in 1 .. Len(Tail(ids)) : F[k] = Absorbed(F[k - 1], Head(ids), Tail(ids)[k])

LEMMA OneOfRunExist ==
  ASSUME NEW g \in Graph, NEW ids \in Seq(Nat), ids # <<>>
  PROVE  \E F : OneOfRun(g, ids, F)
<1> DEFINE n == Len(Tail(ids))
           W == Graph
           more(v, x) == Absorbed(v, Head(ids), x)
           h == [k \in 1 .. n |-> [v \in W |-> more(v, Tail(ids)[k])]]
           It == CHOOSE it : it = [r \in SUBSET (1 .. n) |->
                   IF r = {} THEN g ELSE more(it[r \ {Max(r)}], Tail(ids)[Max(r)])]
<1>1. n \in Nat /\ DOMAIN Tail(ids) = 1 .. n
  OBVIOUS
<1>2. g \in W /\ \A k \in 1 .. n : \A v \in W : more(v, Tail(ids)[k]) \in W
  <2>1. Head(ids) \in Nat
    OBVIOUS
  <2> QED BY <2>1, AbsorbedInGraph
<1>3. \A k \in 1 .. n : \A v \in W : Absorbed(v, Head(ids), Tail(ids)[k]) = more(v, Tail(ids)[k])
  OBVIOUS
<1> HIDE DEF n, W, more
<1>4. h \in [1 .. n -> [W -> W]]
  BY <1>2
<1>5. \A k \in 1 .. n : \A v \in W : h[k][v] = more(v, Tail(ids)[k])
  OBVIOUS
<1> HIDE DEF h
<1>6. PICK m : FoldEquation(W, g, h, n, m)
  BY <1>1, <1>2, <1>4, FoldExists
<1>7. m = [r \in SUBSET (1 .. n) |->
             IF r = {} THEN g ELSE more(m[r \ {Max(r)}], Tail(ids)[Max(r)])]
  <2>1. ASSUME NEW r \in SUBSET (1 .. n), r # {}
        PROVE  m[r] = more(m[r \ {Max(r)}], Tail(ids)[Max(r)])
    <3>1. Max(r) \in 1 .. n
      BY <1>1, <2>1, MaxFacts
    <3>2. m[r \ {Max(r)}] \in W /\ m[r] = h[Max(r)][m[r \ {Max(r)}]]
      BY <1>6, <2>1 DEF FoldEquation
    <3> QED BY <1>5, <3>1, <3>2
  <2>2. m = [r \in SUBSET (1 .. n) |-> m[r]] /\ m[{}] = g
    BY <1>6 DEF FoldEquation
  <2> QED BY <2>1, <2>2
<1>8. It = [r \in SUBSET (1 .. n) |->
              IF r = {} THEN g ELSE more(It[r \ {Max(r)}], Tail(ids)[Max(r)])]
  BY <1>7, Zenon
<1>9. WithOneOf(g, ids) = It[1 .. n]
  BY <1>1, Zenon DEF WithOneOf, FoldLeft, MapThenFoldSet, more
<1> HIDE DEF It
<1>10. It[{}] = g /\ \A k \in 1 .. n : It[1 .. k] = more(It[1 .. k-1], Tail(ids)[k])
  <2>1. \A k \in 1 .. n : k \in 1 .. k
    BY <1>1
  <2>2. {} \in SUBSET (1 .. n)
    OBVIOUS
  <2>3. \A k \in 1 .. n : 1 .. k \in SUBSET (1 .. n) /\ Max(1 .. k) = k /\ (1 .. k) \ {k} = 1 .. k-1
    BY <1>1, PrefixSets
  <2> QED BY <1>8, <2>1, <2>2, <2>3
<1> DEFINE F == [k \in 0 .. n |-> It[1 .. k]]
<1>11. F[0] = g /\ \A k \in 1 .. n : F[k] = more(F[k - 1], Tail(ids)[k])
  <2>1. 1 .. 0 = {} /\ 0 \in 0 .. n /\ \A k \in 1 .. n : k \in 0 .. n /\ k - 1 \in 0 .. n
    BY <1>1
  <2> HIDE DEF more
  <2> QED BY <1>10, <2>1
<1>12. F \in [0 .. n -> W] /\ F[n] = It[1 .. n]
  <2> DEFINE WW == [k \in 0 .. n |-> W]
  <2>1. KeepsWithin(It, WW, n)
    <3>1. 0 \in 0 .. n /\ \A k \in 1 .. n : k \in 0 .. n /\ k - 1 \in 0 .. n
      BY <1>1
    <3> QED BY <1>2, <1>10, <3>1 DEF KeepsWithin
  <2> HIDE DEF WW
  <2>2. ASSUME NEW j \in 0 .. n PROVE It[1 .. j] \in W
    <3>1. j \in Nat /\ \A k \in 1 .. j : k \in 1 .. n
      BY <1>1
    <3>2. KeepsWithin(It, WW, j)
      BY <2>1, <3>1 DEF KeepsWithin
    <3>3. It[1 .. j] \in WW[j]
      BY <3>1, <3>2, FoldWithin
    <3> QED BY <3>3 DEF WW
  <2>3. n \in 0 .. n
    BY <1>1
  <2> QED BY <2>2, <2>3
<1> HIDE DEF F
<1>13. F \in [0 .. n -> W] /\ F[0] = g /\ F[n] = WithOneOf(g, ids) /\ \A k \in 1 .. n : F[k] = more(F[k - 1], Tail(ids)[k])
  BY <1>9, <1>11, <1>12
<1> HIDE DEF h
<1> QED BY <1>13 DEF n, W, more, OneOfRun

LEMMA OneOfFacts ==
  ASSUME NEW g, WellFormed(g), NEW ids \in Seq(Nat), ids # <<>>, Distinct(ids), ToSet(ids) \subseteq Live(g)
  PROVE  LET h == WithOneOf(g, ids) IN
           /\ WellFormed(h) /\ h.slots = g.slots /\ h.frozen = g.frozen
           /\ ToSet(h.usage) = {x \in ToSet(g.usage) : x.id \notin ToSet(Tail(ids))}
<1> DEFINE rest == Tail(ids)
           n == Len(rest)
           first == Head(ids)
<1>1. g \in Graph
  BY DEF WellFormed
<1>2. PICK F : OneOfRun(g, ids, F)
  BY <1>1, OneOfRunExist
<1>3. /\ F[0] = g /\ F[n] = WithOneOf(g, ids)
      /\ \A k \in 1 .. n : F[k] = Absorbed(F[k - 1], first, rest[k])
  BY <1>2 DEF OneOfRun
<1>4. /\ n \in Nat /\ DOMAIN rest = 1 .. n /\ first = ids[1]
      /\ \A k \in 1 .. n : rest[k] = ids[k + 1] /\ k + 1 \in 1 .. Len(ids) /\ k + 1 # 1
      /\ 1 \in 1 .. Len(ids) /\ DOMAIN ids = 1 .. Len(ids)
  OBVIOUS
<1> HIDE DEF rest, n, first
<1>5. /\ first \in Live(g) /\ \A k \in 1 .. n : rest[k] \in Live(g) /\ rest[k] # first
      /\ \A j, k \in 1 .. n : rest[j] = rest[k] => j = k
  <2>1. \A k \in 1 .. Len(ids) : ids[k] \in Live(g)
    BY <1>4 DEF ToSet
  <2>2. \A j, k \in 1 .. n : j + 1 = k + 1 => j = k
    OBVIOUS
  <2> QED BY <1>4, <2>1, <2>2 DEF Distinct
<1> DEFINE Gone(k) == {rest[j] : j \in 1 .. k}
           Good(h, k) == /\ WellFormed(h) /\ h.slots = g.slots /\ h.frozen = g.frozen
                         /\ ToSet(h.usage) = {x \in ToSet(g.usage) : x.id \notin Gone(k)}
           D == {k \in Nat : k <= n => Good(F[k], k)}
<1>6. 0 \in D
  <2>1. Gone(0) = {}
    OBVIOUS
  <2> QED BY <1>3, <2>1
<1> HIDE DEF Good
<1>7. ASSUME NEW k \in D PROVE k + 1 \in D
  <2>1. SUFFICES ASSUME k + 1 <= n PROVE Good(F[k + 1], k + 1)
    BY <1>7
  <2> DEFINE h == F[k]
             d == rest[k + 1]
  <2>2. /\ k \in Nat /\ k + 1 \in 1 .. n /\ (k + 1) - 1 = k /\ Good(h, k)
        /\ \A j \in 1 .. k : j \in 1 .. n /\ j # k + 1
    <3>1. k \in Nat /\ k + 1 \in 1 .. n /\ (k + 1) - 1 = k /\ k <= n
      BY <1>4, <1>7, <2>1
    <3>2. Good(h, k)
      BY <1>7, <3>1
    <3> QED BY <1>4, <3>1, <3>2
  <2>3. F[k + 1] = Absorbed(h, first, d)
    BY <1>3, <2>2
  <2>4. Gone(k + 1) = Gone(k) \cup {d}
    <3>1. 1 .. k + 1 = (1 .. k) \cup {k + 1}
      BY <2>2
    <3> QED BY <3>1
  <2>5. first \notin Gone(k) /\ d \notin Gone(k)
    BY <1>5, <2>2
  <2> HIDE DEF h, d, Gone
  <2>6. Live(h) = {m \in Live(g) : m \notin Gone(k)}
    <3>1. h \in Graph
      BY <2>2 DEF Good, WellFormed
    <3>2. Live(h) = {x.id : x \in ToSet(h.usage)} /\ Live(g) = {x.id : x \in ToSet(g.usage)}
      BY <1>1, <3>1, LiveOf
    <3> QED BY <2>2, <3>2 DEF Good
  <2>7. first \in Live(h) /\ d \in Live(h)
    BY <1>5, <2>2, <2>5, <2>6 DEF d
  <2> DEFINE a == Absorbed(h, first, d)
  <2>8. /\ WellFormed(a) /\ a.slots = h.slots /\ a.frozen = h.frozen
        /\ ToSet(a.usage) = {x \in ToSet(h.usage) : x.id # d}
    <3>1. WellFormed(h)
      BY <2>2 DEF Good
    <3> QED BY <2>7, <3>1, AbsorbedFacts
  <2> HIDE DEF a
  <2> QED BY <2>2, <2>3, <2>4, <2>8 DEF a, Good
<1> HIDE DEF D
<1>8. D = Nat
  <2>1. D \subseteq Nat
    BY DEF D
  <2> QED BY <1>6, <1>7, <2>1, Reached
<1>9. Good(F[n], n)
  <2>1. n \in Nat /\ n <= n
    BY <1>4
  <2> QED BY <1>8, <2>1, Zenon DEF D
<1>10. Gone(n) = ToSet(rest)
  BY <1>4 DEF ToSet
<1> QED BY <1>3, <1>9, <1>10 DEF rest, Good

LEMMA GroupsFacts ==
  ASSUME NEW g, WellFormed(g)
  PROVE  LET G == UniqueGroups(g) IN
           /\ Len(G) \in Nat /\ DOMAIN G = 1 .. Len(G)
           /\ \A k \in 1 .. Len(G) :
                /\ G[k] \in Seq(Nat) /\ G[k] # <<>> /\ Distinct(G[k]) /\ ToSet(G[k]) \subseteq Live(g)
                /\ \A x \in ToSet(g.usage) : x.id \in ToSet(G[k]) => x.kind = "unique"
           /\ \A j, k \in 1 .. Len(G) : j # k => ToSet(G[j]) \cap ToSet(G[k]) = {}
<1> DEFINE q == SubtypesInOrder(g, {"unique"})
           G == UniqueGroups(g)
<1>1. g \in Graph
  BY DEF WellFormed
<1>2. /\ q \in Seq(Subtypes) /\ Distinct(q)
      /\ ToSet(q) = {x.subtype : x \in {y \in ToSet(g.usage) : y.kind \in {"unique"}}}
  BY <1>1, SubtypesFacts
<1>3. G = [i \in DOMAIN q |-> Chosen(g, "unique", q[i])]
  BY DEF UniqueGroups
<1> HIDE DEF q, G
<1>4. /\ DOMAIN q = 1 .. Len(q) /\ Len(q) \in Nat
  BY <1>2
<1>5. \A s : /\ Chosen(g, "unique", s) \in Seq(Nat) /\ Distinct(Chosen(g, "unique", s))
             /\ ToSet(Chosen(g, "unique", s)) = KindIds(g, "unique", s)
             /\ KindIds(g, "unique", s) \subseteq Live(g)
  BY ChosenFacts
<1>6. Len(G) = Len(q) /\ DOMAIN G = 1 .. Len(q) /\ \A k \in 1 .. Len(q) : G[k] = Chosen(g, "unique", q[k])
  <2>1. G \in [1 .. Len(q) -> Seq(Nat)]
    BY <1>3, <1>4, <1>5
  <2> QED BY <1>3, <1>4, <2>1
<1>7. \A x, y \in ToSet(g.usage) : x.id = y.id => x = y
  <2>1. DOMAIN g.usage = 1 .. Len(g.usage)
    BY <1>1, GraphShape
  <2>2. \A i, j \in 1 .. Len(g.usage) : g.usage[i].id = g.usage[j].id => i = j
    BY GraphFacts
  <2> QED BY <2>1, <2>2 DEF ToSet
<1>8. \A s : \A x \in ToSet(g.usage) : x.id \in KindIds(g, "unique", s) => x.kind = "unique" /\ x.subtype = s
  BY <1>7 DEF KindIds
<1>9. ASSUME NEW k \in 1 .. Len(q) PROVE Chosen(g, "unique", q[k]) # <<>>
  <2>1. q[k] \in ToSet(q)
    BY <1>4 DEF ToSet
  <2>2. PICK x \in ToSet(g.usage) : x.kind = "unique" /\ x.subtype = q[k]
    BY <1>2, <2>1
  <2>3. KindIds(g, "unique", q[k]) # {}
    BY <2>2 DEF KindIds
  <2>4. ToSet(<<>>) = {}
    BY DEF ToSet
  <2> QED BY <1>5, <2>3, <2>4
<1>10. ASSUME NEW j \in 1 .. Len(q), NEW k \in 1 .. Len(q), j # k
       PROVE  KindIds(g, "unique", q[j]) \cap KindIds(g, "unique", q[k]) = {}
  <2>1. q[j] # q[k]
    BY <1>2, <1>10 DEF Distinct
  <2>2. \A s : \A m \in KindIds(g, "unique", s) : \E x \in ToSet(g.usage) : x.id = m /\ x.subtype = s
    BY DEF KindIds
  <2> QED BY <1>7, <2>1, <2>2
<1>11. ASSUME NEW k \in 1 .. Len(q)
       PROVE  /\ G[k] \in Seq(Nat) /\ G[k] # <<>> /\ Distinct(G[k]) /\ ToSet(G[k]) \subseteq Live(g)
              /\ \A x \in ToSet(g.usage) : x.id \in ToSet(G[k]) => x.kind = "unique"
              /\ ToSet(G[k]) = KindIds(g, "unique", q[k])
  <2>1. G[k] = Chosen(g, "unique", q[k])
    BY <1>6
  <2>2. /\ Chosen(g, "unique", q[k]) \in Seq(Nat) /\ Distinct(Chosen(g, "unique", q[k]))
        /\ ToSet(Chosen(g, "unique", q[k])) = KindIds(g, "unique", q[k])
        /\ KindIds(g, "unique", q[k]) \subseteq Live(g)
    BY <1>5
  <2>3. \A x \in ToSet(g.usage) : x.id \in KindIds(g, "unique", q[k]) => x.kind = "unique"
    BY <1>8
  <2> QED BY <1>9, <2>1, <2>2, <2>3
<1>12. \A j, k \in 1 .. Len(q) : j # k => ToSet(G[j]) \cap ToSet(G[k]) = {}
  BY <1>10, <1>11
<1> QED BY <1>4, <1>6, <1>11, <1>12 DEF G

\* A group after the other is merged.
UniqueRun(g, F) ==
  /\ F \in [0 .. Len(UniqueGroups(g)) -> Graph] /\ F[0] = g /\ F[Len(UniqueGroups(g))] = MergedUnique(g)
  /\ \A k \in 1 .. Len(UniqueGroups(g)) : F[k] = WithOneOf(F[k - 1], UniqueGroups(g)[k])

LEMMA UniqueRunExist ==
  ASSUME NEW g, WellFormed(g)
  PROVE  \E F : UniqueRun(g, F)
<1> DEFINE n == Len(UniqueGroups(g))
           W == Graph
           more(v, x) == WithOneOf(v, x)
           h == [k \in 1 .. n |-> [v \in W |-> more(v, UniqueGroups(g)[k])]]
           It == CHOOSE it : it = [r \in SUBSET (1 .. n) |->
                   IF r = {} THEN g ELSE more(it[r \ {Max(r)}], UniqueGroups(g)[Max(r)])]
<1>1. n \in Nat /\ DOMAIN UniqueGroups(g) = 1 .. n
  BY GroupsFacts
<1>2. g \in W /\ \A k \in 1 .. n : \A v \in W : more(v, UniqueGroups(g)[k]) \in W
  <2>1. g \in Graph
    BY DEF WellFormed
  <2>2. ASSUME NEW k \in 1 .. n, NEW v \in Graph PROVE WithOneOf(v, UniqueGroups(g)[k]) \in Graph
    <3> DEFINE ids == UniqueGroups(g)[k]
    <3>1. ids \in Seq(Nat) /\ ids # <<>>
      BY GroupsFacts
    <3> HIDE DEF ids
    <3>2. PICK F : OneOfRun(v, ids, F)
      BY <3>1, OneOfRunExist
    <3>3. Len(Tail(ids)) \in Nat
      BY <3>1
    <3>4. F[Len(Tail(ids))] \in Graph
      BY <3>2, <3>3 DEF OneOfRun
    <3> QED BY <3>2, <3>4 DEF OneOfRun, ids
  <2> QED BY <2>1, <2>2
<1>3. \A k \in 1 .. n : \A v \in W : WithOneOf(v, UniqueGroups(g)[k]) = more(v, UniqueGroups(g)[k])
  OBVIOUS
<1> HIDE DEF n, W, more
<1>4. h \in [1 .. n -> [W -> W]]
  BY <1>2
<1>5. \A k \in 1 .. n : \A v \in W : h[k][v] = more(v, UniqueGroups(g)[k])
  OBVIOUS
<1> HIDE DEF h
<1>6. PICK m : FoldEquation(W, g, h, n, m)
  BY <1>1, <1>2, <1>4, FoldExists
<1>7. m = [r \in SUBSET (1 .. n) |->
             IF r = {} THEN g ELSE more(m[r \ {Max(r)}], UniqueGroups(g)[Max(r)])]
  <2>1. ASSUME NEW r \in SUBSET (1 .. n), r # {}
        PROVE  m[r] = more(m[r \ {Max(r)}], UniqueGroups(g)[Max(r)])
    <3>1. Max(r) \in 1 .. n
      BY <1>1, <2>1, MaxFacts
    <3>2. m[r \ {Max(r)}] \in W /\ m[r] = h[Max(r)][m[r \ {Max(r)}]]
      BY <1>6, <2>1 DEF FoldEquation
    <3> QED BY <1>5, <3>1, <3>2
  <2>2. m = [r \in SUBSET (1 .. n) |-> m[r]] /\ m[{}] = g
    BY <1>6 DEF FoldEquation
  <2> QED BY <2>1, <2>2
<1>8. It = [r \in SUBSET (1 .. n) |->
              IF r = {} THEN g ELSE more(It[r \ {Max(r)}], UniqueGroups(g)[Max(r)])]
  BY <1>7, Zenon
<1>9. MergedUnique(g) = It[1 .. n]
  BY <1>1, Zenon DEF MergedUnique, FoldLeft, MapThenFoldSet, more
<1> HIDE DEF It
<1>10. It[{}] = g /\ \A k \in 1 .. n : It[1 .. k] = more(It[1 .. k-1], UniqueGroups(g)[k])
  <2>1. \A k \in 1 .. n : k \in 1 .. k
    BY <1>1
  <2>2. {} \in SUBSET (1 .. n)
    OBVIOUS
  <2>3. \A k \in 1 .. n : 1 .. k \in SUBSET (1 .. n) /\ Max(1 .. k) = k /\ (1 .. k) \ {k} = 1 .. k-1
    BY <1>1, PrefixSets
  <2> QED BY <1>8, <2>1, <2>2, <2>3
<1> DEFINE F == [k \in 0 .. n |-> It[1 .. k]]
<1>11. F[0] = g /\ \A k \in 1 .. n : F[k] = more(F[k - 1], UniqueGroups(g)[k])
  <2>1. 1 .. 0 = {} /\ 0 \in 0 .. n /\ \A k \in 1 .. n : k \in 0 .. n /\ k - 1 \in 0 .. n
    BY <1>1
  <2> HIDE DEF more
  <2> QED BY <1>10, <2>1
<1>12. F \in [0 .. n -> W] /\ F[n] = It[1 .. n]
  <2> DEFINE WW == [k \in 0 .. n |-> W]
  <2>1. KeepsWithin(It, WW, n)
    <3>1. 0 \in 0 .. n /\ \A k \in 1 .. n : k \in 0 .. n /\ k - 1 \in 0 .. n
      BY <1>1
    <3> QED BY <1>2, <1>10, <3>1 DEF KeepsWithin
  <2> HIDE DEF WW
  <2>2. ASSUME NEW j \in 0 .. n PROVE It[1 .. j] \in W
    <3>1. j \in Nat /\ \A k \in 1 .. j : k \in 1 .. n
      BY <1>1
    <3>2. KeepsWithin(It, WW, j)
      BY <2>1, <3>1 DEF KeepsWithin
    <3>3. It[1 .. j] \in WW[j]
      BY <3>1, <3>2, FoldWithin
    <3> QED BY <3>3 DEF WW
  <2>3. n \in 0 .. n
    BY <1>1
  <2> QED BY <2>2, <2>3
<1> HIDE DEF F
<1>13. F \in [0 .. n -> W] /\ F[0] = g /\ F[n] = MergedUnique(g) /\ \A k \in 1 .. n : F[k] = more(F[k - 1], UniqueGroups(g)[k])
  BY <1>9, <1>11, <1>12
<1> HIDE DEF h
<1> QED BY <1>13 DEF n, W, more, UniqueRun

LEMMA UniqueMergedFacts ==
  ASSUME NEW g, WellFormed(g)
  PROVE  LET h == MergedUnique(g) IN
           /\ WellFormed(h) /\ h.slots = g.slots /\ h.frozen = g.frozen
           /\ ToSet(h.usage) \subseteq ToSet(g.usage)
           /\ \A x \in ToSet(g.usage) : x.kind # "unique" => x \in ToSet(h.usage)
<1> DEFINE G == UniqueGroups(g)
           n == Len(G)
<1>1. g \in Graph
  BY DEF WellFormed
<1>2. PICK F : UniqueRun(g, F)
  BY UniqueRunExist
<1>3. /\ F[0] = g /\ F[n] = MergedUnique(g)
      /\ \A k \in 1 .. n : F[k] = WithOneOf(F[k - 1], G[k])
  BY <1>2 DEF UniqueRun
<1>4. /\ n \in Nat /\ DOMAIN G = 1 .. n
      /\ \A k \in 1 .. n :
           /\ G[k] \in Seq(Nat) /\ G[k] # <<>> /\ Distinct(G[k]) /\ ToSet(G[k]) \subseteq Live(g)
           /\ \A x \in ToSet(g.usage) : x.id \in ToSet(G[k]) => x.kind = "unique"
      /\ \A j, k \in 1 .. n : j # k => ToSet(G[j]) \cap ToSet(G[k]) = {}
  BY GroupsFacts
<1> HIDE DEF G, n
<1> DEFINE Left(k) == {x \in ToSet(g.usage) : \A j \in 1 .. k : x.id \notin ToSet(Tail(G[j]))}
           Good(h, k) == /\ WellFormed(h) /\ h.slots = g.slots /\ h.frozen = g.frozen
                         /\ ToSet(h.usage) = Left(k)
           D == {k \in Nat : k <= n => Good(F[k], k)}
<1>5. \A k \in 1 .. n : ToSet(Tail(G[k])) \subseteq ToSet(G[k])
  <2>1. \A q \in Seq(Nat) : q # <<>> => ToSet(Tail(q)) \subseteq ToSet(q)
    <3>1. SUFFICES ASSUME NEW q \in Seq(Nat), q # <<>> PROVE ToSet(Tail(q)) \subseteq ToSet(q)
      OBVIOUS
    <3>2. /\ DOMAIN q = 1 .. Len(q) /\ DOMAIN Tail(q) = 1 .. Len(q) - 1
          /\ \A i \in 1 .. Len(q) - 1 : Tail(q)[i] = q[i + 1] /\ i + 1 \in 1 .. Len(q)
      BY <3>1
    <3> QED BY <3>2 DEF ToSet
  <2> QED BY <1>4, <2>1
<1>6. 0 \in D
  <2>1. 1 .. 0 = {}
    OBVIOUS
  <2>2. Left(0) = ToSet(g.usage)
    BY <2>1
  <2> QED BY <1>3, <2>2
<1> HIDE DEF Good
<1>7. ASSUME NEW k \in D PROVE k + 1 \in D
  <2>1. SUFFICES ASSUME k + 1 <= n PROVE Good(F[k + 1], k + 1)
    BY <1>7
  <2> DEFINE h == F[k]
             ids == G[k + 1]
             a == WithOneOf(h, ids)
  <2>2. k \in Nat /\ k + 1 \in 1 .. n /\ (k + 1) - 1 = k /\ k <= n
    BY <1>4, <1>7, <2>1
  <2>3. Good(h, k)
    BY <1>7, <2>2
  <2>4. F[k + 1] = a
    BY <1>3, <2>2
  <2>5. \A j \in 1 .. k : j \in 1 .. n /\ j # k + 1
    BY <1>4, <2>2
  <2>6. /\ ids \in Seq(Nat) /\ ids # <<>> /\ Distinct(ids) /\ ToSet(ids) \subseteq Live(g)
        /\ \A j \in 1 .. k : ToSet(G[j]) \cap ToSet(ids) = {} /\ ToSet(Tail(G[j])) \subseteq ToSet(G[j])
    BY <1>4, <1>5, <2>2, <2>5
  <2>7. Left(k + 1) = {x \in Left(k) : x.id \notin ToSet(Tail(ids))}
    <3>1. 1 .. k + 1 = (1 .. k) \cup {k + 1}
      BY <2>2
    <3> QED BY <3>1
  <2> HIDE DEF h, ids
  <2>8. ToSet(ids) \subseteq Live(h)
    <3>1. h \in Graph /\ ToSet(h.usage) = Left(k)
      BY <2>3 DEF Good, WellFormed
    <3>2. Live(h) = {x.id : x \in ToSet(h.usage)} /\ Live(g) = {x.id : x \in ToSet(g.usage)}
      BY <1>1, <3>1, LiveOf
    <3>3. SUFFICES ASSUME NEW m \in ToSet(ids) PROVE m \in Live(h)
      OBVIOUS
    <3>4. PICK x \in ToSet(g.usage) : x.id = m
      BY <2>6, <3>2, <3>3
    <3>5. x \in Left(k)
      BY <2>6, <3>3, <3>4
    <3> QED BY <3>1, <3>2, <3>4, <3>5
  <2>9. /\ WellFormed(a) /\ a.slots = h.slots /\ a.frozen = h.frozen
        /\ ToSet(a.usage) = {x \in ToSet(h.usage) : x.id \notin ToSet(Tail(ids))}
    <3>1. WellFormed(h)
      BY <2>3 DEF Good
    <3> QED BY <2>6, <2>8, <3>1, OneOfFacts
  <2> HIDE DEF a, Left
  <2> QED BY <2>3, <2>4, <2>7, <2>9 DEF Good
<1> HIDE DEF D
<1>8. D = Nat
  <2>1. D \subseteq Nat
    BY DEF D
  <2> QED BY <1>6, <1>7, <2>1, Reached
<1>9. Good(F[n], n)
  <2>1. n \in Nat /\ n <= n
    BY <1>4
  <2> QED BY <1>8, <2>1, Zenon DEF D
<1>10. \A x \in ToSet(g.usage) : x.kind # "unique" => x \in Left(n)
  BY <1>4, <1>5
<1> QED BY <1>3, <1>9, <1>10 DEF Good

\* Nothing of a kind that is not merged away is lost.
LEMMA UniqueKeepsKinds ==
  ASSUME NEW g, WellFormed(g), NEW kind, kind # "unique", NEW s
  PROVE  KindIds(MergedUnique(g), kind, s) = KindIds(g, kind, s)
<1>1. /\ ToSet(MergedUnique(g).usage) \subseteq ToSet(g.usage)
      /\ \A x \in ToSet(g.usage) : x.kind # "unique" => x \in ToSet(MergedUnique(g).usage)
  BY UniqueMergedFacts
<1> QED BY <1>1 DEF KindIds

LEMMA StitchedFacts ==
  ASSUME NEW g, WellFormed(g), NEW b1 \in Live(g), NEW e1 \in Live(g), NEW b2 \in Live(g),
         NEW e2 \in Live(g), e1 # b2
  PROVE  LET h == Stitched(g, b1, e1, b2, e2) IN
           WellFormed(h) /\ h.usage = g.usage /\ h.slots = g.slots /\ h.frozen = g.frozen
<1> DEFINE Linked(t) == g.deps[t] \cup NoSelf(ParentsIn(g, b2, t) \X {b1})
           After(t) == {e[2] : e \in {d \in Linked(t) : d[1] = e1}}
           D == [t \in Tracks |-> (Linked(t) \ ({e1} \X After(t)))
                                     \cup NoSelf({e2} \X After(t)) \cup {<<e1, b2>>}]
           L == Live(g)
           h == Stitched(g, b1, e1, b2, e2)
<1>1. g \in Graph /\ L \subseteq Nat
  BY GraphFacts DEF WellFormed
<1>2. h = [g EXCEPT !.deps = D]
  BY <1>1 DEF Stitched, Graph
<1>3. ASSUME NEW t \in Tracks
      PROVE  /\ D[t] \in SUBSET (L \X L)
             /\ \A x, y : <<x, y>> \in D[t] => x # y
  <2> DEFINE A == ParentsIn(g, b2, t)
             B == NoSelf(A \X {b1})
             K == Linked(t)
             C == After(t)
             S == NoSelf({e2} \X C)
  <2>1. /\ g.deps[t] \subseteq L \X L /\ \A x, y : <<x, y>> \in g.deps[t] => x # y
        /\ A \subseteq L
    <3>1. g.deps[t] \subseteq L \X L
      BY DEF WellFormed
    <3>2. \A x : x \in A <=> <<x, b2>> \in g.deps[t]
      BY Neighbours
    <3> QED BY <3>1, <3>2, GraphFacts
  <2>2. K = g.deps[t] \cup B /\ C = {e[2] : e \in {d \in K : d[1] = e1}}
    OBVIOUS
  <2>3. D[t] = (K \ ({e1} \X C)) \cup S \cup {<<e1, b2>>}
    OBVIOUS
  <2> HIDE DEF A, K, C, L, D
  <2>4. B \subseteq L \X L /\ \A x, y : <<x, y>> \in B => x # y
    BY <2>1 DEF NoSelf, L
  <2> HIDE DEF B
  <2>5. K \subseteq L \X L /\ \A x, y : <<x, y>> \in K => x # y
    BY <2>1, <2>2, <2>4
  <2>6. C \subseteq L
    BY <2>2, <2>5
  <2>7. S \subseteq L \X L /\ \A x, y : <<x, y>> \in S => x # y
    BY <2>6 DEF NoSelf, L
  <2> HIDE DEF S
  <2>8. <<e1, b2>> \in L \X L
    BY DEF L
  <2> QED BY <2>3, <2>5, <2>7, <2>8
<1> HIDE DEF D, h, L
<1>4. /\ D \in [Tracks -> SUBSET (Nat \X Nat)]
      /\ \A t \in Tracks : \A x, y : <<x, y>> \in D[t] => x \in Live(g) /\ y \in Live(g) /\ x # y
  <2>1. D \in [Tracks -> SUBSET (L \X L)]
    BY <1>3, ZenonT(60) DEF D
  <2> QED BY <1>1, <1>3, <2>1 DEF L
<1>5. WellFormed(h) /\ h.usage = g.usage /\ h.slots = g.slots
  BY <1>2, <1>4, NewEdges
<1>6. h.frozen = g.frozen
  BY <1>1, <1>2 DEF Graph
<1> QED BY <1>5, <1>6 DEF h

\* The graphs that keep the nodes of g.
SameNodes(g) == {h \in Graph : /\ WellFormed(h) /\ h.usage = g.usage
                               /\ h.slots = g.slots /\ h.frozen = g.frozen}

\* The begins and the ends of a subtype, each end with its begin.
PairedIn(g, s) == Len(Chosen(g, "sequenceBegin", s)) = Len(Chosen(g, "sequenceEnd", s))

LEMMA PairFacts ==
  ASSUME NEW g, WellFormed(g), NEW s, PairedIn(g, s),
         NEW i \in 1 .. Len(Chosen(g, "sequenceBegin", s)),
         NEW j \in 1 .. Len(Chosen(g, "sequenceBegin", s))
  PROVE  /\ Chosen(g, "sequenceBegin", s)[i] \in Live(g) /\ Chosen(g, "sequenceEnd", s)[j] \in Live(g)
         /\ Chosen(g, "sequenceEnd", s)[j] # Chosen(g, "sequenceBegin", s)[i]
<1> DEFINE b == Chosen(g, "sequenceBegin", s)
           e == Chosen(g, "sequenceEnd", s)
<1>1. /\ b \in Seq(Nat) /\ ToSet(b) = KindIds(g, "sequenceBegin", s) /\ KindIds(g, "sequenceBegin", s) \subseteq Live(g)
      /\ e \in Seq(Nat) /\ ToSet(e) = KindIds(g, "sequenceEnd", s) /\ KindIds(g, "sequenceEnd", s) \subseteq Live(g)
  BY ChosenFacts
<1>2. i \in 1 .. Len(b) /\ j \in 1 .. Len(e)
  BY DEF PairedIn
<1> HIDE DEF b, e
<1>3. b[i] \in KindIds(g, "sequenceBegin", s) /\ e[j] \in KindIds(g, "sequenceEnd", s)
  <2>1. DOMAIN b = 1 .. Len(b) /\ DOMAIN e = 1 .. Len(e)
    BY <1>1
  <2> QED BY <1>1, <1>2, <2>1 DEF ToSet
<1>4. e[j] # b[i]
  <2>1. PICK x \in ToSet(g.usage) : x.id = b[i] /\ x.kind = "sequenceBegin"
    BY <1>3 DEF KindIds
  <2>2. PICK y \in ToSet(g.usage) : y.id = e[j] /\ y.kind = "sequenceEnd"
    BY <1>3 DEF KindIds
  <2>3. g \in Graph
    BY DEF WellFormed
  <2>4. DOMAIN g.usage = 1 .. Len(g.usage)
    BY <2>3, GraphShape
  <2>5. PICK k \in 1 .. Len(g.usage), m \in 1 .. Len(g.usage) : x = g.usage[k] /\ y = g.usage[m]
    BY <2>1, <2>2, <2>4 DEF ToSet
  <2>6. x.id = y.id => k = m
    BY <2>5, GraphFacts
  <2> QED BY <2>1, <2>2, <2>5, <2>6
<1> QED BY <1>1, <1>3, <1>4 DEF b, e

\* The pairs that have one behind them.
Later(g, s) == [i \in 1 .. Len(Chosen(g, "sequenceBegin", s)) - 1 |-> i]

\* A later pair of a sequence after the other is stitched to the first.
StitchRun(g, s, F) ==
  /\ F \in [0 .. Len(Later(g, s)) -> SameNodes(g)] /\ F[0] = g /\ F[Len(Later(g, s))] = WithOneSequence(g, s)
  /\ \A k \in 1 .. Len(Later(g, s)) : F[k] = Stitched(F[k - 1], Chosen(g, "sequenceBegin", s)[1], Chosen(g, "sequenceEnd", s)[Later(g, s)[k]], Chosen(g, "sequenceBegin", s)[Later(g, s)[k] + 1], Chosen(g, "sequenceEnd", s)[Later(g, s)[k] + 1])

LEMMA LaterFacts ==
  ASSUME NEW g, WellFormed(g), NEW s
  PROVE  /\ Later(g, s) \in Seq(Nat) /\ Len(Later(g, s)) \in Nat
         /\ DOMAIN Later(g, s) = 1 .. Len(Later(g, s))
         /\ \A k \in 1 .. Len(Later(g, s)) : /\ Later(g, s)[k] = k
                                             /\ Len(Later(g, s)) = Len(Chosen(g, "sequenceBegin", s)) - 1
<1> DEFINE n == Len(Chosen(g, "sequenceBegin", s))
<1>1. n \in Nat
  <2>1. Chosen(g, "sequenceBegin", s) \in Seq(Nat)
    BY ChosenFacts
  <2> QED BY <2>1
<1>2. Later(g, s) = [i \in 1 .. n - 1 |-> i]
  BY DEF Later
<1> HIDE DEF n
<1>3. CASE n = 0
  <2>1. 1 .. n - 1 = {}
    BY <1>3
  <2>2. Later(g, s) = <<>>
    BY <1>2, <2>1
  <2> QED BY <2>2
<1>4. CASE n # 0
  <2>1. n - 1 \in Nat
    BY <1>1, <1>4
  <2>2. Later(g, s) \in [1 .. n - 1 -> Nat]
    BY <1>2, <2>1
  <2>3. Later(g, s) \in Seq(Nat) /\ Len(Later(g, s)) = n - 1
    BY <2>1, <2>2
  <2> QED BY <1>2, <2>1, <2>3 DEF n
<1> QED BY <1>3, <1>4

LEMMA StitchRunExist ==
  ASSUME NEW g, WellFormed(g), NEW s, PairedIn(g, s)
  PROVE  \E F : StitchRun(g, s, F)
<1> DEFINE n == Len(Later(g, s))
           W == SameNodes(g)
           more(v, x) == Stitched(v, Chosen(g, "sequenceBegin", s)[1], Chosen(g, "sequenceEnd", s)[x], Chosen(g, "sequenceBegin", s)[x + 1], Chosen(g, "sequenceEnd", s)[x + 1])
           h == [k \in 1 .. n |-> [v \in W |-> more(v, Later(g, s)[k])]]
           It == CHOOSE it : it = [r \in SUBSET (1 .. n) |->
                   IF r = {} THEN g ELSE more(it[r \ {Max(r)}], Later(g, s)[Max(r)])]
<1>1. n \in Nat /\ DOMAIN Later(g, s) = 1 .. n
  BY LaterFacts
<1>2. g \in W /\ \A k \in 1 .. n : \A v \in W : more(v, Later(g, s)[k]) \in W
  <2> HIDE DEF more
  <2>1. g \in W
    BY DEF SameNodes, WellFormed
  <2>2. ASSUME NEW k \in 1 .. n, NEW v \in W PROVE more(v, Later(g, s)[k]) \in W
    <3> DEFINE b == Chosen(g, "sequenceBegin", s)
               e == Chosen(g, "sequenceEnd", s)
    <3>1. b \in Seq(Nat) /\ Len(b) = Len(e)
      BY ChosenFacts DEF PairedIn
    <3>2. Later(g, s)[k] = k /\ k \in 1 .. Len(b) /\ k + 1 \in 1 .. Len(b) /\ 1 \in 1 .. Len(b)
      <4> HIDE DEF n
      <4>1. n = Len(b) - 1 /\ Later(g, s)[k] = k
        BY LaterFacts DEF n
      <4> HIDE DEF b
      <4> QED BY <3>1, <4>1
    <3>3. WellFormed(v) /\ v.usage = g.usage /\ v.slots = g.slots /\ v.frozen = g.frozen
      BY DEF SameNodes
    <3>4. Live(v) = Live(g)
      BY <3>3 DEF Live
    <3>5. /\ b[1] \in Live(g) /\ e[k] \in Live(g) /\ b[k + 1] \in Live(g) /\ e[k + 1] \in Live(g)
          /\ e[k] # b[k + 1]
      BY <3>2, PairFacts
    <3>6. more(v, Later(g, s)[k]) = Stitched(v, b[1], e[k], b[k + 1], e[k + 1])
      BY <3>2 DEF more
    <3> HIDE DEF b, e
    <3> DEFINE w == Stitched(v, b[1], e[k], b[k + 1], e[k + 1])
    <3>7. WellFormed(w) /\ w.usage = v.usage /\ w.slots = v.slots /\ w.frozen = v.frozen
      BY <3>3, <3>4, <3>5, StitchedFacts
    <3> HIDE DEF w
    <3>8. w \in SameNodes(g)
      BY <3>3, <3>7 DEF SameNodes, WellFormed
    <3> QED BY <3>6, <3>8 DEF w
  <2> QED BY <2>1, <2>2
<1>3. \A k \in 1 .. n : \A v \in W : Stitched(v, Chosen(g, "sequenceBegin", s)[1], Chosen(g, "sequenceEnd", s)[Later(g, s)[k]], Chosen(g, "sequenceBegin", s)[Later(g, s)[k] + 1], Chosen(g, "sequenceEnd", s)[Later(g, s)[k] + 1]) = more(v, Later(g, s)[k])
  OBVIOUS
<1> HIDE DEF n, W, more
<1>4. h \in [1 .. n -> [W -> W]]
  BY <1>2
<1>5. \A k \in 1 .. n : \A v \in W : h[k][v] = more(v, Later(g, s)[k])
  OBVIOUS
<1> HIDE DEF h
<1>6. PICK m : FoldEquation(W, g, h, n, m)
  BY <1>1, <1>2, <1>4, FoldExists
<1>7. m = [r \in SUBSET (1 .. n) |->
             IF r = {} THEN g ELSE more(m[r \ {Max(r)}], Later(g, s)[Max(r)])]
  <2>1. ASSUME NEW r \in SUBSET (1 .. n), r # {}
        PROVE  m[r] = more(m[r \ {Max(r)}], Later(g, s)[Max(r)])
    <3>1. Max(r) \in 1 .. n
      BY <1>1, <2>1, MaxFacts
    <3>2. m[r \ {Max(r)}] \in W /\ m[r] = h[Max(r)][m[r \ {Max(r)}]]
      BY <1>6, <2>1 DEF FoldEquation
    <3> QED BY <1>5, <3>1, <3>2
  <2>2. m = [r \in SUBSET (1 .. n) |-> m[r]] /\ m[{}] = g
    BY <1>6 DEF FoldEquation
  <2> QED BY <2>1, <2>2
<1>8. It = [r \in SUBSET (1 .. n) |->
              IF r = {} THEN g ELSE more(It[r \ {Max(r)}], Later(g, s)[Max(r)])]
  BY <1>7, Zenon
<1>9. WithOneSequence(g, s) = It[1 .. n]
  BY <1>1, Zenon DEF WithOneSequence, Later, FoldLeft, MapThenFoldSet, more
<1> HIDE DEF It
<1>10. It[{}] = g /\ \A k \in 1 .. n : It[1 .. k] = more(It[1 .. k-1], Later(g, s)[k])
  <2>1. \A k \in 1 .. n : k \in 1 .. k
    BY <1>1
  <2>2. {} \in SUBSET (1 .. n)
    OBVIOUS
  <2>3. \A k \in 1 .. n : 1 .. k \in SUBSET (1 .. n) /\ Max(1 .. k) = k /\ (1 .. k) \ {k} = 1 .. k-1
    BY <1>1, PrefixSets
  <2> QED BY <1>8, <2>1, <2>2, <2>3
<1> DEFINE F == [k \in 0 .. n |-> It[1 .. k]]
<1>11. F[0] = g /\ \A k \in 1 .. n : F[k] = more(F[k - 1], Later(g, s)[k])
  <2>1. 1 .. 0 = {} /\ 0 \in 0 .. n /\ \A k \in 1 .. n : k \in 0 .. n /\ k - 1 \in 0 .. n
    BY <1>1
  <2> HIDE DEF more
  <2> QED BY <1>10, <2>1
<1>12. F \in [0 .. n -> W] /\ F[n] = It[1 .. n]
  <2> DEFINE WW == [k \in 0 .. n |-> W]
  <2>1. KeepsWithin(It, WW, n)
    <3>1. 0 \in 0 .. n /\ \A k \in 1 .. n : k \in 0 .. n /\ k - 1 \in 0 .. n
      BY <1>1
    <3> QED BY <1>2, <1>10, <3>1 DEF KeepsWithin
  <2> HIDE DEF WW
  <2>2. ASSUME NEW j \in 0 .. n PROVE It[1 .. j] \in W
    <3>1. j \in Nat /\ \A k \in 1 .. j : k \in 1 .. n
      BY <1>1
    <3>2. KeepsWithin(It, WW, j)
      BY <2>1, <3>1 DEF KeepsWithin
    <3>3. It[1 .. j] \in WW[j]
      BY <3>1, <3>2, FoldWithin
    <3> QED BY <3>3 DEF WW
  <2>3. n \in 0 .. n
    BY <1>1
  <2> QED BY <2>2, <2>3
<1> HIDE DEF F
<1>13. F \in [0 .. n -> W] /\ F[0] = g /\ F[n] = WithOneSequence(g, s) /\ \A k \in 1 .. n : F[k] = more(F[k - 1], Later(g, s)[k])
  BY <1>9, <1>11, <1>12
<1> HIDE DEF h
<1> QED BY <1>13 DEF n, W, more, StitchRun

LEMMA OneSequenceFacts ==
  ASSUME NEW g, WellFormed(g), NEW s, PairedIn(g, s)
  PROVE  WithOneSequence(g, s) \in SameNodes(g)
<1>1. PICK F : StitchRun(g, s, F)
  BY StitchRunExist
<1>2. Len(Later(g, s)) \in Nat
  BY LaterFacts
<1> QED BY <1>1, <1>2 DEF StitchRun

SpecialSubtypes(g) == SubtypesInOrder(g, {"sequenceBegin", "sequenceEnd"})

\* A subtype after the other is merged.
SequencesRun(g, F) ==
  /\ F \in [0 .. Len(SpecialSubtypes(g)) -> SameNodes(g)] /\ F[0] = g /\ F[Len(SpecialSubtypes(g))] = MergedSequences(g)
  /\ \A k \in 1 .. Len(SpecialSubtypes(g)) : F[k] = WithOneSequence(F[k - 1], SpecialSubtypes(g)[k])

LEMMA SequencesRunExist ==
  ASSUME NEW g, WellFormed(g), \A s \in Subtypes : PairedIn(g, s)
  PROVE  \E F : SequencesRun(g, F)
<1> DEFINE n == Len(SpecialSubtypes(g))
           W == SameNodes(g)
           more(v, x) == WithOneSequence(v, x)
           h == [k \in 1 .. n |-> [v \in W |-> more(v, SpecialSubtypes(g)[k])]]
           It == CHOOSE it : it = [r \in SUBSET (1 .. n) |->
                   IF r = {} THEN g ELSE more(it[r \ {Max(r)}], SpecialSubtypes(g)[Max(r)])]
<1>1. n \in Nat /\ DOMAIN SpecialSubtypes(g) = 1 .. n
  BY SubtypesFacts DEF SpecialSubtypes, WellFormed
<1>2. g \in W /\ \A k \in 1 .. n : \A v \in W : more(v, SpecialSubtypes(g)[k]) \in W
  <2> HIDE DEF more
  <2>1. g \in W
    BY DEF SameNodes, WellFormed
  <2>2. ASSUME NEW k \in 1 .. n, NEW v \in W PROVE more(v, SpecialSubtypes(g)[k]) \in W
    <3>1. PICK s \in Subtypes : s = SpecialSubtypes(g)[k]
      <4>1. SpecialSubtypes(g) \in Seq(Subtypes)
        BY SubtypesFacts DEF SpecialSubtypes, WellFormed
      <4> QED BY <4>1 DEF n
    <3>2. WellFormed(v) /\ v.usage = g.usage /\ v.slots = g.slots /\ v.frozen = g.frozen
      BY DEF SameNodes
    <3>3. PairedIn(v, s)
      BY <3>2 DEF PairedIn, Chosen
    <3>4. WithOneSequence(v, s) \in SameNodes(v)
      BY <3>2, <3>3, OneSequenceFacts
    <3>5. WithOneSequence(v, s) \in SameNodes(g)
      BY <3>2, <3>4 DEF SameNodes
    <3> QED BY <3>1, <3>5 DEF more
  <2> QED BY <2>1, <2>2
<1>3. \A k \in 1 .. n : \A v \in W : WithOneSequence(v, SpecialSubtypes(g)[k]) = more(v, SpecialSubtypes(g)[k])
  OBVIOUS
<1> HIDE DEF n, W, more
<1>4. h \in [1 .. n -> [W -> W]]
  BY <1>2
<1>5. \A k \in 1 .. n : \A v \in W : h[k][v] = more(v, SpecialSubtypes(g)[k])
  OBVIOUS
<1> HIDE DEF h
<1>6. PICK m : FoldEquation(W, g, h, n, m)
  BY <1>1, <1>2, <1>4, FoldExists
<1>7. m = [r \in SUBSET (1 .. n) |->
             IF r = {} THEN g ELSE more(m[r \ {Max(r)}], SpecialSubtypes(g)[Max(r)])]
  <2>1. ASSUME NEW r \in SUBSET (1 .. n), r # {}
        PROVE  m[r] = more(m[r \ {Max(r)}], SpecialSubtypes(g)[Max(r)])
    <3>1. Max(r) \in 1 .. n
      BY <1>1, <2>1, MaxFacts
    <3>2. m[r \ {Max(r)}] \in W /\ m[r] = h[Max(r)][m[r \ {Max(r)}]]
      BY <1>6, <2>1 DEF FoldEquation
    <3> QED BY <1>5, <3>1, <3>2
  <2>2. m = [r \in SUBSET (1 .. n) |-> m[r]] /\ m[{}] = g
    BY <1>6 DEF FoldEquation
  <2> QED BY <2>1, <2>2
<1>8. It = [r \in SUBSET (1 .. n) |->
              IF r = {} THEN g ELSE more(It[r \ {Max(r)}], SpecialSubtypes(g)[Max(r)])]
  BY <1>7, Zenon
<1>9. MergedSequences(g) = It[1 .. n]
  BY <1>1, Zenon DEF MergedSequences, SpecialSubtypes, FoldLeft, MapThenFoldSet, more
<1> HIDE DEF It
<1>10. It[{}] = g /\ \A k \in 1 .. n : It[1 .. k] = more(It[1 .. k-1], SpecialSubtypes(g)[k])
  <2>1. \A k \in 1 .. n : k \in 1 .. k
    BY <1>1
  <2>2. {} \in SUBSET (1 .. n)
    OBVIOUS
  <2>3. \A k \in 1 .. n : 1 .. k \in SUBSET (1 .. n) /\ Max(1 .. k) = k /\ (1 .. k) \ {k} = 1 .. k-1
    BY <1>1, PrefixSets
  <2> QED BY <1>8, <2>1, <2>2, <2>3
<1> DEFINE F == [k \in 0 .. n |-> It[1 .. k]]
<1>11. F[0] = g /\ \A k \in 1 .. n : F[k] = more(F[k - 1], SpecialSubtypes(g)[k])
  <2>1. 1 .. 0 = {} /\ 0 \in 0 .. n /\ \A k \in 1 .. n : k \in 0 .. n /\ k - 1 \in 0 .. n
    BY <1>1
  <2> HIDE DEF more
  <2> QED BY <1>10, <2>1
<1>12. F \in [0 .. n -> W] /\ F[n] = It[1 .. n]
  <2> DEFINE WW == [k \in 0 .. n |-> W]
  <2>1. KeepsWithin(It, WW, n)
    <3>1. 0 \in 0 .. n /\ \A k \in 1 .. n : k \in 0 .. n /\ k - 1 \in 0 .. n
      BY <1>1
    <3> QED BY <1>2, <1>10, <3>1 DEF KeepsWithin
  <2> HIDE DEF WW
  <2>2. ASSUME NEW j \in 0 .. n PROVE It[1 .. j] \in W
    <3>1. j \in Nat /\ \A k \in 1 .. j : k \in 1 .. n
      BY <1>1
    <3>2. KeepsWithin(It, WW, j)
      BY <2>1, <3>1 DEF KeepsWithin
    <3>3. It[1 .. j] \in WW[j]
      BY <3>1, <3>2, FoldWithin
    <3> QED BY <3>3 DEF WW
  <2>3. n \in 0 .. n
    BY <1>1
  <2> QED BY <2>2, <2>3
<1> HIDE DEF F
<1>13. F \in [0 .. n -> W] /\ F[0] = g /\ F[n] = MergedSequences(g) /\ \A k \in 1 .. n : F[k] = more(F[k - 1], SpecialSubtypes(g)[k])
  BY <1>9, <1>11, <1>12
<1> HIDE DEF h
<1> QED BY <1>13 DEF n, W, more, SequencesRun

LEMMA SequencesMergedFacts ==
  ASSUME NEW g, WellFormed(g), \A s \in Subtypes : PairedIn(g, s)
  PROVE  MergedSequences(g) \in SameNodes(g)
<1>1. PICK F : SequencesRun(g, F)
  BY SequencesRunExist
<1>2. Len(SpecialSubtypes(g)) \in Nat
  BY SubtypesFacts DEF SpecialSubtypes, WellFormed
<1> QED BY <1>1, <1>2 DEF SequencesRun

HelperNodes(g) == {x \in ToSet(g.usage) : x.kind \in HelperKinds}

LEMMA HelpersFacts ==
  ASSUME NEW g, WellFormed(g)
  PROVE  /\ Helpers(g) \in Seq(Node) /\ ToSet(Helpers(g)) = HelperNodes(g)
         /\ IsFiniteSet(HelperNodes(g)) /\ Len(Helpers(g)) = Cardinality(HelperNodes(g))
<1> DEFINE S == [id : Nat, kind : HelperKinds, subtype : Subtypes]
<1>1. /\ g \in Graph /\ g.usage \in Seq(Node) /\ DOMAIN g.usage = 1 .. Len(g.usage)
      /\ \A i, j \in 1 .. Len(g.usage) : g.usage[i].id = g.usage[j].id => i = j
      /\ \A i \in 1 .. Len(g.usage) : g.usage[i] \in Node
  <2>1. g \in Graph
    BY DEF WellFormed
  <2> QED BY <2>1, GraphShape, GraphFacts
<1>2. Distinct(g.usage)
  BY <1>1 DEF Distinct
<1>3. Helpers(g) = Those(g.usage, S)
  BY DEF Helpers
<1>4. ToSet(g.usage) \cap S = HelperNodes(g)
  <2>1. ToSet(g.usage) \subseteq Node
    BY <1>1 DEF ToSet
  <2>2. \A y \in Node : y \in S <=> y.kind \in HelperKinds
    BY DEF Node
  <2> QED BY <2>1, <2>2 DEF HelperNodes
<1> HIDE DEF S
<1>5. Helpers(g) \in Seq(Node) /\ ToSet(Helpers(g)) = HelperNodes(g) /\ Distinct(Helpers(g))
  <2>1. LET r == Those(g.usage, S) IN
          r \in Seq(Node) /\ ToSet(r) = ToSet(g.usage) \cap S /\ (Distinct(g.usage) => Distinct(r))
    BY <1>1, ThoseFacts
  <2> QED BY <1>2, <1>3, <1>4, <2>1
<1> QED BY <1>5, DistinctLength

LEMMA BridgedInGraph ==
  ASSUME NEW g \in Graph, NEW n
  PROVE  Bridged(g, n) \in Graph
<1> DEFINE r == RemovedNode(g, n)
           E == [t \in Tracks |-> ParentsIn(g, n, t) \X ChildrenIn(g, n, t)]
           D == [t \in Tracks |-> r.deps[t] \cup NoSelf(E[t])]
<1>1. r \in Graph
  BY RemovedInGraph
<1>2. \A t \in Tracks : E[t] \subseteq Nat \X Nat
  <2>1. \A t \in Tracks : ParentsIn(g, n, t) \subseteq Nat /\ ChildrenIn(g, n, t) \subseteq Nat
    BY NeighboursInGraph
  <2> QED BY <2>1
<1> HIDE DEF r
<1>3. Bridged(g, n) = [r EXCEPT !.deps = D]
  BY <1>1 DEF Bridged, Graph, r
<1> HIDE DEF E
<1>4. D \in [Tracks -> SUBSET (Nat \X Nat)]
  BY <1>1, <1>2, MoreEdges
<1> HIDE DEF D
<1> QED BY <1>1, <1>3, <1>4 DEF Graph

Count(g) == [i \in 1 .. Len(Helpers(g)) |-> i]

\* A helper after the other is bridged.
HelpersRun(g, F) ==
  /\ F \in [0 .. Len(Count(g)) -> Graph] /\ F[0] = g /\ F[Len(Count(g))] = WithoutHelpers(g)
  /\ \A k \in 1 .. Len(Count(g)) : F[k] = Bridged(F[k - 1], Head(Helpers(F[k - 1])).id)

LEMMA CountFacts ==
  ASSUME NEW g, WellFormed(g)
  PROVE  /\ Len(Count(g)) = Len(Helpers(g)) /\ Len(Count(g)) \in Nat
         /\ DOMAIN Count(g) = 1 .. Len(Count(g))
<1>1. Len(Helpers(g)) \in Nat
  <2>1. Helpers(g) \in Seq(Node)
    BY HelpersFacts
  <2> QED BY <2>1
<1>2. Count(g) \in [1 .. Len(Helpers(g)) -> Nat]
  BY DEF Count
<1> QED BY <1>1, <1>2

LEMMA HelpersRunExist ==
  ASSUME NEW g, WellFormed(g)
  PROVE  \E F : HelpersRun(g, F)
<1> DEFINE n == Len(Count(g))
           W == Graph
           more(v, x) == Bridged(v, Head(Helpers(v)).id)
           h == [k \in 1 .. n |-> [v \in W |-> more(v, Count(g)[k])]]
           It == CHOOSE it : it = [r \in SUBSET (1 .. n) |->
                   IF r = {} THEN g ELSE more(it[r \ {Max(r)}], Count(g)[Max(r)])]
<1>1. n \in Nat /\ DOMAIN Count(g) = 1 .. n
  BY CountFacts
<1>2. g \in W /\ \A k \in 1 .. n : \A v \in W : more(v, Count(g)[k]) \in W
  BY BridgedInGraph DEF WellFormed
<1>3. \A k \in 1 .. n : \A v \in W : Bridged(v, Head(Helpers(v)).id) = more(v, Count(g)[k])
  OBVIOUS
<1> HIDE DEF n, W, more
<1>4. h \in [1 .. n -> [W -> W]]
  BY <1>2
<1>5. \A k \in 1 .. n : \A v \in W : h[k][v] = more(v, Count(g)[k])
  OBVIOUS
<1> HIDE DEF h
<1>6. PICK m : FoldEquation(W, g, h, n, m)
  BY <1>1, <1>2, <1>4, FoldExists
<1>7. m = [r \in SUBSET (1 .. n) |->
             IF r = {} THEN g ELSE more(m[r \ {Max(r)}], Count(g)[Max(r)])]
  <2>1. ASSUME NEW r \in SUBSET (1 .. n), r # {}
        PROVE  m[r] = more(m[r \ {Max(r)}], Count(g)[Max(r)])
    <3>1. Max(r) \in 1 .. n
      BY <1>1, <2>1, MaxFacts
    <3>2. m[r \ {Max(r)}] \in W /\ m[r] = h[Max(r)][m[r \ {Max(r)}]]
      BY <1>6, <2>1 DEF FoldEquation
    <3> QED BY <1>5, <3>1, <3>2
  <2>2. m = [r \in SUBSET (1 .. n) |-> m[r]] /\ m[{}] = g
    BY <1>6 DEF FoldEquation
  <2> QED BY <2>1, <2>2
<1>8. It = [r \in SUBSET (1 .. n) |->
              IF r = {} THEN g ELSE more(It[r \ {Max(r)}], Count(g)[Max(r)])]
  BY <1>7, Zenon
<1>9. WithoutHelpers(g) = It[1 .. n]
  BY <1>1, Zenon DEF WithoutHelpers, Count, FoldLeft, MapThenFoldSet, more
<1> HIDE DEF It
<1>10. It[{}] = g /\ \A k \in 1 .. n : It[1 .. k] = more(It[1 .. k-1], Count(g)[k])
  <2>1. \A k \in 1 .. n : k \in 1 .. k
    BY <1>1
  <2>2. {} \in SUBSET (1 .. n)
    OBVIOUS
  <2>3. \A k \in 1 .. n : 1 .. k \in SUBSET (1 .. n) /\ Max(1 .. k) = k /\ (1 .. k) \ {k} = 1 .. k-1
    BY <1>1, PrefixSets
  <2> QED BY <1>8, <2>1, <2>2, <2>3
<1> DEFINE F == [k \in 0 .. n |-> It[1 .. k]]
<1>11. F[0] = g /\ \A k \in 1 .. n : F[k] = more(F[k - 1], Count(g)[k])
  <2>1. 1 .. 0 = {} /\ 0 \in 0 .. n /\ \A k \in 1 .. n : k \in 0 .. n /\ k - 1 \in 0 .. n
    BY <1>1
  <2> HIDE DEF more
  <2> QED BY <1>10, <2>1
<1>12. F \in [0 .. n -> W] /\ F[n] = It[1 .. n]
  <2> DEFINE WW == [k \in 0 .. n |-> W]
  <2>1. KeepsWithin(It, WW, n)
    <3>1. 0 \in 0 .. n /\ \A k \in 1 .. n : k \in 0 .. n /\ k - 1 \in 0 .. n
      BY <1>1
    <3> QED BY <1>2, <1>10, <3>1 DEF KeepsWithin
  <2> HIDE DEF WW
  <2>2. ASSUME NEW j \in 0 .. n PROVE It[1 .. j] \in W
    <3>1. j \in Nat /\ \A k \in 1 .. j : k \in 1 .. n
      BY <1>1
    <3>2. KeepsWithin(It, WW, j)
      BY <2>1, <3>1 DEF KeepsWithin
    <3>3. It[1 .. j] \in WW[j]
      BY <3>1, <3>2, FoldWithin
    <3> QED BY <3>3 DEF WW
  <2>3. n \in 0 .. n
    BY <1>1
  <2> QED BY <2>2, <2>3
<1> HIDE DEF F
<1>13. F \in [0 .. n -> W] /\ F[0] = g /\ F[n] = WithoutHelpers(g) /\ \A k \in 1 .. n : F[k] = more(F[k - 1], Count(g)[k])
  BY <1>9, <1>11, <1>12
<1> HIDE DEF h
<1> QED BY <1>13 DEF n, W, more, HelpersRun

\* What is left of a graph in another one is ordered as it was.
Keeps(g, h) ==
  \A t \in Tracks : \A x, y : x # y =>
    (<<x, y>> \in Follows(h, t) <=> <<x, y>> \in Follows(g, t) /\ x \in Live(h) /\ y \in Live(h))

LEMMA HelpersGoneFacts ==
  ASSUME NEW g, WellFormed(g)
  PROVE  LET h == WithoutHelpers(g) IN
           /\ WellFormed(h) /\ h.slots = g.slots /\ h.frozen = g.frozen
           /\ ToSet(h.usage) = ToSet(g.usage) \ HelperNodes(g)
           /\ Keeps(g, h)
<1> DEFINE n == Len(Count(g))
<1>1. PICK F : HelpersRun(g, F)
  BY HelpersRunExist
<1>2. /\ F[0] = g /\ F[n] = WithoutHelpers(g)
      /\ \A k \in 1 .. n : F[k] = Bridged(F[k - 1], Head(Helpers(F[k - 1])).id)
  BY <1>1 DEF HelpersRun
<1>3. n \in Nat /\ n = Cardinality(HelperNodes(g))
  BY CountFacts, HelpersFacts
<1> HIDE DEF n
<1> DEFINE Good(h, k) == /\ WellFormed(h) /\ h.slots = g.slots /\ h.frozen = g.frozen
                         /\ ToSet(h.usage) \subseteq ToSet(g.usage)
                         /\ \A y \in ToSet(g.usage) : y \notin HelperNodes(g) => y \in ToSet(h.usage)
                         /\ Keeps(g, h)
                         /\ Cardinality(HelperNodes(h)) = n - k
           D == {k \in Nat : k <= n => Good(F[k], k)}
<1>4. 0 \in D
  <2>1. Keeps(g, g)
    BY FollowsIsLeast DEF Keeps
  <2> QED BY <1>2, <1>3, <2>1
<1> HIDE DEF Good
<1>5. ASSUME NEW k \in D PROVE k + 1 \in D
  <2>1. SUFFICES ASSUME k + 1 <= n PROVE Good(F[k + 1], k + 1)
    BY <1>5
  <2> DEFINE h == F[k]
             x == Head(Helpers(h))
             b == Bridged(h, x.id)
  <2>2. k \in Nat /\ k + 1 \in 1 .. n /\ (k + 1) - 1 = k /\ k <= n
    BY <1>3, <1>5, <2>1
  <2>3. Good(h, k)
    BY <1>5, <2>2
  <2>4. F[k + 1] = b
    BY <1>2, <2>2
  <2> HIDE DEF h
  <2>5. /\ WellFormed(h) /\ Helpers(h) \in Seq(Node) /\ ToSet(Helpers(h)) = HelperNodes(h)
        /\ IsFiniteSet(HelperNodes(h)) /\ Len(Helpers(h)) = n - k
    BY <2>3, HelpersFacts DEF Good
  <2>6. x \in HelperNodes(h)
    <3>1. Len(Helpers(h)) # 0
      BY <1>3, <2>2, <2>5
    <3>2. x = Helpers(h)[1] /\ 1 \in DOMAIN Helpers(h)
      BY <2>5, <3>1
    <3> QED BY <2>5, <3>2 DEF ToSet
  <2> HIDE DEF x
  <2>7. h \in Graph /\ x \in ToSet(h.usage)
    BY <2>5, <2>6 DEF HelperNodes, WellFormed
  <2>8. x.id \in Live(h)
    BY <2>7, LiveOf
  <2>9. /\ WellFormed(b) /\ b.slots = h.slots /\ b.frozen = h.frozen
        /\ ToSet(b.usage) = {y \in ToSet(h.usage) : y.id # x.id}
    <3>1. PICK i \in Live(h) : i = x.id
      BY <2>8
    <3> DEFINE c == Bridged(h, i)
    <3>2. /\ WellFormed(c) /\ c.slots = h.slots /\ c.frozen = h.frozen
          /\ ToSet(c.usage) = {y \in ToSet(h.usage) : y.id # i}
      BY <2>5, BridgedFacts
    <3>3. c = b
      BY <3>1
    <3> HIDE DEF b, c
    <3> QED BY <3>1, <3>2, <3>3
  <2>13. Keeps(h, b) /\ Live(b) \subseteq Live(h)
    <3>1. PICK i \in Live(h) : i = x.id
      BY <2>8
    <3> DEFINE c == Bridged(h, i)
    <3>2. /\ Live(c) = Live(h) \ {i}
          /\ \A t \in Tracks : \A p, q : p # q => (<<p, q>> \in Follows(c, t)
                                                    <=> <<p, q>> \in Follows(h, t) /\ p # i /\ q # i)
      BY <2>5, BridgedFacts, BridgeOrder
    <3>3. \A t \in Tracks : \A p, q : <<p, q>> \in Follows(h, t) => p \in Live(h) /\ q \in Live(h)
      BY <2>5, FollowsIsLeast
    <3>4. c = b
      BY <3>1
    <3> HIDE DEF b, c
    <3>5. Keeps(h, c)
      BY <3>2, <3>3 DEF Keeps
    <3> QED BY <3>2, <3>4, <3>5
  <2> HIDE DEF b
  <2>14. Keeps(g, b)
    <3>1. Keeps(g, h)
      BY <2>3 DEF Good
    <3> QED BY <2>13, <3>1 DEF Keeps
  <2>10. \A y \in ToSet(h.usage) : y.id = x.id <=> y = x
    <3>1. \A y, z \in ToSet(h.usage) : y.id = z.id => y = z
      <4>1. DOMAIN h.usage = 1 .. Len(h.usage)
        BY <2>7, GraphShape
      <4>2. \A i, j \in 1 .. Len(h.usage) : h.usage[i].id = h.usage[j].id => i = j
        BY <2>5, GraphFacts
      <4> QED BY <4>1, <4>2 DEF ToSet
    <3> QED BY <2>7, <3>1
  <2>15. \A y \in ToSet(g.usage) : y \notin HelperNodes(g) => y \in ToSet(b.usage)
    <3>1. ASSUME NEW y \in ToSet(g.usage), y \notin HelperNodes(g) PROVE y \in ToSet(b.usage)
      <4>1. y \in ToSet(h.usage) /\ y.kind \notin HelperKinds
        BY <2>3, <3>1 DEF Good, HelperNodes
      <4>2. y # x
        BY <2>6, <4>1 DEF HelperNodes
      <4> QED BY <2>9, <2>10, <4>1, <4>2
    <3> QED BY <3>1
  <2>11. HelperNodes(b) = HelperNodes(h) \ {x}
    BY <2>9, <2>10 DEF HelperNodes
  <2>12. Cardinality(HelperNodes(b)) = n - (k + 1)
    <3>1. Cardinality(HelperNodes(h) \ {x}) = Cardinality(HelperNodes(h)) - 1
      BY <2>5, <2>6, FS_RemoveElement
    <3>2. Cardinality(HelperNodes(h)) = n - k
      BY <2>3 DEF Good
    <3> QED BY <1>3, <2>2, <2>11, <3>1, <3>2
  <2> QED BY <2>3, <2>4, <2>9, <2>12, <2>14, <2>15 DEF Good
<1> HIDE DEF D
<1>6. D = Nat
  <2>1. D \subseteq Nat
    BY DEF D
  <2> QED BY <1>4, <1>5, <2>1, Reached
<1>7. Good(F[n], n)
  <2>1. n \in Nat /\ n <= n
    BY <1>3
  <2> QED BY <1>6, <2>1, Zenon DEF D
<1>8. HelperNodes(F[n]) = {}
  <2>1. IsFiniteSet(HelperNodes(F[n])) /\ Cardinality(HelperNodes(F[n])) = 0
    BY <1>3, <1>7, HelpersFacts DEF Good
  <2> QED BY <2>1, FS_EmptySet
<1>9. ToSet(F[n].usage) = ToSet(g.usage) \ HelperNodes(g)
  BY <1>7, <1>8 DEF Good, HelperNodes
<1> QED BY <1>2, <1>7, <1>9 DEF Good

LEMMA SpecialMergedFacts ==
  ASSUME NEW g, WellFormed(g), \A s \in Subtypes : PairedIn(g, s)
  PROVE  LET h == MergedSpecial(g) IN
           /\ WellFormed(h) /\ h.slots = g.slots /\ h.frozen = g.frozen
<1> DEFINE u == MergedUnique(g)
           q == MergedSequences(u)
<1>1. WellFormed(u) /\ u.slots = g.slots /\ u.frozen = g.frozen
  BY UniqueMergedFacts
<1>2. \A s \in Subtypes : PairedIn(u, s)
  <2>1. SUFFICES ASSUME NEW s \in Subtypes PROVE PairedIn(u, s)
    OBVIOUS
  <2>2. KindIds(u, "sequenceBegin", s) = KindIds(g, "sequenceBegin", s)
    BY UniqueKeepsKinds
  <2>3. KindIds(u, "sequenceEnd", s) = KindIds(g, "sequenceEnd", s)
    BY UniqueKeepsKinds
  <2> HIDE DEF u
  <2>4. \A kind : /\ Len(Chosen(u, kind, s)) = Cardinality(KindIds(u, kind, s))
                  /\ Len(Chosen(g, kind, s)) = Cardinality(KindIds(g, kind, s))
    BY <1>1, ChosenFacts
  <2>5. PairedIn(g, s)
    OBVIOUS
  <2> QED BY <2>2, <2>3, <2>4, <2>5 DEF PairedIn
<1> HIDE DEF u
<1>3. WellFormed(q) /\ q.slots = u.slots /\ q.frozen = u.frozen
  BY <1>1, <1>2, SequencesMergedFacts DEF SameNodes
<1> HIDE DEF q
<1>4. LET h == WithoutHelpers(q) IN WellFormed(h) /\ h.slots = q.slots /\ h.frozen = q.frozen
  BY <1>3, HelpersGoneFacts
<1>5. MergedSpecial(g) = WithoutHelpers(q)
  BY DEF MergedSpecial, q, u
<1> QED BY <1>1, <1>3, <1>4, <1>5

LEMMA PositionFacts ==
  ASSUME NEW P, NEW q \in Seq(P), Distinct(q), NEW i \in 1 .. Len(q), NEW n, q[i] = n
  PROVE  Position(q, n) = i
<1> DEFINE I == {k \in 1 .. Len(q) : q[k] = n}
<1>1. I = {i}
  BY DEF Distinct
<1>2. Min(I) = i
  <2>1. \E x \in I : \A y \in I : x <= y
    BY <1>1, SMTT(30)
  <2> HIDE DEF I
  <2>2. Min(I) \in I
    BY <2>1 DEF Min
  <2> QED BY <1>1, <2>2
<1>3. Position(q, n) = IF I # {} THEN Min(I) ELSE 0
  BY DEF SelectInSeq, Position
<1> HIDE DEF I
<1> QED BY <1>1, <1>2, <1>3

\* Where an id of the source goes.
Moved(g, source, n) == g.slots + Position(IdsIn(source.usage), n) - 1

LEMMA MovedFacts ==
  ASSUME NEW g, WellFormed(g), NEW source, WellFormed(source)
  PROVE  /\ \A i \in 1 .. Len(source.usage) : Moved(g, source, source.usage[i].id) = g.slots + i - 1
         /\ \A m \in Live(source) : /\ Moved(g, source, m) \in Nat /\ Moved(g, source, m) >= g.slots
                                    /\ Moved(g, source, m) < g.slots + Len(source.usage)
         /\ \A m, n \in Live(source) : Moved(g, source, m) = Moved(g, source, n) => m = n
<1> DEFINE q == IdsIn(source.usage)
<1>1. /\ q \in Seq(Nat) /\ Distinct(q) /\ Len(q) = Len(source.usage)
      /\ \A m : m \in Live(source) <=> \E i \in 1 .. Len(source.usage) : source.usage[i].id = m
  BY GraphFacts
<1>2. \A i \in 1 .. Len(source.usage) : q[i] = source.usage[i].id
  BY GraphShape, IdsFacts DEF WellFormed
<1>3. g.slots \in Nat /\ Len(source.usage) \in Nat
  BY GraphShape DEF WellFormed
<1> HIDE DEF q
<1>4. \A i \in 1 .. Len(source.usage) : Position(q, source.usage[i].id) = i
  BY <1>1, <1>2, PositionFacts
<1>5. \A n : Moved(g, source, n) = g.slots + Position(q, n) - 1
  BY DEF Moved, q
<1>6. \A i \in 1 .. Len(source.usage) : Moved(g, source, source.usage[i].id) = g.slots + i - 1
  BY <1>4, <1>5
<1>7. \A m \in Live(source) : \E i \in 1 .. Len(source.usage) :
        source.usage[i].id = m /\ Moved(g, source, m) = g.slots + i - 1
  BY <1>1, <1>6
<1>8. ASSUME NEW m \in Live(source)
      PROVE  /\ Moved(g, source, m) \in Nat /\ Moved(g, source, m) >= g.slots
             /\ Moved(g, source, m) < g.slots + Len(source.usage)
  <2>1. PICK i \in 1 .. Len(source.usage) : source.usage[i].id = m /\ Moved(g, source, m) = g.slots + i - 1
    BY <1>7
  <2> QED BY <1>3, <2>1
<1>9. ASSUME NEW m \in Live(source), NEW n \in Live(source), Moved(g, source, m) = Moved(g, source, n)
      PROVE  m = n
  <2>1. PICK i \in 1 .. Len(source.usage) : source.usage[i].id = m /\ Moved(g, source, m) = g.slots + i - 1
    BY <1>7
  <2>2. PICK j \in 1 .. Len(source.usage) : source.usage[j].id = n /\ Moved(g, source, n) = g.slots + j - 1
    BY <1>7
  <2>3. g.slots + i - 1 = g.slots + j - 1
    BY <1>9, <2>1, <2>2
  <2>4. i = j
    BY <1>3, <2>3
  <2> QED BY <2>1, <2>2, <2>4
<1> QED BY <1>6, <1>8, <1>9

LEMMA ImportedFacts ==
  ASSUME NEW g, WellFormed(g), NEW source, WellFormed(source)
  PROVE  LET h == Imported(g, source) IN
           /\ WellFormed(h) /\ h.slots = g.slots + Len(source.usage) /\ h.frozen = g.frozen
           /\ \A kind, s : KindIds(h, kind, s) =
                KindIds(g, kind, s) \cup {Moved(g, source, m) : m \in KindIds(source, kind, s)}
<1> DEFINE u == g.usage
           v == source.usage
           w == [i \in 1 .. Len(v) |-> [v[i] EXCEPT !.id = g.slots + i - 1]]
           To(n) == Moved(g, source, n)
           D == [t \in Tracks |-> g.deps[t] \cup {<<To(e[1]), To(e[2])>> : e \in source.deps[t]}]
           h == Imported(g, source)
<1>1. /\ g \in Graph /\ source \in Graph
      /\ u \in Seq(Node) /\ Len(u) \in Nat /\ DOMAIN u = 1 .. Len(u) /\ g.slots \in Nat
      /\ v \in Seq(Node) /\ Len(v) \in Nat /\ DOMAIN v = 1 .. Len(v)
      /\ \A i \in 1 .. Len(v) : v[i] \in Node
  <2>1. g \in Graph /\ source \in Graph
    BY DEF WellFormed
  <2> QED BY <2>1, GraphShape
<1>2. \A i \in 1 .. Len(v) : To(v[i].id) = g.slots + i - 1
  BY MovedFacts
<1>3. h = [g EXCEPT !.usage = u \o w, !.slots = g.slots + Len(v), !.deps = D]
  <2>1. Len(IdsIn(v)) = Len(v)
    BY <1>1, IdsFacts
  <2>2. h = [g EXCEPT !.usage = @ \o [i \in DOMAIN v |-> [v[i] EXCEPT !.id = To(@)]],
                      !.slots = @ + Len(IdsIn(v)),
                      !.deps = [t \in Tracks |-> @[t] \cup {<<To(e[1]), To(e[2])>> : e \in source.deps[t]}]]
    BY Zenon DEF Imported, Moved, Position
  <2>3. [i \in DOMAIN v |-> [v[i] EXCEPT !.id = To(@)]] = w
    <3>1. \A i \in 1 .. Len(v) : [v[i] EXCEPT !.id = To(@)] = [v[i] EXCEPT !.id = g.slots + i - 1]
      <4> HIDE DEF v, To
      <4> QED BY <1>1, <1>2 DEF Node
    <3> HIDE DEF v, To
    <3> QED BY <1>1, <3>1
  <2> HIDE DEF w, To, h, v, u
  <2> QED BY <1>1, <2>1, <2>2, <2>3 DEF Graph, u
<1> HIDE DEF u, v, To, h
<1>4. /\ w \in Seq(Node) /\ Len(w) = Len(v)
      /\ \A i \in 1 .. Len(v) : /\ w[i].id = g.slots + i - 1 /\ w[i].kind = v[i].kind
                                /\ w[i].subtype = v[i].subtype
  <2>1. \A i \in 1 .. Len(v) : g.slots + i - 1 \in Nat
    BY <1>1
  <2>2. ASSUME NEW i \in 1 .. Len(v)
        PROVE  /\ [v[i] EXCEPT !.id = g.slots + i - 1] \in Node
               /\ w[i].id = g.slots + i - 1 /\ w[i].kind = v[i].kind /\ w[i].subtype = v[i].subtype
    <3>1. v[i] \in [id : Nat, kind : Kinds, subtype : Subtypes] /\ g.slots + i - 1 \in Nat
      BY <1>1, <2>1 DEF Node
    <3> QED BY <3>1 DEF Node
  <2>3. w \in [1 .. Len(v) -> Node]
    BY <2>2
  <2> QED BY <1>1, <2>2, <2>3
<1> HIDE DEF w
<1>5. PICK x \in Seq(Node) : x = u \o w
  <2>1. \A a, b \in Seq(Node) : a \o b \in Seq(Node)
    OBVIOUS
  <2> QED BY <1>1, <1>4, <2>1
<1>6. /\ Len(x) = Len(u) + Len(v) /\ DOMAIN x = 1 .. Len(u) + Len(v)
      /\ \A i \in 1 .. Len(u) : i \in 1 .. Len(x) /\ x[i] = u[i]
      /\ \A i \in 1 .. Len(v) : Len(u) + i \in 1 .. Len(x) /\ x[Len(u) + i] = w[i]
  <2>1. \A a, b \in Seq(Node) :
          /\ Len(a \o b) = Len(a) + Len(b) /\ DOMAIN (a \o b) = 1 .. Len(a) + Len(b)
          /\ \A i \in 1 .. Len(a) : i \in 1 .. Len(a) + Len(b) /\ (a \o b)[i] = a[i]
          /\ \A i \in 1 .. Len(b) : Len(a) + i \in 1 .. Len(a) + Len(b) /\ (a \o b)[Len(a) + i] = b[i]
    OBVIOUS
  <2>2. /\ Len(u \o w) = Len(u) + Len(w) /\ DOMAIN (u \o w) = 1 .. Len(u) + Len(w)
        /\ \A i \in 1 .. Len(u) : i \in 1 .. Len(u) + Len(w) /\ (u \o w)[i] = u[i]
        /\ \A i \in 1 .. Len(w) : Len(u) + i \in 1 .. Len(u) + Len(w) /\ (u \o w)[Len(u) + i] = w[i]
    BY <1>1, <1>4, <2>1
  <2> QED BY <1>4, <1>5, <2>2
<1>7. \A i \in 1 .. Len(x) : i \in 1 .. Len(u) \/ \E j \in 1 .. Len(v) : i = Len(u) + j
  <2>1. SUFFICES ASSUME NEW i \in 1 .. Len(x), i \notin 1 .. Len(u) PROVE \E j \in 1 .. Len(v) : i = Len(u) + j
    OBVIOUS
  <2>2. i - Len(u) \in 1 .. Len(v) /\ i = Len(u) + (i - Len(u))
    BY <1>1, <1>6, <2>1
  <2> QED BY <2>2
<1>8. ToSet(x) = ToSet(u) \cup ToSet(w)
  <2>1. DOMAIN w = 1 .. Len(v)
    BY <1>4
  <2>2. /\ ToSet(x) = {x[i] : i \in 1 .. Len(x)} /\ ToSet(u) = {u[i] : i \in 1 .. Len(u)}
        /\ ToSet(w) = {w[i] : i \in 1 .. Len(v)} /\ Len(x) = Len(u) + Len(v)
    BY <1>1, <1>6, <2>1 DEF ToSet
  <2>3. \A i \in 1 .. Len(x) : x[i] \in ToSet(u) \cup ToSet(w)
    <3>1. SUFFICES ASSUME NEW i \in 1 .. Len(x) PROVE x[i] \in ToSet(u) \cup ToSet(w)
      OBVIOUS
    <3>2. CASE i \in 1 .. Len(u)
      <4>1. x[i] = u[i] /\ u[i] \in ToSet(u)
        BY <1>6, <2>2, <3>2
      <4> QED BY <4>1
    <3>3. CASE i \notin 1 .. Len(u)
      <4>1. PICK j \in 1 .. Len(v) : i = Len(u) + j
        BY <1>7, <3>3
      <4>2. x[i] = w[j] /\ w[j] \in ToSet(w)
        BY <1>6, <2>2, <4>1
      <4> QED BY <4>2
    <3> QED BY <3>2, <3>3
  <2>4. (\A i \in 1 .. Len(u) : u[i] \in ToSet(x)) /\ \A i \in 1 .. Len(v) : w[i] \in ToSet(x)
    <3>1. \A i \in 1 .. Len(x) : x[i] \in ToSet(x)
      BY <2>2
    <3> QED BY <1>6, <3>1
  <2> QED BY <2>2, <2>3, <2>4
<1>9. /\ Live(g) = {y.id : y \in ToSet(u)} /\ Live(source) = {y.id : y \in ToSet(v)}
      /\ Live(source) \subseteq Nat /\ Live(g) \subseteq Nat
      /\ \A m \in Live(g) : m < g.slots
  BY <1>1, LiveOf, GraphFacts DEF u, v
<1>10. /\ \A m \in Live(source) : To(m) \in Nat /\ To(m) >= g.slots /\ To(m) < g.slots + Len(v)
       /\ \A m, n \in Live(source) : To(m) = To(n) => m = n
  BY MovedFacts DEF To, v
<1>11. D \in [Tracks -> SUBSET (Nat \X Nat)] /\ \A t \in Tracks : \A y, z : <<y, z>> \in D[t] =>
         \/ <<y, z>> \in g.deps[t]
         \/ \E m, n \in Live(source) : m # n /\ y = To(m) /\ z = To(n)
  <2>1. ASSUME NEW t \in Tracks
        PROVE  /\ D[t] \in SUBSET (Nat \X Nat)
               /\ \A y, z : <<y, z>> \in D[t] => \/ <<y, z>> \in g.deps[t]
                                               \/ \E m, n \in Live(source) : m # n /\ y = To(m) /\ z = To(n)
    <3>1. /\ g.deps[t] \in SUBSET (Nat \X Nat) /\ source.deps[t] \subseteq Live(source) \X Live(source)
          /\ source.deps[t] = NoSelf(source.deps[t])
      <4>1. g.deps[t] \in SUBSET (Nat \X Nat)
        BY <1>1, GraphShape
      <4>2. source.deps[t] \subseteq Live(source) \X Live(source) /\ source.deps[t] = NoSelf(source.deps[t])
        BY DEF WellFormed
      <4> QED BY <4>1, <4>2
    <3>2. \A e \in source.deps[t] : e[1] \in Live(source) /\ e[2] \in Live(source) /\ e[1] # e[2]
      BY <3>1 DEF NoSelf
    <3>3. D[t] = g.deps[t] \cup {<<To(e[1]), To(e[2])>> : e \in source.deps[t]}
      OBVIOUS
    <3> HIDE DEF D
    <3> QED BY <1>10, <3>1, <3>2, <3>3
  <2> QED BY <2>1
<1> HIDE DEF D
<1>12. /\ h \in Graph /\ h.usage = x /\ h.slots = g.slots + Len(v) /\ h.deps = D
       /\ h.frozen = g.frozen /\ h.built = g.built
  <2>1. g.slots + Len(v) \in Nat
    BY <1>1
  <2> QED BY <1>1, <1>3, <1>5, <1>11, <2>1 DEF Graph
<1>13. /\ Live(g) \subseteq Live(h)
       /\ \A m \in Live(source) : To(m) \in Live(h)
  <2>1. Live(h) = {y.id : y \in ToSet(x)}
    BY <1>12, LiveOf
  <2>2. \A m \in Live(source) : \E i \in 1 .. Len(v) : m = v[i].id
    BY <1>1, <1>9 DEF ToSet
  <2>3. \A i \in 1 .. Len(v) : To(v[i].id) = w[i].id /\ w[i] \in ToSet(w)
    <3>1. DOMAIN w = 1 .. Len(v)
      BY <1>4
    <3> QED BY <1>2, <1>4, <3>1 DEF ToSet
  <2>4. \A m \in Live(source) : \E z \in ToSet(w) : z.id = To(m)
    BY <2>2, <2>3
  <2>5. ToSet(u) \subseteq ToSet(x) /\ ToSet(w) \subseteq ToSet(x)
    BY <1>8
  <2>6. \A m \in Live(source) : To(m) \in Live(h)
    BY <2>1, <2>4, <2>5
  <2>7. Live(g) \subseteq Live(h)
    BY <1>9, <2>1, <2>5
  <2> QED BY <2>6, <2>7
<1>14. \A i, j \in 1 .. Len(x) : x[i].id = x[j].id => i = j
  <2>1. /\ \A i, j \in 1 .. Len(u) : u[i].id = u[j].id => i = j
        /\ \A i \in 1 .. Len(u) : u[i].id \in Live(g)
    BY GraphFacts DEF u
  <2>2. SUFFICES ASSUME NEW i \in 1 .. Len(x), NEW j \in 1 .. Len(x), x[i].id = x[j].id PROVE i = j
    OBVIOUS
  <2>3. ASSUME NEW a \in 1 .. Len(u), NEW b \in 1 .. Len(v) PROVE x[a].id # x[Len(u) + b].id
    <3>1. x[a].id \in Nat /\ x[a].id < g.slots
      BY <1>6, <1>9, <2>1
    <3>2. x[Len(u) + b].id = g.slots + b - 1
      BY <1>4, <1>6
    <3> QED BY <1>1, <3>1, <3>2
  <2>4. CASE i \in 1 .. Len(u) /\ j \in 1 .. Len(u)
    BY <1>6, <2>1, <2>2, <2>4
  <2>5. CASE i \notin 1 .. Len(u) /\ j \notin 1 .. Len(u)
    <3>1. PICK a \in 1 .. Len(v), b \in 1 .. Len(v) : i = Len(u) + a /\ j = Len(u) + b
      BY <1>7, <2>5
    <3>2. g.slots + a - 1 = g.slots + b - 1
      BY <1>4, <1>6, <2>2, <3>1
    <3> QED BY <1>1, <3>1, <3>2
  <2>6. CASE i \in 1 .. Len(u) /\ j \notin 1 .. Len(u)
    BY <1>7, <2>2, <2>3, <2>6
  <2>7. CASE i \notin 1 .. Len(u) /\ j \in 1 .. Len(u)
    BY <1>7, <2>2, <2>3, <2>7
  <2> QED BY <2>4, <2>5, <2>6, <2>7
<1>15. \A i \in 1 .. Len(x) : x[i].id < g.slots + Len(v)
  <2>1. SUFFICES ASSUME NEW i \in 1 .. Len(x) PROVE x[i].id < g.slots + Len(v)
    OBVIOUS
  <2>2. CASE i \in 1 .. Len(u)
    <3>1. x[i].id \in Live(g)
      <4>1. \A k \in 1 .. Len(u) : u[k].id \in Live(g)
        BY GraphFacts DEF u
      <4> QED BY <1>6, <2>2, <4>1
    <3>2. x[i].id \in Nat /\ x[i].id < g.slots
      BY <1>9, <3>1
    <3> QED BY <1>1, <3>2
  <2>3. CASE i \notin 1 .. Len(u)
    <3>1. PICK a \in 1 .. Len(v) : i = Len(u) + a
      BY <1>7, <2>3
    <3>2. x[i].id = g.slots + a - 1
      BY <1>4, <1>6, <3>1
    <3> QED BY <1>1, <3>2
  <2> QED BY <2>2, <2>3
<1>16. WellFormed(h)
  <2>1. \A t \in Tracks : \A y, z : <<y, z>> \in D[t] => y \in Live(h) /\ z \in Live(h) /\ y # z
    <3>1. \A t \in Tracks : \A y, z : <<y, z>> \in g.deps[t] => y \in Live(g) /\ z \in Live(g) /\ y # z
      BY GraphFacts
    <3> QED BY <1>10, <1>11, <1>13, <3>1
  <2>2. g.built => g.frozen
    BY DEF WellFormed
  <2> QED BY <1>12, <1>14, <1>15, <2>1, <2>2, MakesGraph
<1>17. ASSUME NEW kind, NEW s
       PROVE  KindIds(h, kind, s) = KindIds(g, kind, s) \cup {To(m) : m \in KindIds(source, kind, s)}
  <2>1. KindIds(h, kind, s) = {y.id : y \in {z \in ToSet(u) : z.kind = kind /\ z.subtype = s}}
                                \cup {y.id : y \in {z \in ToSet(w) : z.kind = kind /\ z.subtype = s}}
    BY <1>8, <1>12 DEF KindIds
  <2>2. KindIds(g, kind, s) = {y.id : y \in {z \in ToSet(u) : z.kind = kind /\ z.subtype = s}}
    BY DEF KindIds, u
  <2>3. /\ ToSet(w) = {w[i] : i \in 1 .. Len(v)} /\ ToSet(v) = {v[i] : i \in 1 .. Len(v)}
        /\ \A i \in 1 .. Len(v) : w[i].id = To(v[i].id) /\ w[i].kind = v[i].kind /\ w[i].subtype = v[i].subtype
    <3>1. DOMAIN w = 1 .. Len(v)
      BY <1>4
    <3> QED BY <1>1, <1>2, <1>4, <3>1 DEF ToSet
  <2>4. KindIds(source, kind, s) = {y.id : y \in {z \in ToSet(v) : z.kind = kind /\ z.subtype = s}}
    BY DEF KindIds, v
  <2>5. {y.id : y \in {z \in ToSet(w) : z.kind = kind /\ z.subtype = s}}
          = {To(m) : m \in KindIds(source, kind, s)}
    BY <2>3, <2>4
  <2> QED BY <2>1, <2>2, <2>5
<1> QED BY <1>12, <1>16, <1>17 DEF h, v, To

\* What is told apart is as much as it was.
LEMMA ImageCount ==
  ASSUME NEW P, IsFiniteSet(P), NEW f, \A m, n \in P : f[m] = f[n] => m = n
  PROVE  LET Q == {f[m] : m \in P} IN IsFiniteSet(Q) /\ Cardinality(Q) = Cardinality(P)
<1> DEFINE Q == {f[m] : m \in P}
           b == [m \in P |-> f[m]]
<1>1. b \in Injection(P, Q)
  <2>1. b \in [P -> Q] /\ \A m, n \in P : b[m] = b[n] => m = n
    OBVIOUS
  <2> HIDE DEF b, Q
  <2> QED BY <2>1 DEF Injection, IsInjective
<1>2. b \in Surjection(P, Q)
  <2>1. b \in [P -> Q] /\ \A x \in Q : \E m \in P : b[m] = x
    OBVIOUS
  <2> HIDE DEF b, Q
  <2> QED BY <2>1 DEF Surjection
<1>3. ExistsBijection(P, Q)
  BY <1>1, <1>2 DEF ExistsBijection, Bijection
<1> HIDE DEF Q
<1> QED BY <1>3, FS_Bijection DEF Q

LEMMA ImportedCounts ==
  ASSUME NEW g, WellFormed(g), NEW source, WellFormed(source), NEW kind, NEW s
  PROVE  Cardinality(KindIds(Imported(g, source), kind, s))
           = Cardinality(KindIds(g, kind, s)) + Cardinality(KindIds(source, kind, s))
<1> DEFINE K == KindIds(source, kind, s)
           f == [m \in K |-> Moved(g, source, m)]
           Q == {f[m] : m \in K}
           G == KindIds(g, kind, s)
<1>1. IsFiniteSet(K) /\ IsFiniteSet(G) /\ K \subseteq Live(source) /\ G \subseteq Live(g)
  BY ChosenFacts
<1>2. \A m, n \in K : f[m] = f[n] => m = n
  BY <1>1, MovedFacts
<1>3. IsFiniteSet(Q) /\ Cardinality(Q) = Cardinality(K)
  <2> HIDE DEF f, K
  <2> QED BY <1>1, <1>2, ImageCount
<1>4. KindIds(Imported(g, source), kind, s) = G \cup Q
  BY ImportedFacts
<1>5. G \cap Q = {}
  <2>1. \A m \in K : f[m] \in Nat /\ f[m] >= g.slots
    BY <1>1, MovedFacts
  <2>2. \A n \in G : n \in Nat /\ n < g.slots
    BY <1>1, GraphFacts
  <2>3. g.slots \in Nat
    BY GraphShape DEF WellFormed
  <2> HIDE DEF f, K, G
  <2>4. ASSUME NEW n \in G, NEW m \in K, n = f[m] PROVE FALSE
    BY <2>1, <2>2, <2>3, <2>4
  <2> QED BY <2>4
<1> HIDE DEF Q, G, K
<1>6. Cardinality(G \cup Q) = Cardinality(G) + Cardinality(Q)
  <2>1. Cardinality(G \cap Q) = 0
    BY <1>5, FS_EmptySet
  <2>2. Cardinality(G) \in Nat /\ Cardinality(Q) \in Nat
    BY <1>1, <1>3, FS_CardinalityType
  <2>3. Cardinality(G \cup Q) = Cardinality(G) + Cardinality(Q) - Cardinality(G \cap Q)
    BY <1>1, <1>3, FS_Union
  <2> QED BY <2>1, <2>2, <2>3
<1> QED BY <1>3, <1>4, <1>6 DEF K, G

LEMMA ImportedPaired ==
  ASSUME NEW g, WellFormed(g), NEW source, WellFormed(source), NEW s,
         PairedIn(g, s), PairedIn(source, s)
  PROVE  PairedIn(Imported(g, source), s)
<1>1. WellFormed(Imported(g, source))
  BY ImportedFacts
<1>2. \A h : WellFormed(h) => \A kind : Len(Chosen(h, kind, s)) = Cardinality(KindIds(h, kind, s))
  BY ChosenFacts
<1>3. \A kind : Cardinality(KindIds(Imported(g, source), kind, s))
                  = Cardinality(KindIds(g, kind, s)) + Cardinality(KindIds(source, kind, s))
  BY ImportedCounts
<1> QED BY <1>1, <1>2, <1>3 DEF PairedIn

LEMMA GuardsPair ==
  ASSUME NEW g, NEW s \in Subtypes
  PROVE  /\ SequencesPaired(g) => PairedIn(g, s)
         /\ SequencesImportable(g) => PairedIn(g, s)
<1> DEFINE a == Len(Chosen(g, "sequenceBegin", s))
           b == Len(Chosen(g, "sequenceEnd", s))
<1>1. Pairs(g, s) = {a, b}
  BY DEF Pairs
<1>2. ASSUME SequencesPaired(g) PROVE a = b
  <2> HIDE DEF a, b
  <2>1. Cardinality({a, b}) = 1
    BY <1>1, <1>2 DEF SequencesPaired
  <2>2. {a, b} = {a} \cup {b}
    OBVIOUS
  <2>3. IsFiniteSet({a, b})
    <3>1. IsFiniteSet({a})
      BY FS_Singleton
    <3> QED BY <2>2, <3>1, FS_AddElement
  <2>4. \E x : {a, b} = {x}
    BY <2>1, <2>3, FS_Singleton
  <2> QED BY <2>4
<1>3. ASSUME SequencesImportable(g) PROVE a = b
  <2> HIDE DEF a, b
  <2>1. {a, b} \in {{0}, {1}}
    BY <1>1, <1>3 DEF SequencesImportable
  <2> QED BY <2>1
<1> QED BY <1>2, <1>3 DEF PairedIn

LEMMA AddedFacts ==
  ASSUME NEW g, WellFormed(g), NEW source, WellFormed(source), NEW merge \in BOOLEAN,
         merge => SequencesImportable(g) /\ SequencesImportable(source)
  PROVE  WellFormed(AddedGraph(g, source, merge)) /\ AddedGraph(g, source, merge).frozen = g.frozen
<1> DEFINE h == Imported(g, source)
<1>1. WellFormed(h) /\ h.frozen = g.frozen
  BY ImportedFacts
<1>2. CASE ~merge
  BY <1>1, <1>2 DEF AddedGraph
<1>3. CASE merge
  <2>1. \A s \in Subtypes : PairedIn(h, s)
    BY <1>3, GuardsPair, ImportedPaired
  <2> HIDE DEF h
  <2>2. LET k == MergedSpecial(h) IN WellFormed(k) /\ k.slots = h.slots /\ k.frozen = h.frozen
    BY <1>1, <2>1, SpecialMergedFacts
  <2>3. AddedGraph(g, source, merge) = MergedSpecial(h)
    BY <1>3 DEF AddedGraph, h
  <2> QED BY <1>1, <2>2, <2>3
<1> QED BY <1>2, <1>3

LEMMA FlattenedType ==
  ASSUME NEW g, WellFormed(g), NEW t
  PROVE  Flattened(g, t) \in Seq(Nat)
<1> DEFINE level == Kahn(g, t).level
           rows == [l \in 1 .. Len(g.usage) + 1 |-> Those(IdsIn(g.usage), {n \in Live(g) : level[n] = l - 1})]
<1>1. IdsIn(g.usage) \in Seq(Nat) /\ Len(g.usage) \in Nat
  BY GraphFacts, GraphShape DEF WellFormed
<1>2. \A S : Those(IdsIn(g.usage), S) \in Seq(Nat)
  BY <1>1, ThoseFacts
<1> HIDE DEF level
<1>3. rows \in [1 .. Len(g.usage) + 1 -> Seq(Nat)] /\ Len(g.usage) + 1 \in Nat
  BY <1>1, <1>2
<1>4. Flattened(g, t) = FlattenSeq(rows)
  BY DEF Flattened, level
<1> HIDE DEF rows
<1>5. rows \in Seq(Seq(Nat))
  BY <1>3
<1>6. PICK F : Leading(Nat, rows, F)
  BY <1>5, LeadingExist
<1>7. FlattenSeq(rows) = F[Len(rows)]
  BY <1>5, <1>6, FlattenFacts
<1>8. F[Len(rows)] \in Seq(Nat)
  <2>1. Len(rows) \in Nat
    BY <1>5
  <2> QED BY <1>6, <2>1 DEF Leading
<1> QED BY <1>4, <1>7, <1>8

LEMMA FlowGroupsFacts ==
  ASSUME NEW g, WellFormed(g)
  PROVE  LET h == WithFlowGroups(g) IN
           WellFormed(h) /\ h.usage = g.usage /\ h.slots = g.slots /\ h.deps = g.deps
<1> DEFINE order == [t \in Tracks |-> Flattened(g, t)]
           valid == \A t \in Tracks : ValidFlattening(g, t, order[t])
           h == WithFlowGroups(g)
<1>1. g \in Graph
  BY DEF WellFormed
<1>2. CASE h = g
  BY <1>2
<1>3. CASE h # g
  <2>1. h = [g EXCEPT !.flat = order, !.frozen = valid, !.built = valid]
    BY <1>3 DEF WithFlowGroups
  <2>2. order \in [Tracks -> Seq(Nat)]
    BY FlattenedType
  <2>3. PICK v \in BOOLEAN : v = valid
    OBVIOUS
  <2> HIDE DEF order, valid, h
  <2>4. /\ h \in Graph /\ h.usage = g.usage /\ h.slots = g.slots /\ h.deps = g.deps
        /\ h.frozen = v /\ h.built = v
    BY <1>1, <2>1, <2>2, <2>3 DEF Graph
  <2>5. Live(h) = Live(g)
    BY <2>4 DEF Live
  <2>6. WellFormed(h)
    <3>1. /\ \A i, j \in 1 .. Len(g.usage) : g.usage[i].id = g.usage[j].id => i = j
          /\ \A i \in 1 .. Len(g.usage) : g.usage[i].id < g.slots
          /\ \A t \in Tracks : \A x, y : <<x, y>> \in g.deps[t] => x \in Live(g) /\ y \in Live(g) /\ x # y
      BY GraphFacts
    <3> QED BY <2>4, <2>5, <3>1, MakesGraph
  <2> QED BY <2>4, <2>6 DEF h
<1> QED BY <1>2, <1>3

-----------------------------------------------------------------------------
(* Graphs: what a client or a cache makes of one *)

\* The steps of a client and of a cache keep a graph well formed.
LEMMA EditKeepsTypes ==
  ASSUME TypeInv, Edit
  PROVE  TypeInv'
<1>1. WellFormed(graph) /\ graph \in Graph
  BY DEF TypeInv, WellFormed
<1>2. ASSUME NEW kind \in AuthoredKinds, NEW s \in EditedSubtypes, AddNode(kind, s)
      PROVE  WellFormed(graph')
  <2>1. kind \in Kinds /\ s \in Subtypes
    BY BoundsAssumption
  <2> QED BY <1>1, <1>2, <2>1, AllocateFacts DEF AddNode
<1>3. Editable \subseteq Live(graph)
  BY DEF Editable
<1>4. ASSUME NEW t \in EditedTracks, NEW p \in Editable, NEW c \in Editable, AddDependency(t, p, c)
      PROVE  WellFormed(graph')
  <2> DEFINE D == [graph.deps EXCEPT ![t] = @ \cup {<<p, c>>}]
  <2>1. /\ t \in Tracks /\ p \in Live(graph) /\ c \in Live(graph) /\ p # c /\ p \in Nat /\ c \in Nat
        /\ graph' = [graph EXCEPT !.deps[t] = @ \cup {<<p, c>>}]
    BY <1>3, <1>4, BoundsAssumption, <1>1, GraphFacts DEF AddDependency
  <2>2. graph.deps \in [Tracks -> SUBSET (Nat \X Nat)]
        /\ \A u \in Tracks : \A x, y : <<x, y>> \in graph.deps[u] => x \in Live(graph) /\ y \in Live(graph) /\ x # y
    BY <1>1, GraphShape, GraphFacts
  <2>3. graph' = [graph EXCEPT !.deps = D]
    BY <2>1, <1>1 DEF Graph
  <2>4. D \in [Tracks -> SUBSET (Nat \X Nat)]
    BY <2>1, <2>2
  <2>5. \A u \in Tracks : \A x, y : <<x, y>> \in D[u] => x \in Live(graph) /\ y \in Live(graph) /\ x # y
    BY <2>1, <2>2
  <2> HIDE DEF D
  <2> QED BY <1>1, <2>3, <2>4, <2>5, NewEdges
<1>5. ASSUME NEW t \in EditedTracks, NEW e \in graph.deps[t], RemoveDependency(t, e)
      PROVE  WellFormed(graph')
  <2> DEFINE D == [graph.deps EXCEPT ![t] = @ \ {e}]
  <2>1. t \in Tracks /\ graph' = [graph EXCEPT !.deps[t] = @ \ {e}]
    BY <1>5, BoundsAssumption DEF RemoveDependency
  <2>2. graph.deps \in [Tracks -> SUBSET (Nat \X Nat)]
        /\ \A u \in Tracks : \A x, y : <<x, y>> \in graph.deps[u] => x \in Live(graph) /\ y \in Live(graph) /\ x # y
    BY <1>1, GraphShape, GraphFacts
  <2>3. graph' = [graph EXCEPT !.deps = D]
    BY <2>1, <1>1 DEF Graph
  <2>4. D \in [Tracks -> SUBSET (Nat \X Nat)]
    BY <2>1, <2>2
  <2>5. \A u \in Tracks : \A x, y : <<x, y>> \in D[u] => x \in Live(graph) /\ y \in Live(graph) /\ x # y
    BY <2>1, <2>2
  <2> HIDE DEF D
  <2> QED BY <1>1, <2>3, <2>4, <2>5, NewEdges
<1>6. ASSUME NEW n \in Editable, RemoveNode(n) PROVE WellFormed(graph')
  BY <1>1, <1>3, <1>6, RemovedFacts DEF RemoveNode
<1>7. ASSUME NEW n \in Editable, RemoveNodeAndBridge(n) PROVE WellFormed(graph')
  BY <1>1, <1>3, <1>7, BridgedFacts DEF RemoveNodeAndBridge
<1>8. WellFormed(graph')
  BY <1>2, <1>4, <1>5, <1>6, <1>7 DEF Edit
<1> QED BY <1>8 DEF TypeInv

LEMMA AddGraphKeepsTypes ==
  ASSUME TypeInv, NEW source, WellFormed(source), NEW merge \in BOOLEAN, AddGraph(source, merge)
  PROVE  TypeInv'
<1>1. /\ WellFormed(graph) /\ graph' = AddedGraph(graph, source, merge)
      /\ merge => SequencesImportable(graph) /\ SequencesImportable(source)
  BY DEF TypeInv, AddGraph
<1>2. WellFormed(graph')
  BY <1>1, AddedFacts
<1> QED BY <1>2 DEF TypeInv

LEMMA MergeKeepsTypes ==
  ASSUME TypeInv, MergeSpecialNodes
  PROVE  TypeInv'
<1>1. WellFormed(graph) /\ graph' = MergedSpecial(graph) /\ SequencesPaired(graph)
  BY DEF TypeInv, MergeSpecialNodes
<1>2. \A s \in Subtypes : PairedIn(graph, s)
  BY <1>1, GuardsPair
<1>3. WellFormed(graph')
  BY <1>1, <1>2, SpecialMergedFacts
<1> QED BY <1>3 DEF TypeInv

LEMMA FreezeKeepsTypes ==
  ASSUME TypeInv, FreezeTopology
  PROVE  TypeInv'
<1>1. /\ graph \in Graph /\ WellFormed(graph) /\ graph' = [graph EXCEPT !.frozen = TRUE]
  BY DEF TypeInv, WellFormed, FreezeTopology
<1>2. /\ graph' \in Graph /\ graph'.usage = graph.usage /\ graph'.slots = graph.slots
      /\ graph'.deps = graph.deps /\ graph'.frozen
  BY <1>1 DEF Graph
<1> DEFINE h == graph'
<1>3. Live(h) = Live(graph)
  <2>1. h.usage = graph.usage
    BY <1>2
  <2> HIDE DEF h
  <2> QED BY <2>1 DEF Live
<1> HIDE DEF h
<1>4. /\ \A i, j \in 1 .. Len(graph.usage) : graph.usage[i].id = graph.usage[j].id => i = j
      /\ \A i \in 1 .. Len(graph.usage) : graph.usage[i].id < graph.slots
      /\ \A t \in Tracks : \A x, y : <<x, y>> \in graph.deps[t] => x \in Live(graph) /\ y \in Live(graph) /\ x # y
  BY <1>1, GraphFacts
<1>5. WellFormed(h)
  <2>1. /\ h \in Graph /\ h.usage = graph.usage /\ h.slots = graph.slots
        /\ h.deps = graph.deps /\ h.frozen
    BY <1>2 DEF h
  <2> QED BY <1>3, <1>4, <2>1, MakesGraph
<1> QED BY <1>5 DEF TypeInv, h

LEMMA BuildKeepsTypes ==
  ASSUME TypeInv, BuildFlowGroups
  PROVE  TypeInv'
<1>1. WellFormed(graph) /\ graph' = WithFlowGroups(graph)
  BY DEF TypeInv, BuildFlowGroups
<1>2. WellFormed(graph')
  BY <1>1, FlowGroupsFacts
<1> QED BY <1>2 DEF TypeInv

LEMMA OthersKeepTypes ==
  ASSUME TypeInv,
         Client \/ \E source \in CameraGraphs, merge \in BOOLEAN : import_camera_setup_graph_to_final(source, merge)
  PROVE  TypeInv'
<1>1. CASE Client
  <2>1. EditOrMerge
    BY <1>1 DEF Client
  <2>2. CASE Edit
    BY <2>2, EditKeepsTypes
  <2>3. CASE MergeSpecialNodes
    BY <2>3, MergeKeepsTypes
  <2>4. ASSUME NEW source \in Sources, NEW merge \in BOOLEAN, AddGraph(source, merge) PROVE TypeInv'
    <3>1. WellFormed(source)
      BY SourcesAssumption
    <3> QED BY <2>4, <3>1, AddGraphKeepsTypes
  <2>5. CASE FreezeTopology
    BY <2>5, FreezeKeepsTypes
  <2>6. CASE BuildFlowGroups
    BY <2>6, BuildKeepsTypes
  <2> QED BY <2>1, <2>2, <2>3, <2>4, <2>5, <2>6 DEF EditOrMerge
<1>2. ASSUME NEW source \in CameraGraphs, NEW merge \in BOOLEAN,
             import_camera_setup_graph_to_final(source, merge)
      PROVE  TypeInv'
  <2>1. WellFormed(source) /\ AddGraph(source, merge)
    BY <1>2, FactoryAssumption DEF import_camera_setup_graph_to_final
  <2> QED BY <2>1, AddGraphKeepsTypes
<1> QED BY <1>1, <1>2

-----------------------------------------------------------------------------
(* Factories: what a graph made through one is like *)

\* Edges between live nodes are added on a track there is.
LEMMA LinkedFacts ==
  ASSUME NEW g, WellFormed(g), NEW t, NEW edges, edges \subseteq Live(g) \X Live(g)
  PROVE  LET h == link_nodes(g, t, edges) IN
           /\ WellFormed(h) /\ h.usage = g.usage /\ h.slots = g.slots /\ h.frozen = g.frozen
           /\ Live(h) = Live(g)
           /\ \A u \in Tracks : \A x, y : <<x, y>> \in h.deps[u] <=>
                <<x, y>> \in g.deps[u] \/ (u = t /\ <<x, y>> \in edges /\ x # y)
<1> DEFINE D == [g.deps EXCEPT ![t] = @ \cup NoSelf(edges)]
           h == link_nodes(g, t, edges)
<1>1. g \in Graph /\ Live(g) \subseteq Nat
  BY GraphFacts DEF WellFormed
<1>2. /\ g.deps \in [Tracks -> SUBSET (Nat \X Nat)]
      /\ \A u \in Tracks : \A x, y : <<x, y>> \in g.deps[u] => x \in Live(g) /\ y \in Live(g) /\ x # y
  BY <1>1, GraphShape, GraphFacts
<1>3. /\ NoSelf(edges) \subseteq Nat \X Nat
      /\ \A x, y : <<x, y>> \in NoSelf(edges) <=> <<x, y>> \in edges /\ x # y
      /\ \A x, y : <<x, y>> \in edges => x \in Live(g) /\ y \in Live(g)
  BY <1>1 DEF NoSelf
<1>4. h = [g EXCEPT !.deps = D]
  BY <1>1 DEF link_nodes, Graph
<1>5. /\ D \in [Tracks -> SUBSET (Nat \X Nat)]
      /\ \A u \in Tracks : D[u] = IF u = t THEN g.deps[u] \cup NoSelf(edges) ELSE g.deps[u]
  <2>1. CASE t \in Tracks
    BY <1>2, <1>3, <2>1
  <2>2. CASE t \notin Tracks
    <3>1. D = g.deps
      BY <1>2, <2>2
    <3> QED BY <1>2, <2>2, <3>1
  <2> QED BY <2>1, <2>2
<1> HIDE DEF D, h
<1>6. \A u \in Tracks : \A x, y : <<x, y>> \in D[u] <=>
        <<x, y>> \in g.deps[u] \/ (u = t /\ <<x, y>> \in edges /\ x # y)
  BY <1>3, <1>5
<1>7. \A u \in Tracks : \A x, y : <<x, y>> \in D[u] => x \in Live(g) /\ y \in Live(g) /\ x # y
  BY <1>2, <1>3, <1>6
<1>8. /\ WellFormed(h) /\ h.deps = D /\ h.usage = g.usage /\ h.slots = g.slots /\ Live(h) = Live(g)
  BY <1>4, <1>5, <1>7, NewEdges
<1>9. h.frozen = g.frozen
  BY <1>1, <1>4 DEF Graph
<1> QED BY <1>6, <1>8, <1>9 DEF h

\* A graph with more has at least the order.
LEMMA FollowsGrow ==
  ASSUME NEW g, WellFormed(g), NEW h, WellFormed(h), NEW t \in Tracks, g.deps[t] \subseteq h.deps[t]
  PROVE  Follows(g, t) \subseteq Follows(h, t)
<1>1. h.deps[t] \subseteq Follows(h, t) /\ Transitive(Follows(h, t))
  BY FollowsIsLeast
<1>2. \A T : g.deps[t] \subseteq T /\ Transitive(T) => Follows(g, t) \subseteq T
  BY FollowsIsLeast
<1> QED BY <1>1, <1>2

GroupData == [members : SUBSET Nat, entry : Nat \cup {NoNode}, exit : Nat \cup {NoNode}]

\* What a node of the graph is to the caller: itself, or one side of a group.
Stands(G, c, x, p) ==
  \/ x \in ToSet(c) /\ p = x
  \/ \E i \in 1 .. Len(G) : /\ x # NoNode
                            /\ (x = G[i].entry /\ p = Before(i)) \/ (x = G[i].exit /\ p = Behind(i))

\* What a group means to the order.
InGroup(G, p, q) ==
  \E i \in 1 .. Len(G) : \/ p = Before(i) /\ q \in G[i].members
                         \/ p \in G[i].members /\ q = Behind(i)
                         \/ p = Before(i) /\ q = Behind(i)

Wanted(G, a, t, p, q) == <<p, q>> \in a[t] \/ (t = "cpu" /\ InGroup(G, p, q))

Answered(g, G, c, t, p, q) ==
  \E x, y : Stands(G, c, x, p) /\ Stands(G, c, y, q) /\ <<x, y>> \in Follows(g, t)

\* Members were created and anchors were not; no node is two anchors.
GroupsFine(g, G, c) ==
  /\ G \in Seq(GroupData)
  /\ \A i \in 1 .. Len(G) :
       /\ G[i].members \subseteq ToSet(c)
       /\ G[i].entry # NoNode => G[i].entry \in Live(g) /\ G[i].entry \notin ToSet(c)
       /\ G[i].exit # NoNode => G[i].exit \in Live(g) /\ G[i].exit \notin ToSet(c)
  /\ \A i, j \in 1 .. Len(G) :
       /\ G[i].entry # NoNode /\ G[i].entry = G[j].entry => i = j
       /\ G[i].exit # NoNode /\ G[i].exit = G[j].exit => i = j
       /\ G[i].entry # NoNode => G[i].entry # G[j].exit

\* An anchor has its edges to the members and to the other anchor.
AnchorsHold(g, G) ==
  "cpu" \in Tracks =>
    \A i \in 1 .. Len(G) :
      /\ G[i].entry # NoNode => \A m \in G[i].members : <<G[i].entry, m>> \in g.deps["cpu"]
      /\ G[i].exit # NoNode => \A m \in G[i].members : <<m, G[i].exit>> \in g.deps["cpu"]
      /\ G[i].entry # NoNode /\ G[i].exit # NoNode /\ G[i].members = {}
           => <<G[i].entry, G[i].exit>> \in g.deps["cpu"]

\* Every edge is one the caller wanted, and what he asked for is there.
NothingElse(g, G, c, a) ==
  \A t \in Tracks : \A x, y : <<x, y>> \in g.deps[t] =>
    \E p, q : Stands(G, c, x, p) /\ Stands(G, c, y, q) /\ Wanted(G, a, t, p, q)
AllAnswered(g, G, c, a) ==
  \A t \in Tracks : \A p, q : <<p, q>> \in a[t] => Answered(g, G, c, t, p, q)

Fine(g, G, c, w, a) ==
  /\ WellFormed(g)
  /\ c \in Seq(Nat) /\ Distinct(c) /\ ToSet(c) \subseteq Live(g) /\ w \subseteq ToSet(c)
  /\ GroupsFine(g, G, c)
  /\ a \in [Tracks -> SUBSET (Int \X Int)]
  /\ AnchorsHold(g, G) /\ NothingElse(g, G, c, a) /\ AllAnswered(g, G, c, a)

\* The graph, the groups and the created nodes only grow.
Grown(g, G, c, h, H, d) ==
  /\ ToSet(c) \subseteq ToSet(d) /\ Len(G) <= Len(H)
  /\ \A i \in 1 .. Len(G) : /\ G[i].members \subseteq H[i].members
                            /\ G[i].entry # NoNode => H[i].entry = G[i].entry
                            /\ G[i].exit # NoNode => H[i].exit = G[i].exit
  /\ \A t \in Tracks : g.deps[t] \subseteq h.deps[t]

\* What stood for something stands for it, what was wanted is wanted and what
\* was answered is answered.
LEMMA GrownKeeps ==
  ASSUME NEW g, WellFormed(g), NEW h, WellFormed(h),
         NEW G \in Seq(GroupData), NEW H \in Seq(GroupData), NEW c, NEW d, Grown(g, G, c, h, H, d),
         NEW a, NEW b, \A t \in Tracks : a[t] \subseteq b[t]
  PROVE  /\ \A x, p : Stands(G, c, x, p) => Stands(H, d, x, p)
         /\ \A t \in Tracks : \A p, q : Wanted(G, a, t, p, q) => Wanted(H, b, t, p, q)
         /\ \A t \in Tracks : \A p, q : Answered(g, G, c, t, p, q) => Answered(h, H, d, t, p, q)
<1>1. /\ ToSet(c) \subseteq ToSet(d) /\ \A i \in 1 .. Len(G) : i \in 1 .. Len(H)
      /\ \A i \in 1 .. Len(G) : /\ G[i].members \subseteq H[i].members
                                /\ G[i].entry # NoNode => H[i].entry = G[i].entry
                                /\ G[i].exit # NoNode => H[i].exit = G[i].exit
      /\ \A t \in Tracks : g.deps[t] \subseteq h.deps[t]
  BY DEF Grown
<1>2. \A x, p : Stands(G, c, x, p) => Stands(H, d, x, p)
  BY <1>1, Zenon DEF Stands
<1>3. \A p, q : InGroup(G, p, q) => InGroup(H, p, q)
  BY <1>1, Zenon DEF InGroup
<1>4. \A t \in Tracks : \A p, q : Wanted(G, a, t, p, q) => Wanted(H, b, t, p, q)
  BY <1>3 DEF Wanted
<1>5. \A t \in Tracks : Follows(g, t) \subseteq Follows(h, t)
  BY <1>1, FollowsGrow
<1> QED BY <1>2, <1>4, <1>5, Zenon DEF Answered

\* The names of the sides of groups are told apart, and from nodes.
LEMMA SideNames ==
  ASSUME NEW N \in Nat
  PROVE  /\ \A i \in 1 .. N : Before(i) \in Int /\ Behind(i) \in Int /\ Before(i) < 0 /\ Behind(i) < 0
         /\ \A i, j \in 1 .. N : /\ Before(i) = Before(j) => i = j
                                 /\ Behind(i) = Behind(j) => i = j
                                 /\ Before(i) # Behind(j)
BY DEF Before, Behind

LEMMA StandsOnce ==
  ASSUME NEW g, NEW G, NEW c \in Seq(Nat), GroupsFine(g, G, c), ToSet(c) \subseteq Live(g)
  PROVE  /\ \A x, p, q : Stands(G, c, x, p) /\ Stands(G, c, x, q) => p = q
         /\ \A x, y, p : Stands(G, c, x, p) /\ Stands(G, c, y, p) => x = y
         /\ \A x, p : x \in ToSet(c) \/ p \in ToSet(c) => (Stands(G, c, x, p) <=> x = p)
         /\ \A x, p : Stands(G, c, x, p) => x \in Live(g) /\ p \in Int
<1> DEFINE N == Len(G)
<1>1. N \in Nat /\ ToSet(c) \subseteq Nat
  <2>1. G \in Seq(GroupData)
    BY DEF GroupsFine
  <2>2. DOMAIN c = 1 .. Len(c) /\ \A k \in 1 .. Len(c) : c[k] \in Nat
    OBVIOUS
  <2> QED BY <2>1, <2>2 DEF ToSet
<1>2. /\ \A i \in 1 .. N : Before(i) \in Int /\ Behind(i) \in Int /\ Before(i) < 0 /\ Behind(i) < 0
      /\ \A i, j \in 1 .. N : /\ Before(i) = Before(j) => i = j
                              /\ Behind(i) = Behind(j) => i = j
                              /\ Before(i) # Behind(j)
  BY <1>1, SideNames
<1>3. /\ \A i \in 1 .. N :
           /\ G[i].entry # NoNode => G[i].entry \in Live(g) /\ G[i].entry \notin ToSet(c)
           /\ G[i].exit # NoNode => G[i].exit \in Live(g) /\ G[i].exit \notin ToSet(c)
      /\ \A i, j \in 1 .. N :
           /\ G[i].entry # NoNode /\ G[i].entry = G[j].entry => i = j
           /\ G[i].exit # NoNode /\ G[i].exit = G[j].exit => i = j
           /\ G[i].entry # NoNode => G[i].entry # G[j].exit
  BY DEF GroupsFine
<1>4. \A x, p : Stands(G, c, x, p) <=>
        \/ x \in ToSet(c) /\ p = x
        \/ \E i \in 1 .. N : x # NoNode /\ x = G[i].entry /\ p = Before(i)
        \/ \E i \in 1 .. N : x # NoNode /\ x = G[i].exit /\ p = Behind(i)
  BY DEF Stands
<1> HIDE DEF N
<1>5. \A i \in 1 .. N : Before(i) \notin ToSet(c) /\ Behind(i) \notin ToSet(c)
  BY <1>1, <1>2
<1>6. ASSUME NEW x, NEW p, Stands(G, c, x, p) PROVE x \in Live(g) /\ p \in Int
  <2>1. CASE x \in ToSet(c) /\ p = x
    BY <1>1, <2>1
  <2>2. CASE \E i \in 1 .. N : x # NoNode /\ x = G[i].entry /\ p = Before(i)
    BY <1>2, <1>3, <2>2
  <2>3. CASE \E i \in 1 .. N : x # NoNode /\ x = G[i].exit /\ p = Behind(i)
    BY <1>2, <1>3, <2>3
  <2> QED BY <1>4, <1>6, <2>1, <2>2, <2>3
<1>7. ASSUME NEW x, NEW p, x \in ToSet(c) \/ p \in ToSet(c) PROVE Stands(G, c, x, p) <=> x = p
  BY <1>3, <1>4, <1>5, <1>7
<1>8. ASSUME NEW x, NEW p, NEW q, Stands(G, c, x, p), Stands(G, c, x, q) PROVE p = q
  BY <1>3, <1>4, <1>7, <1>8
<1>9. ASSUME NEW x, NEW y, NEW p, Stands(G, c, x, p), Stands(G, c, y, p) PROVE x = y
  BY <1>2, <1>4, <1>5, <1>9
<1> QED BY <1>6, <1>7, <1>8, <1>9

\* What a group means, as pairs.
GroupPairs(G) ==
  UNION {({Before(i)} \X G[i].members) \cup (G[i].members \X {Behind(i)})
           \cup {<<Before(i), Behind(i)>>} : i \in DOMAIN G}

LEMMA GroupPairsFacts ==
  ASSUME NEW G \in Seq(GroupData)
  PROVE  /\ GroupPairs(G) \in SUBSET (Int \X Int)
         /\ \A p, q : <<p, q>> \in GroupPairs(G) <=> InGroup(G, p, q)
<1>1. /\ DOMAIN G = 1 .. Len(G) /\ Len(G) \in Nat
      /\ \A i \in 1 .. Len(G) : G[i] \in GroupData
  OBVIOUS
<1>2. \A i \in 1 .. Len(G) : G[i].members \subseteq Nat /\ Before(i) \in Int /\ Behind(i) \in Int
  <2>1. \A i \in 1 .. Len(G) : G[i].members \subseteq Nat
    BY <1>1 DEF GroupData
  <2> QED BY <1>1, <2>1, SideNames
<1> DEFINE S(i) == ({Before(i)} \X G[i].members) \cup (G[i].members \X {Behind(i)})
                     \cup {<<Before(i), Behind(i)>>}
<1>3. \A i \in 1 .. Len(G) : S(i) \subseteq Int \X Int
  BY <1>2
<1>4. GroupPairs(G) \in SUBSET (Int \X Int)
  BY <1>1, <1>3 DEF GroupPairs
<1>5. ASSUME NEW p, NEW q PROVE <<p, q>> \in GroupPairs(G) <=> InGroup(G, p, q)
  <2>1. <<p, q>> \in GroupPairs(G) <=> \E i \in 1 .. Len(G) : <<p, q>> \in S(i)
    BY <1>1 DEF GroupPairs
  <2>2. \A i \in 1 .. Len(G) : <<p, q>> \in S(i) <=>
          \/ p = Before(i) /\ q \in G[i].members
          \/ p \in G[i].members /\ q = Behind(i)
          \/ p = Before(i) /\ q = Behind(i)
    OBVIOUS
  <2> HIDE DEF S
  <2> QED BY <2>1, <2>2 DEF InGroup
<1> QED BY <1>4, <1>5

\* End to end sequences have the elements of all of them.
LEMMA FlattenHas ==
  ASSUME NEW R, NEW seqs \in Seq(Seq(R))
  PROVE  /\ FlattenSeq(seqs) \in Seq(R)
         /\ \A x : x \in ToSet(FlattenSeq(seqs)) <=> \E i \in 1 .. Len(seqs) : x \in ToSet(seqs[i])
<1> DEFINE n == Len(seqs)
<1>1. PICK F : Leading(R, seqs, F)
  BY LeadingExist
<1>2. /\ F \in [0 .. n -> Seq(R)] /\ F[0] = <<>> /\ \A k \in 1 .. n : F[k] = F[k - 1] \o seqs[k]
  BY <1>1 DEF Leading
<1>3. FlattenSeq(seqs) = F[n]
  BY <1>1, FlattenFacts
<1>4. n \in Nat /\ \A k \in 1 .. n : seqs[k] \in Seq(R)
  OBVIOUS
<1> HIDE DEF n
<1> DEFINE D == {k \in Nat : k <= n => \A x : x \in ToSet(F[k]) <=> \E i \in 1 .. k : x \in ToSet(seqs[i])}
<1>5. 0 \in D
  <2>1. ToSet(<<>>) = {} /\ 1 .. 0 = {}
    BY DEF ToSet
  <2> QED BY <1>2, <2>1
<1>6. ASSUME NEW k \in D PROVE k + 1 \in D
  <2>1. SUFFICES ASSUME k + 1 <= n, NEW x
                 PROVE  x \in ToSet(F[k + 1]) <=> \E i \in 1 .. k + 1 : x \in ToSet(seqs[i])
    BY <1>6
  <2>2. k \in Nat /\ k + 1 \in 1 .. n /\ (k + 1) - 1 = k /\ k \in 0 .. n /\ k <= n
    BY <1>4, <1>6, <2>1
  <2>3. x \in ToSet(F[k]) <=> \E i \in 1 .. k : x \in ToSet(seqs[i])
    BY <1>6, <2>2
  <2>4. F[k + 1] = F[k] \o seqs[k + 1] /\ F[k] \in Seq(R) /\ seqs[k + 1] \in Seq(R)
    BY <1>2, <1>4, <2>2
  <2>5. \A s, r \in Seq(R) : ToSet(s \o r) = ToSet(s) \cup ToSet(r)
    <3>1. SUFFICES ASSUME NEW s \in Seq(R), NEW r \in Seq(R) PROVE ToSet(s \o r) = ToSet(s) \cup ToSet(r)
      OBVIOUS
    <3>2. /\ DOMAIN s = 1 .. Len(s) /\ DOMAIN r = 1 .. Len(r) /\ DOMAIN (s \o r) = 1 .. Len(s) + Len(r)
          /\ \A i \in 1 .. Len(s) : i \in 1 .. Len(s) + Len(r) /\ (s \o r)[i] = s[i]
          /\ \A i \in 1 .. Len(r) : Len(s) + i \in 1 .. Len(s) + Len(r) /\ (s \o r)[Len(s) + i] = r[i]
          /\ \A i \in 1 .. Len(s) + Len(r) : i \in 1 .. Len(s) \/ (i - Len(s) \in 1 .. Len(r) /\ i = Len(s) + (i - Len(s)))
      OBVIOUS
    <3>3. \A y \in ToSet(s \o r) : y \in ToSet(s) \cup ToSet(r)
      <4>1. SUFFICES ASSUME NEW i \in 1 .. Len(s) + Len(r) PROVE (s \o r)[i] \in ToSet(s) \cup ToSet(r)
        BY <3>2 DEF ToSet
      <4>2. CASE i \in 1 .. Len(s)
        <5>1. (s \o r)[i] = s[i] /\ s[i] \in ToSet(s)
          BY <3>2, <4>2 DEF ToSet
        <5> QED BY <5>1
      <4>3. CASE i \notin 1 .. Len(s)
        <5>1. PICK j \in 1 .. Len(r) : i = Len(s) + j
          BY <3>2, <4>3
        <5>2. (s \o r)[i] = r[j] /\ r[j] \in ToSet(r)
          BY <3>2, <5>1 DEF ToSet
        <5> QED BY <5>2
      <4> QED BY <4>2, <4>3
    <3>4. ToSet(s) \subseteq ToSet(s \o r) /\ ToSet(r) \subseteq ToSet(s \o r)
      <4>1. \A i \in 1 .. Len(s) + Len(r) : (s \o r)[i] \in ToSet(s \o r)
        BY <3>2 DEF ToSet
      <4>2. \A i \in 1 .. Len(s) : s[i] \in ToSet(s \o r)
        BY <3>2, <4>1
      <4>3. \A i \in 1 .. Len(r) : r[i] \in ToSet(s \o r)
        BY <3>2, <4>1
      <4> QED BY <3>2, <4>2, <4>3 DEF ToSet
    <3> QED BY <3>3, <3>4
  <2>6. x \in ToSet(F[k + 1]) <=> x \in ToSet(F[k]) \/ x \in ToSet(seqs[k + 1])
    BY <2>4, <2>5
  <2>7. 1 .. k + 1 = (1 .. k) \cup {k + 1}
    BY <2>2
  <2> QED BY <2>3, <2>6, <2>7
<1> HIDE DEF D
<1>7. D = Nat
  <2>1. D \subseteq Nat
    BY DEF D
  <2> QED BY <1>5, <1>6, <2>1, Reached
<1>8. \A x : x \in ToSet(F[n]) <=> \E i \in 1 .. n : x \in ToSet(seqs[i])
  <2>1. n \in D /\ n <= n
    BY <1>4, <1>7
  <2> QED BY <2>1, Zenon DEF D
<1>9. F[n] \in Seq(R)
  BY <1>2, <1>4
<1> QED BY <1>3, <1>8, <1>9 DEF n

\* The points of the asked order: the created nodes and the sides of groups.
Points(G, c) == c \o FlattenSeq([g \in DOMAIN G |-> <<Before(g), Behind(g)>>])

LEMMA PointsFacts ==
  ASSUME NEW G \in Seq(GroupData), NEW c \in Seq(Nat)
  PROVE  /\ Points(G, c) \in Seq(Int)
         /\ \A p : p \in ToSet(Points(G, c)) <=> p \in ToSet(c) \/ \E i \in 1 .. Len(G) : p = Before(i) \/ p = Behind(i)
<1> DEFINE rows == [g \in DOMAIN G |-> <<Before(g), Behind(g)>>]
<1>1. /\ DOMAIN G = 1 .. Len(G) /\ Len(G) \in Nat
      /\ \A i \in 1 .. Len(G) : Before(i) \in Int /\ Behind(i) \in Int
  BY SideNames
<1>2. rows \in Seq(Seq(Int)) /\ Len(rows) = Len(G)
  <2>1. rows \in [1 .. Len(G) -> Seq(Int)]
    <3>1. \A i \in 1 .. Len(G) : <<Before(i), Behind(i)>> \in Seq(Int)
      BY <1>1
    <3> QED BY <1>1, <3>1
  <2> HIDE DEF rows
  <2> QED BY <1>1, <2>1, SMTT(30)
<1>3. \A i \in 1 .. Len(G) : \A p : p \in ToSet(rows[i]) <=> p = Before(i) \/ p = Behind(i)
  <2>1. \A x, y, p : p \in ToSet(<<x, y>>) <=> p = x \/ p = y
    <3>1. \A x, y : DOMAIN <<x, y>> = {1, 2} /\ <<x, y>>[1] = x /\ <<x, y>>[2] = y
      OBVIOUS
    <3> QED BY <3>1 DEF ToSet
  <2>2. \A i \in 1 .. Len(G) : rows[i] = <<Before(i), Behind(i)>>
    BY <1>1
  <2> HIDE DEF rows
  <2> QED BY <2>1, <2>2
<1>4. Points(G, c) = c \o FlattenSeq(rows)
  BY DEF Points
<1> HIDE DEF rows
<1>5. /\ FlattenSeq(rows) \in Seq(Int)
      /\ \A p : p \in ToSet(FlattenSeq(rows)) <=> \E i \in 1 .. Len(G) : p \in ToSet(rows[i])
  BY <1>2, FlattenHas
<1>6. \A s, r \in Seq(Int) : s \o r \in Seq(Int) /\ \A p : p \in ToSet(s \o r) <=> p \in ToSet(s) \/ p \in ToSet(r)
  <2>1. SUFFICES ASSUME NEW s \in Seq(Int), NEW r \in Seq(Int)
                 PROVE  s \o r \in Seq(Int) /\ \A p : p \in ToSet(s \o r) <=> p \in ToSet(s) \/ p \in ToSet(r)
    OBVIOUS
  <2> DEFINE two == <<s, r>>
  <2>2. two \in Seq(Seq(Int)) /\ Len(two) = 2 /\ two[1] = s /\ two[2] = r
    OBVIOUS
  <2> HIDE DEF two
  <2>3. PICK F : Leading(Int, two, F)
    BY <2>2, LeadingExist
  <2>4. FlattenSeq(two) = F[2] /\ F[0] = <<>> /\ F[1] = F[0] \o s /\ F[2] = F[1] \o r
    <3>1. 1 \in 1 .. 2 /\ 2 \in 1 .. 2 /\ 1 - 1 = 0 /\ 2 - 1 = 1
      OBVIOUS
    <3>2. \A k \in 1 .. 2 : F[k] = F[k - 1] \o two[k]
      BY <2>3, <2>2 DEF Leading
    <3>3. F[1] = F[1 - 1] \o two[1] /\ F[2] = F[2 - 1] \o two[2]
      BY <3>1, <3>2
    <3>4. FlattenSeq(two) = F[2] /\ F[0] = <<>>
      BY <2>3, <2>2, FlattenFacts DEF Leading
    <3> QED BY <2>2, <3>1, <3>3, <3>4
  <2>5. FlattenSeq(two) = s \o r
    BY <2>4
  <2>6. /\ FlattenSeq(two) \in Seq(Int)
        /\ \A p : p \in ToSet(FlattenSeq(two)) <=> \E i \in 1 .. 2 : p \in ToSet(two[i])
    BY <2>2, FlattenHas
  <2>7. \A i \in 1 .. 2 : i = 1 \/ i = 2
    OBVIOUS
  <2> QED BY <2>2, <2>5, <2>6, <2>7
<1>7. c \in Seq(Int)
  OBVIOUS
<1> QED BY <1>3, <1>4, <1>5, <1>6, <1>7

\* A fine factory has the order that was asked for and no other.
LEMMA FineOrder ==
  ASSUME NEW g, NEW G, NEW c, NEW w, NEW a, Fine(g, G, c, w, a), NEW t \in Tracks,
         NEW edges, edges = a[t] \cup (IF t = "cpu" THEN GroupPairs(G) ELSE {})
  PROVE  Follows(g, t) \cap (ToSet(c) \X ToSet(c))
           = Reach(edges, Points(G, c)) \cap (ToSet(c) \X ToSet(c))
<1> DEFINE N == Len(G)
           C == Follows(g, t)
           R == Reach(edges, Points(G, c))
           E == g.deps[t]
           K == ToSet(c)
<1>1. /\ WellFormed(g) /\ c \in Seq(Nat) /\ K \subseteq Live(g)
      /\ GroupsFine(g, G, c) /\ G \in Seq(GroupData)
      /\ AnchorsHold(g, G) /\ NothingElse(g, G, c, a) /\ AllAnswered(g, G, c, a)
      /\ a[t] \in SUBSET (Int \X Int) /\ N \in Nat
  BY DEF Fine, GroupsFine
<1>2. /\ \A x, p, q : Stands(G, c, x, p) /\ Stands(G, c, x, q) => p = q
      /\ \A x, y, p : Stands(G, c, x, p) /\ Stands(G, c, y, p) => x = y
      /\ \A x, p : x \in K \/ p \in K => (Stands(G, c, x, p) <=> x = p)
      /\ \A x, p : Stands(G, c, x, p) => x \in Live(g) /\ p \in Int
  BY <1>1, StandsOnce
<1>3. /\ E \subseteq C /\ Transitive(C)
      /\ \A x, y : <<x, y>> \in C => x \in Live(g) /\ y \in Live(g)
      /\ \A T : E \subseteq T /\ Transitive(T) => C \subseteq T
  BY <1>1, FollowsIsLeast
<1>4. E \in SUBSET (Nat \X Nat) /\ Live(g) \subseteq Nat
  BY <1>1, GraphFacts
<1>5. /\ GroupPairs(G) \in SUBSET (Int \X Int)
      /\ \A p, q : <<p, q>> \in GroupPairs(G) <=> InGroup(G, p, q)
  BY <1>1, GroupPairsFacts
<1>6. edges \in SUBSET (Int \X Int) /\ \A p, q : <<p, q>> \in edges <=> Wanted(G, a, t, p, q)
  BY <1>1, <1>5 DEF Wanted
<1>7. /\ Points(G, c) \in Seq(Int)
      /\ \A p : p \in ToSet(Points(G, c)) <=> p \in K \/ \E i \in 1 .. N : p = Before(i) \/ p = Behind(i)
  BY <1>1, PointsFacts
<1>8. \A i \in 1 .. N : G[i].members \subseteq K
  BY <1>1 DEF GroupsFine
<1>9. \A x, p : Stands(G, c, x, p) => p \in ToSet(Points(G, c))
  BY <1>7 DEF Stands
<1>10. \A p, q : Wanted(G, a, t, p, q) => p \in ToSet(Points(G, c)) /\ q \in ToSet(Points(G, c))
  <2>1. ASSUME NEW p, NEW q, <<p, q>> \in a[t] PROVE p \in ToSet(Points(G, c)) /\ q \in ToSet(Points(G, c))
    <3>1. PICK x, y : Stands(G, c, x, p) /\ Stands(G, c, y, q)
      BY <1>1, <2>1 DEF AllAnswered, Answered
    <3> QED BY <1>9, <3>1
  <2>2. ASSUME NEW p, NEW q, InGroup(G, p, q) PROVE p \in ToSet(Points(G, c)) /\ q \in ToSet(Points(G, c))
    BY <1>7, <1>8, <2>2 DEF InGroup
  <2> QED BY <2>1, <2>2 DEF Wanted
<1>11. /\ edges \subseteq R /\ R \in SUBSET (Int \X Int) /\ Transitive(R)
       /\ \A T : edges \subseteq T /\ Transitive(T) => R \subseteq T
  <2>1. \A x, y \in Int : <<x, y>> \in edges => {x, y} \subseteq ToSet(Points(G, c))
    BY <1>6, <1>10
  <2> DEFINE P == Points(G, c)
             D == edges
  <2>2. P \in Seq(Int) /\ D \in SUBSET (Int \X Int)
    BY <1>6, <1>7
  <2>3. \A x, y \in Int : <<x, y>> \in D => {x, y} \subseteq ToSet(P)
    BY <2>1
  <2>4. R = Reach(D, P)
    OBVIOUS
  <2> HIDE DEF P, D, R
  <2>5. /\ D \subseteq Reach(D, P)
        /\ Reach(D, P) \in SUBSET (Int \X Int)
        /\ Transitive(Reach(D, P))
        /\ \A T : D \subseteq T /\ Transitive(T) => Reach(D, P) \subseteq T
    BY <2>2, <2>3, ReachIsLeast
  <2>6. D = edges
    BY DEF D
  <2> QED BY <2>4, <2>5, <2>6
<1> HIDE DEF C, R, E, K, N
<1>12. ASSUME NEW x \in K, NEW y \in K, <<x, y>> \in C PROVE <<x, y>> \in R
  <2> DEFINE T == {e \in Nat \X Nat : \E p, q : Stands(G, c, e[1], p) /\ Stands(G, c, e[2], q) /\ <<p, q>> \in R}
  <2>1. \A m, n : <<m, n>> \in T <=>
          m \in Nat /\ n \in Nat /\ \E p, q : Stands(G, c, m, p) /\ Stands(G, c, n, q) /\ <<p, q>> \in R
    OBVIOUS
  <2> HIDE DEF T
  <2>2. Transitive(T)
    <3>1. SUFFICES ASSUME NEW m, NEW n, NEW o, <<m, n>> \in T, <<n, o>> \in T PROVE <<m, o>> \in T
      BY DEF Transitive
    <3>2. m \in Nat /\ n \in Nat /\ o \in Nat
      BY <2>1, <3>1
    <3>3. PICK p, q : Stands(G, c, m, p) /\ Stands(G, c, n, q) /\ <<p, q>> \in R
      BY <2>1, <3>1
    <3>4. PICK r, s : Stands(G, c, n, r) /\ Stands(G, c, o, s) /\ <<r, s>> \in R
      BY <2>1, <3>1
    <3>5. q = r
      BY <1>2, <3>3, <3>4
    <3>6. <<p, s>> \in R
      BY <1>11, <3>3, <3>4, <3>5 DEF Transitive
    <3> QED BY <2>1, <3>2, <3>3, <3>4, <3>6
  <2>3. E \subseteq T
    <3>1. ASSUME NEW m, NEW n, <<m, n>> \in E PROVE <<m, n>> \in T
      <4>1. PICK p, q : Stands(G, c, m, p) /\ Stands(G, c, n, q) /\ Wanted(G, a, t, p, q)
        BY <1>1, <3>1 DEF NothingElse, E
      <4>2. <<p, q>> \in R
        BY <1>6, <1>11, <4>1
      <4>3. m \in Nat /\ n \in Nat
        BY <1>4, <3>1
      <4> QED BY <2>1, <4>1, <4>2, <4>3
    <3> QED BY <1>4, <3>1
  <2>4. <<x, y>> \in T
    BY <1>3, <1>12, <2>2, <2>3
  <2>5. PICK p, q : Stands(G, c, x, p) /\ Stands(G, c, y, q) /\ <<p, q>> \in R
    BY <2>1, <2>4
  <2>6. x = p /\ y = q
    BY <1>2, <2>5
  <2> QED BY <2>5, <2>6
<1>13. ASSUME NEW p \in K, NEW q \in K, <<p, q>> \in R PROVE <<p, q>> \in C
  <2> DEFINE In(r) == (\E x : Stands(G, c, x, r)) \/ \E i \in 1 .. N : r = Behind(i)
             Out(r) == (\E x : Stands(G, c, x, r)) \/ \E i \in 1 .. N : r = Before(i)
             Kept(r, s) == /\ Out(r) /\ In(s)
                           /\ \A x, y : Stands(G, c, x, r) /\ Stands(G, c, y, s) => <<x, y>> \in C
             T == {e \in Int \X Int : Kept(e[1], e[2])}
  <2>1. \A r, s : <<r, s>> \in T <=> r \in Int /\ s \in Int /\ Kept(r, s)
    OBVIOUS
  <2>2. \A r : In(r) /\ Out(r) => \E x : Stands(G, c, x, r)
    <3>1. \A i, j \in 1 .. N : Before(i) # Behind(j)
      <4>1. N \in Nat
        BY <1>1 DEF N
      <4> QED BY <4>1, SideNames
    <3> QED BY <3>1
  <2>3. ASSUME NEW r, NEW s, NEW o, Kept(r, s), Kept(s, o) PROVE Kept(r, o)
    <3>1. PICK z : Stands(G, c, z, s)
      BY <2>2, <2>3
    <3>2. ASSUME NEW x, NEW y, Stands(G, c, x, r), Stands(G, c, y, o) PROVE <<x, y>> \in C
      <4>1. <<x, z>> \in C /\ <<z, y>> \in C
        BY <2>3, <3>1, <3>2
      <4> QED BY <1>3, <4>1 DEF Transitive
    <3> QED BY <2>3, <3>2
  <2>4. ASSUME NEW r, NEW s, <<r, s>> \in a[t] PROVE Kept(r, s)
    <3>1. PICK x, y : Stands(G, c, x, r) /\ Stands(G, c, y, s) /\ <<x, y>> \in C
      BY <1>1, <2>4 DEF AllAnswered, Answered, C
    <3>2. ASSUME NEW u, NEW v, Stands(G, c, u, r), Stands(G, c, v, s) PROVE <<u, v>> \in C
      <4>1. u = x /\ v = y
        BY <1>2, <3>1, <3>2
      <4> QED BY <3>1, <4>1
    <3> QED BY <3>1, <3>2
  <2>5. ASSUME t = "cpu", NEW i \in 1 .. N
        PROVE  /\ \A m \in G[i].members : Kept(Before(i), m) /\ Kept(m, Behind(i))
               /\ Kept(Before(i), Behind(i))
    <3>1. /\ G[i].entry # NoNode => \A m \in G[i].members : <<G[i].entry, m>> \in E
          /\ G[i].exit # NoNode => \A m \in G[i].members : <<m, G[i].exit>> \in E
          /\ G[i].entry # NoNode /\ G[i].exit # NoNode /\ G[i].members = {} => <<G[i].entry, G[i].exit>> \in E
      BY <1>1, <2>5 DEF AnchorsHold, N, E
    <3>2. /\ \A j \in 1 .. N : Before(i) = Before(j) => i = j
          /\ \A j \in 1 .. N : Behind(i) = Behind(j) => i = j
          /\ \A j \in 1 .. N : Before(i) # Behind(j) /\ Before(j) # Behind(i)
          /\ Before(i) \notin K /\ Behind(i) \notin K
      <4>1. N \in Nat
        BY <1>1 DEF N
      <4>2. K \subseteq Nat
        BY <1>1, <1>4
      <4>3. Before(i) < 0 /\ Behind(i) < 0 /\ Before(i) \in Int /\ Behind(i) \in Int
        BY <4>1, SideNames
      <4> QED BY <4>1, <4>2, <4>3, SideNames
    <3>3. /\ \A x : Stands(G, c, x, Before(i)) => x = G[i].entry /\ x # NoNode
          /\ \A x : Stands(G, c, x, Behind(i)) => x = G[i].exit /\ x # NoNode
      BY <3>2 DEF Stands, N, K
    <3>4. ASSUME NEW m \in G[i].members
          PROVE  Kept(Before(i), m) /\ Kept(m, Behind(i))
      <4>1. m \in K /\ Stands(G, c, m, m) /\ \A x : Stands(G, c, x, m) => x = m
        BY <1>2, <1>8
      <4> QED BY <1>3, <3>1, <3>3, <4>1
    <3>5. Kept(Before(i), Behind(i))
      <4>1. ASSUME NEW x, NEW y, Stands(G, c, x, Before(i)), Stands(G, c, y, Behind(i)) PROVE <<x, y>> \in C
        <5>1. x = G[i].entry /\ x # NoNode /\ y = G[i].exit /\ y # NoNode
          BY <3>3, <4>1
        <5>2. CASE G[i].members = {}
          BY <1>3, <3>1, <5>1, <5>2
        <5>3. CASE G[i].members # {}
          <6>1. PICK m : m \in G[i].members
            BY <5>3
          <6>2. <<x, m>> \in C /\ <<m, y>> \in C
            BY <1>3, <3>1, <5>1, <6>1
          <6> QED BY <1>3, <6>2 DEF Transitive
        <5> QED BY <5>2, <5>3
      <4> QED BY <4>1
    <3> QED BY <3>4, <3>5
  <2> HIDE DEF Kept
  <2>6. edges \subseteq T
    <3>1. ASSUME NEW r, NEW s, Wanted(G, a, t, r, s) PROVE Kept(r, s)
      BY <2>4, <2>5, <3>1 DEF Wanted, InGroup, N
    <3>2. ASSUME NEW r, NEW s, <<r, s>> \in edges PROVE <<r, s>> \in T
      <4>1. r \in Int /\ s \in Int
        BY <1>6, <3>2
      <4> QED BY <1>6, <2>1, <3>1, <3>2, <4>1
    <3> HIDE DEF T
    <3> QED BY <1>6, <3>2
  <2> HIDE DEF T
  <2>7. Transitive(T)
    BY <2>1, <2>3 DEF Transitive
  <2>8. <<p, q>> \in T
    BY <1>11, <1>13, <2>6, <2>7
  <2>9. Stands(G, c, p, p) /\ Stands(G, c, q, q)
    BY <1>2
  <2>10. Kept(p, q)
    BY <2>1, <2>8
  <2> QED BY <2>9, <2>10 DEF Kept
<1>14. \A x, y : x \in K /\ y \in K => (<<x, y>> \in C <=> <<x, y>> \in R)
  BY <1>12, <1>13
<1>15. C \cap (K \X K) = R \cap (K \X K)
  BY <1>14
<1> QED BY <1>15 DEF C, K, R

-----------------------------------------------------------------------------
(* Factories: what its steps make of a fine graph *)

\* A step that only adds what the caller wants leaves the rest of it fine.
LEMMA FineStep ==
  ASSUME NEW g, NEW G, NEW c, NEW w, NEW a, Fine(g, G, c, w, a),
         NEW h, NEW H, NEW d, NEW v, NEW b, WellFormed(h), Grown(g, G, c, h, H, d),
         d \in Seq(Nat), Distinct(d), ToSet(d) \subseteq Live(h), v \subseteq ToSet(d),
         GroupsFine(h, H, d), AnchorsHold(h, H),
         b \in [Tracks -> SUBSET (Int \X Int)], \A t \in Tracks : a[t] \subseteq b[t],
         \A t \in Tracks : \A x, y : <<x, y>> \in h.deps[t] =>
           \/ <<x, y>> \in g.deps[t]
           \/ \E p, q : Stands(H, d, x, p) /\ Stands(H, d, y, q) /\ Wanted(H, b, t, p, q),
         \A t \in Tracks : \A p, q : <<p, q>> \in b[t] =>
           <<p, q>> \in a[t] \/ Answered(h, H, d, t, p, q)
  PROVE  Fine(h, H, d, v, b)
<1>1. /\ WellFormed(g) /\ G \in Seq(GroupData) /\ H \in Seq(GroupData)
      /\ NothingElse(g, G, c, a) /\ AllAnswered(g, G, c, a)
  BY DEF Fine, GroupsFine
<1>2. /\ \A x, p : Stands(G, c, x, p) => Stands(H, d, x, p)
      /\ \A t \in Tracks : \A p, q : Wanted(G, a, t, p, q) => Wanted(H, b, t, p, q)
      /\ \A t \in Tracks : \A p, q : Answered(g, G, c, t, p, q) => Answered(h, H, d, t, p, q)
  BY <1>1, GrownKeeps
<1>3. NothingElse(h, H, d, b)
  <2>1. SUFFICES ASSUME NEW t \in Tracks, NEW x, NEW y, <<x, y>> \in h.deps[t]
                 PROVE  \E p, q : Stands(H, d, x, p) /\ Stands(H, d, y, q) /\ Wanted(H, b, t, p, q)
    BY DEF NothingElse
  <2>2. CASE <<x, y>> \in g.deps[t]
    <3>1. PICK p, q : Stands(G, c, x, p) /\ Stands(G, c, y, q) /\ Wanted(G, a, t, p, q)
      BY <1>1, <2>2 DEF NothingElse
    <3> QED BY <1>2, <3>1
  <2> QED BY <2>1, <2>2
<1>4. AllAnswered(h, H, d, b)
  <2>1. SUFFICES ASSUME NEW t \in Tracks, NEW p, NEW q, <<p, q>> \in b[t]
                 PROVE  Answered(h, H, d, t, p, q)
    BY DEF AllAnswered
  <2>2. <<p, q>> \in a[t] => Answered(g, G, c, t, p, q)
    BY <1>1 DEF AllAnswered
  <2> QED BY <1>2, <2>1, <2>2
<1> QED BY <1>3, <1>4 DEF Fine

\* More is asked on a track, if it is one.
LEMMA AskedMore ==
  ASSUME NEW a \in [Tracks -> SUBSET (Int \X Int)], NEW t, NEW order \in SUBSET (Int \X Int)
  PROVE  LET b == [a EXCEPT ![t] = @ \cup order] IN
           /\ b \in [Tracks -> SUBSET (Int \X Int)]
           /\ \A u \in Tracks : b[u] = IF u = t THEN a[u] \cup order ELSE a[u]
<1>1. CASE t \in Tracks
  BY <1>1
<1>2. CASE t \notin Tracks
  <2>1. [a EXCEPT ![t] = @ \cup order] = a
    BY <1>2
  <2> QED BY <1>2, <2>1
<1> QED BY <1>1, <1>2

\* The edges are for what is asked, and they answer it.
Answers(g, G, c, t, edges, order) ==
  /\ edges \subseteq Live(g) \X Live(g) /\ order \in SUBSET (Int \X Int)
  /\ \A x, y : <<x, y>> \in edges /\ x # y =>
       \E p, q : Stands(G, c, x, p) /\ Stands(G, c, y, q) /\ <<p, q>> \in order
  /\ t \in Tracks =>
       \A p, q : <<p, q>> \in order => Answered(link_nodes(g, t, edges), G, c, t, p, q)

\* Links for what the caller asks for.
LEMMA FineLink ==
  ASSUME NEW g, NEW G, NEW c, NEW w, NEW a, Fine(g, G, c, w, a),
         NEW t, NEW edges, NEW order, Answers(g, G, c, t, edges, order)
  PROVE  /\ Fine(link_nodes(g, t, edges), G, c, w, [a EXCEPT ![t] = @ \cup order])
         /\ link_nodes(g, t, edges).frozen = g.frozen
<1> DEFINE h == link_nodes(g, t, edges)
           b == [a EXCEPT ![t] = @ \cup order]
<1>1. /\ WellFormed(g) /\ c \in Seq(Nat) /\ Distinct(c) /\ ToSet(c) \subseteq Live(g) /\ w \subseteq ToSet(c)
      /\ GroupsFine(g, G, c) /\ AnchorsHold(g, G) /\ a \in [Tracks -> SUBSET (Int \X Int)]
      /\ G \in Seq(GroupData)
  BY DEF Fine, GroupsFine
<1>0. /\ edges \subseteq Live(g) \X Live(g) /\ order \in SUBSET (Int \X Int)
      /\ \A x, y : <<x, y>> \in edges /\ x # y =>
           \E p, q : Stands(G, c, x, p) /\ Stands(G, c, y, q) /\ <<p, q>> \in order
  BY DEF Answers
<1>2. /\ WellFormed(h) /\ Live(h) = Live(g) /\ h.frozen = g.frozen
      /\ \A u \in Tracks : \A x, y : <<x, y>> \in h.deps[u] <=>
           <<x, y>> \in g.deps[u] \/ (u = t /\ <<x, y>> \in edges /\ x # y)
  BY <1>0, <1>1, LinkedFacts
<1>3. b \in [Tracks -> SUBSET (Int \X Int)] /\ \A u \in Tracks : b[u] = IF u = t THEN a[u] \cup order ELSE a[u]
  BY <1>0, <1>1, AskedMore
<1>4. t \in Tracks => \A p, q : <<p, q>> \in order => Answered(h, G, c, t, p, q)
  BY DEF Answers
<1> HIDE DEF h, b
<1>5. \A u \in Tracks : g.deps[u] \subseteq h.deps[u]
  <2>1. \A u \in Tracks : g.deps[u] \in SUBSET (Nat \X Nat)
    BY <1>1, GraphFacts
  <2> QED BY <1>2, <2>1
<1>6. Grown(g, G, c, h, G, c)
  <2>1. Len(G) \in Nat
    BY <1>1
  <2> QED BY <1>5, <2>1 DEF Grown
<1>7. GroupsFine(h, G, c)
  BY <1>1, <1>2 DEF GroupsFine
<1>8. AnchorsHold(h, G)
  BY <1>1, <1>5 DEF AnchorsHold
<1>9. ASSUME NEW u \in Tracks, NEW x, NEW y, <<x, y>> \in h.deps[u]
      PROVE  \/ <<x, y>> \in g.deps[u]
             \/ \E p, q : Stands(G, c, x, p) /\ Stands(G, c, y, q) /\ Wanted(G, b, u, p, q)
  <2>1. CASE u = t /\ <<x, y>> \in edges /\ x # y
    <3>1. PICK p, q : Stands(G, c, x, p) /\ Stands(G, c, y, q) /\ <<p, q>> \in order
      BY <1>0, <2>1
    <3>2. Wanted(G, b, u, p, q)
      BY <1>3, <2>1, <3>1 DEF Wanted
    <3> QED BY <3>1, <3>2
  <2> QED BY <1>2, <1>9, <2>1
<1>10. \A u \in Tracks : \A p, q : <<p, q>> \in b[u] => <<p, q>> \in a[u] \/ Answered(h, G, c, u, p, q)
  BY <1>3, <1>4
<1>11. \A u \in Tracks : a[u] \subseteq b[u]
  BY <1>3
<1>12. Fine(h, G, c, w, b)
  BY <1>1, <1>2, <1>3, <1>6, <1>7, <1>8, <1>9, <1>10, <1>11, FineStep, ZenonT(60)
<1> QED BY <1>2, <1>12 DEF h, b

\* One group is changed.
LEMMA GroupChanged ==
  ASSUME NEW G \in Seq(GroupData), NEW i \in DOMAIN G, NEW data \in GroupData
  PROVE  LET H == [G EXCEPT ![i] = data] IN
           /\ H \in Seq(GroupData) /\ Len(H) = Len(G) /\ DOMAIN G = 1 .. Len(G) /\ Len(G) \in Nat
           /\ \A j \in 1 .. Len(G) : H[j] = (IF j = i THEN data ELSE G[j])
<1>1. \A j \in 1 .. Len(G) : G[j] \in GroupData
  OBVIOUS
<1>2. DOMAIN G = 1 .. Len(G) /\ Len(G) \in Nat
  OBVIOUS
<1>3. [G EXCEPT ![i] = data] \in [1 .. Len(G) -> GroupData]
  BY <1>1, <1>2
<1>4. [G EXCEPT ![i] = data] \in Seq(GroupData) /\ Len([G EXCEPT ![i] = data]) = Len(G)
  BY <1>2, <1>3
<1>5. \A j \in 1 .. Len(G) : [G EXCEPT ![i] = data][j] = (IF j = i THEN data ELSE G[j])
  BY <1>2
<1> QED BY <1>2, <1>4, <1>5

\* A group is made.
LEMMA FineGroup ==
  ASSUME NEW g, NEW G, NEW c, NEW w, NEW a, Fine(g, G, c, w, a)
  PROVE  Fine(g, Append(G, [members |-> {}, entry |-> NoNode, exit |-> NoNode]), c, w, a)
<1> DEFINE data == [members |-> {}, entry |-> NoNode, exit |-> NoNode]
           H == Append(G, data)
           n == Len(G)
<1>1. /\ WellFormed(g) /\ c \in Seq(Nat) /\ Distinct(c) /\ ToSet(c) \subseteq Live(g) /\ w \subseteq ToSet(c)
      /\ GroupsFine(g, G, c) /\ AnchorsHold(g, G) /\ a \in [Tracks -> SUBSET (Int \X Int)]
      /\ G \in Seq(GroupData)
  BY DEF Fine, GroupsFine
<1>2. data \in GroupData /\ data.members = {} /\ data.entry = NoNode /\ data.exit = NoNode
  BY DEF GroupData
<1> HIDE DEF data
<1>3. /\ H \in Seq(GroupData) /\ Len(H) = n + 1 /\ n \in Nat /\ H[n + 1] = data
      /\ \A i \in 1 .. n : H[i] = G[i]
  BY <1>1, <1>2
<1>4. \A i \in 1 .. Len(H) : i \in 1 .. n \/ i = n + 1
  BY <1>3
<1> HIDE DEF H
<1>5. Grown(g, G, c, g, H, c)
  BY <1>3 DEF Grown
<1>6. GroupsFine(g, H, c)
  <2>1. ASSUME NEW i \in 1 .. Len(H)
        PROVE  /\ H[i].members \subseteq ToSet(c)
               /\ H[i].entry # NoNode => H[i].entry \in Live(g) /\ H[i].entry \notin ToSet(c)
               /\ H[i].exit # NoNode => H[i].exit \in Live(g) /\ H[i].exit \notin ToSet(c)
    <3>1. CASE i \in 1 .. n
      BY <1>1, <1>3, <3>1 DEF GroupsFine
    <3>2. CASE i = n + 1
      BY <1>2, <1>3, <3>2
    <3> QED BY <1>4, <3>1, <3>2
  <2>2. ASSUME NEW i \in 1 .. Len(H), NEW j \in 1 .. Len(H)
        PROVE  /\ H[i].entry # NoNode /\ H[i].entry = H[j].entry => i = j
               /\ H[i].exit # NoNode /\ H[i].exit = H[j].exit => i = j
               /\ H[i].entry # NoNode => H[i].entry # H[j].exit
    <3>1. CASE i \in 1 .. n /\ j \in 1 .. n
      BY <1>1, <1>3, <3>1 DEF GroupsFine
    <3>2. CASE i = n + 1 \/ j = n + 1
      BY <1>2, <1>3, <3>2
    <3> QED BY <1>4, <3>1, <3>2
  <2> QED BY <1>3, <2>1, <2>2 DEF GroupsFine
<1>7. AnchorsHold(g, H)
  BY <1>1, <1>2, <1>3, <1>4 DEF AnchorsHold
<1>8. Fine(g, H, c, w, a)
  BY <1>1, <1>5, <1>6, <1>7, FineStep
<1> QED BY <1>8 DEF H, data

\* A node is made for a group.
LEMMA FineMember ==
  ASSUME NEW w, NEW a, Fine(graph, groups, created, w, a), NEW group \in DOMAIN groups,
         NEW s \in Subtypes, NEW v
  PROVE  LET n == graph.slots
             h == add_node_to_group(Allocate(graph, "stage", s), group, n)
             H == [groups EXCEPT ![group].members = @ \cup {n}]
         IN  /\ v \subseteq w \cup {n} => Fine(h, H, Append(created, n), v, a)
             /\ h.frozen = graph.frozen
<1> DEFINE n == graph.slots
           A == Allocate(graph, "stage", s)
           edges == (NodeOrNone(groups[group].entry) \X {n}) \cup ({n} \X NodeOrNone(groups[group].exit))
           h == link_nodes(A, "cpu", edges)
           data == [groups[group] EXCEPT !.members = @ \cup {n}]
           H == [groups EXCEPT ![group] = data]
           d == Append(created, n)
           G == groups
           c == created
           g == graph
<1>1. /\ WellFormed(g) /\ c \in Seq(Nat) /\ Distinct(c) /\ ToSet(c) \subseteq Live(g) /\ w \subseteq ToSet(c)
      /\ GroupsFine(g, G, c) /\ AnchorsHold(g, G) /\ a \in [Tracks -> SUBSET (Int \X Int)]
      /\ G \in Seq(GroupData)
  BY DEF Fine, GroupsFine
<1>2. /\ WellFormed(A) /\ A.deps = g.deps /\ Live(A) = Live(g) \cup {n} /\ n \in Nat /\ n \notin Live(g)
      /\ A.frozen = g.frozen
  <2>1. "stage" \in Kinds
    BY DEF Kinds
  <2> QED BY <1>1, <2>1, AllocateFacts, ZenonT(60)
<1>3. /\ h = add_node_to_group(A, group, n)
      /\ H = [groups EXCEPT ![group].members = @ \cup {n}]
  BY DEF add_node_to_group
<1>4. /\ G[group] \in GroupData /\ data \in GroupData
      /\ data.members = G[group].members \cup {n} /\ data.entry = G[group].entry /\ data.exit = G[group].exit
  <2>1. G[group] \in GroupData
    BY <1>1
  <2> QED BY <1>2, <2>1 DEF GroupData
<1>5. /\ group \in 1 .. Len(G) /\ Len(G) \in Nat
      /\ G[group].entry # NoNode => G[group].entry \in Live(g)
      /\ G[group].exit # NoNode => G[group].exit \in Live(g)
  BY <1>1 DEF GroupsFine
<1>6. /\ edges \subseteq Live(A) \X Live(A)
      /\ \A x, y : <<x, y>> \in edges <=> \/ x = G[group].entry /\ x # NoNode /\ y = n
                                          \/ x = n /\ y = G[group].exit /\ y # NoNode
  BY <1>2, <1>5 DEF NodeOrNone
<1>7. /\ d \in Seq(Nat) /\ ToSet(d) = ToSet(c) \cup {n} /\ Distinct(d)
  <2>1. d \in Seq(Nat) /\ Len(d) = Len(c) + 1 /\ Len(c) \in Nat /\ d[Len(c) + 1] = n
        /\ \A i \in 1 .. Len(c) : d[i] = c[i]
    BY <1>1, <1>2
  <2>2. DOMAIN d = 1 .. Len(d) /\ DOMAIN c = 1 .. Len(c) /\ 1 .. Len(d) = (1 .. Len(c)) \cup {Len(c) + 1}
    BY <1>1, <2>1
  <2>3. ToSet(d) = ToSet(c) \cup {n}
    BY <2>1, <2>2 DEF ToSet
  <2>4. \A i \in 1 .. Len(c) : c[i] # n
    BY <1>1, <1>2, <2>2 DEF ToSet
  <2>5. Distinct(d)
    BY <1>1, <2>1, <2>2, <2>4 DEF Distinct
  <2> QED BY <2>1, <2>3, <2>5
<1>8. /\ H \in Seq(GroupData) /\ Len(H) = Len(G)
      /\ \A j \in 1 .. Len(G) : H[j] = (IF j = group THEN data ELSE G[j])
  BY <1>1, <1>4, GroupChanged
<1> HIDE DEF H, data
<1>9. \A j \in 1 .. Len(G) : /\ H[j].members = (IF j = group THEN G[j].members \cup {n} ELSE G[j].members)
                             /\ H[j].entry = G[j].entry /\ H[j].exit = G[j].exit
  BY <1>4, <1>8
<1> HIDE DEF A, edges, data, H, d, n, G, c, g, h
<1>10. /\ WellFormed(h) /\ Live(h) = Live(g) \cup {n} /\ h.frozen = g.frozen
       /\ \A u \in Tracks : \A x, y : <<x, y>> \in h.deps[u] <=>
            <<x, y>> \in g.deps[u] \/ (u = "cpu" /\ <<x, y>> \in edges /\ x # y)
  BY <1>2, <1>6, LinkedFacts DEF h
<1>11. \A u \in Tracks : g.deps[u] \subseteq h.deps[u]
  <2>1. \A u \in Tracks : g.deps[u] \in SUBSET (Nat \X Nat)
    BY <1>1, GraphFacts
  <2> QED BY <1>10, <2>1
<1>12. Grown(g, G, c, h, H, d)
  <2>1. Len(G) <= Len(H)
    BY <1>5, <1>8
  <2>2. \A j \in 1 .. Len(G) : /\ G[j].members \subseteq H[j].members
                               /\ H[j].entry = G[j].entry /\ H[j].exit = G[j].exit
    BY <1>9
  <2> QED BY <1>7, <1>11, <2>1, <2>2 DEF Grown
<1>13. GroupsFine(h, H, d)
  <2>1. \A j \in 1 .. Len(G) : /\ G[j].members \subseteq ToSet(c)
                               /\ G[j].entry # NoNode => G[j].entry \in Live(g) /\ G[j].entry \notin ToSet(c)
                               /\ G[j].exit # NoNode => G[j].exit \in Live(g) /\ G[j].exit \notin ToSet(c)
    BY <1>1 DEF GroupsFine
  <2>2. \A j \in 1 .. Len(H) : /\ H[j].members \subseteq ToSet(d)
                               /\ H[j].entry # NoNode => H[j].entry \in Live(h) /\ H[j].entry \notin ToSet(d)
                               /\ H[j].exit # NoNode => H[j].exit \in Live(h) /\ H[j].exit \notin ToSet(d)
    <3>1. \A m \in Live(g) : m \in Live(h) /\ (m \notin ToSet(c) => m \notin ToSet(d))
      BY <1>2, <1>7, <1>10
    <3>2. ToSet(c) \subseteq ToSet(d) /\ n \in ToSet(d)
      BY <1>7
    <3>3. \A j \in 1 .. Len(G) : H[j].members \subseteq ToSet(d)
      BY <1>9, <2>1, <3>2
    <3> QED BY <1>8, <1>9, <2>1, <3>1, <3>3
  <2>3. \A i, j \in 1 .. Len(H) :
          /\ H[i].entry # NoNode /\ H[i].entry = H[j].entry => i = j
          /\ H[i].exit # NoNode /\ H[i].exit = H[j].exit => i = j
          /\ H[i].entry # NoNode => H[i].entry # H[j].exit
    <3>1. \A i, j \in 1 .. Len(G) :
            /\ G[i].entry # NoNode /\ G[i].entry = G[j].entry => i = j
            /\ G[i].exit # NoNode /\ G[i].exit = G[j].exit => i = j
            /\ G[i].entry # NoNode => G[i].entry # G[j].exit
      BY <1>1 DEF GroupsFine
    <3>2. \A i, j \in 1 .. Len(G) :
            /\ H[i].entry # NoNode /\ H[i].entry = H[j].entry => i = j
            /\ H[i].exit # NoNode /\ H[i].exit = H[j].exit => i = j
            /\ H[i].entry # NoNode => H[i].entry # H[j].exit
      <4>1. SUFFICES ASSUME NEW i \in 1 .. Len(G), NEW j \in 1 .. Len(G)
                     PROVE  /\ H[i].entry # NoNode /\ H[i].entry = H[j].entry => i = j
                            /\ H[i].exit # NoNode /\ H[i].exit = H[j].exit => i = j
                            /\ H[i].entry # NoNode => H[i].entry # H[j].exit
        OBVIOUS
      <4>2. /\ H[i].entry = G[i].entry /\ H[i].exit = G[i].exit
            /\ H[j].entry = G[j].entry /\ H[j].exit = G[j].exit
        BY <1>9
      <4> QED BY <3>1, <4>2
    <3> QED BY <1>8, <3>2
  <2> QED BY <1>8, <2>2, <2>3 DEF GroupsFine
<1>14. AnchorsHold(h, H)
  <2>1. SUFFICES ASSUME "cpu" \in Tracks, NEW j \in 1 .. Len(G)
                 PROVE  /\ H[j].entry # NoNode => \A m \in H[j].members : <<H[j].entry, m>> \in h.deps["cpu"]
                        /\ H[j].exit # NoNode => \A m \in H[j].members : <<m, H[j].exit>> \in h.deps["cpu"]
                        /\ H[j].entry # NoNode /\ H[j].exit # NoNode /\ H[j].members = {}
                             => <<H[j].entry, H[j].exit>> \in h.deps["cpu"]
    BY <1>8 DEF AnchorsHold
  <2>2. /\ G[j].entry # NoNode => \A m \in G[j].members : <<G[j].entry, m>> \in h.deps["cpu"]
        /\ G[j].exit # NoNode => \A m \in G[j].members : <<m, G[j].exit>> \in h.deps["cpu"]
        /\ G[j].entry # NoNode /\ G[j].exit # NoNode /\ G[j].members = {}
             => <<G[j].entry, G[j].exit>> \in h.deps["cpu"]
    BY <1>1, <1>11, <2>1 DEF AnchorsHold
  <2>3. j = group => /\ G[j].entry # NoNode => <<G[j].entry, n>> \in h.deps["cpu"]
                     /\ G[j].exit # NoNode => <<n, G[j].exit>> \in h.deps["cpu"]
    BY <1>2, <1>5, <1>6, <1>10, <2>1
  <2> QED BY <1>9, <2>2, <2>3
<1>15. ASSUME NEW u \in Tracks, NEW x, NEW y, <<x, y>> \in h.deps[u]
       PROVE  \/ <<x, y>> \in g.deps[u]
              \/ \E p, q : Stands(H, d, x, p) /\ Stands(H, d, y, q) /\ Wanted(H, a, u, p, q)
  <2>1. CASE u = "cpu" /\ x = G[group].entry /\ x # NoNode /\ y = n
    <3>1. Stands(H, d, x, Before(group)) /\ Stands(H, d, n, n)
      BY <1>5, <1>7, <1>8, <1>9, <2>1 DEF Stands
    <3>2. Wanted(H, a, u, Before(group), n)
      BY <1>5, <1>8, <1>9, <2>1 DEF Wanted, InGroup
    <3> QED BY <2>1, <3>1, <3>2
  <2>2. CASE u = "cpu" /\ x = n /\ y = G[group].exit /\ y # NoNode
    <3>1. Stands(H, d, y, Behind(group)) /\ Stands(H, d, n, n)
      BY <1>5, <1>7, <1>8, <1>9, <2>2 DEF Stands
    <3>2. Wanted(H, a, u, n, Behind(group))
      BY <1>5, <1>8, <1>9, <2>2 DEF Wanted, InGroup
    <3> QED BY <2>2, <3>1, <3>2
  <2> QED BY <1>6, <1>10, <1>15, <2>1, <2>2
<1>16. ToSet(d) \subseteq Live(h)
  BY <1>1, <1>7, <1>10
<1>17. v \subseteq w \cup {n} => Fine(h, H, d, v, a)
  <2>1. SUFFICES ASSUME v \subseteq w \cup {n} PROVE Fine(h, H, d, v, a)
    OBVIOUS
  <2>2. v \subseteq ToSet(d)
    BY <1>1, <1>7, <2>1
  <2>3. Fine(g, G, c, w, a)
    BY DEF g, G, c
  <2> QED BY <1>1, <1>7, <1>10, <1>12, <1>13, <1>14, <1>15, <1>16, <2>2, <2>3, FineStep
<1> QED BY <1>3, <1>10, <1>17 DEF d, n, c, g, A, H, data

\* A new node that becomes an anchor of a group, with the edges of the anchor.
Between(data, x, y) ==
  \/ x = data.entry /\ x # NoNode /\ (y \in data.members \/ (y = data.exit /\ y # NoNode))
  \/ x \in data.members /\ y = data.exit /\ y # NoNode

LEMMA FineAnchor ==
  ASSUME NEW g, NEW G, NEW c, NEW w, NEW a, Fine(g, G, c, w, a), NEW group \in DOMAIN G,
         NEW n, n \notin Live(g), n # NoNode, NEW data \in GroupData, data.members = G[group].members,
         \/ G[group].entry = NoNode /\ data.entry = n /\ data.exit = G[group].exit
         \/ G[group].exit = NoNode /\ data.exit = n /\ data.entry = G[group].entry,
         NEW h, WellFormed(h), Live(h) = Live(g) \cup {n}, \A u \in Tracks : g.deps[u] \subseteq h.deps[u],
         \A u \in Tracks : \A x, y : <<x, y>> \in h.deps[u] =>
           <<x, y>> \in g.deps[u] \/ (u = "cpu" /\ Between(data, x, y)),
         "cpu" \in Tracks =>
           /\ data.entry # NoNode => \A m \in data.members : <<data.entry, m>> \in h.deps["cpu"]
           /\ data.exit # NoNode => \A m \in data.members : <<m, data.exit>> \in h.deps["cpu"]
           /\ data.entry # NoNode /\ data.exit # NoNode /\ data.members = {}
                => <<data.entry, data.exit>> \in h.deps["cpu"]
  PROVE  LET H == [G EXCEPT ![group] = data] IN
           /\ Fine(h, H, c, w, a)
           /\ DOMAIN H = DOMAIN G /\ H[group] = data
           /\ \A i \in DOMAIN G : i # group => H[i] = G[i]
<1> DEFINE H == [G EXCEPT ![group] = data]
<1>1. /\ WellFormed(g) /\ c \in Seq(Nat) /\ Distinct(c) /\ ToSet(c) \subseteq Live(g) /\ w \subseteq ToSet(c)
      /\ GroupsFine(g, G, c) /\ AnchorsHold(g, G) /\ a \in [Tracks -> SUBSET (Int \X Int)]
      /\ G \in Seq(GroupData)
  BY DEF Fine, GroupsFine
<1>2. /\ H \in Seq(GroupData) /\ Len(H) = Len(G) /\ DOMAIN G = 1 .. Len(G) /\ Len(G) \in Nat
      /\ \A j \in 1 .. Len(G) : H[j] = (IF j = group THEN data ELSE G[j])
  BY <1>1, GroupChanged
<1>3. DOMAIN H = DOMAIN G
  OBVIOUS
<1> HIDE DEF H
<1>4. group \in 1 .. Len(G) /\ H[group] = data /\ \A j \in 1 .. Len(G) : j # group => H[j] = G[j]
  BY <1>2
<1>5. \A j \in 1 .. Len(G) : H[j].members = G[j].members
  BY <1>4
<1>6. /\ \A j \in 1 .. Len(G) : \/ H[j].entry = G[j].entry
                                \/ j = group /\ H[j].entry = n /\ G[j].entry = NoNode
      /\ \A j \in 1 .. Len(G) : \/ H[j].exit = G[j].exit
                                \/ j = group /\ H[j].exit = n /\ G[j].exit = NoNode
      /\ H[group].entry = n => H[group].exit = G[group].exit
      /\ H[group].exit = n => H[group].entry = G[group].entry
  <2>1. \A j \in 1 .. Len(G) : /\ G[j].entry # NoNode => G[j].entry # n
                               /\ G[j].exit # NoNode => G[j].exit # n
    BY <1>1 DEF GroupsFine
  <2>2. \/ G[group].entry = NoNode /\ data.entry = n /\ data.exit = G[group].exit
        \/ G[group].exit = NoNode /\ data.exit = n /\ data.entry = G[group].entry
    OBVIOUS
  <2> QED BY <1>4, <2>1, <2>2
<1>7. Grown(g, G, c, h, H, c)
  <2>1. Len(G) <= Len(H)
    BY <1>2
  <2> QED BY <1>5, <1>6, <2>1 DEF Grown
<1>8. GroupsFine(h, H, c)
  <2>1. \A j \in 1 .. Len(G) : /\ G[j].members \subseteq ToSet(c)
                               /\ G[j].entry # NoNode => G[j].entry \in Live(g) /\ G[j].entry \notin ToSet(c)
                               /\ G[j].exit # NoNode => G[j].exit \in Live(g) /\ G[j].exit \notin ToSet(c)
    BY <1>1 DEF GroupsFine
  <2>2. n \in Live(h) /\ n \notin ToSet(c) /\ Live(g) \subseteq Live(h)
    BY <1>1
  <2>3. \A j \in 1 .. Len(G) : /\ H[j].members \subseteq ToSet(c)
                               /\ H[j].entry # NoNode => H[j].entry \in Live(h) /\ H[j].entry \notin ToSet(c)
                               /\ H[j].exit # NoNode => H[j].exit \in Live(h) /\ H[j].exit \notin ToSet(c)
    <3>1. SUFFICES ASSUME NEW j \in 1 .. Len(G)
                   PROVE  /\ H[j].members \subseteq ToSet(c)
                          /\ H[j].entry # NoNode => H[j].entry \in Live(h) /\ H[j].entry \notin ToSet(c)
                          /\ H[j].exit # NoNode => H[j].exit \in Live(h) /\ H[j].exit \notin ToSet(c)
      OBVIOUS
    <3>2. /\ H[j].members = G[j].members
          /\ H[j].entry = G[j].entry \/ H[j].entry = n
          /\ H[j].exit = G[j].exit \/ H[j].exit = n
      BY <1>5, <1>6
    <3> QED BY <2>1, <2>2, <3>2
  <2>4. ASSUME NEW i \in 1 .. Len(G), NEW j \in 1 .. Len(G)
        PROVE  /\ H[i].entry # NoNode /\ H[i].entry = H[j].entry => i = j
               /\ H[i].exit # NoNode /\ H[i].exit = H[j].exit => i = j
               /\ H[i].entry # NoNode => H[i].entry # H[j].exit
    <3>1. \A k \in 1 .. Len(G) : /\ G[k].entry # NoNode => G[k].entry # n
                                 /\ G[k].exit # NoNode => G[k].exit # n
      BY <2>1
    <3>2. /\ G[i].entry # NoNode /\ G[i].entry = G[j].entry => i = j
          /\ G[i].exit # NoNode /\ G[i].exit = G[j].exit => i = j
          /\ G[i].entry # NoNode => G[i].entry # G[j].exit
      BY <1>1 DEF GroupsFine
    <3>3. H[i].entry # NoNode /\ H[i].entry = H[j].entry => i = j
      BY <1>6, <3>1, <3>2
    <3>4. H[i].exit # NoNode /\ H[i].exit = H[j].exit => i = j
      BY <1>6, <3>1, <3>2
    <3>5. H[i].entry # NoNode => H[i].entry # H[j].exit
      BY <1>6, <3>1, <3>2
    <3> QED BY <3>3, <3>4, <3>5
  <2> QED BY <1>2, <2>3, <2>4 DEF GroupsFine
<1>9. AnchorsHold(h, H)
  <2>1. SUFFICES ASSUME "cpu" \in Tracks, NEW j \in 1 .. Len(G)
                 PROVE  /\ H[j].entry # NoNode => \A m \in H[j].members : <<H[j].entry, m>> \in h.deps["cpu"]
                        /\ H[j].exit # NoNode => \A m \in H[j].members : <<m, H[j].exit>> \in h.deps["cpu"]
                        /\ H[j].entry # NoNode /\ H[j].exit # NoNode /\ H[j].members = {}
                             => <<H[j].entry, H[j].exit>> \in h.deps["cpu"]
    BY <1>2 DEF AnchorsHold
  <2>2. CASE j = group
    BY <1>4, <2>1, <2>2
  <2>3. CASE j # group
    <3>1. H[j] = G[j] /\ g.deps["cpu"] \subseteq h.deps["cpu"]
      BY <1>4, <2>1, <2>3
    <3>2. /\ G[j].entry # NoNode => \A m \in G[j].members : <<G[j].entry, m>> \in g.deps["cpu"]
          /\ G[j].exit # NoNode => \A m \in G[j].members : <<m, G[j].exit>> \in g.deps["cpu"]
          /\ G[j].entry # NoNode /\ G[j].exit # NoNode /\ G[j].members = {}
               => <<G[j].entry, G[j].exit>> \in g.deps["cpu"]
      BY <1>1, <2>1 DEF AnchorsHold
    <3> QED BY <3>1, <3>2
  <2> QED BY <2>2, <2>3
<1>10. ASSUME NEW u \in Tracks, NEW x, NEW y, <<x, y>> \in h.deps[u]
       PROVE  \/ <<x, y>> \in g.deps[u]
              \/ \E p, q : Stands(H, c, x, p) /\ Stands(H, c, y, q) /\ Wanted(H, a, u, p, q)
  <2>1. SUFFICES ASSUME u = "cpu", Between(data, x, y)
                 PROVE  \E p, q : Stands(H, c, x, p) /\ Stands(H, c, y, q) /\ Wanted(H, a, u, p, q)
    BY <1>10
  <2>2. group \in 1 .. Len(H) /\ H[group] = data
    BY <1>2, <1>4
  <2>3. data.members \subseteq ToSet(c)
    BY <1>1, <1>4 DEF GroupsFine
  <2>4. \A m \in data.members : /\ Stands(H, c, m, m)
                                /\ Wanted(H, a, u, Before(group), m) /\ Wanted(H, a, u, m, Behind(group))
    BY <2>1, <2>2, <2>3 DEF Stands, Wanted, InGroup
  <2>5. /\ data.entry # NoNode => Stands(H, c, data.entry, Before(group))
        /\ data.exit # NoNode => Stands(H, c, data.exit, Behind(group))
        /\ Wanted(H, a, u, Before(group), Behind(group))
    BY <2>1, <2>2 DEF Stands, Wanted, InGroup
  <2> QED BY <2>1, <2>4, <2>5 DEF Between
<1>11. ToSet(c) \subseteq Live(h)
  BY <1>1
<1>12. Fine(h, H, c, w, a)
  BY <1>1, <1>7, <1>8, <1>9, <1>10, <1>11, FineStep
<1> QED BY <1>2, <1>3, <1>4, <1>12 DEF H

LEMMA FineEntry ==
  ASSUME NEW g, NEW G, NEW c, NEW w, NEW a, Fine(g, G, c, w, a), NEW group \in DOMAIN G, NEW x,
         NEW r, r = ensure_group_entry([graph |-> g, groups |-> G, anchor |-> x], group)
  PROVE  /\ Fine(r.graph, r.groups, c, w, a) /\ r.graph.frozen = g.frozen
         /\ r = [graph |-> r.graph, groups |-> r.groups, anchor |-> r.anchor]
         /\ DOMAIN r.groups = DOMAIN G
         /\ r.anchor # NoNode /\ r.groups[group].entry = r.anchor
         /\ \A i \in DOMAIN G : r.groups[i].exit = G[i].exit
<1> DEFINE s == [graph |-> g, groups |-> G, anchor |-> x]
           n == g.slots
           A == create_group_anchor(g)
           data == [G[group] EXCEPT !.entry = n]
           e == {n} \X data.members
           l == link_nodes(A, "cpu", e)
           f == IF data.members = {} THEN {n} \X NodeOrNone(data.exit) ELSE {}
           h == link_empty_group_bridge(l, data)
           H == [G EXCEPT ![group] = data]
<1>1. /\ WellFormed(g) /\ G \in Seq(GroupData) /\ GroupsFine(g, G, c) /\ ToSet(c) \subseteq Live(g)
      /\ AnchorsHold(g, G)
  BY DEF Fine, GroupsFine
<1>2. s.graph = g /\ s.groups = G
  OBVIOUS
<1>3. CASE G[group].entry # NoNode
  <2>1. r = [s EXCEPT !.anchor = G[group].entry]
    BY <1>2, <1>3 DEF ensure_group_entry
  <2>2. r = [graph |-> g, groups |-> G, anchor |-> G[group].entry]
    BY <2>1
  <2>3. r.graph = g /\ r.groups = G /\ r.anchor = G[group].entry
    BY <2>2
  <2>4. r = [graph |-> r.graph, groups |-> r.groups, anchor |-> r.anchor]
    BY <2>2, <2>3
  <2> QED BY <1>3, <2>3, <2>4
<1>4. CASE G[group].entry = NoNode
  <2>1. r = [graph |-> h, groups |-> H, anchor |-> n]
    BY <1>2, <1>4 DEF ensure_group_entry, WithGroup
  <2>2. /\ WellFormed(A) /\ A.deps = g.deps /\ Live(A) = Live(g) \cup {n} /\ n \in Nat /\ n \notin Live(g)
        /\ A.frozen = g.frozen
    <3>1. "stage" \in Kinds
      BY DEF Kinds
    <3>2. (CHOOSE t \in Subtypes : TRUE) \in Subtypes
      BY TracksAssumption
    <3> QED BY <1>1, <3>1, <3>2, AllocateFacts, ZenonT(60) DEF create_group_anchor
  <2>3. /\ G[group] \in GroupData /\ data \in GroupData
        /\ data.members = G[group].members /\ data.entry = n /\ data.exit = G[group].exit
    <3>1. G[group] \in GroupData
      BY <1>1
    <3> QED BY <2>2, <3>1 DEF GroupData
  <2>4. n # NoNode
    BY <2>2, FactoryAssumption
  <2>5. /\ data.members \subseteq Live(g) /\ (data.exit # NoNode => data.exit \in Live(g))
    <3>1. group \in 1 .. Len(G)
      BY <1>1
    <3> QED BY <1>1, <2>3, <3>1 DEF GroupsFine
  <2>6. /\ e \subseteq Live(A) \X Live(A) /\ \A y, z : <<y, z>> \in e <=> y = n /\ z \in data.members
    BY <2>2, <2>5
  <2>7. /\ f \subseteq Live(A) \X Live(A)
        /\ \A y, z : <<y, z>> \in f <=> data.members = {} /\ y = n /\ z = data.exit /\ z # NoNode
    BY <2>2, <2>5 DEF NodeOrNone
  <2>8. data.members = {} => h = link_nodes(l, "cpu", f)
    <3>1. NodeOrNone(data.entry) = {n}
      BY <2>3, <2>4 DEF NodeOrNone
    <3> QED BY <3>1, Zenon DEF link_empty_group_bridge
  <2>9. data.members # {} => h = l
    BY DEF link_empty_group_bridge
  <2> HIDE DEF A, e, f, data
  <2>10. /\ WellFormed(l) /\ Live(l) = Live(A) /\ l.frozen = A.frozen
         /\ \A u \in Tracks : \A y, z : <<y, z>> \in l.deps[u] <=>
              <<y, z>> \in A.deps[u] \/ (u = "cpu" /\ <<y, z>> \in e /\ y # z)
    BY <2>2, <2>6, LinkedFacts
  <2> HIDE DEF l, h
  <2>11. /\ WellFormed(h) /\ Live(h) = Live(A) /\ h.frozen = A.frozen
         /\ \A u \in Tracks : \A y, z : <<y, z>> \in h.deps[u] <=>
              <<y, z>> \in l.deps[u] \/ (u = "cpu" /\ <<y, z>> \in f /\ y # z)
    <3>1. CASE data.members = {}
      <4>1. h = link_nodes(l, "cpu", f) /\ f \subseteq Live(l) \X Live(l)
        BY <2>7, <2>8, <2>10, <3>1
      <4> QED BY <2>10, <4>1, LinkedFacts
    <3>2. CASE data.members # {}
      <4>1. h = l /\ \A y, z : <<y, z>> \notin f
        BY <2>7, <2>9, <3>2
      <4> QED BY <2>10, <4>1
    <3> QED BY <3>1, <3>2
  <2>12. \A u \in Tracks : \A y, z : <<y, z>> \in h.deps[u] <=>
           \/ <<y, z>> \in g.deps[u]
           \/ u = "cpu" /\ y = n /\ z \in data.members
           \/ u = "cpu" /\ data.members = {} /\ y = n /\ z = data.exit /\ z # NoNode
    <3>1. /\ \A z \in data.members : z # n
          /\ data.exit # NoNode => data.exit # n
      BY <2>2, <2>5
    <3>2. SUFFICES ASSUME NEW u \in Tracks, NEW y, NEW z
                   PROVE  <<y, z>> \in h.deps[u] <=>
                            \/ <<y, z>> \in g.deps[u]
                            \/ u = "cpu" /\ y = n /\ z \in data.members
                            \/ u = "cpu" /\ data.members = {} /\ y = n /\ z = data.exit /\ z # NoNode
      OBVIOUS
    <3>3. <<y, z>> \in h.deps[u] <=> \/ <<y, z>> \in g.deps[u]
                                     \/ u = "cpu" /\ <<y, z>> \in e /\ y # z
                                     \/ u = "cpu" /\ <<y, z>> \in f /\ y # z
      BY <2>2, <2>10, <2>11
    <3>4. <<y, z>> \in e /\ y # z <=> y = n /\ z \in data.members
      BY <2>6, <3>1
    <3>5. <<y, z>> \in f /\ y # z <=> data.members = {} /\ y = n /\ z = data.exit /\ z # NoNode
      BY <2>7, <3>1
    <3> QED BY <3>3, <3>4, <3>5, Zenon
  <2>13. \A u \in Tracks : g.deps[u] \subseteq h.deps[u]
    <3>1. \A u \in Tracks : g.deps[u] \in SUBSET (Nat \X Nat)
      BY <1>1, GraphFacts
    <3> QED BY <2>12, <3>1
  <2>14. \A u \in Tracks : \A y, z : <<y, z>> \in h.deps[u] =>
           <<y, z>> \in g.deps[u] \/ (u = "cpu" /\ Between(data, y, z))
    BY <2>3, <2>4, <2>12 DEF Between
  <2>15. "cpu" \in Tracks =>
           /\ data.entry # NoNode => \A m \in data.members : <<data.entry, m>> \in h.deps["cpu"]
           /\ data.exit # NoNode => \A m \in data.members : <<m, data.exit>> \in h.deps["cpu"]
           /\ data.entry # NoNode /\ data.exit # NoNode /\ data.members = {}
                => <<data.entry, data.exit>> \in h.deps["cpu"]
    <3>1. SUFFICES ASSUME "cpu" \in Tracks
                   PROVE  /\ \A m \in data.members : <<n, m>> \in h.deps["cpu"]
                          /\ data.exit # NoNode => \A m \in data.members : <<m, data.exit>> \in h.deps["cpu"]
                          /\ data.exit # NoNode /\ data.members = {} => <<n, data.exit>> \in h.deps["cpu"]
      BY <2>3
    <3>2. data.exit # NoNode => \A m \in data.members : <<m, data.exit>> \in g.deps["cpu"]
      <4>1. group \in 1 .. Len(G)
        BY <1>1
      <4> QED BY <1>1, <2>3, <3>1, <4>1 DEF AnchorsHold
    <3> QED BY <2>12, <3>1, <3>2
  <2>16. /\ Fine(h, H, c, w, a)
         /\ DOMAIN H = DOMAIN G /\ H[group] = data
         /\ \A i \in DOMAIN G : i # group => H[i] = G[i]
    <3>1. \/ G[group].entry = NoNode /\ data.entry = n /\ data.exit = G[group].exit
          \/ G[group].exit = NoNode /\ data.exit = n /\ data.entry = G[group].entry
      BY <1>4, <2>3
    <3>2. Live(h) = Live(g) \cup {n}
      BY <2>2, <2>10, <2>11
    <3> HIDE DEF n, s, H
    <3> QED BY <2>2, <2>3, <2>4, <2>11, <2>13, <2>14, <2>15, <3>1, <3>2, FineAnchor DEF H
  <2> HIDE DEF H
  <2>17. r.graph = h /\ r.groups = H /\ r.anchor = n
    BY <2>1
  <2>18. h.frozen = g.frozen
    BY <2>2, <2>10, <2>11
  <2>19. r = [graph |-> r.graph, groups |-> r.groups, anchor |-> r.anchor]
    BY <2>1, <2>17
  <2>20. \A i \in DOMAIN G : H[i].exit = G[i].exit
    BY <2>3, <2>16
  <2> QED BY <2>3, <2>4, <2>16, <2>17, <2>18, <2>19, <2>20
<1> QED BY <1>3, <1>4

LEMMA FineExit ==
  ASSUME NEW g, NEW G, NEW c, NEW w, NEW a, Fine(g, G, c, w, a), NEW group \in DOMAIN G, NEW x,
         NEW r, r = ensure_group_exit([graph |-> g, groups |-> G, anchor |-> x], group)
  PROVE  /\ Fine(r.graph, r.groups, c, w, a) /\ r.graph.frozen = g.frozen
         /\ r = [graph |-> r.graph, groups |-> r.groups, anchor |-> r.anchor]
         /\ DOMAIN r.groups = DOMAIN G
         /\ r.anchor # NoNode /\ r.groups[group].exit = r.anchor
         /\ \A i \in DOMAIN G : r.groups[i].entry = G[i].entry
<1> DEFINE s == [graph |-> g, groups |-> G, anchor |-> x]
           n == g.slots
           A == create_group_anchor(g)
           data == [G[group] EXCEPT !.exit = n]
           e == data.members \X {n}
           l == link_nodes(A, "cpu", e)
           f == IF data.members = {} THEN NodeOrNone(data.entry) \X {n} ELSE {}
           h == link_empty_group_bridge(l, data)
           H == [G EXCEPT ![group] = data]
<1>1. /\ WellFormed(g) /\ G \in Seq(GroupData) /\ GroupsFine(g, G, c) /\ ToSet(c) \subseteq Live(g)
      /\ AnchorsHold(g, G)
  BY DEF Fine, GroupsFine
<1>2. s.graph = g /\ s.groups = G
  OBVIOUS
<1>3. CASE G[group].exit # NoNode
  <2>1. r = [s EXCEPT !.anchor = G[group].exit]
    BY <1>2, <1>3 DEF ensure_group_exit
  <2>2. r = [graph |-> g, groups |-> G, anchor |-> G[group].exit]
    BY <2>1
  <2>3. r.graph = g /\ r.groups = G /\ r.anchor = G[group].exit
    BY <2>2
  <2>4. r = [graph |-> r.graph, groups |-> r.groups, anchor |-> r.anchor]
    BY <2>2, <2>3
  <2> QED BY <1>3, <2>3, <2>4
<1>4. CASE G[group].exit = NoNode
  <2>1. r = [graph |-> h, groups |-> H, anchor |-> n]
    BY <1>2, <1>4 DEF ensure_group_exit, WithGroup
  <2>2. /\ WellFormed(A) /\ A.deps = g.deps /\ Live(A) = Live(g) \cup {n} /\ n \in Nat /\ n \notin Live(g)
        /\ A.frozen = g.frozen
    <3>1. "stage" \in Kinds
      BY DEF Kinds
    <3>2. (CHOOSE t \in Subtypes : TRUE) \in Subtypes
      BY TracksAssumption
    <3> QED BY <1>1, <3>1, <3>2, AllocateFacts, ZenonT(60) DEF create_group_anchor
  <2>3. /\ G[group] \in GroupData /\ data \in GroupData
        /\ data.members = G[group].members /\ data.exit = n /\ data.entry = G[group].entry
    <3>1. G[group] \in GroupData
      BY <1>1
    <3> QED BY <2>2, <3>1 DEF GroupData
  <2>4. n # NoNode
    BY <2>2, FactoryAssumption
  <2>5. /\ data.members \subseteq Live(g) /\ (data.entry # NoNode => data.entry \in Live(g))
    <3>1. group \in 1 .. Len(G)
      BY <1>1
    <3> QED BY <1>1, <2>3, <3>1 DEF GroupsFine
  <2>6. /\ e \subseteq Live(A) \X Live(A) /\ \A z, y : <<z, y>> \in e <=> y = n /\ z \in data.members
    BY <2>2, <2>5
  <2>7. /\ f \subseteq Live(A) \X Live(A)
        /\ \A z, y : <<z, y>> \in f <=> data.members = {} /\ y = n /\ z = data.entry /\ z # NoNode
    BY <2>2, <2>5 DEF NodeOrNone
  <2>8. data.members = {} => h = link_nodes(l, "cpu", f)
    <3>1. NodeOrNone(data.exit) = {n}
      BY <2>3, <2>4 DEF NodeOrNone
    <3> QED BY <3>1, Zenon DEF link_empty_group_bridge
  <2>9. data.members # {} => h = l
    BY DEF link_empty_group_bridge
  <2> HIDE DEF A, e, f, data
  <2>10. /\ WellFormed(l) /\ Live(l) = Live(A) /\ l.frozen = A.frozen
         /\ \A u \in Tracks : \A y, z : <<y, z>> \in l.deps[u] <=>
              <<y, z>> \in A.deps[u] \/ (u = "cpu" /\ <<y, z>> \in e /\ y # z)
    BY <2>2, <2>6, LinkedFacts
  <2> HIDE DEF l, h
  <2>11. /\ WellFormed(h) /\ Live(h) = Live(A) /\ h.frozen = A.frozen
         /\ \A u \in Tracks : \A y, z : <<y, z>> \in h.deps[u] <=>
              <<y, z>> \in l.deps[u] \/ (u = "cpu" /\ <<y, z>> \in f /\ y # z)
    <3>1. CASE data.members = {}
      <4>1. h = link_nodes(l, "cpu", f) /\ f \subseteq Live(l) \X Live(l)
        BY <2>7, <2>8, <2>10, <3>1
      <4> QED BY <2>10, <4>1, LinkedFacts
    <3>2. CASE data.members # {}
      <4>1. h = l /\ \A y, z : <<y, z>> \notin f
        BY <2>7, <2>9, <3>2
      <4> QED BY <2>10, <4>1
    <3> QED BY <3>1, <3>2
  <2>12. \A u \in Tracks : \A z, y : <<z, y>> \in h.deps[u] <=>
           \/ <<z, y>> \in g.deps[u]
           \/ u = "cpu" /\ y = n /\ z \in data.members
           \/ u = "cpu" /\ data.members = {} /\ y = n /\ z = data.entry /\ z # NoNode
    <3>1. /\ \A z \in data.members : z # n
          /\ data.entry # NoNode => data.entry # n
      BY <2>2, <2>5
    <3>2. SUFFICES ASSUME NEW u \in Tracks, NEW z, NEW y
                   PROVE  <<z, y>> \in h.deps[u] <=>
                            \/ <<z, y>> \in g.deps[u]
                            \/ u = "cpu" /\ y = n /\ z \in data.members
                            \/ u = "cpu" /\ data.members = {} /\ y = n /\ z = data.entry /\ z # NoNode
      OBVIOUS
    <3>3. <<z, y>> \in h.deps[u] <=> \/ <<z, y>> \in g.deps[u]
                                     \/ u = "cpu" /\ <<z, y>> \in e /\ z # y
                                     \/ u = "cpu" /\ <<z, y>> \in f /\ z # y
      BY <2>2, <2>10, <2>11
    <3>4. <<z, y>> \in e /\ z # y <=> y = n /\ z \in data.members
      BY <2>6, <3>1
    <3>5. <<z, y>> \in f /\ z # y <=> data.members = {} /\ y = n /\ z = data.entry /\ z # NoNode
      BY <2>7, <3>1
    <3> QED BY <3>3, <3>4, <3>5, Zenon
  <2>13. \A u \in Tracks : g.deps[u] \subseteq h.deps[u]
    <3>1. \A u \in Tracks : g.deps[u] \in SUBSET (Nat \X Nat)
      BY <1>1, GraphFacts
    <3> QED BY <2>12, <3>1
  <2>14. \A u \in Tracks : \A y, z : <<y, z>> \in h.deps[u] =>
           <<y, z>> \in g.deps[u] \/ (u = "cpu" /\ Between(data, y, z))
    BY <2>3, <2>4, <2>12 DEF Between
  <2>15. "cpu" \in Tracks =>
           /\ data.entry # NoNode => \A m \in data.members : <<data.entry, m>> \in h.deps["cpu"]
           /\ data.exit # NoNode => \A m \in data.members : <<m, data.exit>> \in h.deps["cpu"]
           /\ data.entry # NoNode /\ data.exit # NoNode /\ data.members = {}
                => <<data.entry, data.exit>> \in h.deps["cpu"]
    <3>1. SUFFICES ASSUME "cpu" \in Tracks
                   PROVE  /\ \A m \in data.members : <<m, n>> \in h.deps["cpu"]
                          /\ data.entry # NoNode => \A m \in data.members : <<data.entry, m>> \in h.deps["cpu"]
                          /\ data.entry # NoNode /\ data.members = {} => <<data.entry, n>> \in h.deps["cpu"]
      BY <2>3
    <3>2. data.entry # NoNode => \A m \in data.members : <<data.entry, m>> \in g.deps["cpu"]
      <4>1. group \in 1 .. Len(G)
        BY <1>1
      <4> QED BY <1>1, <2>3, <3>1, <4>1 DEF AnchorsHold
    <3> QED BY <2>12, <3>1, <3>2
  <2>16. /\ Fine(h, H, c, w, a)
         /\ DOMAIN H = DOMAIN G /\ H[group] = data
         /\ \A i \in DOMAIN G : i # group => H[i] = G[i]
    <3>1. \/ G[group].entry = NoNode /\ data.entry = n /\ data.exit = G[group].exit
          \/ G[group].exit = NoNode /\ data.exit = n /\ data.entry = G[group].entry
      BY <1>4, <2>3
    <3>2. Live(h) = Live(g) \cup {n}
      BY <2>2, <2>10, <2>11
    <3> HIDE DEF n, s, H
    <3> QED BY <2>2, <2>3, <2>4, <2>11, <2>13, <2>14, <2>15, <3>1, <3>2, FineAnchor DEF H
  <2> HIDE DEF H
  <2>17. r.graph = h /\ r.groups = H /\ r.anchor = n
    BY <2>1
  <2>18. h.frozen = g.frozen
    BY <2>2, <2>10, <2>11
  <2>19. r = [graph |-> r.graph, groups |-> r.groups, anchor |-> r.anchor]
    BY <2>1, <2>17
  <2>20. \A i \in DOMAIN G : H[i].entry = G[i].entry
    BY <2>3, <2>16
  <2> QED BY <2>3, <2>4, <2>16, <2>17, <2>18, <2>19, <2>20
<1> QED BY <1>3, <1>4

-----------------------------------------------------------------------------
(* Factories: links *)

\* A chain through a sequence puts all of it in order.
LEMMA ChainFacts ==
  ASSUME NEW nodes \in Seq(Nat), Distinct(nodes)
  PROVE  /\ \A x, y : <<x, y>> \in Windows(nodes) => x # y /\ <<x, y>> \in InOrder(nodes)
         /\ Windows(nodes) \subseteq ToSet(nodes) \X ToSet(nodes)
         /\ InOrder(nodes) \subseteq ToSet(nodes) \X ToSet(nodes)
         /\ \A R : Transitive(R) /\ (\A x, y : <<x, y>> \in Windows(nodes) => <<x, y>> \in R)
                     => InOrder(nodes) \subseteq R
<1> DEFINE n == Len(nodes)
<1>1. n \in Nat /\ DOMAIN nodes = 1 .. n /\ \A i \in 1 .. n : nodes[i] \in ToSet(nodes)
  BY DEF ToSet
<1>2. /\ \A i, j \in 1 .. n : nodes[i] = nodes[j] => i = j
      /\ Windows(nodes) = {<<nodes[i], nodes[i + 1]>> : i \in 1 .. n - 1}
  BY DEF Distinct, Windows
<1>3. InOrder(nodes) = UNION {{<<nodes[i], nodes[j]>> : j \in i + 1 .. n} : i \in 1 .. n}
  BY <1>1 DEF InOrder
<1> HIDE DEF n
<1>4. \A z : z \in InOrder(nodes) <=> \E i \in 1 .. n : \E j \in i + 1 .. n : z = <<nodes[i], nodes[j]>>
  <2> DEFINE later(i) == {<<nodes[i], nodes[j]>> : j \in i + 1 .. n}
  <2>1. InOrder(nodes) = UNION {later(i) : i \in 1 .. n}
    BY <1>3
  <2>2. \A i \in 1 .. n : \A z : z \in later(i) <=> \E j \in i + 1 .. n : z = <<nodes[i], nodes[j]>>
    OBVIOUS
  <2> HIDE DEF later
  <2>3. \A z : z \in InOrder(nodes) <=> \E i \in 1 .. n : z \in later(i)
    BY <2>1
  <2> QED BY <2>2, <2>3
<1>5. \A i \in 1 .. n - 1 : i \in 1 .. n /\ i + 1 \in 1 .. n /\ i + 1 \in i + 1 .. n /\ i # i + 1
  BY <1>1
<1>6. \A i \in 1 .. n : \A j \in i + 1 .. n : j \in 1 .. n
  BY <1>1
<1>7. ASSUME NEW z \in Windows(nodes)
      PROVE  z \in InOrder(nodes) /\ z \in ToSet(nodes) \X ToSet(nodes) /\ z[1] # z[2]
  <2>1. PICK i \in 1 .. n - 1 : z = <<nodes[i], nodes[i + 1]>>
    BY <1>2
  <2>2. z \in InOrder(nodes)
    BY <1>4, <1>5, <2>1
  <2>3. nodes[i] # nodes[i + 1] /\ nodes[i] \in ToSet(nodes) /\ nodes[i + 1] \in ToSet(nodes)
    BY <1>1, <1>2, <1>5
  <2> QED BY <2>1, <2>2, <2>3
<1>8. InOrder(nodes) \subseteq ToSet(nodes) \X ToSet(nodes)
  BY <1>1, <1>4, <1>6
<1>9. ASSUME NEW R, Transitive(R), \A x, y : <<x, y>> \in Windows(nodes) => <<x, y>> \in R
      PROVE  InOrder(nodes) \subseteq R
  <2> DEFINE Apart(k) == \A i \in 1 .. n : i + k <= n => <<nodes[i], nodes[i + k]>> \in R
             D == {k \in Nat : Apart(k + 1)}
  <2>1. \A i \in 1 .. n - 1 : <<nodes[i], nodes[i + 1]>> \in R
    BY <1>2, <1>9
  <2>2. Apart(1)
    <3>1. SUFFICES ASSUME NEW i \in 1 .. n, i + 1 <= n PROVE <<nodes[i], nodes[i + 1]>> \in R
      OBVIOUS
    <3>2. i \in 1 .. n - 1
      BY <1>1, <3>1
    <3> QED BY <2>1, <3>2
  <2>3. ASSUME NEW k \in Nat, Apart(k + 1) PROVE Apart((k + 1) + 1)
    <3>1. SUFFICES ASSUME NEW i \in 1 .. n, i + ((k + 1) + 1) <= n
                   PROVE  <<nodes[i], nodes[i + ((k + 1) + 1)]>> \in R
      OBVIOUS
    <3>2. i + (k + 1) <= n /\ i + (k + 1) \in 1 .. n - 1 /\ i + ((k + 1) + 1) = (i + (k + 1)) + 1
      BY <1>1, <3>1
    <3>3. <<nodes[i], nodes[i + (k + 1)]>> \in R
      BY <2>3, <3>2
    <3>4. <<nodes[i + (k + 1)], nodes[(i + (k + 1)) + 1]>> \in R
      BY <2>1, <3>2
    <3> QED BY <1>9, <3>2, <3>3, <3>4 DEF Transitive
  <2> HIDE DEF Apart
  <2>4. 0 \in D /\ \A k \in D : k + 1 \in D
    <3>1. 0 + 1 = 1
      OBVIOUS
    <3> QED BY <2>2, <2>3, <3>1
  <2>5. D = Nat
    <3>1. D \subseteq Nat
      OBVIOUS
    <3> HIDE DEF D
    <3> QED BY <2>4, <3>1, Reached
  <2>6. ASSUME NEW i \in 1 .. n, NEW j \in i + 1 .. n PROVE <<nodes[i], nodes[j]>> \in R
    <3>1. (j - i) - 1 \in Nat /\ ((j - i) - 1) + 1 = j - i /\ i + (j - i) = j /\ j <= n
      BY <1>1, <2>6
    <3>2. Apart(((j - i) - 1) + 1)
      BY <2>5, <3>1
    <3>3. Apart(j - i)
      BY <3>1, <3>2
    <3>4. i + (j - i) <= n => <<nodes[i], nodes[i + (j - i)]>> \in R
      BY <3>3 DEF Apart
    <3> QED BY <3>1, <3>4
  <2> QED BY <1>4, <2>6
<1>10. \A x, y : <<x, y>> \in Windows(nodes) => x # y /\ <<x, y>> \in InOrder(nodes)
  <2>1. SUFFICES ASSUME NEW x, NEW y, <<x, y>> \in Windows(nodes) PROVE x # y /\ <<x, y>> \in InOrder(nodes)
    OBVIOUS
  <2>2. <<x, y>> \in InOrder(nodes) /\ <<x, y>>[1] # <<x, y>>[2]
    BY <1>7, <2>1
  <2>3. <<x, y>>[1] = x /\ <<x, y>>[2] = y
    OBVIOUS
  <2> QED BY <2>2, <2>3
<1>11. Windows(nodes) \subseteq ToSet(nodes) \X ToSet(nodes)
  BY <1>7
<1> QED BY <1>8, <1>9, <1>10, <1>11

\* Nodes of which each stands for something are linked as it was asked.
LEMMA FineEdge ==
  ASSUME NEW g, NEW G, NEW c, NEW w, NEW a, Fine(g, G, c, w, a),
         NEW x, NEW y, NEW p, NEW q, Stands(G, c, x, p), Stands(G, c, y, q), x # y
  PROVE  LET h == link_nodes(g, "cpu", {<<x, y>>}) IN
           /\ Fine(h, G, c, w, [a EXCEPT !["cpu"] = @ \cup {<<p, q>>}])
           /\ h.frozen = g.frozen
<1> DEFINE edges == {<<x, y>>}
           order == {<<p, q>>}
           h == link_nodes(g, "cpu", edges)
<1>1. WellFormed(g) /\ c \in Seq(Nat) /\ ToSet(c) \subseteq Live(g) /\ GroupsFine(g, G, c)
  BY DEF Fine
<1>2. x \in Live(g) /\ y \in Live(g) /\ p \in Int /\ q \in Int
  BY <1>1, StandsOnce
<1>3. edges \subseteq Live(g) \X Live(g) /\ order \in SUBSET (Int \X Int)
  BY <1>2
<1>4. /\ \A u, v : <<u, v>> \in edges <=> u = x /\ v = y
      /\ \A u, v : <<u, v>> \in order <=> u = p /\ v = q
  OBVIOUS
<1>5. "cpu" \in Tracks => <<x, y>> \in Follows(h, "cpu")
  <2>1. WellFormed(h) /\ ("cpu" \in Tracks => <<x, y>> \in h.deps["cpu"])
    <3> HIDE DEF edges
    <3> QED BY <1>1, <1>3, <1>4, LinkedFacts
  <2> HIDE DEF h
  <2> QED BY <2>1, FollowsIsLeast
<1>6. Answers(g, G, c, "cpu", edges, order)
  <2>1. Stands(G, c, x, p) /\ Stands(G, c, y, q)
    OBVIOUS
  <2>2. "cpu" \in Tracks => Answered(h, G, c, "cpu", p, q)
    <3> HIDE DEF h
    <3> QED BY <1>5, <2>1 DEF Answered
  <2>3. ASSUME "cpu" \in Tracks, NEW r, NEW s, <<r, s>> \in order PROVE Answered(h, G, c, "cpu", r, s)
    <3>1. r = p /\ s = q
      BY <2>3
    <3> HIDE DEF h
    <3> QED BY <2>2, <2>3, <3>1
  <2>4. ASSUME NEW u, NEW v, <<u, v>> \in edges
        PROVE  \E r, s : Stands(G, c, u, r) /\ Stands(G, c, v, s) /\ <<r, s>> \in order
    <3>1. u = x /\ v = y /\ <<p, q>> \in order
      BY <2>4
    <3> QED BY <2>1, <3>1
  <2> HIDE DEF edges, order
  <2> QED BY <1>3, <2>3, <2>4 DEF Answers
<1> HIDE DEF edges, order
<1>7. Fine(h, G, c, w, [a EXCEPT !["cpu"] = @ \cup order]) /\ h.frozen = g.frozen
  BY <1>6, FineLink
<1> QED BY <1>7 DEF edges, order

\* Links among the created nodes.
LEMMA FineCreated ==
  ASSUME NEW g, NEW G, NEW c, NEW w, NEW a, Fine(g, G, c, w, a), NEW t,
         NEW edges, edges \subseteq ToSet(c) \X ToSet(c), NEW order, order \subseteq ToSet(c) \X ToSet(c),
         \A x, y : <<x, y>> \in edges /\ x # y => <<x, y>> \in order,
         \A R : Transitive(R) /\ (\A x, y : <<x, y>> \in edges /\ x # y => <<x, y>> \in R) => order \subseteq R
  PROVE  LET h == link_nodes(g, t, edges) IN
           /\ Fine(h, G, c, w, [a EXCEPT ![t] = @ \cup order])
           /\ h.frozen = g.frozen
<1> DEFINE h == link_nodes(g, t, edges)
<1>1. WellFormed(g) /\ c \in Seq(Nat) /\ ToSet(c) \subseteq Live(g) /\ GroupsFine(g, G, c)
  BY DEF Fine
<1>2. \A x \in ToSet(c) : Stands(G, c, x, x)
  BY DEF Stands
<1>3. Live(g) \subseteq Nat
  BY <1>1, GraphFacts
<1>4. edges \subseteq Live(g) \X Live(g) /\ order \in SUBSET (Int \X Int)
  BY <1>1, <1>3
<1>5. \A x, y : <<x, y>> \in edges /\ x # y =>
        \E p, q : Stands(G, c, x, p) /\ Stands(G, c, y, q) /\ <<p, q>> \in order
  BY <1>2
<1>6. ASSUME t \in Tracks, NEW p, NEW q, <<p, q>> \in order PROVE Answered(h, G, c, t, p, q)
  <2>1. /\ WellFormed(h)
        /\ \A x, y : <<x, y>> \in edges /\ x # y => <<x, y>> \in h.deps[t]
    BY <1>1, <1>4, <1>6, LinkedFacts
  <2> HIDE DEF h
  <2>2. h.deps[t] \subseteq Follows(h, t) /\ Transitive(Follows(h, t))
    BY <1>6, <2>1, FollowsIsLeast
  <2>3. \A x, y : <<x, y>> \in edges /\ x # y => <<x, y>> \in Follows(h, t)
    BY <2>1, <2>2
  <2>4. <<p, q>> \in Follows(h, t)
    BY <1>6, <2>2, <2>3
  <2>5. Stands(G, c, p, p) /\ Stands(G, c, q, q)
    BY <1>2, <1>6
  <2> QED BY <2>4, <2>5 DEF Answered
<1>7. Answers(g, G, c, t, edges, order)
  BY <1>4, <1>5, <1>6 DEF Answers
<1> QED BY <1>7, FineLink

-----------------------------------------------------------------------------
(* Factories: the invariant *)

\* A graph a factory makes is fine; any other is well formed.
FactoryInv ==
  TypeInv /\ (author = "factory" => Fine(graph, groups, created, gpu_work, asked))

LEMMA SliceFacts ==
  ASSUME NEW P, NEW s \in Seq(P), NEW m \in Nat \ {0}, NEW k \in 0 .. Len(s)
  PROVE  ToSet(SubSeq(s, m, k)) = {s[i] : i \in m .. k}
<1> DEFINE q == SubSeq(s, m, k)
           z == IF m <= k THEN k - m + 1 ELSE 0
<1>1. q = [i \in 1 .. (k - m) + 1 |-> s[(i + m) - 1]]
  OBVIOUS
<1>2. /\ DOMAIN q = 1 .. (k - m) + 1
      /\ \A i \in 1 .. (k - m) + 1 : q[i] = s[(i + m) - 1]
  BY <1>1
<1> HIDE DEF q
<1>3. /\ \A i \in 1 .. (k - m) + 1 : (i + m) - 1 \in m .. k
      /\ \A j \in m .. k : (j - m) + 1 \in 1 .. (k - m) + 1 /\ (((j - m) + 1) + m) - 1 = j
  OBVIOUS
<1>4. ToSet(q) = {q[i] : i \in 1 .. (k - m) + 1}
  BY <1>2 DEF ToSet
<1>5. \A i \in 1 .. (k - m) + 1 : q[i] \in {s[j] : j \in m .. k}
  BY <1>2, <1>3
<1>6. \A j \in m .. k : s[j] \in {q[i] : i \in 1 .. (k - m) + 1}
  <2>1. SUFFICES ASSUME NEW j \in m .. k PROVE \E i \in 1 .. (k - m) + 1 : s[j] = q[i]
    OBVIOUS
  <2>2. q[(j - m) + 1] = s[(((j - m) + 1) + m) - 1]
    BY <1>2, <1>3
  <2> QED BY <1>3, <2>2
<1> QED BY <1>4, <1>5, <1>6 DEF q

LEMMA FinePrime ==
  ASSUME Fine(graph', groups', created', gpu_work', asked'), author' = "factory"
  PROVE  FactoryInv'
<1>1. WellFormed(graph')
  BY DEF Fine
<1> QED BY <1>1 DEF FactoryInv, TypeInv

LEMMA SlicesOfCreated ==
  ASSUME Fine(graph, groups, created, gpu_work, asked), NEW n \in Created
  PROVE  /\ created_gpu_work_nodes_after(n) \subseteq Created /\ n \notin created_gpu_work_nodes_after(n)
         /\ created_gpu_work_nodes_before(n) \subseteq Created /\ n \notin created_gpu_work_nodes_before(n)
<1>1. created \in Seq(Nat) /\ Distinct(created)
  BY DEF Fine
<1>2. DOMAIN created = 1 .. Len(created) /\ Len(created) \in Nat
  BY <1>1
<1>3. PICK i \in 1 .. Len(created) : created[i] = n
  BY <1>2 DEF Created, ToSet
<1>4. created_node_position(n) = i
  <2>1. Position(created, n) = i
    BY <1>1, <1>3, PositionFacts
  <2> QED BY <2>1 DEF created_node_position, Position
<1>5. /\ i + 1 \in Nat \ {0} /\ Len(created) \in 0 .. Len(created)
      /\ 1 \in Nat \ {0} /\ i - 1 \in 0 .. Len(created)
  BY <1>2
<1>6. /\ ToSet(SubSeq(created, i + 1, Len(created))) = {created[j] : j \in i + 1 .. Len(created)}
      /\ ToSet(SubSeq(created, 1, i - 1)) = {created[j] : j \in 1 .. i - 1}
  <2>1. \A s \in Seq(Nat) : \A m \in Nat \ {0}, k \in 0 .. Len(s) : ToSet(SubSeq(s, m, k)) = {s[j] : j \in m .. k}
    BY SliceFacts
  <2> QED BY <1>1, <1>5, <2>1
<1>7. /\ \A j \in i + 1 .. Len(created) : j \in 1 .. Len(created) /\ j # i
      /\ \A j \in 1 .. i - 1 : j \in 1 .. Len(created) /\ j # i
  BY <1>2
<1>8. \A j \in 1 .. Len(created) : created[j] \in Created /\ (j # i => created[j] # n)
  BY <1>1, <1>2, <1>3 DEF Created, ToSet, Distinct
<1>9. \A x \in created_gpu_work_nodes_after(n) : x \in Created /\ x # n
  BY <1>4, <1>6, <1>7, <1>8 DEF created_gpu_work_nodes_after
<1>10. \A x \in created_gpu_work_nodes_before(n) : x \in Created /\ x # n
  BY <1>4, <1>6, <1>7, <1>8 DEF created_gpu_work_nodes_before
<1> QED BY <1>9, <1>10

\* Links among the created nodes, made in one call.
LEMMA LinkCreatedKeeps ==
  ASSUME Fine(graph, groups, created, gpu_work, asked), author' = "factory",
         NEW t, NEW edges, edges \subseteq Created \X Created, NEW order, order \subseteq Created \X Created,
         \A x, y : <<x, y>> \in edges /\ x # y => <<x, y>> \in order,
         \A R : Transitive(R) /\ (\A x, y : <<x, y>> \in edges /\ x # y => <<x, y>> \in R) => order \subseteq R,
         LinkCreated(t, edges, order)
  PROVE  FactoryInv'
<1>1. /\ graph' = link_nodes(graph, t, edges) /\ groups' = groups /\ created' = created
      /\ gpu_work' = gpu_work /\ asked' = [asked EXCEPT ![t] = @ \cup order]
  BY DEF LinkCreated, Linking
<1>2. Fine(link_nodes(graph, t, edges), groups, created, gpu_work, [asked EXCEPT ![t] = @ \cup order])
  BY FineCreated DEF Created
<1> QED BY <1>1, <1>2, FinePrime

\* Links whose order is the links.
LEMMA LinkPairsKeeps ==
  ASSUME Fine(graph, groups, created, gpu_work, asked), author' = "factory",
         NEW t, NEW edges, edges \subseteq Created \X Created,
         LinkCreated(t, edges, NoSelf(edges))
  PROVE  FactoryInv'
<1>1. /\ NoSelf(edges) \subseteq edges
      /\ \A x, y : <<x, y>> \in edges /\ x # y => <<x, y>> \in NoSelf(edges)
  BY DEF NoSelf
<1>2. \A e \in NoSelf(edges) : \E x, y : e = <<x, y>> /\ <<x, y>> \in edges /\ x # y
  <2>1. \A e \in edges : e = <<e[1], e[2]>>
    OBVIOUS
  <2> QED BY <2>1 DEF NoSelf
<1> DEFINE order == NoSelf(edges)
<1>3. order \subseteq Created \X Created
  BY <1>1
<1>4. \A R : Transitive(R) /\ (\A x, y : <<x, y>> \in edges /\ x # y => <<x, y>> \in R) => order \subseteq R
  <2>1. SUFFICES ASSUME NEW R, \A x, y : <<x, y>> \in edges /\ x # y => <<x, y>> \in R, NEW e \in order
                 PROVE  e \in R
    OBVIOUS
  <2>2. PICK x, y : e = <<x, y>> /\ <<x, y>> \in edges /\ x # y
    BY <1>2
  <2> QED BY <2>1, <2>2
<1>5. \A x, y : <<x, y>> \in edges /\ x # y => <<x, y>> \in order
  BY <1>1
<1>6. LinkCreated(t, edges, order)
  OBVIOUS
<1> HIDE DEF order
<1> QED BY <1>3, <1>4, <1>5, <1>6, LinkCreatedKeeps

\* A chain through created nodes.
LEMMA ChainKeeps ==
  ASSUME Fine(graph, groups, created, gpu_work, asked), author' = "factory",
         NEW t, NEW nodes \in Seq(Nat), Distinct(nodes), ToSet(nodes) \subseteq Created,
         LinkCreated(t, Windows(nodes), InOrder(nodes))
  PROVE  FactoryInv'
<1> DEFINE edges == Windows(nodes)
           order == InOrder(nodes)
<1>1. /\ \A x, y : <<x, y>> \in edges => x # y /\ <<x, y>> \in order
      /\ edges \subseteq ToSet(nodes) \X ToSet(nodes)
      /\ order \subseteq ToSet(nodes) \X ToSet(nodes)
      /\ \A R : Transitive(R) /\ (\A x, y : <<x, y>> \in edges => <<x, y>> \in R) => order \subseteq R
  BY ChainFacts
<1>2. LinkCreated(t, edges, order)
  OBVIOUS
<1> HIDE DEF edges, order
<1>3. edges \subseteq Created \X Created /\ order \subseteq Created \X Created
  BY <1>1
<1>4. \A x, y : <<x, y>> \in edges /\ x # y => <<x, y>> \in order
  BY <1>1
<1>5. \A R : Transitive(R) /\ (\A x, y : <<x, y>> \in edges /\ x # y => <<x, y>> \in R) => order \subseteq R
  <2>1. SUFFICES ASSUME NEW R, Transitive(R), \A x, y : <<x, y>> \in edges /\ x # y => <<x, y>> \in R
                 PROVE  order \subseteq R
    OBVIOUS
  <2>2. \A x, y : <<x, y>> \in edges => <<x, y>> \in R
    BY <1>1, <2>1
  <2> QED BY <1>1, <2>1, <2>2
<1> QED BY <1>2, <1>3, <1>4, <1>5, LinkCreatedKeeps

\* The members of a group were created.
LEMMA MatchingsCreated ==
  ASSUME Fine(graph, groups, created, gpu_work, asked), NEW matching \in Matchings
  PROVE  matching \subseteq Created
<1>1. /\ gpu_work \subseteq Created /\ groups \in Seq(GroupData)
      /\ \A i \in 1 .. Len(groups) : groups[i].members \subseteq Created
  BY DEF Fine, GroupsFine, Created
<1>2. DOMAIN groups = 1 .. Len(groups)
  BY <1>1
<1> QED BY <1>1, <1>2 DEF Matchings, GroupIds

LEMMA CreatedLinksKeep ==
  ASSUME Fine(graph, groups, created, gpu_work, asked), author' = "factory",
         \/ link_created_order_gpu_chain
         \/ link_created_order_cpu_chain
         \/ \E n \in Created : \/ link_cpu_to_later_gpu_work(n)
                               \/ link_cpu_from_earlier_gpu_work(n)
         \/ \E n \in Created, matching \in Matchings :
              \/ link_matching_to_node(n, "cpu", matching)
              \/ link_node_to_matching(n, "cpu", matching)
  PROVE  FactoryInv'
<1>1. created \in Seq(Nat) /\ Distinct(created) /\ Created = ToSet(created)
  BY DEF Fine, Created
<1>2. CASE link_created_order_gpu_chain
  <2> DEFINE nodes == created_gpu_work_nodes
  <2>1. nodes \in Seq(Nat) /\ Distinct(nodes) /\ ToSet(nodes) \subseteq Created
    <3>1. /\ Those(created, gpu_work) \in Seq(Nat)
          /\ ToSet(Those(created, gpu_work)) = ToSet(created) \cap gpu_work
          /\ Distinct(Those(created, gpu_work))
      BY <1>1, ThoseFacts
    <3> QED BY <1>1, <3>1 DEF created_gpu_work_nodes
  <2>2. LinkCreated("gpu", Windows(nodes), InOrder(nodes))
    BY <1>2 DEF link_created_order_gpu_chain
  <2> HIDE DEF nodes
  <2> QED BY <2>1, <2>2, ChainKeeps
<1>3. CASE link_created_order_cpu_chain
  <2>1. LinkCreated("cpu", Windows(created), InOrder(created))
    BY <1>3 DEF link_created_order_cpu_chain
  <2> QED BY <1>1, <2>1, ChainKeeps
<1>4. ASSUME NEW n \in Created, link_cpu_to_later_gpu_work(n) PROVE FactoryInv'
  <2> DEFINE later == created_gpu_work_nodes_after(n)
             edges == {n} \X later
  <2>1. later \subseteq Created /\ n \notin later
    BY SlicesOfCreated
  <2>2. LinkCreated("cpu", edges, edges)
    BY <1>4 DEF link_cpu_to_later_gpu_work
  <2> HIDE DEF later
  <2>3. edges = NoSelf(edges) /\ edges \subseteq Created \X Created
    BY <2>1 DEF NoSelf
  <2> HIDE DEF edges
  <2> QED BY <2>2, <2>3, LinkPairsKeeps
<1>5. ASSUME NEW n \in Created, link_cpu_from_earlier_gpu_work(n) PROVE FactoryInv'
  <2> DEFINE earlier == created_gpu_work_nodes_before(n)
             edges == earlier \X {n}
  <2>1. earlier \subseteq Created /\ n \notin earlier
    BY SlicesOfCreated
  <2>2. LinkCreated("cpu", edges, edges)
    BY <1>5 DEF link_cpu_from_earlier_gpu_work
  <2> HIDE DEF earlier
  <2>3. edges = NoSelf(edges) /\ edges \subseteq Created \X Created
    BY <2>1 DEF NoSelf
  <2> HIDE DEF edges
  <2> QED BY <2>2, <2>3, LinkPairsKeeps
<1>6. ASSUME NEW n \in Created, NEW matching \in Matchings, link_matching_to_node(n, "cpu", matching)
      PROVE  FactoryInv'
  <2>1. matching \X {n} \subseteq Created \X Created
    BY MatchingsCreated
  <2>2. LinkCreated("cpu", matching \X {n}, NoSelf(matching \X {n}))
    BY <1>6 DEF link_matching_to_node
  <2> QED BY <2>1, <2>2, LinkPairsKeeps
<1>7. ASSUME NEW n \in Created, NEW matching \in Matchings, link_node_to_matching(n, "cpu", matching)
      PROVE  FactoryInv'
  <2>1. {n} \X matching \subseteq Created \X Created
    BY MatchingsCreated
  <2>2. LinkCreated("cpu", {n} \X matching, NoSelf({n} \X matching))
    BY <1>7 DEF link_node_to_matching
  <2> QED BY <2>1, <2>2, LinkPairsKeeps
<1> QED BY <1>2, <1>3, <1>4, <1>5, <1>6, <1>7

\* An anchor of a group stands for its side, and no created node is one.
LEMMA AnchorStands ==
  ASSUME NEW g, NEW G, NEW c, NEW w, NEW a, Fine(g, G, c, w, a), NEW group \in DOMAIN G
  PROVE  /\ G[group].entry # NoNode => /\ Stands(G, c, G[group].entry, Before(group))
                                       /\ G[group].entry \notin ToSet(c)
                                       /\ \A i \in DOMAIN G : G[group].entry # G[i].exit
         /\ G[group].exit # NoNode => /\ Stands(G, c, G[group].exit, Behind(group))
                                      /\ G[group].exit \notin ToSet(c)
<1>1. GroupsFine(g, G, c) /\ G \in Seq(GroupData)
  BY DEF Fine, GroupsFine
<1>2. DOMAIN G = 1 .. Len(G)
  BY <1>1
<1> QED BY <1>1, <1>2 DEF GroupsFine, Stands

LEMMA LinkNodeToGroupKeeps ==
  ASSUME Fine(graph, groups, created, gpu_work, asked), author' = "factory",
         NEW n \in Created, NEW group \in GroupIds, link_node_to_group(n, group)
  PROVE  FactoryInv'
<1> DEFINE s == ensure_group_entry(Here, group)
           G == s.groups
<1>1. /\ graph' = link_nodes(s.graph, "cpu", {<<n, s.anchor>>}) /\ groups' = s.groups
      /\ created' = created /\ gpu_work' = gpu_work
      /\ asked' = [asked EXCEPT !["cpu"] = @ \cup {<<n, Before(group)>>}]
  BY DEF link_node_to_group, Linking
<1>2. group \in DOMAIN groups
  BY DEF GroupIds
<1>3. /\ Fine(s.graph, G, created, gpu_work, asked)
      /\ DOMAIN G = DOMAIN groups /\ s.anchor # NoNode /\ G[group].entry = s.anchor
  <2>1. s = ensure_group_entry([graph |-> graph, groups |-> groups, anchor |-> NoNode], group)
    BY DEF Here
  <2> HIDE DEF s
  <2> QED BY <1>2, <2>1, FineEntry DEF G
<1> HIDE DEF G, s
<1>4. Stands(G, created, s.anchor, Before(group)) /\ s.anchor \notin ToSet(created)
  BY <1>2, <1>3, AnchorStands
<1>5. Stands(G, created, n, n) /\ n # s.anchor
  BY <1>4 DEF Stands, Created
<1>6. Fine(link_nodes(s.graph, "cpu", {<<n, s.anchor>>}), G, created, gpu_work,
           [asked EXCEPT !["cpu"] = @ \cup {<<n, Before(group)>>}])
  BY <1>3, <1>4, <1>5, FineEdge
<1> QED BY <1>1, <1>6, FinePrime DEF s, G

LEMMA LinkGroupToNodeKeeps ==
  ASSUME Fine(graph, groups, created, gpu_work, asked), author' = "factory",
         NEW n \in Created, NEW group \in GroupIds, link_group_to_node(group, n)
  PROVE  FactoryInv'
<1> DEFINE s == ensure_group_exit(Here, group)
           G == s.groups
<1>1. /\ graph' = link_nodes(s.graph, "cpu", {<<s.anchor, n>>}) /\ groups' = s.groups
      /\ created' = created /\ gpu_work' = gpu_work
      /\ asked' = [asked EXCEPT !["cpu"] = @ \cup {<<Behind(group), n>>}]
  BY DEF link_group_to_node, Linking
<1>2. group \in DOMAIN groups
  BY DEF GroupIds
<1>3. /\ Fine(s.graph, G, created, gpu_work, asked)
      /\ DOMAIN G = DOMAIN groups /\ s.anchor # NoNode /\ G[group].exit = s.anchor
  <2>1. s = ensure_group_exit([graph |-> graph, groups |-> groups, anchor |-> NoNode], group)
    BY DEF Here
  <2> HIDE DEF s
  <2> QED BY <1>2, <2>1, FineExit DEF G
<1> HIDE DEF G, s
<1>4. Stands(G, created, s.anchor, Behind(group)) /\ s.anchor \notin ToSet(created)
  BY <1>2, <1>3, AnchorStands
<1>5. Stands(G, created, n, n) /\ n # s.anchor
  BY <1>4 DEF Stands, Created
<1>6. Fine(link_nodes(s.graph, "cpu", {<<s.anchor, n>>}), G, created, gpu_work,
           [asked EXCEPT !["cpu"] = @ \cup {<<Behind(group), n>>}])
  BY <1>3, <1>4, <1>5, FineEdge
<1> QED BY <1>1, <1>6, FinePrime DEF s, G

LEMMA LinkGroupToGroupKeeps ==
  ASSUME Fine(graph, groups, created, gpu_work, asked), author' = "factory",
         NEW parent \in GroupIds, NEW child \in GroupIds, link_group_to_group(parent, child)
  PROVE  FactoryInv'
<1> DEFINE e == ensure_group_exit(Here, parent)
           s == ensure_group_entry(e, child)
           G == s.groups
           H == e.groups
<1>1. /\ graph' = link_nodes(s.graph, "cpu", {<<e.anchor, s.anchor>>}) /\ groups' = s.groups
      /\ created' = created /\ gpu_work' = gpu_work
      /\ asked' = [asked EXCEPT !["cpu"] = @ \cup {<<Behind(parent), Before(child)>>}]
  BY DEF link_group_to_group, Linking
<1>2. parent \in DOMAIN groups /\ child \in DOMAIN groups
  BY DEF GroupIds
<1>3. /\ Fine(e.graph, H, created, gpu_work, asked)
      /\ e = [graph |-> e.graph, groups |-> H, anchor |-> e.anchor]
      /\ DOMAIN H = DOMAIN groups /\ e.anchor # NoNode /\ H[parent].exit = e.anchor
  <2>1. e = ensure_group_exit([graph |-> graph, groups |-> groups, anchor |-> NoNode], parent)
    BY DEF Here
  <2> HIDE DEF e
  <2> QED BY <1>2, <2>1, FineExit DEF H
<1>4. s = ensure_group_entry([graph |-> e.graph, groups |-> H, anchor |-> e.anchor], child)
  BY <1>3
<1> HIDE DEF e, H
<1>5. /\ Fine(s.graph, G, created, gpu_work, asked)
      /\ DOMAIN G = DOMAIN H /\ s.anchor # NoNode /\ G[child].entry = s.anchor
      /\ \A i \in DOMAIN H : G[i].exit = H[i].exit
  <2> HIDE DEF s
  <2> QED BY <1>2, <1>3, <1>4, FineEntry DEF G
<1> HIDE DEF s, G
<1>6. G[parent].exit = e.anchor
  BY <1>2, <1>3, <1>5
<1>7. /\ Stands(G, created, s.anchor, Before(child)) /\ Stands(G, created, e.anchor, Behind(parent))
      /\ e.anchor # s.anchor
  BY <1>2, <1>3, <1>5, <1>6, AnchorStands
<1>8. Fine(link_nodes(s.graph, "cpu", {<<e.anchor, s.anchor>>}), G, created, gpu_work,
           [asked EXCEPT !["cpu"] = @ \cup {<<Behind(parent), Before(child)>>}])
  BY <1>5, <1>7, FineEdge
<1> QED BY <1>1, <1>8, FinePrime DEF s, G, e

LEMMA LinkKeeps ==
  ASSUME Fine(graph, groups, created, gpu_work, asked), author' = "factory", Link
  PROVE  FactoryInv'
<1>1. CASE link_created_order_gpu_chain
  BY <1>1, CreatedLinksKeep
<1>2. CASE link_created_order_cpu_chain
  BY <1>2, CreatedLinksKeep
<1>3. CASE \E n \in Created : link_cpu_to_later_gpu_work(n) \/ link_cpu_from_earlier_gpu_work(n)
  BY <1>3, CreatedLinksKeep
<1>4. CASE \E n \in Created, matching \in Matchings :
             \/ link_matching_to_node(n, "cpu", matching)
             \/ link_node_to_matching(n, "cpu", matching)
  BY <1>4, CreatedLinksKeep
<1>5. ASSUME NEW n \in Created, NEW group \in GroupIds,
             link_node_to_group(n, group) \/ link_group_to_node(group, n)
      PROVE  FactoryInv'
  BY <1>5, LinkNodeToGroupKeeps, LinkGroupToNodeKeeps
<1>6. ASSUME NEW parent \in GroupIds, NEW child \in GroupIds, link_group_to_group(parent, child)
      PROVE  FactoryInv'
  BY <1>6, LinkGroupToGroupKeeps
<1> QED BY <1>1, <1>2, <1>3, <1>4, <1>5, <1>6 DEF Link

LEMMA AddCreatedKeeps ==
  ASSUME Fine(graph, groups, created, gpu_work, asked), author' = "factory",
         NEW group \in GroupIds, NEW work, AddCreated(group, work)
  PROVE  FactoryInv'
<1> DEFINE n == graph.slots
           s == CHOOSE t \in Subtypes : TRUE
           h == add_node_to_group(Allocate(graph, "stage", s), group, n)
           H == [groups EXCEPT ![group].members = @ \cup {n}]
           v == IF work THEN gpu_work \cup {n} ELSE gpu_work
<1>1. /\ graph' = h /\ groups' = H /\ created' = Append(created, n) /\ gpu_work' = v /\ asked' = asked
  BY DEF AddCreated
<1>2. s \in Subtypes /\ group \in DOMAIN groups /\ v \subseteq gpu_work \cup {n}
  BY TracksAssumption DEF GroupIds
<1> HIDE DEF s, v
<1>3. Fine(h, H, Append(created, n), v, asked)
  BY <1>2, FineMember
<1> HIDE DEF h, H, n
<1> QED BY <1>1, <1>3, FinePrime

LEMMA FactoryKeeps ==
  ASSUME FactoryInv, Factory, UNCHANGED author
  PROVE  FactoryInv'
<1>1. Authoring => author' = "factory" /\ Fine(graph, groups, created, gpu_work, asked)
  BY DEF Authoring, FactoryInv
<1>2. CASE create_group
  <2>1. /\ Authoring
        /\ groups' = Append(groups, [members |-> {}, entry |-> NoNode, exit |-> NoNode])
        /\ graph' = graph /\ created' = created /\ gpu_work' = gpu_work /\ asked' = asked
    BY <1>2 DEF create_group
  <2>2. Fine(graph, Append(groups, [members |-> {}, entry |-> NoNode, exit |-> NoNode]), created, gpu_work, asked)
    BY <1>1, <2>1, FineGroup
  <2> QED BY <1>1, <2>1, <2>2, FinePrime
<1>3. ASSUME NEW group \in GroupIds, NEW work, AddCreated(group, work) PROVE FactoryInv'
  <2>1. Authoring
    BY <1>3 DEF AddCreated
  <2> QED BY <1>1, <1>3, <2>1, AddCreatedKeeps
<1>4. CASE end_command_list_group
  <2>1. /\ Authoring /\ graph' = graph /\ groups' = groups /\ created' = created
        /\ gpu_work' = gpu_work /\ asked' = asked
    BY <1>4 DEF end_command_list_group
  <2> QED BY <1>1, <2>1, FinePrime
<1>5. CASE Link
  <2>1. Authoring
    BY <1>5 DEF Link, link_created_order_gpu_chain, link_created_order_cpu_chain,
                link_cpu_to_later_gpu_work, link_cpu_from_earlier_gpu_work,
                link_matching_to_node, link_node_to_matching, link_node_to_group,
                link_group_to_node, link_group_to_group, LinkCreated, Linking
  <2> QED BY <1>1, <1>5, <2>1, LinkKeeps
<1>6. CASE finish
  <2>1. /\ Authoring /\ graph' = WithFlowGroups(graph) /\ groups' = groups /\ created' = created
        /\ gpu_work' = gpu_work /\ asked' = asked
    BY <1>6 DEF finish, factoryVars
  <2> DEFINE h == WithFlowGroups(graph)
  <2>2. WellFormed(graph) /\ Fine(graph, groups, created, gpu_work, asked)
    BY <1>1, <2>1 DEF Fine
  <2>3. WellFormed(h) /\ h.usage = graph.usage /\ h.slots = graph.slots /\ h.deps = graph.deps
    BY <2>2, FlowGroupsFacts
  <2> HIDE DEF h
  <2>4. Fine(h, groups, created, gpu_work, asked)
    <3>1. Live(h) = Live(graph)
      BY <2>3 DEF Live
    <3>2. /\ created \in Seq(Nat) /\ Distinct(created) /\ ToSet(created) \subseteq Live(graph)
          /\ gpu_work \subseteq ToSet(created) /\ GroupsFine(graph, groups, created)
          /\ asked \in [Tracks -> SUBSET (Int \X Int)]
          /\ AnchorsHold(graph, groups) /\ groups \in Seq(GroupData)
      BY <2>2 DEF Fine, GroupsFine
    <3>3. Grown(graph, groups, created, h, groups, created)
      <4>1. Len(groups) \in Nat
        BY <3>2
      <4> QED BY <2>3, <4>1 DEF Grown
    <3>4. GroupsFine(h, groups, created)
      BY <3>1, <3>2 DEF GroupsFine
    <3>5. AnchorsHold(h, groups)
      BY <2>3, <3>2 DEF AnchorsHold
    <3> QED BY <2>2, <2>3, <3>1, <3>2, <3>3, <3>4, <3>5, FineStep
  <2>5. graph' = h
    BY <2>1 DEF h
  <2> QED BY <1>1, <2>1, <2>4, <2>5, FinePrime
<1>7. \/ create_group
      \/ \E group \in GroupIds, work \in BOOLEAN : AddCreated(group, work)
      \/ \E group \in GroupIds : AddCreated(group, TRUE)
      \/ end_command_list_group \/ Link \/ finish
  BY DEF Factory, create_boxed_node, begin_command_list_group
<1> QED BY <1>2, <1>3, <1>4, <1>5, <1>6, <1>7

LEMMA InitFine ==
  ASSUME InitFactory
  PROVE  FactoryInv
<1> DEFINE g == EmptyGraph
           a == [t \in Tracks |-> {}]
<1>1. graph = g /\ groups = <<>> /\ created = <<>> /\ gpu_work = {} /\ asked = a
  BY DEF InitFactory, InitGraph
<1>2. /\ g \in Graph /\ g.usage = <<>> /\ g.deps = [t \in Tracks |-> {}] /\ (g.built => g.frozen)
  BY DEF Graph, EmptyGraph
<1>3. /\ a \in [Tracks -> SUBSET (Int \X Int)] /\ \A t \in Tracks : a[t] = {}
  OBVIOUS
<1> HIDE DEF g, a
<1>4. \A t \in Tracks : g.deps[t] = {}
  BY <1>2
<1>5. WellFormed(g)
  <2>1. 1 .. Len(g.usage) = {}
    BY <1>2
  <2> QED BY <1>2, <1>4, <2>1, MakesGraph
<1>6. /\ <<>> \in Seq(Nat) /\ <<>> \in Seq(GroupData) /\ 1 .. Len(<<>>) = {} /\ ToSet(<<>>) = {}
  BY DEF ToSet
<1>7. Fine(g, <<>>, <<>>, {}, a)
  <2>1. Distinct(<<>>) /\ GroupsFine(g, <<>>, <<>>) /\ AnchorsHold(g, <<>>)
    BY <1>6 DEF Distinct, GroupsFine, AnchorsHold
  <2>2. NothingElse(g, <<>>, <<>>, a) /\ AllAnswered(g, <<>>, <<>>, a)
    BY <1>3, <1>4 DEF NothingElse, AllAnswered
  <2> QED BY <1>3, <1>5, <1>6, <2>1, <2>2 DEF Fine
<1> QED BY <1>1, <1>5, <1>7 DEF FactoryInv, TypeInv

LEMMA StepKeepsFactoryInv == FactoryInv /\ [NextGraph]_authorVars => FactoryInv'
<1> SUFFICES ASSUME FactoryInv, [NextGraph]_authorVars PROVE FactoryInv'
  OBVIOUS
<1>1. CASE Factory /\ UNCHANGED author
  BY <1>1, FactoryKeeps
<1>2. CASE /\ \/ Client
              \/ \E source \in CameraGraphs, merge \in BOOLEAN :
                    import_camera_setup_graph_to_final(source, merge)
           /\ UNCHANGED author
  <2>1. author # "factory"
    BY <1>2 DEF Client, import_camera_setup_graph_to_final
  <2>2. TypeInv'
    BY <1>2, OthersKeepTypes DEF FactoryInv
  <2> QED BY <1>2, <2>1, <2>2 DEF FactoryInv
<1>3. CASE UNCHANGED authorVars
  <2>1. /\ graph' = graph /\ author' = author /\ groups' = groups /\ created' = created
        /\ gpu_work' = gpu_work /\ asked' = asked
    BY <1>3 DEF authorVars, factoryVars
  <2>2. CASE author = "factory"
    BY <2>1, <2>2, FinePrime DEF FactoryInv
  <2>3. CASE author # "factory"
    BY <2>1, <2>3 DEF FactoryInv, TypeInv
  <2> QED BY <2>2, <2>3
<1> QED BY <1>1, <1>2, <1>3 DEF NextGraph

\* Whoever makes a graph, it is well formed all the time: ids are distinct and
\* below the next slot, and dependencies join two different live nodes
\* (render_node_graph.rs, cache.rs and factory.rs).
THEOREM GraphsAreWellFormed == SpecFactory => []TypeInv
<1>1. InitFactory => FactoryInv
  BY InitFine
<1>2. FactoryInv => TypeInv
  BY DEF FactoryInv
<1> QED BY <1>1, <1>2, StepKeepsFactoryInv, PTL DEF SpecFactory

\* In every graph that comes about, removing a node and bridging what it joined
\* leaves the order of the others as it was, on every track
\* (remove_node_and_bridge_dependencies).
THEOREM BridgesKeepOrder == SpecFactory => []BridgeKeepsOrder
BY GraphsAreWellFormed, BridgeKeeps, PTL

\* Whatever calls were made in whatever order, the created nodes of a factory
\* stand to each other as its caller asked, and in no other order (factory.rs).
THEOREM FactoriesKeepOrder == SpecFactory => []FactoryOrderIsTheAskedOne
<1>1. InitFactory => FactoryInv
  BY InitFine
<1>2. FactoryInv => FactoryOrderIsTheAskedOne
  <2>1. SUFFICES ASSUME Fine(graph, groups, created, gpu_work, asked), NEW t \in Tracks
                 PROVE  Reach(graph.deps[t], IdsIn(graph.usage)) \cap (Created \X Created) = AskedOrder(t)
    BY DEF FactoryInv, FactoryOrderIsTheAskedOne
  <2> DEFINE edges == asked[t] \cup (IF t = "cpu" THEN GroupPairs(groups) ELSE {})
  <2>2. GroupEdges = GroupPairs(groups)
    BY DEF GroupEdges, GroupPairs, GroupIds
  <2>3. Points(groups, created) = created \o FlattenSeq([g \in GroupIds |-> <<Before(g), Behind(g)>>])
    BY DEF Points, GroupIds
  <2>4. AskedOrder(t) = Reach(edges, Points(groups, created)) \cap (ToSet(created) \X ToSet(created))
    BY <2>2, <2>3 DEF AskedOrder, Created
  <2>5. Reach(graph.deps[t], IdsIn(graph.usage)) = Follows(graph, t)
    BY DEF Follows
  <2>6. edges = asked[t] \cup (IF t = "cpu" THEN GroupPairs(groups) ELSE {})
    OBVIOUS
  <2> HIDE DEF edges
  <2>7. Follows(graph, t) \cap (ToSet(created) \X ToSet(created))
          = Reach(edges, Points(groups, created)) \cap (ToSet(created) \X ToSet(created))
    BY <2>1, <2>6, FineOrder
  <2> QED BY <2>4, <2>5, <2>7 DEF Created
<1> QED BY <1>1, <1>2, StepKeepsFactoryInv, PTL DEF SpecFactory

-----------------------------------------------------------------------------
(* Graphs: flattening *)

KahnStates(g) ==
  [left : [Live(g) -> Int], level : [Live(g) -> Nat], ready : Seq(Live(g)), processed : Nat]

LEMMA ThoseIds ==
  ASSUME NEW g, WellFormed(g), NEW set
  PROVE  /\ IdsIn(g.usage) \in Seq(Live(g)) /\ ToSet(IdsIn(g.usage)) = Live(g)
         /\ Those(IdsIn(g.usage), set) \in Seq(Live(g))
         /\ ToSet(Those(IdsIn(g.usage), set)) = Live(g) \cap set
         /\ Distinct(Those(IdsIn(g.usage), set))
<1>1. /\ IdsIn(g.usage) \in Seq(Nat) /\ Distinct(IdsIn(g.usage)) /\ ToSet(IdsIn(g.usage)) = Live(g)
  BY GraphFacts DEF Live
<1>2. IdsIn(g.usage) \in Seq(Live(g))
  <2> DEFINE ids == IdsIn(g.usage)
  <2>1. ids \in Seq(Nat) /\ ToSet(ids) = Live(g)
    BY <1>1
  <2> HIDE DEF ids
  <2>2. \A i \in 1 .. Len(ids) : ids[i] \in Live(g)
    BY <2>1 DEF ToSet
  <2> QED BY <2>1, <2>2 DEF ids
<1> QED BY <1>1, <1>2, ThoseFacts

LEMMA KahnStartType ==
  ASSUME NEW g, WellFormed(g), NEW t \in Tracks
  PROVE  KahnStart(g, t) \in KahnStates(g)
<1>1. IsFiniteSet(Live(g)) /\ \A n : ParentsIn(g, n, t) \subseteq Live(g)
  <2>1. \A n : ParentsIn(g, n, t) \subseteq Live(g)
    BY Neighbours, GraphFacts
  <2>2. IsFiniteSet(Live(g))
    BY ThoseIds, GraphFacts, DistinctLength
  <2> QED BY <2>1, <2>2
<1>2. \A n : Cardinality(ParentsIn(g, n, t)) \in Nat
  BY <1>1, FS_Subset, FS_CardinalityType
<1>3. Those(IdsIn(g.usage), {n \in Live(g) : ParentsIn(g, n, t) = {}}) \in Seq(Live(g))
  BY ThoseIds
<1> QED BY <1>2, <1>3 DEF KahnStart, KahnStates

LEMMA KahnStepType ==
  ASSUME NEW g, WellFormed(g), NEW t \in Tracks, NEW s \in KahnStates(g)
  PROVE  KahnStep(g, t, s) \in KahnStates(g)
<1>1. /\ s.left \in [Live(g) -> Int] /\ s.level \in [Live(g) -> Nat]
      /\ s.ready \in Seq(Live(g)) /\ s.processed \in Nat
  BY DEF KahnStates
<1>2. CASE s.ready = <<>>
  BY <1>2 DEF KahnStep
<1>3. CASE s.ready # <<>>
  <2> DEFINE p == Head(s.ready)
             kids == ChildrenIn(g, p, t)
             left == [n \in Live(g) |-> s.left[n] - (IF n \in kids THEN 1 ELSE 0)]
             level == [n \in Live(g) |->
                         IF n \in kids /\ s.level[n] <= s.level[p] THEN s.level[p] + 1 ELSE s.level[n]]
             more == Those(IdsIn(g.usage), {n \in kids : left[n] = 0})
  <2>1. KahnStep(g, t, s)
          = [left |-> left, level |-> level, ready |-> Tail(s.ready) \o more, processed |-> s.processed + 1]
    BY <1>3 DEF KahnStep
  <2>2. p \in Live(g) /\ Tail(s.ready) \in Seq(Live(g))
    BY <1>1, <1>3
  <2>3. more \in Seq(Live(g))
    BY ThoseIds
  <2> HIDE DEF kids, p, more
  <2>4. left \in [Live(g) -> Int] /\ level \in [Live(g) -> Nat]
    BY <1>1, <2>2
  <2> HIDE DEF left, level
  <2>5. Tail(s.ready) \o more \in Seq(Live(g))
    BY <2>2, <2>3
  <2> QED BY <1>1, <2>1, <2>4, <2>5 DEF KahnStates
<1> QED BY <1>2, <1>3

\* Kahn's algorithm takes a turn for every node.
KahnRun(g, t, F) ==
  /\ F \in [0 .. Len(g.usage) -> KahnStates(g)]
  /\ F[0] = KahnStart(g, t) /\ F[Len(g.usage)] = Kahn(g, t)
  /\ \A k \in 1 .. Len(g.usage) : F[k] = KahnStep(g, t, F[k - 1])

LEMMA KahnRunExist ==
  ASSUME NEW g, WellFormed(g), NEW t \in Tracks
  PROVE  \E F : KahnRun(g, t, F)
<1> DEFINE n == Len(g.usage)
           W == KahnStates(g)
           start == KahnStart(g, t)
           more(v, x) == KahnStep(g, t, v)
           h == [k \in 1 .. n |-> [v \in W |-> more(v, g.usage[k])]]
           It == CHOOSE it : it = [r \in SUBSET (1 .. n) |->
                   IF r = {} THEN start ELSE more(it[r \ {Max(r)}], g.usage[Max(r)])]
<1>1. n \in Nat /\ DOMAIN g.usage = 1 .. n
  BY GraphShape DEF WellFormed
<1>2. start \in W /\ \A k \in 1 .. n : \A v \in W : more(v, g.usage[k]) \in W
  BY KahnStepType, KahnStartType
<1> HIDE DEF n, W, more, start
<1>4. h \in [1 .. n -> [W -> W]]
  BY <1>2
<1>5. \A k \in 1 .. n : \A v \in W : h[k][v] = more(v, g.usage[k])
  OBVIOUS
<1> HIDE DEF h
<1>6. PICK m : FoldEquation(W, start, h, n, m)
  BY <1>1, <1>2, <1>4, FoldExists
<1>7. m = [r \in SUBSET (1 .. n) |->
             IF r = {} THEN start ELSE more(m[r \ {Max(r)}], g.usage[Max(r)])]
  <2>1. ASSUME NEW r \in SUBSET (1 .. n), r # {}
        PROVE  m[r] = more(m[r \ {Max(r)}], g.usage[Max(r)])
    <3>1. Max(r) \in 1 .. n
      BY <1>1, <2>1, MaxFacts
    <3>2. m[r \ {Max(r)}] \in W /\ m[r] = h[Max(r)][m[r \ {Max(r)}]]
      BY <1>6, <2>1 DEF FoldEquation
    <3> QED BY <1>5, <3>1, <3>2
  <2>2. m = [r \in SUBSET (1 .. n) |-> m[r]] /\ m[{}] = start
    BY <1>6 DEF FoldEquation
  <2> QED BY <2>1, <2>2
<1>8. It = [r \in SUBSET (1 .. n) |->
              IF r = {} THEN start ELSE more(It[r \ {Max(r)}], g.usage[Max(r)])]
  BY <1>7, Zenon
<1>9. Kahn(g, t) = It[1 .. n]
  BY <1>1, Zenon DEF Kahn, FoldLeft, MapThenFoldSet, more, start
<1> HIDE DEF It
<1>10. It[{}] = start /\ \A k \in 1 .. n : It[1 .. k] = more(It[1 .. k-1], g.usage[k])
  <2>1. \A k \in 1 .. n : k \in 1 .. k
    BY <1>1
  <2>2. {} \in SUBSET (1 .. n)
    OBVIOUS
  <2>3. \A k \in 1 .. n : 1 .. k \in SUBSET (1 .. n) /\ Max(1 .. k) = k /\ (1 .. k) \ {k} = 1 .. k-1
    BY <1>1, PrefixSets
  <2> QED BY <1>8, <2>1, <2>2, <2>3
<1> DEFINE F == [k \in 0 .. n |-> It[1 .. k]]
<1>11. F[0] = start /\ \A k \in 1 .. n : F[k] = more(F[k - 1], g.usage[k])
  <2>1. 1 .. 0 = {} /\ 0 \in 0 .. n /\ \A k \in 1 .. n : k \in 0 .. n /\ k - 1 \in 0 .. n
    BY <1>1
  <2> QED BY <1>10, <2>1
<1>12. F \in [0 .. n -> W] /\ F[n] = It[1 .. n]
  <2> DEFINE WW == [k \in 0 .. n |-> W]
  <2>1. KeepsWithin(It, WW, n)
    <3>1. 0 \in 0 .. n /\ \A k \in 1 .. n : k \in 0 .. n /\ k - 1 \in 0 .. n
      BY <1>1
    <3> QED BY <1>2, <1>10, <3>1 DEF KeepsWithin
  <2> HIDE DEF WW
  <2>2. ASSUME NEW j \in 0 .. n PROVE It[1 .. j] \in W
    <3>1. j \in Nat /\ \A k \in 1 .. j : k \in 1 .. n
      BY <1>1
    <3>2. KeepsWithin(It, WW, j)
      BY <2>1, <3>1 DEF KeepsWithin
    <3>3. It[1 .. j] \in WW[j]
      BY <3>1, <3>2, FoldWithin
    <3> QED BY <3>3 DEF WW
  <2>3. n \in 0 .. n
    BY <1>1
  <2> QED BY <2>2, <2>3
<1> HIDE DEF F
<1>13. F \in [0 .. n -> W] /\ F[0] = start /\ F[n] = Kahn(g, t) /\ \A k \in 1 .. n : F[k] = more(F[k - 1], g.usage[k])
  BY <1>9, <1>11, <1>12
<1> QED BY <1>13 DEF n, W, more, start, KahnRun

\* Two sequences without repetition and without a common element.
LEMMA DistinctJoined ==
  ASSUME NEW P, NEW a \in Seq(P), NEW b \in Seq(P), Distinct(a), Distinct(b),
         \A x \in ToSet(a) : x \notin ToSet(b)
  PROVE  a \o b \in Seq(P) /\ Distinct(a \o b) /\ ToSet(a \o b) = ToSet(a) \cup ToSet(b)
<1>1. /\ DOMAIN a = 1 .. Len(a) /\ DOMAIN b = 1 .. Len(b) /\ DOMAIN (a \o b) = 1 .. Len(a) + Len(b)
      /\ Len(a) \in Nat /\ Len(b) \in Nat /\ Len(a \o b) = Len(a) + Len(b)
      /\ \A i \in 1 .. Len(a) : (a \o b)[i] = a[i]
      /\ \A i \in 1 .. Len(b) : (a \o b)[Len(a) + i] = b[i]
  OBVIOUS
<1>2. /\ \A i \in 1 .. Len(a) : i \in 1 .. Len(a) + Len(b)
      /\ \A i \in 1 .. Len(b) : Len(a) + i \in 1 .. Len(a) + Len(b)
      /\ \A i \in 1 .. Len(a) + Len(b) :
           i \in 1 .. Len(a) \/ \E j \in 1 .. Len(b) : i = Len(a) + j
  <2>1. \A i \in 1 .. Len(a) + Len(b) : i \notin 1 .. Len(a) =>
          i - Len(a) \in 1 .. Len(b) /\ i = Len(a) + (i - Len(a))
    BY <1>1
  <2>2. ASSUME NEW i \in 1 .. Len(a) + Len(b), i \notin 1 .. Len(a)
        PROVE  \E j \in 1 .. Len(b) : i = Len(a) + j
    BY <2>1, <2>2
  <2>3. \A i \in 1 .. Len(a) : i \in 1 .. Len(a) + Len(b)
    BY <1>1
  <2>4. \A i \in 1 .. Len(b) : Len(a) + i \in 1 .. Len(a) + Len(b)
    BY <1>1
  <2> QED BY <2>2, <2>3, <2>4
<1>3. /\ \A i \in 1 .. Len(a) : a[i] \in ToSet(a)
      /\ \A i \in 1 .. Len(b) : b[i] \in ToSet(b)
  BY <1>1 DEF ToSet
<1>4. \A y : y \in ToSet(a \o b) <=> \E i \in 1 .. Len(a) + Len(b) : (a \o b)[i] = y
  BY <1>1 DEF ToSet
<1>5. \A y : /\ y \in ToSet(a) <=> \E i \in 1 .. Len(a) : a[i] = y
             /\ y \in ToSet(b) <=> \E i \in 1 .. Len(b) : b[i] = y
  BY <1>1 DEF ToSet
<1> DEFINE c == a \o b
<1>6. c \in Seq(P)
  OBVIOUS
<1>7. /\ Len(c) = Len(a) + Len(b)
      /\ \A i \in 1 .. Len(a) : c[i] = a[i]
      /\ \A i \in 1 .. Len(b) : c[Len(a) + i] = b[i]
      /\ \A y : y \in ToSet(c) <=> \E i \in 1 .. Len(a) + Len(b) : c[i] = y
  BY <1>1, <1>4
<1> HIDE DEF c
<1>8. ToSet(c) = ToSet(a) \cup ToSet(b)
  <2>1. ASSUME NEW y \in ToSet(c) PROVE y \in ToSet(a) \cup ToSet(b)
    <3>1. PICK i \in 1 .. Len(a) + Len(b) : c[i] = y
      BY <1>7, <2>1
    <3>2. CASE i \in 1 .. Len(a)
      BY <1>3, <1>7, <3>1, <3>2
    <3>3. CASE i \notin 1 .. Len(a)
      <4>1. PICK j \in 1 .. Len(b) : i = Len(a) + j
        BY <1>2, <3>3
      <4> QED BY <1>3, <1>7, <3>1, <4>1
    <3> QED BY <3>2, <3>3
  <2>2. ASSUME NEW y \in ToSet(a) PROVE y \in ToSet(c)
    BY <1>2, <1>5, <1>7, <2>2
  <2>3. ASSUME NEW y \in ToSet(b) PROVE y \in ToSet(c)
    <3>1. PICK i \in 1 .. Len(b) : b[i] = y
      BY <1>5, <2>3
    <3>2. Len(a) + i \in 1 .. Len(a) + Len(b) /\ c[Len(a) + i] = y
      BY <1>2, <1>7, <3>1
    <3> QED BY <1>7, <3>2
  <2> QED BY <2>1, <2>2, <2>3
<1>9. Distinct(c)
  <2>1. SUFFICES ASSUME NEW i \in 1 .. Len(a) + Len(b), NEW j \in 1 .. Len(a) + Len(b), c[i] = c[j]
                 PROVE  i = j
    BY <1>7 DEF Distinct
  <2>2. CASE i \in 1 .. Len(a) /\ j \in 1 .. Len(a)
    BY <1>7, <2>1, <2>2 DEF Distinct
  <2>3. CASE i \notin 1 .. Len(a) /\ j \notin 1 .. Len(a)
    <3>1. PICK k \in 1 .. Len(b) : i = Len(a) + k
      BY <1>2, <2>3
    <3>2. PICK l \in 1 .. Len(b) : j = Len(a) + l
      BY <1>2, <2>3
    <3>3. b[k] = b[l]
      BY <1>7, <2>1, <3>1, <3>2
    <3> QED BY <3>1, <3>2, <3>3 DEF Distinct
  <2>4. CASE i \in 1 .. Len(a) /\ j \notin 1 .. Len(a)
    <3>1. PICK l \in 1 .. Len(b) : j = Len(a) + l
      BY <1>2, <2>4
    <3> QED BY <1>3, <1>7, <2>1, <2>4, <3>1
  <2>5. CASE i \notin 1 .. Len(a) /\ j \in 1 .. Len(a)
    <3>1. PICK k \in 1 .. Len(b) : i = Len(a) + k
      BY <1>2, <2>5
    <3> QED BY <1>3, <1>7, <2>1, <2>5, <3>1
  <2> QED BY <2>2, <2>3, <2>4, <2>5
<1> QED BY <1>6, <1>8, <1>9 DEF c

LEMMA DistinctTail ==
  ASSUME NEW P, NEW q \in Seq(P), q # <<>>, Distinct(q)
  PROVE  /\ Head(q) \in ToSet(q) /\ Tail(q) \in Seq(P) /\ Distinct(Tail(q))
         /\ ToSet(Tail(q)) = ToSet(q) \ {Head(q)}
<1>1. /\ Len(q) \in Nat /\ Len(q) # 0 /\ DOMAIN q = 1 .. Len(q) /\ Head(q) = q[1]
      /\ Tail(q) \in Seq(P) /\ Len(Tail(q)) = Len(q) - 1 /\ DOMAIN Tail(q) = 1 .. Len(q) - 1
      /\ \A i \in 1 .. Len(q) - 1 : Tail(q)[i] = q[i + 1]
  OBVIOUS
<1>2. /\ 1 \in 1 .. Len(q) /\ \A i \in 1 .. Len(q) - 1 : i + 1 \in 1 .. Len(q) /\ i + 1 # 1
      /\ \A i \in 1 .. Len(q) : i # 1 => i - 1 \in 1 .. Len(q) - 1 /\ (i - 1) + 1 = i
  BY <1>1
<1>3. Distinct(Tail(q))
  BY <1>1, <1>2 DEF Distinct
<1>4. \A y : y \in ToSet(Tail(q)) <=> \E i \in 1 .. Len(q) - 1 : q[i + 1] = y
  BY <1>1 DEF ToSet
<1>5. \A y : y \in ToSet(q) <=> \E i \in 1 .. Len(q) : q[i] = y
  BY <1>1 DEF ToSet
<1>6. ASSUME NEW y \in ToSet(Tail(q)) PROVE y \in ToSet(q) /\ y # q[1]
  <2>1. PICK i \in 1 .. Len(q) - 1 : q[i + 1] = y
    BY <1>4, <1>6
  <2> QED BY <1>2, <1>5, <2>1 DEF Distinct
<1>7. ASSUME NEW y \in ToSet(q), y # q[1] PROVE y \in ToSet(Tail(q))
  <2>1. PICK i \in 1 .. Len(q) : q[i] = y
    BY <1>5, <1>7
  <2>2. i # 1
    BY <1>7, <2>1
  <2> QED BY <1>2, <1>4, <2>1, <2>2
<1> QED BY <1>1, <1>2, <1>3, <1>5, <1>6, <1>7

\* What is known when the nodes of a set are processed.
KahnInv(g, t, s, done) ==
  /\ done \subseteq Live(g) /\ s.processed = Cardinality(done)
  /\ Distinct(s.ready)
  /\ \A n : n \in ToSet(s.ready) <=>
       n \in Live(g) \ done /\ \A p : <<p, n>> \in g.deps[t] => p \in done
  /\ \A n \in done : \A p : <<p, n>> \in g.deps[t] => p \in done
  /\ \A n \in Live(g) : s.left[n] = Cardinality(ParentsIn(g, n, t) \ done)
  /\ \A n \in Live(g) : s.level[n] <= s.processed
  /\ \A p \in done, n \in Live(g) : <<p, n>> \in g.deps[t] => s.level[p] < s.level[n]
  /\ \A n \in Live(g) : s.level[n] # 0 =>
       \E p \in done : <<p, n>> \in g.deps[t] /\ s.level[n] = s.level[p] + 1

LEMMA NodesAreFinite ==
  ASSUME NEW g, WellFormed(g)
  PROVE  IsFiniteSet(Live(g)) /\ Cardinality(Live(g)) = Len(g.usage)
<1>1. /\ IdsIn(g.usage) \in Seq(Nat) /\ Distinct(IdsIn(g.usage)) /\ Len(IdsIn(g.usage)) = Len(g.usage)
      /\ ToSet(IdsIn(g.usage)) = Live(g)
  BY GraphFacts, ThoseIds
<1> QED BY <1>1, DistinctLength

LEMMA KahnStarts ==
  ASSUME NEW g, WellFormed(g), NEW t \in Tracks
  PROVE  KahnInv(g, t, KahnStart(g, t), {})
<1> DEFINE s == KahnStart(g, t)
<1>1. /\ s.processed = 0 /\ \A n \in Live(g) : s.level[n] = 0 /\ s.left[n] = Cardinality(ParentsIn(g, n, t))
      /\ s.ready = Those(IdsIn(g.usage), {n \in Live(g) : ParentsIn(g, n, t) = {}})
  BY DEF KahnStart
<1> HIDE DEF s
<1>2. Distinct(s.ready) /\ ToSet(s.ready) = {n \in Live(g) : ParentsIn(g, n, t) = {}}
  <2> DEFINE set == {n \in Live(g) : ParentsIn(g, n, t) = {}}
             q == Those(IdsIn(g.usage), set)
  <2>1. Distinct(q) /\ ToSet(q) = Live(g) \cap set
    BY ThoseIds
  <2>2. Live(g) \cap set = set
    OBVIOUS
  <2>3. s.ready = q
    BY <1>1
  <2> HIDE DEF q
  <2> QED BY <2>1, <2>2, <2>3
<1>3. \A n : n \in ToSet(s.ready) <=> n \in Live(g) /\ \A p : ~ <<p, n>> \in g.deps[t]
  BY <1>2, Neighbours
<1>4. Cardinality({}) = 0 /\ \A n : ParentsIn(g, n, t) \ {} = ParentsIn(g, n, t)
  BY FS_EmptySet
<1> QED BY <1>1, <1>2, <1>3, <1>4 DEF KahnInv, s

LEMMA KahnSteps ==
  ASSUME NEW g, WellFormed(g), NEW t \in Tracks, NEW s \in KahnStates(g), NEW done,
         KahnInv(g, t, s, done), s.ready # <<>>
  PROVE  /\ KahnInv(g, t, KahnStep(g, t, s), done \cup {Head(s.ready)})
         /\ Head(s.ready) \notin done
<1> DEFINE h == Head(s.ready)
           kids == ChildrenIn(g, h, t)
           left == [n \in Live(g) |-> s.left[n] - (IF n \in kids THEN 1 ELSE 0)]
           level == [n \in Live(g) |->
                       IF n \in kids /\ s.level[n] <= s.level[h] THEN s.level[h] + 1 ELSE s.level[n]]
           more == Those(IdsIn(g.usage), {n \in kids : left[n] = 0})
           now == done \cup {h}
           E == g.deps[t]
           r == KahnStep(g, t, s)
<1>1. /\ s.left \in [Live(g) -> Int] /\ s.level \in [Live(g) -> Nat]
      /\ s.ready \in Seq(Live(g)) /\ s.processed \in Nat
  BY DEF KahnStates
<1>2. r = [left |-> left, level |-> level, ready |-> Tail(s.ready) \o more, processed |-> s.processed + 1]
  BY DEF KahnStep
<1>3. /\ done \subseteq Live(g) /\ s.processed = Cardinality(done)
      /\ Distinct(s.ready)
      /\ \A n : n \in ToSet(s.ready) <=> n \in Live(g) \ done /\ \A p : <<p, n>> \in E => p \in done
      /\ \A n \in done : \A p : <<p, n>> \in E => p \in done
      /\ \A n \in Live(g) : s.left[n] = Cardinality(ParentsIn(g, n, t) \ done)
      /\ \A n \in Live(g) : s.level[n] <= s.processed
      /\ \A p \in done, n \in Live(g) : <<p, n>> \in E => s.level[p] < s.level[n]
      /\ \A n \in Live(g) : s.level[n] # 0 =>
           \E p \in done : <<p, n>> \in E /\ s.level[n] = s.level[p] + 1
  BY DEF KahnInv
<1>4. /\ h \in ToSet(s.ready) /\ Tail(s.ready) \in Seq(Live(g)) /\ Distinct(Tail(s.ready))
      /\ ToSet(Tail(s.ready)) = ToSet(s.ready) \ {h}
  BY <1>1, <1>3, DistinctTail
<1>5. /\ \A n : n \in kids <=> <<h, n>> \in E
      /\ \A n, p : p \in ParentsIn(g, n, t) <=> <<p, n>> \in E
      /\ \A p, n : <<p, n>> \in E => p \in Live(g) /\ n \in Live(g) /\ p # n
  BY Neighbours, GraphFacts
<1> HIDE DEF E, h, kids
<1>6. h \in Live(g) /\ h \notin done /\ \A p : <<p, h>> \in E => p \in done
  BY <1>3, <1>4
<1>7. \A n \in kids : n \in Live(g) /\ n \notin done /\ n # h /\ n \notin ToSet(s.ready)
  <2>1. SUFFICES ASSUME NEW n \in kids
                 PROVE  n \in Live(g) /\ n \notin done /\ n # h /\ n \notin ToSet(s.ready)
    OBVIOUS
  <2>2. <<h, n>> \in E /\ n \in Live(g) /\ n # h
    BY <1>5
  <2> QED BY <1>3, <1>6, <2>2
<1>8. \A n : IsFiniteSet(ParentsIn(g, n, t)) /\ IsFiniteSet(done)
  <2>1. IsFiniteSet(Live(g)) /\ \A n : ParentsIn(g, n, t) \subseteq Live(g)
    BY <1>5, NodesAreFinite
  <2> QED BY <1>3, <2>1, FS_Subset
<1>9. \A n \in Live(g) : left[n] = Cardinality(ParentsIn(g, n, t) \ now)
  <2>1. SUFFICES ASSUME NEW n \in Live(g) PROVE left[n] = Cardinality(ParentsIn(g, n, t) \ now)
    OBVIOUS
  <2> DEFINE rest == ParentsIn(g, n, t) \ done
  <2>2. IsFiniteSet(rest) /\ s.left[n] = Cardinality(rest) /\ s.left[n] \in Int
    <3>1. IsFiniteSet(ParentsIn(g, n, t)) /\ rest \subseteq ParentsIn(g, n, t)
      BY <1>8
    <3>2. IsFiniteSet(rest)
      BY <3>1, FS_Subset
    <3> QED BY <1>1, <1>3, <3>2
  <2>3. ParentsIn(g, n, t) \ now = rest \ {h}
    OBVIOUS
  <2>4. h \in rest <=> n \in kids
    BY <1>5, <1>6
  <2>6. left[n] = s.left[n] - (IF n \in kids THEN 1 ELSE 0)
    OBVIOUS
  <2> HIDE DEF rest, left
  <2>5. Cardinality(rest \ {h}) = IF h \in rest THEN Cardinality(rest) - 1 ELSE Cardinality(rest)
    BY <2>2, FS_RemoveElement
  <2>7. Cardinality(ParentsIn(g, n, t) \ now) = Cardinality(rest \ {h})
    BY <2>3
  <2> DEFINE a == Cardinality(rest)
             b == Cardinality(rest \ {h})
  <2>8. a \in Int /\ s.left[n] = a /\ b = (IF n \in kids THEN a - 1 ELSE a)
    BY <2>2, <2>4, <2>5
  <2>9. left[n] = b
    <3> HIDE DEF a, b
    <3> QED BY <2>6, <2>8
  <2> QED BY <2>7, <2>9
<1>10. \A n \in Live(g) : left[n] = 0 <=> \A p : <<p, n>> \in E => p \in now
  <2>1. SUFFICES ASSUME NEW n \in Live(g) PROVE left[n] = 0 <=> \A p : <<p, n>> \in E => p \in now
    OBVIOUS
  <2>2. IsFiniteSet(ParentsIn(g, n, t) \ now)
    BY <1>8, FS_Subset
  <2>3. left[n] = 0 <=> ParentsIn(g, n, t) \ now = {}
    BY <1>9, <2>2, FS_EmptySet
  <2> QED BY <1>5, <2>3
<1>11. /\ more \in Seq(Live(g)) /\ Distinct(more)
       /\ \A n : n \in ToSet(more) <=> n \in kids /\ \A p : <<p, n>> \in E => p \in now
  <2>1. /\ more \in Seq(Live(g)) /\ Distinct(more)
        /\ ToSet(more) = Live(g) \cap {n \in kids : left[n] = 0}
    BY ThoseIds
  <2> HIDE DEF more, left
  <2> QED BY <1>7, <1>10, <2>1
<1>12. /\ \A n \in Live(g) : level[n] = IF n \in kids /\ s.level[n] <= s.level[h] THEN s.level[h] + 1 ELSE s.level[n]
  OBVIOUS
<1> HIDE DEF left, level, more, r
<1>13. /\ r.left = left /\ r.level = level /\ r.ready = Tail(s.ready) \o more /\ r.processed = s.processed + 1
  BY <1>2
<1>14. /\ Distinct(r.ready) /\ ToSet(r.ready) = ToSet(Tail(s.ready)) \cup ToSet(more)
  <2>1. \A n \in ToSet(Tail(s.ready)) : n \notin ToSet(more)
    BY <1>4, <1>7, <1>11
  <2> DEFINE rest == Tail(s.ready)
  <2>2. rest \in Seq(Live(g)) /\ Distinct(rest) /\ more \in Seq(Live(g)) /\ Distinct(more)
    BY <1>4, <1>11
  <2>3. r.ready = rest \o more
    BY <1>13
  <2>4. \A n \in ToSet(rest) : n \notin ToSet(more)
    BY <2>1
  <2> HIDE DEF rest
  <2>5. Distinct(rest \o more) /\ ToSet(rest \o more) = ToSet(rest) \cup ToSet(more)
    BY <2>2, <2>4, DistinctJoined
  <2> QED BY <2>3, <2>5 DEF rest
<1>15. \A n : n \in ToSet(r.ready) <=> n \in Live(g) \ now /\ \A p : <<p, n>> \in E => p \in now
  <2>1. ASSUME NEW n, n \in ToSet(r.ready)
        PROVE  n \in Live(g) \ now /\ \A p : <<p, n>> \in E => p \in now
    BY <1>3, <1>4, <1>7, <1>11, <1>14, <2>1
  <2>2. ASSUME NEW n, n \in Live(g) \ now, \A p : <<p, n>> \in E => p \in now
        PROVE  n \in ToSet(r.ready)
    <3>1. CASE n \in kids
      BY <1>11, <1>14, <2>2, <3>1
    <3>2. CASE n \notin kids
      <4>1. \A p : <<p, n>> \in E => p \in done
        BY <1>5, <2>2, <3>2
      <4> QED BY <1>3, <1>4, <1>14, <2>2, <4>1
    <3> QED BY <3>1, <3>2
  <2> QED BY <2>1, <2>2
<1>16. r.processed = Cardinality(now) /\ now \subseteq Live(g)
  BY <1>1, <1>3, <1>6, <1>8, <1>13, FS_AddElement
<1>17. \A n \in now : \A p : <<p, n>> \in E => p \in now
  BY <1>3, <1>6
<1>18. \A n \in now : level[n] = s.level[n]
  BY <1>3, <1>6, <1>7, <1>12
<1>19. \A n \in Live(g) : level[n] <= r.processed
  BY <1>1, <1>3, <1>6, <1>12, <1>13
<1>20. ASSUME NEW p \in now, NEW n \in Live(g), <<p, n>> \in E PROVE level[p] < level[n]
  <2>1. CASE p = h
    <3>1. n \in kids
      BY <1>5, <1>20, <2>1
    <3> QED BY <1>1, <1>6, <1>12, <1>18, <2>1, <3>1
  <2>2. CASE p # h
    <3>1. s.level[p] < s.level[n] /\ level[p] = s.level[p] /\ p \in Live(g)
      BY <1>3, <1>18, <1>20, <2>2
    <3>2. s.level[n] <= level[n]
      BY <1>1, <1>6, <1>12
    <3>3. \A m \in Live(g) : s.level[m] \in Nat
      BY <1>1
    <3>4. level[n] \in Nat
      BY <1>6, <1>12, <3>3
    <3> QED BY <3>1, <3>2, <3>3, <3>4
  <2> QED BY <2>1, <2>2
<1>21. ASSUME NEW n \in Live(g), level[n] # 0
       PROVE  \E p \in now : <<p, n>> \in E /\ level[n] = level[p] + 1
  <2>1. CASE n \in kids /\ s.level[n] <= s.level[h]
    <3>1. level[n] = level[h] + 1 /\ <<h, n>> \in E
      BY <1>5, <1>12, <1>18, <2>1
    <3> QED BY <3>1
  <2>2. CASE ~ (n \in kids /\ s.level[n] <= s.level[h])
    <3>1. level[n] = s.level[n]
      BY <1>12, <2>2
    <3>2. PICK p \in done : <<p, n>> \in E /\ s.level[n] = s.level[p] + 1
      BY <1>3, <1>21, <3>1
    <3> QED BY <1>18, <3>1, <3>2
  <2> QED BY <2>1, <2>2
<1>22. KahnInv(g, t, r, now)
  <2> HIDE DEF now
  <2> QED BY <1>9, <1>13, <1>14, <1>15, <1>16, <1>17, <1>19, <1>20, <1>21 DEF KahnInv, E
<1> QED BY <1>6, <1>22 DEF h, r

\* In the end either all nodes are processed or none is ready.
LEMMA KahnEnds ==
  ASSUME NEW g, WellFormed(g), NEW t \in Tracks
  PROVE  LET s == Kahn(g, t) IN
           /\ s \in KahnStates(g)
           /\ \E done : KahnInv(g, t, s, done) /\ (done = Live(g) \/ s.ready = <<>>)
<1> DEFINE n == Len(g.usage)
<1>0. PICK F : KahnRun(g, t, F)
  BY KahnRunExist
<1>1. /\ F \in [0 .. n -> KahnStates(g)] /\ F[0] = KahnStart(g, t) /\ F[n] = Kahn(g, t)
      /\ \A k \in 1 .. n : F[k] = KahnStep(g, t, F[k - 1])
  BY <1>0 DEF KahnRun
<1>2. n \in Nat /\ IsFiniteSet(Live(g)) /\ Cardinality(Live(g)) = n
  BY NodesAreFinite, GraphShape DEF WellFormed
<1> HIDE DEF n
<1> DEFINE T == {k \in Nat : k <= n => \E done : KahnInv(g, t, F[k], done) /\ (F[k].processed = k \/ F[k].ready = <<>>)}
<1>3. 0 \in T
  <2>1. KahnInv(g, t, F[0], {}) /\ F[0].processed = 0
    <3>1. KahnInv(g, t, KahnStart(g, t), {})
      BY KahnStarts
    <3>2. KahnStart(g, t).processed = 0
      BY DEF KahnStart
    <3> QED BY <1>1, <3>1, <3>2
  <2> QED BY <1>2, <2>1
<1>4. ASSUME NEW k \in T PROVE k + 1 \in T
  <2>1. SUFFICES ASSUME k + 1 <= n
                 PROVE  \E done : KahnInv(g, t, F[k + 1], done) /\ (F[k + 1].processed = k + 1 \/ F[k + 1].ready = <<>>)
    BY <1>4
  <2>2. k \in Nat /\ k + 1 \in 1 .. n /\ (k + 1) - 1 = k /\ k \in 0 .. n /\ k <= n
    BY <1>2, <1>4, <2>1
  <2>3. F[k] \in KahnStates(g) /\ F[k + 1] = KahnStep(g, t, F[k])
    BY <1>1, <2>2
  <2>4. PICK done : KahnInv(g, t, F[k], done) /\ (F[k].processed = k \/ F[k].ready = <<>>)
    BY <1>4, <2>2
  <2>5. CASE F[k].ready = <<>>
    <3>1. F[k + 1] = F[k]
      BY <2>3, <2>5 DEF KahnStep
    <3> QED BY <2>4, <2>5, <3>1
  <2>6. CASE F[k].ready # <<>>
    <3>1. KahnInv(g, t, F[k + 1], done \cup {Head(F[k].ready)})
      BY <2>3, <2>4, <2>6, KahnSteps
    <3>2. F[k + 1].processed = F[k].processed + 1
      BY <2>3, <2>6, SMTT(30) DEF KahnStep
    <3> QED BY <2>4, <2>6, <3>1, <3>2
  <2> QED BY <2>5, <2>6
<1> HIDE DEF T
<1>5. T = Nat
  <2>1. T \subseteq Nat
    BY DEF T
  <2> QED BY <1>3, <1>4, <2>1, Reached
<1>6. PICK done : KahnInv(g, t, F[n], done) /\ (F[n].processed = n \/ F[n].ready = <<>>)
  <2>1. n \in T /\ n <= n
    BY <1>2, <1>5
  <2> QED BY <2>1, Zenon DEF T
<1>7. F[n].processed = n => done = Live(g)
  <2>1. done \subseteq Live(g) /\ F[n].processed = Cardinality(done)
    BY <1>6 DEF KahnInv
  <2> QED BY <1>2, <2>1, FS_Subset
<1>8. F[n] \in KahnStates(g)
  BY <1>1, <1>2
<1> QED BY <1>1, <1>6, <1>7, <1>8

\* A level that grows along edges by steps of one is the depth.
LEMMA DepthIs ==
  ASSUME NEW N, NEW edges \in SUBSET (N \X N), NEW bound \in Nat, NEW level \in [N -> Nat],
         \A n \in N : level[n] <= bound,
         \A p, n : <<p, n>> \in edges => level[p] < level[n],
         \A n \in N : level[n] # 0 => \E p : <<p, n>> \in edges /\ level[n] = level[p] + 1
  PROVE  Depth(edges, N) = level
<1> DEFINE parents(n) == {e[1] : e \in {d \in edges : d[2] = n}}
           row(f, n) == IF parents(n) = {} THEN 0 ELSE 1 + Max({f[p] : p \in parents(n)})
           D == CHOOSE f : f = [n \in N |-> row(f, n)]
<1>1. Depth(edges, N) = D
  BY DEF Depth
<1>2. \A p, n : p \in parents(n) <=> <<p, n>> \in edges
  BY EndsOfPairs
<1>3. \A n : parents(n) \subseteq N
  <2>1. SUFFICES ASSUME NEW n, NEW p \in parents(n) PROVE p \in N
    OBVIOUS
  <2>2. <<p, n>> \in edges
    BY <1>2
  <2> QED BY <2>2
<1>4. ASSUME NEW n \in N, NEW f, \A p \in parents(n) : f[p] = level[p] PROVE row(f, n) = level[n]
  <2>1. CASE parents(n) = {}
    <3>1. level[n] = 0
      BY <1>2, <2>1
    <3> QED BY <2>1, <3>1
  <2>2. CASE parents(n) # {}
    <3> DEFINE S == {f[p] : p \in parents(n)}
    <3>1. S \in SUBSET (0 .. bound) /\ S # {}
      BY <1>3, <1>4, <2>2
    <3>2. Max(S) \in S /\ \A k \in S : k <= Max(S)
      BY <3>1, MaxBounds
    <3>3. PICK q \in parents(n) : Max(S) = level[q]
      BY <1>4, <3>2
    <3>4. \A p \in parents(n) : level[p] <= Max(S)
      <4>1. \A p \in parents(n) : f[p] \in S
        OBVIOUS
      <4> HIDE DEF S
      <4> QED BY <1>4, <3>2, <4>1
    <3>5. row(f, n) = 1 + Max(S)
      BY <2>2
    <3> HIDE DEF S, row
    <3>6. level[q] < level[n] /\ level[q] \in Nat /\ level[n] \in Nat
      BY <1>2, <1>3, <3>3
    <3>7. level[n] # 0
      BY <3>6
    <3>8. PICK p : <<p, n>> \in edges /\ level[n] = level[p] + 1
      BY <3>7
    <3>9. p \in parents(n) /\ level[p] \in Nat
      BY <1>2, <1>3, <3>8
    <3>10. level[p] <= level[q]
      BY <3>3, <3>4, <3>9
    <3> QED BY <3>3, <3>5, <3>6, <3>8, <3>9, <3>10
  <2> QED BY <2>1, <2>2
<1> HIDE DEF parents
<1>5. level = [n \in N |-> row(level, n)]
  <2> HIDE DEF row
  <2> QED BY <1>4
<1>6. D = [n \in N |-> row(D, n)]
  BY <1>5, Zenon
<1> HIDE DEF D, row
<1>7. ASSUME NEW m \in N, D[m] # level[m] PROVE FALSE
  <2> DEFINE T == {level[n] : n \in {o \in N : D[o] # level[o]}}
  <2>1. T \subseteq Nat /\ T # {}
    BY <1>7
  <2>2. PICK least \in T : \A k \in T : least <= k
    BY <2>1, LeastExists
  <2>3. PICK n \in N : D[n] # level[n] /\ least = level[n]
    BY <2>2
  <2>4. ASSUME NEW p \in parents(n) PROVE D[p] = level[p]
    <3>1. p \in N /\ level[p] < level[n] /\ level[p] \in Nat /\ level[n] \in Nat
      BY <1>2, <1>3, <2>4
    <3>2. D[p] # level[p] => level[p] \in T
      BY <3>1
    <3>3. level[p] \notin T
      <4> HIDE DEF T
      <4>1. level[p] \in T => level[n] <= level[p]
        BY <2>2, <2>3
      <4> QED BY <3>1, <4>1
    <3> QED BY <3>2, <3>3
  <2>5. row(D, n) = level[n]
    BY <1>4, <2>4
  <2> QED BY <1>6, <2>3, <2>5
<1> QED BY <1>1, <1>6, <1>7

\* The algorithm comes to an end with all nodes exactly when there is no cycle.
LEMMA CyclesAreFound ==
  ASSUME NEW g, WellFormed(g), NEW t \in Tracks
  PROVE  HasCycle(g, t) <=> ~ Acyclic(g.deps[t], IdsIn(g.usage))
<1> DEFINE s == Kahn(g, t)
           C == Follows(g, t)
           E == g.deps[t]
<1>1. PICK done : KahnInv(g, t, s, done) /\ (done = Live(g) \/ s.ready = <<>>)
  BY KahnEnds
<1>2. s \in KahnStates(g)
  BY KahnEnds
<1> HIDE DEF s
<1>3. s.level \in [Live(g) -> Nat] /\ s.ready \in Seq(Live(g))
  BY <1>2 DEF KahnStates
<1>4. /\ done \subseteq Live(g) /\ s.processed = Cardinality(done)
      /\ \A n : n \in ToSet(s.ready) <=>
           n \in Live(g) \ done /\ \A p : <<p, n>> \in E => p \in done
      /\ \A p \in done, n \in Live(g) : <<p, n>> \in E => s.level[p] < s.level[n]
  BY <1>1 DEF KahnInv
<1>5. /\ E \subseteq C /\ C \in SUBSET (Nat \X Nat) /\ Transitive(C)
      /\ \A x, y : <<x, y>> \in C => x \in Live(g) /\ y \in Live(g)
      /\ \A T : E \subseteq T /\ Transitive(T) => C \subseteq T
  BY FollowsIsLeast
<1>6. E \in SUBSET (Nat \X Nat) /\ \A x, y : <<x, y>> \in E => x \in Live(g) /\ y \in Live(g) /\ x # y
  BY GraphFacts
<1>7. IsFiniteSet(Live(g)) /\ Cardinality(Live(g)) = Len(g.usage)
  BY NodesAreFinite
<1>8. HasCycle(g, t) <=> done # Live(g)
  <2>1. HasCycle(g, t) <=> Cardinality(done) # Cardinality(Live(g))
    BY <1>4, <1>7 DEF HasCycle, s
  <2> QED BY <1>4, <1>7, <2>1, FS_Subset
<1>9. Acyclic(E, IdsIn(g.usage)) <=> \A x : <<x, x>> \notin C
  <2>1. Acyclic(E, IdsIn(g.usage)) <=> C = NoSelf(C)
    BY DEF Acyclic, Follows
  <2> HIDE DEF C
  <2>2. C = NoSelf(C) <=> \A x : <<x, x>> \notin C
    <3>1. \A e \in C : e = <<e[1], e[2]>>
      BY <1>5
    <3> QED BY <3>1 DEF NoSelf
  <2> QED BY <2>1, <2>2
<1> HIDE DEF C, E
<1>10. CASE done = Live(g)
  <2> DEFINE T == {e \in Nat \X Nat : e[1] \in Live(g) /\ e[2] \in Live(g) /\ s.level[e[1]] < s.level[e[2]]}
  <2>1. \A x, y : <<x, y>> \in T <=>
          x \in Nat /\ y \in Nat /\ x \in Live(g) /\ y \in Live(g) /\ s.level[x] < s.level[y]
    OBVIOUS
  <2>2. E \subseteq T
    BY <1>4, <1>6, <1>10
  <2> HIDE DEF T
  <2>3. Transitive(T)
    <3>1. SUFFICES ASSUME NEW x, NEW y, NEW z, <<x, y>> \in T, <<y, z>> \in T PROVE <<x, z>> \in T
      BY DEF Transitive
    <3>2. s.level[x] \in Nat /\ s.level[y] \in Nat /\ s.level[z] \in Nat
      BY <1>3, <2>1, <3>1
    <3> QED BY <2>1, <3>1, <3>2
  <2>4. \A x : <<x, x>> \notin T
    BY <1>3, <2>1
  <2>5. \A x : <<x, x>> \notin C
    BY <1>5, <2>2, <2>3, <2>4
  <2> QED BY <1>8, <1>9, <1>10, <2>5 DEF E
<1>11. CASE done # Live(g)
  <2>1. SUFFICES ASSUME \A x : <<x, x>> \notin C PROVE FALSE
    BY <1>8, <1>9, <1>11 DEF E
  <2> DEFINE rest == Live(g) \ done
             below(n) == {m \in Live(g) : <<m, n>> \in C}
             ranks == {Cardinality(below(n)) : n \in rest}
  <2>2. \A n : IsFiniteSet(below(n)) /\ Cardinality(below(n)) \in Nat
    BY <1>7, FS_Subset, FS_CardinalityType
  <2>3. rest # {}
    BY <1>4, <1>11
  <2>4. ranks \subseteq Nat /\ ranks # {}
    BY <2>2, <2>3
  <2>5. PICK least \in ranks : \A k \in ranks : least <= k
    BY <2>4, LeastExists
  <2>6. PICK n \in rest : least = Cardinality(below(n))
    BY <2>5
  <2>7. ToSet(s.ready) = {}
    <3>1. s.ready = <<>>
      BY <1>1, <1>11
    <3> QED BY <3>1 DEF ToSet
  <2>8. PICK p : <<p, n>> \in E /\ p \notin done
    BY <1>4, <2>6, <2>7
  <2>9. p \in rest /\ <<p, n>> \in C
    BY <1>5, <1>6, <2>8
  <2>10. below(p) \subseteq below(n) \ {p} /\ p \in below(n)
    <3>1. p \in below(n) /\ p \notin below(p)
      BY <2>1, <2>9
    <3>2. \A m \in below(p) : m \in below(n)
      BY <1>5, <2>9 DEF Transitive
    <3> QED BY <3>1, <3>2
  <2>11. Cardinality(below(p)) \in ranks
    BY <2>9
  <2> HIDE DEF below, ranks, rest
  <2>12. Cardinality(below(n) \ {p}) = Cardinality(below(n)) - 1 /\ IsFiniteSet(below(n) \ {p})
    BY <2>2, <2>10, FS_RemoveElement
  <2>13. Cardinality(below(p)) <= Cardinality(below(n) \ {p})
    BY <2>10, <2>12, FS_Subset
  <2> DEFINE a == Cardinality(below(p))
             b == Cardinality(below(n))
             c == Cardinality(below(n) \ {p})
  <2>14. a \in Nat /\ b \in Nat /\ c = b - 1 /\ a <= c /\ b <= a
    BY <2>2, <2>5, <2>6, <2>11, <2>12, <2>13
  <2> HIDE DEF a, b, c
  <2> QED BY <2>14
<1> QED BY <1>10, <1>11

\* Earlier elements of a sequence stand before later ones.
Sorted(q, R) == \A i, j \in 1 .. Len(q) : i < j => <<q[i], q[j]>> \in R

LEMMA SortedJoined ==
  ASSUME NEW P, NEW a \in Seq(P), NEW b \in Seq(P), NEW R, Sorted(a, R), Sorted(b, R),
         \A x \in ToSet(a), y \in ToSet(b) : <<x, y>> \in R
  PROVE  Sorted(a \o b, R)
<1> DEFINE c == a \o b
<1>1. /\ DOMAIN a = 1 .. Len(a) /\ DOMAIN b = 1 .. Len(b) /\ Len(a) \in Nat /\ Len(b) \in Nat
      /\ Len(c) = Len(a) + Len(b)
      /\ \A i \in 1 .. Len(a) : c[i] = a[i]
      /\ \A i \in 1 .. Len(b) : c[Len(a) + i] = b[i]
  OBVIOUS
<1>2. \A i \in 1 .. Len(a) + Len(b) : i \notin 1 .. Len(a) =>
        i - Len(a) \in 1 .. Len(b) /\ i = Len(a) + (i - Len(a))
  BY <1>1
<1>3. /\ \A i \in 1 .. Len(a) : a[i] \in ToSet(a)
      /\ \A i \in 1 .. Len(b) : b[i] \in ToSet(b)
  BY <1>1 DEF ToSet
<1> HIDE DEF c
<1>4. SUFFICES ASSUME NEW i \in 1 .. Len(a) + Len(b), NEW j \in 1 .. Len(a) + Len(b), i < j
               PROVE  <<c[i], c[j]>> \in R
  BY <1>1 DEF Sorted, c
<1>5. CASE i \in 1 .. Len(a) /\ j \in 1 .. Len(a)
  BY <1>1, <1>4, <1>5 DEF Sorted
<1>6. CASE i \in 1 .. Len(a) /\ j \notin 1 .. Len(a)
  <2>1. PICK l \in 1 .. Len(b) : j = Len(a) + l
    BY <1>2, <1>6
  <2>2. c[i] = a[i] /\ c[j] = b[l]
    BY <1>1, <1>6, <2>1
  <2> QED BY <1>3, <1>6, <2>2
<1>7. CASE i \notin 1 .. Len(a)
  <2>1. j \notin 1 .. Len(a)
    BY <1>1, <1>4, <1>7
  <2>2. PICK k \in 1 .. Len(b) : i = Len(a) + k
    BY <1>2, <1>7
  <2>3. PICK l \in 1 .. Len(b) : j = Len(a) + l
    BY <1>2, <2>1
  <2>4. k < l /\ c[i] = b[k] /\ c[j] = b[l]
    BY <1>1, <1>4, <2>2, <2>3
  <2> QED BY <2>4 DEF Sorted
<1> QED BY <1>5, <1>6, <1>7

\* By level and, on a level, by the order of the ids.
Earlier(ids, level) ==
  {e \in Nat \X Nat : \/ level[e[1]] < level[e[2]]
                      \/ level[e[1]] = level[e[2]] /\ Position(ids, e[1]) < Position(ids, e[2])}

LEMMA EarlierPairs ==
  ASSUME NEW ids, NEW level, NEW x \in Nat, NEW y \in Nat
  PROVE  <<x, y>> \in Earlier(ids, level) <=>
           \/ level[x] < level[y]
           \/ level[x] = level[y] /\ Position(ids, x) < Position(ids, y)
BY DEF Earlier

\* Those of a level stand in the order of the ids.
LEMMA RowSorted ==
  ASSUME NEW g, WellFormed(g), NEW level, NEW l, NEW set,
         \A n \in Live(g) : n \in set => level[n] = l
  PROVE  Sorted(Those(IdsIn(g.usage), set), Earlier(IdsIn(g.usage), level))
<1> DEFINE ids == IdsIn(g.usage)
           r == Those(ids, set)
<1>1. ids \in Seq(Nat) /\ Distinct(ids) /\ Live(g) \subseteq Nat
  BY GraphFacts
<1>2. r \in Seq(Live(g)) /\ ToSet(r) = Live(g) \cap set
  BY ThoseIds
<1> HIDE DEF r, ids
<1>3. PICK f : Picks(r, ids, Len(ids), set, f)
  BY <1>1, ThosePick DEF r
<1>4. /\ f \in [1 .. Len(r) -> 1 .. Len(ids)]
      /\ \A i, j \in 1 .. Len(r) : i < j => f[i] < f[j]
      /\ \A i \in 1 .. Len(r) : r[i] = ids[f[i]]
  BY <1>3 DEF Picks
<1>5. \A i \in 1 .. Len(r) : r[i] \in Live(g) /\ r[i] \in set
  <2>1. DOMAIN r = 1 .. Len(r)
    BY <1>2
  <2> QED BY <1>2, <2>1 DEF ToSet
<1>6. \A i \in 1 .. Len(r) : Position(ids, r[i]) = f[i]
  BY <1>1, <1>4, PositionFacts
<1>7. ASSUME NEW i \in 1 .. Len(r), NEW j \in 1 .. Len(r), i < j
      PROVE  <<r[i], r[j]>> \in Earlier(ids, level)
  <2>1. level[r[i]] = l /\ level[r[j]] = l /\ r[i] \in Nat /\ r[j] \in Nat
    BY <1>1, <1>5
  <2>2. Position(ids, r[i]) < Position(ids, r[j])
    BY <1>4, <1>6, <1>7
  <2> QED BY <2>1, <2>2, EarlierPairs
<1> QED BY <1>7 DEF Sorted, r, ids

Rows(g, level) ==
  [l \in 1 .. Len(g.usage) + 1 |->
     Those(IdsIn(g.usage), {n \in Live(g) : level[n] = l - 1})]

\* Level by level, every live node stands once and where it should.
LEMMA RowsFacts ==
  ASSUME NEW g, WellFormed(g), NEW level \in [Live(g) -> Nat],
         \A n \in Live(g) : level[n] <= Len(g.usage)
  PROVE  LET order == FlattenSeq(Rows(g, level)) IN
           /\ order \in Seq(Live(g)) /\ Distinct(order)
           /\ ToSet(order) = Live(g) /\ Len(order) = Len(g.usage)
           /\ Sorted(order, Earlier(IdsIn(g.usage), level))
<1> DEFINE rows == Rows(g, level)
           N == Len(g.usage)
           L == Live(g)
           ids == IdsIn(g.usage)
           R == Earlier(ids, level)
<1>1. /\ N \in Nat /\ ids \in Seq(Nat) /\ Distinct(ids) /\ L \subseteq Nat
      /\ IsFiniteSet(L) /\ Cardinality(L) = N
  BY GraphFacts, NodesAreFinite, GraphShape DEF WellFormed
<1>2. ASSUME NEW k \in 1 .. N + 1
      PROVE  /\ rows[k] \in Seq(L) /\ ToSet(rows[k]) = {n \in L : level[n] = k - 1}
             /\ Distinct(rows[k]) /\ Sorted(rows[k], R)
  <2> DEFINE set == {n \in L : level[n] = k - 1}
  <2>1. rows[k] = Those(ids, set)
    BY DEF Rows
  <2>2. \A n \in Live(g) : n \in set => level[n] = k - 1
    OBVIOUS
  <2>3. L \cap set = set
    OBVIOUS
  <2> HIDE DEF set, rows
  <2>4. Sorted(Those(ids, set), R)
    BY <2>2, RowSorted
  <2>5. Those(ids, set) \in Seq(L) /\ ToSet(Those(ids, set)) = L \cap set /\ Distinct(Those(ids, set))
    BY ThoseIds
  <2> QED BY <2>1, <2>3, <2>4, <2>5 DEF set
<1>3. rows \in Seq(Seq(L)) /\ Len(rows) = N + 1
  <2>1. DOMAIN rows = 1 .. N + 1 /\ rows = [k \in 1 .. N + 1 |-> rows[k]] /\ N + 1 \in Nat
    BY <1>1 DEF Rows
  <2> HIDE DEF rows, N, L
  <2>2. rows \in [1 .. N + 1 -> Seq(L)]
    BY <1>2, <2>1
  <2> QED BY <2>1, <2>2
<1>4. PICK F : Leading(L, rows, F)
  BY <1>3, LeadingExist
<1>5. /\ F \in [0 .. N + 1 -> Seq(L)] /\ F[0] = <<>>
      /\ \A k \in 1 .. N + 1 : F[k] = F[k - 1] \o rows[k]
  BY <1>3, <1>4 DEF Leading
<1>6. FlattenSeq(rows) = F[N + 1]
  BY <1>3, <1>4, FlattenFacts
<1> HIDE DEF rows, N, L, ids, R
<1> DEFINE T == {k \in Nat : k <= N + 1 =>
                   /\ Distinct(F[k]) /\ Sorted(F[k], R)
                   /\ ToSet(F[k]) = {n \in L : level[n] < k}}
<1>7. level \in [L -> Nat] /\ \A n \in L : level[n] \in Nat /\ level[n] < N + 1
  <2>1. level \in [L -> Nat] /\ \A n \in L : level[n] <= N
    BY DEF L, N
  <2> QED BY <1>1, <2>1
<1>8. 0 \in T
  <2>1. Distinct(<<>>) /\ Sorted(<<>>, R) /\ ToSet(<<>>) = {}
    BY DEF Distinct, Sorted, ToSet
  <2>2. {n \in L : level[n] < 0} = {}
    BY <1>7
  <2> QED BY <1>5, <2>1, <2>2
<1>9. ASSUME NEW k \in T PROVE k + 1 \in T
  <2>1. SUFFICES ASSUME k + 1 <= N + 1
                 PROVE  /\ Distinct(F[k + 1]) /\ Sorted(F[k + 1], R)
                        /\ ToSet(F[k + 1]) = {n \in L : level[n] < k + 1}
    BY <1>9
  <2>2. k \in Nat /\ k + 1 \in 1 .. N + 1 /\ (k + 1) - 1 = k /\ k \in 0 .. N + 1 /\ k <= N + 1
    BY <1>1, <1>9, <2>1
  <2>3. /\ F[k] \in Seq(L) /\ Distinct(F[k]) /\ Sorted(F[k], R)
        /\ ToSet(F[k]) = {n \in L : level[n] < k}
    BY <1>5, <1>9, <2>2
  <2>4. /\ rows[k + 1] \in Seq(L) /\ Distinct(rows[k + 1]) /\ Sorted(rows[k + 1], R)
        /\ ToSet(rows[k + 1]) = {n \in L : level[n] = k}
    BY <1>2, <2>2
  <2>5. F[k + 1] = F[k] \o rows[k + 1]
    BY <1>5, <2>2
  <2> HIDE DEF T
  <2> DEFINE a == F[k]
             b == rows[k + 1]
  <2>6. /\ a \in Seq(L) /\ b \in Seq(L) /\ Distinct(a) /\ Distinct(b) /\ Sorted(a, R) /\ Sorted(b, R)
        /\ ToSet(a) = {n \in L : level[n] < k} /\ ToSet(b) = {n \in L : level[n] = k}
        /\ F[k + 1] = a \o b
    BY <2>3, <2>4, <2>5
  <2> HIDE DEF a, b
  <2>7. \A x \in ToSet(a) : x \notin ToSet(b)
    BY <1>7, <2>2, <2>6
  <2>8. \A x \in ToSet(a), y \in ToSet(b) : <<x, y>> \in R
    <3>1. SUFFICES ASSUME NEW x \in ToSet(a), NEW y \in ToSet(b) PROVE <<x, y>> \in R
      OBVIOUS
    <3>2. x \in Nat /\ y \in Nat /\ level[x] < level[y]
      BY <1>1, <2>6, <3>1
    <3> QED BY <3>2, EarlierPairs DEF R
  <2>9. Distinct(a \o b) /\ ToSet(a \o b) = ToSet(a) \cup ToSet(b)
    BY <2>6, <2>7, DistinctJoined
  <2>10. Sorted(a \o b, R)
    BY <2>6, <2>8, SortedJoined
  <2>11. {n \in L : level[n] < k + 1} = {n \in L : level[n] < k} \cup {n \in L : level[n] = k}
    BY <1>7, <2>2
  <2> QED BY <2>6, <2>9, <2>10, <2>11
<1> HIDE DEF T
<1>10. T = Nat
  <2>1. T \subseteq Nat
    BY DEF T
  <2> QED BY <1>8, <1>9, <2>1, Reached
<1>11. /\ F[N + 1] \in Seq(L) /\ Distinct(F[N + 1]) /\ Sorted(F[N + 1], R)
       /\ ToSet(F[N + 1]) = {n \in L : level[n] < N + 1}
  <2>1. N + 1 \in T /\ N + 1 <= N + 1 /\ N + 1 \in 0 .. N + 1
    BY <1>1, <1>10
  <2> DEFINE M == N + 1
  <2> HIDE DEF M
  <2>2. M \in T /\ M <= N + 1
    BY <2>1 DEF M
  <2>3. Distinct(F[M]) /\ Sorted(F[M], R) /\ ToSet(F[M]) = {n \in L : level[n] < M}
    BY <2>2 DEF T
  <2> QED BY <1>5, <2>1, <2>3 DEF M
<1>12. ToSet(F[N + 1]) = L
  BY <1>7, <1>11
<1>13. Len(F[N + 1]) = N
  BY <1>1, <1>11, <1>12, DistinctLength
<1> QED BY <1>6, <1>11, <1>12, <1>13 DEF rows, L, N, R, ids

\* Without a cycle the flattening is by the longest way to a node.
LEMMA FlattenedIsByDepth ==
  ASSUME NEW g, WellFormed(g), NEW t \in Tracks, ~HasCycle(g, t)
  PROVE  /\ ByDepth(Flattened(g, t), g.deps[t], IdsIn(g.usage))
         /\ ValidFlattening(g, t, Flattened(g, t))
<1> DEFINE s == Kahn(g, t)
           L == Live(g)
           E == g.deps[t]
           ids == IdsIn(g.usage)
           order == Flattened(g, t)
<1>1. PICK done : KahnInv(g, t, s, done) /\ (done = L \/ s.ready = <<>>)
  BY KahnEnds
<1>2. s \in KahnStates(g)
  BY KahnEnds
<1>3. order = FlattenSeq(Rows(g, s.level))
  BY DEF Flattened, Rows
<1>4. s.processed = Len(g.usage)
  BY DEF HasCycle
<1> HIDE DEF s, order
<1>5. s.level \in [L -> Nat]
  BY <1>2 DEF KahnStates
<1>6. /\ done \subseteq L /\ s.processed = Cardinality(done)
      /\ \A n \in L : s.level[n] <= s.processed
      /\ \A p \in done, n \in L : <<p, n>> \in E => s.level[p] < s.level[n]
      /\ \A n \in L : s.level[n] # 0 => \E p \in done : <<p, n>> \in E /\ s.level[n] = s.level[p] + 1
  BY <1>1 DEF KahnInv
<1>7. done = L
  <2>1. IsFiniteSet(L) /\ Cardinality(L) = Len(g.usage)
    BY NodesAreFinite
  <2> QED BY <1>4, <1>6, <2>1, FS_Subset
<1>8. /\ E \in SUBSET (L \X L) /\ L \subseteq Nat /\ Len(g.usage) \in Nat
      /\ \A p, n : <<p, n>> \in E => p \in L /\ n \in L
  <2>1. g.deps[t] \in SUBSET (Nat \X Nat) /\ \A p, n : <<p, n>> \in g.deps[t] => p \in Live(g) /\ n \in Live(g)
    BY GraphFacts
  <2>2. g.deps[t] \subseteq Live(g) \X Live(g)
    BY DEF WellFormed
  <2> QED BY <2>1, <2>2, GraphFacts, GraphShape DEF WellFormed
<1>9. ToSet(ids) = L /\ Len(ids) = Len(g.usage)
  BY ThoseIds, GraphFacts
<1> DEFINE level == s.level
<1>10. /\ level \in [L -> Nat] /\ \A n \in L : level[n] <= Len(g.usage)
       /\ \A p, n : <<p, n>> \in E => level[p] < level[n]
       /\ \A n \in L : level[n] # 0 => \E p : <<p, n>> \in E /\ level[n] = level[p] + 1
  BY <1>4, <1>5, <1>6, <1>7, <1>8
<1>11. order = FlattenSeq(Rows(g, level))
  BY <1>3
<1> HIDE DEF level, L, E, ids
<1>12. Depth(E, L) = level
  BY <1>8, <1>10, DepthIs
<1>13. /\ order \in Seq(L) /\ Distinct(order) /\ ToSet(order) = L /\ Len(order) = Len(g.usage)
       /\ Sorted(order, Earlier(ids, level))
  BY <1>10, <1>11, RowsFacts DEF L, ids
<1>14. /\ DOMAIN order = 1 .. Len(order) /\ \A i \in 1 .. Len(order) : order[i] \in L /\ order[i] \in Nat
  <2>1. DOMAIN order = 1 .. Len(order) /\ \A i \in 1 .. Len(order) : order[i] \in L
    BY <1>13
  <2>2. L \subseteq Nat
    BY <1>8
  <2> QED BY <2>1, <2>2
<1>15. ASSUME NEW i \in 1 .. Len(order), NEW j \in 1 .. Len(order), i < j
       PROVE  \/ level[order[i]] < level[order[j]]
              \/ /\ level[order[i]] = level[order[j]]
                 /\ Position(ids, order[i]) < Position(ids, order[j])
  BY <1>13, <1>14, <1>15, EarlierPairs DEF Sorted
<1>16. ByDepth(order, E, ids)
  BY <1>9, <1>12, <1>13, <1>14, <1>15 DEF ByDepth
<1>17. ASSUME NEW p, NEW n, <<p, n>> \in E PROVE Position(order, p) < Position(order, n)
  <2>1. p \in L /\ n \in L /\ level[p] < level[n] /\ level[p] \in Nat /\ level[n] \in Nat
    BY <1>8, <1>10, <1>17
  <2>2. PICK i \in 1 .. Len(order) : order[i] = p
    BY <1>13, <1>14, <2>1 DEF ToSet
  <2>3. PICK j \in 1 .. Len(order) : order[j] = n
    BY <1>13, <1>14, <2>1 DEF ToSet
  <2>4. Position(order, p) = i /\ Position(order, n) = j
    BY <1>13, <2>2, <2>3, PositionFacts
  <2>5. i # j /\ ~ (j < i)
    BY <1>15, <2>1, <2>2, <2>3
  <2>6. i \in Nat /\ j \in Nat
    OBVIOUS
  <2> QED BY <2>4, <2>5, <2>6
<1>18. ValidFlattening(g, t, order)
  <2>1. \A e \in E : e = <<e[1], e[2]>>
    BY <1>8
  <2>2. \A e \in E : Position(order, e[1]) < Position(order, e[2])
    BY <1>17, <2>1
  <2>3. \A i, j \in DOMAIN order : order[i] = order[j] => i = j
    BY <1>13, <1>14 DEF Distinct
  <2> QED BY <1>13, <2>2, <2>3 DEF ValidFlattening, L, E
<1> QED BY <1>16, <1>18 DEF order, E, ids

-----------------------------------------------------------------------------
(* Graphs: building the flow groups *)

InDepthOrder(g) ==
  g.built => \A t \in Tracks : ByDepth(g.flat[t], g.deps[t], IdsIn(g.usage))

LEMMA HelperKindsAre ==
  ASSUME NEW g, WellFormed(g)
  PROVE  Helpers(g) = <<>> <=> \A i \in DOMAIN g.usage : g.usage[i].kind \in {"stage", "unique"}
<1>1. /\ DOMAIN g.usage = 1 .. Len(g.usage)
      /\ \A i \in 1 .. Len(g.usage) : g.usage[i] \in Node
  BY GraphShape DEF WellFormed
<1>2. Helpers(g) \in Seq(Node) /\ ToSet(Helpers(g)) = HelperNodes(g)
  BY HelpersFacts
<1>3. Helpers(g) = <<>> <=> HelperNodes(g) = {}
  <2>1. PICK q \in Seq(Node) : q = Helpers(g)
    BY <1>2
  <2>2. q = <<>> => ToSet(q) = {}
    BY DEF ToSet
  <2>3. q # <<>> => q[1] \in ToSet(q)
    <3>1. q # <<>> => 1 \in DOMAIN q
      OBVIOUS
    <3> QED BY <3>1 DEF ToSet
  <2> QED BY <1>2, <2>1, <2>2, <2>3
<1>4. \A x \in Node : x.kind \notin HelperKinds <=> x.kind \in {"stage", "unique"}
  BY DEF Node, Kinds, HelperKinds
<1>5. HelperNodes(g) = {} <=> \A i \in 1 .. Len(g.usage) : g.usage[i].kind \notin HelperKinds
  BY <1>1 DEF HelperNodes, ToSet
<1> QED BY <1>1, <1>3, <1>4, <1>5

\* What building makes of a graph that is not built yet.
LEMMA FlowGroupsDecide ==
  ASSUME NEW g, WellFormed(g), ~g.built
  PROVE  /\ InDepthOrder(WithFlowGroups(g))
         /\ WithFlowGroups(g).built <=>
              /\ \A i \in DOMAIN g.usage : g.usage[i].kind \in {"stage", "unique"}
              /\ \A t \in Tracks : Acyclic(g.deps[t], IdsIn(g.usage))
<1> DEFINE order == [t \in Tracks |-> Flattened(g, t)]
           valid == \A t \in Tracks : ValidFlattening(g, t, order[t])
           h == WithFlowGroups(g)
           fails == Helpers(g) # <<>> \/ \E t \in Tracks : HasCycle(g, t)
<1>1. fails <=> ~ /\ \A i \in DOMAIN g.usage : g.usage[i].kind \in {"stage", "unique"}
                  /\ \A t \in Tracks : Acyclic(g.deps[t], IdsIn(g.usage))
  BY CyclesAreFound, HelperKindsAre
<1>2. CASE fails
  <2>1. h = g
    BY <1>2 DEF WithFlowGroups
  <2> QED BY <1>1, <1>2, <2>1 DEF InDepthOrder
<1>3. CASE ~fails
  <2>1. \A t \in Tracks : ~HasCycle(g, t)
    BY <1>3
  <2>2. valid
    BY <2>1, FlattenedIsByDepth
  <2>3. \A t \in Tracks : ByDepth(order[t], g.deps[t], IdsIn(g.usage))
    BY <2>1, FlattenedIsByDepth
  <2>4. h = [g EXCEPT !.flat = order, !.frozen = valid, !.built = valid]
    BY <1>3 DEF WithFlowGroups
  <2>5. g \in Graph
    BY DEF WellFormed
  <2> HIDE DEF order, valid, h, fails
  <2>6. h.flat = order /\ h.built /\ h.deps = g.deps /\ h.usage = g.usage
    BY <2>2, <2>4, <2>5 DEF Graph
  <2>7. InDepthOrder(h)
    BY <2>3, <2>6 DEF InDepthOrder
  <2> QED BY <1>1, <1>3, <2>6, <2>7 DEF h
<1> QED BY <1>2, <1>3

\* Links change no more than dependencies, anchors no more than nodes.
LEMMA LinkedOnly ==
  ASSUME NEW g, WellFormed(g), NEW t, NEW edges
  PROVE  link_nodes(g, t, edges).frozen = g.frozen
<1>1. g \in Graph
  BY DEF WellFormed
<1> QED BY <1>1 DEF Graph, link_nodes

LEMMA LinkFreezesNot ==
  ASSUME Fine(graph, groups, created, gpu_work, asked), Link
  PROVE  graph'.frozen = graph.frozen
<1>1. WellFormed(graph)
  BY DEF Fine
<1>2. ASSUME NEW t, NEW edges, NEW order, LinkCreated(t, edges, order) PROVE graph'.frozen = graph.frozen
  BY <1>1, <1>2, LinkedOnly DEF LinkCreated
<1>3. CASE link_created_order_gpu_chain \/ link_created_order_cpu_chain
  BY <1>2, <1>3 DEF link_created_order_gpu_chain, link_created_order_cpu_chain
<1>4. ASSUME NEW n \in Created, link_cpu_to_later_gpu_work(n) \/ link_cpu_from_earlier_gpu_work(n)
      PROVE  graph'.frozen = graph.frozen
  BY <1>2, <1>4 DEF link_cpu_to_later_gpu_work, link_cpu_from_earlier_gpu_work
<1>5. ASSUME NEW n \in Created, NEW matching \in Matchings,
             \/ link_matching_to_node(n, "cpu", matching)
             \/ link_node_to_matching(n, "cpu", matching)
      PROVE  graph'.frozen = graph.frozen
  BY <1>2, <1>5 DEF link_matching_to_node, link_node_to_matching
<1>6. ASSUME NEW n \in Created, NEW group \in GroupIds, link_node_to_group(n, group)
      PROVE  graph'.frozen = graph.frozen
  <2> DEFINE s == ensure_group_entry(Here, group)
  <2>1. s = ensure_group_entry([graph |-> graph, groups |-> groups, anchor |-> NoNode], group)
    BY DEF Here
  <2>2. graph' = link_nodes(s.graph, "cpu", {<<n, s.anchor>>})
    BY <1>6 DEF link_node_to_group
  <2> HIDE DEF s
  <2>3. Fine(s.graph, s.groups, created, gpu_work, asked) /\ s.graph.frozen = graph.frozen
    BY <2>1, FineEntry DEF GroupIds
  <2> QED BY <2>2, <2>3, LinkedOnly DEF Fine
<1>7. ASSUME NEW n \in Created, NEW group \in GroupIds, link_group_to_node(group, n)
      PROVE  graph'.frozen = graph.frozen
  <2> DEFINE s == ensure_group_exit(Here, group)
  <2>1. s = ensure_group_exit([graph |-> graph, groups |-> groups, anchor |-> NoNode], group)
    BY DEF Here
  <2>2. graph' = link_nodes(s.graph, "cpu", {<<s.anchor, n>>})
    BY <1>7 DEF link_group_to_node
  <2> HIDE DEF s
  <2>3. Fine(s.graph, s.groups, created, gpu_work, asked) /\ s.graph.frozen = graph.frozen
    BY <2>1, FineExit DEF GroupIds
  <2> QED BY <2>2, <2>3, LinkedOnly DEF Fine
<1>8. ASSUME NEW parent \in GroupIds, NEW child \in GroupIds, link_group_to_group(parent, child)
      PROVE  graph'.frozen = graph.frozen
  <2> DEFINE e == ensure_group_exit(Here, parent)
             s == ensure_group_entry(e, child)
  <2>1. e = ensure_group_exit([graph |-> graph, groups |-> groups, anchor |-> NoNode], parent)
    BY DEF Here
  <2>2. graph' = link_nodes(s.graph, "cpu", {<<e.anchor, s.anchor>>})
    BY <1>8 DEF link_group_to_group
  <2>3. parent \in DOMAIN groups /\ child \in DOMAIN groups
    BY DEF GroupIds
  <2> DEFINE f == e
  <2> HIDE DEF f
  <2>4. f = ensure_group_exit([graph |-> graph, groups |-> groups, anchor |-> NoNode], parent)
    BY <2>1 DEF f
  <2>5. /\ Fine(f.graph, f.groups, created, gpu_work, asked) /\ f.graph.frozen = graph.frozen
        /\ f = [graph |-> f.graph, groups |-> f.groups, anchor |-> f.anchor]
        /\ DOMAIN f.groups = DOMAIN groups
    BY <2>3, <2>4, FineExit
  <2>6. s = ensure_group_entry([graph |-> f.graph, groups |-> f.groups, anchor |-> f.anchor], child)
    BY <2>5 DEF f
  <2> HIDE DEF s
  <2>7. Fine(s.graph, s.groups, created, gpu_work, asked) /\ s.graph.frozen = f.graph.frozen
    BY <2>3, <2>5, <2>6, FineEntry
  <2> QED BY <2>2, <2>5, <2>7, LinkedOnly DEF Fine
<1> QED BY <1>3, <1>4, <1>5, <1>6, <1>7, <1>8 DEF Link

LEMMA FactoryFreezes ==
  ASSUME FactoryInv, Factory
  PROVE  ~graph.frozen /\ (graph'.frozen = graph.frozen \/ graph' = WithFlowGroups(graph))
<1>1. Authoring => ~graph.frozen /\ Fine(graph, groups, created, gpu_work, asked)
  BY DEF Authoring, FactoryInv
<1>2. CASE create_group \/ end_command_list_group
  BY <1>1, <1>2 DEF create_group, end_command_list_group
<1>3. ASSUME NEW group \in GroupIds, NEW work, AddCreated(group, work)
      PROVE  ~graph.frozen /\ graph'.frozen = graph.frozen
  <2> DEFINE s == CHOOSE t \in Subtypes : TRUE
             h == add_node_to_group(Allocate(graph, "stage", s), group, graph.slots)
  <2>1. Authoring /\ graph' = h
    BY <1>3 DEF AddCreated
  <2>2. s \in Subtypes /\ group \in DOMAIN groups
    BY TracksAssumption DEF GroupIds
  <2> HIDE DEF s
  <2>3. h.frozen = graph.frozen
    BY <1>1, <2>1, <2>2, FineMember
  <2> QED BY <1>1, <2>1, <2>3
<1>4. CASE Link
  <2>1. Authoring
    BY <1>4 DEF Link, link_created_order_gpu_chain, link_created_order_cpu_chain,
                link_cpu_to_later_gpu_work, link_cpu_from_earlier_gpu_work,
                link_matching_to_node, link_node_to_matching, link_node_to_group,
                link_group_to_node, link_group_to_group, LinkCreated, Linking
  <2> QED BY <1>1, <1>4, <2>1, LinkFreezesNot
<1>5. CASE finish
  BY <1>1, <1>5 DEF finish
<1>6. \/ create_group
      \/ \E group \in GroupIds, work \in BOOLEAN : AddCreated(group, work)
      \/ \E group \in GroupIds : AddCreated(group, TRUE)
      \/ end_command_list_group \/ Link \/ finish
  BY DEF Factory, create_boxed_node, begin_command_list_group
<1> QED BY <1>2, <1>3, <1>4, <1>5, <1>6

LEMMA AddGraphFreezesNot ==
  ASSUME TypeInv, NEW source, WellFormed(source), NEW merge \in BOOLEAN, AddGraph(source, merge)
  PROVE  ~graph.frozen /\ graph'.frozen = graph.frozen
<1>1. /\ WellFormed(graph) /\ ~graph.frozen /\ graph' = AddedGraph(graph, source, merge)
      /\ merge => SequencesImportable(graph) /\ SequencesImportable(source)
  BY DEF TypeInv, AddGraph
<1> QED BY <1>1, AddedFacts

LEMMA EditFreezesNot ==
  ASSUME TypeInv, Edit
  PROVE  ~graph.frozen /\ graph'.frozen = graph.frozen
<1>1. WellFormed(graph) /\ graph \in Graph
  BY DEF TypeInv, WellFormed
<1>2. Editable \subseteq Live(graph)
  BY DEF Editable
<1>3. ASSUME NEW kind \in AuthoredKinds, NEW s \in EditedSubtypes, AddNode(kind, s)
      PROVE  ~graph.frozen /\ graph'.frozen = graph.frozen
  <2>1. kind \in Kinds /\ s \in Subtypes
    BY BoundsAssumption
  <2> QED BY <1>1, <1>3, <2>1, AllocateFacts DEF AddNode
<1>4. ASSUME NEW t, NEW p, NEW c, AddDependency(t, p, c)
      PROVE  ~graph.frozen /\ graph'.frozen = graph.frozen
  BY <1>1, <1>4 DEF AddDependency, Graph
<1>5. ASSUME NEW t, NEW e, RemoveDependency(t, e)
      PROVE  ~graph.frozen /\ graph'.frozen = graph.frozen
  BY <1>1, <1>5 DEF RemoveDependency, Graph
<1>6. ASSUME NEW n \in Editable, RemoveNode(n)
      PROVE  ~graph.frozen /\ graph'.frozen = graph.frozen
  BY <1>1, <1>2, <1>6, RemovedFacts DEF RemoveNode
<1>7. ASSUME NEW n \in Editable, RemoveNodeAndBridge(n)
      PROVE  ~graph.frozen /\ graph'.frozen = graph.frozen
  BY <1>1, <1>2, <1>7, BridgedFacts DEF RemoveNodeAndBridge
<1> QED BY <1>3, <1>4, <1>5, <1>6, <1>7 DEF Edit

\* A graph is frozen, with the same nodes and dependencies, or built, or it was
\* open before and after.
LEMMA StepFreezes ==
  ASSUME FactoryInv, NextGraph
  PROVE  \/ ~graph.frozen /\ ~graph'.frozen
         \/ ~graph.frozen /\ graph' = WithFlowGroups(graph)
         \/ graph' = [graph EXCEPT !.frozen = TRUE]
<1>1. TypeInv
  BY DEF FactoryInv
<1>2. CASE Factory
  BY <1>2, FactoryFreezes
<1>3. CASE Client
  <2>1. EditOrMerge
    BY <1>3 DEF Client
  <2>2. CASE Edit
    BY <1>1, <2>2, EditFreezesNot
  <2>3. CASE MergeSpecialNodes
    <3>1. WellFormed(graph) /\ ~graph.frozen /\ graph' = MergedSpecial(graph) /\ SequencesPaired(graph)
      BY <1>1, <2>3 DEF TypeInv, MergeSpecialNodes
    <3>2. \A s \in Subtypes : PairedIn(graph, s)
      BY <3>1, GuardsPair
    <3> QED BY <3>1, <3>2, SpecialMergedFacts
  <2>4. ASSUME NEW source \in Sources, NEW merge \in BOOLEAN, AddGraph(source, merge)
        PROVE  ~graph.frozen /\ ~graph'.frozen
    <3>1. WellFormed(source)
      BY SourcesAssumption
    <3> QED BY <1>1, <2>4, <3>1, AddGraphFreezesNot
  <2>5. CASE FreezeTopology
    BY <2>5 DEF FreezeTopology
  <2>6. CASE BuildFlowGroups
    BY <2>6 DEF BuildFlowGroups
  <2> QED BY <2>1, <2>2, <2>3, <2>4, <2>5, <2>6 DEF EditOrMerge
<1>4. ASSUME NEW source \in CameraGraphs, NEW merge \in BOOLEAN,
             import_camera_setup_graph_to_final(source, merge)
      PROVE  ~graph.frozen /\ ~graph'.frozen
  <2>1. WellFormed(source) /\ AddGraph(source, merge)
    BY <1>4, FactoryAssumption DEF import_camera_setup_graph_to_final
  <2> QED BY <1>1, <2>1, AddGraphFreezesNot
<1> QED BY <1>2, <1>3, <1>4 DEF NextGraph

LEMMA StepKeepsBuiltOrder ==
  FactoryInv /\ BuiltOrderIsByDepth /\ [NextGraph]_authorVars => BuiltOrderIsByDepth'
<1> SUFFICES ASSUME FactoryInv, InDepthOrder(graph), [NextGraph]_authorVars PROVE InDepthOrder(graph')
  BY DEF BuiltOrderIsByDepth, InDepthOrder
<1>1. WellFormed(graph) /\ WellFormed(graph')
  BY StepKeepsFactoryInv DEF FactoryInv, TypeInv
<1>2. ~graph.frozen => ~graph.built
  BY <1>1 DEF WellFormed
<1>3. CASE ~graph'.frozen
  BY <1>1, <1>3 DEF WellFormed, InDepthOrder
<1>4. CASE ~graph.frozen /\ graph' = WithFlowGroups(graph)
  BY <1>1, <1>2, <1>4, FlowGroupsDecide
<1>5. CASE graph' = [graph EXCEPT !.frozen = TRUE]
  <2>1. graph \in Graph
    BY <1>1 DEF WellFormed
  <2>2. /\ graph'.built = graph.built /\ graph'.flat = graph.flat
        /\ graph'.deps = graph.deps /\ graph'.usage = graph.usage
    BY <1>5, <2>1 DEF Graph
  <2> QED BY <2>2 DEF InDepthOrder
<1>6. CASE graph' = graph
  BY <1>6
<1> QED BY <1>3, <1>4, <1>5, <1>6, StepFreezes DEF authorVars

\* Building the flow groups of a graph succeeds exactly when no helper is left
\* and no track has a cycle, and what is built then orders every live node by
\* the longest chain of dependencies that leads to it (build_flow_groups,
\* build_flattening_for_kind): for graphs of any size and shape.
THEOREM FlowGroupsAreAlwaysRight == SpecFactory => []FlowGroupsAreRight
<1>1. InitFactory => FactoryInv /\ BuiltOrderIsByDepth
  <2>1. InitFactory => BuiltOrderIsByDepth
    BY DEF InitFactory, InitGraph, EmptyGraph, BuiltOrderIsByDepth
  <2> QED BY <2>1, InitFine
<1>2. FactoryInv /\ BuiltOrderIsByDepth => FlowGroupsAreRight
  <2> SUFFICES ASSUME FactoryInv, BuiltOrderIsByDepth PROVE FlowGroupsAreRight
    OBVIOUS
  <2>1. TypeInv /\ WellFormed(graph)
    BY DEF FactoryInv, TypeInv
  <2>2. ~graph.frozen => ~graph.built
    BY <2>1 DEF WellFormed
  <2>3. BuildDecides
    BY <2>1, <2>2, FlowGroupsDecide DEF BuildDecides
  <2> QED BY <2>1, <2>3 DEF FlowGroupsAreRight
<1> QED BY <1>1, <1>2, StepKeepsFactoryInv, StepKeepsBuiltOrder, PTL DEF SpecFactory

=============================================================================
