--------------------------- MODULE CameraStorage ---------------------------
(***************************************************************************)
(* The render world's cameras (camera/camera_storage.rs): the registry     *)
(* with its dependencies, the cameras extraction leaves to be submitted,   *)
(* and the selection, ordering and history of the cameras of one frame.    *)
(*                                                                         *)
(* The storage is only ever used by the thread that runs the render        *)
(* schedule, so each operation is one step.  A camera keeps of its data    *)
(* what the code decides by: its order, its target and its index among the *)
(* cameras of that target.  Of the flags of a dependency the two that the  *)
(* storage itself reads are kept, and a prepared history is told by the    *)
(* tick at which it was written.                                           *)
(***************************************************************************)
EXTENDS Integers, Sequences, FiniteSets, SequencesExt, FiniteSetsExt

CONSTANTS
  SceneCameras,   \* the cameras extraction may deliver
  Helpers,        \* the cameras only the render side registers
  Order,          \* the order of each camera
  Target,         \* the target of each camera
  NoTarget,
  MAX_CAMERA_DEPENDENCIES, MAX_CAMERA_DEPENDENCY_DEPTH,
  TEMPORAL_CAMERA_GRACE_TICKS, TEMPORAL_RENDER_FLOW_SPACE_START

Cameras == SceneCameras \cup Helpers
Unprepared == -1   \* last_prepared: None

ASSUME CamerasAssumption ==
  /\ Cameras \subseteq Nat /\ IsFiniteSet(Cameras)
  /\ SceneCameras \cap Helpers = {}
  /\ Order \in [Cameras -> Int]
  /\ DOMAIN Target = Cameras
ASSUME LimitsAssumption ==
  {MAX_CAMERA_DEPENDENCIES, MAX_CAMERA_DEPENDENCY_DEPTH,
   TEMPORAL_CAMERA_GRACE_TICKS, TEMPORAL_RENDER_FLOW_SPACE_START} \subseteq Nat

VARIABLES
  registry,     \* the entries of the registered cameras
  extracted,    \* the cameras the last extraction found active
  submitted,    \* submitted_cameras, in the order they are submitted
  selected,     \* selected_cameras of the last frame prepared
  update_tick

storage == <<registry, extracted, submitted, selected, update_tick>>

Flags == {"TEMPORARY", "TEMPORARY_REQUESTED"}
Managements == {"Permanent", "Temporal"}
Policies == {"OnDemand", "Always"}

Entry ==
  [target_view_index : Nat, management : Managements, render_policy : Policies,
   render_flow_space : Nat, enabled : BOOLEAN, last_update_tick : Nat,
   dependencies : UNION {[D -> SUBSET Flags] : D \in SUBSET Cameras},
   last_prepared : Nat \cup {Unprepared}]

TypeOK ==
  /\ DOMAIN registry \subseteq Cameras
  /\ \A c \in DOMAIN registry : registry[c] \in Entry
  /\ extracted \subseteq SceneCameras
  /\ ToSet(submitted) \subseteq SceneCameras
  /\ ToSet(selected) \subseteq Cameras
  /\ update_tick \in Nat

Init ==
  /\ registry = <<>>
  /\ extracted = {}
  /\ submitted = <<>>
  /\ selected = <<>>
  /\ update_tick = 0

---------------------------------------------------------------------------
(* The registry *)

Dependencies(reg, c) == DOMAIN reg[c].dependencies

\* The cameras that c reaches over dependencies.
Below(reg, c) ==
  LET step[n \in Nat] ==
        IF n = 0 THEN Dependencies(reg, c)
        ELSE step[n - 1] \cup
             UNION {Dependencies(reg, d) : d \in step[n - 1] \cap DOMAIN reg}
  IN step[Cardinality(Cameras)]

has_dependency(reg, parent, child) ==
  parent \in DOMAIN reg /\ child \in Below(reg, parent)

allocate_render_flow_space(reg, management) ==
  LET start == IF management = "Permanent" THEN 0 ELSE TEMPORAL_RENDER_FLOW_SPACE_START
      used == {reg[c].render_flow_space : c \in DOMAIN reg}
  IN Min((start .. start + Cardinality(used)) \ used)

\* A camera registered again keeps its flow space and its dependencies; all
\* else starts over, its history included.
register_camera(reg, c, index, management, policy) ==
  LET known == c \in DOMAIN reg
      entry == [target_view_index |-> index, management |-> management,
                render_policy |-> policy, enabled |-> TRUE,
                render_flow_space |->
                  IF known THEN reg[c].render_flow_space
                  ELSE allocate_render_flow_space(reg, management),
                last_update_tick |-> update_tick,
                dependencies |-> IF known THEN reg[c].dependencies ELSE <<>>,
                last_prepared |-> Unprepared]
  IN [d \in DOMAIN reg \cup {c} |-> IF d = c THEN entry ELSE reg[d]]

\* Mutant of remove_all_dependencies_to: the dependencies stay.
KeepDependenciesTo(reg, gone) == reg

remove_all_dependencies_to(reg, gone) ==
  [c \in DOMAIN reg |->
     [reg[c] EXCEPT !.dependencies = Restrict(@, DOMAIN @ \ gone)]]

unregister_cameras(reg, gone) ==
  remove_all_dependencies_to(Restrict(reg, DOMAIN reg \ gone), gone)

\* What the selection keeps when cameras are gone.
StillSelected(gone) ==
  FoldLeft(LAMBDA kept, c : IF c \in gone THEN kept ELSE Append(kept, c), <<>>, selected)

add_camera_dependency(reg, parent, child, management) ==
  IF \/ parent = child \/ ~ {parent, child} \subseteq DOMAIN reg
     \/ has_dependency(reg, child, parent)
     \/ /\ child \notin Dependencies(reg, parent)
        /\ Cardinality(Dependencies(reg, parent)) >= MAX_CAMERA_DEPENDENCIES
  THEN reg
  ELSE [reg EXCEPT ![parent].dependencies =
          [d \in DOMAIN @ \cup {child} |->
             IF d # child THEN @[d] ELSE IF management = "Temporal" THEN Flags ELSE {}]]

remove_camera_dependency(reg, parent, child) ==
  IF parent \notin DOMAIN reg THEN reg
  ELSE [reg EXCEPT ![parent].dependencies = Restrict(@, DOMAIN @ \ {child})]

---------------------------------------------------------------------------
(* Submission *)

\* Extraction order: order, then target, then entity.
SubmittedBefore(a, b) ==
  \/ Order[a] < Order[b]
  \/ /\ Order[a] = Order[b]
     /\ \/ Target[a] < Target[b]
        \/ Target[a] = Target[b] /\ a < b

\* The one sequence of the cameras in that order.
Submissions(cams) ==
  {s \in SetToSeqs(cams) : \A j, k \in DOMAIN s : j < k => SubmittedBefore(s[j], s[k])}

\* The index of the k-th submitted camera among those of its target.  The code
\* counts those of a target that agree in hdr; the model's cameras all do.
TargetViewIndex(sub, k) ==
  IF Target[sub[k]] = NoTarget THEN 0
  ELSE Cardinality({j \in 1 .. k - 1 : Target[sub[j]] = Target[sub[k]]})

\* The registry after the submitted cameras are registered one by one.
Registered(sub) ==
  FoldLeftDomain(LAMBDA reg, k :
    register_camera(reg, sub[k], TargetViewIndex(sub, k), "Permanent", "OnDemand"),
    registry, sub)

sync_extracted_cameras ==
  \E sub \in Submissions(extracted) :
    LET registered == Registered(sub)
        stale == {c \in DOMAIN registered :
                    registered[c].management = "Permanent" /\ c \notin extracted}
    IN /\ submitted' = sub
       /\ registry' = unregister_cameras(registered, stale)
       /\ selected' = StillSelected(stale)
       /\ UNCHANGED <<extracted, update_tick>>

---------------------------------------------------------------------------
(* The cameras of a frame *)

\* Mutant of FlushDependencies: what was requested is forgotten first.
ForgetThenFlush(deps) ==
  [d \in {e \in DOMAIN deps : "TEMPORARY" \notin deps[e]} |->
     deps[d] \ {"TEMPORARY_REQUESTED"}]

FlushDependencies(deps) ==
  [d \in {e \in DOMAIN deps : "TEMPORARY" \in deps[e] => "TEMPORARY_REQUESTED" \in deps[e]} |->
     deps[d] \ {"TEMPORARY_REQUESTED"}]

StaleTemporals(reg) ==
  {c \in DOMAIN reg :
     /\ reg[c].management = "Temporal"
     /\ reg[c].last_update_tick > 0
     /\ reg[c].last_update_tick + TEMPORAL_CAMERA_GRACE_TICKS < update_tick}

flush_temporal_state(reg, flush_temporaries) ==
  LET flushed == IF ~ flush_temporaries THEN reg
                 ELSE [c \in DOMAIN reg |->
                         [reg[c] EXCEPT !.dependencies = FlushDependencies(@)]]
  IN unregister_cameras(flushed, StaleTemporals(flushed))

\* The least number of dependencies between a camera and a root of the frame,
\* one more than the limit when there is none.
resolve_dependency_depths(reg, requested) ==
  LET far == MAX_CAMERA_DEPENDENCY_DEPTH + 1
      roots == {c \in DOMAIN reg :
                  reg[c].enabled /\ (reg[c].render_policy = "Always" \/ c \in requested)}
      round[n \in Nat] ==
        IF n = 0 THEN [c \in DOMAIN reg |-> IF c \in roots THEN 0 ELSE far]
        ELSE [c \in DOMAIN reg |->
                Min({round[n - 1][c]} \cup
                    {round[n - 1][p] + 1 : p \in {q \in DOMAIN reg : c \in Dependencies(reg, q)}})]
  IN round[Cardinality(Cameras)]

\* Mutant of select_cameras: a disabled camera is selected when a camera of the
\* frame depends on it.
SelectDisabled(reg, requested) ==
  LET depth == resolve_dependency_depths(reg, requested)
  IN {c \in DOMAIN reg : depth[c] <= MAX_CAMERA_DEPENDENCY_DEPTH}

select_cameras(reg, requested) ==
  LET depth == resolve_dependency_depths(reg, requested)
  IN {c \in DOMAIN reg : reg[c].enabled /\ depth[c] <= MAX_CAMERA_DEPENDENCY_DEPTH}

\* The comparison of sort_selected_cameras: the direct dependencies decide
\* before the order does.
SortsBefore(reg, left, right) ==
  IF right \in Dependencies(reg, left) THEN FALSE
  ELSE IF left \in Dependencies(reg, right) THEN TRUE
  ELSE \/ Order[left] < Order[right]
       \/ /\ Order[left] = Order[right]
          /\ \/ reg[left].target_view_index < reg[right].target_view_index
             \/ reg[left].target_view_index = reg[right].target_view_index /\ left < right

\* sort_by sorts short sequences by insertion: an element moves left until
\* one that it does not sort before.
Insert(reg, sorted, c) ==
  LET stops == {j \in DOMAIN sorted : ~ SortsBefore(reg, c, sorted[j])}
  IN InsertAt(sorted, Max(stops \cup {0}) + 1, c)

\* The selection starts in the order of a hash map, which is any order.
sort_selected_cameras(reg, chosen) ==
  {FoldLeft(LAMBDA sorted, c : Insert(reg, sorted, c), <<>>, s) : s \in SetToSeqs(chosen)}

View(reg, c, chosen, stable_frame) ==
  [camera_id |-> c,
   render_flow_space |-> reg[c].render_flow_space,
   selected_dependencies |-> Dependencies(reg, c) \cap chosen,
   reset_temporal_history |-> stable_frame \/ reg[c].last_prepared = Unprepared,
   previous_frame |-> reg[c].last_prepared]

\* The registry the cameras of a frame are selected from.
Flushed(flush_temporaries) == flush_temporal_state(registry, flush_temporaries)

\* Mutant of prepare_frame_cameras: the history of every camera moves on, shown
\* in this frame or not.
PrepareEveryCamera(requested, flush_temporaries, stable_frame, views) ==
  LET reg == Flushed(flush_temporaries)
      chosen == select_cameras(reg, requested)
  IN /\ selected' \in sort_selected_cameras(reg, chosen)
     /\ views = [i \in DOMAIN selected' |-> View(reg, selected'[i], chosen, stable_frame)]
     /\ registry' = [c \in DOMAIN reg |-> [reg[c] EXCEPT !.last_prepared = update_tick]]
     /\ update_tick' = update_tick + 1
     /\ UNCHANGED <<extracted, submitted>>

prepare_frame_cameras(requested, flush_temporaries, stable_frame, views) ==
  LET reg == Flushed(flush_temporaries)
      chosen == select_cameras(reg, requested)
  IN /\ selected' \in sort_selected_cameras(reg, chosen)
     /\ views = [i \in DOMAIN selected' |-> View(reg, selected'[i], chosen, stable_frame)]
     /\ registry' = [c \in DOMAIN reg |->
                       IF c \in chosen THEN [reg[c] EXCEPT !.last_prepared = update_tick]
                       ELSE reg[c]]
     /\ update_tick' = update_tick + 1
     /\ UNCHANGED <<extracted, submitted>>
=============================================================================
