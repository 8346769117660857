------------------------------ MODULE GpuScene ------------------------------
(***************************************************************************)
(* The renderer's table of proxies (scene/gpu_scene.rs): slots that are    *)
(* reused under a new generation, the inputs of the current and of the     *)
(* previous frame, and their upload in the Prepare stage                   *)
(* (scene/rendering_preprocessing.rs, rendering/buffer_uploaders.rs).      *)
(*                                                                         *)
(* An input is what the phases look at, the link to the previous input,    *)
(* and the asset, mesh or material, which the proxy keeps as well.         *)
(* Transform, color and tag are kept in the input alone, as the shadow     *)
(* flag is, and are left out.                                              *)
(***************************************************************************)
EXTENDS SparseUploads, Functions

CONSTANTS
    Assets,              \* asset ids; 0 is none
    Descriptors,         \* the descriptors proxies are made from
    Generations,         \* bound: 2^32 in the code
    MaxSlots,            \* bound: slots of the scene
    MaxChanges           \* bound: calls of the scene's methods

Kinds == {"Opaque", "Sky"}

ASSUME SceneAssumption ==
    /\ 0 \notin Assets /\ Generations \in Nat \ {0}
    /\ MaxSlots \in Nat /\ MaxChanges \in Nat
    /\ Descriptors \subseteq [kind: Kinds, visible: BOOLEAN, casts_shadows: BOOLEAN,
                               asset: Assets \cup {0}]
    /\ Zero = [kind |-> "Opaque", visible |-> FALSE, shadows |-> FALSE,
               asset |-> 0, previous |-> 0]

VARIABLES
    proxies,      \* of each slot: its proxy, or none
    live_proxy_count,
    slots,        \* the slot allocator: generations, allocated, free
    current,      \* current_inputs
    previous,     \* previous_inputs
    jobs,         \* SparseBufferUpdateJobs
    supported,    \* whether the device has the sparse update pipeline
    stage,        \* what of the Prepare stage comes next
    held,         \* history: what each live id was last given
    issued,       \* history: the ids that were handed out, in order
    changes       \* history: how many calls were made

sceneVars == <<proxies, live_proxy_count, slots, held, issued, changes>>
vars == <<sceneVars, current, previous, jobs, supported, stage>>

Inputs == [kind: Kinds, visible: BOOLEAN, shadows: BOOLEAN, asset: Assets \cup {0},
           previous: 0..MaxSlots]
Ids == [slot: 0..MaxSlots-1, generation: 0..Generations-1]
Proxies == [id: Ids, asset: Assets \cup {0}]
NoProxy == [id |-> [slot |-> MaxSlots, generation |-> 0], asset |-> 0]

TypeOK ==
    /\ proxies \in Seq(Proxies \cup {NoProxy})
    /\ live_proxy_count \in 0..MaxSlots
    /\ DOMAIN slots.generations = DOMAIN slots.allocated
    /\ slots.free \in Seq(0..MaxSlots-1)
    /\ current \in Table(Inputs) /\ previous \in Table(Inputs)
    /\ issued \in Seq(Ids) /\ DOMAIN held \subseteq Range(issued)

Init ==
    /\ proxies = <<>> /\ live_proxy_count = 0
    /\ slots = [generations |-> <<>>, allocated |-> <<>>, free |-> <<>>]
    /\ current = NewTable /\ previous = NewTable
    /\ jobs = <<>> /\ supported \in BOOLEAN /\ stage = "upload"
    /\ held = <<>> /\ issued = <<>> /\ changes = 0

-----------------------------------------------------------------------------
(* The slot allocator.                                                     *)

(* The id allocate returns: the slot freed last, or a new one.             *)
NextId ==
    IF slots.free # <<>>
    THEN LET slot == slots.free[Len(slots.free)]
         IN  [slot |-> slot, generation |-> slots.generations[slot + 1]]
    ELSE [slot |-> Len(slots.generations), generation |-> 0]

allocate ==
    IF slots.free # <<>>
    THEN [slots EXCEPT !.free = SubSeq(@, 1, Len(@) - 1),
                       !.allocated[NextId.slot + 1] = TRUE]
    ELSE [slots EXCEPT !.generations = Append(@, 0),
                       !.allocated = Append(@, TRUE)]

\* Mutant of release: the slot comes back under the same generation.
ReleaseSameGeneration(id) ==
    LET at == id.slot + 1
    IN  IF /\ at \in DOMAIN slots.generations /\ slots.allocated[at]
           /\ slots.generations[at] = id.generation
        THEN [slots EXCEPT !.allocated[at] = FALSE, !.free = Append(@, id.slot)]
        ELSE slots

release(id) ==
    LET at == id.slot + 1
    IN  IF /\ at \in DOMAIN slots.generations /\ slots.allocated[at]
           /\ slots.generations[at] = id.generation
        THEN [slots EXCEPT !.allocated[at] = FALSE,
                           !.generations[at] = (@ + 1) % Generations,
                           !.free = Append(@, id.slot)]
        ELSE slots

-----------------------------------------------------------------------------
(* The scene's methods.                                                    *)

contains_proxy(id) ==
    id.slot + 1 \in DOMAIN proxies /\ proxies[id.slot + 1].id = id

from_descriptor(d) ==
    [kind |-> d.kind, visible |-> d.visible, shadows |-> d.casts_shadows,
     asset |-> d.asset, previous |-> 0]

Change == /\ stage = "upload" /\ changes < MaxChanges
          /\ changes' = changes + 1
          /\ UNCHANGED <<jobs, supported, stage>>

(* ensure_slot: every table has the slot.                                  *)
ensure_slot(slot) == Resized(proxies, Max({Len(proxies), slot + 1}), NoProxy)

(* A slot that holds another proxy refuses this one.                       *)
upsert_proxy(proxy) ==
    LET at == proxy.id.slot + 1
        ensured == ensure_slot(proxy.id.slot)
    IN  IF ensured[at] = NoProxy
        THEN /\ proxies' = [ensured EXCEPT ![at] = proxy]
             /\ live_proxy_count' = live_proxy_count + 1
        ELSE /\ proxies' = IF ensured[at].id = proxy.id
                           THEN [ensured EXCEPT ![at] = proxy] ELSE ensured
             /\ UNCHANGED live_proxy_count

allocate_proxy(input) ==
    LET id == NextId
    IN  /\ Change /\ id.slot < MaxSlots
        /\ slots' = allocate
        /\ upsert_proxy([id |-> id, asset |-> input.asset])
        /\ current' = set(grow(current, id.slot + 1), id.slot, input)
        /\ previous' = grow(previous, id.slot + 1)
        /\ issued' = Append(issued, id)
        /\ held' = [i \in DOMAIN held \cup {id} |->
                      IF i = id THEN input ELSE held[i]]

AllocateProxy ==
    \E descriptor \in Descriptors: allocate_proxy(from_descriptor(descriptor))

clear_current_input_slot(slot) == set(current, slot, Zero)

(* The id may be of a proxy removed before.                                *)
remove_proxy(id) ==
    /\ Change
    /\ IF contains_proxy(id)
       THEN /\ proxies' = [proxies EXCEPT ![id.slot + 1] = NoProxy]
            /\ live_proxy_count' = live_proxy_count - 1
            /\ slots' = release(id)
            /\ current' = clear_current_input_slot(id.slot)
       ELSE UNCHANGED <<proxies, live_proxy_count, slots, current>>
    /\ held' = [i \in DOMAIN held \ {id} |-> held[i]]
    /\ UNCHANGED <<previous, issued>>

update_current_input_slot(id, input) ==
    IF contains_proxy(id) THEN set(current, id.slot, input) ELSE current

(* What the setters make of an input.                                      *)
set_visibility(input) == {[input EXCEPT !.visible = b]: b \in BOOLEAN}
set_casts_shadows(input) == {[input EXCEPT !.shadows = b]: b \in BOOLEAN}
set_kind(input) == {[input EXCEPT !.kind = k]: k \in Kinds}

Told(id, input) ==
    held' = IF id \in DOMAIN held THEN [held EXCEPT ![id] = input] ELSE held

SetInput(id) ==
    /\ Change /\ id.slot + 1 \in DOMAIN current.values
    /\ LET input == current.values[id.slot + 1]
       IN  \E updated \in set_visibility(input) \cup set_casts_shadows(input)
                  \cup set_kind(input):
              /\ current' = update_current_input_slot(id, updated)
              /\ Told(id, updated)
    /\ UNCHANGED <<proxies, live_proxy_count, slots, previous, issued>>

(* set_mesh_asset_id and set_material_asset_id change the proxy, and the   *)
(* input if there was one to change.                                       *)
set_asset_id(id, asset) ==
    /\ Change /\ id.slot + 1 \in DOMAIN current.values
    /\ LET input == [current.values[id.slot + 1] EXCEPT !.asset = asset]
       IN  /\ proxies' = IF contains_proxy(id)
                         THEN [proxies EXCEPT ![id.slot + 1].asset = asset]
                         ELSE proxies
           /\ current' = update_current_input_slot(id, input)
           /\ Told(id, input)
    /\ UNCHANGED <<live_proxy_count, slots, previous, issued>>

(* Every live input is copied, with the link to its slot.                  *)
Snapshot(i) ==
    IF proxies[i] = NoProxy THEN Zero
    ELSE [current.values[i] EXCEPT !.previous = i]

snapshot_previous_inputs ==
    LET n == Len(current.values)
        sized == IF Len(previous.values) < n THEN grow(previous, n)
                 ELSE truncate(previous, n)
    IN  /\ Change
        /\ previous' = set_all(sized, [i \in 1..n |-> Snapshot(i)])
        /\ UNCHANGED <<proxies, live_proxy_count, slots, current, held, issued>>

-----------------------------------------------------------------------------
(* The Prepare stage.                                                      *)

Job(name, pages) == IF pages = {} THEN <<>> ELSE <<[table |-> name, pages |-> pages]>>

(* prepare_gpu_scene_input_uploads.                                        *)
write_and_prepare_input_buffers ==
    /\ stage = "upload"
    /\ LET c == write_buffers(current, supported)
           p == write_buffers(previous, supported)
       IN  /\ jobs' = jobs \o Job("current", c.staged) \o Job("previous", p.staged)
           /\ current' = finish_sparse_job_preparation(c)
           /\ previous' = finish_sparse_job_preparation(p)
    /\ stage' = "dispatch"
    /\ UNCHANGED <<sceneVars, supported>>

PagesOf(name) == UNION {jobs[k].pages: k \in {j \in DOMAIN jobs: jobs[j].table = name}}

run_sparse_buffer_update_jobs ==
    /\ stage = "dispatch"
    /\ jobs' = <<>>
    /\ IF supported
       THEN /\ current' = [current EXCEPT !.gpu = Scattered(@, PagesOf("current"))]
            /\ previous' = [previous EXCEPT !.gpu = Scattered(@, PagesOf("previous"))]
       ELSE UNCHANGED <<current, previous>>
    /\ stage' = "upload"
    /\ UNCHANGED <<sceneVars, supported>>

Next == \/ AllocateProxy
        \/ \E id \in Range(issued):
              \/ remove_proxy(id) \/ SetInput(id)
              \/ \E asset \in Assets \cup {0}: set_asset_id(id, asset)
        \/ snapshot_previous_inputs
        \/ write_and_prepare_input_buffers
        \/ run_sparse_buffer_update_jobs

Spec == Init /\ [][Next]_vars

-----------------------------------------------------------------------------
(* The phases (GpuSceneFakeGpuEmulation).                                  *)

Phases == {"Opaque", "AlphaMask", "Transparent", "Shadow", "Deferred", "Prepass"}

proxy_participates_in_phase(phase, input) ==
    \/ /\ phase \in {"Opaque", "Deferred", "Prepass"}
       /\ input.visible /\ input.kind = "Opaque"
    \/ phase = "Shadow" /\ input.visible /\ input.shadows

build_phase_instance_indices(phase) ==
    {i \in 0..Len(current.values)-1:
       proxy_participates_in_phase(phase, current.values[i + 1])}

(* What a frame takes along of the scene (FrameGpuScene), but its buffers. *)
from_gpu_scene ==
    [live_proxy_count |-> live_proxy_count, slot_capacity |-> Len(proxies),
     current_input_count |-> Len(current.values),
     previous_input_count |-> Len(previous.values)]

-----------------------------------------------------------------------------
(* Properties.                                                             *)

(* The scene is the map from ids to inputs its callers see: no id is       *)
(* handed out twice; an id names the proxy it was handed out for until     *)
(* that is removed, and nothing ever after, though its slot is given to    *)
(* others; no two share a slot; a slot without proxy holds nothing, so     *)
(* that the phases show just the live ones.  Proxy and input agree on the  *)
(* assets, a new proxy finds its slot free, and what a frame takes along   *)
(* counts the same slots in every table.                                   *)
SceneIsItsProxies ==
    /\ TypeOK
    /\ IsInjective(issued)
    /\ \A id \in Range(issued): contains_proxy(id) <=> id \in DOMAIN held
    /\ \A id \in DOMAIN held:
          /\ current.values[id.slot + 1] = held[id]
          /\ proxies[id.slot + 1].asset = held[id].asset
    /\ NextId.slot + 1 \in DOMAIN proxies => proxies[NextId.slot + 1] = NoProxy
    /\ LET frame == from_gpu_scene
       IN  /\ frame.live_proxy_count = Cardinality(DOMAIN held)
           /\ {frame.current_input_count, frame.previous_input_count}
                 = {frame.slot_capacity}
    /\ \A i \in DOMAIN current.values:
          (\A id \in DOMAIN held: id.slot + 1 # i) => current.values[i] = Zero
    /\ \A phase \in Phases:
          LET shown == {id \in DOMAIN held: proxy_participates_in_phase(phase, held[id])}
          IN  /\ build_phase_instance_indices(phase) = {id.slot: id \in shown}
              /\ Cardinality(build_phase_instance_indices(phase)) = Cardinality(shown)

(* A value that differs from its copy in the GPU buffer is on its way      *)
(* there: the table is to be uploaded whole, its page is dirty, or a job   *)
(* carries the page, in its latest state.  So after a Prepare stage with   *)
(* no call since, the frame sees the tables as the callers left them.      *)
OnItsWay(table, name) ==
    \A i \in 1..Min({Len(table.values), Len(table.gpu)}):
        \/ table.gpu[i] = table.values[i]
        \/ table.full
        \/ index_to_page(i - 1) \in DirtyPages(table)
        \/ \E s \in PagesOf(name):
              /\ s.page = index_to_page(i - 1)
              /\ s.values[((i - 1) % PageSize) + 1] = table.values[i]

ChangesReachTheGpu ==
    /\ OnItsWay(current, "current") /\ OnItsWay(previous, "previous")
    /\ stage = "dispatch" =>
          \A table \in {current, previous}:
              Len(table.gpu) >= Len(table.values) /\ DirtyPages(table) = {}
=============================================================================
