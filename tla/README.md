# LEET: a verification of the job system and the renderer

LEET is a Rust render engine. `crates/leet_jobs2` is its job system (counters, queues, workers, a flush loop,
builders) and `crates/leet_render` a renderer that runs every frame as a chain of jobs: it records or reuses a
render graph, walks its nodes twice, allocates the frame's GPU resources between the two walks and submits command
lists. This directory holds TLA+ modules translated from that code, TLC configurations that check them on small
instances, and proofs that TLAPS checks for every value of the constants.

Paths below are relative to `src/crates`. `PROJECT.json` names, for every definition that models code, the lines it
was translated from, and lists runs, mutants (a plausible bug per property that the run catches), findings, hazards
and theorems.

    tlc -config JobSystem_chain.cfg MCJobSystem       # a run: see the table of runs
    tlapm JobSystemProofs.tla                         # proofs: see section 4

## 1. Inventory

### 1.1 `leet_jobs2`

| component | state | operations | made correct by |
|---|---|---|---|
| Counters (`counter.rs`) | an atomic value per counter, a waiting list under a mutex, a priority | `increment`, `decrement`, `try_add_to_waiting`, `flush_waiting` | a counter equals its unfinished units; a job parked on it is released at the next zero, not before, never forgotten |
| Ready queues (`queue.rs`) | four bounded FIFO lanes under one mutex, one condition variable, a closed flag | push, pop of the highest lane, blocking and timed waits, shutdown | a ready job does not stay beside a sleeping thread that wants it |
| Dispatcher (`dispatcher.rs`) | the counters, the queues, a shutdown flag, the claimed flush thread | `run_job`, release of waiting lists, `flush_counter` and its timed and render-frame variants, `run_parallel_for`, `shutdown` | a job starts only after what it waited for; a flush answers truthfully and comes back; nothing is lost silently |
| Workers (`worker.rs`) | join handles | the worker loop, joining | every worker leaves its loop on shutdown |
| Deferrals (`deferral.rs`) | a counter kept up until finished or dropped | create, finish, drop | counted off exactly once |
| Parallel-for (`dispatcher.rs`, `job_decl.rs`) | a batch claim counter, a finished-team counter, a take-once epilogue | team dispatch, batch claim, range run, epilogue | each element in one range, the epilogue last |
| Builders (`builder.rs`) | an accumulator, a wait counter, a parent counter, "needs fence" | dispatches, fences, external waits, extraction, `final_sync` | program order of fences; the returned counter stands for all the work |

They interact through shared memory only. A dispatch counts the job on its accumulator, then parks it on the wait
counter or pushes it; a finishing job counts off, and the thread that reaches zero releases the waiting list in
reverse and wakes every sleeper; a push wakes one. The flush thread is a consumer like the workers, with a choice of
which jobs to run, and sleeps on the same condition variable as they do. Builders never touch the queues: they only
choose wait and accumulate counters from unlocked looks at counter values.

### 1.2 `leet_render`

| component | state | operations | made correct by |
|---|---|---|---|
| Graph topology (`render_graph/graph/render_node_graph.rs`, `storage.rs`, `metadata.rs`, `node_topology.rs`) | slots with node data, usage order, CPU and GPU edge lists, flattenings | add, link, unlink, remove, bridge, import, merge, freeze, flatten | edges stay between live nodes; cycles are found; order survives bridging and merging |
| Factory (`factory.rs`) | groups of nodes with anchors, created order, an open command-list group | nodes, groups, links, chains, finish | order between groups is order between their members, those that come late too |
| Cache (`cache.rs`) | graphs by shape, with age and generation | look-up, import of camera graphs, take-over of the oldest | a graph is executed only for frames of the shape it was made for |
| Node execution (`execution.rs`, `node_impl.rs`) | dependency counters: kickoff, pending, started, completed, ready queue, terminal mark | the GPU-order walk (preconsume), the counter-driven walk (consume), kickoff | a node after its CPU parents, once; errors never reorder; the walk ends |
| Command recorders (`command_recorder.rs`, `command_group.rs`, `system_nodes.rs`) | one slot per GPU flow group, its active pass | create, passes, finish, submit | submission in GPU order whatever the recording order, never in the middle of a pass |
| Executor and runtime (`graph_executor.rs`, `frame_execution_runtime.rs`, `render_node_impl_context.rs`) | the allocator's phase, the exclusive flag of each graph | execute, the resolve job, cleanup of the node job | one execution of a graph at a time, phases in order, a failure leaves all of it usable |
| Resources: allocator, pool (`resources/allocator.rs`, `pool.rs`, `phase.rs`) | phase, registered externals, pool with ages, resolution | request, resolve, swap, cleanup, reset | no two overlapping uses share a resource; a request gets what it asked for; the pool is cleaned |
| Resources: requests, lifetimes (`request.rs`, `lifetime.rs`) | per-group request streams, replay positions, tag timelines | record, replay, solve | replay returns what was recorded; ranges cover every use |
| Frames (`rendering/command_handler.rs`, `frame_renderer.rs`) | queued commands, the counter of the frame before, the cache | commit a command, render a scene, sync, flush | commands of a frame before its scene; frames one after another; every call comes to its end |
| Scene registry (`scene/render_scene_registry.rs`) | custom data per camera of a scene | sync with a frame, prepare for it | a camera keeps its data while every frame shows it |
| Frame dispatch (`rendering/frame_dispatcher.rs`, `frame_input.rs`, `frame_target_resolver.rs`) | target groups, frame inputs built | resolve windows, prepare cameras, build inputs | a frame per window with just the right views |
| Cameras (`camera/*.rs`, `extract/camera.rs`) | registrations, dependencies, selection, temporal history | register, depend, sync, select, sort, flush | dependencies stay sound; a view's history is of the last frame that showed its camera |
| Windows and surfaces (`extract/window.rs`, `window/*.rs`) | records of windows with change flags, surfaces, acquired textures | extract, clean up, create, configure, acquire, present | a texture is never stale, misused or lost for good |
| Render app (`app/plugin.rs`, `pipelined_rendering.rs`) | two bounded channels carrying the render app, the claim of the flush thread | extract, send, receive, schedule, drop | the app is in one place and comes back once; shutdown comes back |
| GPU scene (`scene/gpu_scene.rs`, `rendering_preprocessing.rs`) | proxy slots with generations, current and previous inputs | allocate, change, remove, snapshot, upload | a stale id touches nothing; phases show the live proxies |
| Buffer uploads (`rendering/buffer_uploaders.rs`) | values, dirty pages, the GPU copy, staged pages | set, grow, truncate, reserve, write whole or sparsely | the GPU copy equals the CPU one after an upload |
| Glue (`texture/`, `rhi_wgpu/`, diagnostics, `leet_log`, `leet_core`, `examples`) | handles | device calls, reports | not this code's own logic |

A turn of the renderer goes through these parts in order. The main world's windows and cameras are extracted; the
Prepare systems clean up, create and configure surfaces, acquire textures, sync the cameras and upload the tables; the
dispatcher groups the submitted cameras by window, takes each window's texture, selects and sorts the window's cameras
and hands a frame input to the command handler; that one chains a job behind the jobs of the frame before, which looks
the graph up, resets the allocator, walks the nodes in GPU order recording resource requests, and leaves jobs behind
that resolve the resources, walk again in CPU order and submit. The last system presents.

### 1.3 The hard parts

* *Interleaving* in the runtime: unlocked looks at counters against zero transitions and reuse of the counter
  (`counter.rs:109,128`), one notification shared by two kinds of sleepers (`queue.rs:247`), the flush thread's
  pop-and-give-back (`dispatcher.rs:234`), shutdown against popped jobs and half-released lists (`worker.rs:64`,
  `dispatcher.rs:563`), batch claims (`dispatcher.rs:762`).
* *Stale reads* in builders: a fence reuses the accumulator when it looks zero (`builder.rs:348`).
* *Long legal call sequences*: graph edits over a storage that reorders itself when it frees, merges over lists
  computed before the first removal (`render_node_graph.rs:661,777`, `storage.rs:85`), anchors that are made after
  members and before others (`factory.rs:513`), temporary camera dependencies flushed once per window
  (`camera_storage.rs:528`), slots that come back under another generation (`gpu_scene.rs:622`).
* *Partial failure*: a node that fails in the middle of a drained batch (`execution.rs:563`), a recorder left open
  (`execution.rs:757`), a resolve given up after it filled part of the pool (`allocator.rs:485`), an execution that
  fails after its node job was dispatched (`graph_executor.rs:196`), a rebuild that fails after it took over a cache
  entry (`frame_renderer.rs:337`).
* *Frames that reach into each other*: one allocator, one cache, one set of graph flags for frames whose jobs outlive
  the call that made them (`command_handler.rs:70`, `frame_execution_runtime.rs:67`).
* *Hand-over between threads*: the render app over two channels, dropped by either side
  (`pipelined_rendering.rs:49`), a flush thread that is claimed once (`plugin.rs:173`).
* *Flags that outlive a turn*: what a window changed and what its surface still needs (`surface.rs:73`), a buffer
  replaced while pages are dirty (`buffer_uploaders.rs:444`).
* *Boundaries*: touching lifetime ranges (`pool.rs:760`), ages that count requests (`pool.rs:203`).

The full list, with the properties that cover each, is under "hazards" of `PROJECT.json`.

## 2. Modules

| module | models | checked by | theorems |
|---|---|---|---|
| `JobContract` | what the runtime promises | as a property of `JobSystem` | `JobSystemProofs` |
| `JobSystem` | counters, queues, dispatcher, flush loop, workers, deferrals, shutdown | `MCJobSystem`: chain, live | `JobSystemProofs` |
| `ParallelFor` | one `run_parallel_for` | `MCParallelFor`: parallel_for | `DispatchProofs` |
| `JobBuilder` | builders over an abstraction of the runtime | builder | `DispatchProofs` |
| `RenderNodeGraph` | graph topology | extended by `GraphFactory` | `GraphProofs` |
| `GraphFactory` | the three ways to make a graph: by hand, by import into a cache entry, through the factory | `MCGraphFactory`: graph | `GraphProofs` |
| `CommandRecorders` | the recorder slots (operators only) | extended by `GraphExecution` | |
| `GraphExecution` | walks, recorders, submission of one frame | `MCGraphExecution`: graph_execution | `GraphProofs` |
| `ResourcePool` | allocator phases, plan, pool | extended by `FrameResources` | `FrameResourcesProofs` |
| `RequestLifetimes` | the lifetime solver, tag timelines (operators only) | used by `FrameResources` | `FrameResourcesProofs` |
| `FrameResources` | request streams of nodes, recorded and repeated, over the two modules above | `MCFrameResources`: frame_resources | `FrameResourcesProofs` |
| `GraphCache` | the shape of a frame, the cache of graphs | extended by `RenderFrames` | |
| `SceneCameraData` | the camera data a scene keeps (operators only) | extended by `RenderFrames` | |
| `RenderFrames` | command handler, frame renderer and executor as jobs of several frames | `MCRenderFrames`: frames | `RendererProofs` |
| `CameraStorage` | the camera registry, selection, order and history | extended by `FrameInputs` | `FrameInputsProofs` |
| `FrameInputs` | extraction and sync of cameras, the calls of render systems, the dispatch of frames | `MCFrameInputs`: cameras, camera_order | `FrameInputsProofs` |
| `WindowSurfaces` | the window and surface systems of a turn | extended by `RenderTurns` | |
| `RenderTurns` | both modes of the render app over those systems, exit, drop, panic | render_turns | `RendererProofs` |
| `SparseUploads` | one table with its GPU copy (operators only) | extended by `GpuScene` | `GpuSceneProofs` |
| `GpuScene` | proxies, slots, two tables and the Prepare stage | `MCGpuScene`: uploads | `GpuSceneProofs` |

`FoldTheorems` has lemmas about folds and recursion that the proof modules share.

How they compose. `JobSystem` implements `JobContract` (a refinement, checked on an instance and proved). `JobBuilder`
and `ParallelFor` see the runtime only through what `JobSystem` establishes: a job gets past its wait counter at some
moment at which that counter is zero (`DependencyOrder`), a counter is its unfinished units (`CounterConservation`), and
a job may be lost to shutdown (`NoSilentLoss`). `RenderFrames` in turn sees builders only through what `JobBuilder`
establishes: jobs after what they wait for (`WaitsHold`), a counter that covers all dispatched work
(`ResultCoversWork`), and a parent counter held up by a continuation (`ContinuationExtendsParent`). `GraphExecution`
takes built graphs as a constant; its `PlansAssumption` is what `FlowGroupsAreRight` says of a graph that was accepted
(proved as `FlowGroupsAreAlwaysRight`).
`ResourcePool` on its own takes the solved allocation requests of a frame from a constant; `FrameResources` extends it,
solves the requests that nodes recorded with `RequestLifetimes`, and hands the result to the same actions. Its node
order is that of `GraphExecution`: GPU order when recording, any CPU order when repeating. `RenderFrames` has those
walks as single steps, since they are bodies of single jobs. In `FrameInputs` a window's texture is a fact chosen at the
end of Prepare, which is what `RenderTurns` leaves behind there.

Naming: definitions keep the names of the functions, or have them in TLA+ spelling. A definition whose comment says
"Mutant of X" is a wrong version of X that no specification uses. History variables are said to be such where they are
declared.

### 2.1 JobSystem

A step is one critical section or one atomic access. `pc[t]` names the points of a thread where another may run in
between; the rest of the state is the code's:

| TLA+ | code |
|---|---|
| `value[c]`, `waiting[c]`, `zeroed`, `batch` | `CounterEntry::value`, its waiting list, a thread between reaching zero and `flush_waiting`, the list it took away |
| `lanes`, `closed`, `HasRoom` | the `VecDeque`s of `ReadyQueues`, its shutdown flag, the capacity test of push |
| `hand[t]`, `running[t]` | the job a thread holds, the closure it is in |
| `deferral[d]` | `CompletionDeferral`, held or finished (finish and drop count off alike) |
| `flush` | arguments and options of the flush in progress |
| `place[j]`, `before[j]`, `awaited`, `answer` | where a job is; histories for the contract |

`Dispatch` counts the job up (`run_job`); `TestWait`, `Park` and `Push` are `queue_job_or_wait` with the recheck under
the waiting lock; `FinishBody`, `AnnounceZero`, `DrainWaiting`, `ReleaseOne`, `ReleaseEnds`, `ReleasePanics` are
`decrement_counter_entry` and the release loop with its lane-full panic; `PopBlocking`, `RunPopped` are the worker
loop; `BeginFlush`, `FlushHead`, `FlushPop`, `FlushSleep`, `FlushWaitExpires` are `flush_counter_with_policy`
including the requeue path; `BeginShutdown`, `CloseQueues`, `JoinWorkers`, `JoinPanics` are `shutdown`. A signal picks
any one sleeper, and a sleeper may wake unasked, as the standard library's condition variable may. Clients and job
bodies are the most general program: anything they may call, in any order.

Simplified: each job closure is dispatched at most once (a job is an execution); counters are created up front; one
flush at a time, because only the claimed thread may flush (`assert_flush_thread`) and not from inside a flush
("reentrantly flushing counter"). A panic of
a job closure is not modelled, panics of the runtime itself are. The flush thread is a constant: its claim belongs to
the render app.

### 2.2 ParallelFor

`TeamSize`, `BatchCount`, `BatchSize`, `Start`, `End` are the geometry in wrapping or saturating arithmetic as the code
has it. `DispatchTeam`, `StartTeam`, `Claim`, `RunRange`, `Leave`, `RunEpilogue` are one team job; `LoseTeam` is a
shutdown. The closure may run on several teams at a time.

### 2.3 JobBuilder

Builder 0 is a client's, builder i the one job i creates from its run context. `DispatchJob`, `DispatchJobNoFence`,
`DispatchFenceExplicitly`, `DispatchWait`, `FinalSync` are the public calls; a call that looks at a counter is cut at
the look (`Rotate`, `FinalSync`, `LinkContinuation`, `WrapContinuation`), so that jobs may finish in between. A fact
found on the way: when `FinalSync` looks, the accumulator is always zero, because of the fence before it, so
`final_sync` always returns the wait counter and its other branch is never taken.

### 2.4 RenderNodeGraph and GraphFactory

A graph is a record: `usage` lists its nodes in the order every scan of the code meets them, and `Free` moves the last
one into the hole as the storage does; `deps[track]` are the edges. Linked edge lists are sets, since each reader
either collects the whole list or looks one edge up. `AddGraph` is `add_graph` with everything it calls: the
validation of sequence pairs, the copy of nodes and edges, and `MergedSpecial`, that is merging unique nodes, stitching
sequences of a subtype together and removing helper nodes with bridges. The groups of unique nodes are read before the
first of them is merged (`UniqueGroups`), those of sequences before the first is stitched, while helper nodes are looked
for anew after each one removed, as the code does. `WellFormed` is what a graph is at any time; `SourcesAssumption` asks
it of the graphs that are imported, which were made by the same operations. `KahnStep` and `Flattened` are
`build_flattening_for_kind`: levels, ties in usage order, and the count that reveals a cycle. Left out: camera index,
role, binding mask, names, and the limit on ids.

`GraphFactory` adds who makes the graph, in `author`. A *client* edits by hand (`EditOrMerge` of `RenderNodeGraph`). The
*cache* imports the setup graphs of its cameras (`import_camera_setup_graph_to_final`), with and without merging. The
*factory* keeps `groups` of members with an entry and an exit anchor that are made when first needed
(`ensure_group_entry`, `ensure_group_exit`, with the bridge through a group without members), `created` in order,
`gpu_work` among them and an `open` command-list group, in which no other node may be created. Each linking call of
`factory.rs` is an operator of its name. What was asked for is kept in the history `asked`, where a group is two
points, before and behind its members, so that the wanted order does not speak of anchors at all. Left out: node
implementations and the subnodes of a command-list group.

### 2.5 GraphExecution and CommandRecorders

One thread walks, so a step is a node or a batch; the ready queue is a bag, because its order is that of the linked
edge lists. `WalkNode` and `WalkFails` are the preconsume walk in GPU order; `Resolve` stands for the job that resolves
resources; `ReleaseKickoff`, `BeginConsume`, `TakeReadyBatch`, `ProcessNode`, `NodeFails`, `Stall`, `ConsumeReturns` are
the consume walk. A node that fails ends the walk with the rest of its batch; a caller may consume again with the same
counters, and may submit between two walks (`SubmitFinished`, that is `submit_finished_in_gpu_order`), before the
frame is complete or after an error too.

The recorders are `CommandRecorders`: the state of a slot, its active pass and whether a viewport was set, and what may
be called in which state. `CallerRecords` is whoever holds the recorders after an error making one more call on a slot,
so that a pass may still be open, or be closed and the recorder finished, when the caller submits.
`Submittable` is the loop of `submit_finished_in_gpu_order`, which stops at the first recorder still recording.
`NextFrame` prepares new counters and recorders for the same graph.

### 2.6 ResourcePool

A frame is a function from request numbers to solved allocation requests (descriptor, range, source, whether sharing
is allowed); `EnterResolve` brings it. The pool maps ids to allocations. `BeginResolve` starts a plan over the
reusable ones; requests are then assigned largest first, as the code sorts them, to a slot whose occupants are apart
(`Reuse`) or to a new one (`Create`); `Refuse` covers the errors, which return at once with the pool as it is then;
`Publish` is a successful return. `Cleanup`, `ClearAllCaches`, `ResetForFrame` and the phase changes are the
allocator's. Planning and materialising one request is a single step because the plan never looks at the resources. In
this repository only tests and embedders call `resolve_frame_resources` and enter Cleanup; the frame runtime calls
`reset_for_frame`, which does not touch the pool.

### 2.7 RequestLifetimes and FrameResources

`RequestLifetimes` is the solver as a fold of `Handled` over the requests of a frame. A request time is the position
in the groups' streams laid end to end, which is the order of (group, index) in the code; the solver's state is a
record with the live names, the instances and the tag events, and `ok` until a request is refused. Allocation requests
keep the numbers of their instances, where the code numbers the touched ones anew in the same order.

`FrameResources` adds the nodes. A node is a list of steps, each a request, some only made after a certain answer, so
that a program can branch on `request_decision` and `request_is_declared`. `EnterNode`, `Record`, `Replay`, `LeaveNode`
walk them; `Replay` compares with the request at the cursor, refuses on a mismatch, and answers with the recorded
decision. `Sway` is a node that leaves out a request, once a frame. `BeginRecording`, `SolveRequests`,
`BeginReplaying`, `CleanupFrame`, `GiveUp` are the phases, each the action of `ResourcePool` together with what it does
to the streams. `Retrieved` is what the getters look up: the tag at the last request its own group repeated.

Left out: usage flags and the validation of descriptors and tags, queues other than as an extension of open uses, the
16- and 32-bit limits on groups and requests. The owner of the frame (registration of externals, eviction, resolve)
calls between walks only, because the walks hold the frame.

### 2.8 GraphCache, SceneCameraData and RenderFrames

A *link* is what one call of `render_scene` or `sync_with_render_commands` dispatched: the drained commands, the
RenderFrame job, what that job leaves behind, and the link whose counter it waits for.

| TLA+ | code |
|---|---|
| `in_order`, `committed`, `executed` | `RenderCommandQueues::in_order`; histories |
| `links[k].after`, `flush_link`, `Resolved` | the wait of `begin_render_scene_builder`, `frame_flush_counter`, its counter at zero |
| `links[k].body`, `locked` | the RenderFrame job up to its return, the renderer's lock it holds |
| `links[k].nodes`, `links[k].tail` | `RunRenderNodeJobs`; the continuation: `FlowAllocator_Resolve`, finish of the kickoff, cleanup |
| `entries`, `made_for`, `built` | the cache's entries; of each graph the frame it was made for and whether its flow groups are built |
| `flag`, `phase`, `phase_owner` | the exclusive update of a graph, the allocator's phase and (history) the link that set it up |
| `camera_data`, `links[k].prepared` | the scene's data by camera, told apart by the link that made it; the set prepared for the frame |

The RenderFrame job has one action per way it may go: `RenderNothing` (no extent), `RebuildFails` (a miss: the
renderer's builder builds no kind of graph in this commit, so the entry stays behind empty), `ExecuteUnbuilt` (the
executor refuses the graph), `BeginExecution` with its refusal when the flag is taken, `PrepareFails` after the node
job was dispatched, and `DispatchTail`. Graphs enter the cache as they do in the repository, from the client through
`with_mut` (`InstallGraph`). A failure leaves the flag to the guard's destructor and the node job in the queue; the
node job waits for nothing and is no part of what the next frame waits for.

`GraphCache` has the shape hash of a frame as the tuple of what is hashed, with the numbers the code gives to mode,
purpose, capture and debug view; a collision of the 64-bit value is left out. `get_graph` is the whole look-up: hit,
free place, or take-over of the least recently used entry, whose graph goes and whose generation is raised.

### 2.9 CameraStorage and FrameInputs

The storage is used by one thread, so its methods are operators from registry to registry, and a turn is cut where
another system may call in: `ExtractCameras`, `SyncRenderCameraStorage`, `BeginDispatch`, one `BuildTarget` or
`ResolveFails` per window, `EndDispatch`. An entry of `registry` has what the code decides by: index among the cameras
of its target, management, render policy, flow space, whether enabled, tick of registration, dependencies with their
two temporary flags, and `last_prepared`, the tick of the history it holds. `prepare_frame_cameras` is the method of
that name with all it calls: flush of temporaries and of expired cameras, the depth-limited selection, sort, history,
and the tick. A camera that is unregistered leaves the selection (`StillSelected`) and takes the requests for it along
(`StillRegistered`, of the history variable `asked`). The history variable `last_shown` notes for each registered camera
the tick of the last frame that showed it, apart from what the storage keeps in `last_prepared`; no guard reads either
of them. The sort is insertion as the standard library does it for short sequences, from any starting order, because
the selection comes out of a hash map. A dispatch that fails in the middle goes with the frames built so far
(`CloseDispatch`), whose history is written by then; that is the code's behaviour. Left out: matrices, viewports, output
flags of dependencies, and targets other than windows.

### 2.10 WindowSurfaces and RenderTurns

A system of the schedule visits the windows one by one and touches nothing of another window, so each is an operator on
all `cells`: the record extraction keeps, the surface, and whether the surface was ever misused (configured, acquired
from or destroyed while a texture of it was alive). The device is external: a surface stays outdated until it is
configured, and lost until it is replaced; `get_current_texture` may answer anything as long as faults are left.
`extract_windows`, `cleanup_stale_surfaces`, `create_surfaces` with its run condition, `prepare_windows` with the retry
after an outdated surface, and `smoke_test_render_windows` are the systems; `select_present_mode` has the fallbacks.

`RenderTurns` says which thread runs them. `main` and `thread` are where the two threads are, `place` is where the
render app is (with either, or in one of the two channels), `lent` the channels' own note of it, `claimant` who claimed
the flush thread. In immediate mode the main thread extracts and runs the schedule; in pipelined mode `Cleanup` puts the
app into the channel and every update takes it out (`ReceiveApp`), extracts and sends it (`SendApp`). `DropApp` is
`RenderAppChannels::drop` with its four outcomes, and `ThreadPanics` unwinds the render thread with what it holds. The
runner, which updates the app until an exit was asked for, is external.

### 2.11 SparseUploads and GpuScene

A table is values, one set of dirty pages per word, the GPU copy, `full` (`needs_full_reupload`) and the staged pages.
`grow`, `truncate`, `set`, `reserve` and `write_buffers` are the uploader's methods, including what `grow` marks in the
word of the old end and the growth rule of the allocation; `set_all` is the loop that sets every slot of a snapshot.
`GpuScene` has two of them, current and previous, beside the
proxies and the slot allocator. Every method a client may call is an action, with ids that may be stale: all ids ever
issued. The Prepare stage is two steps, `write_and_prepare_input_buffers` and `run_sparse_buffer_update_jobs`, with the
jobs in between. `build_phase_instance_indices` is the CPU emulation of a phase. Left out: transform, colour, tag and
bounds of an input, which no decision reads.

## 3. Runs

| run | what it shows | bounds |
|---|---|---|
| chain | `CounterConservation` (with types), `NoStrandedWaiter`, `DependencyOrder`, `NoSilentLoss` and the refinement of `JobContract`, over all interleavings of dispatch, parking, release, flush, timed flush, wakeup and shutdown | two workers and the flush thread, three jobs in two lanes, one lane with a single place, one deferral, two counters; symmetric workers |
| live | With every job critical and every hint: `EveryJobFinishes`, `FlushComesBack`, `ShutdownStopsWorkers`; no wakeup is lost on the requeue path (`NoLostWakeup`) | two workers, two jobs, plain and render-frame flushes |
| parallel_for | Each element in exactly one range, the epilogue after the last | 4-bit integers, up to 6 elements, batch hint up to 4, 3 teams |
| builder | Fences, external waits, the result counter and continuations hold under any finishing times | 4 jobs, 7 counters, one explicit fence |
| graph | Every graph a client can edit, a cache entry can import or a factory can author: cycles are found, built orders are topological and by depth (`FlowGroupsAreRight`), bridging loses no order, merging leaves exactly the promised one, the factory makes exactly the one asked for | by hand: 3 authored nodes of any kind, 5 slots, one track; by import: two tracks, two subtypes, 8 slots; factory: 2 groups, 4 calls, both tracks |
| graph_execution | Nodes after their parents, exact counters, no refused call, a truthful terminal mark, stalls only after an error (`WalkIsSound`); GPU order of submission, nothing submitted in the middle of a pass; every consume returns | every CPU track over four nodes, GPU track along or against it, three groups, any failure |
| frame_resources | No overlapping use shares a resource (`NoSharing`); requests are served, cleanup leaves nothing behind, ids clash only over leftovers (`PoolIsSound`), also after resolves that were given up and repeated; a resource keeps its contents from first to last use, getters follow the timeline, and a node that diverges from its recording is found out while one that decides anew is not refused | six programs of two nodes over two tags, one external resource, two sizes, one omission per frame, threshold 1, ids to 3, ages to 2 |
| cameras | A frame shows the enabled cameras asked for and what they depend on, no more (`SelectionIsClosed`); dependencies stay acyclic, bounded and live and flow spaces unshared (`RegistryIsSound`); the first frame of a dispatch has exactly the temporary dependencies requested since the one before it; the history of a view is that of the last frame that showed its camera, and is there unless the camera was registered again since (`HistoryIsOfTheLastFrame`) | two cameras on two windows and a helper camera, limits of 1, a grace period of 0, three ticks, three calls |
| camera_order | *Violation.* A frame with a camera before the one it depends on: see findings | three cameras of one window, two ticks, two calls |
| frames | Commands in order and before their scene, frames one after another over one allocator and one cache, a graph only for frames of its shape, the data of cameras kept, and every call comes to its end, whatever fails | four frames, one without extent, two sharing a shape, a cache of one entry, three calls, two commands, one graph |
| render_turns | Textures fit what was extracted and no surface is misused; the render world comes home; an open window is shown as it is once it rests and the device answers; dropping the app comes back | two windows, two handles, sizes and modes, two changes, two faults, both modes, a panic |
| uploads | The scene is the map its callers see, for live and stale ids (`SceneIsItsProxies`); a changed value is in the GPU buffer or on its way (`ChangesReachTheGpu`) | 5 slots, 7 calls, one descriptor; pages of 2 values, words of 2 pages (so 3 pages in 2 words), buffers in multiples of 2, sparse up to 2 pages and 70 % of the table |

Why these bounds are enough to be interesting. The counter races need one job that waits, one that resolves, one that
counts the counter up again, and two threads doing so. A lost wakeup needs a sleeper that does not want the job beside
one that does: the flush thread and two workers. A full lane needs a lane with one place and two jobs released into it.
Merging needs two sequences of a subtype, a node between, and a third graph for chains of three. An anchor needs a
member before it and one after it, and a group without members two neighbours. Four nodes give CPU tracks with diamonds
and a GPU order against them. The pool needs a range that touches, one that overlaps, one that follows, each in both
sizes, and a threshold that a frame can pass. The six programs of frame_resources hold requests of every kind, resources
that follow each other and that overlap, a swap and a queue scope that prolong a range, a tag named again after its
resource was swapped out, a use that spans two nodes, and branches on both kinds of answers; two nodes are enough for a
repeat order other than the recorded one. What they solve to was worked out by hand and is given as `Frames`, so the
type invariant also compares the solver with that. A cache of one entry makes every second shape take over the graph of
another, and three calls give a frame whose predecessor failed and one behind it. The cameras need two windows, so that
a second flush follows the first in a dispatch, a limit that one call reaches, and enough ticks for a temporal camera to expire in a flush.
Two faults make a lost surface outdated or resized in the same turn. In uploads five slots make the tables grow over two
reallocations and from one word of dirty pages into a second, and the share of the table that is still uploaded
sparsely lets one job carry pages of both words; seven calls leave two for changes behind the upload of five slots, or
for slots that are reused. Three quantities are really bounded: `ParallelFor` is
checked, and proved, for `BatchCount + TeamSize < Modulus` (`ClaimsFit`), beyond which the claim counter of the code
wraps (about 2^32 batches); `GpuScene` is checked, and proved, for fewer calls than there are generations of a slot
(`GenerationsFit`), beyond which the 32-bit generation of the code may wrap; `MaxOver` and `MaxId` stop resolves above
them, not steps in progress.

Deadlock is not checked where the system may stop: after shutdown or a panic (`JobSystem`), when all teams are done
(`ParallelFor`), when the bounds are used up or the graph is frozen (`JobBuilder`, `GraphFactory`). Elsewhere it is;
`Done` of `RenderFrames` and `RenderTurns` and `Exit` of `FrameInputs` say where stopping is right.

Atomics are sequentially consistent here. The code's are acquire, release or both, never relaxed, so what is not
modelled is that two threads may see stores to two different atomics in different orders.

### Fairness

* `JobSystem`: weak fairness of every thread's own steps and of the return of closures. The operating system schedules
  threads and closures are assumed to end. `DeferralsEnd` is strong: an owner drops its deferral at the latest when
  its own scope ends, however often it is busy in between. `WorkersReachQueue` is strong and used only for `live`: after
  the flush thread requeues a job it sleeps 5 µs in the wakeup wait, so a woken worker gets the queue now and then;
  without that assumption the pop-and-requeue pair may go round for ever, which is the hazard at `dispatcher.rs:234`.
* `GraphExecution`: weak fairness of `Walk`: one thread, one loop. Nothing makes a caller consume or submit.
* `RenderFrames`: weak fairness of a flush that may return, and of the jobs together: as long as a job is ready some
  job runs, which is what `EveryJobFinishes` gives (the number of jobs is finite). Nothing makes the client call.
* `RenderTurns`: weak fairness of each of the two threads and of the schedule that one of them runs. The runner updates
  the app until an exit is asked for, and then drops it. Nothing makes a window change, a fault happen or the render
  thread panic.
* `ParallelFor` and the other specifications are checked for safety only.

## 4. Proofs

### 4.1 JobSystemProofs: counters, waiting lists and dependencies

For every set of threads, jobs, deferrals and counters, every program and every capacity: `TypeCorrect`,
`CountersAreConserved`, `WaitersAreNotStranded`, `DependenciesAreOrdered`, all from `InductiveInvariant`.

None of the four is inductive alone. `value \in [Counters -> Nat]` says no decrement underflows, which needs that the
unit being counted off is still counted, hence `CounterConservation`; that needs that no job is finished twice, hence
that no job is in two places: `ThreadsOK` (what a thread holds at each label), `OneOwner` (no two threads hold the
same job, nor two slots of a released list) and `QueuesOK` (each queued or parked job once, in its own lane or list).
`DependencyOrder` needs to know what is true of a job that is *not yet* clear: `BeforeOK`, everything it was dispatched
behind has finished or is still counted on its wait counter. So when that counter is zero, by conservation, all of it
has finished, even if the counter is reused the moment after. `NoStrandedWaiter` is inductive beside these: parking
rechecks the value under the lock, and the thread that brings it to zero holds `zeroed` until it has taken the list.

The file first states what each helper does (`Decrement`, `Panic`, signals, pushes) as lemmas, then takes each conjunct
through the cases of `Next`. The assumptions are those of the module: `ThreadsAssumption`, `FiniteAssumption`
(cardinalities), `NamesAssumption`, `ProgramsAssumption` (`dispatcher.rs:367-372` refuses a job that waits on its own
counter), `CountersAssumption`, `ConfigAssumption`.

### 4.2 FrameResourcesProofs

*The pool.* For every set of frames, descriptors and externals and every threshold: `TypeCorrect`,
`ResourcesAreNotShared`, `RequestsAreServed`, `PoolStaysSound`, all from `InductiveInvariant`. The published resolution
copies what the plan held when its last request was assigned, so the invariant speaks of the plan in progress: `PlanInv`
says that every request not in `todo` is in some slot, that the requests of a slot are apart in time, shareable and
served by the slot's allocation, and that, unless the pool was left over by a resolve that was given up, the slots are
the whole pool (which is why a fresh id is fresh). `BoundedIds` gives the plan a next id. `PoolIsSound` puts together
what a reader wants of the pool: types, every request served by a resource that fits it, nothing of a frame left after
its cleanup, and `TakenOnlyByLeftovers`, that the plan's next id is in use only when a resolve that was given up left
resources behind that the plan does not see. The steps are proved for any frame that is `WellFormed`, of which
`FramesAssumption` is the instance `Frames`. Other assumptions: `SizesAssumption`, `ExternalsAssumption`,
`BoundsAssumption`.

*What the nodes record is such a frame.* `SolverFacts` says what the fold of the solver keeps: instances are made in
order of time, a range covers the uses and queue scopes it grew by (`Grows`), and what a tag is looked up to at a time
is what the requests up to then made it name (`Follows`), which no later request changes (`Settled`). From it
`SolvedWell`: the solved requests are well formed; so `FrameInv` (the pool's invariant, the types of the streams, and
the frame being what the streams solve to) is inductive for whatever the nodes ask. `FramesRefineThePool` draws the
conclusion: when `Frames` has every well-formed frame, every behaviour of `FrameResources` is one of `ResourcePool`.
That hypothesis only opens the constant to what can be recorded; the theorems on frames do not use it.

*What they retrieve.* `Maker` goes back in time where the solver goes forward; `MakerStates` and `AboutFacts` show that
they agree. With that, and because resources of overlapping requests differ (`FramesDoNotShare`),
`UsesRetrieveTheirOwn` and `GettersSeeTheirTime` hold of all programs, tags and orders of the nodes.

*Recording and replaying.* `Run` reads a stream as the way of its node through its steps. While recording, the node that
runs is where the run of its stream ends (`RunsTo`); a walk over it makes the run whole (`Over`). While repeating,
`ReplayInv` says of every node where it is in its run: as long as nothing was left out it is where the recording was
after as many requests (`StandsAt`), so the next request matches, whatever it decides, and the last one ends the stream.
That is `FaithfulFramesPass`, for all programs. The converse, that an omission is found, needs that a node that lags
behind the stream does not catch up with it (`LagsBehind`, `LagsOn`), and the proof attempt found that it can: a node
that leaves out a question to which a later one under the very same answer is alike asks that one in its place, and its
stream is repeated to the end. `DivergenceIsTold` therefore has the hypothesis `ProgramsAskAfresh`, that no node puts a
question twice in this way, which `MCFrameResources` shows of the programs of the run; section 5 has the example.

### 4.3 JobSystemProofs: what the runtime guarantees

For every set of threads, jobs, deferrals and counters and every program: `NoJobIsLostSilently`, `NoWakeupIsLost` and
`RuntimeImplementsContract`, in the second half of the module.

*No wakeup is lost.* A push wakes one sleeper, and that sleeper may be the flush thread, which takes a job only if its
policy allows it and otherwise gives it back. `Balanced` is what keeps the books: while a worker sleeps, either some
thread has brought a counter to zero and is about to wake everyone (`Zeroing`), or there are at least as many threads
that will still look at the queues, or notify one that will, as there are ready jobs
(`Cardinality(Ready) <= Cardinality(Lookers)`). The flush thread counts as a looker only while its counter is up,
because a flush whose counter is at zero returns without another look; so `FlushWakes` is needed beside it (a flush
asleep over a counter at zero will be woken). `LabelsOK` says which threads a label belongs to, `StopOK` that the
queues close once and stay empty, `Lined` that every ready job is in a lane. The theorem has the hypothesis
`"timed" \notin FlushKinds`: with timed flushes it is false, which is the first of the other places in section 5.

*No job is lost silently* holds by `StopOK` and by where jobs are dropped. *The runtime implements its contract*: the
refinement mapping is `UnitPhase` (`JobPhase`, `DeferralPhase`), which forgets queues, lanes and threads. `ContractStep`
takes every step of the runtime to a step of `JobContract` or a stutter, under the invariant; what makes the start of a
job a contract step is `BeforeOK`, and what makes a flush answer true is `FlushOK` (whatever was awaited and has not
finished is still counted on the flush's counter) with `CounterConservation`.

### 4.4 DispatchProofs: builders

For every bound on jobs, counters and fences: `BuilderWaitsHold`, `BuilderResultCovers`, `ParentIsExtended`. What a
fence promises is about jobs several counters away, so the invariant follows promises from counter to counter.
`After(k, i)` says that job k starts after i is completed, `Behind(i, c)` that some job still counted on c is such a k,
`Covered(i, c)` that i may also be counted there itself; `AfterExternal` and `ExternalCovered` are the same for the
external counter. `Promised` says this of what a job waits for, `Kept` of what has started. `GroupOK` describes a
builder between two fences: the jobs since the last fence share its two counters, everything earlier is covered by the
wait counter, and an accumulator nobody used is zero, which is why a fence may reuse it after an unlocked look. `EndOK`
is the same for the counter a builder ends with. `Apart` says that no two builders share a counter, so that only the
builder itself moves its counters between its looks. `BoundsAssumption` asks for three counters: the external one and
the first two of the client's builder exist at once.

### 4.5 DispatchProofs: parallel-for

For every range, batch hint and number of workers: `EveryElementOnce` and `EpilogueComesLast`. The geometry lemmas show
that the batches partition the range, saturating and wrapping arithmetic included (`Sizes`, `WhatABatchCovers`,
`InOneBatch`). `Sharing` says of the shared progress that a batch below the claim counter is being run by exactly one
team or done, that the counter passes the last batch at most once per team, and that `finished` is the number of
teams that left. Both theorems have the hypothesis `ClaimsFit`: every team claims once in vain, which the claim counter
has to have room for. `RequestsAssumption` allows any request; only a loop whose batches and teams together reach 2^32
breaks the hypothesis, and the code does not refuse it.

### 4.6 GraphProofs: execution

For every built graph that `PlansAssumption` admits, every choice of groups and every failure: `WalksAreSound`,
`SubmissionsAreOrdered`. `WalkIsSound` is not inductive because the counts do not say where a node is. `QueuedOnce`
does: between the completion of its last parent and its start, or its loss to an error, a node is in the ready queue or
the drained batch exactly once, and no other node is there. `PendingIsExact` with it shows that no call is refused.
`RecordersOK` ties recorders to nodes. That a walk runs dry only before the kickoff or after a loss (`NeverDry`) takes a
node of the lowest rank among those not completed, by the ranks that `PlansAssumption` gives an acyclic graph. That
submission is in GPU order uses that `Submittable` takes places in increasing order (`Nth`, `NthExists`). The proof made
one exception visible: the walk of an empty graph returns without a kickoff, hence without the terminal mark, so
`TerminalMeansAll` excludes the incomplete answer only for graphs with nodes.

### 4.7 GraphProofs: topology and factory

For any tracks, subtypes, sources and camera graphs, and any number of slots, groups and calls: `GraphsAreWellFormed`,
`BridgesKeepOrder`, `FactoriesKeepOrder`, `FlowGroupsAreAlwaysRight`. Everything about order goes through `Reach`, a
fold of squarings over the nodes, of which only one thing is used: it is the least transitive relation that has the edges (`ReachIsLeast`). So two
orders are equal when each contains the edges of the other.

`WellFormed` is kept by every operation there is. For the imports this goes through all of `MergedSpecial`: unique
nodes are merged into the first of their subtype (`UniqueMergedFacts`), each stitch keeps the nodes and the pairs
(`OneSequenceFacts`), and bridging away as many helpers as there were leaves none (`HelpersGoneFacts`), so that every
call finds the node it names. `BridgeOrder` is the argument for a bridge: the order without the node, and the order with
it cut down to the others, are both transitive and each contains what the other is the least of; the usage order, which
the freed slot rearranges, does not matter to either.

The factory's graph has nodes its caller never made, and its order is asked for in terms of groups that may not have an
anchor yet. `Stands(G, c, x, p)` says what a node is to the caller: itself, or the near or the far side of a group.
`Fine` is the invariant: every edge joins nodes that stand for something the caller wanted (`NothingElse`), everything
asked for is reached between nodes that stand for it (`AllAnswered`), an anchor has the edges to the members and to the
other anchor (`AnchorsHold`), and no node is two anchors (`GroupsFine`). `FineOrder` concludes that the two orders agree
on created nodes: no path leads over an anchor that the asked order does not have, and where an asked path leads over
the side of a group without an anchor, nothing was ever linked to it, so the path does not start or does not go on
there. `FineMember`, `FineEntry`, `FineExit` and `FineLink` say that late members, new anchors and links keep it;
`ChainFacts` that a chain of created nodes is a sequence of such links. `Fine` was checked with TLC on the run graph.

For the flattening, `KahnInv` says where Kahn's algorithm is when the nodes of a set are done: the counts are the
parents that are not done, the ready nodes are those all of whose parents are, a level is one more than that of some
done parent, and more than that of every one. Every turn adds the first ready node to the set (`KahnSteps`), so in the
end all nodes are done or none is ready (`KahnEnds`). If all are done the levels grow along edges and there is no cycle;
if not, a node that is not done with the fewest nodes before it would be ready unless it was on a cycle
(`CyclesAreFound`). Levels that grow along edges by steps of one are the depth (`DepthIs`), and joining the levels gives
each node once, in that order (`RowsFacts`). So the validation of the stored order never fails, and what is built stays
as it was built, because all that follows on a frozen graph is freezing it again (`StepFreezes`).
The assumptions are `TracksAssumption`, `SourcesAssumption` and `FactoryAssumption`.

### 4.8 RendererProofs: frames

For every set of frame inputs, every capacity of the cache and any number of calls, commands and graphs:
`CommandsStayInOrder`, `FramesTakeTurns`, `FramesExecuteTheirGraph`. Everything rests on `InTurn`: each call waits for
the whole of the call before it, so a link whose commands have run has nothing before it still to run. From it follow
`CommandsAreCut` (the calls cut the commands into consecutive numbers), `FlagsAreOwned` (a flag, and the allocator's
phase, belongs to the one frame under way), `GraphsFit` with `EntriesFit` (a graph is made for frames of the hash of its
entry, and a taken-over entry gives its graph up), and `DataIsOfLast` (the scene's data is that of the frame that synced
last, and each of it was made by the frame since which every syncing frame showed the camera). The hash is the tuple of
what is hashed (section 2.8), so what is proved is that the cache never crosses frames whose hashed fields differ.

### 4.9 RendererProofs: turns

For any windows, handles, sizes and modes, changes and faults, in both modes: `PresentedTexturesFit`,
`RenderWorldIsHandedBack`. `HandOff` ties where the app is to where the threads are, one way per mode and per state of
the render thread (`ImmediateHand`, `UnstartedHand`, `StartedHand`). `CellInv` says for each window which promise holds
at which point of the turn: a change the surface has not followed is flagged (`Flagged`), after the cleanup no surface
outlives its record (`Owned`), after creation every surface is as its record wants it (`Fits`), and textures are alive
only while the turn renders (`Free`, `HeldRight`). The assumptions are that `Fifo` is supported, which wgpu guarantees
and `select_present_mode` relies on (`FifoAssumption`), that there are finitely many windows and at least one fact about
them, and that the values for "none" are no records, surfaces or textures (`WindowsAssumption`).

### 4.10 GpuSceneProofs

For every number of slots, every set of assets and descriptors, and every page size, word size, threshold and multiple
of the allocation: `SceneIsTheProxiesOfItsCallers` and `ChangesArrive`. The first needs to know what a slot is, which
the code keeps in four places (generations, free list, proxies, values). `SlotsHold` says that a slot is allocated
exactly while it holds the proxy of its present generation and the input its caller gave last, and is zero otherwise;
`IssuedOK` that an id that was released is older than its slot, which is why a stale id finds nothing even after its
slot was given to others. The second rests on what a table is between two calls: `TableOK` (the dirty words are as many
as the values need, the buffer beyond the values is zero, so that `grow` may mark only the word of the old end) and
`Uploaded` (a clean page is in the buffer or carried by a job, and a job carries the present contents). A full upload
leaves the buffer as long as the values because the powers of the growth factor reach every length (`PowersReach`,
`AllocationFits`).

Both have the hypothesis `GenerationsFit`: fewer calls than generations. With 2^32 generations that is a slot reused
four billion times, after which the code hands out an id a second time. The other assumptions are those of the modules:
`PagesAssumption` (sizes are positive) and `SceneAssumption` (what a descriptor and the default input are).

### 4.11 FrameInputsProofs

For all cameras, windows, targets and limits: `RegistrySound`, `TemporariesAsRequested`, `HistoryFollowsTheFrames`. The
invariant is `FrameInv`, that is `StorageIsSound` (the registry and the selection), `DispatchIsSound` (what the groups
and frames of the dispatch in progress were made from) and the property about temporary requests, which is inductive
beside them. `Sound`, the part about the registry, has for each entry what the action property about history needs:
`last_prepared` is nothing or the frame in `last_shown`, and it is that frame if it came after the registration. That a dependency closes no cycle is a fact about `Below`, the cameras reached: it is
the least set closed under dependencies (`BelowIsLeast`), because the recursion adds a camera per round until it stands
still. The registration of the submitted cameras is a fold, and each step of it keeps `StorageIsSound`.

`SelectionClosed` says what a frame shows. Its hypothesis `MAX_CAMERA_DEPENDENCY_DEPTH = 1` is the constant of
`camera_storage.rs:14`; with a larger limit a frame also shows what is further below, which `SelectionIsClosed` does not
speak of. The depths are a recursion over rounds, the sort a fold of insertions, of which the proof needs that it
neither loses nor invents a camera; the order it leaves is the subject of `camera_order` and not proved.

### 4.12 FoldTheorems

The library's induction theorems take an operator as a parameter, which the provers here cannot instantiate. Where a
proof needs induction over data, `FoldTheorems` gives it over numbers, for sets and functions in place of operators: a
set of numbers with 0 and every successor is `Nat` (`Reached`), a recursion over numbers defines a function
(`Recursion`), the folds of the community modules have the function they are defined by (`FoldExists`), and what every
step of a fold keeps holds of the fold (`FoldWithin`). Each use then names its set or function. `FlattenFacts` says of
sequences put end to end what is in them and in what order.

### 4.13 How far this goes, and what is only model-checked

The inductive invariants were checked with TLC on the instances of the runs (that of `JobBuilder` on the first millions
of its states) before they were proved, except those of `FrameResources` and `FrameInputs` that are built from histories
a run does not have, such as the run of a stream; of these TLC checked the properties they imply. No theorem uses
fairness. The theorems of `JobBuilder`, `ParallelFor` and `RenderFrames` speak of a runtime as `JobSystem` shows it
(section 2); that this abstraction is right is argued there and not proved.

Only model-checked, on the instances above: `MergedGraphsHavePromisedOrder`, which compares the closure of a graph after
three kinds of merges with a closure over the graph before (that an edge may leave the end of one sequence and enter
the begin of another, both of which are stitched, is part of `ChainEdges`, though the eight slots of `graph` hold no such
graph). So are liveness (`EveryJobFinishes`, `FlushComesBack`,
`ShutdownStopsWorkers`, `ConsumeComesBack`, `FramesComeToTheirEnd`, `OpenWindowsAreShown`, `ShutdownComesBack`), fairness
and ENABLED, which are outside what the prover handles.

## 5. Findings

* `camera_order` (a bug in the code): `sort_selected_cameras` (`camera_storage.rs:641`) compares two cameras by their
  direct dependency if there is one and by their order otherwise. The comparison is not transitive: with orders
  a < b < c and a depending on c, a sorts before b, b before c and c before a, and from some starting orders a stays
  before c; the standard library also allows `sort_by` to panic on it. The test at
  `leet_render/src/tests/camera/camera_storage.rs:43` is named
  `selected_dependency_camera_sorts_before_parent_camera`, and `leet_render/temp/FrameRenderer.md:1098` lists "sort
  dependency cameras before cameras that depend on them".

Other places where code and documents differ, or where the code's behaviour may surprise. The models follow the code in
them, and no run refutes the document:

* A timed flush whose deadline has passed leaves without a look at the queues, though a push may have spent its one
  notification on it (`dispatcher.rs:224`; `leet_jobs2_internals.md:1336` says a push must wake one blocked worker). The
  job stays queued beside a sleeping worker until a later push. `live` therefore has no timed flush.
* Stitching two sequences moves the children of the first end to the second; on a track where the second begin does not
  reach the second end, what came before the first end is no longer before those children
  (`render_node_graph.rs:777`; `RenderGraphCoreExecutionPlan.md:446` wants sequence merges to preserve ordering).
  `MergeHasPromisedOrder` states the order the code does promise.
* The over-capacity age of a pooled resource grows per request, not per frame, so a frame can fill an allocation and
  still have it evicted when it ends (`pool.rs:203`; `RenderGraphDesign.md:1779` counts frames).
* One window without a texture ends the dispatch of all windows, the frames already built included, whose cameras have
  their history written by then (`frame_input.rs:275`; `temp/FrameRenderer.md:252` wants such targets skipped).
* A node that left out a request in the consume walk is not always found out. With the steps "decide; ask whether t is
  declared; when the last answer is yes, ask that again", a node that decided yes and heard no recorded two requests;
  one that leaves the first question out puts the second in its place, hears no, and has repeated its stream
  (`request.rs:207`). `ReplayTellsDivergence` holds for nodes that put no question twice like this.
* A camera of the scene has no previous frame from one turn to the next: the sync registers every extracted camera again
  in each turn (`camera_storage.rs:293`), and `register_camera` starts the history over (`camera_storage.rs:346`). Its
  first view of a turn therefore resets the temporal history, and only a further window of the same dispatch, or a
  camera a render system registered, has one. `temp/FrameRenderer.md:1132` wants the prepared cameras to hold
  "last-frame camera data for TAA/motion vectors", line 1168 lists "previous-frame camera data" and line 1193 has it
  under "Add now". `HistoryIsOfTheLastFrame` says whose frame a history is when there is one, and that nothing but a
  registration takes it away; whether a registration should, it leaves open.
* A camera that expires takes the requests for it along: a dependency on a temporal camera that is requested after the
  camera's grace period is gone in the flush that was to show it (`camera_storage.rs:543`).
* Frames of different cameras make the scene drop and remake the custom data of cameras each time
  (`render_scene_registry.rs:425`): with two windows it never lasts. `CameraDataLasts` says what holds.
* Frame inputs the renderer builds itself have the tick 0, so the cache takes over its first entry whatever was used
  last (`cache.rs:418`).
* The shape hash omits the live proxy count, by which the kind of a build is chosen (`frame_renderer.rs:43`): a frame
  with proxies may execute the graph made for one without.
* The surface of a closed window is destroyed in the Prepare stage after the extraction that removed the window's
  record, so it may outlive the raw handle it was made from (`surface.rs:54`).
* On macOS surfaces are created on the main thread, which waits in `RenderAppChannels::drop` for the render thread when
  the app is dropped (`surface.rs`, `pipelined_rendering.rs:49`); the models have no such platform.
* `truncate` followed by `grow` leaves the pages between clean, though their values changed to zero
  (`buffer_uploaders.rs:632`). `GpuScene` truncates only to a length another table has and writes every slot after.
* When `FinalSync` looks, the accumulator of a builder is always zero, because of the fence before it: `final_sync`
  always returns the wait counter (`builder.rs`).

## 6. Plan

Written: the job system with its contract, parallel-for and builders; graphs, by hand, import and factory; their
execution with the recorders; the resources of a frame; the cache, the renderer and the command handler; cameras and
frame dispatch; windows and the hand-over of the render app; the GPU scene with its uploads. Proved: the safety of
`JobSystem` with its refinement of `JobContract`, of `JobBuilder`, `ParallelFor`, `GraphExecution`, `ResourcePool` and
`FrameResources` with the refinement of the first by the second, `RenderFrames`, `RenderTurns`, `FrameInputs` and
`GpuScene`; of graphs their form, the order bridges keep, the order a factory makes, and what the flattening decides and
how it orders.

What is left, most important first: the order after merging; that the runtime `JobBuilder` assumes is an abstraction of
`JobSystem`; texture targets of cameras.

## 7. Not modelled, and why

* `AtomicBufferUploader` and `FrameAppendBuffer` of `buffer_uploaders.rs`: nothing in the repository uses them.
  `gpu_array_buffers` wraps buffers of another library.
* Metadata and diagnostics of resources (`desc.rs`, `diagnostics.rs`, `usage.rs`): plain data without behaviour, except
  the descriptor fields reuse depends on, which `ResourcePool` has.
* Textures, texture views and the device (`texture/`, `rhi_wgpu/`): calls into wgpu, whose behaviour is not in this
  repository; `RenderTurns` has what the surface systems assume of it.
* `execute_parallel` of the graph: a stub. `leet_core/junk`: not compiled. `leet_log`, `leet_core`, `examples`: a facade,
  an error type and demos.
* Within modelled parts: the contexts handed to node implementations and the binding masks of a walk; hooks and
  profiling scopes; labels, debug markers and sync events of a recorder; texture targets and manual views of cameras;
  matrices and viewports; the limits on ids of nodes, groups and requests; what the factories of the scene registry
  make; collisions of the shape hash.
* Panics of job closures; stores to different atomics seen in different orders.
