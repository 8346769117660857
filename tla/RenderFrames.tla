---------------------------- MODULE RenderFrames ----------------------------
(***************************************************************************)
(* The frames of the renderer as jobs: RenderCommandHandler chains the     *)
(* queued commands and the RenderFrame job of each call behind those of    *)
(* the call before (rendering/command_handler.rs); the job looks its graph *)
(* up (GraphCache), syncs and prepares the scene's camera data             *)
(* (SceneCameraData) and starts the execution                              *)
(* (graph/graph_executor.rs, graph/frame_execution_runtime.rs), which      *)
(* leaves jobs behind it.                                                  *)
(*                                                                         *)
(* What the job system promises is taken from JobContract and JobBuilder:  *)
(* a builder's jobs run one after another, a counter reaches zero when all *)
(* jobs it covers have run, and a continuation holds up its parent's       *)
(* counter.  A link is what one call dispatched.                           *)
(***************************************************************************)
EXTENDS GraphCache, SceneCameraData, FiniteSets

CONSTANTS
    MaxCalls,      \* bound: calls of render_scene and sync
    MaxCommands,   \* bound: commands committed
    MaxGraphs,     \* bound: graphs the client installs
    NoFrame

ASSUME BoundsAssumption == {MaxCalls, MaxCommands, MaxGraphs} \subseteq Nat

VARIABLES
    committed,     \* how many commands were committed, numbered from 1
    in_order,      \* RenderCommandQueues::in_order
    executed,      \* history: the commands executed, in order
    links,         \* what each call dispatched, and how far it is
    flush_link,    \* the link frame_flush_counter covers, 0 for none
    flushing,      \* whether the main thread is in a flush
    locked,        \* the link whose job holds the renderer's lock, 0 for none
    made_for,      \* of each graph: the frame the client made it for
    built,         \* of each graph: whether its flow groups are built
    flag,          \* of each graph: the link holding its exclusive update
    phase,         \* the phase of the resource allocator
    phase_owner,   \* history: the link that set it up
    camera_data,   \* of each camera the scene has data for: the link that made it
    refused        \* history: a flag was taken or a phase change refused

callVars == <<committed, in_order, flush_link, flushing>>
graphVars == <<entries, made_for, built, flag>>
frameVars == <<locked, phase, phase_owner, camera_data, refused>>
vars == <<callVars, executed, links, graphVars, frameVars>>

Graphs == 1..MaxGraphs
Calls == 0..MaxCalls
CameraIds == UNION {{f.cameras[i].id: i \in DOMAIN f.cameras}: f \in Frames}
CamerasOf(f) == {f.cameras[i].id: i \in DOMAIN f.cameras}

CameraData == UNION {[ids -> Calls]: ids \in SUBSET CameraIds}
PreparedData == UNION {[ids -> SUBSET Calls]: ids \in SUBSET CameraIds}

Links == [commands: Seq(1..MaxCommands), frame: Frames \cup {NoFrame},
          after: Calls, done: BOOLEAN,
          body: {"none", "todo", "prepare", "over"}, graph: Graphs \cup {NoGraph},
          nodes: {"none", "todo", "done"},
          tail: {"none", "resolve", "finish", "cleanup", "done"},
          synced: BOOLEAN, prepared: PreparedData]

TypeOK ==
    /\ committed \in 0..MaxCommands /\ in_order \in Seq(1..MaxCommands)
    /\ executed \in Seq(1..MaxCommands)
    /\ Len(links) \in Calls /\ \A k \in DOMAIN links: links[k] \in Links
    /\ flush_link \in Calls /\ flushing \in BOOLEAN /\ locked \in Calls
    /\ Len(made_for) \in 0..MaxGraphs /\ DOMAIN built = DOMAIN made_for
    /\ flag \in [Graphs -> Calls]
    /\ phase \in {"reset", "preconsume", "consume"} /\ phase_owner \in Calls
    /\ camera_data \in CameraData /\ refused \in BOOLEAN
    /\ Len(entries) \in 0..with_capacity

Init ==
    /\ committed = 0 /\ in_order = <<>> /\ executed = <<>>
    /\ links = <<>> /\ flush_link = 0 /\ flushing = FALSE /\ locked = 0
    /\ made_for = <<>> /\ built = <<>> /\ flag = [g \in Graphs |-> 0]
    /\ phase = "reset" /\ phase_owner = 0 /\ camera_data = NewScene
    /\ refused = FALSE /\ entries = <<>>

-----------------------------------------------------------------------------
(* The counters.                                                           *)

\* Mutant of Resolved: the counter of a link covers what the call dispatched
\* but not what its RenderFrame job continued with.
ResolvedWithBody(k) ==
    \A j \in DOMAIN links \cap {k}:
        links[j].done /\ links[j].body \in {"none", "over"}

(* The counter of link k is at zero; a link without jobs passes on the     *)
(* wait it was given.                                                      *)
Resolved(k) ==
    \A j \in DOMAIN links \cap {k}:
        /\ links[j].done
        /\ links[j].body \in {"none", "over"}
        /\ links[j].tail \in {"none", "done"}

-----------------------------------------------------------------------------
(* The calls.                                                              *)

(* Any thread may commit a command, while jobs run.                        *)
CommitCommand ==
    /\ committed < MaxCommands
    /\ committed' = committed + 1
    /\ in_order' = Append(in_order, committed')
    /\ UNCHANGED <<flush_link, flushing, executed, links, graphVars, frameVars>>

\* Mutant of NewLink: the new builder does not wait for the frame before.
NewLinkUnchained(frame) ==
    [commands |-> in_order, frame |-> frame, after |-> 0, done |-> FALSE,
     body |-> IF frame = NoFrame THEN "none" ELSE "todo", graph |-> NoGraph,
     nodes |-> "none", tail |-> "none", synced |-> FALSE,
     prepared |-> NothingPrepared]

(* begin_render_scene_builder: wait for the frame before, then drain the   *)
(* queue into one job.                                                     *)
NewLink(frame) ==
    [commands |-> in_order, frame |-> frame, after |-> flush_link,
     done |-> FALSE, body |-> IF frame = NoFrame THEN "none" ELSE "todo",
     graph |-> NoGraph, nodes |-> "none", tail |-> "none", synced |-> FALSE,
     prepared |-> NothingPrepared]

DispatchLink(frame) ==
    /\ ~flushing /\ Len(links) < MaxCalls
    /\ links' = Append(links, NewLink(frame))
    /\ in_order' = <<>>
    /\ flush_link' = Len(links')

render_scene ==
    /\ \E f \in Frames: DispatchLink(f)
    /\ UNCHANGED <<committed, flushing, executed, graphVars, frameVars>>

sync_with_render_commands ==
    /\ DispatchLink(NoFrame)
    /\ flushing' = TRUE
    /\ UNCHANGED <<committed, executed, graphVars, frameVars>>

flush_previous_frame_commands_processing ==
    /\ ~flushing /\ ~Resolved(flush_link)
    /\ flushing' = TRUE
    /\ UNCHANGED <<committed, in_order, flush_link, executed, links, graphVars,
                   frameVars>>

FlushReturns ==
    /\ flushing /\ Resolved(flush_link)
    /\ flushing' = FALSE
    /\ UNCHANGED <<committed, in_order, flush_link, executed, links, graphVars,
                   frameVars>>

(* Through FrameRendererHandle::with_mut the client looks an entry up and  *)
(* sets its graph, built or not, as nothing in the renderer can build one. *)
InstallGraph ==
    /\ locked = 0 /\ Len(made_for) < MaxGraphs
    /\ \E f \in Frames, b \in BOOLEAN:
          LET found == Lookup(f)
          IN  /\ made_for' = Append(made_for, f)
              /\ built' = Append(built, b)
              /\ entries' = [found.entries EXCEPT ![found.index].final_graph =
                                Len(made_for')]
    /\ UNCHANGED <<callVars, executed, links, flag, frameVars>>

-----------------------------------------------------------------------------
(* The jobs of a link.                                                     *)

(* RenderScene/FlushInOrderCommands.                                       *)
RunCommands(k) ==
    /\ ~links[k].done /\ Resolved(links[k].after)
    /\ executed' = executed \o links[k].commands
    /\ links' = [links EXCEPT ![k].done = TRUE]
    /\ UNCHANGED <<callVars, graphVars, frameVars>>

MayRender(k) ==
    /\ links[k].body = "todo" /\ links[k].done /\ Resolved(links[k].after)
    /\ locked = 0

BodyEnds(k) == links' = [links EXCEPT ![k].body = "over"]

\* Mutant of RenderNothing: a frame without extent is put off until it has one.
RenderLater(k) ==
    /\ MayRender(k) /\ links[k].frame.extent = 0
    /\ UNCHANGED vars

(* A frame without extent ends before it looks at anything.                *)
RenderNothing(k) ==
    /\ MayRender(k) /\ links[k].frame.extent = 0
    /\ BodyEnds(k)
    /\ UNCHANGED <<callVars, executed, graphVars, frameVars>>

(* The cache has no graph for the frame: rebuild_cached_graph asks the     *)
(* builder for the kinds of the setups, which it builds none of, and the   *)
(* entry stays behind without a graph.                                     *)
RebuildFails(k) ==
    /\ MayRender(k) /\ links[k].frame.extent > 0
    /\ Lookup(links[k].frame).rebuild
    /\ BuildKinds(links[k].frame) # <<>>
    /\ entries' = Lookup(links[k].frame).entries
    /\ BodyEnds(k)
    /\ UNCHANGED <<callVars, executed, made_for, built, flag, frameVars>>

Found(k) ==
    LET found == Lookup(links[k].frame)
    IN  found.entries[found.index].final_graph

(* The cameras of the scene are synced when the frame has a graph.         *)
SyncCameras(k) ==
    camera_data' = sync_scene_cameras(camera_data, CamerasOf(links[k].frame), k)

(* The executor refuses a graph whose flow groups are not built.           *)
ExecuteUnbuilt(k) ==
    /\ MayRender(k) /\ links[k].frame.extent > 0
    /\ ~Lookup(links[k].frame).rebuild /\ ~built[Found(k)]
    /\ entries' = Lookup(links[k].frame).entries
    /\ SyncCameras(k)
    /\ links' = [links EXCEPT ![k].body = "over", ![k].synced = TRUE]
    /\ UNCHANGED <<callVars, executed, made_for, built, flag, locked, phase,
                   phase_owner, refused>>

(* The runtime resets the allocator, the graph's flag is taken and the     *)
(* node job goes off on a builder of its own.  A taken flag ends the frame *)
(* after the reset.                                                        *)
BeginExecution(k) ==
    /\ MayRender(k) /\ links[k].frame.extent > 0
    /\ ~Lookup(links[k].frame).rebuild /\ built[Found(k)]
    /\ entries' = Lookup(links[k].frame).entries
    /\ SyncCameras(k)
    /\ phase' = "reset" /\ phase_owner' = k
    /\ IF flag[Found(k)] = 0
       THEN /\ flag' = [flag EXCEPT ![Found(k)] = k]
            /\ links' = [links EXCEPT ![k].body = "prepare", ![k].nodes = "todo",
                                      ![k].graph = Found(k), ![k].synced = TRUE]
            /\ locked' = k
            /\ UNCHANGED refused
       ELSE /\ links' = [links EXCEPT ![k].body = "over", ![k].synced = TRUE]
            /\ refused' = TRUE
            /\ UNCHANGED <<flag, locked>>
    /\ UNCHANGED <<callVars, executed, made_for, built>>

(* Custom data of a camera may fail to prepare: the flag and the kickoff   *)
(* go with the runtime, the node job stays.                                *)
PrepareFails(k) ==
    /\ links[k].body = "prepare" /\ CamerasOf(links[k].frame) # {}
    /\ flag' = [flag EXCEPT ![links[k].graph] = 0]
    /\ locked' = 0
    /\ BodyEnds(k)
    /\ UNCHANGED <<callVars, executed, entries, made_for, built, phase,
                   phase_owner, camera_data, refused>>

(* The camera data is prepared, then preconsume and the continuation:      *)
(* resolve, finish the kickoff, clean up.                                  *)
DispatchTail(k) ==
    /\ links[k].body = "prepare"
    /\ phase' = "preconsume"
    /\ links' = [links EXCEPT ![k].body = "over", ![k].tail = "resolve",
                     ![k].prepared = prepare(camera_data, CamerasOf(links[k].frame))]
    /\ locked' = 0
    /\ UNCHANGED <<callVars, executed, graphVars, phase_owner, camera_data,
                   refused>>

(* RunRenderNodeJobs waits for nothing.                                    *)
RunRenderNodeJobs(k) ==
    /\ links[k].nodes = "todo"
    /\ links' = [links EXCEPT ![k].nodes = "done"]
    /\ UNCHANGED <<callVars, executed, graphVars, frameVars>>

(* FlowAllocator_Resolve expects to leave the preconsume phase of its own  *)
(* frame.                                                                  *)
FlowAllocatorResolve(k) ==
    /\ links[k].tail = "resolve"
    /\ refused' = (refused \/ phase # "preconsume" \/ phase_owner # k)
    /\ phase' = "consume"
    /\ links' = [links EXCEPT ![k].tail = "finish"]
    /\ UNCHANGED <<callVars, executed, graphVars, locked, phase_owner,
                   camera_data>>

FinishNodeKickoff(k) ==
    /\ links[k].tail = "finish"
    /\ links' = [links EXCEPT ![k].tail = "cleanup"]
    /\ UNCHANGED <<callVars, executed, graphVars, frameVars>>

(* RunRenderNodeJobs/Cleanup waits for the node job and gives the flag     *)
(* back.                                                                   *)
CleanupNodeJobs(k) ==
    /\ links[k].tail = "cleanup" /\ links[k].nodes = "done"
    /\ flag' = [flag EXCEPT ![links[k].graph] = 0]
    /\ links' = [links EXCEPT ![k].tail = "done"]
    /\ UNCHANGED <<callVars, executed, entries, made_for, built, frameVars>>

-----------------------------------------------------------------------------
Job(k) == \/ RunCommands(k) \/ RenderNothing(k) \/ RebuildFails(k)
          \/ ExecuteUnbuilt(k) \/ BeginExecution(k) \/ PrepareFails(k)
          \/ DispatchTail(k) \/ RunRenderNodeJobs(k) \/ FlowAllocatorResolve(k)
          \/ FinishNodeKickoff(k) \/ CleanupNodeJobs(k)

Client == \/ CommitCommand \/ render_scene \/ sync_with_render_commands
          \/ flush_previous_frame_commands_processing \/ InstallGraph

(* Every call was made and every job has run.                              *)
Done == /\ Len(links) = MaxCalls /\ ~flushing /\ committed = MaxCommands
        /\ Len(made_for) = MaxGraphs
        /\ \A k \in DOMAIN links: Resolved(k) /\ links[k].nodes # "todo"
        /\ UNCHANGED vars

Next == \/ Client \/ FlushReturns \/ Done
        \/ \E k \in DOMAIN links: Job(k)

(* The workers run every job that is ready.                                *)
Spec == /\ Init /\ [][Next]_vars
        /\ WF_vars(FlushReturns)
        /\ WF_vars(\E k \in DOMAIN links: Job(k))

-----------------------------------------------------------------------------
(* Properties.                                                             *)

Numbers(n) == [i \in 1..n |-> i]

(* Commands run in the order they were committed, each once; a frame       *)
(* starts only after all that were committed before its render_scene call  *)
(* and before any that was committed after.                                *)
CommandsInOrder ==
    /\ executed = Numbers(Len(executed))
    /\ \A k \in DOMAIN links:
          links[k].body = "prepare" \/ links[k].tail \notin {"none", "done"} =>
             LET mine == [i \in 1..k |-> links[i].commands]
                 drained == UNION {{mine[i][j]: j \in DOMAIN mine[i]}: i \in 1..k}
             IN  {executed[i]: i \in DOMAIN executed} = drained

Active(k) == \/ links[k].body = "prepare"
             \/ links[k].tail \in {"resolve", "finish", "cleanup"}

(* The frame that last synced without one in between that did not show c.  *)
MadeIn(c, k) ==
    LET shows(j) == ~links[j].synced \/ c \in CamerasOf(links[j].frame)
    IN  CHOOSE j \in 1..k:
          /\ links[j].synced /\ \A i \in j..k: shows(i)
          /\ \A i \in 1..j-1: links[i].synced => \E l \in i..j-1: ~shows(l)

(* While a frame is under way the scene's data is that of its cameras, and *)
(* what was prepared of it is found under each of them.  The data of a     *)
(* camera lasts from frame to frame as long as every frame that synced     *)
(* showed it, whatever failed and however many frames ended before that.   *)
CameraDataLasts ==
    \A k \in DOMAIN links: Active(k) =>
        LET ids == CamerasOf(links[k].frame)
        IN  /\ DOMAIN camera_data = ids
            /\ \A c \in ids:
                  /\ camera_data[c] = MadeIn(c, k)
                  /\ links[k].tail # "none" =>
                        /\ CanGetCamera(links[k].prepared, c)
                        /\ links[k].prepared[c] = {camera_data[c]}

(* The frames share one allocator, one cache and the graphs in it without  *)
(* a lock across their jobs.  At most one frame is between its start and   *)
(* its cleanup; its graph carries its flag all that time and no other      *)
(* graph carries any; no execution finds the flag taken and no resolve job *)
(* finds the allocator outside the preconsume phase of its own frame.      *)
FramesDoNotOverlap ==
    /\ TypeOK
    /\ \A j, k \in DOMAIN links: Active(j) /\ Active(k) => j = k
    /\ \A g \in Graphs:
          \/ flag[g] = 0
          \/ Active(flag[g]) /\ links[flag[g]].graph = g
    /\ \A k \in DOMAIN links: Active(k) => flag[links[k].graph] = k
    /\ CameraDataLasts
    /\ ~refused

(* A frame executes only a graph that was made for a frame of the same     *)
(* mode, purpose, capture and debug view, with as many camera setups, and  *)
(* with cameras of the same features and dependencies where they count,    *)
(* whatever lookups failed, evicted and took over entries in between.      *)
ExecutesItsGraph ==
    \A k \in DOMAIN links:
        links[k].graph # NoGraph =>
            LET made == made_for[links[k].graph]
                asked == links[k].frame
            IN  /\ made.mode = asked.mode /\ made.purpose = asked.purpose
                /\ made.capture = asked.capture /\ made.view = asked.view
                /\ camera_setup_count(made) = camera_setup_count(asked)
                /\ NumCameras(made) = NumCameras(asked)
                /\ \A i \in 1..NumCameras(asked):
                      /\ made.cameras[i].features = asked.cameras[i].features
                      /\ made.cameras[i].dependencies =
                            asked.cameras[i].dependencies

(* Every call's work comes to its end, whatever fails in it, and no flush  *)
(* waits forever: as the client makes finitely many calls, again and again *)
(* there is nothing left to wait for.                                      *)
FramesComeToTheirEnd ==
    []<>(~flushing /\ \A k \in DOMAIN links: Resolved(k))
=============================================================================
