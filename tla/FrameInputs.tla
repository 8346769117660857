---------------------------- MODULE FrameInputs ----------------------------
(***************************************************************************)
(* How a turn of the render schedule turns the submitted cameras into the  *)
(* frames it hands to the renderer: camera extraction (extract/camera.rs), *)
(* the sync of the storage (camera/plugin.rs), and the frame dispatcher    *)
(* (frame_dispatcher.rs, frame_input.rs, frame_target_resolver.rs), with   *)
(* the calls a render-side system may make on the storage in between.      *)
(*                                                                         *)
(* One dispatch prepares the cameras once per window it shows cameras on.  *)
(* It has exclusive access to the storage and the windows, so nothing else *)
(* moves while stage is "build"; its groups are steps of their own because *)
(* each of them may be the one that fails.  Whether a window has acquired  *)
(* a texture is chosen at the end of Prepare.                              *)
(***************************************************************************)
EXTENDS CameraStorage

CONSTANTS
  MaxTick,    \* bound on update_tick: no turn begins at it
  MaxCalls    \* bound on the calls on the storage in a run

ASSUME BoundsAssumption == {MaxTick, MaxCalls} \subseteq Nat

VARIABLES
  stage,      \* where the turn is: extract, prepare, render or build
  acquired,   \* the windows that hold an acquired texture
  groups,     \* the target groups still to be resolved
  frames,     \* the frame inputs this dispatch has built so far
  flushed,    \* whether this dispatch has prepared cameras
  asked,      \* history: temporary dependencies requested and not flushed
  last_shown, \* history: the tick of the last frame that showed each camera
  calls

frameVars == <<stage, acquired, groups, frames, flushed, asked, last_shown, calls>>
vars == <<storage, frameVars>>

Windows == {Target[c] : c \in Cameras} \ {NoTarget}

InitFrames ==
  /\ Init
  /\ stage = "extract"
  /\ acquired = {}
  /\ groups = <<>>
  /\ frames = <<>>
  /\ flushed = FALSE
  /\ asked = {}
  /\ last_shown = [c \in Cameras |-> Unprepared]
  /\ calls = 0

---------------------------------------------------------------------------
(* Extraction and Prepare *)

\* A camera that is unregistered takes along what was asked of it.
StillRegistered(dependencies) ==
  {e \in dependencies : {e[1], e[2]} \subseteq DOMAIN registry'}

\* Nor is a later camera of its id one that was shown.
StillShown(seen) ==
  [c \in Cameras |-> IF c \in DOMAIN registry' THEN seen[c] ELSE Unprepared]

\* extract_cameras: the active cameras with a viewport and a target that has
\* a size.
ExtractCameras ==
  /\ stage = "extract" /\ update_tick < MaxTick
  /\ extracted' \in SUBSET SceneCameras
  /\ stage' = "prepare"
  /\ UNCHANGED <<registry, submitted, selected, update_tick,
                 acquired, groups, frames, flushed, asked, last_shown, calls>>

SyncRenderCameraStorage ==
  /\ stage = "prepare"
  /\ sync_extracted_cameras
  /\ asked' = StillRegistered(asked)
  /\ last_shown' = StillShown(last_shown)
  /\ \E found \in SUBSET Windows : acquired \subseteq found /\ acquired' = found
  /\ stage' = "render"
  /\ UNCHANGED <<groups, frames, flushed, calls>>

---------------------------------------------------------------------------
(* What a render-side system may call *)

Call(reg) ==
  /\ stage \in {"extract", "render"} /\ calls < MaxCalls
  /\ calls' = calls + 1
  /\ registry' = reg /\ registry' # registry
  /\ UNCHANGED <<extracted, submitted, update_tick, stage, acquired, groups, frames, flushed>>

RegisterCamera(c, management, policy) ==
  /\ Call(register_camera(registry, c, 0, management, policy))
  /\ UNCHANGED <<selected, asked, last_shown>>

UnregisterCamera(c) ==
  /\ c \in DOMAIN registry
  /\ Call(unregister_cameras(registry, {c}))
  /\ selected' = StillSelected({c})
  /\ asked' = {e \in asked : c \notin {e[1], e[2]}}
  /\ last_shown' = StillShown(last_shown)

SetCameraEnabled(c, enabled) ==
  /\ c \in DOMAIN registry
  /\ Call([registry EXCEPT ![c].enabled = enabled])
  /\ UNCHANGED <<selected, asked, last_shown>>

AddCameraDependency(parent, child, management) ==
  /\ Call(add_camera_dependency(registry, parent, child, management))
  /\ asked' = IF management = "Temporal" THEN asked \cup {<<parent, child>>}
              ELSE asked \ {<<parent, child>>}
  /\ UNCHANGED <<selected, last_shown>>

RemoveCameraDependency(parent, child) ==
  /\ Call(remove_camera_dependency(registry, parent, child))
  /\ asked' = asked \ {<<parent, child>>}
  /\ UNCHANGED <<selected, last_shown>>

---------------------------------------------------------------------------
(* The dispatch of frames *)

\* The dispatcher's builder keeps what it is constructed with.
construct == [mode |-> "Shaded", purpose |-> "Normal"]

allows_camera_jitter(mode) == mode \in {"Shaded", "GBufferOnly"}
flushes_temporary_cameras(mode) == mode \in {"Shaded", "GBufferOnly", "SafeMode"}
requires_stable_dissolves(purpose) == purpose # "Normal"

CameraPrepareContext ==
  [flush_temporaries |-> flushes_temporary_cameras(construct.mode),
   stable_frame |-> \/ requires_stable_dissolves(construct.purpose)
                    \/ ~ allows_camera_jitter(construct.mode)]

\* A frame needs a view unless it is blank on purpose.
CanBuild(views) == views # <<>> \/ construct.purpose = "Blank"
build_frame_input(group, views) ==
  [window |-> group.declared, tick |-> update_tick,
   requested |-> group.requested_cameras, views |-> views]

\* The cameras of each window, in the order the windows are first submitted;
\* a camera without a window makes no frame.
TargetGroups ==
  FoldLeft(LAMBDA found, c :
    IF c \notin DOMAIN registry \/ Target[c] = NoTarget THEN found
    ELSE IF \E i \in DOMAIN found : found[i].declared = Target[c]
         THEN [i \in DOMAIN found |->
                 IF found[i].declared # Target[c] THEN found[i]
                 ELSE [found[i] EXCEPT !.requested_cameras = @ \cup {c}]]
         ELSE Append(found, [declared |-> Target[c], requested_cameras |-> {c}]),
    <<>>, submitted)

\* FrameInputBuilder::build up to the targets.
BeginDispatch ==
  /\ stage = "render"
  /\ groups' = TargetGroups
  /\ stage' = "build"
  /\ UNCHANGED <<storage, acquired, frames, flushed, asked, last_shown, calls>>

\* The dispatcher goes: after an error with the frames built so far and their
\* textures, at the end without them.
CloseDispatch ==
  /\ frames' = <<>>
  /\ groups' = <<>>
  /\ flushed' = FALSE
  /\ stage' = "extract"

\* resolve: the window gives its texture away, or has none.
ResolveFails ==
  /\ stage = "build" /\ groups # <<>>
  /\ Head(groups).declared \notin acquired
  /\ CloseDispatch
  /\ asked' = IF flushed THEN {} ELSE asked
  /\ UNCHANGED <<storage, acquired, last_shown, calls>>

\* build_targets for one group, and build_frame_input.
BuildTarget ==
  LET group == Head(groups)
      ctx == CameraPrepareContext
      reg == Flushed(ctx.flush_temporaries)
      chosen == select_cameras(reg, group.requested_cameras)
      views == [i \in DOMAIN selected' |-> View(reg, selected'[i], chosen, ctx.stable_frame)]
  IN /\ stage = "build" /\ groups # <<>>
     /\ group.declared \in acquired
     /\ acquired' = acquired \ {group.declared}
     /\ prepare_frame_cameras(group.requested_cameras, ctx.flush_temporaries,
                              ctx.stable_frame, views)
     /\ IF CanBuild(views)
        THEN /\ frames' = Append(frames, build_frame_input(group, views))
             /\ groups' = Tail(groups)
             /\ flushed' = TRUE
             /\ asked' = StillRegistered(asked)
             /\ UNCHANGED stage
        ELSE CloseDispatch /\ asked' = {}
     /\ last_shown' = StillShown([c \in Cameras |->
                        IF c \in ToSet(selected') THEN update_tick ELSE last_shown[c]])
     /\ UNCHANGED calls

\* Every group has its frame; resolve_frames submits them in order.
EndDispatch ==
  /\ stage = "build" /\ groups = <<>>
  /\ CloseDispatch
  /\ asked' = IF flushed THEN {} ELSE asked
  /\ UNCHANGED <<storage, acquired, last_shown, calls>>

\* The application may stop between two turns.
Exit == stage = "extract" /\ UNCHANGED vars

Next ==
  \/ Exit
  \/ ExtractCameras
  \/ SyncRenderCameraStorage
  \/ \E c \in Helpers, management \in Managements, policy \in Policies :
       RegisterCamera(c, management, policy)
  \/ \E c \in Helpers : UnregisterCamera(c)
  \/ \E c \in Cameras, enabled \in BOOLEAN : SetCameraEnabled(c, enabled)
  \/ \E p, c \in Cameras, management \in Managements : AddCameraDependency(p, c, management)
  \/ \E p, c \in Cameras : RemoveCameraDependency(p, c)
  \/ BeginDispatch
  \/ ResolveFails
  \/ BuildTarget
  \/ EndDispatch

Spec == InitFrames /\ [][Next]_vars

---------------------------------------------------------------------------
(* Properties *)

\* A frame shows exactly the enabled cameras that its window asked for or that
\* always render, and the enabled cameras one of those depends on, however
\* often dependencies were added, flushed and removed before (select_cameras);
\* and each view lists the dependencies that are views of the same frame.
SelectionIsClosed ==
  stage = "build" /\ frames # <<>> =>
    LET frame == Last(frames)
        shown == {frame.views[i].camera_id : i \in DOMAIN frame.views}
        enabled == {c \in DOMAIN registry : registry[c].enabled}
        roots == {c \in enabled : registry[c].render_policy = "Always" \/ c \in frame.requested}
    IN /\ shown = roots \cup (enabled \cap UNION {Dependencies(registry, r) : r \in roots})
       /\ \A i \in DOMAIN frame.views :
            frame.views[i].selected_dependencies
              = shown \cap Dependencies(registry, frame.views[i].camera_id)

\* No sequence of registrations, dependencies and removals makes a camera
\* depend on itself, on a camera that is gone (which would attach to the next
\* camera of that id), or on more cameras than the limit; and no camera that is
\* gone stays selected.
DependenciesAreSound ==
  /\ \A c \in DOMAIN registry :
       /\ Dependencies(registry, c) \subseteq DOMAIN registry
       /\ c \notin Below(registry, c)
       /\ Cardinality(Dependencies(registry, c)) <= MAX_CAMERA_DEPENDENCIES
  /\ ToSet(selected) \subseteq DOMAIN registry

\* The flow space names a camera's resources across frames: no two registered
\* cameras share one, whichever kind they are of.
FlowSpacesAreOwn ==
  \A c, d \in DOMAIN registry :
    c # d => registry[c].render_flow_space # registry[d].render_flow_space

\* What is kept of the cameras between frames stays consistent, whatever is
\* registered, replaced, linked or expires.
RegistryIsSound == TypeOK /\ DependenciesAreSound /\ FlowSpacesAreOwn

\* In the first frame of a dispatch the temporary dependencies are those that
\* were requested since the last dispatch that prepared cameras, no fewer and
\* no more, as far as their cameras did not expire in between: a request is
\* neither lost before its frame nor kept after it.
TemporariesAreTheRequested ==
  stage = "build" /\ Len(frames) = 1 =>
    asked = UNION {{<<c, d>> : d \in {e \in Dependencies(registry, c) :
                                        "TEMPORARY" \in registry[c].dependencies[e]}} :
                   c \in DOMAIN registry}

\* What a view takes for its previous frame is the last frame that showed the
\* camera, however many frames, windows and turns lie in between: never an
\* older frame, never one the camera was not in, never one of an earlier camera
\* of that id; and it is not without one that was built since the camera was
\* last registered (prepare_frame_cameras, register_camera).
TakesTheLastFrames ==
  LET views == Last(frames').views
  IN \A i \in DOMAIN views :
       LET c == views[i].camera_id
       IN /\ views[i].previous_frame \in {Unprepared, last_shown[c]}
          /\ registry[c].last_update_tick <= last_shown[c] =>
               views[i].previous_frame = last_shown[c]
HistoryIsOfTheLastFrame == [][Len(frames') > Len(frames) => TakesTheLastFrames]_vars

\* The tests expect a selected camera before the cameras that depend on it.
DependencyFirst ==
  \A k \in DOMAIN frames : \A i, j \in DOMAIN frames[k].views :
    i < j => frames[k].views[j].camera_id \notin frames[k].views[i].selected_dependencies
=============================================================================
