----------------------------- MODULE GraphCache -----------------------------
(***************************************************************************)
(* The cache of built graphs (render_graph/graph/cache.rs) and the frame   *)
(* renderer's use of it (rendering/frame_renderer.rs): the shape hash of a *)
(* frame, its camera setups and build kinds, and the lookup that finds an  *)
(* entry or takes over the least recently used one.                        *)
(*                                                                         *)
(* A hash is the tuple of what is hashed: collisions of the 64-bit FNV     *)
(* value are left out.  A graph is a number; what it is made for is        *)
(* recorded by the module that makes it.                                   *)
(***************************************************************************)
EXTENDS Integers, Sequences

CONSTANTS
    Frames,        \* the frame inputs: records of the fields below
    MaxEntries,    \* the capacity the cache is asked for
    NoGraph

(* What is hashed of the enumerations: a number for each of their values.  *)
frame_rendering_mode_key ==
    [Shaded |-> 0, OverlayOnly |-> 1, SafeMode |-> 2, GBufferOnly |-> 3,
     Blank |-> 4]
frame_purpose_key ==
    [Normal |-> 0, Blank |-> 1, Screenshot |-> 2, DeferredScreenshot |-> 3,
     EnvProbe |-> 4, GlobalIllumination |-> 5,
     GlobalIlluminationBackfaces |-> 6]
frame_capture_key == [None |-> 0, Color |-> 1, Layered |-> 2]
frame_debug_graph_view_key == [None |-> 0, Visualization |-> 1]

ASSUME FramesAssumption ==
    \A f \in Frames:
        /\ f.extent \in Nat /\ f.live \in Nat /\ f.tick \in Nat
        /\ f.mode \in DOMAIN frame_rendering_mode_key
        /\ f.purpose \in DOMAIN frame_purpose_key
        /\ f.capture \in DOMAIN frame_capture_key
        /\ f.view \in DOMAIN frame_debug_graph_view_key
        /\ f.cameras \in Seq({f.cameras[i]: i \in DOMAIN f.cameras})
        \* the cameras in order, with the features and formats that shape
        \* their graphs and the cameras of the frame they depend on
        /\ \A i \in DOMAIN f.cameras:
              {"id", "features", "dependencies"} \subseteq DOMAIN f.cameras[i]

ASSUME MaxEntriesAssumption == MaxEntries \in Nat

VARIABLE entries   \* RenderGraphCache::entries

-----------------------------------------------------------------------------
(* The frame renderer.                                                     *)

NumCameras(f) == IF f.mode = "OverlayOnly" THEN 0 ELSE Len(f.cameras)

append_camera_graph_hash(camera) ==
    <<camera.features, camera.dependencies>>

(* Neither who the cameras are nor the live proxies are hashed.            *)
frame_graph_shape_hash(f) ==
    [cameras |-> [i \in 1..NumCameras(f) |->
                     append_camera_graph_hash(f.cameras[i])],
     mode |-> frame_rendering_mode_key[f.mode],
     purpose |-> frame_purpose_key[f.purpose],
     capture |-> frame_capture_key[f.capture],
     view |-> frame_debug_graph_view_key[f.view]]

camera_setup_count(f) ==
    IF NumCameras(f) = 0 \/ f.purpose = "Blank" THEN 1 ELSE NumCameras(f)

resolve_frame_graph_build_kind(f) ==
    CASE NumCameras(f) = 0 -> "Blank without camera"
      [] NumCameras(f) > 0 /\ f.purpose = "Blank" -> "Blank with camera"
      [] NumCameras(f) > 0 /\ f.purpose # "Blank" /\ f.view = "Visualization" ->
             "DebugVisualization"
      [] OTHER ->
             CASE f.mode = "GBufferOnly" -> "GBufferOnly"
               [] f.mode = "SafeMode" /\ f.live > 0 -> "SafeMode"
               [] f.mode = "Shaded" /\ f.live > 0 -> "Camera"
               [] OTHER -> "NoScene"

(* What the setups of a frame are built as.                                *)
BuildKinds(f) ==
    [setup \in 1..camera_setup_count(f) |-> resolve_frame_graph_build_kind(f)]

-----------------------------------------------------------------------------
(* The cache.                                                              *)

(* A cache that is asked for without places gets one.                      *)
with_capacity == IF MaxEntries = 0 THEN 1 ELSE MaxEntries

\* Mutant of Prepared: the entry keeps the graph it had.
PreparedKeepingGraph(old, hash, setups, tick) ==
    [shape_hash |-> hash, last_used_frame |-> tick,
     final_graph |-> old.final_graph, setups |-> setups,
     generation |-> old.generation + 1]

(* prepare_for_rebuild: the graph goes, the camera setups start anew.      *)
Prepared(old, hash, setups, tick) ==
    [shape_hash |-> hash, last_used_frame |-> tick, final_graph |-> NoGraph,
     setups |-> setups, generation |-> old.generation + 1]

NewEntry(hash, setups, tick) ==
    Prepared([generation |-> 0, final_graph |-> NoGraph], hash, setups, tick)

is_hit(e, hash, setups) ==
    /\ e.shape_hash = hash
    /\ e.setups = setups
    /\ e.final_graph # NoGraph

Hits(hash, setups) == {i \in DOMAIN entries: is_hit(entries[i], hash, setups)}

First(indices) == CHOOSE i \in indices: \A j \in indices: i <= j

oldest_entry_index ==
    First({i \in DOMAIN entries: \A j \in DOMAIN entries:
              entries[i].last_used_frame <= entries[j].last_used_frame})

(* get_graph: the entries after the lookup, the entry found, whether it    *)
(* has to be built.                                                        *)
get_graph(hash, setups, tick) ==
    LET hits == Hits(hash, setups)
        used == [e \in {entries[i]: i \in hits} |->
                    [e EXCEPT !.last_used_frame = tick]]
    IN  IF hits # {}
        THEN [entries |-> [entries EXCEPT ![First(hits)] = used[@]],
              index |-> First(hits), rebuild |-> FALSE]
        ELSE IF Len(entries) < with_capacity
        THEN [entries |-> Append(entries, NewEntry(hash, setups, tick)),
              index |-> Len(entries) + 1, rebuild |-> TRUE]
        ELSE [entries |-> [entries EXCEPT ![oldest_entry_index] =
                              Prepared(@, hash, setups, tick)],
              index |-> oldest_entry_index, rebuild |-> TRUE]

Lookup(f) == get_graph(frame_graph_shape_hash(f), camera_setup_count(f), f.tick)
=============================================================================
