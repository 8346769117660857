--------------------------- MODULE SceneCameraData ---------------------------
(***************************************************************************)
(* The custom data a scene keeps for its cameras between frames            *)
(* (scene/render_scene_registry.rs): made by the registered factories when *)
(* a frame first shows the camera, dropped when a frame does not show it,  *)
(* and prepared for each frame into a set of its own.  The renderer's      *)
(* frames are of one scene, and what the factories make is told apart by   *)
(* when they made it.                                                      *)
(***************************************************************************)
EXTENDS Naturals

(* The scene before its first frame: no camera has data.                   *)
NewScene == <<>>

Kept(data, camera_ids) == [c \in DOMAIN data \cap camera_ids |-> data[c]]
from_factories(camera_ids, now) == [c \in camera_ids |-> now]

(* retain those of the frame, then insert the ones that are missing.       *)
sync_scene_cameras(data, live_camera_ids, now) ==
    LET kept == Kept(data, live_camera_ids)
        made == from_factories(live_camera_ids \ DOMAIN kept, now)
    IN  [c \in live_camera_ids |-> IF c \in DOMAIN kept THEN kept[c] ELSE made[c]]

(* PreparedFrameSceneData: an entry for each camera of the frame, from its *)
(* data if it has any; any of the data, the scene's too, may fail to       *)
(* prepare.                                                                *)
NothingPrepared == <<>>
prepare(data, camera_ids) ==
    [c \in camera_ids |-> IF c \in DOMAIN data THEN {data[c]} ELSE {}]

(* PreparedFrameSceneData::camera refuses a camera without an entry.       *)
CanGetCamera(prepared, c) == c \in DOMAIN prepared
=============================================================================
