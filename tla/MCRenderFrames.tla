--------------------------- MODULE MCRenderFrames ---------------------------
(* Frames that differ in one thing the renderer looks at each.  Two views  *)
(* of one scene have one camera each, and share a graph; the frame index   *)
(* is 0 in the inputs the renderer builds itself.                          *)
EXTENDS RenderFrames

View(id, features) ==
    [id |-> id, features |-> features, dependencies |-> {}]

MCFrame(extent, mode, purpose, cameras, tick) ==
    [extent |-> extent, mode |-> mode, purpose |-> purpose, capture |-> "None",
     view |-> "None", cameras |-> cameras, live |-> 1, tick |-> tick]

MCFrames ==
    {MCFrame(1, "Shaded", "Normal", <<View(1, "a")>>, 0),
     MCFrame(1, "OverlayOnly", "Screenshot", <<View(2, "a")>>, 1),
     MCFrame(1, "Shaded", "Normal", <<View(2, "a")>>, 0),
     MCFrame(0, "Shaded", "Normal", <<>>, 0)}
=============================================================================
