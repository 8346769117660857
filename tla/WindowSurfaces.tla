--------------------------- MODULE WindowSurfaces ---------------------------
(***************************************************************************)
(* The windows of the main world, the records the render world keeps of    *)
(* them and the surfaces made for those records: leet_render's             *)
(* extract/window.rs, window/render_windows.rs and window/surface.rs.      *)
(*                                                                         *)
(* Each operator below is one of the systems.  A system visits the windows *)
(* one by one and a window's turn touches nothing of another, so a system  *)
(* is a function from the cells (record, surface, misuse) of every window  *)
(* to their next cells.  The device is external: a surface knows whether a *)
(* texture acquired from it is still alive (configuring, acquiring from or *)
(* destroying it meanwhile is a misuse), and stays outdated until it is    *)
(* configured and lost until it is replaced.                               *)
(***************************************************************************)
EXTENDS Integers, FiniteSets

CONSTANTS
    Windows,            \* the window entities
    Handles, Sizes,     \* raw handles and physical sizes of a window
    Modes,              \* the present modes a window asks for
    SupportedModes,     \* the present modes the surfaces support
    Closed, NoRecord, NoSurface, NoTexture

VARIABLES
    opened,       \* main world: [Windows -> Closed or what the window is now]
    cells,        \* render world: [Windows -> record, surface, misused]
    configured,   \* WindowSurfaces::configured_windows
    shown         \* what each window presented in the last frame, or NoTexture

Facts == [handle: Handles, size: Sizes, mode: Modes]

(* What a surface is configured to and a texture is acquired with.         *)
Shapes == [handle: Handles, size: Sizes, mode: SupportedModes]

Records == [handle: Handles, size: Sizes, mode: Modes,
            texture: Shapes \cup {NoTexture},
            handle_changed: BOOLEAN, size_changed: BOOLEAN,
            present_mode_changed: BOOLEAN,
            needs_surface_reconfigure: BOOLEAN, needs_surface_rebuild: BOOLEAN]

Surfaces == [shape: Shapes, acquired: BOOLEAN,
             health: {"Success", "Outdated", "Lost"}]

(* Every surface supports Fifo, the last of every fallback list, and the   *)
(* four markers are none of the things they stand in place of.             *)
ASSUME FifoAssumption == "Fifo" \in SupportedModes

ASSUME WindowsAssumption ==
    /\ IsFiniteSet(Windows)
    /\ Facts # {}
    /\ NoTexture \notin Shapes /\ NoRecord \notin Records
    /\ NoSurface \notin Surfaces /\ Closed \notin Facts

Cells == [record: Records \cup {NoRecord}, surface: Surfaces \cup {NoSurface},
          misused: BOOLEAN]

WindowsTypeOK ==
    /\ opened \in [Windows -> Facts \cup {Closed}]
    /\ cells \in [Windows -> Cells]
    /\ configured \subseteq Windows
    /\ shown \in [Windows -> Shapes \cup {NoTexture}]

-----------------------------------------------------------------------------
(* The device, as the systems use it.                                      *)

(* The order in which a requested mode falls back.                         *)
Fallbacks(mode) ==
    CASE mode = "AutoVsync" -> <<"FifoRelaxed", "Fifo">>
      [] mode = "AutoNoVsync" -> <<"Immediate", "Mailbox", "Fifo">>
      [] mode = "Mailbox" -> <<"Mailbox", "Immediate", "Fifo">>
      [] OTHER -> <<mode, "Fifo">>

select_present_mode(mode) ==
    LET list == Fallbacks(mode)
        found == {i \in DOMAIN list: list[i] \in SupportedModes}
    IN  list[CHOOSE i \in found: \A j \in found: i <= j]

(* The shape a record asks its surface to have.                            *)
Wanted(r) == [handle |-> r.handle, size |-> r.size,
              mode |-> select_present_mode(r.mode)]

(* Dropping the texture a record holds gives it back to its surface.       *)
clear_swapchain_texture(c) ==
    [c EXCEPT !.record.texture = NoTexture,
              !.surface = IF @ = NoSurface THEN @
                          ELSE [@ EXCEPT !.acquired = FALSE]]

RemoveSurface(c) ==
    [c EXCEPT !.surface = NoSurface,
              !.misused = @ \/ (c.surface # NoSurface /\ c.surface.acquired)]

Configure(c, shape) ==
    [c EXCEPT !.surface.shape = shape,
              !.surface.health = IF @ = "Lost" THEN @ ELSE "Success",
              !.misused = @ \/ c.surface.acquired]

Acquire(c) ==
    [c EXCEPT !.record.texture = c.surface.shape,
              !.surface.acquired = TRUE,
              !.misused = @ \/ c.surface.acquired]

-----------------------------------------------------------------------------
(* Extraction, with the main world at rest.                                *)

NewRecord(f) ==
    [handle |-> f.handle, size |-> f.size, mode |-> f.mode,
     texture |-> NoTexture, handle_changed |-> FALSE, size_changed |-> FALSE,
     present_mode_changed |-> FALSE, needs_surface_reconfigure |-> FALSE,
     needs_surface_rebuild |-> FALSE]

(* An existing record compares itself with the window: the three change    *)
(* flags are those of this extraction only, the two needs are kept until a *)
(* system has served them.                                                 *)
RefreshRecord(r, f) ==
    LET changed == [h |-> f.handle # r.handle, s |-> f.size # r.size,
                    m |-> f.mode # r.mode]
    IN  [r EXCEPT !.handle = f.handle, !.size = f.size, !.mode = f.mode,
                  !.handle_changed = changed.h, !.size_changed = changed.s,
                  !.present_mode_changed = changed.m,
                  !.needs_surface_rebuild = changed.h \/ @,
                  !.needs_surface_reconfigure = changed.s \/ changed.m \/ @]

(* A record whose window is gone is removed, the texture it may hold with  *)
(* it; its surface stays until the next cleanup.                           *)
extract_windows(cs) ==
    [w \in Windows |->
        CASE opened[w] = Closed /\ cs[w].record = NoRecord -> cs[w]
          [] opened[w] = Closed /\ cs[w].record # NoRecord ->
                 [clear_swapchain_texture(cs[w]) EXCEPT !.record = NoRecord]
          [] opened[w] # Closed /\ cs[w].record = NoRecord ->
                 [cs[w] EXCEPT !.record = NewRecord(opened[w])]
          [] OTHER ->
                 [cs[w] EXCEPT !.record = RefreshRecord(@, opened[w])]]

-----------------------------------------------------------------------------
(* The systems of RenderSystems::Prepare, in the order the plugin chains.  *)

Live(cs) == {w \in Windows: cs[w].record # NoRecord}

cleanup_stale_surfaces(cs) ==
    [w \in Windows |-> IF w \in Live(cs) THEN cs[w] ELSE RemoveSurface(cs[w])]

NeedsConfiguration(cs, w) ==
    \/ w \notin configured
    \/ cs[w].record.handle_changed
    \/ cs[w].record.size_changed
    \/ cs[w].record.present_mode_changed
    \/ cs[w].record.needs_surface_reconfigure
    \/ cs[w].record.needs_surface_rebuild

\* Mutant of window_surface_needs_configuration: the sticky needs are not
\* looked at, only what this extraction saw change.
NeedsIgnored(cs) ==
    \E w \in Live(cs):
        \/ w \notin configured
        \/ cs[w].record.handle_changed
        \/ cs[w].record.size_changed
        \/ cs[w].record.present_mode_changed

(* The run condition of create_surfaces: one window is enough.             *)
window_surface_needs_configuration(cs) ==
    \E w \in Live(cs): NeedsConfiguration(cs, w)

\* Mutant of ReplacesSurface: a new handle keeps the surface of the old one.
LossOnly(r) == r.needs_surface_rebuild /\ ~r.handle_changed

ReplacesSurface(r) == r.handle_changed \/ r.needs_surface_rebuild

CreateSurface(c) ==
    LET r == c.record
        kept == IF ReplacesSurface(r)
                THEN RemoveSurface(clear_swapchain_texture(c)) ELSE c
        made == IF kept.surface = NoSurface
                THEN [kept EXCEPT !.surface =
                         [shape |-> Wanted(r), acquired |-> FALSE,
                          health |-> "Success"]]
                ELSE kept
        fitted == IF \/ r.size_changed \/ r.present_mode_changed
                     \/ r.needs_surface_reconfigure
                  THEN Configure(clear_swapchain_texture(made),
                                 [made.surface.shape EXCEPT
                                     !.size = r.size,
                                     !.mode = select_present_mode(r.mode)])
                  ELSE made
    IN  [fitted EXCEPT !.record.handle_changed = FALSE,
                       !.record.needs_surface_rebuild = FALSE,
                       !.record.needs_surface_reconfigure = FALSE]

create_surfaces(cs) ==
    [w \in Windows |-> IF w \in Live(cs) THEN CreateSurface(cs[w]) ELSE cs[w]]

(* What get_current_texture may answer.  Suboptimal is handled as Success, *)
(* Validation as Lost and Occluded as Timeout.                             *)
Answers == {"Success", "Outdated", "Lost", "Timeout"}

Failing(c, answer) ==
    [c EXCEPT !.surface.health =
        IF answer \in {"Outdated", "Lost"} THEN answer ELSE @]

(* The answer to the first call, and to the retry after an Outdated one.   *)
PrepareWindow(c, answer, retry) ==
    LET failed == Failing(clear_swapchain_texture(c), answer)
        again == Configure(failed, failed.surface.shape)
    IN  CASE answer = "Success" -> Acquire(c)
          [] answer = "Outdated" /\ retry = "Success" -> Acquire(again)
          [] answer = "Outdated" /\ retry # "Success" ->
                 [Failing(again, retry) EXCEPT
                     !.record.needs_surface_reconfigure = TRUE]
          [] answer = "Lost" ->
                 [failed EXCEPT !.record.needs_surface_rebuild = TRUE]
          [] OTHER -> failed

(* A window without a surface, or that still holds a texture of the same   *)
(* size and mode, is passed over.                                          *)
Acquires(c) ==
    /\ c.record # NoRecord
    /\ c.surface # NoSurface
    /\ \/ c.record.texture = NoTexture
       \/ c.record.size_changed
       \/ c.record.present_mode_changed

prepare_windows(cs, answers, retries) ==
    [w \in Windows |->
        IF Acquires(cs[w]) THEN PrepareWindow(cs[w], answers[w], retries[w])
        ELSE cs[w]]

-----------------------------------------------------------------------------
(* RenderSystems::Render: what was acquired is presented, which gives the  *)
(* texture back.                                                           *)
Holds(cs) == {w \in Live(cs): cs[w].record.texture # NoTexture}

smoke_test_render_windows(cs) ==
    [w \in Windows |->
        IF w \in Holds(cs) THEN clear_swapchain_texture(cs[w]) ELSE cs[w]]

=============================================================================
