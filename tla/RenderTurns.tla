----------------------------- MODULE RenderTurns -----------------------------
(***************************************************************************)
(* The render sub-app between the main thread and the render thread:       *)
(* leet_render's app/plugin.rs and app/pipelined_rendering.rs, with the    *)
(* windows and surfaces (WindowSurfaces) as the data its turns work on.    *)
(*                                                                         *)
(* In immediate mode the main thread extracts and then runs the render     *)
(* schedule itself.  In pipelined mode Plugin::cleanup detaches the render *)
(* app, puts it in one of two channels of capacity one and spawns the      *)
(* render thread; each update of the main app takes the render app from    *)
(* the one channel, extracts, and sends it through the other, while the    *)
(* render thread runs the schedule between its receive and its send.       *)
(*                                                                         *)
(* The runner around the app, which updates it until an exit is asked for  *)
(* and then drops it, is external.                                         *)
(***************************************************************************)
EXTENDS WindowSurfaces

CONSTANTS
    MaxChanges,   \* bound: changes to the windows by the main world
    MaxFaults,    \* bound: faults of the device
    Panics        \* whether a render system may panic on the render thread

ASSUME ChangesAssumption == {MaxChanges, MaxFaults} \subseteq Nat

VARIABLES
    pipelined,    \* whether PipelinedRenderingPlugin is installed
    main,         \* where the main thread is
    thread,       \* where the render thread is
    place,        \* where the render app is
    turn,         \* the system of the render schedule that runs next
    lent,         \* RenderAppChannels::render_app_in_render_thread
    claimant,     \* the thread that claimed the flush thread
    exiting,      \* whether an AppExit was written
    crashed,      \* whether the render thread panicked
    dropper,      \* the thread that dropped the render app
    changes, faults

windowVars == <<opened, cells, configured, shown>>
handVars == <<pipelined, main, thread, place, turn, lent, claimant, exiting,
              crashed, dropper>>
turnsVars == <<windowVars, handVars, changes, faults>>

Threads == {"main", "render"}

NewWindow == CHOOSE f \in Facts: TRUE

Changed(f) ==
    ({[f EXCEPT !.handle = h]: h \in Handles} \cup
     {[f EXCEPT !.size = n]: n \in Sizes} \cup
     {[f EXCEPT !.mode = m]: m \in Modes}) \ {f}

TurnsTypeOK ==
    /\ WindowsTypeOK
    /\ pipelined \in BOOLEAN /\ lent \in BOOLEAN /\ exiting \in BOOLEAN
    /\ crashed \in BOOLEAN
    /\ main \in {"cleanup", "update", "recv", "extract", "send", "turn",
                 "after", "drop", "down"}
    /\ thread \in {"none", "recv", "turn", "send", "over"}
    /\ place \in {"main", "to_render", "render", "to_main", "gone"}
    /\ turn \in {"idle", "claim", "cleanup", "create", "prepare", "render"}
    /\ claimant \in Threads \cup {"none"} /\ dropper \in Threads \cup {"none"}
    /\ changes \in 0..MaxChanges /\ faults \in 0..MaxFaults

TurnsInit ==
    /\ \E first \in Windows:
          opened = [w \in Windows |-> IF w = first THEN NewWindow ELSE Closed]
    /\ cells = [w \in Windows |-> [record |-> NoRecord, surface |-> NoSurface,
                                   misused |-> FALSE]]
    /\ configured = {}
    /\ shown = [w \in Windows |-> NoTexture]
    /\ pipelined \in BOOLEAN
    /\ main = "cleanup" /\ thread = "none" /\ place = "main" /\ turn = "idle"
    /\ lent = FALSE /\ claimant = "none" /\ exiting = FALSE /\ crashed = FALSE
    /\ dropper = "none" /\ changes = 0 /\ faults = 0

Steps(m, t, p) == main' = m /\ thread' = t /\ place' = p

-----------------------------------------------------------------------------
(* The main thread.                                                        *)

(* PipelinedRenderingPlugin::cleanup: the app enters the channel the main  *)
(* thread will take it from, and the render thread starts waiting.         *)
Cleanup ==
    /\ main = "cleanup"
    /\ IF pipelined THEN Steps("update", "recv", "to_main")
                    ELSE Steps("update", thread, place)
    /\ UNCHANGED <<windowVars, pipelined, turn, lent, claimant, exiting,
                   crashed, dropper, changes, faults>>

(* The main world's own systems open or close a window, or change one of   *)
(* the things the render world looks at.                                   *)
ChangeWindow ==
    /\ main = "update" /\ changes < MaxChanges /\ ~exiting
    /\ \E w \in Windows:
          /\ \E f \in IF opened[w] = Closed THEN {NewWindow}
                      ELSE {Closed} \cup Changed(opened[w]):
                opened' = [opened EXCEPT ![w] = f]
    /\ changes' = changes + 1
    /\ UNCHANGED <<cells, configured, shown, handVars, faults>>

(* The runner drops an app it has not updated, or one that asked to exit.  *)
RequestExit ==
    /\ main \in {"cleanup", "update"} /\ ~exiting
    /\ exiting' = TRUE
    /\ main' = "after"
    /\ UNCHANGED <<windowVars, pipelined, thread, place, turn, lent, claimant,
                   crashed, dropper, changes, faults>>

EndUpdate ==
    /\ main = "update"
    /\ main' = IF pipelined THEN "recv" ELSE "extract"
    /\ UNCHANGED <<windowVars, pipelined, thread, place, turn, lent, claimant,
                   exiting, crashed, dropper, changes, faults>>

(* RenderAppChannels::recv: with the sender gone it answers None, and      *)
(* renderer_extract asks for an exit with an error.                        *)
ReceiveApp ==
    /\ main = "recv"
    /\ \/ /\ place = "to_main"
          /\ Steps("extract", thread, "main")
          /\ lent' = FALSE
          /\ UNCHANGED exiting
       \/ /\ thread = "over" /\ place # "to_main"
          /\ Steps("after", thread, place)
          /\ exiting' = TRUE
          /\ UNCHANGED lent
    /\ UNCHANGED <<windowVars, pipelined, turn, claimant, crashed, dropper,
                   changes, faults>>

(* extract: the main world is moved into the render world, the extract     *)
(* schedule runs, and it is moved back.                                    *)
ExtractApp ==
    /\ main = "extract"
    /\ cells' = extract_windows(cells)
    /\ main' = IF pipelined THEN "send" ELSE "turn"
    /\ turn' = IF pipelined THEN turn ELSE "claim"
    /\ UNCHANGED <<opened, configured, shown, pipelined, thread, place, lent,
                   claimant, exiting, crashed, dropper, changes, faults>>

SendApp ==
    /\ main = "send"
    /\ Steps("after", thread, "to_render")
    /\ lent' = TRUE
    /\ UNCHANGED <<windowVars, pipelined, turn, claimant, exiting, crashed,
                   dropper, changes, faults>>

(* The runner: another update, or the app is dropped.                      *)
AfterUpdate ==
    /\ main = "after"
    /\ main' = IF exiting THEN "drop" ELSE "update"
    /\ UNCHANGED <<windowVars, pipelined, thread, place, turn, lent, claimant,
                   exiting, crashed, dropper, changes, faults>>

\* Mutant of DropApp: the channels are dropped without taking the app back.
DropDoesNotWait ==
    /\ main = "drop"
    /\ \/ /\ place = "main"
          /\ Steps("down", thread, "gone") /\ dropper' = "main"
       \/ /\ place # "main"
          /\ Steps("down", thread, place) /\ UNCHANGED dropper
    /\ UNCHANGED <<windowVars, pipelined, turn, lent, claimant, exiting,
                   crashed, changes, faults>>

(* RenderAppChannels::drop first takes back an app that is lent.  An app   *)
(* of the immediate mode is dropped with the main app.  The channels go    *)
(* with the world; the job system is shut down with the render world.      *)
DropApp ==
    /\ main = "drop"
    /\ \/ /\ place = "main"
          /\ Steps("down", thread, "gone") /\ dropper' = "main"
       \/ /\ lent /\ place = "to_main"
          /\ Steps("down", thread, "gone") /\ dropper' = "main"
       \/ /\ lent /\ thread = "over" /\ place # "to_main"
          /\ Steps("down", thread, place) /\ UNCHANGED dropper
       \/ /\ ~lent /\ place # "main"
          /\ Steps("down", thread, place) /\ UNCHANGED dropper
    /\ UNCHANGED <<windowVars, pipelined, turn, lent, claimant, exiting,
                   crashed, changes, faults>>

-----------------------------------------------------------------------------
(* The render thread.                                                      *)

(* Waiting for the app, or finding the channel closed: then the thread     *)
(* ends, and an app left in the other channel dies with that channel.      *)
ThreadReceives ==
    /\ thread = "recv"
    /\ \/ /\ place = "to_render"
          /\ Steps(main, "turn", "render") /\ turn' = "claim"
          /\ UNCHANGED dropper
       \/ /\ main = "down" /\ place = "to_main"
          /\ Steps(main, "over", "gone") /\ dropper' = "render"
          /\ UNCHANGED turn
       \/ /\ main = "down" /\ place = "gone"
          /\ Steps(main, "over", place)
          /\ UNCHANGED <<turn, dropper>>
    /\ UNCHANGED <<windowVars, pipelined, lent, claimant, exiting, crashed,
                   changes, faults>>

\* Mutant of ThreadSends: the thread ends after its first turn.
ThreadSendsOnce ==
    /\ thread = "send"
    /\ Steps(main, "over", "to_main") /\ UNCHANGED dropper
    /\ UNCHANGED <<windowVars, pipelined, turn, lent, claimant, exiting,
                   crashed, changes, faults>>

(* Sending the app back; without a receiver it is dropped here.            *)
ThreadSends ==
    /\ thread = "send"
    /\ IF main = "down"
       THEN Steps(main, "over", "gone") /\ dropper' = "render"
       ELSE Steps(main, "recv", "to_main") /\ UNCHANGED dropper
    /\ UNCHANGED <<windowVars, pipelined, turn, lent, claimant, exiting,
                   crashed, changes, faults>>

(* A panic in the schedule unwinds the thread: the app and both ends of    *)
(* the channels it holds are dropped.                                      *)
ThreadPanics ==
    /\ Panics /\ thread = "turn"
    /\ Steps(main, "over", "gone")
    /\ turn' = "idle" /\ crashed' = TRUE /\ dropper' = "render"
    /\ UNCHANGED <<windowVars, pipelined, lent, claimant, exiting, changes,
                   faults>>

-----------------------------------------------------------------------------
(* The render schedule, a system at a time, on the thread that updates the *)
(* render app.                                                             *)

Runner == IF main = "turn" THEN "main" ELSE "render"

NextSystem(from, to) ==
    /\ turn = from
    /\ turn' = to
    /\ UNCHANGED <<pipelined, place, lent, exiting, crashed, dropper, changes>>

(* claim_job_system_flush_thread_once; the extraction's deferred commands  *)
(* are applied in the set after it.                                        *)
ClaimFlushThread ==
    /\ NextSystem("claim", "cleanup")
    /\ claimant' = IF claimant = "none" THEN Runner ELSE claimant
    /\ UNCHANGED <<windowVars, main, thread, faults>>

CleanupStaleSurfaces ==
    /\ NextSystem("cleanup", "create")
    /\ cells' = cleanup_stale_surfaces(cells)
    /\ configured' = configured \cap Live(cells)
    /\ UNCHANGED <<opened, shown, main, thread, claimant, faults>>

CreateSurfaces ==
    /\ NextSystem("create", "prepare")
    /\ IF window_surface_needs_configuration(cells)
       THEN /\ cells' = create_surfaces(cells)
            /\ configured' = configured \cup Live(cells)
       ELSE UNCHANGED <<cells, configured>>
    /\ UNCHANGED <<opened, shown, main, thread, claimant, faults>>

(* The device answers.  A surface that is outdated or lost says so again;  *)
(* any other answer but Success is a new fault.                            *)
PrepareWindows ==
    /\ NextSystem("prepare", "render")
    /\ \E answers, retries \in [Windows -> Answers]:
          LET asked == {w \in Windows: Acquires(cells[w])}
              sick == {w \in asked: cells[w].surface.health # "Success"}
              new == {w \in asked \ sick: answers[w] # "Success"}
              again == {w \in asked: retries[w] # "Success"}
          IN  /\ \A w \in Windows \ asked: answers[w] = "Success"
              /\ \A w \in sick: answers[w] = cells[w].surface.health
              /\ \A w \in Windows:
                    answers[w] # "Outdated" => retries[w] = "Success"
              /\ faults' = faults + Cardinality(new) + Cardinality(again)
              /\ faults' <= MaxFaults
              /\ cells' = prepare_windows(cells, answers, retries)
    /\ UNCHANGED <<opened, configured, shown, main, thread, claimant>>

(* The last system; the update returns to whoever runs it.                 *)
RenderWindows ==
    /\ NextSystem("render", "idle")
    /\ shown' = [w \in Windows |-> IF w \in Holds(cells)
                                   THEN cells[w].record.texture ELSE NoTexture]
    /\ cells' = smoke_test_render_windows(cells)
    /\ main' = IF main = "turn" THEN "after" ELSE main
    /\ thread' = IF thread = "turn" THEN "send" ELSE thread
    /\ UNCHANGED <<opened, configured, claimant, faults>>

-----------------------------------------------------------------------------
MainStep == \/ Cleanup \/ EndUpdate \/ ReceiveApp \/ ExtractApp \/ SendApp
            \/ AfterUpdate \/ DropApp

ThreadStep == ThreadReceives \/ ThreadSends

TurnStep == \/ ClaimFlushThread \/ CleanupStaleSurfaces \/ CreateSurfaces
            \/ PrepareWindows \/ RenderWindows

(* The process has ended.                                                  *)
Ended == main = "down" /\ thread \in {"none", "over"}

TurnsDone == Ended /\ UNCHANGED turnsVars

TurnsNext == \/ MainStep \/ ThreadStep \/ TurnStep \/ ThreadPanics
        \/ ChangeWindow \/ RequestExit \/ TurnsDone

(* The operating system runs both threads, and the runner updates the app. *)
TurnsSpec == /\ TurnsInit /\ [][TurnsNext]_turnsVars
        /\ WF_turnsVars(MainStep) /\ WF_turnsVars(ThreadStep) /\ WF_turnsVars(TurnStep)

-----------------------------------------------------------------------------
(* Properties.                                                             *)

(* When a frame is presented, every texture in a record was acquired from  *)
(* the surface of that window as it is configured now, and that surface    *)
(* has the handle, the size and the mode the extraction of this turn saw;  *)
(* and no surface was ever configured, acquired from or destroyed with a   *)
(* texture of it alive.  The flags between extract_windows,                *)
(* create_surfaces and prepare_windows carry this across lost and outdated *)
(* surfaces, closed windows and changed handles.                           *)
TexturesFit ==
    /\ TurnsTypeOK
    /\ \A w \in Windows: ~cells[w].misused
    /\ turn = "render" =>
          \A w \in Holds(cells):
             /\ cells[w].record.texture = cells[w].surface.shape
             /\ cells[w].surface.shape = Wanted(cells[w].record)

(* The hand-off: the main thread sends the render app only while the       *)
(* render thread will receive it, the schedule runs on the thread that     *)
(* claimed the flush thread, and a render world that was lent comes back   *)
(* to the main thread to be dropped there, unless the render thread died   *)
(* with it.                                                                *)
RenderWorldComesHome ==
    /\ main = "send" => thread \in {"recv", "none"}
    /\ turn \notin {"idle", "claim"} => claimant = Runner
    /\ dropper = "render" => crashed \/ claimant = "none"

(* A window whose state no longer changes is presented as it is now, once  *)
(* the device answers again: no loss, outdated surface, resize or reopened *)
(* window leaves it on an old frame for good.                              *)
OpenWindowsAreShown ==
    \A w \in Windows:
        (changes = MaxChanges /\ faults = MaxFaults /\ opened[w] # Closed)
            ~> \/ exiting
               \/ opened[w] # Closed /\ shown[w] = Wanted(opened[w])

(* Dropping the app comes back: the render world is dropped, and with it   *)
(* the job system shut down, and the render thread ends.                   *)
ShutdownComesBack == exiting ~> (Ended /\ place = "gone")
=============================================================================
