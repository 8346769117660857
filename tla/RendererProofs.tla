--------------------------- MODULE RendererProofs ---------------------------
(***************************************************************************)
(* Proofs about the renderer: about the frames as jobs (RenderFrames), for *)
(* every set of frame inputs, every capacity of the graph cache and every  *)
(* number of calls, commands and graphs, and about its turns (RenderTurns) *)
(* in both modes, whatever windows, devices and faults do.                 *)
(*                                                                         *)
(* Frames.  Everything rests on the chain: each call waits for the whole   *)
(* of the call before it, so a link whose commands have run has nothing    *)
(* before it that is still to run (InTurn).  Commands are cut into         *)
(* consecutive numbers by the calls (CommandsAreCut), at most one frame    *)
(* owns a flag and the allocator (FlagsAreOwned), an entry's graph fits    *)
(* its hash (EntriesFit), and the camera data is that of the frame that    *)
(* synced last (DataIsOfLast).                                             *)
(*                                                                         *)
(* Turns.  HandOff ties where the render app is to where each thread is.   *)
(* CellsInv says, for every window, which of the promises between          *)
(* extraction, creation and preparation hold at the point of the turn the  *)
(* render world has reached.                                               *)
(***************************************************************************)
EXTENDS RenderFrames, RenderTurns, FiniteSetTheorems, FoldTheorems, TLAPS

Hashes == {frame_graph_shape_hash(f) : f \in Frames}
Entry == [shape_hash : Hashes, last_used_frame : Nat, final_graph : Graphs \cup {NoGraph},
          setups : Nat, generation : Nat]

Typed ==
  /\ TypeOK
  /\ links \in Seq(Links) /\ made_for \in Seq(Frames) /\ built \in Seq(BOOLEAN)
  /\ entries \in Seq(Entry)

\* A call waits for the call before it; its jobs run one after another.
InTurn ==
  /\ flush_link = Len(links)
  /\ \A k \in DOMAIN links :
       /\ links[k].after = k - 1
       /\ links[k].done => \A j \in 1 .. k - 1 : Resolved(j)
       /\ links[k].body \in {"prepare", "over"} => links[k].done
       /\ links[k].tail # "none" => links[k].body = "over"
       /\ links[k].body # "none" => links[k].frame \in Frames
       /\ links[k].synced => links[k].body \in {"prepare", "over"}
       /\ Active(k) => links[k].synced /\ links[k].graph \in Graphs

\* The numbers from a + 1 to b.
From(a, b) == [i \in 1 .. b - a |-> a + i]

\* The calls cut the commands into runs of consecutive numbers; those of the
\* first `ran` calls were executed.
CutBy(cut, ran) ==
  /\ cut[0] = 0 /\ \A k \in DOMAIN links : cut[k - 1] <= cut[k]
  /\ \A k \in DOMAIN links : links[k].commands = From(cut[k - 1], cut[k])
  /\ in_order = From(cut[Len(links)], committed)
  /\ \A k \in DOMAIN links : links[k].done <=> k <= ran
  /\ executed = Numbers(cut[ran])

CommandsAreCut ==
  \E cut \in [0 .. Len(links) -> 0 .. committed], ran \in 0 .. Len(links) : CutBy(cut, ran)

\* A flag is held by a frame that is under way with the graph, and the allocator
\* is in the phase that frame left it in.
FlagsAreOwned ==
  /\ ~refused
  /\ \A g \in Graphs :
       flag[g] # 0 => flag[g] \in DOMAIN links /\ Active(flag[g]) /\ links[flag[g]].graph = g
  /\ \A k \in DOMAIN links :
       /\ Active(k) => flag[links[k].graph] = k
       /\ links[k].body = "prepare" => phase_owner = k
       /\ links[k].tail = "resolve" => phase = "preconsume" /\ phase_owner = k

\* A graph is made for frames of its entry's hash.
EntriesFit ==
  /\ Len(built) = Len(made_for)
  /\ \A i \in DOMAIN entries :
       LET e == entries[i]
       IN  e.final_graph # NoGraph =>
             /\ e.final_graph \in DOMAIN made_for
             /\ e.shape_hash = frame_graph_shape_hash(made_for[e.final_graph])
             /\ e.setups = camera_setup_count(made_for[e.final_graph])

\* A frame executes a graph that was made for a frame of its own hash.
GraphsFit ==
  \A k \in DOMAIN links :
    links[k].graph # NoGraph =>
      /\ links[k].graph \in DOMAIN made_for /\ links[k].frame \in Frames
      /\ frame_graph_shape_hash(made_for[links[k].graph]) = frame_graph_shape_hash(links[k].frame)
      /\ camera_setup_count(made_for[links[k].graph]) = camera_setup_count(links[k].frame)

\* Frame j did not sync, or it showed camera c.
Shows(c, j) == ~links[j].synced \/ c \in CamerasOf(links[j].frame)

\* Frame j made the data of c that the first k frames left.
MadeBy(c, k, j) ==
  /\ links[j].synced /\ \A i \in j .. k : Shows(c, i)
  /\ \A i \in 1 .. j - 1 : links[i].synced => \E l \in i .. j - 1 : ~Shows(c, l)

\* The scene has data for the cameras of the frame that synced last.
DataIsOfLast ==
  /\ \E last \in 0 .. Len(links) :
       /\ \A i \in last + 1 .. Len(links) : ~links[i].synced
       /\ last = 0 => DOMAIN camera_data = {}
       /\ last # 0 => links[last].synced /\ DOMAIN camera_data = CamerasOf(links[last].frame)
  /\ \A c \in DOMAIN camera_data :
       camera_data[c] \in DOMAIN links /\ MadeBy(c, Len(links), camera_data[c])
  /\ \A k \in DOMAIN links : Active(k) /\ links[k].tail # "none" =>
       links[k].prepared = prepare(camera_data, CamerasOf(links[k].frame))

Inductive ==
  /\ Typed /\ InTurn /\ CommandsAreCut /\ FlagsAreOwned /\ EntriesFit /\ GraphsFit /\ DataIsOfLast

----------------------------------------------------------------------------
(* The graph cache *)

\* What the lookup computes of a frame.
LEMMA FrameKeys ==
  ASSUME NEW f \in Frames
  PROVE  /\ NumCameras(f) \in Nat /\ camera_setup_count(f) \in Nat /\ f.tick \in Nat
         /\ f.extent \in Nat /\ frame_graph_shape_hash(f) \in Hashes
         /\ f.cameras \in Seq({f.cameras[i] : i \in DOMAIN f.cameras})
<1>1. /\ f.extent \in Nat /\ f.tick \in Nat
      /\ f.cameras \in Seq({f.cameras[i] : i \in DOMAIN f.cameras})
  BY FramesAssumption
<1>2. Len(f.cameras) \in Nat
  BY <1>1
<1>3. NumCameras(f) \in Nat
  BY <1>2 DEF NumCameras
<1>4. camera_setup_count(f) \in Nat
  BY <1>3 DEF camera_setup_count
<1> QED BY <1>1, <1>3, <1>4 DEF Hashes

\* First finds the first of a set of places.
LEMMA FirstIsIn ==
  ASSUME NEW T, T \subseteq Nat, T # {}
  PROVE  First(T) \in T
BY LeastExists DEF First

LEMMA EntryFields ==
  ASSUME entries \in Seq(Entry), NEW i \in DOMAIN entries
  PROVE  /\ entries[i] \in Entry
         /\ entries[i].last_used_frame \in Nat /\ entries[i].generation \in Nat
<1>1. entries[i] \in Entry
  OBVIOUS
<1> QED BY <1>1 DEF Entry

\* Using an entry again changes only its time.
LEMMA UsedEntry ==
  ASSUME NEW old \in Entry, NEW tick \in Nat, NEW e, e = [old EXCEPT !.last_used_frame = tick]
  PROVE  /\ e \in Entry /\ e.shape_hash = old.shape_hash
         /\ e.final_graph = old.final_graph /\ e.setups = old.setups
BY DEF Entry

\* An entry that is prepared for a frame has its hash and setups, and no graph.
LEMMA PreparedEntry ==
  ASSUME NEW old, old.generation \in Nat, NEW hash \in Hashes, NEW setups \in Nat,
         NEW tick \in Nat, NEW e, e = Prepared(old, hash, setups, tick)
  PROVE  /\ e \in Entry /\ e.shape_hash = hash /\ e.setups = setups /\ e.final_graph = NoGraph
BY DEF Entry, Prepared

\* A full cache has a least recently used entry.
LEMMA OldestExists ==
  ASSUME entries \in Seq(Entry), entries # <<>>
  PROVE  oldest_entry_index \in DOMAIN entries
<1>1. ASSUME NEW i \in DOMAIN entries PROVE entries[i].last_used_frame \in Nat
  BY EntryFields
<1> DEFINE Ticks == {entries[i].last_used_frame : i \in DOMAIN entries}
           Oldest == {i \in DOMAIN entries : \A j \in DOMAIN entries :
                        entries[i].last_used_frame <= entries[j].last_used_frame}
<1>2. DOMAIN entries \subseteq Nat /\ DOMAIN entries # {}
  OBVIOUS
<1>3. PICK t \in Ticks : \A u \in Ticks : t <= u
  <2>1. Ticks \subseteq Nat /\ Ticks # {}
    BY <1>1, <1>2
  <2> HIDE DEF Ticks
  <2> QED BY <2>1, LeastExists
<1>4. Oldest # {} /\ Oldest \subseteq Nat /\ Oldest \subseteq DOMAIN entries
  BY <1>2, <1>3
<1>5. oldest_entry_index = First(Oldest)
  BY DEF oldest_entry_index
<1> HIDE DEF Oldest, Ticks
<1> QED BY <1>4, <1>5, FirstIsIn

\* The lookup leaves a cache within its capacity, finds an entry of the frame's
\* hash and setups, and changes no graph of an entry but to drop it.
LEMMA LookupFits ==
  ASSUME entries \in Seq(Entry), Len(entries) <= with_capacity, NEW f \in Frames
  PROVE  LET found == Lookup(f)
         IN  /\ found.entries \in Seq(Entry) /\ Len(found.entries) <= with_capacity
             /\ found.index \in DOMAIN found.entries
             /\ found.entries[found.index].shape_hash = frame_graph_shape_hash(f)
             /\ found.entries[found.index].setups = camera_setup_count(f)
             /\ ~found.rebuild => found.entries[found.index].final_graph # NoGraph
             /\ \A i \in DOMAIN found.entries :
                  found.entries[i].final_graph # NoGraph =>
                    /\ i \in DOMAIN entries
                    /\ found.entries[i].final_graph = entries[i].final_graph
                    /\ found.entries[i].shape_hash = entries[i].shape_hash
                    /\ found.entries[i].setups = entries[i].setups
<1> DEFINE hash == frame_graph_shape_hash(f)
           setups == camera_setup_count(f)
           hits == Hits(hash, setups)
           found == Lookup(f)
<1>1. /\ hash \in Hashes /\ setups \in Nat /\ f.tick \in Nat
      /\ with_capacity \in Nat \ {0}
  <2>1. with_capacity \in Nat \ {0}
    BY MaxEntriesAssumption DEF with_capacity
  <2> QED BY <2>1, FrameKeys
<1>2. found = get_graph(hash, setups, f.tick)
  BY DEF Lookup
<1> HIDE DEF hash, setups, found
<1>3. CASE hits # {}
  <2> DEFINE i == First(hits)
             e == [entries[i] EXCEPT !.last_used_frame = f.tick]
  <2>1. i \in DOMAIN entries /\ is_hit(entries[i], hash, setups)
    <3>1. hits \subseteq Nat /\ hits \subseteq DOMAIN entries
      BY DEF Hits
    <3>2. i \in hits
      BY <1>3, <3>1, FirstIsIn
    <3> QED BY <3>2 DEF Hits
  <2>2. i \in hits
    BY <2>1 DEF Hits
  <2>3. /\ found.entries = [entries EXCEPT ![i] = e]
        /\ found.index = i /\ found.rebuild = FALSE
    BY <1>2, <1>3, <2>2 DEF get_graph
  <2> HIDE DEF i, hits
  <2>4. /\ e \in Entry /\ e.shape_hash = entries[i].shape_hash
        /\ e.final_graph = entries[i].final_graph /\ e.setups = entries[i].setups
    <3>1. entries[i] \in Entry
      BY <2>1, EntryFields
    <3> HIDE DEF e
    <3> QED BY <1>1, <3>1, UsedEntry DEF e
  <2> HIDE DEF e
  <2> QED BY <2>1, <2>3, <2>4 DEF is_hit, found, hash, setups
<1>4. CASE hits = {} /\ Len(entries) < with_capacity
  <2> DEFINE e == NewEntry(hash, setups, f.tick)
  <2>1. e \in Entry /\ e.shape_hash = hash /\ e.setups = setups /\ e.final_graph = NoGraph
    <3> DEFINE old == [generation |-> 0, final_graph |-> NoGraph]
    <3>1. old.generation \in Nat /\ e = Prepared(old, hash, setups, f.tick)
      BY DEF NewEntry
    <3> HIDE DEF e, old
    <3> QED BY <1>1, <3>1, PreparedEntry
  <2>2. /\ found.entries = Append(entries, e)
        /\ found.index = Len(entries) + 1 /\ found.rebuild = TRUE
    BY <1>2, <1>4 DEF get_graph
  <2> HIDE DEF e
  <2> QED BY <1>1, <1>4, <2>1, <2>2 DEF found, hash, setups
<1>5. CASE hits = {} /\ ~(Len(entries) < with_capacity)
  <2> DEFINE i == oldest_entry_index
             e == Prepared(entries[i], hash, setups, f.tick)
  <2>1. entries # <<>>
    BY <1>1, <1>5
  <2>2. i \in DOMAIN entries
    BY <2>1, OldestExists
  <2>3. /\ found.entries = [entries EXCEPT ![i] = e]
        /\ found.index = i /\ found.rebuild = TRUE
    BY <1>2, <1>5 DEF get_graph
  <2> HIDE DEF i
  <2>4. e \in Entry /\ e.shape_hash = hash /\ e.setups = setups /\ e.final_graph = NoGraph
    <3> DEFINE old == entries[i]
    <3>1. old.generation \in Nat /\ e = Prepared(old, hash, setups, f.tick)
      BY <2>2, EntryFields
    <3> HIDE DEF e, old
    <3> QED BY <1>1, <3>1, PreparedEntry
  <2> HIDE DEF e
  <2> QED BY <2>2, <2>3, <2>4 DEF found, hash, setups
<1> QED BY <1>3, <1>4, <1>5


----------------------------------------------------------------------------
(* What a job does to its link *)

\* Link e is link l but for how far it is.
Becomes(e, l, done, body, graph, nodes, tail, synced, prepared) ==
  /\ e.commands = l.commands /\ e.frame = l.frame /\ e.after = l.after
  /\ e.done = done /\ e.body = body /\ e.graph = graph /\ e.nodes = nodes /\ e.tail = tail
  /\ e.synced = synced /\ e.prepared = prepared

\* The step of a job moves its own link only.
Moves(k, done, body, graph, nodes, tail, synced, prepared) ==
  /\ links' \in Seq(Links) /\ Len(links') = Len(links) /\ DOMAIN links' = DOMAIN links
  /\ \A j \in DOMAIN links : j # k => links'[j] = links[j]
  /\ Becomes(links'[k], links[k], done, body, graph, nodes, tail, synced, prepared)

LEMMA LinkFields ==
  ASSUME links \in Seq(Links), NEW k \in DOMAIN links
  PROVE  /\ links[k] \in Links
         /\ links[k].commands \in Seq(1 .. MaxCommands) /\ links[k].frame \in Frames \cup {NoFrame}
         /\ links[k].after \in Calls /\ links[k].done \in BOOLEAN
         /\ links[k].body \in {"none", "todo", "prepare", "over"}
         /\ links[k].graph \in Graphs \cup {NoGraph} /\ links[k].nodes \in {"none", "todo", "done"}
         /\ links[k].tail \in {"none", "resolve", "finish", "cleanup", "done"}
         /\ links[k].synced \in BOOLEAN /\ links[k].prepared \in PreparedData
<1>1. links[k] \in Links
  OBVIOUS
<1> QED BY <1>1 DEF Links

\* The records the jobs make of a link.
LEMMA DoneUpdate ==
  ASSUME NEW l \in Links
  PROVE  LET e == [l EXCEPT !.done = TRUE]
         IN  e \in Links /\ Becomes(e, l, TRUE, l.body, l.graph, l.nodes, l.tail, l.synced, l.prepared)
<1> DEFINE e == [l EXCEPT !.done = TRUE]
<1>1. e \in Links
  BY DEF Links
<1>2. Becomes(e, l, TRUE, l.body, l.graph, l.nodes, l.tail, l.synced, l.prepared)
  BY DEF Links, Becomes
<1> QED BY <1>1, <1>2

LEMMA BodyUpdate ==
  ASSUME NEW l \in Links
  PROVE  LET e == [l EXCEPT !.body = "over"]
         IN  e \in Links /\ Becomes(e, l, l.done, "over", l.graph, l.nodes, l.tail, l.synced, l.prepared)
<1> DEFINE e == [l EXCEPT !.body = "over"]
<1>1. e \in Links
  BY DEF Links
<1>2. Becomes(e, l, l.done, "over", l.graph, l.nodes, l.tail, l.synced, l.prepared)
  BY DEF Links, Becomes
<1> QED BY <1>1, <1>2

LEMMA SyncedUpdate ==
  ASSUME NEW l \in Links
  PROVE  LET e == [l EXCEPT !.body = "over", !.synced = TRUE]
         IN  e \in Links /\ Becomes(e, l, l.done, "over", l.graph, l.nodes, l.tail, TRUE, l.prepared)
<1> DEFINE e == [l EXCEPT !.body = "over", !.synced = TRUE]
<1>1. e \in Links
  BY DEF Links
<1>2. Becomes(e, l, l.done, "over", l.graph, l.nodes, l.tail, TRUE, l.prepared)
  BY DEF Links, Becomes
<1> QED BY <1>1, <1>2

LEMMA BeginUpdate ==
  ASSUME NEW l \in Links, NEW g \in Graphs \cup {NoGraph}
  PROVE  LET e == [l EXCEPT !.body = "prepare", !.nodes = "todo", !.graph = g, !.synced = TRUE]
         IN  e \in Links /\ Becomes(e, l, l.done, "prepare", g, "todo", l.tail, TRUE, l.prepared)
<1> DEFINE e == [l EXCEPT !.body = "prepare", !.nodes = "todo", !.graph = g, !.synced = TRUE]
<1>1. e \in Links
  BY DEF Links
<1>2. Becomes(e, l, l.done, "prepare", g, "todo", l.tail, TRUE, l.prepared)
  BY DEF Links, Becomes
<1> QED BY <1>1, <1>2

LEMMA TailUpdate ==
  ASSUME NEW l \in Links, NEW p \in PreparedData
  PROVE  LET e == [l EXCEPT !.body = "over", !.tail = "resolve", !.prepared = p]
         IN  e \in Links /\ Becomes(e, l, l.done, "over", l.graph, l.nodes, "resolve", l.synced, p)
<1> DEFINE e == [l EXCEPT !.body = "over", !.tail = "resolve", !.prepared = p]
<1>1. e \in Links
  BY DEF Links
<1>2. Becomes(e, l, l.done, "over", l.graph, l.nodes, "resolve", l.synced, p)
  BY DEF Links, Becomes
<1> QED BY <1>1, <1>2

LEMMA NodesUpdate ==
  ASSUME NEW l \in Links
  PROVE  LET e == [l EXCEPT !.nodes = "done"]
         IN  e \in Links /\ Becomes(e, l, l.done, l.body, l.graph, "done", l.tail, l.synced, l.prepared)
<1> DEFINE e == [l EXCEPT !.nodes = "done"]
<1>1. e \in Links
  BY DEF Links
<1>2. Becomes(e, l, l.done, l.body, l.graph, "done", l.tail, l.synced, l.prepared)
  BY DEF Links, Becomes
<1> QED BY <1>1, <1>2

LEMMA StepUpdate ==
  ASSUME NEW l \in Links, NEW tail \in {"finish", "cleanup", "done"}
  PROVE  LET e == [l EXCEPT !.tail = tail]
         IN  e \in Links /\ Becomes(e, l, l.done, l.body, l.graph, l.nodes, tail, l.synced, l.prepared)
<1> DEFINE e == [l EXCEPT !.tail = tail]
<1>1. e \in Links
  BY DEF Links
<1>2. Becomes(e, l, l.done, l.body, l.graph, l.nodes, tail, l.synced, l.prepared)
  BY DEF Links, Becomes
<1> QED BY <1>1, <1>2

\* A job that replaces its link by e.
LEMMA LinkUpdate ==
  ASSUME links \in Seq(Links), NEW k \in DOMAIN links, NEW e \in Links,
         NEW done, NEW body, NEW graph, NEW nodes, NEW tail, NEW synced, NEW prepared,
         Becomes(e, links[k], done, body, graph, nodes, tail, synced, prepared),
         links' = [links EXCEPT ![k] = e]
  PROVE  Moves(k, done, body, graph, nodes, tail, synced, prepared)
<1>1. /\ links' \in Seq(Links) /\ Len(links') = Len(links) /\ DOMAIN links' = DOMAIN links
      /\ links'[k] = e /\ \A j \in DOMAIN links : j # k => links'[j] = links[j]
  OBVIOUS
<1> QED BY <1>1 DEF Moves

\* Every job's effect on its link.
JobEffect(k) ==
  LET l == links[k]
  IN  \/ /\ RunCommands(k)
         /\ Moves(k, TRUE, l.body, l.graph, l.nodes, l.tail, l.synced, l.prepared)
      \/ /\ RenderNothing(k) \/ RebuildFails(k) \/ PrepareFails(k)
         /\ Moves(k, l.done, "over", l.graph, l.nodes, l.tail, l.synced, l.prepared)
      \/ /\ ExecuteUnbuilt(k) \/ (BeginExecution(k) /\ flag[Found(k)] # 0)
         /\ Moves(k, l.done, "over", l.graph, l.nodes, l.tail, TRUE, l.prepared)
      \/ /\ BeginExecution(k) /\ flag[Found(k)] = 0
         /\ Moves(k, l.done, "prepare", Found(k), "todo", l.tail, TRUE, l.prepared)
      \/ /\ DispatchTail(k)
         /\ Moves(k, l.done, "over", l.graph, l.nodes, "resolve", l.synced,
                  prepare(camera_data, CamerasOf(l.frame)))
      \/ /\ RunRenderNodeJobs(k)
         /\ Moves(k, l.done, l.body, l.graph, "done", l.tail, l.synced, l.prepared)
      \/ /\ FlowAllocatorResolve(k)
         /\ Moves(k, l.done, l.body, l.graph, l.nodes, "finish", l.synced, l.prepared)
      \/ /\ FinishNodeKickoff(k)
         /\ Moves(k, l.done, l.body, l.graph, l.nodes, "cleanup", l.synced, l.prepared)
      \/ /\ CleanupNodeJobs(k)
         /\ Moves(k, l.done, l.body, l.graph, l.nodes, "done", l.synced, l.prepared)

\* A job that looks a graph up.
LEMMA FoundIsTyped ==
  ASSUME Typed, InTurn, NEW k \in DOMAIN links, MayRender(k)
  PROVE  /\ links[k].frame \in Frames /\ Found(k) \in Graphs \cup {NoGraph}
         /\ Lookup(links[k].frame).entries \in Seq(Entry)
         /\ Len(Lookup(links[k].frame).entries) <= with_capacity
<1>1. links[k].frame \in Frames
  BY DEF MayRender, InTurn
<1> DEFINE found == Lookup(links[k].frame)
<1>2. /\ found.entries \in Seq(Entry) /\ Len(found.entries) <= with_capacity
      /\ found.index \in DOMAIN found.entries
  BY <1>1, LookupFits, MaxEntriesAssumption DEF Typed, TypeOK, with_capacity
<1>3. Found(k) = found.entries[found.index].final_graph
  BY DEF Found
<1> HIDE DEF found
<1>4. found.entries[found.index] \in Entry
  BY <1>2
<1>5. Found(k) \in Graphs \cup {NoGraph}
  BY <1>3, <1>4 DEF Entry
<1> QED BY <1>1, <1>2, <1>5 DEF found

\* What is prepared for a frame is typed.
LEMMA PreparedIsTyped ==
  ASSUME Typed, InTurn, NEW k \in DOMAIN links, links[k].body = "prepare"
  PROVE  prepare(camera_data, CamerasOf(links[k].frame)) \in PreparedData
<1>1. links[k].frame \in Frames
  BY DEF InTurn
<1> DEFINE ids == CamerasOf(links[k].frame)
           data == prepare(camera_data, ids)
<1>2. ids \subseteq CameraIds
  BY <1>1 DEF CamerasOf, CameraIds
<1>3. \A c \in DOMAIN camera_data : camera_data[c] \in Calls
  <2>1. camera_data \in CameraData
    BY DEF Typed, TypeOK
  <2> QED BY <2>1 DEF CameraData
<1> HIDE DEF ids
<1>4. data \in [ids -> SUBSET Calls]
  BY <1>3 DEF prepare
<1> QED BY <1>2, <1>4 DEF PreparedData, ids

LEMMA JobHasEffect ==
  ASSUME Typed, InTurn, NEW k \in DOMAIN links, Job(k)
  PROVE  JobEffect(k)
<1> DEFINE l == links[k]
<1>1. links \in Seq(Links) /\ l \in Links
  BY LinkFields DEF Typed
<1>2. CASE RunCommands(k)
  <2> DEFINE e == [l EXCEPT !.done = TRUE]
  <2>1. links' = [links EXCEPT ![k] = e]
    BY <1>2 DEF RunCommands
  <2>2. e \in Links /\ Becomes(e, l, TRUE, l.body, l.graph, l.nodes, l.tail, l.synced, l.prepared)
    BY <1>1, DoneUpdate
  <2> HIDE DEF e
  <2> QED BY <1>1, <1>2, <2>1, <2>2, LinkUpdate DEF JobEffect
<1>3. CASE RenderNothing(k) \/ RebuildFails(k) \/ PrepareFails(k)
  <2> DEFINE e == [l EXCEPT !.body = "over"]
  <2>1. links' = [links EXCEPT ![k] = e]
    BY <1>3 DEF RenderNothing, RebuildFails, PrepareFails, BodyEnds
  <2>2. e \in Links /\ Becomes(e, l, l.done, "over", l.graph, l.nodes, l.tail, l.synced, l.prepared)
    BY <1>1, BodyUpdate
  <2> HIDE DEF e
  <2> QED BY <1>1, <1>3, <2>1, <2>2, LinkUpdate DEF JobEffect
<1>4. CASE ExecuteUnbuilt(k) \/ (BeginExecution(k) /\ flag[Found(k)] # 0)
  <2> DEFINE e == [l EXCEPT !.body = "over", !.synced = TRUE]
  <2>1. links' = [links EXCEPT ![k] = e]
    BY <1>4 DEF ExecuteUnbuilt, BeginExecution
  <2>2. e \in Links /\ Becomes(e, l, l.done, "over", l.graph, l.nodes, l.tail, TRUE, l.prepared)
    BY <1>1, SyncedUpdate
  <2> HIDE DEF e
  <2> QED BY <1>1, <1>4, <2>1, <2>2, LinkUpdate DEF JobEffect
<1>5. CASE BeginExecution(k) /\ flag[Found(k)] = 0
  <2> DEFINE g == Found(k)
             e == [l EXCEPT !.body = "prepare", !.nodes = "todo", !.graph = g, !.synced = TRUE]
  <2>1. links' = [links EXCEPT ![k] = e]
    BY <1>5 DEF BeginExecution
  <2>2. g \in Graphs \cup {NoGraph}
    BY <1>5, FoundIsTyped DEF BeginExecution
  <2> HIDE DEF g
  <2>3. e \in Links /\ Becomes(e, l, l.done, "prepare", g, "todo", l.tail, TRUE, l.prepared)
    BY <1>1, <2>2, BeginUpdate
  <2> HIDE DEF e
  <2> QED BY <1>1, <1>5, <2>1, <2>3, LinkUpdate DEF JobEffect, g
<1>6. CASE DispatchTail(k)
  <2> DEFINE p == prepare(camera_data, CamerasOf(l.frame))
             e == [l EXCEPT !.body = "over", !.tail = "resolve", !.prepared = p]
  <2>1. links' = [links EXCEPT ![k] = e]
    BY <1>6 DEF DispatchTail
  <2>2. p \in PreparedData
    BY <1>6, PreparedIsTyped DEF DispatchTail
  <2> HIDE DEF p
  <2>3. e \in Links /\ Becomes(e, l, l.done, "over", l.graph, l.nodes, "resolve", l.synced, p)
    BY <1>1, <2>2, TailUpdate
  <2> HIDE DEF e
  <2> QED BY <1>1, <1>6, <2>1, <2>3, LinkUpdate DEF JobEffect, p
<1>7. CASE RunRenderNodeJobs(k)
  <2> DEFINE e == [l EXCEPT !.nodes = "done"]
  <2>1. links' = [links EXCEPT ![k] = e]
    BY <1>7 DEF RunRenderNodeJobs
  <2>2. e \in Links /\ Becomes(e, l, l.done, l.body, l.graph, "done", l.tail, l.synced, l.prepared)
    BY <1>1, NodesUpdate
  <2> HIDE DEF e
  <2> QED BY <1>1, <1>7, <2>1, <2>2, LinkUpdate DEF JobEffect
<1>8. ASSUME NEW tail \in {"finish", "cleanup", "done"}, links' = [links EXCEPT ![k].tail = tail]
      PROVE  Moves(k, l.done, l.body, l.graph, l.nodes, tail, l.synced, l.prepared)
  <2> DEFINE e == [l EXCEPT !.tail = tail]
  <2>1. links' = [links EXCEPT ![k] = e]
    BY <1>8
  <2>2. e \in Links /\ Becomes(e, l, l.done, l.body, l.graph, l.nodes, tail, l.synced, l.prepared)
    BY <1>1, StepUpdate
  <2> HIDE DEF e
  <2> QED BY <1>1, <2>1, <2>2, LinkUpdate
<1>9. CASE FlowAllocatorResolve(k)
  BY <1>8, <1>9 DEF FlowAllocatorResolve, JobEffect
<1>10. CASE FinishNodeKickoff(k)
  BY <1>8, <1>10 DEF FinishNodeKickoff, JobEffect
<1>11. CASE CleanupNodeJobs(k)
  BY <1>8, <1>11 DEF CleanupNodeJobs, JobEffect
<1>12. CASE BeginExecution(k)
  BY <1>4, <1>5, <1>12, Zenon
<1>13. CASE ExecuteUnbuilt(k)
  BY <1>4, <1>13, Zenon
<1>14. CASE RenderNothing(k) \/ RebuildFails(k) \/ PrepareFails(k)
  BY <1>3, <1>14, Zenon
<1> HIDE DEF l
<1> QED BY <1>2, <1>6, <1>7, <1>9, <1>10, <1>11, <1>12, <1>13, <1>14, Zenon DEF Job

\* A call appends a link.
LEMMA DispatchEffect ==
  ASSUME Typed, InTurn, NEW frame \in Frames \cup {NoFrame}, DispatchLink(frame)
  PROVE  /\ links' \in Seq(Links) /\ Len(links') = Len(links) + 1 /\ Len(links') \in Calls
         /\ \A j \in DOMAIN links : links'[j] = links[j]
         /\ DOMAIN links' = DOMAIN links \cup {Len(links')}
         /\ flush_link' = Len(links') /\ in_order' = <<>>
         /\ LET l == links'[Len(links')]
            IN  /\ l.commands = in_order /\ l.frame = frame /\ l.after = Len(links)
                /\ ~l.done /\ l.body \in {"none", "todo"}
                /\ l.body = "todo" => frame \in Frames
                /\ l.graph = NoGraph /\ l.nodes = "none" /\ l.tail = "none" /\ ~l.synced
<1> DEFINE new == NewLink(frame)
<1>1. links \in Seq(Links) /\ in_order \in Seq(1 .. MaxCommands) /\ flush_link = Len(links)
      /\ Len(links) \in Calls
  BY DEF Typed, TypeOK, InTurn
<1>2. NothingPrepared \in PreparedData
  <2>1. NothingPrepared \in [{} -> SUBSET Calls]
    BY DEF NothingPrepared
  <2> QED BY <2>1 DEF PreparedData
<1>3. new \in Links
  BY <1>1, <1>2 DEF NewLink, Links
<1>4. /\ new.commands = in_order /\ new.frame = frame /\ new.after = Len(links)
      /\ ~new.done /\ new.body \in {"none", "todo"} /\ (new.body = "todo" => frame \in Frames)
      /\ new.graph = NoGraph /\ new.nodes = "none" /\ new.tail = "none" /\ ~new.synced
  BY <1>1 DEF NewLink
<1>5. /\ links' = Append(links, new) /\ in_order' = <<>> /\ flush_link' = Len(links')
      /\ Len(links) < MaxCalls
  BY DEF DispatchLink
<1> HIDE DEF new
<1>6. /\ links' \in Seq(Links) /\ Len(links') = Len(links) + 1
      /\ \A j \in DOMAIN links : links'[j] = links[j]
      /\ DOMAIN links' = DOMAIN links \cup {Len(links')} /\ links'[Len(links')] = new
  BY <1>1, <1>3, <1>5
<1>7. Len(links') \in Calls
  BY <1>1, <1>5, <1>6, BoundsAssumption DEF Calls
<1> QED BY <1>4, <1>5, <1>6, <1>7

----------------------------------------------------------------------------
(* Taking turns *)

\* What is over stays over.
LEMMA ResolvedStays ==
  ASSUME Typed, InTurn, NEW k \in DOMAIN links, JobEffect(k), NEW j \in DOMAIN links, Resolved(j)
  PROVE  Resolved(j)'
<1>1. CASE j # k
  BY <1>1 DEF JobEffect, Moves, Resolved
<1>2. CASE j = k
  <2>1. /\ links[k].done /\ links[k].body \in {"none", "over"}
        /\ links[k].tail \in {"none", "done"}
    BY <1>2 DEF Resolved
  <2>2. /\ DOMAIN links' = DOMAIN links
        /\ links'[k].done = links[k].done /\ links'[k].body \in {"none", "over"}
        /\ links'[k].tail = links[k].tail
    BY <2>1 DEF JobEffect, Moves, Becomes, RunCommands, RenderNothing, RebuildFails, PrepareFails,
                ExecuteUnbuilt, BeginExecution, MayRender, DispatchTail, FlowAllocatorResolve,
                FinishNodeKickoff, CleanupNodeJobs
  <2> QED BY <1>2, <2>1, <2>2 DEF Resolved
<1> QED BY <1>1, <1>2

LEMMA InTurnByJob ==
  ASSUME Typed, InTurn, NEW k \in DOMAIN links, JobEffect(k), flush_link' = flush_link,
         BeginExecution(k) => Found(k) \in Graphs
  PROVE  InTurn'
<1>1. /\ links \in Seq(Links) /\ DOMAIN links' = DOMAIN links /\ Len(links') = Len(links)
      /\ \A j \in DOMAIN links : j # k => links'[j] = links[j]
      /\ links'[k].after = links[k].after /\ links'[k].frame = links[k].frame
  BY DEF Typed, JobEffect, Moves, Becomes
<1>2. links[k].done => links'[k].done
  BY DEF JobEffect, Moves, Becomes
<1>3. links'[k].done => \A i \in 1 .. k - 1 : Resolved(i)
  <2>1. CASE links[k].done
    BY <2>1 DEF InTurn
  <2>2. CASE RunCommands(k)
    <3>1. Resolved(k - 1)
      BY <2>2 DEF RunCommands, InTurn
    <3>2. k - 1 \in DOMAIN links => \A i \in 1 .. k - 2 : Resolved(i)
      BY <3>1, <1>1 DEF InTurn, Resolved
    <3>3. \A i \in 1 .. k - 1 : (i = k - 1 \/ i \in 1 .. k - 2) /\ k - 1 \in DOMAIN links
      BY <1>1
    <3> QED BY <3>1, <3>2, <3>3
  <2>3. CASE ~links[k].done /\ ~RunCommands(k)
    BY <2>3 DEF JobEffect, Moves, Becomes
  <2> QED BY <2>1, <2>2, <2>3
<1>4. ASSUME NEW j \in DOMAIN links, links'[j].done, NEW i \in 1 .. j - 1
      PROVE  Resolved(i)'
  <2>1. Resolved(i)
    BY <1>1, <1>3, <1>4 DEF InTurn
  <2>2. i \in DOMAIN links
    BY <1>1, <1>4
  <2> QED BY <2>1, <2>2, ResolvedStays
<1>5. /\ links'[k].body \in {"prepare", "over"} => links'[k].done
      /\ links'[k].tail # "none" => links'[k].body = "over"
      /\ links'[k].body # "none" => links'[k].frame \in Frames
      /\ links'[k].synced => links'[k].body \in {"prepare", "over"}
  BY DEF InTurn, JobEffect, Moves, Becomes, RunCommands, RenderNothing, RebuildFails, PrepareFails,
         ExecuteUnbuilt, BeginExecution, MayRender, DispatchTail, FlowAllocatorResolve,
         FinishNodeKickoff, CleanupNodeJobs
<1>6. Active(k)' => links'[k].synced /\ links'[k].graph \in Graphs
  BY DEF InTurn, JobEffect, Moves, Becomes, Active, RunCommands, RenderNothing, RebuildFails,
         PrepareFails, ExecuteUnbuilt, BeginExecution, MayRender, DispatchTail,
         FlowAllocatorResolve, FinishNodeKickoff, CleanupNodeJobs
<1>7. ASSUME NEW j \in DOMAIN links
      PROVE  /\ links'[j].after = j - 1
             /\ links'[j].done => \A i \in 1 .. j - 1 : Resolved(i)'
             /\ links'[j].body \in {"prepare", "over"} => links'[j].done
             /\ links'[j].tail # "none" => links'[j].body = "over"
             /\ links'[j].body # "none" => links'[j].frame \in Frames
             /\ links'[j].synced => links'[j].body \in {"prepare", "over"}
             /\ Active(j)' => links'[j].synced /\ links'[j].graph \in Graphs
  <2>1. CASE j = k
    BY <2>1, <1>1, <1>4, <1>5, <1>6 DEF InTurn
  <2>2. CASE j # k
    BY <2>2, <1>1, <1>4 DEF InTurn, Active
  <2> QED BY <2>1, <2>2
<1> QED BY <1>1, <1>7 DEF InTurn

LEMMA InTurnByCall ==
  ASSUME Typed, InTurn, NEW frame \in Frames \cup {NoFrame}, DispatchLink(frame)
  PROVE  InTurn'
<1>0. PICK n : n = Len(links')
  OBVIOUS
<1>1. /\ links \in Seq(Links) /\ n = Len(links) + 1 /\ DOMAIN links' = DOMAIN links \cup {n}
      /\ \A j \in DOMAIN links : links'[j] = links[j]
      /\ flush_link' = n /\ links'[n].after = n - 1
      /\ ~links'[n].done /\ links'[n].tail = "none" /\ ~links'[n].synced
      /\ links'[n].body \in {"none", "todo"} /\ links'[n].frame = frame
      /\ links'[n].body = "todo" => frame \in Frames
  BY <1>0, DispatchEffect DEF Typed
<1>2. \A j \in DOMAIN links : Resolved(j) => Resolved(j)'
  BY <1>1 DEF Resolved
<1>3. \A j \in DOMAIN links : \A i \in 1 .. j - 1 : i \in DOMAIN links
  BY <1>1
<1>4. ASSUME NEW j \in DOMAIN links
      PROVE  links'[j].done => \A i \in 1 .. j - 1 : Resolved(i)'
  BY <1>1, <1>2, <1>3 DEF InTurn
<1>5. ~Active(n)'
  BY <1>1 DEF Active
<1>6. ASSUME NEW j \in DOMAIN links
      PROVE  Active(j)' => links'[j].synced /\ links'[j].graph \in Graphs
  BY <1>1 DEF Active, InTurn
<1> QED BY <1>0, <1>1, <1>4, <1>5, <1>6 DEF InTurn

----------------------------------------------------------------------------
(* The commands *)

\* What a run of numbers is.
LEMMA RunIsSequence ==
  ASSUME NEW a \in Nat, NEW b \in Nat, a <= b
  PROVE  /\ From(a, b) \in Seq(Nat) /\ Len(From(a, b)) = b - a
         /\ Numbers(a) \in Seq(Nat) /\ Len(Numbers(a)) = a
         /\ \A i \in 1 .. a : Numbers(a)[i] = i
         /\ \A i \in 1 .. b - a : From(a, b)[i] = a + i
BY DEF From, Numbers

\* The numbers to a and those from a + 1 to b are the numbers to b.
LEMMA RunsJoin ==
  ASSUME NEW a \in Nat, NEW b \in Nat, a <= b
  PROVE  Numbers(a) \o From(a, b) = Numbers(b)
<1>0. /\ From(a, b) \in Seq(Nat) /\ Len(From(a, b)) = b - a
      /\ Numbers(a) \in Seq(Nat) /\ Len(Numbers(a)) = a
      /\ \A i \in 1 .. a : Numbers(a)[i] = i
      /\ \A i \in 1 .. b - a : From(a, b)[i] = a + i
  BY RunIsSequence
<1> DEFINE s == Numbers(a) \o From(a, b)
<1>1. s \in Seq(Nat) /\ Len(s) = b
  BY <1>0
<1>2. /\ \A i \in 1 .. a : s[i] = Numbers(a)[i]
      /\ \A i \in 1 .. b - a : s[a + i] = From(a, b)[i]
  BY <1>0
<1> HIDE DEF s
<1>3. ASSUME NEW i \in 1 .. b PROVE s[i] = i
  <2>1. CASE i <= a
    BY <2>1, <1>0, <1>2
  <2>2. CASE a < i
    <3>1. i - a \in 1 .. b - a /\ a + (i - a) = i
      BY <2>2
    <3>2. s[a + (i - a)] = a + (i - a)
      BY <3>1, <1>0, <1>2
    <3> QED BY <3>1, <3>2
  <2> QED BY <2>1, <2>2
<1>4. s = [i \in 1 .. b |-> s[i]]
  BY <1>1
<1> QED BY <1>3, <1>4 DEF s, Numbers

\* A run grows by the next number.
LEMMA RunGrows ==
  ASSUME NEW a \in Nat, NEW b \in Nat, a <= b
  PROVE  Append(From(a, b), b + 1) = From(a, b + 1)
<1>0. /\ From(a, b) \in Seq(Nat) /\ Len(From(a, b)) = b - a
      /\ Numbers(a) \in Seq(Nat) /\ Len(Numbers(a)) = a
      /\ \A i \in 1 .. a : Numbers(a)[i] = i
      /\ \A i \in 1 .. b - a : From(a, b)[i] = a + i
  BY RunIsSequence
<1> DEFINE s == Append(From(a, b), b + 1)
<1>1. s \in Seq(Nat) /\ Len(s) = b + 1 - a
  BY <1>0
<1>2. /\ \A i \in 1 .. b - a : s[i] = From(a, b)[i]
      /\ s[b - a + 1] = b + 1
  BY <1>0
<1> HIDE DEF s
<1>3. ASSUME NEW i \in 1 .. b + 1 - a PROVE s[i] = a + i
  <2>1. CASE i \in 1 .. b - a
    BY <2>1, <1>0, <1>2
  <2>2. CASE i = b - a + 1
    BY <2>2, <1>2
  <2> QED BY <2>1, <2>2
<1>4. s = [i \in 1 .. b + 1 - a |-> s[i]]
  BY <1>1
<1> QED BY <1>3, <1>4 DEF s, From

\* From a number to itself there is nothing.
LEMMA EmptyRun == ASSUME NEW a \in Nat PROVE From(a, a) = <<>>
BY DEF From

\* A job that runs no commands leaves them where they are.
LEMMA CommandsStay ==
  ASSUME CommandsAreCut, UNCHANGED <<committed, in_order, executed>>,
         DOMAIN links' = DOMAIN links, Len(links') = Len(links),
         \A j \in DOMAIN links :
           links'[j].commands = links[j].commands /\ (links'[j].done <=> links[j].done)
  PROVE  CommandsAreCut'
<1>1. PICK cut \in [0 .. Len(links) -> 0 .. committed], ran \in 0 .. Len(links) : CutBy(cut, ran)
  BY DEF CommandsAreCut
<1>2. CutBy(cut, ran)'
  BY <1>1 DEF CutBy
<1> QED BY <1>2 DEF CommandsAreCut

LEMMA CommandsByCommit ==
  ASSUME Typed, CommandsAreCut, CommitCommand
  PROVE  CommandsAreCut'
<1>1. PICK cut \in [0 .. Len(links) -> 0 .. committed], ran \in 0 .. Len(links) : CutBy(cut, ran)
  BY DEF CommandsAreCut
<1>2. /\ committed' = committed + 1 /\ in_order' = Append(in_order, committed + 1)
      /\ links' = links /\ executed' = executed
      /\ committed \in Nat /\ Len(links) \in Nat
  BY BoundsAssumption DEF CommitCommand, Typed, TypeOK
<1>3. cut \in [0 .. Len(links) -> 0 .. committed']
  BY <1>2
<1>4. in_order' = From(cut[Len(links)], committed')
  <2>1. PICK last : last = cut[Len(links)]
    OBVIOUS
  <2>2. last \in Nat /\ last <= committed
    BY <2>1, <1>2
  <2>3. in_order = From(last, committed)
    BY <2>1, <1>1 DEF CutBy
  <2>4. Append(From(last, committed), committed + 1) = From(last, committed + 1)
    BY <2>2, <1>2, RunGrows
  <2> QED BY <2>1, <2>3, <2>4, <1>2
<1>5. CutBy(cut, ran)'
  BY <1>1, <1>2, <1>4 DEF CutBy
<1> QED BY <1>2, <1>3, <1>5 DEF CommandsAreCut

LEMMA CommandsByCall ==
  ASSUME Typed, InTurn, CommandsAreCut, NEW frame \in Frames \cup {NoFrame}, DispatchLink(frame),
         UNCHANGED <<committed, executed>>
  PROVE  CommandsAreCut'
<1>0. PICK n : n = Len(links)
  OBVIOUS
<1>1. PICK cut \in [0 .. n -> 0 .. committed], ran \in 0 .. n : CutBy(cut, ran)
  BY <1>0 DEF CommandsAreCut
<1>2. /\ n \in Nat /\ committed \in Nat /\ DOMAIN links = 1 .. n
      /\ DOMAIN links' = 1 .. n + 1 /\ Len(links') = n + 1
      /\ \A j \in DOMAIN links : links'[j] = links[j]
      /\ links'[n + 1].commands = in_order /\ ~links'[n + 1].done /\ in_order' = <<>>
  <2>1. links \in Seq(Links) /\ committed \in Nat
    BY BoundsAssumption DEF Typed, TypeOK
  <2> QED BY <2>1, <1>0, DispatchEffect
<1>3. PICK cuts \in [0 .. n + 1 -> 0 .. committed] :
        (\A i \in 0 .. n : cuts[i] = cut[i]) /\ cuts[n + 1] = committed
  <2> DEFINE new == [i \in 0 .. n + 1 |-> IF i = n + 1 THEN committed ELSE cut[i]]
  <2>1. new \in [0 .. n + 1 -> 0 .. committed] /\ (\A i \in 0 .. n : new[i] = cut[i])
        /\ new[n + 1] = committed
    BY <1>1, <1>2
  <2> HIDE DEF new
  <2> QED BY <2>1
<1>4. /\ cut[0] = 0 /\ \A k \in 1 .. n : cut[k - 1] <= cut[k]
      /\ \A k \in 1 .. n : links[k].commands = From(cut[k - 1], cut[k])
      /\ in_order = From(cut[n], committed)
      /\ \A k \in 1 .. n : links[k].done <=> k <= ran
      /\ executed = Numbers(cut[ran])
  BY <1>0, <1>1, <1>2 DEF CutBy
<1>5. ASSUME NEW k \in 1 .. n + 1
      PROVE  /\ cuts[k - 1] <= cuts[k]
             /\ links'[k].commands = From(cuts[k - 1], cuts[k])
             /\ links'[k].done <=> k <= ran
  <2>1. CASE k = n + 1
    BY <2>1, <1>1, <1>2, <1>3, <1>4
  <2>2. CASE k \in 1 .. n
    <3>1. cuts[k] = cut[k] /\ cuts[k - 1] = cut[k - 1]
      BY <2>2, <1>2, <1>3
    <3> QED BY <2>2, <3>1, <1>2, <1>4
  <2>3. k = n + 1 \/ k \in 1 .. n
    BY <1>2
  <2> QED BY <2>1, <2>2, <2>3, Zenon
<1>6. in_order' = From(cuts[n + 1], committed)
  BY <1>2, <1>3, EmptyRun
<1>7. cuts[0] = 0 /\ executed' = Numbers(cuts[ran])
  BY <1>1, <1>2, <1>3, <1>4
<1>8. /\ \A k \in DOMAIN links' : cuts[k - 1] <= cuts[k]
      /\ \A k \in DOMAIN links' : links'[k].commands = From(cuts[k - 1], cuts[k])
      /\ \A k \in DOMAIN links' : links'[k].done <=> k <= ran
  BY <1>2, <1>5
<1>9. CutBy(cuts, ran)'
  <2>1. in_order' = From(cuts[Len(links')], committed')
    BY <1>2, <1>6
  <2> QED BY <2>1, <1>7, <1>8 DEF CutBy
<1>10. cuts \in [0 .. Len(links') -> 0 .. committed'] /\ ran \in 0 .. Len(links')
  BY <1>1, <1>2, <1>3
<1> QED BY <1>9, <1>10 DEF CommandsAreCut

LEMMA CommandsByRun ==
  ASSUME Typed, InTurn, CommandsAreCut, NEW k \in DOMAIN links, RunCommands(k), JobEffect(k)
  PROVE  CommandsAreCut'
<1>0. PICK n : n = Len(links)
  OBVIOUS
<1>1. PICK cut \in [0 .. n -> 0 .. committed], ran \in 0 .. n : CutBy(cut, ran)
  BY <1>0 DEF CommandsAreCut
<1>2. /\ n \in Nat /\ committed \in Nat /\ DOMAIN links = 1 .. n /\ k \in 1 .. n
      /\ DOMAIN links' = 1 .. n /\ Len(links') = n
      /\ \A j \in DOMAIN links : j # k => links'[j] = links[j]
      /\ links'[k].commands = links[k].commands /\ links'[k].done
      /\ ~links[k].done /\ Resolved(k - 1)
      /\ executed' = executed \o links[k].commands
      /\ UNCHANGED <<committed, in_order>>
  <2>1. links \in Seq(Links) /\ committed \in Nat /\ ~links[k].done
    BY BoundsAssumption DEF Typed, TypeOK, RunCommands
  <2>2. /\ DOMAIN links' = DOMAIN links /\ Len(links') = Len(links)
        /\ \A j \in DOMAIN links : j # k => links'[j] = links[j]
        /\ links'[k].commands = links[k].commands
    BY DEF JobEffect, Moves, Becomes
  <2>3. links' = [links EXCEPT ![k].done = TRUE]
    BY DEF RunCommands
  <2>4. links'[k].done
    BY <2>1, <2>3, LinkFields, DoneUpdate DEF Becomes
  <2> QED BY <2>1, <2>2, <2>4, <1>0 DEF RunCommands, InTurn, callVars
<1>4. /\ cut[0] = 0 /\ \A j \in 1 .. n : cut[j - 1] <= cut[j]
      /\ \A j \in 1 .. n : links[j].commands = From(cut[j - 1], cut[j])
      /\ in_order = From(cut[n], committed)
      /\ \A j \in 1 .. n : links[j].done <=> j <= ran
      /\ executed = Numbers(cut[ran])
  BY <1>0, <1>1, <1>2 DEF CutBy
<1>5. ran = k - 1
  <2>1. k - 1 \in 1 .. n => k - 1 <= ran
    BY <1>2, <1>4 DEF Resolved
  <2>2. ~(k <= ran)
    BY <1>2, <1>4
  <2>3. k = 1 \/ k - 1 \in 1 .. n
    BY <1>2
  <2> QED BY <2>1, <2>2, <2>3, <1>1, <1>2
<1>6. executed' = Numbers(cut[k])
  <2>1. cut[k - 1] \in Nat /\ cut[k] \in Nat /\ cut[k - 1] <= cut[k]
    <3>1. k \in 1 .. n /\ k \in 0 .. n /\ k - 1 \in 0 .. n
      BY <1>2
    <3>2. cut[k - 1] \in 0 .. committed /\ cut[k] \in 0 .. committed
      BY <1>1, <3>1
    <3>3. cut[k - 1] <= cut[k]
      BY <1>4, <3>1
    <3> QED BY <3>2, <3>3, <1>2
  <2>2. Numbers(cut[k - 1]) \o From(cut[k - 1], cut[k]) = Numbers(cut[k])
    BY <2>1, RunsJoin
  <2> QED BY <2>2, <1>2, <1>4, <1>5
<1>7. ASSUME NEW j \in 1 .. n
      PROVE  links'[j].commands = links[j].commands /\ (links'[j].done <=> j <= k)
  <2>1. CASE j = k
    BY <2>1, <1>2
  <2>2. CASE j # k
    <3>1. links[j].done <=> j <= k - 1
      BY <1>4, <1>5
    <3>2. j <= k - 1 <=> j <= k
      BY <2>2, <1>2
    <3> QED BY <2>2, <3>1, <3>2, <1>2
  <2> QED BY <2>1, <2>2
<1>8. CutBy(cut, k)'
  BY <1>2, <1>4, <1>6, <1>7 DEF CutBy
<1>9. k \in 0 .. n
  BY <1>2
<1>10. [0 .. n -> 0 .. committed] = [0 .. Len(links') -> 0 .. committed'] /\ Len(links') = n
  BY <1>2
<1>11. \E c \in [0 .. Len(links') -> 0 .. committed'], r \in 0 .. Len(links') : CutBy(c, r)'
  BY <1>1, <1>8, <1>9, <1>10
<1> QED BY <1>11 DEF CommandsAreCut

----------------------------------------------------------------------------
\* A frame that started finds exactly the commands committed before its call.
LEMMA CommandsAreInOrder ==
  ASSUME Typed, InTurn, CommandsAreCut
  PROVE  CommandsInOrder
<1>0. PICK n : n = Len(links)
  OBVIOUS
<1>1. PICK cut \in [0 .. n -> 0 .. committed], ran \in 0 .. n : CutBy(cut, ran)
  BY <1>0 DEF CommandsAreCut
<1>2. n \in Nat /\ committed \in Nat /\ DOMAIN links = 1 .. n
  BY <1>0, BoundsAssumption DEF Typed, TypeOK
<1>3. /\ cut[0] = 0 /\ \A j \in 1 .. n : cut[j - 1] <= cut[j]
      /\ \A j \in 1 .. n : links[j].commands = From(cut[j - 1], cut[j])
      /\ \A j \in 1 .. n : links[j].done <=> j <= ran
      /\ executed = Numbers(cut[ran])
  BY <1>0, <1>1, <1>2 DEF CutBy
<1>4. \A i \in 0 .. n : cut[i] \in Nat
  BY <1>1, <1>2
<1>5. executed = Numbers(Len(executed))
  <2>1. Len(Numbers(cut[ran])) = cut[ran]
    BY <1>1, <1>4 DEF Numbers
  <2> QED BY <2>1, <1>3
<1>6. ASSUME NEW k \in DOMAIN links,
             links[k].body = "prepare" \/ links[k].tail \notin {"none", "done"}
      PROVE  LET mine == [i \in 1 .. k |-> links[i].commands]
                 drained == UNION {{mine[i][j] : j \in DOMAIN mine[i]} : i \in 1 .. k}
             IN  {executed[i] : i \in DOMAIN executed} = drained
  <2> DEFINE mine == [i \in 1 .. k |-> links[i].commands]
             elements(i) == {mine[i][j] : j \in DOMAIN mine[i]}
             drained == UNION {elements(i) : i \in 1 .. k}
  <2>1. links[k].done /\ ~Resolved(k)
    BY <1>6 DEF InTurn, Resolved
  <2>2. ran = k
    <3>1. k <= ran
      BY <2>1, <1>2, <1>3
    <3>2. k + 1 \in 1 .. n => ~(k + 1 <= ran)
      <4>1. k \in 1 .. (k + 1) - 1
        BY <1>2
      <4>2. SUFFICES ASSUME k + 1 \in 1 .. n PROVE ~links[k + 1].done
        BY <1>3
      <4>3. links[k + 1].done => \A j \in 1 .. (k + 1) - 1 : Resolved(j)
        BY <4>2, <1>2 DEF InTurn
      <4> QED BY <4>1, <4>3, <2>1
    <3> QED BY <3>1, <3>2, <1>1, <1>2
  <2>3. ASSUME NEW i \in 1 .. k
        PROVE  elements(i) = cut[i - 1] + 1 .. cut[i]
    <3>1. i \in 1 .. n /\ i - 1 \in 0 .. n /\ i \in 0 .. n
      BY <1>2
    <3>2. mine[i] = From(cut[i - 1], cut[i])
      BY <3>1, <1>3
    <3>3. cut[i - 1] \in Nat /\ cut[i] \in Nat /\ cut[i - 1] <= cut[i]
      BY <3>1, <1>3, <1>4
    <3> HIDE DEF mine
    <3>4. \A x : x \in cut[i - 1] + 1 .. cut[i] => x - cut[i - 1] \in 1 .. cut[i] - cut[i - 1]
                                               /\ x = cut[i - 1] + (x - cut[i - 1])
      BY <3>3
    <3>5. elements(i) \subseteq cut[i - 1] + 1 .. cut[i]
      BY <3>2, <3>3 DEF From
    <3>6. cut[i - 1] + 1 .. cut[i] \subseteq elements(i)
      BY <3>2, <3>3, <3>4 DEF From
    <3> QED BY <3>5, <3>6
  <2>4. {executed[i] : i \in DOMAIN executed} = 1 .. cut[k]
    BY <2>2, <1>3, <1>4 DEF Numbers
  <2> HIDE DEF mine, elements
  <2>5. drained \subseteq 1 .. cut[k]
    <3>1. SUFFICES ASSUME NEW i \in 1 .. k PROVE cut[i - 1] + 1 .. cut[i] \subseteq 1 .. cut[k]
      BY <2>3
    <3>2. cut[i] <= cut[k]
        <4> DEFINE Above == {j \in Nat : j \in i .. k /\ cut[i] <= cut[j]}
                   Left == {k - j : j \in Above}
        <4>1. i \in Above /\ Left \subseteq Nat /\ Left # {}
          BY <1>2, <1>4
        <4>2. PICK l \in Left : \A m \in Left : l <= m
          <5> HIDE DEF Left
          <5> QED BY <4>1, LeastExists
        <4>3. PICK j \in Above : l = k - j
          BY <4>2
        <4>4. ASSUME j < k PROVE j + 1 \in Above
          <5>1. j + 1 \in 1 .. n /\ (j + 1) - 1 = j
            BY <4>3, <4>4, <1>2
          <5>2. cut[j] <= cut[j + 1]
            BY <5>1, <1>3
          <5>3. cut[j] \in Nat /\ cut[j + 1] \in Nat /\ cut[i] \in Nat
            BY <5>1, <4>3, <1>2, <1>4
          <5>4. j + 1 \in Nat /\ j + 1 \in i .. k
            BY <4>3, <4>4, <1>2
          <5>5. cut[i] <= cut[j + 1]
            BY <4>3, <5>2, <5>3
          <5> QED BY <5>4, <5>5
        <4>5. j = k
          <5>1. k \in Nat /\ j \in Nat /\ j <= k
            BY <4>3, <1>2
          <5>2. j < k => k - (j + 1) \in Left
            BY <4>4
          <5> HIDE DEF Left, Above
          <5>3. j < k => l <= k - (j + 1)
            BY <5>2, <4>2
          <5> QED BY <5>1, <5>3, <4>3
        <4> QED BY <4>3, <4>5
    <3> QED BY <3>2, <1>2, <1>4
  <2>6. 1 .. cut[k] \subseteq drained
    <3>1. SUFFICES ASSUME NEW x \in 1 .. cut[k] PROVE \E i \in 1 .. k : x \in cut[i - 1] + 1 .. cut[i]
      BY <2>3
    <3> DEFINE T == {i \in Nat : i \in 0 .. k /\ x <= cut[i]}
    <3>2. T \subseteq Nat /\ k \in T
      BY <1>2
    <3>3. PICK i \in T : \A j \in T : i <= j
      <4> HIDE DEF T
      <4> QED BY <3>2, LeastExists
    <3>4. i # 0
      <4>1. x <= cut[i] /\ ~(x <= 0)
        BY <3>3, <1>2, <1>4
      <4> QED BY <4>1, <1>3
    <3>5. i - 1 \notin T /\ i \in 1 .. k /\ i - 1 \in 0 .. k /\ i - 1 \in Nat
      <4>1. i \in 1 .. k /\ i - 1 \in 0 .. k /\ i - 1 \in Nat
        BY <3>3, <3>4, <1>2
      <4>2. ~(i <= i - 1)
        BY <4>1
      <4> HIDE DEF T
      <4> QED BY <4>1, <4>2, <3>3
    <3>7. x <= cut[i] /\ ~(x <= cut[i - 1])
      BY <3>3, <3>5
    <3>6. cut[i - 1] \in Nat /\ cut[i] \in Nat
      BY <3>5, <1>2, <1>4
    <3> QED BY <3>5, <3>7, <3>6
  <2> QED BY <2>4, <2>5, <2>6 DEF elements, mine
<1> QED BY <1>5, <1>6 DEF CommandsInOrder
----------------------------------------------------------------------------
(* The graphs *)

\* A graph found in the cache was made for a frame of the same hash.
LEMMA FoundFits ==
  ASSUME Typed, InTurn, EntriesFit, NEW k \in DOMAIN links, MayRender(k),
         ~Lookup(links[k].frame).rebuild
  PROVE  /\ links[k].frame \in Frames
         /\ Found(k) \in Graphs /\ Found(k) # NoGraph /\ Found(k) \in DOMAIN made_for
         /\ frame_graph_shape_hash(made_for[Found(k)]) = frame_graph_shape_hash(links[k].frame)
         /\ camera_setup_count(made_for[Found(k)]) = camera_setup_count(links[k].frame)
<1> DEFINE f == links[k].frame
           found == Lookup(f)
           i == found.index
<1>1. f \in Frames /\ entries \in Seq(Entry) /\ Len(entries) <= with_capacity
  BY MaxEntriesAssumption DEF MayRender, InTurn, Typed, TypeOK, with_capacity
<1>2. /\ found.entries[i].shape_hash = frame_graph_shape_hash(f)
      /\ found.entries[i].setups = camera_setup_count(f)
      /\ found.entries[i].final_graph # NoGraph
      /\ i \in DOMAIN entries
      /\ found.entries[i].final_graph = entries[i].final_graph
      /\ found.entries[i].shape_hash = entries[i].shape_hash
      /\ found.entries[i].setups = entries[i].setups
  <2>1. f \in Frames
    BY <1>1
  <2> HIDE DEF f
  <2> QED BY <1>1, <2>1, LookupFits DEF f
<1>3. Found(k) = found.entries[i].final_graph
  BY DEF Found
<1> HIDE DEF found, i
<1>4. /\ Found(k) \in DOMAIN made_for
      /\ frame_graph_shape_hash(f) = frame_graph_shape_hash(made_for[Found(k)])
      /\ camera_setup_count(f) = camera_setup_count(made_for[Found(k)])
  BY <1>2, <1>3 DEF EntriesFit
<1>5. DOMAIN made_for \subseteq Graphs
  BY BoundsAssumption DEF Typed, TypeOK, Graphs
<1> QED BY <1>1, <1>2, <1>3, <1>4, <1>5

\* A lookup keeps the graphs of the entries fitting.
LEMMA EntriesByLookup ==
  ASSUME Typed, EntriesFit, NEW f \in Frames, entries' = Lookup(f).entries,
         UNCHANGED <<made_for, built>>
  PROVE  EntriesFit'
<1> DEFINE found == Lookup(f)
<1>1. entries \in Seq(Entry) /\ Len(entries) <= with_capacity
  BY MaxEntriesAssumption DEF Typed, TypeOK, with_capacity
<1>2. \A i \in DOMAIN found.entries :
         found.entries[i].final_graph # NoGraph =>
           /\ i \in DOMAIN entries
           /\ found.entries[i].final_graph = entries[i].final_graph
           /\ found.entries[i].shape_hash = entries[i].shape_hash
           /\ found.entries[i].setups = entries[i].setups
  BY <1>1, LookupFits
<1>3. entries' = found.entries
  OBVIOUS
<1> HIDE DEF found
<1> QED BY <1>2, <1>3 DEF EntriesFit

\* What InstallGraph does: the graph it makes is the next number.
LEMMA InstallEffect ==
  ASSUME Typed, EntriesFit, InstallGraph
  PROVE  /\ EntriesFit' /\ entries' \in Seq(Entry) /\ Len(entries') <= with_capacity
         /\ made_for' \in Seq(Frames) /\ built' \in Seq(BOOLEAN)
         /\ Len(made_for') \in 0 .. MaxGraphs /\ Len(built') = Len(made_for')
         /\ \A g \in DOMAIN made_for : g \in DOMAIN made_for' /\ made_for'[g] = made_for[g]
<1>1. PICK f \in Frames, b \in BOOLEAN :
         LET found == Lookup(f)
         IN  /\ made_for' = Append(made_for, f) /\ built' = Append(built, b)
             /\ entries' = [found.entries EXCEPT ![found.index].final_graph = Len(made_for')]
  BY DEF InstallGraph
<1> DEFINE found == Lookup(f)
           old == found.entries
           i == found.index
<1>2. /\ old \in Seq(Entry) /\ Len(old) <= with_capacity /\ i \in DOMAIN old
      /\ old[i].shape_hash = frame_graph_shape_hash(f) /\ old[i].setups = camera_setup_count(f)
      /\ \A j \in DOMAIN old : old[j].final_graph # NoGraph =>
           /\ j \in DOMAIN entries
           /\ old[j].final_graph = entries[j].final_graph
           /\ old[j].shape_hash = entries[j].shape_hash
           /\ old[j].setups = entries[j].setups
  <2>1. entries \in Seq(Entry) /\ Len(entries) <= with_capacity
    BY MaxEntriesAssumption DEF Typed, TypeOK, with_capacity
  <2> QED BY <2>1, LookupFits
<1>3. PICK g : g = Len(made_for')
  OBVIOUS
<1>4. /\ made_for' \in Seq(Frames) /\ built' \in Seq(BOOLEAN)
      /\ g = Len(made_for) + 1 /\ g \in 1 .. MaxGraphs /\ Len(built') = g
      /\ made_for'[g] = f
      /\ \A j \in DOMAIN made_for : j \in DOMAIN made_for' /\ made_for'[j] = made_for[j]
      /\ DOMAIN made_for' = 1 .. g
  <2>1. /\ made_for \in Seq(Frames) /\ built \in Seq(BOOLEAN) /\ Len(built) = Len(made_for)
        /\ Len(made_for) < MaxGraphs
    BY DEF Typed, EntriesFit, InstallGraph
  <2>2. made_for' = Append(made_for, f) /\ built' = Append(built, b)
    BY <1>1
  <2> QED BY <2>1, <2>2, <1>3, BoundsAssumption
<1>5. entries' = [old EXCEPT ![i].final_graph = g]
  BY <1>1, <1>3
<1> HIDE DEF i, old
<1> DEFINE e == [old[i] EXCEPT !.final_graph = g]
<1>6. /\ e \in Entry /\ e.final_graph = g /\ e.shape_hash = old[i].shape_hash
      /\ e.setups = old[i].setups
  <2>1. old[i] \in Entry /\ g \in Graphs
    BY <1>2, <1>4 DEF Graphs
  <2> QED BY <2>1 DEF Entry
<1>7. entries' = [old EXCEPT ![i] = e]
  BY <1>5
<1> HIDE DEF e
<1>8. /\ entries' \in Seq(Entry) /\ Len(entries') = Len(old) /\ DOMAIN entries' = DOMAIN old
      /\ entries'[i] = e /\ \A j \in DOMAIN old : j # i => entries'[j] = old[j]
  BY <1>2, <1>6, <1>7
<1>9. ASSUME NEW j \in DOMAIN entries', entries'[j].final_graph # NoGraph
      PROVE  /\ entries'[j].final_graph \in DOMAIN made_for'
             /\ entries'[j].shape_hash = frame_graph_shape_hash(made_for'[entries'[j].final_graph])
             /\ entries'[j].setups = camera_setup_count(made_for'[entries'[j].final_graph])
  <2>1. CASE j = i
    BY <2>1, <1>2, <1>4, <1>6, <1>8
  <2>2. CASE j # i
    <3>1. /\ entries'[j] = old[j] /\ j \in DOMAIN entries
          /\ old[j].final_graph = entries[j].final_graph
          /\ old[j].shape_hash = entries[j].shape_hash /\ old[j].setups = entries[j].setups
      BY <2>2, <1>2, <1>8, <1>9
    <3>2. /\ entries[j].final_graph \in DOMAIN made_for
          /\ entries[j].shape_hash = frame_graph_shape_hash(made_for[entries[j].final_graph])
          /\ entries[j].setups = camera_setup_count(made_for[entries[j].final_graph])
      BY <3>1, <1>9 DEF EntriesFit
    <3> QED BY <3>1, <3>2, <1>4
  <2> QED BY <2>1, <2>2
<1>10. EntriesFit'
  BY <1>3, <1>4, <1>9 DEF EntriesFit
<1> QED BY <1>2, <1>3, <1>4, <1>8, <1>10
----------------------------------------------------------------------------
(* The frame under way *)

\* Only one frame is under way, and a job that is about to render has nothing
\* before it that is not over and nothing after it that has begun.
LEMMA OneAtATime ==
  ASSUME Typed, InTurn, NEW k \in DOMAIN links
  PROVE  /\ Active(k) => links[k].done /\ links[k].body # "none"
         /\ links[k].done /\ ~Resolved(k) =>
              \A j \in DOMAIN links : /\ j < k => Resolved(j)
                                      /\ j > k => ~links[j].done /\ ~links[j].synced
         /\ \A j \in DOMAIN links : Active(k) /\ Active(j) => j = k
         /\ MayRender(k) => \A j \in DOMAIN links : ~Active(j)
<1>0. DOMAIN links \subseteq Nat /\ \A j \in DOMAIN links : DOMAIN links = 1 .. Len(links)
  BY DEF Typed
<1>1. \A j \in DOMAIN links : Active(j) => links[j].done /\ links[j].body \in {"prepare", "over"}
                                          /\ ~Resolved(j)
  BY DEF Active, InTurn, Resolved
<1>2. ASSUME NEW i \in DOMAIN links, links[i].done, ~Resolved(i), NEW j \in DOMAIN links
      PROVE  /\ j < i => Resolved(j)
             /\ j > i => ~links[j].done /\ ~links[j].synced
  <2>1. CASE j < i
    <3>1. j \in 1 .. i - 1
      BY <2>1, <1>0
    <3> QED BY <2>1, <3>1, <1>0, <1>2 DEF InTurn
  <2>2. CASE j > i
    <3>1. i \in 1 .. j - 1
      BY <2>2, <1>0
    <3>2. ~links[j].done
      BY <3>1, <1>2 DEF InTurn
    <3> QED BY <2>2, <3>2, <1>0 DEF InTurn
  <2> QED BY <2>1, <2>2
<1>3. ASSUME NEW i \in DOMAIN links, links[i].done, ~Resolved(i), NEW j \in DOMAIN links, Active(j)
      PROVE  j = i
  <2>1. i \in Nat /\ j \in Nat
    BY <1>0
  <2>2. ~(j < i) /\ ~(j > i)
    BY <1>1, <1>2, <1>3
  <2> QED BY <2>1, <2>2
<1>4. MayRender(k) => links[k].done /\ ~Resolved(k) /\ ~Active(k)
  BY DEF MayRender, Resolved, Active, InTurn
<1> QED BY <1>1, <1>2, <1>3, <1>4

\* No job is refused: the frame that begins finds no flag taken.
LEMMA NoFlagTaken ==
  ASSUME Typed, InTurn, FlagsAreOwned, NEW k \in DOMAIN links, MayRender(k)
  PROVE  \A g \in Graphs : flag[g] = 0
BY OneAtATime DEF FlagsAreOwned

\* A job that leaves the frames under way as they are.
LEMMA FlagsStay ==
  ASSUME FlagsAreOwned, UNCHANGED <<refused, flag, phase, phase_owner>>,
         DOMAIN links \subseteq DOMAIN links',
         \A j \in DOMAIN links : links'[j].graph = links[j].graph,
         \A j \in DOMAIN links : (Active(j)' <=> Active(j)),
         \A j \in DOMAIN links : links'[j].body = "prepare" => links[j].body = "prepare",
         \A j \in DOMAIN links : links'[j].tail = "resolve" => links[j].tail = "resolve",
         \A j \in DOMAIN links' \ DOMAIN links : links'[j].tail = "none" /\ links'[j].body # "prepare"
  PROVE  FlagsAreOwned'
<1>1. \A j \in DOMAIN links' \ DOMAIN links : ~Active(j)'
  BY DEF Active
<1>2. \A g \in Graphs : flag'[g] # 0 =>
         flag'[g] \in DOMAIN links' /\ Active(flag[g])' /\ links'[flag'[g]].graph = g
  BY DEF FlagsAreOwned
<1>3. ASSUME NEW j \in DOMAIN links'
      PROVE  /\ Active(j)' => flag'[links'[j].graph] = j
             /\ links'[j].body = "prepare" => phase_owner' = j
             /\ links'[j].tail = "resolve" => phase' = "preconsume" /\ phase_owner' = j
  <2>1. CASE j \in DOMAIN links
    BY <2>1 DEF FlagsAreOwned
  <2>2. CASE j \notin DOMAIN links
    BY <2>2, <1>1, <1>3
  <2> QED BY <2>1, <2>2
<1>4. ASSUME NEW g \in Graphs, flag'[g] # 0 PROVE Active(flag[g])'
  BY <1>2, <1>4 DEF Active
<1> QED BY <1>2, <1>3, <1>4 DEF FlagsAreOwned

LEMMA FlagsByJob ==
  ASSUME Typed, InTurn, EntriesFit, FlagsAreOwned, NEW k \in DOMAIN links, JobEffect(k)
  PROVE  FlagsAreOwned'
<1>0. /\ links \in Seq(Links) /\ flag \in [Graphs -> Calls] /\ k \in Nat /\ k # 0
      /\ links[k].tail # "none" => links[k].body = "over"
  BY DEF Typed, TypeOK, InTurn
<1>1. /\ DOMAIN links' = DOMAIN links /\ \A j \in DOMAIN links : j # k => links'[j] = links[j]
  BY DEF JobEffect, Moves
<1>2. \A j \in DOMAIN links : j # k => (Active(j)' <=> Active(j))
  BY <1>1 DEF Active
<1>3. CASE \/ /\ RunCommands(k)
              /\ Moves(k, TRUE, links[k].body, links[k].graph, links[k].nodes, links[k].tail,
                    links[k].synced, links[k].prepared)
           \/ /\ RenderNothing(k) \/ RebuildFails(k)
              /\ Moves(k, links[k].done, "over", links[k].graph, links[k].nodes, links[k].tail,
                    links[k].synced, links[k].prepared)
           \/ /\ ExecuteUnbuilt(k)
              /\ Moves(k, links[k].done, "over", links[k].graph, links[k].nodes, links[k].tail,
                    TRUE, links[k].prepared)
           \/ /\ RunRenderNodeJobs(k)
              /\ Moves(k, links[k].done, links[k].body, links[k].graph, "done", links[k].tail,
                    links[k].synced, links[k].prepared)
           \/ /\ FinishNodeKickoff(k)
              /\ Moves(k, links[k].done, links[k].body, links[k].graph, links[k].nodes, "cleanup",
                    links[k].synced, links[k].prepared)
  <2>1. UNCHANGED <<refused, flag, phase, phase_owner>>
    BY <1>3 DEF RunCommands, RenderNothing, RebuildFails, ExecuteUnbuilt, RunRenderNodeJobs,
                FinishNodeKickoff, frameVars, graphVars
  <2>2. /\ links'[k].graph = links[k].graph
        /\ links'[k].body = "prepare" => links[k].body = "prepare"
        /\ links'[k].tail = "resolve" => links[k].tail = "resolve"
        /\ Active(k)' <=> Active(k)
    BY <1>0, <1>3 DEF Moves, Becomes, Active, RunCommands, RenderNothing, RebuildFails,
          ExecuteUnbuilt, RunRenderNodeJobs, FinishNodeKickoff, MayRender
  <2>3. \A j \in DOMAIN links :
          /\ links'[j].graph = links[j].graph
          /\ links'[j].body = "prepare" => links[j].body = "prepare"
          /\ links'[j].tail = "resolve" => links[j].tail = "resolve"
          /\ Active(j)' <=> Active(j)
    BY <1>1, <1>2, <2>2
  <2> QED BY <1>1, <2>1, <2>3, FlagsStay
<1>4. CASE /\ BeginExecution(k) /\ flag[Found(k)] = 0
           /\ Moves(k, links[k].done, "prepare", Found(k), "todo", links[k].tail,
                 TRUE, links[k].prepared)
  <2>1. /\ MayRender(k) /\ ~Lookup(links[k].frame).rebuild
    BY <1>4 DEF BeginExecution
  <2>2. Found(k) \in Graphs /\ \A g \in Graphs : flag[g] = 0
    BY <2>1, FoundFits, NoFlagTaken
  <2>3. /\ flag' = [flag EXCEPT ![Found(k)] = k] /\ refused' = refused
        /\ phase_owner' = k
    BY <1>4, <2>2 DEF BeginExecution
  <2>4. Becomes(links'[k], links[k], links[k].done, "prepare", Found(k), "todo", links[k].tail,
                TRUE, links[k].prepared)
    BY <1>4 DEF Moves
  <2>5. \A j \in DOMAIN links : ~Active(j) /\ links[j].tail # "resolve" /\ links[j].body # "prepare"
    BY <2>1, OneAtATime DEF Active
  <2>6. /\ Active(k)' /\ links'[k].graph = Found(k) /\ links'[k].tail # "resolve"
        /\ \A j \in DOMAIN links : j # k => ~Active(j)'
        /\ \A j \in DOMAIN links : links'[j].tail # "resolve"
        /\ \A j \in DOMAIN links : j # k => links'[j].body # "prepare"
    BY <1>1, <1>2, <2>4, <2>5 DEF Becomes, Active
  <2>7. flag'[Found(k)] = k /\ \A g \in Graphs : g # Found(k) => flag'[g] = 0
    BY <1>0, <2>2, <2>3
  <2>8. ASSUME NEW g \in Graphs, flag'[g] # 0
        PROVE  flag'[g] \in DOMAIN links' /\ Active(flag[g])' /\ links'[flag'[g]].graph = g
    <3>1. g = Found(k) /\ flag'[g] = k
      BY <2>7, <2>8
    <3>2. Active(k)' => Active(flag[g])'
      BY <3>1 DEF Active
    <3> QED BY <3>1, <3>2, <2>6, <1>1
  <2> HIDE DEF Found
  <2>9. ~refused'
    BY <2>3 DEF FlagsAreOwned
  <2> QED BY <1>1, <2>3, <2>6, <2>7, <2>8, <2>9 DEF FlagsAreOwned
<1>5. CASE \/ /\ PrepareFails(k)
              /\ Moves(k, links[k].done, "over", links[k].graph, links[k].nodes, links[k].tail,
                    links[k].synced, links[k].prepared)
           \/ /\ CleanupNodeJobs(k)
              /\ Moves(k, links[k].done, links[k].body, links[k].graph, links[k].nodes, "done",
                    links[k].synced, links[k].prepared)
  <2>1. /\ flag' = [flag EXCEPT ![links[k].graph] = 0]
        /\ UNCHANGED <<refused, phase, phase_owner>> /\ Active(k)
    BY <1>5 DEF PrepareFails, CleanupNodeJobs, frameVars, Active
  <2>2. ~Active(k)' /\ links'[k].tail # "resolve" /\ links'[k].body # "prepare"
    BY <1>0, <1>5 DEF Moves, Becomes, Active, PrepareFails, CleanupNodeJobs
  <2>3. \A j \in DOMAIN links : Active(j) => j = k
    BY <2>1, OneAtATime
  <2>4. \A j \in DOMAIN links : ~Active(j)' /\ links'[j].tail # "resolve" /\ links'[j].body # "prepare"
    BY <1>1, <1>2, <2>2, <2>3 DEF Active
  <2>5. \A g \in Graphs : flag'[g] = 0
    <3>1. ASSUME NEW g \in Graphs, flag[g] # 0 PROVE g = links[k].graph
      <4>1. flag[g] \in DOMAIN links /\ Active(flag[g]) /\ links[flag[g]].graph = g
        BY <3>1 DEF FlagsAreOwned
      <4> QED BY <4>1, <2>3
    <3> QED BY <3>1, <2>1, <1>0
  <2> QED BY <1>1, <2>1, <2>4, <2>5 DEF FlagsAreOwned
<1>6. CASE /\ DispatchTail(k)
           /\ Moves(k, links[k].done, "over", links[k].graph, links[k].nodes, "resolve",
                 links[k].synced, prepare(camera_data, CamerasOf(links[k].frame)))
  <2>1. /\ UNCHANGED <<refused, flag, phase_owner>> /\ phase' = "preconsume" /\ Active(k)
        /\ links[k].body = "prepare"
    BY <1>6 DEF DispatchTail, graphVars, Active
  <2>2. /\ Active(k)' /\ links'[k].graph = links[k].graph /\ links'[k].body = "over"
    BY <1>0, <1>6 DEF Moves, Becomes, Active, DispatchTail
  <2>3. \A j \in DOMAIN links : Active(j) => j = k
    BY <2>1, OneAtATime
  <2>4. \A j \in DOMAIN links : j # k => ~Active(j)' /\ links'[j].tail # "resolve"
                                         /\ links'[j].body # "prepare"
    BY <1>1, <1>2, <2>3 DEF Active
  <2>5. flag'[links[k].graph] = k /\ phase_owner' = k
    BY <2>1 DEF FlagsAreOwned
  <2>6. ASSUME NEW g \in Graphs, flag'[g] # 0
        PROVE  flag'[g] \in DOMAIN links' /\ Active(flag[g])' /\ links'[flag'[g]].graph = g
    <3>1. flag[g] = k /\ flag'[g] = k /\ links[k].graph = g
      BY <2>1, <2>3, <2>6 DEF FlagsAreOwned
    <3>2. Active(k)' => Active(flag[g])'
      BY <3>1 DEF Active
    <3> QED BY <3>1, <3>2, <2>2, <1>1
  <2>7. ~refused'
    BY <2>1 DEF FlagsAreOwned
  <2> QED BY <1>1, <2>1, <2>2, <2>4, <2>5, <2>6, <2>7 DEF FlagsAreOwned
<1>7. CASE /\ FlowAllocatorResolve(k)
           /\ Moves(k, links[k].done, links[k].body, links[k].graph, links[k].nodes, "finish",
                 links[k].synced, links[k].prepared)
  <2>1. /\ UNCHANGED <<flag, phase_owner>> /\ Active(k) /\ links[k].tail = "resolve"
        /\ refused' = (refused \/ phase # "preconsume" \/ phase_owner # k)
    BY <1>7 DEF FlowAllocatorResolve, graphVars, Active
  <2>2. ~refused'
    BY <2>1 DEF FlagsAreOwned
  <2>3. /\ Active(k)' /\ links'[k].graph = links[k].graph /\ links'[k].body = "over"
        /\ links'[k].tail = "finish"
    BY <1>0, <1>7 DEF Moves, Becomes, Active, FlowAllocatorResolve
  <2>4. \A j \in DOMAIN links : Active(j) => j = k
    BY <2>1, OneAtATime
  <2>5. \A j \in DOMAIN links : j # k => ~Active(j)' /\ links'[j].tail # "resolve"
                                         /\ links'[j].body # "prepare"
    BY <1>1, <1>2, <2>4 DEF Active
  <2>6. flag'[links[k].graph] = k
    BY <2>1 DEF FlagsAreOwned
  <2>7. ASSUME NEW g \in Graphs, flag'[g] # 0
        PROVE  flag'[g] \in DOMAIN links' /\ Active(flag[g])' /\ links'[flag'[g]].graph = g
    <3>1. flag[g] = k /\ flag'[g] = k /\ links[k].graph = g
      BY <2>1, <2>4, <2>7 DEF FlagsAreOwned
    <3>2. Active(k)' => Active(flag[g])'
      BY <3>1 DEF Active
    <3> QED BY <3>1, <3>2, <2>3, <1>1
  <2> QED BY <1>1, <2>2, <2>3, <2>5, <2>6, <2>7 DEF FlagsAreOwned
<1>8. BeginExecution(k) => flag[Found(k)] = 0
  BY FoundFits, NoFlagTaken DEF BeginExecution
<1> HIDE DEF Found
<1> QED BY <1>3, <1>4, <1>5, <1>6, <1>7, <1>8, Zenon DEF JobEffect

\* The flags when a call appends a link.
LEMMA FlagsByCall ==
  ASSUME Typed, InTurn, FlagsAreOwned, NEW frame \in Frames \cup {NoFrame}, DispatchLink(frame),
         UNCHANGED <<refused, flag, phase, phase_owner>>
  PROVE  FlagsAreOwned'
<1>0. PICK n : n = Len(links')
  OBVIOUS
<1>1. /\ DOMAIN links' = DOMAIN links \cup {n} /\ \A j \in DOMAIN links : links'[j] = links[j]
      /\ links'[n].body \in {"none", "todo"} /\ links'[n].tail = "none"
  BY <1>0, DispatchEffect
<1>2. \A j \in DOMAIN links : (Active(j)' <=> Active(j))
  BY <1>1 DEF Active
<1>3. \A j \in DOMAIN links' \ DOMAIN links : links'[j].tail = "none" /\ links'[j].body # "prepare"
  BY <1>1
<1> QED BY <1>1, <1>2, <1>3, FlagsStay

\* A job keeps the graphs of the frames fitting; one that begins has looked its
\* graph up.
LEMMA GraphsByJob ==
  ASSUME Typed, InTurn, EntriesFit, GraphsFit, NEW k \in DOMAIN links, JobEffect(k)
  PROVE  GraphsFit'
<1>1. /\ DOMAIN links' = DOMAIN links /\ \A j \in DOMAIN links : j # k => links'[j] = links[j]
      /\ links'[k].frame = links[k].frame
  BY DEF JobEffect, Moves, Becomes
<1>2. made_for' = made_for
  BY DEF JobEffect, RunCommands, RenderNothing, RebuildFails, PrepareFails, ExecuteUnbuilt,
         BeginExecution, DispatchTail, RunRenderNodeJobs, FlowAllocatorResolve, FinishNodeKickoff,
         CleanupNodeJobs, graphVars
<1>3. CASE links'[k].graph = links[k].graph
  BY <1>1, <1>2, <1>3 DEF GraphsFit
<1>4. CASE BeginExecution(k) /\ links'[k].graph = Found(k)
  <2>1. /\ links[k].frame \in Frames /\ Found(k) \in DOMAIN made_for
        /\ frame_graph_shape_hash(made_for[Found(k)]) = frame_graph_shape_hash(links[k].frame)
        /\ camera_setup_count(made_for[Found(k)]) = camera_setup_count(links[k].frame)
    BY <1>4, FoundFits DEF BeginExecution
  <2> HIDE DEF Found
  <2> QED BY <1>1, <1>2, <1>4, <2>1 DEF GraphsFit
<1>5. links'[k].graph = links[k].graph \/ (BeginExecution(k) /\ links'[k].graph = Found(k))
  BY DEF JobEffect, Moves, Becomes
<1> QED BY <1>3, <1>4, <1>5

\* The frames' graphs when a call appends a link.
LEMMA GraphsByCall ==
  ASSUME Typed, InTurn, GraphsFit, NEW frame \in Frames \cup {NoFrame}, DispatchLink(frame),
         UNCHANGED made_for
  PROVE  GraphsFit'
<1>0. PICK n : n = Len(links')
  OBVIOUS
<1>1. /\ DOMAIN links' = DOMAIN links \cup {n} /\ \A j \in DOMAIN links : links'[j] = links[j]
      /\ links'[n].graph = NoGraph
  BY <1>0, DispatchEffect
<1> QED BY <1>1 DEF GraphsFit

\* The cache's entries when a job steps.
LEMMA EntriesByJob ==
  ASSUME Typed, InTurn, EntriesFit, NEW k \in DOMAIN links, JobEffect(k)
  PROVE  EntriesFit' /\ entries' \in Seq(Entry) /\ Len(entries') <= with_capacity
<1>1. UNCHANGED <<made_for, built>>
  BY DEF JobEffect, RunCommands, RenderNothing, RebuildFails, PrepareFails, ExecuteUnbuilt,
         BeginExecution, DispatchTail, RunRenderNodeJobs, FlowAllocatorResolve, FinishNodeKickoff,
         CleanupNodeJobs, graphVars
<1>2. CASE entries' = entries
  <2>1. entries \in Seq(Entry) /\ Len(entries) <= with_capacity
    BY MaxEntriesAssumption DEF Typed, TypeOK, with_capacity
  <2> QED BY <1>1, <1>2, <2>1 DEF EntriesFit
<1>3. CASE MayRender(k) /\ entries' = Lookup(links[k].frame).entries
  BY <1>1, <1>3, FoundIsTyped, EntriesByLookup
<1>4. entries' = entries \/ (MayRender(k) /\ entries' = Lookup(links[k].frame).entries)
  BY DEF JobEffect, RunCommands, RenderNothing, RebuildFails, PrepareFails, ExecuteUnbuilt,
         BeginExecution, DispatchTail, RunRenderNodeJobs, FlowAllocatorResolve, FinishNodeKickoff,
         CleanupNodeJobs, graphVars
<1> QED BY <1>2, <1>3, <1>4

----------------------------------------------------------------------------
(* Types *)

\* A list of commands followed by another.
LEMMA CommandsJoin ==
  ASSUME NEW s \in Seq(1 .. MaxCommands), NEW t \in Seq(1 .. MaxCommands)
  PROVE  s \o t \in Seq(1 .. MaxCommands)
OBVIOUS

\* The camera data after a frame synced.
LEMMA SyncEffect ==
  ASSUME Typed, InTurn, NEW k \in DOMAIN links, links[k].frame \in Frames, SyncCameras(k)
  PROVE  LET ids == CamerasOf(links[k].frame)
         IN  /\ camera_data' \in CameraData /\ DOMAIN camera_data' = ids
             /\ \A c \in ids : camera_data'[c] = IF c \in DOMAIN camera_data
                                                 THEN camera_data[c] ELSE k
<1> DEFINE ids == CamerasOf(links[k].frame)
<1>1. ids \subseteq CameraIds /\ k \in Calls
  <2>1. ids \subseteq CameraIds
    BY DEF CamerasOf, CameraIds
  <2>2. k \in Calls
    BY BoundsAssumption DEF Typed, TypeOK, Calls
  <2> QED BY <2>1, <2>2
<1>2. \A c \in DOMAIN camera_data : camera_data[c] \in Calls
  <2>1. camera_data \in CameraData
    BY DEF Typed, TypeOK
  <2> QED BY <2>1 DEF CameraData
<1>3. camera_data' = sync_scene_cameras(camera_data, ids, k)
  BY DEF SyncCameras
<1> HIDE DEF ids
<1>4. /\ DOMAIN camera_data' = ids
      /\ \A c \in ids : camera_data'[c] = IF c \in DOMAIN camera_data THEN camera_data[c] ELSE k
      /\ camera_data' = [c \in ids |-> camera_data'[c]]
  BY <1>3 DEF sync_scene_cameras, Kept, from_factories
<1>5. camera_data' \in [ids -> Calls]
  BY <1>1, <1>2, <1>4
<1>6. camera_data' \in CameraData
  BY <1>1, <1>5 DEF CameraData
<1> QED BY <1>4, <1>6 DEF ids

LEMMA TypedByJob ==
  ASSUME Typed, InTurn, EntriesFit, NEW k \in DOMAIN links, JobEffect(k)
  PROVE  Typed'
<1>1. /\ links' \in Seq(Links) /\ Len(links') = Len(links)
  BY DEF JobEffect, Moves
<1>2. UNCHANGED <<committed, in_order, flush_link, flushing, made_for, built>>
  BY DEF JobEffect, RunCommands, RenderNothing, RebuildFails, PrepareFails, ExecuteUnbuilt,
         BeginExecution, DispatchTail, RunRenderNodeJobs, FlowAllocatorResolve, FinishNodeKickoff,
         CleanupNodeJobs, graphVars, callVars
<1>3. executed' \in Seq(1 .. MaxCommands)
  <2>1. executed \in Seq(1 .. MaxCommands) /\ links[k].commands \in Seq(1 .. MaxCommands)
    BY LinkFields DEF Typed, TypeOK
  <2>2. executed' = executed \/ executed' = executed \o links[k].commands
    BY DEF JobEffect, RunCommands, RenderNothing, RebuildFails, PrepareFails, ExecuteUnbuilt,
           BeginExecution, DispatchTail, RunRenderNodeJobs, FlowAllocatorResolve, FinishNodeKickoff,
           CleanupNodeJobs
  <2> QED BY <2>1, <2>2, CommandsJoin
<1>4. k \in Calls /\ 0 \in Calls
  BY BoundsAssumption DEF Typed, TypeOK, Calls
<1>5. locked' \in Calls /\ phase_owner' \in Calls
  <2>1. locked' \in {locked, k, 0} /\ phase_owner' \in {phase_owner, k}
    BY DEF JobEffect, RunCommands, RenderNothing, RebuildFails, PrepareFails, ExecuteUnbuilt,
           BeginExecution, DispatchTail, RunRenderNodeJobs, FlowAllocatorResolve, FinishNodeKickoff,
           CleanupNodeJobs, frameVars
  <2> QED BY <2>1, <1>4 DEF Typed, TypeOK
<1>6. flag' \in [Graphs -> Calls]
  <2>1. \/ flag' = flag \/ flag' = [flag EXCEPT ![Found(k)] = k]
        \/ flag' = [flag EXCEPT ![links[k].graph] = 0]
    BY DEF JobEffect, RunCommands, RenderNothing, RebuildFails, PrepareFails, ExecuteUnbuilt,
           BeginExecution, DispatchTail, RunRenderNodeJobs, FlowAllocatorResolve, FinishNodeKickoff,
           CleanupNodeJobs, graphVars
  <2> HIDE DEF Found
  <2> QED BY <2>1, <1>4 DEF Typed, TypeOK
<1>7. phase' \in {"reset", "preconsume", "consume"}
  <2>1. phase' \in {phase, "reset", "preconsume", "consume"}
    BY DEF JobEffect, RunCommands, RenderNothing, RebuildFails, PrepareFails, ExecuteUnbuilt,
           BeginExecution, DispatchTail, RunRenderNodeJobs, FlowAllocatorResolve, FinishNodeKickoff,
           CleanupNodeJobs, frameVars
  <2> QED BY <2>1 DEF Typed, TypeOK
<1>8. refused' \in BOOLEAN
  <2>1. refused' = refused \/ refused' = TRUE \/ FlowAllocatorResolve(k)
    BY DEF JobEffect, RunCommands, RenderNothing, RebuildFails, PrepareFails, ExecuteUnbuilt,
           BeginExecution, DispatchTail, RunRenderNodeJobs, FinishNodeKickoff,
           CleanupNodeJobs, frameVars
  <2>2. FlowAllocatorResolve(k) => refused' \in BOOLEAN
    BY DEF FlowAllocatorResolve
  <2> QED BY <2>1, <2>2 DEF Typed, TypeOK
<1>9. camera_data' \in CameraData
  <2>1. camera_data' = camera_data \/ (MayRender(k) /\ SyncCameras(k))
    BY DEF JobEffect, RunCommands, RenderNothing, RebuildFails, PrepareFails, ExecuteUnbuilt,
           BeginExecution, DispatchTail, RunRenderNodeJobs, FlowAllocatorResolve, FinishNodeKickoff,
           CleanupNodeJobs, frameVars
  <2>2. MayRender(k) /\ SyncCameras(k) => camera_data' \in CameraData
    BY FoundIsTyped, SyncEffect
  <2> QED BY <2>1, <2>2 DEF Typed, TypeOK
<1>10. entries' \in Seq(Entry) /\ Len(entries') \in 0 .. with_capacity
  <2>1. entries' \in Seq(Entry) /\ Len(entries') <= with_capacity
    BY EntriesByJob
  <2> QED BY <2>1, MaxEntriesAssumption DEF with_capacity
<1>11. TypeOK'
  BY <1>1, <1>2, <1>3, <1>5, <1>6, <1>7, <1>8, <1>9, <1>10 DEF Typed, TypeOK
<1> QED BY <1>1, <1>2, <1>10, <1>11 DEF Typed

LEMMA TypedByCall ==
  ASSUME Typed, InTurn, NEW frame \in Frames \cup {NoFrame}, DispatchLink(frame),
         flushing' \in BOOLEAN, UNCHANGED <<committed, executed, graphVars, frameVars>>
  PROVE  Typed'
<1>1. /\ links' \in Seq(Links) /\ Len(links') \in Calls /\ in_order' = <<>>
      /\ flush_link' \in Calls
  BY DispatchEffect
<1>2. in_order' \in Seq(1 .. MaxCommands)
  BY <1>1
<1>3. UNCHANGED <<committed, executed, entries, made_for, built, flag, locked, phase, phase_owner,
                  camera_data, refused>>
  BY DEF graphVars, frameVars
<1>4. TypeOK'
  BY <1>1, <1>2, <1>3 DEF Typed, TypeOK
<1> QED BY <1>1, <1>3, <1>4 DEF Typed
----------------------------------------------------------------------------
(* The camera data *)

\* Frames that synced as before and showed what they showed.
LEMMA ShowsStays ==
  ASSUME NEW i, links'[i].synced <=> links[i].synced, links'[i].frame = links[i].frame, NEW c
  PROVE  Shows(c, i)' <=> Shows(c, i)
BY DEF Shows, CamerasOf

LEMMA CamerasStay ==
  ASSUME NEW i, links'[i].frame = links[i].frame
  PROVE  CamerasOf(links[i].frame)' = CamerasOf(links[i].frame)
BY DEF CamerasOf

\* A step that syncs nothing and appends only links that have not synced.
LEMMA DataStays ==
  ASSUME Typed, DataIsOfLast, UNCHANGED camera_data, links' \in Seq(Links),
         Len(links) <= Len(links'),
         \A j \in DOMAIN links : /\ links'[j].frame = links[j].frame
                                 /\ links'[j].synced <=> links[j].synced
                                 /\ Active(j)' /\ links'[j].tail # "none" =>
                                      links'[j].prepared = prepare(camera_data, CamerasOf(links[j].frame)),
         \A j \in DOMAIN links' \ DOMAIN links : ~links'[j].synced /\ ~Active(j)'
  PROVE  DataIsOfLast'
<1>0. PICK m : m = Len(links')
  OBVIOUS
<1>1. /\ Len(links) \in Nat /\ m \in Nat /\ Len(links) <= m
      /\ DOMAIN links = 1 .. Len(links) /\ DOMAIN links' = 1 .. m
  BY <1>0 DEF Typed
<1>2. \A j \in DOMAIN links : \A c : Shows(c, j)' <=> Shows(c, j)
  BY ShowsStays
<1>3. \A j \in Len(links) + 1 .. m : ~links'[j].synced
  BY <1>1
<1>4. \A j \in DOMAIN links' \ DOMAIN links : \A c : Shows(c, j)'
  BY DEF Shows
<1>5. PICK last \in 0 .. Len(links) :
        /\ \A i \in last + 1 .. Len(links) : ~links[i].synced
        /\ last = 0 => DOMAIN camera_data = {}
        /\ last # 0 => links[last].synced /\ DOMAIN camera_data = CamerasOf(links[last].frame)
  BY DEF DataIsOfLast
<1>6. /\ last \in 0 .. m
      /\ \A i \in last + 1 .. m : ~links'[i].synced
      /\ last = 0 => DOMAIN camera_data' = {}
      /\ last # 0 => links'[last].synced /\ DOMAIN camera_data' = CamerasOf(links[last].frame)'
  <2>1. \A i \in last + 1 .. m : i \in last + 1 .. Len(links) \/ i \in Len(links) + 1 .. m
    BY <1>1
  <2>2. \A i \in last + 1 .. Len(links) : i \in DOMAIN links
    BY <1>1
  <2>3. last # 0 => last \in DOMAIN links /\ CamerasOf(links[last].frame)' = CamerasOf(links[last].frame)
    <3>1. last # 0 => last \in DOMAIN links
      BY <1>1
    <3> QED BY <3>1, CamerasStay
  <2> QED BY <1>1, <1>3, <1>5, <2>1, <2>2, <2>3
<1>7. ASSUME NEW c \in DOMAIN camera_data'
      PROVE  camera_data'[c] \in DOMAIN links' /\ MadeBy(c, Len(links), camera_data[c])'
  <2>1. PICK j : j = camera_data[c]
    OBVIOUS
  <2>2. j \in DOMAIN links /\ MadeBy(c, Len(links), j)
    BY <2>1 DEF DataIsOfLast
  <2>3. /\ links'[j].synced /\ \A i \in j .. m : Shows(c, i)'
        /\ \A i \in 1 .. j - 1 : links'[i].synced => \E l \in i .. j - 1 : ~Shows(c, l)'
    <3>1. \A i \in j .. m : i \in j .. Len(links) \/ i \in DOMAIN links' \ DOMAIN links
      BY <1>1, <2>2
    <3>2. \A i \in j .. Len(links) : i \in DOMAIN links
      BY <1>1, <2>2
    <3>3. \A i \in 1 .. j - 1 : i \in DOMAIN links /\ \A l \in i .. j - 1 : l \in DOMAIN links
      BY <1>1, <2>2
    <3> QED BY <1>2, <1>4, <2>2, <3>1, <3>2, <3>3 DEF MadeBy
  <2> QED BY <1>0, <1>1, <2>1, <2>2, <2>3 DEF MadeBy
<1>8. ASSUME NEW k \in DOMAIN links', Active(k)', links'[k].tail # "none"
      PROVE  links'[k].prepared = prepare(camera_data, CamerasOf(links[k].frame))'
  <2>1. k \in DOMAIN links /\ links'[k].prepared = prepare(camera_data, CamerasOf(links[k].frame))
    BY <1>8
  <2>2. CamerasOf(links[k].frame)' = CamerasOf(links[k].frame)
    BY <2>1, CamerasStay
  <2> QED BY <2>1, <2>2 DEF prepare
<1> QED BY <1>0, <1>6, <1>7, <1>8 DEF DataIsOfLast

\* The frame of a link that syncs is the last to have synced, and its cameras
\* that had no data get data of its own.
LEMMA DataBySync ==
  ASSUME Typed, InTurn, DataIsOfLast, NEW k \in DOMAIN links, MayRender(k), SyncCameras(k),
         links'[k].synced, links'[k].frame = links[k].frame, DOMAIN links' = DOMAIN links,
         Len(links') = Len(links), \A j \in DOMAIN links : j # k => links'[j] = links[j],
         links'[k].tail = "none"
  PROVE  DataIsOfLast'
<1>0. PICK n : n = Len(links)
  OBVIOUS
<1>1. /\ n \in Nat /\ DOMAIN links = 1 .. n /\ Len(links') = n /\ k \in 1 .. n
      /\ links[k].frame \in Frames /\ ~links[k].synced
  BY <1>0 DEF Typed, MayRender, InTurn
<1>2. /\ \A j \in DOMAIN links : j > k => ~links[j].synced /\ ~links'[j].synced
      /\ \A j \in DOMAIN links : ~Active(j)
  <2>1. links[k].done /\ ~Resolved(k)
    BY DEF MayRender, Resolved
  <2>2. \A j \in DOMAIN links : j > k => j # k
    BY <1>1
  <2> QED BY <2>1, <2>2, OneAtATime
<1>3. /\ DOMAIN camera_data' = CamerasOf(links[k].frame)
      /\ \A c \in DOMAIN camera_data' : camera_data'[c] = IF c \in DOMAIN camera_data
                                                         THEN camera_data[c] ELSE k
  BY <1>1, SyncEffect
<1>4. PICK last \in 0 .. n :
        /\ \A i \in last + 1 .. n : ~links[i].synced
        /\ last = 0 => DOMAIN camera_data = {}
        /\ last # 0 => links[last].synced /\ DOMAIN camera_data = CamerasOf(links[last].frame)
  BY <1>0 DEF DataIsOfLast
<1>5. last < k
  <2>1. last # 0 => last \in DOMAIN links /\ ~(last > k) /\ last # k
    BY <1>1, <1>2, <1>4
  <2> QED BY <2>1, <1>1
<1>6. \A j \in DOMAIN links : \A c : j # k => (Shows(c, j)' <=> Shows(c, j))
  BY DEF Shows, CamerasOf
<1>7. CamerasOf(links[k].frame)' = CamerasOf(links[k].frame)
  BY DEF CamerasOf
<1>8. \A j \in k + 1 .. n : ~links'[j].synced
  BY <1>1, <1>2
<1>9. ASSUME NEW c \in DOMAIN camera_data'
      PROVE  /\ camera_data'[c] \in DOMAIN links'
             /\ MadeBy(c, Len(links), camera_data[c])'
  <2>1. PICK j : j = camera_data'[c]
    OBVIOUS
  <2>2. Shows(c, k)'
    BY <1>3, <1>7 DEF Shows
  <2>3. \A i \in k + 1 .. n : Shows(c, i)'
    BY <1>8 DEF Shows
  <2>4. CASE c \in DOMAIN camera_data
    <3>1. j \in DOMAIN links /\ MadeBy(c, n, j)
      BY <1>0, <1>3, <2>1, <2>4 DEF DataIsOfLast
    <3>2. links[j].synced /\ j < k
      <4>1. links[j].synced
        BY <3>1 DEF MadeBy
      <4>2. ~(j > k) /\ j # k
        BY <3>1, <4>1, <1>1, <1>2
      <4> QED BY <3>1, <4>1, <4>2, <1>1
    <3>3. /\ \A i \in j .. n : i \in DOMAIN links /\ (i = k \/ (i # k))
          /\ \A i \in 1 .. j - 1 : i \in DOMAIN links /\ i # k
                                   /\ \A l \in i .. j - 1 : l \in DOMAIN links /\ l # k
      BY <1>1, <3>1, <3>2
    <3>4. /\ links'[j].synced /\ \A i \in j .. n : Shows(c, i)'
          /\ \A i \in 1 .. j - 1 : links'[i].synced => \E l \in i .. j - 1 : ~Shows(c, l)'
      BY <1>1, <1>6, <2>2, <3>1, <3>2, <3>3 DEF MadeBy
    <3> QED BY <1>1, <2>1, <3>1, <3>4 DEF MadeBy
  <2>5. CASE c \notin DOMAIN camera_data
    <3>1. j = k
      BY <1>3, <2>1, <2>5
    <3>2. \A i \in k .. n : Shows(c, i)'
      <4>1. \A i \in k .. n : i = k \/ i \in k + 1 .. n
        BY <1>1
      <4> QED BY <4>1, <2>2, <2>3
    <3>3. ASSUME NEW i \in 1 .. k - 1, links'[i].synced
          PROVE  \E l \in i .. k - 1 : ~Shows(c, l)'
      <4>1. i \in DOMAIN links /\ i # k /\ links[i].synced
        BY <1>1, <3>3
      <4>2. i <= last /\ last # 0
        BY <1>1, <1>4, <4>1
      <4>3. last \in DOMAIN links /\ last # k /\ last \in i .. k - 1
        BY <1>1, <1>5, <4>2
      <4>4. ~Shows(c, last)
        BY <1>4, <2>5, <4>2 DEF Shows
      <4> QED BY <1>6, <4>3, <4>4
    <3> QED BY <1>1, <2>1, <3>1, <3>2, <3>3 DEF MadeBy
  <2> QED BY <2>4, <2>5
<1>10. ASSUME NEW j \in DOMAIN links', Active(j)' PROVE links'[j].tail = "none"
  <2>1. j # k => ~Active(j)'
    BY <1>2 DEF Active
  <2> QED BY <2>1, <1>10
<1>11. \E l \in 0 .. Len(links') :
         /\ \A i \in l + 1 .. Len(links') : ~links'[i].synced
         /\ l = 0 => DOMAIN camera_data' = {}
         /\ l # 0 => links'[l].synced /\ DOMAIN camera_data' = CamerasOf(links[l].frame)'
  <2>1. k \in 0 .. n /\ k # 0
    BY <1>1
  <2> QED BY <2>1, <1>1, <1>3, <1>7, <1>8
<1> QED BY <1>9, <1>10, <1>11 DEF DataIsOfLast

LEMMA DataByJob ==
  ASSUME Typed, InTurn, DataIsOfLast, NEW k \in DOMAIN links, JobEffect(k)
  PROVE  DataIsOfLast'
<1>0. /\ links' \in Seq(Links) /\ Len(links') = Len(links) /\ DOMAIN links' = DOMAIN links
      /\ \A j \in DOMAIN links : j # k => links'[j] = links[j]
      /\ links'[k].frame = links[k].frame
      /\ links[k].tail # "none" => links[k].body = "over"
  BY DEF JobEffect, Moves, Becomes, InTurn
<1>1. CASE MayRender(k) /\ SyncCameras(k) /\ links'[k].synced /\ links'[k].tail = links[k].tail
  <2>1. links'[k].tail = "none"
    BY <1>0, <1>1 DEF MayRender
  <2> QED BY <1>0, <1>1, <2>1, DataBySync
<1>2. CASE /\ camera_data' = camera_data /\ (links'[k].synced <=> links[k].synced)
           /\ Active(k)' /\ links'[k].tail # "none" =>
                links'[k].prepared = prepare(camera_data, CamerasOf(links[k].frame))
  <2>1. ASSUME NEW j \in DOMAIN links
        PROVE  /\ links'[j].frame = links[j].frame
               /\ links'[j].synced <=> links[j].synced
               /\ Active(j)' /\ links'[j].tail # "none" =>
                    links'[j].prepared = prepare(camera_data, CamerasOf(links[j].frame))
    <3>1. CASE j = k
      BY <1>0, <1>2, <3>1
    <3>2. CASE j # k
      <4>1. links'[j] = links[j] /\ (Active(j)' => Active(j))
        BY <1>0, <3>2 DEF Active
      <4> QED BY <4>1 DEF DataIsOfLast
    <3> QED BY <3>1, <3>2
  <2>2. Len(links) <= Len(links')
    BY <1>0 DEF Typed
  <2> QED BY <1>0, <1>2, <2>1, <2>2, DataStays
<1>3. CASE \/ /\ ExecuteUnbuilt(k) \/ (BeginExecution(k) /\ flag[Found(k)] # 0)
              /\ Moves(k, links[k].done, "over", links[k].graph, links[k].nodes, links[k].tail,
                    TRUE, links[k].prepared)
           \/ /\ BeginExecution(k) /\ flag[Found(k)] = 0
              /\ Moves(k, links[k].done, "prepare", Found(k), "todo", links[k].tail,
                    TRUE, links[k].prepared)
  BY <1>1, <1>3 DEF ExecuteUnbuilt, BeginExecution, Moves, Becomes
<1>4. CASE \/ /\ RunCommands(k)
              /\ Moves(k, TRUE, links[k].body, links[k].graph, links[k].nodes, links[k].tail,
                    links[k].synced, links[k].prepared)
           \/ /\ RunRenderNodeJobs(k)
              /\ Moves(k, links[k].done, links[k].body, links[k].graph, "done", links[k].tail,
                    links[k].synced, links[k].prepared)
           \/ /\ FlowAllocatorResolve(k)
              /\ Moves(k, links[k].done, links[k].body, links[k].graph, links[k].nodes, "finish",
                    links[k].synced, links[k].prepared)
           \/ /\ FinishNodeKickoff(k)
              /\ Moves(k, links[k].done, links[k].body, links[k].graph, links[k].nodes, "cleanup",
                    links[k].synced, links[k].prepared)
           \/ /\ CleanupNodeJobs(k)
              /\ Moves(k, links[k].done, links[k].body, links[k].graph, links[k].nodes, "done",
                    links[k].synced, links[k].prepared)
  <2>1. /\ camera_data' = camera_data /\ (links'[k].synced <=> links[k].synced)
        /\ links'[k].body = links[k].body /\ links'[k].prepared = links[k].prepared
        /\ links'[k].tail = links[k].tail \/ links[k].tail \in {"resolve", "finish", "cleanup"}
    BY <1>4 DEF RunCommands, RunRenderNodeJobs, FlowAllocatorResolve, FinishNodeKickoff,
                CleanupNodeJobs, frameVars, Moves, Becomes
  <2>2. Active(k)' /\ links'[k].tail # "none" => Active(k) /\ links[k].tail # "none"
    BY <2>1 DEF Active
  <2>3. Active(k)' /\ links'[k].tail # "none" =>
          links'[k].prepared = prepare(camera_data, CamerasOf(links[k].frame))
    BY <2>1, <2>2 DEF DataIsOfLast
  <2> QED BY <1>2, <2>1, <2>3
<1>5. CASE /\ RenderNothing(k) \/ RebuildFails(k) \/ PrepareFails(k)
           /\ Moves(k, links[k].done, "over", links[k].graph, links[k].nodes, links[k].tail,
                 links[k].synced, links[k].prepared)
  <2>1. /\ camera_data' = camera_data /\ (links'[k].synced <=> links[k].synced)
        /\ links'[k].tail = "none" /\ links'[k].body = "over"
    BY <1>0, <1>5 DEF RenderNothing, RebuildFails, PrepareFails, MayRender, frameVars, Moves, Becomes
  <2> QED BY <1>2, <2>1
<1>6. CASE /\ DispatchTail(k)
           /\ Moves(k, links[k].done, "over", links[k].graph, links[k].nodes, "resolve",
                 links[k].synced, prepare(camera_data, CamerasOf(links[k].frame)))
  <2>1. /\ camera_data' = camera_data /\ (links'[k].synced <=> links[k].synced)
        /\ links'[k].prepared = prepare(camera_data, CamerasOf(links[k].frame))
    BY <1>6 DEF DispatchTail, Moves, Becomes
  <2> QED BY <1>2, <2>1
<1> QED BY <1>3, <1>4, <1>5, <1>6, Zenon DEF JobEffect

LEMMA DataByCall ==
  ASSUME Typed, InTurn, DataIsOfLast, NEW frame \in Frames \cup {NoFrame}, DispatchLink(frame),
         UNCHANGED camera_data
  PROVE  DataIsOfLast'
<1>0. PICK n : n = Len(links')
  OBVIOUS
<1>1. /\ links' \in Seq(Links) /\ n = Len(links) + 1 /\ Len(links) \in Nat
      /\ DOMAIN links' = DOMAIN links \cup {n} /\ \A j \in DOMAIN links : links'[j] = links[j]
      /\ links'[n].tail = "none" /\ ~links'[n].synced /\ links'[n].body \in {"none", "todo"}
  BY <1>0, DispatchEffect DEF Typed
<1>2. ASSUME NEW j \in DOMAIN links, Active(j)', links'[j].tail # "none"
      PROVE  links'[j].prepared = prepare(camera_data, CamerasOf(links[j].frame))
  <2>1. Active(j) /\ links'[j] = links[j]
    BY <1>1, <1>2 DEF Active
  <2> QED BY <2>1, <1>2 DEF DataIsOfLast
<1>3. ASSUME NEW j \in DOMAIN links' \ DOMAIN links PROVE ~links'[j].synced /\ ~Active(j)'
  BY <1>1 DEF Active
<1>4. Len(links) <= Len(links')
  BY <1>0, <1>1
<1>5. \A j \in DOMAIN links : links'[j].frame = links[j].frame /\ (links'[j].synced <=> links[j].synced)
  BY <1>1
<1> QED BY <1>1, <1>2, <1>3, <1>4, <1>5, DataStays

----------------------------------------------------------------------------
(* Everything together *)

LEMMA InitInductive == ASSUME Init PROVE Inductive
<1>1. /\ links = <<>> /\ made_for = <<>> /\ built = <<>> /\ entries = <<>> /\ in_order = <<>>
      /\ executed = <<>> /\ committed = 0 /\ flush_link = 0 /\ flushing = FALSE /\ locked = 0
      /\ flag = [g \in Graphs |-> 0] /\ phase = "reset" /\ phase_owner = 0 /\ refused = FALSE
      /\ camera_data = <<>>
  BY DEF Init, NewScene
<1>2. 0 \in Calls /\ 0 \in 0 .. MaxCommands /\ 0 \in 0 .. MaxGraphs /\ 0 \in 0 .. with_capacity
  BY BoundsAssumption, MaxEntriesAssumption DEF Calls, with_capacity
<1>3. camera_data \in CameraData /\ DOMAIN camera_data = {}
  <2>1. camera_data \in [{} -> Calls]
    BY <1>1
  <2> QED BY <1>1, <2>1 DEF CameraData
<1>4. /\ in_order \in Seq(1 .. MaxCommands) /\ executed \in Seq(1 .. MaxCommands)
      /\ links \in Seq(Links) /\ made_for \in Seq(Frames) /\ built \in Seq(BOOLEAN)
      /\ entries \in Seq(Entry) /\ Len(links) = 0 /\ Len(made_for) = 0 /\ Len(entries) = 0
  BY <1>1
<1>10. flag \in [Graphs -> Calls]
  BY <1>1, <1>2
<1>11. TypeOK
  BY <1>1, <1>2, <1>3, <1>4, <1>10 DEF TypeOK
<1>5. Typed
  BY <1>4, <1>11 DEF Typed
<1>6. InTurn
  BY <1>1 DEF InTurn
<1>7. CommandsAreCut
  <2> DEFINE cut == [i \in {0} |-> 0]
  <2>1. cut \in [0 .. 0 -> 0 .. 0] /\ cut[0] = 0
    OBVIOUS
  <2> HIDE DEF cut
  <2>2. From(cut[0], 0) = <<>> /\ Numbers(0) = <<>>
    BY <2>1 DEF From, Numbers
  <2>3. CutBy(cut, 0)
    BY <1>1, <2>1, <2>2 DEF CutBy
  <2> QED BY <1>1, <2>1, <2>3 DEF CommandsAreCut
<1>8. FlagsAreOwned /\ EntriesFit /\ GraphsFit
  BY <1>1 DEF FlagsAreOwned, EntriesFit, GraphsFit
<1>9. DataIsOfLast
  BY <1>1, <1>3 DEF DataIsOfLast
<1> QED BY <1>5, <1>6, <1>7, <1>8, <1>9 DEF Inductive

LEMMA InductiveByJob ==
  ASSUME Inductive, NEW k \in DOMAIN links, Job(k)
  PROVE  Inductive'
<1> USE DEF Inductive
<1>1. JobEffect(k)
  BY JobHasEffect
<1>2. BeginExecution(k) => Found(k) \in Graphs
  BY FoundFits DEF BeginExecution
<1>3. flush_link' = flush_link
  BY <1>1 DEF JobEffect, RunCommands, RenderNothing, RebuildFails, PrepareFails, ExecuteUnbuilt,
         BeginExecution, DispatchTail, RunRenderNodeJobs, FlowAllocatorResolve, FinishNodeKickoff,
         CleanupNodeJobs, callVars
<1>4. CommandsAreCut'
  <2>1. CASE RunCommands(k)
    BY <1>1, <2>1, CommandsByRun
  <2>2. CASE ~RunCommands(k)
    <3>1. UNCHANGED <<committed, in_order, executed>>
      BY <1>1, <2>2 DEF JobEffect, RenderNothing, RebuildFails, PrepareFails, ExecuteUnbuilt,
         BeginExecution, DispatchTail, RunRenderNodeJobs, FlowAllocatorResolve, FinishNodeKickoff,
         CleanupNodeJobs, callVars
    <3>2. /\ DOMAIN links' = DOMAIN links /\ Len(links') = Len(links)
          /\ \A j \in DOMAIN links : j # k => links'[j] = links[j]
          /\ links'[k].commands = links[k].commands /\ (links'[k].done <=> links[k].done)
      BY <1>1, <2>2 DEF JobEffect, Moves, Becomes
    <3>3. \A j \in DOMAIN links :
            links'[j].commands = links[j].commands /\ (links'[j].done <=> links[j].done)
      BY <3>2
    <3> QED BY <3>1, <3>2, <3>3, CommandsStay
  <2> QED BY <2>1, <2>2
<1> QED BY <1>1, <1>2, <1>3, <1>4, TypedByJob, InTurnByJob, FlagsByJob, EntriesByJob, GraphsByJob,
           DataByJob

LEMMA InductiveByCall ==
  ASSUME Inductive, NEW frame \in Frames \cup {NoFrame}, DispatchLink(frame),
         flushing' \in BOOLEAN, UNCHANGED <<committed, executed, graphVars, frameVars>>
  PROVE  Inductive'
<1> USE DEF Inductive
<1>1. UNCHANGED <<refused, flag, phase, phase_owner, made_for, camera_data>>
  BY DEF graphVars, frameVars
<1>2. EntriesFit'
  BY DEF graphVars, EntriesFit
<1> QED BY <1>1, <1>2, TypedByCall, InTurnByCall, CommandsByCall, FlagsByCall, GraphsByCall, DataByCall

\* Steps that dispatch nothing and leave every link alone.
LEMMA InductiveByOthers ==
  ASSUME Inductive, UNCHANGED <<executed, links, flush_link, flag, frameVars>>,
         Typed', CommandsAreCut', EntriesFit', GraphsFit'
  PROVE  Inductive'
<1>1. UNCHANGED <<links, flush_link, flag, phase, phase_owner, camera_data, refused>>
  BY DEF frameVars
<1>2. InTurn'
  BY <1>1 DEF Inductive, InTurn, Resolved, Active
<1>3. FlagsAreOwned'
  BY <1>1 DEF Inductive, FlagsAreOwned, Active
<1>4. DataIsOfLast'
  <2>1. \A j \in DOMAIN links : Active(j)' => Active(j)
    BY <1>1 DEF Active
  <2>2. links \in Seq(Links) /\ Len(links) <= Len(links)
    BY DEF Inductive, Typed
  <2>3. \A j \in DOMAIN links : Active(j)' /\ links'[j].tail # "none" =>
          links'[j].prepared = prepare(camera_data, CamerasOf(links[j].frame))
    BY <1>1, <2>1 DEF Inductive, DataIsOfLast
  <2> QED BY <1>1, <2>2, <2>3, DataStays DEF Inductive
<1> QED BY <1>2, <1>3, <1>4 DEF Inductive

LEMMA NextInductive == ASSUME Inductive, [Next]_vars PROVE Inductive'
<1> USE DEF Inductive
<1>1. ASSUME NEW k \in DOMAIN links, Job(k) PROVE Inductive'
  BY <1>1, InductiveByJob
<1>2. CASE render_scene
  <2>1. PICK f \in Frames : DispatchLink(f)
    BY <1>2 DEF render_scene
  <2>2. flushing' \in BOOLEAN /\ UNCHANGED <<committed, executed, graphVars, frameVars>>
    BY <1>2 DEF render_scene, Typed, TypeOK
  <2> QED BY <2>1, <2>2, InductiveByCall
<1>3. CASE sync_with_render_commands
  <2>1. /\ DispatchLink(NoFrame) /\ flushing' \in BOOLEAN
        /\ UNCHANGED <<committed, executed, graphVars, frameVars>>
    BY <1>3 DEF sync_with_render_commands
  <2> QED BY <2>1, InductiveByCall
<1>4. CASE CommitCommand
  <2>1. UNCHANGED <<executed, links, flush_link, flushing, flag, frameVars, graphVars>>
    BY <1>4 DEF CommitCommand, graphVars
  <2>2. /\ committed' \in 0 .. MaxCommands /\ in_order' \in Seq(1 .. MaxCommands)
    <3>1. /\ committed \in Nat /\ committed < MaxCommands /\ committed' = committed + 1
          /\ in_order \in Seq(1 .. MaxCommands) /\ in_order' = Append(in_order, committed + 1)
      BY <1>4, BoundsAssumption DEF CommitCommand, Typed, TypeOK
    <3>2. committed + 1 \in 1 .. MaxCommands
      BY <3>1, BoundsAssumption
    <3> QED BY <3>1, <3>2
  <2>3. Typed'
    BY <2>1, <2>2 DEF Typed, TypeOK, graphVars, frameVars
  <2>4. EntriesFit' /\ GraphsFit'
    BY <2>1 DEF EntriesFit, GraphsFit, graphVars
  <2>5. CommandsAreCut'
    BY <1>4, CommandsByCommit
  <2> HIDE DEF Inductive
  <2> QED BY <2>1, <2>3, <2>4, <2>5, InductiveByOthers
<1>5. CASE InstallGraph
  <2>1. UNCHANGED <<committed, in_order, executed, links, flush_link, flushing, flag, frameVars>>
    BY <1>5 DEF InstallGraph, callVars
  <2>2. /\ EntriesFit' /\ entries' \in Seq(Entry) /\ Len(entries') <= with_capacity
        /\ made_for' \in Seq(Frames) /\ built' \in Seq(BOOLEAN)
        /\ Len(made_for') \in 0 .. MaxGraphs /\ Len(built') = Len(made_for')
        /\ \A g \in DOMAIN made_for : g \in DOMAIN made_for' /\ made_for'[g] = made_for[g]
    BY <1>5, InstallEffect
  <2>3. DOMAIN built' = DOMAIN made_for' /\ Len(entries') \in 0 .. with_capacity
    BY <2>2, MaxEntriesAssumption DEF with_capacity
  <2>4. TypeOK'
    BY <2>1, <2>2, <2>3 DEF Typed, TypeOK, frameVars
  <2>5. Typed'
    BY <2>1, <2>2, <2>4 DEF Typed
  <2>6. GraphsFit'
    BY <2>1, <2>2 DEF GraphsFit
  <2>7. CommandsAreCut'
    BY <2>1, CommandsStay
  <2> HIDE DEF Inductive
  <2> QED BY <2>1, <2>2, <2>5, <2>6, <2>7, InductiveByOthers
<1>6. CASE flush_previous_frame_commands_processing \/ FlushReturns \/ Done \/ UNCHANGED vars
  <2>1. UNCHANGED <<committed, in_order, flush_link, executed, links, graphVars, frameVars>>
        /\ flushing' \in BOOLEAN
    BY <1>6 DEF flush_previous_frame_commands_processing, FlushReturns, Done, vars, callVars, Typed,
                TypeOK
  <2>2. Typed' /\ EntriesFit' /\ GraphsFit' /\ flag' = flag
    BY <2>1 DEF Typed, TypeOK, EntriesFit, GraphsFit, graphVars, frameVars
  <2>3. CommandsAreCut'
    BY <2>1, CommandsStay
  <2> HIDE DEF Inductive
  <2> QED BY <2>1, <2>2, <2>3, InductiveByOthers
<1> HIDE DEF Inductive
<1> QED BY <1>1, <1>2, <1>3, <1>4, <1>5, <1>6, Zenon DEF Next, Client

LEMMA AlwaysInductive == Spec => []Inductive
BY InitInductive, NextInductive, PTL DEF Spec

----------------------------------------------------------------------------
(* The properties *)

\* The frame that made a camera's data is told by the links alone.
LEMMA MadeInIsMadeBy ==
  ASSUME links \in Seq(Links), NEW k \in DOMAIN links, NEW c, NEW j \in 1 .. k, MadeBy(c, k, j)
  PROVE  MadeIn(c, k) = j
<1> DEFINE P(i) == /\ links[i].synced
                   /\ \A l \in i .. k : (~links[l].synced \/ c \in CamerasOf(links[l].frame))
                   /\ \A m \in 1 .. i - 1 : links[m].synced =>
                        \E l \in m .. i - 1 : ~(~links[l].synced \/ c \in CamerasOf(links[l].frame))
<1>1. \A i : P(i) <=> MadeBy(c, k, i)
  BY DEF MadeBy, Shows
<1>2. MadeIn(c, k) = CHOOSE i \in 1 .. k : P(i)
  BY DEF MadeIn
<1>3. k \in Nat
  OBVIOUS
<1> HIDE DEF P
<1>4. ASSUME NEW a \in 1 .. k, NEW b \in 1 .. k, MadeBy(c, k, a), MadeBy(c, k, b), a < b
      PROVE  FALSE
  <2>1. a \in 1 .. b - 1 /\ links[a].synced
    BY <1>3, <1>4 DEF MadeBy
  <2>2. PICK l \in a .. b - 1 : ~Shows(c, l)
    BY <1>4, <2>1 DEF MadeBy
  <2>3. l \in a .. k
    BY <1>3, <1>4, <2>2
  <2> QED BY <1>4, <2>2, <2>3 DEF MadeBy
<1>5. ASSUME NEW i \in 1 .. k, P(i) PROVE i = j
  <2>1. ~(i < j) /\ ~(j < i)
    BY <1>1, <1>4, <1>5
  <2> QED BY <2>1, <1>3
<1> QED BY <1>1, <1>2, <1>5

\* While a frame is under way the scene has the data of its cameras.
LEMMA DataIsThere ==
  ASSUME Typed, InTurn, DataIsOfLast
  PROVE  CameraDataLasts
<1>0. PICK n : n = Len(links)
  OBVIOUS
<1>1. links \in Seq(Links) /\ n \in Nat /\ DOMAIN links = 1 .. n
  BY <1>0 DEF Typed
<1>2. SUFFICES ASSUME NEW k \in DOMAIN links, Active(k)
               PROVE  LET ids == CamerasOf(links[k].frame)
                      IN  /\ DOMAIN camera_data = ids
                          /\ \A c \in ids :
                               /\ camera_data[c] = MadeIn(c, k)
                               /\ links[k].tail # "none" =>
                                    /\ CanGetCamera(links[k].prepared, c)
                                    /\ links[k].prepared[c] = {camera_data[c]}
  BY DEF CameraDataLasts
<1> DEFINE ids == CamerasOf(links[k].frame)
<1>3. links[k].synced /\ links[k].done /\ ~Resolved(k)
  BY <1>2 DEF InTurn, Active, Resolved
<1>4. \A j \in DOMAIN links : j > k => ~links[j].synced
  BY <1>3, OneAtATime
<1>5. DOMAIN camera_data = ids
  <2>1. PICK last \in 0 .. n :
          /\ \A i \in last + 1 .. n : ~links[i].synced
          /\ last # 0 => links[last].synced /\ DOMAIN camera_data = CamerasOf(links[last].frame)
    BY <1>0 DEF DataIsOfLast
  <2>2. ~(k \in last + 1 .. n) /\ (last # 0 => last \in DOMAIN links /\ ~(last > k))
    BY <1>1, <1>3, <1>4, <2>1
  <2>3. last = k
    BY <1>1, <2>1, <2>2
  <2> QED BY <1>1, <2>1, <2>3
<1>6. ASSUME NEW c \in ids
      PROVE  /\ camera_data[c] = MadeIn(c, k)
             /\ links[k].tail # "none" =>
                  /\ CanGetCamera(links[k].prepared, c)
                  /\ links[k].prepared[c] = {camera_data[c]}
  <2>1. PICK j : j = camera_data[c]
    OBVIOUS
  <2>2. j \in DOMAIN links /\ MadeBy(c, n, j)
    BY <1>0, <1>5, <2>1 DEF DataIsOfLast
  <2>3. j \in 1 .. k
    <3>1. links[j].synced
      BY <2>2 DEF MadeBy
    <3> QED BY <1>1, <1>4, <2>2, <3>1
  <2>4. MadeBy(c, k, j)
    <3>1. \A i \in j .. k : i \in j .. n
      BY <1>1, <2>3
    <3> QED BY <2>2, <3>1 DEF MadeBy
  <2>5. camera_data[c] = MadeIn(c, k)
    BY <1>1, <2>1, <2>3, <2>4, MadeInIsMadeBy
  <2>6. links[k].tail # "none" => links[k].prepared = prepare(camera_data, ids)
    BY <1>2 DEF DataIsOfLast
  <2>7. c \in DOMAIN prepare(camera_data, ids) /\ prepare(camera_data, ids)[c] = {camera_data[c]}
    BY <1>5 DEF prepare
  <2> HIDE DEF ids
  <2> QED BY <2>5, <2>6, <2>7 DEF CanGetCamera
<1> QED BY <1>5, <1>6

\* What the shape hash tells two frames apart by.
LEMMA HashTells ==
  ASSUME NEW a \in Frames, NEW b \in Frames,
         frame_graph_shape_hash(a) = frame_graph_shape_hash(b)
  PROVE  /\ a.mode = b.mode /\ a.purpose = b.purpose /\ a.capture = b.capture /\ a.view = b.view
         /\ NumCameras(a) = NumCameras(b)
         /\ \A i \in 1 .. NumCameras(b) :
              /\ a.cameras[i].features = b.cameras[i].features
              /\ a.cameras[i].dependencies = b.cameras[i].dependencies
<1> DEFINE hashes(f) == [i \in 1 .. NumCameras(f) |-> append_camera_graph_hash(f.cameras[i])]
<1>1. /\ hashes(a) = hashes(b)
      /\ frame_rendering_mode_key[a.mode] = frame_rendering_mode_key[b.mode]
      /\ frame_purpose_key[a.purpose] = frame_purpose_key[b.purpose]
      /\ frame_capture_key[a.capture] = frame_capture_key[b.capture]
      /\ frame_debug_graph_view_key[a.view] = frame_debug_graph_view_key[b.view]
  BY DEF frame_graph_shape_hash
<1>2. /\ a.mode \in DOMAIN frame_rendering_mode_key /\ b.mode \in DOMAIN frame_rendering_mode_key
      /\ a.purpose \in DOMAIN frame_purpose_key /\ b.purpose \in DOMAIN frame_purpose_key
      /\ a.capture \in DOMAIN frame_capture_key /\ b.capture \in DOMAIN frame_capture_key
      /\ a.view \in DOMAIN frame_debug_graph_view_key /\ b.view \in DOMAIN frame_debug_graph_view_key
  BY FramesAssumption
<1>3. a.mode = b.mode
  BY <1>1, <1>2 DEF frame_rendering_mode_key
<1>4. a.purpose = b.purpose
  BY <1>1, <1>2 DEF frame_purpose_key
<1>5. a.capture = b.capture /\ a.view = b.view
  BY <1>1, <1>2 DEF frame_capture_key, frame_debug_graph_view_key
<1>6. NumCameras(a) = NumCameras(b)
  <2>1. DOMAIN hashes(a) = DOMAIN hashes(b)
    BY <1>1
  <2>2. 1 .. NumCameras(a) = 1 .. NumCameras(b)
    BY <2>1
  <2>3. NumCameras(a) \in Nat /\ NumCameras(b) \in Nat
    BY FrameKeys
  <2> QED BY <2>2, <2>3
<1>7. ASSUME NEW i \in 1 .. NumCameras(b)
      PROVE  /\ a.cameras[i].features = b.cameras[i].features
             /\ a.cameras[i].dependencies = b.cameras[i].dependencies
  <2>1. hashes(a)[i] = hashes(b)[i]
    BY <1>1
  <2>2. append_camera_graph_hash(a.cameras[i]) = append_camera_graph_hash(b.cameras[i])
    BY <1>6, <2>1
  <2> QED BY <2>2 DEF append_camera_graph_hash
<1> QED BY <1>3, <1>4, <1>5, <1>6, <1>7

LEMMA GraphsAreOwn ==
  ASSUME Typed, GraphsFit
  PROVE  ExecutesItsGraph
<1> SUFFICES ASSUME NEW k \in DOMAIN links, links[k].graph # NoGraph
             PROVE  LET made == made_for[links[k].graph]
                        asked == links[k].frame
                    IN  /\ made.mode = asked.mode /\ made.purpose = asked.purpose
                        /\ made.capture = asked.capture /\ made.view = asked.view
                        /\ camera_setup_count(made) = camera_setup_count(asked)
                        /\ NumCameras(made) = NumCameras(asked)
                        /\ \A i \in 1 .. NumCameras(asked) :
                             /\ made.cameras[i].features = asked.cameras[i].features
                             /\ made.cameras[i].dependencies = asked.cameras[i].dependencies
  BY DEF ExecutesItsGraph
<1> DEFINE made == made_for[links[k].graph]
           asked == links[k].frame
<1>1. /\ made \in Frames /\ asked \in Frames
      /\ frame_graph_shape_hash(made) = frame_graph_shape_hash(asked)
      /\ camera_setup_count(made) = camera_setup_count(asked)
  BY DEF GraphsFit, Typed
<1> HIDE DEF made, asked
<1>2. /\ made.mode = asked.mode /\ made.purpose = asked.purpose
      /\ made.capture = asked.capture /\ made.view = asked.view
      /\ NumCameras(made) = NumCameras(asked)
      /\ \A i \in 1 .. NumCameras(asked) :
           /\ made.cameras[i].features = asked.cameras[i].features
           /\ made.cameras[i].dependencies = asked.cameras[i].dependencies
  BY <1>1, HashTells
<1> QED BY <1>1, <1>2 DEF made, asked

\* Of every history: commands are executed in the order they were committed, each
\* once, and a frame starts after exactly those committed before its call
\* (command_handler.rs).
THEOREM CommandsStayInOrder == Spec => []CommandsInOrder
<1>1. Inductive => CommandsInOrder
  BY CommandsAreInOrder DEF Inductive
<1> QED BY <1>1, AlwaysInductive, PTL

\* At most one frame is between its start and its cleanup, it alone holds a flag
\* and the allocator, and the camera data is that of its cameras, kept as long as
\* the frames that synced showed them (graph_executor.rs, render_scene_registry.rs).
THEOREM FramesTakeTurns == Spec => []FramesDoNotOverlap
<1>1. ASSUME Inductive PROVE FramesDoNotOverlap
  <2>1. TypeOK /\ CameraDataLasts /\ ~refused
    BY <1>1, DataIsThere DEF Inductive, Typed, FlagsAreOwned
  <2>2. \A j, k \in DOMAIN links : Active(j) /\ Active(k) => j = k
    BY <1>1, OneAtATime DEF Inductive
  <2>3. /\ \A g \in Graphs : flag[g] = 0 \/ (Active(flag[g]) /\ links[flag[g]].graph = g)
        /\ \A k \in DOMAIN links : Active(k) => flag[links[k].graph] = k
    BY <1>1 DEF Inductive, FlagsAreOwned
  <2> QED BY <2>1, <2>2, <2>3 DEF FramesDoNotOverlap
<1> QED BY <1>1, AlwaysInductive, PTL

\* A frame executes only a graph made for a frame that asks for the same: mode,
\* purpose, capture, debug view, camera setups and the cameras' features and
\* dependencies (cache.rs, frame_renderer.rs).
THEOREM FramesExecuteTheirGraph == Spec => []ExecutesItsGraph
<1>1. Inductive => ExecutesItsGraph
  BY GraphsAreOwn DEF Inductive
<1> QED BY <1>1, AlwaysInductive, PTL

-----------------------------------------------------------------------------
(* The turns: where the render app is *)

(* The render app before the render thread exists, or without one.         *)
AtHome == place = (IF main = "down" THEN "gone" ELSE "main")

ImmediateHand ==
    /\ thread = "none" /\ ~lent
    /\ main \notin {"recv", "send"}
    /\ main = "turn" <=> turn # "idle"
    /\ AtHome
    /\ dropper # "render" /\ claimant # "render"

(* The main app was dropped before its first update.                       *)
UnstartedHand ==
    /\ main \in {"cleanup", "after", "drop", "down"}
    /\ main # "cleanup" => exiting
    /\ AtHome /\ ~lent
    /\ dropper # "render" /\ claimant = "none"

(* Two threads: the render app is with exactly one of them, or in the      *)
(* channel its receiver is waiting on, or will.                            *)
StartedHand ==
    /\ main # "cleanup"
    /\ place = "main" <=> main \in {"extract", "send"}
    /\ place = "main" => thread = "recv" /\ ~lent
    /\ place = "to_render" => thread = "recv" /\ lent /\ main # "down"
    /\ place = "render" <=> thread \in {"turn", "send"}
    /\ place = "render" => lent /\ main # "down"
    /\ place = "to_main" => thread = "recv"
    /\ place = "to_main" /\ ~lent => claimant = "none"
    /\ place = "to_main" /\ main = "down" => ~lent
    /\ thread = "over" => place = "gone"
    /\ dropper = "render" => thread = "over"

HandOff ==
    /\ ~pipelined => ImmediateHand
    /\ pipelined =>
          /\ main # "turn" /\ claimant # "main"
          /\ thread = "turn" <=> turn # "idle"
          /\ thread = "none" => UnstartedHand
          /\ thread # "none" => StartedHand
    /\ turn \notin {"idle", "claim"} => claimant = Runner
    /\ dropper = "render" => crashed \/ claimant = "none"

-----------------------------------------------------------------------------
(* What holds of a window's cell at the points of a turn.                  *)

(* Nothing is acquired.                                                    *)
Free(c) ==
    /\ c.record # NoRecord => c.record.texture = NoTexture
    /\ c.surface # NoSurface => ~c.surface.acquired

(* A texture is alive exactly in the record of its own surface's window.   *)
HeldRight(c) ==
    /\ c.record # NoRecord /\ c.record.texture # NoTexture =>
          c.surface # NoSurface /\ c.record.texture = c.surface.shape
    /\ c.surface # NoSurface /\ c.surface.acquired =>
          c.record # NoRecord /\ c.record.texture # NoTexture

(* The surface is configured as the record asks.                           *)
Fits(c) ==
    c.record # NoRecord /\ c.surface # NoSurface =>
        c.surface.shape = Wanted(c.record)

(* Whatever the surface has not followed yet, a change flag tells.         *)
Flagged(c) ==
    c.record # NoRecord /\ c.surface # NoSurface =>
        /\ c.record.handle_changed \/ c.surface.shape.handle = c.record.handle
        /\ c.record.size_changed \/ c.surface.shape.size = c.record.size
        /\ \/ c.record.present_mode_changed
           \/ c.surface.shape.mode = select_present_mode(c.record.mode)

(* No surface outlives the record it was made for.                         *)
Owned(c) == c.record = NoRecord => c.surface = NoSurface

(* The world was extracted and its schedule has not begun.                 *)
Waiting == pipelined /\ (main = "send" \/ place = "to_render")

(* Since the last extraction: stale surfaces are gone, surfaces are made.  *)
Cleaned == ~Waiting /\ turn \notin {"claim", "cleanup"}

Created == Cleaned /\ turn # "create"

CellInv(c) ==
    /\ turn # "render" => Free(c)
    /\ turn = "render" => HeldRight(c)
    /\ Cleaned => Owned(c)
    /\ Created => Fits(c)
    /\ Flagged(c)

CellsInv ==
    /\ \A w \in Windows: ~cells[w].misused
    /\ place # "gone" => \A w \in Windows: CellInv(cells[w])

TurnsInductive == TurnsTypeOK /\ HandOff /\ CellsInv
-----------------------------------------------------------------------------
(* The operators on one cell.                                              *)

LEMMA ModeIsSupported ==
    ASSUME NEW mode
    PROVE  select_present_mode(mode) \in SupportedModes
<1> DEFINE list == Fallbacks(mode)
           found == {i \in DOMAIN list: list[i] \in SupportedModes}
<1>1. DOMAIN list \in {1..2, 1..3} /\ found # {}
  BY FifoAssumption DEF Fallbacks
<1>2. \E i \in found: \A j \in found: i <= j
  <2>1. found \subseteq {1, 2, 3} BY <1>1
  <2> HIDE DEF found
  <2>2. CASE 1 \in found BY <2>1, <2>2
  <2>3. CASE 1 \notin found /\ 2 \in found BY <2>1, <2>3
  <2>4. CASE 1 \notin found /\ 2 \notin found
    <3>1. found # {} BY <1>1
    <3>2. 3 \in found /\ \A j \in found: j = 3 BY <2>1, <2>4, <3>1
    <3> QED BY <3>2
  <2> QED BY <2>2, <2>3, <2>4
<1> DEFINE first == CHOOSE i \in found: \A j \in found: i <= j
<1>3. first \in found BY <1>2
<1>4. list[first] \in SupportedModes
  <2> HIDE DEF first
  <2> QED BY <1>3
<1> QED BY <1>4 DEF select_present_mode

LEMMA WantedIsAShape ==
    ASSUME NEW r \in Records
    PROVE  /\ Wanted(r) \in Shapes
           /\ Wanted(r).handle = r.handle /\ Wanted(r).size = r.size
           /\ Wanted(r).mode = select_present_mode(r.mode)
BY ModeIsSupported DEF Wanted, Shapes, Records

LEMMA MarkersAreApart ==
    /\ NoRecord \notin Records /\ NoSurface \notin Surfaces
    /\ NoTexture \notin Shapes
BY WindowsAssumption

(* The parts of a cell.                                                    *)
LEMMA CellParts ==
    ASSUME NEW c \in Cells
    PROVE  /\ c.record # NoRecord => c.record \in Records
           /\ c.surface # NoSurface => c.surface \in Surfaces
           /\ c.misused \in BOOLEAN
BY DEF Cells

LEMMA ClearCell ==
    ASSUME NEW c \in Cells, c.record # NoRecord
    PROVE  /\ clear_swapchain_texture(c).record
                = [c.record EXCEPT !.texture = NoTexture]
           /\ clear_swapchain_texture(c).surface
                = IF c.surface = NoSurface THEN NoSurface
                  ELSE [c.surface EXCEPT !.acquired = FALSE]
           /\ clear_swapchain_texture(c).misused = c.misused
           /\ clear_swapchain_texture(c) \in Cells
<1> DEFINE rec == [c.record EXCEPT !.texture = NoTexture]
           sur == IF c.surface = NoSurface THEN NoSurface
                  ELSE [c.surface EXCEPT !.acquired = FALSE]
<1>1. rec \in Records BY CellParts DEF Records
<1>2. sur \in Surfaces \cup {NoSurface} BY CellParts DEF Surfaces
<1>3. c = [record |-> c.record, surface |-> c.surface, misused |-> c.misused]
  BY DEF Cells
<1>4. clear_swapchain_texture(c)
        = [record |-> rec, surface |-> sur, misused |-> c.misused]
  <2>1. clear_swapchain_texture(c) = [c EXCEPT !.record = rec, !.surface = sur]
    BY <1>3 DEF clear_swapchain_texture
  <2> HIDE DEF rec, sur
  <2> QED BY <1>3, <2>1
<1> HIDE DEF rec, sur
<1>5. c.misused \in BOOLEAN BY CellParts
<1>6. clear_swapchain_texture(c) \in Cells BY <1>1, <1>2, <1>4, <1>5 DEF Cells
<1>7. /\ clear_swapchain_texture(c).record = rec
      /\ clear_swapchain_texture(c).surface = sur
      /\ clear_swapchain_texture(c).misused = c.misused
  BY <1>4
<1> QED BY <1>6, <1>7 DEF rec, sur

(* A cell that holds nothing is as it was when it is cleared.              *)
LEMMA ClearFree ==
    ASSUME NEW c \in Cells, c.record # NoRecord, Free(c)
    PROVE  clear_swapchain_texture(c) = c
<1>1. [c.record EXCEPT !.texture = NoTexture] = c.record
  BY CellParts DEF Free, Records
<1>2. (IF c.surface = NoSurface THEN NoSurface
       ELSE [c.surface EXCEPT !.acquired = FALSE]) = c.surface
  BY CellParts DEF Free, Surfaces
<1>3. /\ clear_swapchain_texture(c) \in Cells
      /\ clear_swapchain_texture(c).record = c.record
      /\ clear_swapchain_texture(c).surface = c.surface
      /\ clear_swapchain_texture(c).misused = c.misused
  BY <1>1, <1>2, ClearCell
<1> DEFINE d == clear_swapchain_texture(c)
<1>4. d.record = c.record /\ d.surface = c.surface /\ d.misused = c.misused /\ d \in Cells
  BY <1>3
<1> HIDE DEF d
<1>5. d = c BY <1>4 DEF Cells
<1> QED BY <1>5 DEF d

LEMMA RemoveCell ==
    ASSUME NEW c \in Cells
    PROVE  /\ RemoveSurface(c).record = c.record
           /\ RemoveSurface(c).surface = NoSurface
           /\ RemoveSurface(c).misused
                = (c.misused \/ (c.surface # NoSurface /\ c.surface.acquired))
           /\ RemoveSurface(c) \in Cells
<1> DEFINE mis == c.misused \/ (c.surface # NoSurface /\ c.surface.acquired)
<1>1. mis \in BOOLEAN OBVIOUS
<1>2. c = [record |-> c.record, surface |-> c.surface, misused |-> c.misused]
  BY DEF Cells
<1>3. RemoveSurface(c) = [c EXCEPT !.surface = NoSurface, !.misused = mis]
  BY <1>2 DEF RemoveSurface
<1> HIDE DEF mis
<1>4. RemoveSurface(c)
        = [record |-> c.record, surface |-> NoSurface, misused |-> mis]
  BY <1>2, <1>3
<1>5. RemoveSurface(c) \in Cells BY <1>1, <1>4 DEF Cells
<1>6. /\ RemoveSurface(c).record = c.record
      /\ RemoveSurface(c).surface = NoSurface
      /\ RemoveSurface(c).misused = mis
  BY <1>4
<1> QED BY <1>5, <1>6 DEF mis

LEMMA WithHealth ==
    ASSUME NEW shape, NEW acquired, NEW old, NEW health
    PROVE  [[shape |-> shape, acquired |-> acquired, health |-> old]
                EXCEPT !.health = health]
             = [shape |-> shape, acquired |-> acquired, health |-> health]
OBVIOUS

LEMMA Reshaped ==
    ASSUME NEW s \in Surfaces, NEW shape, NEW health
    PROVE  [[s EXCEPT !.shape = shape] EXCEPT !.health = health]
             = [shape |-> shape, acquired |-> s.acquired, health |-> health]
<1>1. [s EXCEPT !.shape = shape]
        = [shape |-> shape, acquired |-> s.acquired, health |-> s.health]
  BY DEF Surfaces
<1>2. PICK acquired: acquired = s.acquired OBVIOUS
<1>3. [[shape |-> shape, acquired |-> acquired, health |-> s.health]
          EXCEPT !.health = health]
        = [shape |-> shape, acquired |-> acquired, health |-> health]
  BY WithHealth
<1>4. [s EXCEPT !.shape = shape]
        = [shape |-> shape, acquired |-> acquired, health |-> s.health]
  BY <1>1, <1>2
<1>5. [[s EXCEPT !.shape = shape] EXCEPT !.health = health]
        = [[shape |-> shape, acquired |-> acquired, health |-> s.health]
          EXCEPT !.health = health]
  BY <1>4, Zenon
<1> QED BY <1>2, <1>3, <1>5

LEMMA ConfigureCell ==
    ASSUME NEW c \in Cells, c.surface # NoSurface, NEW shape \in Shapes
    PROVE  /\ Configure(c, shape).record = c.record
           /\ Configure(c, shape).surface # NoSurface
           /\ Configure(c, shape).surface.shape = shape
           /\ Configure(c, shape).surface.acquired = c.surface.acquired
           /\ Configure(c, shape).misused = (c.misused \/ c.surface.acquired)
           /\ Configure(c, shape) \in Cells
<1> DEFINE mis == c.misused \/ c.surface.acquired
           well == IF c.surface.health = "Lost" THEN "Lost" ELSE "Success"
           sur == [shape |-> shape, acquired |-> c.surface.acquired,
                   health |-> well]
<1>1. mis \in BOOLEAN OBVIOUS
<1>2. /\ c = [record |-> c.record, surface |-> c.surface, misused |-> c.misused]
      /\ c.surface \in Surfaces
  BY DEF Cells
<1>3. c.surface = [shape |-> c.surface.shape, acquired |-> c.surface.acquired,
                   health |-> c.surface.health]
  BY <1>2 DEF Surfaces
<1>4. sur \in Surfaces BY <1>2 DEF Surfaces
<1>5. Configure(c, shape)
        = [record |-> c.record, surface |-> sur, misused |-> mis]
  <2>1. [[c.surface EXCEPT !.shape = shape] EXCEPT !.health = well] = sur
    BY <1>2, Reshaped
  <2>2. Configure(c, shape)
          = [c EXCEPT !.surface = [[c.surface EXCEPT !.shape = shape]
                                      EXCEPT !.health = well],
                      !.misused = mis]
    BY <1>2, <1>3 DEF Configure
  <2>3. Configure(c, shape) = [c EXCEPT !.surface = sur, !.misused = mis]
    BY <2>1, <2>2
  <2> HIDE DEF sur, mis
  <2> QED BY <1>2, <2>3
<1>6. sur # NoSurface BY <1>4, MarkersAreApart
<1>7. sur.shape = shape /\ sur.acquired = c.surface.acquired OBVIOUS
<1> HIDE DEF mis, sur
<1>8. Configure(c, shape) \in Cells BY <1>1, <1>2, <1>4, <1>5 DEF Cells
<1>9. /\ Configure(c, shape).record = c.record
      /\ Configure(c, shape).surface = sur
      /\ Configure(c, shape).misused = mis
  BY <1>5
<1> QED BY <1>6, <1>7, <1>8, <1>9 DEF mis

LEMMA AcquireCell ==
    ASSUME NEW c \in Cells, c.record # NoRecord, c.surface # NoSurface
    PROVE  /\ Acquire(c).record = [c.record EXCEPT !.texture = c.surface.shape]
           /\ Acquire(c).surface = [c.surface EXCEPT !.acquired = TRUE]
           /\ Acquire(c).misused = (c.misused \/ c.surface.acquired)
           /\ Acquire(c) \in Cells
<1> DEFINE rec == [c.record EXCEPT !.texture = c.surface.shape]
           sur == [c.surface EXCEPT !.acquired = TRUE]
           mis == c.misused \/ c.surface.acquired
<1>1. /\ c = [record |-> c.record, surface |-> c.surface, misused |-> c.misused]
      /\ c.surface \in Surfaces /\ c.record \in Records
      /\ c.surface.shape \in Shapes
  BY DEF Cells, Surfaces
<1>2. rec \in Records BY <1>1 DEF Records
<1>3. sur \in Surfaces BY <1>1 DEF Surfaces
<1>4. mis \in BOOLEAN OBVIOUS
<1>5. Acquire(c) = [c EXCEPT !.record = rec, !.surface = sur, !.misused = mis]
  BY <1>1 DEF Acquire
<1> HIDE DEF rec, sur, mis
<1>6. Acquire(c) = [record |-> rec, surface |-> sur, misused |-> mis]
  BY <1>1, <1>5
<1>7. Acquire(c) \in Cells BY <1>2, <1>3, <1>4, <1>6 DEF Cells
<1>8. /\ Acquire(c).record = rec /\ Acquire(c).surface = sur
      /\ Acquire(c).misused = mis
  BY <1>6
<1> QED BY <1>7, <1>8 DEF rec, sur, mis

LEMMA FailingCell ==
    ASSUME NEW c \in Cells, c.surface # NoSurface, NEW answer
    PROVE  /\ Failing(c, answer).record = c.record
           /\ Failing(c, answer).surface # NoSurface
           /\ Failing(c, answer).surface.shape = c.surface.shape
           /\ Failing(c, answer).surface.acquired = c.surface.acquired
           /\ Failing(c, answer).misused = c.misused
           /\ Failing(c, answer) \in Cells
<1> DEFINE ill == IF answer \in {"Outdated", "Lost"} THEN answer
                  ELSE c.surface.health
           sur == [shape |-> c.surface.shape, acquired |-> c.surface.acquired,
                   health |-> ill]
<1>1. /\ c = [record |-> c.record, surface |-> c.surface, misused |-> c.misused]
      /\ c.surface \in Surfaces
      /\ c.record \in Records \cup {NoRecord} /\ c.misused \in BOOLEAN
  BY DEF Cells
<1>2. c.surface = [shape |-> c.surface.shape, acquired |-> c.surface.acquired,
                   health |-> c.surface.health]
  BY <1>1 DEF Surfaces
<1>3. sur \in Surfaces BY <1>1 DEF Surfaces
<1>4. Failing(c, answer)
        = [record |-> c.record, surface |-> sur, misused |-> c.misused]
  <2>1. [c.surface EXCEPT !.health = ill] = sur BY <1>2
  <2>2. Failing(c, answer)
          = [c EXCEPT !.surface = [c.surface EXCEPT !.health = ill]]
    BY <1>1, <1>2 DEF Failing
  <2>3. Failing(c, answer) = [c EXCEPT !.surface = sur] BY <2>1, <2>2
  <2> HIDE DEF sur
  <2> QED BY <1>1, <2>3
<1>5. sur # NoSurface BY <1>3, MarkersAreApart
<1>6. /\ sur.shape = c.surface.shape /\ sur.acquired = c.surface.acquired
  OBVIOUS
<1> HIDE DEF sur
<1>7. Failing(c, answer) \in Cells BY <1>1, <1>3, <1>4 DEF Cells
<1> QED BY <1>4, <1>5, <1>6, <1>7

(* Setting flags of a record changes nothing but them.                     *)
LEMMA FlagCell ==
    ASSUME NEW c \in Cells, c.record # NoRecord, NEW rec \in Records,
           rec.handle = c.record.handle, rec.size = c.record.size,
           rec.mode = c.record.mode, rec.texture = c.record.texture,
           NEW d, d = [c EXCEPT !.record = rec]
    PROVE  /\ d \in Cells /\ d.record = rec /\ d.surface = c.surface
           /\ d.misused = c.misused
           /\ Free(c) => Free(d)
           /\ Fits(c) => Fits(d)
<1>1. d \in Cells /\ d.record = rec /\ d.surface = c.surface
      /\ d.misused = c.misused
  BY DEF Cells
<1>2. rec # NoRecord BY MarkersAreApart
<1>3. Wanted(rec) = Wanted(c.record) BY DEF Wanted
<1> QED BY <1>1, <1>2, <1>3 DEF Free, Fits

-----------------------------------------------------------------------------
(* The systems, on the cell of one window.                                 *)

LEMMA FitsIsFlagged ==
    ASSUME NEW c \in Cells, Fits(c)
    PROVE  Flagged(c)
BY CellParts, WantedIsAShape DEF Fits, Flagged

(* extract_windows, when the window is gone.                               *)
LEMMA ExtractClosed ==
    ASSUME NEW c \in Cells, c.record # NoRecord, Free(c), ~c.misused,
           NEW d, d = [clear_swapchain_texture(c) EXCEPT !.record = NoRecord]
    PROVE  d \in Cells /\ ~d.misused /\ Free(d) /\ Flagged(d)
<1>1. d = [c EXCEPT !.record = NoRecord] BY ClearFree
<1>2. d \in Cells /\ d.record = NoRecord /\ d.surface = c.surface
      /\ d.misused = c.misused
  BY <1>1 DEF Cells
<1> QED BY <1>2 DEF Free, Flagged

(* extract_windows, when the window is new.                                *)
LEMMA ExtractOpened ==
    ASSUME NEW c \in Cells, c.record = NoRecord, Free(c), Owned(c), ~c.misused,
           NEW f \in Facts,
           NEW d, d = [c EXCEPT !.record = NewRecord(f)]
    PROVE  d \in Cells /\ ~d.misused /\ Free(d) /\ Flagged(d)
<1>1. NewRecord(f) \in Records /\ NewRecord(f).texture = NoTexture
  BY DEF NewRecord, Records, Facts
<1>2. d \in Cells /\ d.surface = c.surface /\ d.misused = c.misused
      /\ d.record = NewRecord(f)
  BY <1>1 DEF Cells
<1>3. d.surface = NoSurface BY <1>2 DEF Owned
<1> QED BY <1>1, <1>2, <1>3 DEF Free, Flagged

LEMMA RefreshedRecord ==
    ASSUME NEW r \in Records, NEW f \in Facts
    PROVE  /\ RefreshRecord(r, f) \in Records
           /\ RefreshRecord(r, f).texture = r.texture
           /\ RefreshRecord(r, f).handle = f.handle
           /\ RefreshRecord(r, f).size = f.size
           /\ RefreshRecord(r, f).mode = f.mode
           /\ RefreshRecord(r, f).handle_changed = (f.handle # r.handle)
           /\ RefreshRecord(r, f).size_changed = (f.size # r.size)
           /\ RefreshRecord(r, f).present_mode_changed = (f.mode # r.mode)
<1>1. PICK h \in BOOLEAN, s \in BOOLEAN, m \in BOOLEAN:
         h = (f.handle # r.handle) /\ s = (f.size # r.size)
         /\ m = (f.mode # r.mode)
  <2>1. (f.handle # r.handle) \in BOOLEAN /\ (f.size # r.size) \in BOOLEAN
        /\ (f.mode # r.mode) \in BOOLEAN
    OBVIOUS
  <2> QED BY <2>1
<1>2. PICK b \in BOOLEAN, n \in BOOLEAN:
         b = (h \/ r.needs_surface_rebuild)
         /\ n = (s \/ m \/ r.needs_surface_reconfigure)
  <2>1. (h \/ r.needs_surface_rebuild) \in BOOLEAN
        /\ (s \/ m \/ r.needs_surface_reconfigure) \in BOOLEAN
    OBVIOUS
  <2> QED BY <2>1
<1>3. RefreshRecord(r, f)
        = [r EXCEPT !.handle = f.handle, !.size = f.size, !.mode = f.mode,
                    !.handle_changed = h, !.size_changed = s,
                    !.present_mode_changed = m,
                    !.needs_surface_rebuild = b,
                    !.needs_surface_reconfigure = n]
  BY <1>1, <1>2 DEF RefreshRecord, Records
<1>4. f.handle \in Handles /\ f.size \in Sizes /\ f.mode \in Modes BY DEF Facts
<1>5. /\ RefreshRecord(r, f) \in Records
      /\ RefreshRecord(r, f).texture = r.texture
      /\ RefreshRecord(r, f).handle = f.handle
      /\ RefreshRecord(r, f).size = f.size
      /\ RefreshRecord(r, f).mode = f.mode
      /\ RefreshRecord(r, f).handle_changed = h
      /\ RefreshRecord(r, f).size_changed = s
      /\ RefreshRecord(r, f).present_mode_changed = m
  BY <1>3, <1>4 DEF Records
<1> QED BY <1>1, <1>5

(* extract_windows, when the window is there again: the flags tell what    *)
(* the surface has not followed.                                           *)
LEMMA ExtractAgain ==
    ASSUME NEW c \in Cells, c.record # NoRecord, Free(c), Fits(c), ~c.misused,
           NEW f \in Facts,
           NEW d, d = [c EXCEPT !.record = RefreshRecord(@, f)]
    PROVE  d \in Cells /\ ~d.misused /\ Free(d) /\ Flagged(d)
<1> DEFINE r == RefreshRecord(c.record, f)
<1>1. c.record \in Records BY CellParts
<1>2. r \in Records /\ r.texture = c.record.texture
      /\ r.handle = f.handle /\ r.size = f.size /\ r.mode = f.mode
      /\ r.handle_changed = (f.handle # c.record.handle)
      /\ r.size_changed = (f.size # c.record.size)
      /\ r.present_mode_changed = (f.mode # c.record.mode)
  BY <1>1, RefreshedRecord
<1>3. d = [c EXCEPT !.record = r] BY DEF Cells
<1> HIDE DEF r
<1>4. d \in Cells /\ d.record = r /\ d.surface = c.surface
      /\ d.misused = c.misused
  BY <1>2, <1>3 DEF Cells
<1>5. Free(d) BY <1>2, <1>4 DEF Free
<1>6. Flagged(d)
  <2>1. SUFFICES ASSUME d.surface # NoSurface PROVE Flagged(d)
    BY DEF Flagged
  <2>2. /\ d.surface.shape.handle = c.record.handle
        /\ d.surface.shape.size = c.record.size
        /\ d.surface.shape.mode = select_present_mode(c.record.mode)
    BY <1>1, <1>4, <2>1, WantedIsAShape DEF Fits
  <2> QED BY <1>2, <1>4, <2>2 DEF Flagged
<1> QED BY <1>4, <1>5, <1>6

(* cleanup_stale_surfaces: no surface outlives its record.                 *)
LEMMA CleanupCell ==
    ASSUME NEW c \in Cells, Free(c), Flagged(c), ~c.misused,
           NEW d, d = IF c.record # NoRecord THEN c ELSE RemoveSurface(c)
    PROVE  d \in Cells /\ ~d.misused /\ Free(d) /\ Flagged(d) /\ Owned(d)
<1>1. CASE c.record # NoRecord BY <1>1 DEF Owned
<1>2. CASE c.record = NoRecord
  <2>1. d \in Cells /\ d.record = NoRecord /\ d.surface = NoSurface
        /\ d.misused
             = (c.misused \/ (c.surface # NoSurface /\ c.surface.acquired))
    BY <1>2, RemoveCell
  <2>2. ~d.misused BY <2>1 DEF Free
  <2> QED BY <2>1, <2>2 DEF Free, Flagged, Owned
<1> QED BY <1>1, <1>2

(* create_surfaces makes the surface of a live window fit its record,      *)
(* whatever of its handle, size and mode the extraction found changed.     *)
LEMMA CreateCell ==
    ASSUME NEW c \in Cells, c.record # NoRecord, Free(c), Flagged(c), ~c.misused
    PROVE  /\ CreateSurface(c) \in Cells /\ ~CreateSurface(c).misused
           /\ Free(CreateSurface(c)) /\ Fits(CreateSurface(c))
           /\ CreateSurface(c).record # NoRecord
<1> DEFINE r == c.record
           kept == IF ReplacesSurface(r)
                   THEN RemoveSurface(clear_swapchain_texture(c)) ELSE c
           fresh == [shape |-> Wanted(r), acquired |-> FALSE,
                     health |-> "Success"]
           made == IF kept.surface = NoSurface
                   THEN [kept EXCEPT !.surface = fresh] ELSE kept
           shape == [made.surface.shape EXCEPT
                        !.size = r.size, !.mode = select_present_mode(r.mode)]
           refit == \/ r.size_changed \/ r.present_mode_changed
                    \/ r.needs_surface_reconfigure
           fitted == IF refit
                     THEN Configure(clear_swapchain_texture(made), shape)
                     ELSE made
           rec == [r EXCEPT !.handle_changed = FALSE,
                            !.needs_surface_rebuild = FALSE,
                            !.needs_surface_reconfigure = FALSE]
<1>1. r \in Records BY CellParts
<1>2. /\ kept \in Cells /\ kept.record = r /\ ~kept.misused /\ Free(kept)
      /\ kept.surface # NoSurface => ~ReplacesSurface(r) /\ kept.surface = c.surface
  <2>1. CASE ReplacesSurface(r)
    <3>1. kept = RemoveSurface(c) BY <2>1, ClearFree
    <3> HIDE DEF kept
    <3>2. /\ kept \in Cells /\ kept.record = r /\ kept.surface = NoSurface
          /\ kept.misused
               = (c.misused \/ (c.surface # NoSurface /\ c.surface.acquired))
      BY <3>1, RemoveCell
    <3>3. ~kept.misused BY <3>2 DEF Free
    <3> QED BY <3>2, <3>3 DEF Free
  <2>2. CASE ~ReplacesSurface(r) BY <2>2
  <2> QED BY <2>1, <2>2
<1>3. Wanted(r) \in Shapes /\ Wanted(r).handle = r.handle
      /\ Wanted(r).size = r.size /\ Wanted(r).mode = select_present_mode(r.mode)
  BY <1>1, WantedIsAShape
<1>4. fresh \in Surfaces /\ fresh # NoSurface
  <2>1. fresh \in Surfaces BY <1>3 DEF Surfaces
  <2> QED BY <2>1, MarkersAreApart
<1>5. /\ made \in Cells /\ made.record = r /\ made.surface # NoSurface
      /\ ~made.misused /\ Free(made)
      /\ made.surface.shape.handle = r.handle
      /\ r.size_changed \/ made.surface.shape.size = r.size
      /\ \/ r.present_mode_changed
         \/ made.surface.shape.mode = select_present_mode(r.mode)
  <2>1. CASE kept.surface = NoSurface
    <3>1. made = [kept EXCEPT !.surface = fresh] BY <2>1
    <3>2. fresh.shape = Wanted(r) /\ fresh.acquired = FALSE OBVIOUS
    <3> HIDE DEF kept, made, fresh, r
    <3>3. made \in Cells /\ made.record = r /\ made.surface = fresh
          /\ made.misused = kept.misused
      BY <1>2, <1>4, <3>1 DEF Cells
    <3>4. Free(made) BY <1>2, <3>2, <3>3 DEF Free
    <3> QED BY <1>2, <1>3, <1>4, <3>2, <3>3, <3>4
  <2>2. CASE kept.surface # NoSurface
    <3>1. made = kept BY <2>2
    <3>2. kept.surface = c.surface /\ ~r.handle_changed
      BY <1>2, <2>2 DEF ReplacesSurface
    <3>3. /\ kept.surface.shape.handle = r.handle
          /\ r.size_changed \/ kept.surface.shape.size = r.size
          /\ \/ r.present_mode_changed
             \/ kept.surface.shape.mode = select_present_mode(r.mode)
      <4> HIDE DEF kept
      <4> QED BY <2>2, <3>2 DEF Flagged
    <3> HIDE DEF kept, made, r
    <3> QED BY <1>2, <2>2, <3>1, <3>3
  <2> QED BY <2>1, <2>2
<1>6. /\ fitted \in Cells /\ fitted.record = r /\ fitted.surface # NoSurface
      /\ ~fitted.misused /\ Free(fitted) /\ fitted.surface.shape = Wanted(r)
  <2>1. made.surface.shape \in Shapes
    <3> HIDE DEF made
    <3> QED BY <1>5, CellParts DEF Surfaces
  <2>2. CASE refit
    <3>1. clear_swapchain_texture(made) = made
      <4> HIDE DEF made
      <4> QED BY <1>5, ClearFree
    <3>2. fitted = Configure(made, shape) BY <2>2, <3>1
    <3>3. shape = Wanted(r)
      <4> HIDE DEF made, r
      <4> QED BY <1>3, <1>5, <2>1 DEF Shapes
    <3> HIDE DEF made, shape, fitted, r
    <3>4. /\ fitted \in Cells /\ fitted.record = r
          /\ fitted.surface # NoSurface /\ fitted.surface.shape = Wanted(r)
          /\ fitted.surface.acquired = made.surface.acquired
          /\ fitted.misused = (made.misused \/ made.surface.acquired)
      BY <1>3, <1>5, <3>2, <3>3, ConfigureCell
    <3>5. ~made.surface.acquired BY <1>5 DEF Free
    <3>6. ~fitted.misused BY <1>5, <3>4, <3>5
    <3>7. Free(fitted) BY <1>5, <3>4, <3>5 DEF Free
    <3> QED BY <3>4, <3>6, <3>7
  <2>3. CASE ~refit
    <3>1. fitted = made BY <2>3
    <3>2. ~r.size_changed /\ ~r.present_mode_changed BY <2>3
    <3>3. made.surface.shape = Wanted(r)
      <4> HIDE DEF made, r
      <4> QED BY <1>3, <1>5, <2>1, <3>2 DEF Shapes
    <3> HIDE DEF made, fitted, r
    <3> QED BY <1>5, <3>1, <3>3
  <2> QED BY <2>2, <2>3
<1>7. /\ rec \in Records /\ rec.handle = r.handle /\ rec.size = r.size
      /\ rec.mode = r.mode /\ rec.texture = r.texture
  <2> HIDE DEF r
  <2> QED BY <1>1 DEF Records
<1>8. CreateSurface(c)
        = [fitted EXCEPT !.record.handle_changed = FALSE,
                         !.record.needs_surface_rebuild = FALSE,
                         !.record.needs_surface_reconfigure = FALSE]
  BY DEF CreateSurface
<1> HIDE DEF fitted
<1>9. CreateSurface(c) = [fitted EXCEPT !.record = rec]
  BY <1>6, <1>8 DEF Cells
<1> DEFINE d == CreateSurface(c)
<1> HIDE DEF rec, made, kept, shape, refit, fresh
<1>10. Fits(fitted) BY <1>6 DEF Fits
<1>11. /\ d \in Cells /\ d.record = rec /\ d.misused = fitted.misused
       /\ Free(d) /\ Fits(d)
  <2>1. fitted.record # NoRecord BY <1>6
  <2> HIDE DEF d, r
  <2>2. d = [fitted EXCEPT !.record = rec] BY <1>9 DEF d
  <2> QED BY <1>6, <1>7, <1>10, <2>1, <2>2, FlagCell
<1> QED BY <1>6, <1>7, <1>11, MarkersAreApart

(* Acquiring from the fitting surface of a window that holds nothing.      *)
LEMMA AcquireFitting ==
    ASSUME NEW c \in Cells, c.record # NoRecord, c.surface # NoSurface,
           Free(c), Fits(c), ~c.misused,
           NEW d, d = Acquire(c)
    PROVE  /\ d \in Cells /\ ~d.misused /\ HeldRight(d) /\ Fits(d)
           /\ d.record # NoRecord
<1>1. c.record \in Records /\ c.surface \in Surfaces BY CellParts
<1>2. /\ d.record = [c.record EXCEPT !.texture = c.surface.shape]
      /\ d.surface = [c.surface EXCEPT !.acquired = TRUE]
      /\ d.misused = (c.misused \/ c.surface.acquired) /\ d \in Cells
  BY AcquireCell
<1>3. c.surface.shape \in Shapes BY <1>1 DEF Surfaces
<1>4. /\ d.record \in Records /\ d.record.texture = c.surface.shape
      /\ d.record.handle = c.record.handle /\ d.record.size = c.record.size
      /\ d.record.mode = c.record.mode
  BY <1>1, <1>2, <1>3 DEF Records
<1>5. d.surface \in Surfaces /\ d.surface.shape = c.surface.shape
      /\ d.surface.acquired
  BY <1>1, <1>2 DEF Surfaces
<1>6. d.record # NoRecord /\ d.surface # NoSurface
      /\ d.record.texture # NoTexture
  BY <1>3, <1>4, <1>5, MarkersAreApart
<1>7. ~d.misused BY <1>2 DEF Free
<1>8. Wanted(d.record) = Wanted(c.record) BY <1>4 DEF Wanted
<1>9. Fits(d) BY <1>5, <1>8 DEF Fits
<1>10. HeldRight(d) BY <1>4, <1>5, <1>6 DEF HeldRight
<1> QED BY <1>2, <1>6, <1>7, <1>9, <1>10

(* A failed answer leaves the surface as it was configured.                *)
LEMMA FailFitting ==
    ASSUME NEW c \in Cells, c.record # NoRecord, c.surface # NoSurface,
           Free(c), Fits(c), ~c.misused,
           NEW answer, NEW d, d = Failing(c, answer)
    PROVE  /\ d \in Cells /\ ~d.misused /\ Free(d) /\ Fits(d)
           /\ d.record = c.record /\ d.surface # NoSurface
<1>1. /\ d \in Cells /\ d.record = c.record /\ d.surface # NoSurface
      /\ d.surface.shape = c.surface.shape
      /\ d.surface.acquired = c.surface.acquired /\ d.misused = c.misused
  BY FailingCell
<1> QED BY <1>1 DEF Free, Fits

LEMMA ReconfigureFitting ==
    ASSUME NEW c \in Cells, c.record # NoRecord, c.surface # NoSurface,
           Free(c), Fits(c), ~c.misused,
           NEW d, d = Configure(c, c.surface.shape)
    PROVE  /\ d \in Cells /\ ~d.misused /\ Free(d) /\ Fits(d)
           /\ d.record = c.record /\ d.surface # NoSurface
<1>1. c.surface.shape \in Shapes BY CellParts DEF Surfaces
<1>2. /\ d \in Cells /\ d.record = c.record /\ d.surface # NoSurface
      /\ d.surface.shape = c.surface.shape
      /\ d.surface.acquired = c.surface.acquired
      /\ d.misused = (c.misused \/ c.surface.acquired)
  BY <1>1, ConfigureCell
<1>3. ~d.misused BY <1>2 DEF Free
<1> QED BY <1>2, <1>3 DEF Free, Fits

LEMMA FreeIsHeldRight ==
    ASSUME NEW c, Free(c)
    PROVE  HeldRight(c)
BY DEF Free, HeldRight

(* prepare_windows, for a window it asks the device about: whatever the    *)
(* two answers, a texture that is held fits.                               *)
LEMMA PrepareCell ==
    ASSUME NEW c \in Cells, c.record # NoRecord, c.surface # NoSurface,
           Free(c), Fits(c), ~c.misused, NEW answer, NEW retry,
           NEW d, d = PrepareWindow(c, answer, retry)
    PROVE  /\ d \in Cells /\ ~d.misused /\ HeldRight(d) /\ Fits(d)
           /\ d.record # NoRecord
<1> DEFINE failed == Failing(clear_swapchain_texture(c), answer)
           again == Configure(failed, failed.surface.shape)
<1>1. /\ failed \in Cells /\ ~failed.misused /\ Free(failed) /\ Fits(failed)
      /\ failed.record = c.record /\ failed.surface # NoSurface
  <2>1. clear_swapchain_texture(c) = c BY ClearFree
  <2>2. failed = Failing(c, answer) BY <2>1
  <2> HIDE DEF failed
  <2> QED BY <2>2, FailFitting
<1>2. /\ again \in Cells /\ ~again.misused /\ Free(again) /\ Fits(again)
      /\ again.record = c.record /\ again.surface # NoSurface
  <2> HIDE DEF failed
  <2>1. failed.record # NoRecord BY <1>1
  <2>2. PICK e: e = again OBVIOUS
  <2> HIDE DEF again
  <2>3. e = Configure(failed, failed.surface.shape) BY <2>2 DEF again
  <2>4. /\ e \in Cells /\ ~e.misused /\ Free(e) /\ Fits(e)
        /\ e.record = failed.record /\ e.surface # NoSurface
    BY <1>1, <2>1, <2>3, ReconfigureFitting
  <2> QED BY <1>1, <2>2, <2>4
<1>3. d = CASE answer = "Success" -> Acquire(c)
            [] answer = "Outdated" /\ retry = "Success" -> Acquire(again)
            [] answer = "Outdated" /\ retry # "Success" ->
                   [Failing(again, retry) EXCEPT
                       !.record.needs_surface_reconfigure = TRUE]
            [] answer = "Lost" ->
                   [failed EXCEPT !.record.needs_surface_rebuild = TRUE]
            [] OTHER -> failed
  BY DEF PrepareWindow
<1> HIDE DEF failed, again
<1>4. CASE answer = "Success"
  <2>1. d = Acquire(c) BY <1>3, <1>4
  <2> QED BY <2>1, AcquireFitting
<1>5. CASE answer = "Outdated" /\ retry = "Success"
  <2>1. d = Acquire(again) BY <1>3, <1>5
  <2>2. again.record # NoRecord BY <1>2
  <2> QED BY <1>2, <2>1, <2>2, AcquireFitting
<1>6. CASE answer = "Outdated" /\ retry # "Success"
  <2> DEFINE e == Failing(again, retry)
             rec == [e.record EXCEPT !.needs_surface_reconfigure = TRUE]
  <2>1. /\ e \in Cells /\ ~e.misused /\ Free(e) /\ Fits(e)
        /\ e.record = c.record
    <3>1. again.record # NoRecord BY <1>2
    <3>2. PICK x: x = Failing(again, retry) OBVIOUS
    <3>3. /\ x \in Cells /\ ~x.misused /\ Free(x) /\ Fits(x)
          /\ x.record = again.record
      BY <1>2, <3>1, <3>2, FailFitting
    <3> QED BY <1>2, <3>2, <3>3
  <2>2. d = [e EXCEPT !.record.needs_surface_reconfigure = TRUE]
    BY <1>3, <1>6
  <2> HIDE DEF e
  <2>3. e.record # NoRecord /\ e.record \in Records BY <2>1, CellParts
  <2>4. d = [e EXCEPT !.record = rec] BY <2>1, <2>2 DEF Cells
  <2>5. /\ rec \in Records /\ rec.handle = e.record.handle
        /\ rec.size = e.record.size /\ rec.mode = e.record.mode
        /\ rec.texture = e.record.texture
    BY <2>3 DEF Records
  <2> HIDE DEF rec
  <2>6. d \in Cells /\ d.record = rec /\ d.misused = e.misused
        /\ Free(d) /\ Fits(d)
    BY <2>1, <2>3, <2>4, <2>5, FlagCell
  <2> QED BY <2>1, <2>5, <2>6, FreeIsHeldRight, MarkersAreApart
<1>7. CASE answer = "Lost"
  <2> DEFINE rec == [failed.record EXCEPT !.needs_surface_rebuild = TRUE]
  <2>1. d = [failed EXCEPT !.record.needs_surface_rebuild = TRUE]
    BY <1>3, <1>7
  <2>2. failed.record # NoRecord /\ failed.record \in Records
    BY <1>1, CellParts
  <2>3. d = [failed EXCEPT !.record = rec] BY <1>1, <2>1 DEF Cells
  <2>4. /\ rec \in Records /\ rec.handle = failed.record.handle
        /\ rec.size = failed.record.size /\ rec.mode = failed.record.mode
        /\ rec.texture = failed.record.texture
    BY <2>2 DEF Records
  <2> HIDE DEF rec
  <2>5. d \in Cells /\ d.record = rec /\ d.misused = failed.misused
        /\ Free(d) /\ Fits(d)
    BY <1>1, <2>2, <2>3, <2>4, FlagCell
  <2> QED BY <1>1, <2>4, <2>5, FreeIsHeldRight, MarkersAreApart
<1>8. CASE answer \notin {"Success", "Outdated", "Lost"}
  <2>1. d = failed BY <1>3, <1>8
  <2> QED BY <1>1, <2>1, FreeIsHeldRight
<1> QED BY <1>4, <1>5, <1>6, <1>7, <1>8

(* smoke_test_render_windows gives every texture back.                     *)
LEMMA RenderCell ==
    ASSUME NEW c \in Cells, HeldRight(c), Fits(c), Owned(c), ~c.misused,
           NEW d, d = IF c.record # NoRecord /\ c.record.texture # NoTexture
                      THEN clear_swapchain_texture(c) ELSE c
    PROVE  d \in Cells /\ ~d.misused /\ Free(d) /\ Fits(d) /\ Owned(d)
<1>1. CASE c.record # NoRecord /\ c.record.texture # NoTexture
  <2>1. /\ d.record = [c.record EXCEPT !.texture = NoTexture]
        /\ d.surface = IF c.surface = NoSurface THEN NoSurface
                       ELSE [c.surface EXCEPT !.acquired = FALSE]
        /\ d.misused = c.misused /\ d \in Cells
    BY <1>1, ClearCell
  <2>2. c.record \in Records /\ c.surface \in Surfaces /\ c.surface # NoSurface
    BY <1>1, CellParts DEF HeldRight
  <2>3. /\ d.record \in Records /\ d.record.texture = NoTexture
        /\ d.record.handle = c.record.handle
        /\ d.record.size = c.record.size /\ d.record.mode = c.record.mode
    BY <2>1, <2>2 DEF Records
  <2>4. /\ d.surface \in Surfaces /\ ~d.surface.acquired
        /\ d.surface.shape = c.surface.shape
    BY <2>1, <2>2 DEF Surfaces
  <2>5. d.record # NoRecord BY <2>3, MarkersAreApart
  <2>6. Wanted(d.record) = Wanted(c.record) BY <2>3 DEF Wanted
  <2>7. Fits(d) BY <1>1, <2>2, <2>4, <2>6 DEF Fits
  <2>8. Free(d) BY <2>3, <2>4 DEF Free
  <2> QED BY <2>1, <2>5, <2>7, <2>8 DEF Owned
<1>2. CASE ~(c.record # NoRecord /\ c.record.texture # NoTexture)
  <2>1. d = c BY <1>2
  <2>2. Free(d) BY <1>2, <2>1 DEF HeldRight, Free
  <2> QED BY <2>1, <2>2
<1> QED BY <1>1, <1>2

-----------------------------------------------------------------------------
(* The first state.                                                        *)

LEMMA TurnsInitInductive == TurnsInit => TurnsInductive
<1> SUFFICES ASSUME TurnsInit PROVE TurnsInductive OBVIOUS
<1>1. TurnsTypeOK
  <2>1. NewWindow \in Facts BY WindowsAssumption DEF NewWindow
  <2>2. opened \in [Windows -> Facts \cup {Closed}] BY <2>1 DEF TurnsInit
  <2>3. cells \in [Windows -> Cells] BY DEF TurnsInit, Cells
  <2>4. shown \in [Windows -> Shapes \cup {NoTexture}] BY DEF TurnsInit
  <2>5. changes \in 0..MaxChanges /\ faults \in 0..MaxFaults
    BY ChangesAssumption DEF TurnsInit
  <2> QED BY <2>2, <2>3, <2>4, <2>5 DEF TurnsInit, TurnsTypeOK, WindowsTypeOK, Threads
<1>2. HandOff
  BY DEF TurnsInit, HandOff, ImmediateHand, UnstartedHand, StartedHand, AtHome
<1>3. CellsInv
  BY DEF TurnsInit, CellsInv, CellInv, Free, HeldRight, Owned, Fits, Flagged
<1> QED BY <1>1, <1>2, <1>3 DEF TurnsInductive

-----------------------------------------------------------------------------
(* The hand-off.                                                           *)

HandTypes ==
    /\ pipelined \in BOOLEAN /\ lent \in BOOLEAN /\ exiting \in BOOLEAN
    /\ crashed \in BOOLEAN
    /\ main \in {"cleanup", "update", "recv", "extract", "send", "turn",
                 "after", "drop", "down"}
    /\ thread \in {"none", "recv", "turn", "send", "over"}
    /\ place \in {"main", "to_render", "render", "to_main", "gone"}
    /\ turn \in {"idle", "claim", "cleanup", "create", "prepare", "render"}
    /\ claimant \in Threads \cup {"none"} /\ dropper \in Threads \cup {"none"}

LEMMA HandStep ==
    ASSUME HandTypes, HandOff, [TurnsNext]_turnsVars
    PROVE  HandTypes' /\ HandOff'
<1> USE DEF HandTypes, HandOff, ImmediateHand, UnstartedHand, StartedHand,
            AtHome, Threads, Runner, Steps
<1>1. CASE Cleanup BY <1>1 DEF Cleanup
<1>2. CASE EndUpdate BY <1>2 DEF EndUpdate
<1>3. CASE ReceiveApp BY <1>3 DEF ReceiveApp
<1>4. CASE ExtractApp BY <1>4 DEF ExtractApp
<1>5. CASE SendApp BY <1>5 DEF SendApp
<1>6. CASE AfterUpdate BY <1>6 DEF AfterUpdate
<1>7. CASE DropApp BY <1>7 DEF DropApp
<1>8. CASE ThreadReceives BY <1>8 DEF ThreadReceives
<1>9. CASE ThreadSends BY <1>9 DEF ThreadSends
<1>10. CASE ThreadPanics BY <1>10 DEF ThreadPanics
<1>11. CASE ClaimFlushThread BY <1>11 DEF ClaimFlushThread, NextSystem
<1>12. CASE CleanupStaleSurfaces
  BY <1>12 DEF CleanupStaleSurfaces, NextSystem
<1>13. CASE CreateSurfaces BY <1>13 DEF CreateSurfaces, NextSystem
<1>14. CASE PrepareWindows BY <1>14 DEF PrepareWindows, NextSystem
<1>15. CASE RenderWindows BY <1>15 DEF RenderWindows, NextSystem
<1>16. CASE ChangeWindow BY <1>16 DEF ChangeWindow, handVars
<1>17. CASE RequestExit BY <1>17 DEF RequestExit
<1>18. CASE UNCHANGED turnsVars BY <1>18 DEF turnsVars, handVars
<1> QED
  BY <1>1, <1>2, <1>3, <1>4, <1>5, <1>6, <1>7, <1>8, <1>9, <1>10, <1>11,
     <1>12, <1>13, <1>14, <1>15, <1>16, <1>17, <1>18
  DEF TurnsNext, MainStep, ThreadStep, TurnStep, TurnsDone

-----------------------------------------------------------------------------
(* The cells.                                                              *)

(* A step that leaves the cells alone and does not move the turn to where  *)
(* more is promised of them.                                               *)
LEMMA SameCells ==
    ASSUME CellsInv, cells' = cells,
           place' # "gone" =>
               /\ place # "gone"
               /\ turn = "render" <=> turn' = "render"
               /\ Cleaned' => Cleaned
               /\ Created' => Created
    PROVE  CellsInv'
<1>1. \A w \in Windows: ~cells'[w].misused BY DEF CellsInv
<1>2. SUFFICES ASSUME place' # "gone", NEW w \in Windows
               PROVE  CellInv(cells[w])'
  BY <1>1 DEF CellsInv
<1>3. CellInv(cells[w]) BY <1>2 DEF CellsInv
<1>4. /\ turn' # "render" => Free(cells'[w])
      /\ turn' = "render" => HeldRight(cells'[w])
      /\ Cleaned' => Owned(cells'[w])
      /\ Created' => Fits(cells'[w])
      /\ Flagged(cells'[w])
  BY <1>2, <1>3 DEF CellInv
<1> QED BY <1>4 DEF CellInv, Free, HeldRight, Owned, Fits, Flagged, Wanted,
                    select_present_mode, Fallbacks

(* What every window's next cell must be.                                  *)
LEMMA NextCells ==
    ASSUME \A w \in Windows:
              /\ ~cells'[w].misused
              /\ turn' # "render" => Free(cells'[w])
              /\ turn' = "render" => HeldRight(cells'[w])
              /\ Cleaned' => Owned(cells'[w])
              /\ Created' => Fits(cells'[w])
              /\ Flagged(cells'[w])
    PROVE  CellsInv'
BY DEF CellsInv, CellInv, Free, HeldRight, Owned, Fits, Flagged, Wanted,
       select_present_mode, Fallbacks

LEMMA ExtractStep ==
    ASSUME TurnsTypeOK, HandOff, CellsInv, ExtractApp
    PROVE  cells' \in [Windows -> Cells] /\ CellsInv'
<1>1. place # "gone" /\ turn = "idle" /\ Created /\ Cleaned
  BY DEF TurnsTypeOK, HandOff, ImmediateHand, UnstartedHand, StartedHand, AtHome,
         ExtractApp, Created, Cleaned, Waiting
<1>2. turn' # "render" /\ ~Cleaned' /\ ~Created'
  BY <1>1 DEF ExtractApp, Cleaned, Created, Waiting, TurnsTypeOK
<1>3. \A w \in Windows:
         /\ cells'[w] \in Cells /\ ~cells'[w].misused
         /\ Free(cells'[w]) /\ Flagged(cells'[w])
  <2> TAKE w \in Windows
  <2> DEFINE c == cells[w]
  <2>1. c \in Cells /\ opened[w] \in Facts \cup {Closed}
    BY DEF TurnsTypeOK, WindowsTypeOK
  <2>2. ~c.misused /\ Free(c) /\ Owned(c) /\ Fits(c)
    BY <1>1 DEF CellsInv, CellInv
  <2>3. cells'[w] =
          CASE opened[w] = Closed /\ c.record = NoRecord -> c
            [] opened[w] = Closed /\ c.record # NoRecord ->
                   [clear_swapchain_texture(c) EXCEPT !.record = NoRecord]
            [] opened[w] # Closed /\ c.record = NoRecord ->
                   [c EXCEPT !.record = NewRecord(opened[w])]
            [] OTHER -> [c EXCEPT !.record = RefreshRecord(@, opened[w])]
    BY DEF ExtractApp, extract_windows
  <2> HIDE DEF c
  <2>4. CASE opened[w] = Closed /\ c.record = NoRecord
    <3>1. cells'[w] = c BY <2>3, <2>4
    <3> QED BY <2>1, <2>2, <2>4, <3>1 DEF Flagged
  <2>5. CASE opened[w] = Closed /\ c.record # NoRecord
    <3>1. cells'[w]
            = [clear_swapchain_texture(c) EXCEPT !.record = NoRecord]
      BY <2>3, <2>5
    <3> QED BY <2>1, <2>2, <2>5, <3>1, ExtractClosed
  <2>6. CASE opened[w] # Closed /\ c.record = NoRecord
    <3>1. cells'[w] = [c EXCEPT !.record = NewRecord(opened[w])]
      BY <2>3, <2>6
    <3>2. opened[w] \in Facts BY <2>1, <2>6
    <3> QED BY <2>1, <2>2, <2>6, <3>1, <3>2, ExtractOpened
  <2>7. CASE opened[w] # Closed /\ c.record # NoRecord
    <3>1. cells'[w] = [c EXCEPT !.record = RefreshRecord(@, opened[w])]
      BY <2>3, <2>7
    <3>2. opened[w] \in Facts BY <2>1, <2>7
    <3> QED BY <2>1, <2>2, <2>7, <3>1, <3>2, ExtractAgain
  <2> QED BY <2>4, <2>5, <2>6, <2>7
<1>4. CellsInv' BY <1>2, <1>3, NextCells
<1>5. cells' \in [Windows -> Cells]
  BY <1>3 DEF ExtractApp, extract_windows
<1> QED BY <1>4, <1>5

(* A turn's system runs with the render app at hand and out of the way of  *)
(* the main thread.                                                        *)
LEMMA TurnIsHeld ==
    ASSUME TurnsTypeOK, HandOff, turn # "idle"
    PROVE  place # "gone" /\ ~Waiting
BY DEF TurnsTypeOK, HandOff, ImmediateHand, UnstartedHand, StartedHand, AtHome,
       Waiting

LEMMA CleanupStep ==
    ASSUME TurnsTypeOK, HandOff, CellsInv, CleanupStaleSurfaces
    PROVE  cells' \in [Windows -> Cells] /\ CellsInv'
<1>1. turn = "cleanup" /\ turn' = "create"
      /\ cells' = cleanup_stale_surfaces(cells)
  BY DEF CleanupStaleSurfaces, NextSystem
<1>2. place # "gone" BY <1>1, TurnIsHeld
<1>3. ~Created' BY <1>1 DEF Created
<1>4. \A w \in Windows:
         /\ cells'[w] \in Cells /\ ~cells'[w].misused
         /\ Free(cells'[w]) /\ Flagged(cells'[w]) /\ Owned(cells'[w])
  <2> TAKE w \in Windows
  <2> DEFINE c == cells[w]
  <2>1. c \in Cells BY DEF TurnsTypeOK, WindowsTypeOK
  <2>2. ~c.misused /\ Free(c) /\ Flagged(c)
    BY <1>1, <1>2 DEF CellsInv, CellInv
  <2>3. cells'[w] = IF c.record # NoRecord THEN c ELSE RemoveSurface(c)
    BY <1>1 DEF cleanup_stale_surfaces, Live
  <2> HIDE DEF c
  <2> QED BY <2>1, <2>2, <2>3, CleanupCell
<1>5. CellsInv' BY <1>1, <1>3, <1>4, NextCells
<1>6. cells' \in [Windows -> Cells]
  BY <1>1, <1>4 DEF cleanup_stale_surfaces
<1> QED BY <1>5, <1>6

(* Where the run condition of create_surfaces is false there is nothing    *)
(* left to fit.                                                            *)
LEMMA CreateStep ==
    ASSUME TurnsTypeOK, HandOff, CellsInv, CreateSurfaces
    PROVE  cells' \in [Windows -> Cells] /\ CellsInv'
<1>1. turn = "create" /\ turn' = "prepare" BY DEF CreateSurfaces, NextSystem
<1>2. place # "gone" /\ ~Waiting BY <1>1, TurnIsHeld
<1>3. Cleaned BY <1>1, <1>2 DEF Cleaned
<1>4. \A w \in Windows:
         /\ cells[w] \in Cells /\ ~cells[w].misused
         /\ Free(cells[w]) /\ Flagged(cells[w]) /\ Owned(cells[w])
  BY <1>1, <1>2, <1>3 DEF CellsInv, CellInv, TurnsTypeOK, WindowsTypeOK
<1>5. \A w \in Windows:
         /\ cells'[w] \in Cells /\ ~cells'[w].misused
         /\ Free(cells'[w]) /\ Fits(cells'[w]) /\ Owned(cells'[w])
  <2> TAKE w \in Windows
  <2>1. CASE window_surface_needs_configuration(cells)
    <3> DEFINE c == cells[w]
    <3>1. cells'[w] = IF c.record # NoRecord THEN CreateSurface(c) ELSE c
      BY <2>1 DEF CreateSurfaces, create_surfaces, Live
    <3>2. c \in Cells /\ ~c.misused /\ Free(c) /\ Flagged(c) /\ Owned(c)
      BY <1>4
    <3> HIDE DEF c
    <3>3. CASE c.record # NoRecord
      <4>1. /\ CreateSurface(c) \in Cells /\ ~CreateSurface(c).misused
            /\ Free(CreateSurface(c)) /\ Fits(CreateSurface(c))
            /\ CreateSurface(c).record # NoRecord
        BY <3>2, <3>3, CreateCell
      <4> QED BY <3>1, <3>3, <4>1 DEF Owned
    <3>4. CASE c.record = NoRecord
      <4>1. cells'[w] = c BY <3>1, <3>4
      <4> QED BY <3>2, <3>4, <4>1 DEF Fits
    <3> QED BY <3>3, <3>4
  <2>2. CASE ~window_surface_needs_configuration(cells)
    <3> DEFINE c == cells[w]
    <3>1. cells' = cells BY <2>2 DEF CreateSurfaces
    <3>2. c \in Cells /\ ~c.misused /\ Free(c) /\ Flagged(c) /\ Owned(c)
      BY <1>4
    <3>3. c.record # NoRecord =>
             ~c.record.handle_changed /\ ~c.record.size_changed
             /\ ~c.record.present_mode_changed
      BY <2>2 DEF window_surface_needs_configuration, NeedsConfiguration, Live
    <3>4. cells'[w] = c BY <3>1
    <3> HIDE DEF c
    <3>5. Fits(c)
      <4> SUFFICES ASSUME c.record # NoRecord, c.surface # NoSurface
                   PROVE  c.surface.shape = Wanted(c.record)
        BY DEF Fits
      <4>1. c.record \in Records /\ c.surface.shape \in Shapes
        BY <3>2, CellParts DEF Surfaces
      <4>2. /\ c.surface.shape.handle = c.record.handle
            /\ c.surface.shape.size = c.record.size
            /\ c.surface.shape.mode = select_present_mode(c.record.mode)
        BY <3>2, <3>3 DEF Flagged
      <4>3. /\ Wanted(c.record) \in Shapes
            /\ Wanted(c.record).handle = c.record.handle
            /\ Wanted(c.record).size = c.record.size
            /\ Wanted(c.record).mode = select_present_mode(c.record.mode)
        BY <4>1, WantedIsAShape
      <4> QED BY <4>1, <4>2, <4>3 DEF Shapes
    <3> QED BY <3>2, <3>4, <3>5
  <2> QED BY <2>1, <2>2
<1>6. \A w \in Windows: Flagged(cells'[w]) BY <1>5, FitsIsFlagged
<1>7. CellsInv' BY <1>1, <1>5, <1>6, NextCells
<1>8. cells' \in [Windows -> Cells]
  <2>1. cells \in [Windows -> Cells] BY DEF TurnsTypeOK, WindowsTypeOK
  <2> QED BY <1>5, <2>1 DEF CreateSurfaces, create_surfaces
<1> QED BY <1>7, <1>8

LEMMA PrepareStep ==
    ASSUME TurnsTypeOK, HandOff, CellsInv, PrepareWindows
    PROVE  cells' \in [Windows -> Cells] /\ CellsInv'
<1>1. turn = "prepare" /\ turn' = "render" BY DEF PrepareWindows, NextSystem
<1>2. PICK answers, retries \in [Windows -> Answers]:
         cells' = prepare_windows(cells, answers, retries)
  BY DEF PrepareWindows
<1>3. place # "gone" /\ Cleaned /\ Created
  <2>1. place # "gone" /\ ~Waiting BY <1>1, TurnIsHeld
  <2> QED BY <1>1, <2>1 DEF Cleaned, Created
<1>4. \A w \in Windows:
         /\ cells'[w] \in Cells /\ ~cells'[w].misused
         /\ HeldRight(cells'[w]) /\ Fits(cells'[w]) /\ Owned(cells'[w])
  <2> TAKE w \in Windows
  <2> DEFINE c == cells[w]
  <2>1. cells'[w] = IF Acquires(c) THEN PrepareWindow(c, answers[w], retries[w])
                    ELSE c
    BY <1>2 DEF prepare_windows
  <2>2. c \in Cells /\ ~c.misused /\ Free(c) /\ Fits(c) /\ Owned(c)
    BY <1>1, <1>3 DEF CellsInv, CellInv, TurnsTypeOK, WindowsTypeOK
  <2> HIDE DEF c
  <2>3. CASE Acquires(c)
    <3>1. c.record # NoRecord /\ c.surface # NoSurface BY <2>3 DEF Acquires
    <3>2. PICK d: d = PrepareWindow(c, answers[w], retries[w]) OBVIOUS
    <3>3. /\ d \in Cells /\ ~d.misused /\ HeldRight(d) /\ Fits(d)
          /\ d.record # NoRecord
      BY <2>2, <3>1, <3>2, PrepareCell
    <3>4. cells'[w] = d BY <2>1, <2>3, <3>2
    <3> QED BY <3>3, <3>4 DEF Owned
  <2>4. CASE ~Acquires(c)
    <3>1. cells'[w] = c BY <2>1, <2>4
    <3> QED BY <2>2, <3>1, FreeIsHeldRight
  <2> QED BY <2>3, <2>4
<1>5. \A w \in Windows: Flagged(cells'[w]) BY <1>4, FitsIsFlagged
<1>6. CellsInv' BY <1>1, <1>4, <1>5, NextCells
<1>7. cells' \in [Windows -> Cells] BY <1>2, <1>4 DEF prepare_windows
<1> QED BY <1>6, <1>7

LEMMA RenderStep ==
    ASSUME TurnsTypeOK, HandOff, CellsInv, RenderWindows
    PROVE  /\ cells' \in [Windows -> Cells] /\ CellsInv'
           /\ shown' \in [Windows -> Shapes \cup {NoTexture}]
<1>1. turn = "render" /\ turn' = "idle"
      /\ cells' = smoke_test_render_windows(cells)
  BY DEF RenderWindows, NextSystem
<1>2. place # "gone" /\ Cleaned /\ Created
  <2>1. place # "gone" /\ ~Waiting BY <1>1, TurnIsHeld
  <2> QED BY <1>1, <2>1 DEF Cleaned, Created
<1>3. \A w \in Windows:
         /\ cells[w] \in Cells /\ ~cells[w].misused
         /\ HeldRight(cells[w]) /\ Fits(cells[w]) /\ Owned(cells[w])
  BY <1>1, <1>2 DEF CellsInv, CellInv, TurnsTypeOK, WindowsTypeOK
<1>4. \A w \in Windows:
         /\ cells'[w] \in Cells /\ ~cells'[w].misused
         /\ Free(cells'[w]) /\ Fits(cells'[w]) /\ Owned(cells'[w])
  <2> TAKE w \in Windows
  <2> DEFINE c == cells[w]
  <2>1. cells'[w] = IF c.record # NoRecord /\ c.record.texture # NoTexture
                    THEN clear_swapchain_texture(c) ELSE c
    BY <1>1 DEF smoke_test_render_windows, Holds, Live
  <2>2. c \in Cells /\ ~c.misused /\ HeldRight(c) /\ Fits(c) /\ Owned(c)
    BY <1>3
  <2> HIDE DEF c
  <2> QED BY <2>1, <2>2, RenderCell
<1>5. \A w \in Windows: Flagged(cells'[w]) BY <1>4, FitsIsFlagged
<1>6. CellsInv' BY <1>1, <1>4, <1>5, NextCells
<1>7. cells' \in [Windows -> Cells]
  BY <1>1, <1>4 DEF smoke_test_render_windows
<1>8. \A w \in Holds(cells): cells[w].record.texture \in Shapes
  <2> TAKE w \in Holds(cells)
  <2>1. w \in Windows /\ cells[w].record # NoRecord
        /\ cells[w].record.texture # NoTexture
    BY DEF Holds, Live
  <2>2. cells[w].record \in Records BY <1>3, <2>1, CellParts
  <2> QED BY <2>1, <2>2 DEF Records
<1>9. shown' \in [Windows -> Shapes \cup {NoTexture}]
  BY <1>8 DEF RenderWindows
<1> QED BY <1>6, <1>7, <1>9

(* The systems a turn runs on the cells, and the extraction.               *)
Works == \/ ExtractApp \/ CleanupStaleSurfaces \/ CreateSurfaces
         \/ PrepareWindows \/ RenderWindows

LEMMA WorkStep ==
    ASSUME TurnsTypeOK, HandOff, CellsInv, Works
    PROVE  /\ CellsInv' /\ cells' \in [Windows -> Cells]
           /\ shown' \in [Windows -> Shapes \cup {NoTexture}]
<1>1. shown \in [Windows -> Shapes \cup {NoTexture}]
  BY DEF TurnsTypeOK, WindowsTypeOK
<1>2. CASE ExtractApp BY <1>1, <1>2, ExtractStep DEF ExtractApp
<1>3. CASE CleanupStaleSurfaces
  BY <1>1, <1>3, CleanupStep DEF CleanupStaleSurfaces
<1>4. CASE CreateSurfaces BY <1>1, <1>4, CreateStep DEF CreateSurfaces
<1>5. CASE PrepareWindows BY <1>1, <1>5, PrepareStep DEF PrepareWindows
<1>6. CASE RenderWindows BY <1>6, RenderStep
<1> QED BY <1>2, <1>3, <1>4, <1>5, <1>6 DEF Works

LEMMA RestStep ==
    ASSUME TurnsTypeOK, HandOff, CellsInv, [TurnsNext]_turnsVars, ~Works
    PROVE  CellsInv' /\ cells' = cells /\ shown' = shown
<1> USE DEF HandOff, ImmediateHand, UnstartedHand, StartedHand, AtHome,
            Cleaned, Created, Waiting, Steps
<1>1. cells' = cells /\ shown' = shown
  BY DEF Works, TurnsNext, MainStep, ThreadStep, TurnStep, TurnsDone, turnsVars, windowVars,
         Cleanup, EndUpdate, ReceiveApp, SendApp, AfterUpdate, DropApp,
         ThreadReceives, ThreadSends, ThreadPanics, ClaimFlushThread,
         ChangeWindow, RequestExit
<1>2. place' # "gone" =>
         /\ place # "gone"
         /\ turn = "render" <=> turn' = "render"
         /\ Cleaned' => Cleaned
         /\ Created' => Created
  <2> USE DEF TurnsTypeOK
  <2>1. CASE Cleanup BY <2>1 DEF Cleanup
  <2>2. CASE EndUpdate BY <2>2 DEF EndUpdate
  <2>3. CASE ReceiveApp BY <2>3 DEF ReceiveApp
  <2>4. CASE SendApp BY <2>4 DEF SendApp
  <2>5. CASE AfterUpdate BY <2>5 DEF AfterUpdate
  <2>6. CASE DropApp BY <2>6 DEF DropApp
  <2>7. CASE ThreadReceives BY <2>7 DEF ThreadReceives
  <2>8. CASE ThreadSends BY <2>8 DEF ThreadSends
  <2>9. CASE ThreadPanics BY <2>9 DEF ThreadPanics
  <2>10. CASE ClaimFlushThread BY <2>10 DEF ClaimFlushThread, NextSystem
  <2>11. CASE ChangeWindow BY <2>11 DEF ChangeWindow, handVars
  <2>12. CASE RequestExit BY <2>12 DEF RequestExit
  <2>13. CASE UNCHANGED turnsVars BY <2>13 DEF turnsVars, handVars
  <2> QED
    BY <2>1, <2>2, <2>3, <2>4, <2>5, <2>6, <2>7, <2>8, <2>9, <2>10, <2>11,
       <2>12, <2>13
    DEF Works, TurnsNext, MainStep, ThreadStep, TurnStep, TurnsDone
<1>3. CellsInv' BY <1>1, <1>2, SameCells
<1> QED BY <1>1, <1>3

(* The windows of the main world, and what is bounded.                     *)
LEMMA BoundsStep ==
    ASSUME TurnsTypeOK, [TurnsNext]_turnsVars
    PROVE  /\ opened' \in [Windows -> Facts \cup {Closed}]
           /\ configured' \subseteq Windows
           /\ changes' \in 0..MaxChanges /\ faults' \in 0..MaxFaults
<1>1. opened' \in [Windows -> Facts \cup {Closed}]
  <2>1. opened \in [Windows -> Facts \cup {Closed}]
    BY DEF TurnsTypeOK, WindowsTypeOK
  <2>2. CASE ChangeWindow
    <3>1. PICK w \in Windows:
             \E f \in IF opened[w] = Closed THEN {NewWindow}
                     ELSE {Closed} \cup Changed(opened[w]):
                opened' = [opened EXCEPT ![w] = f]
      BY <2>2 DEF ChangeWindow
    <3> PICK f \in IF opened[w] = Closed THEN {NewWindow}
                   ELSE {Closed} \cup Changed(opened[w]):
             opened' = [opened EXCEPT ![w] = f]
      BY <3>1
    <3>2. f \in Facts \cup {Closed}
      <4>1. CASE opened[w] = Closed
        BY <3>1, <4>1, WindowsAssumption DEF NewWindow
      <4>2. CASE opened[w] # Closed
        <5>1. opened[w] \in Facts BY <2>1, <4>2
        <5> QED BY <3>1, <4>2, <5>1 DEF Changed, Facts
      <4> QED BY <4>1, <4>2
    <3> QED BY <2>1, <3>1, <3>2
  <2>3. CASE ~ChangeWindow
    BY <2>1, <2>3
    DEF TurnsNext, MainStep, ThreadStep, TurnStep, TurnsDone, turnsVars, windowVars,
        Cleanup, EndUpdate, ReceiveApp, ExtractApp, SendApp, AfterUpdate,
        DropApp, ThreadReceives, ThreadSends, ThreadPanics, ClaimFlushThread,
        CleanupStaleSurfaces, CreateSurfaces, PrepareWindows, RenderWindows,
        RequestExit
  <2> QED BY <2>2, <2>3
<1>2. configured' \subseteq Windows
  BY DEF TurnsTypeOK, WindowsTypeOK, Live,
         TurnsNext, MainStep, ThreadStep, TurnStep, TurnsDone, turnsVars, windowVars,
         Cleanup, EndUpdate, ReceiveApp, ExtractApp, SendApp, AfterUpdate,
         DropApp, ThreadReceives, ThreadSends, ThreadPanics, ClaimFlushThread,
         CleanupStaleSurfaces, CreateSurfaces, PrepareWindows, RenderWindows,
         ChangeWindow, RequestExit
<1>3. changes' \in 0..MaxChanges
  <2>1. changes \in 0..MaxChanges /\ MaxChanges \in Nat
    BY ChangesAssumption DEF TurnsTypeOK
  <2>2. changes' = changes \/ (changes < MaxChanges /\ changes' = changes + 1)
    BY DEF TurnsNext, MainStep, ThreadStep, TurnStep, TurnsDone, turnsVars, NextSystem,
           Cleanup, EndUpdate, ReceiveApp, ExtractApp, SendApp, AfterUpdate,
           DropApp, ThreadReceives, ThreadSends, ThreadPanics,
           ClaimFlushThread, CleanupStaleSurfaces, CreateSurfaces,
           PrepareWindows, RenderWindows, ChangeWindow, RequestExit
  <2> QED BY <2>1, <2>2
<1>4. faults' \in 0..MaxFaults
  <2>1. faults \in 0..MaxFaults /\ MaxFaults \in Nat
    BY ChangesAssumption DEF TurnsTypeOK
  <2>2. CASE PrepareWindows
    <3>1. PICK answers, retries \in [Windows -> Answers]:
             LET asked == {w \in Windows: Acquires(cells[w])}
                 sick == {w \in asked: cells[w].surface.health # "Success"}
                 new == {w \in asked \ sick: answers[w] # "Success"}
                 again == {w \in asked: retries[w] # "Success"}
             IN  /\ faults' = faults + Cardinality(new) + Cardinality(again)
                 /\ faults' <= MaxFaults
      BY <2>2 DEF PrepareWindows
    <3> DEFINE asked == {w \in Windows: Acquires(cells[w])}
               sick == {w \in asked: cells[w].surface.health # "Success"}
               new == {w \in asked \ sick: answers[w] # "Success"}
               again == {w \in asked: retries[w] # "Success"}
    <3>2. new \subseteq Windows /\ again \subseteq Windows OBVIOUS
    <3>3. faults' = faults + Cardinality(new) + Cardinality(again)
          /\ faults' <= MaxFaults
      BY <3>1
    <3> HIDE DEF new, again
    <3>4. Cardinality(new) \in Nat /\ Cardinality(again) \in Nat
      BY <3>2, WindowsAssumption, FS_Subset, FS_CardinalityType
    <3> QED BY <2>1, <3>3, <3>4
  <2>3. CASE ~PrepareWindows
    <3>1. faults' = faults
      BY <2>3
      DEF TurnsNext, MainStep, ThreadStep, TurnStep, TurnsDone, turnsVars,
          Cleanup, EndUpdate, ReceiveApp, ExtractApp, SendApp, AfterUpdate,
          DropApp, ThreadReceives, ThreadSends, ThreadPanics, ClaimFlushThread,
          CleanupStaleSurfaces, CreateSurfaces, RenderWindows, ChangeWindow,
          RequestExit
    <3> QED BY <2>1, <3>1
  <2> QED BY <2>2, <2>3
<1> QED BY <1>1, <1>2, <1>3, <1>4

LEMMA StepInductive ==
    ASSUME TurnsInductive, [TurnsNext]_turnsVars
    PROVE  TurnsInductive'
<1>1. TurnsTypeOK /\ HandOff /\ CellsInv BY DEF TurnsInductive
<1>2. HandTypes BY <1>1 DEF TurnsTypeOK, HandTypes
<1>3. HandTypes' /\ HandOff' BY <1>1, <1>2, HandStep
<1>4. /\ CellsInv' /\ cells' \in [Windows -> Cells]
      /\ shown' \in [Windows -> Shapes \cup {NoTexture}]
  <2>1. CASE Works BY <1>1, <2>1, WorkStep
  <2>2. CASE ~Works
    <3>1. CellsInv' /\ cells' = cells /\ shown' = shown
      BY <1>1, <2>2, RestStep
    <3> QED BY <1>1, <3>1 DEF TurnsTypeOK, WindowsTypeOK
  <2> QED BY <2>1, <2>2
<1>5. TurnsTypeOK'
  <2>1. WindowsTypeOK' BY <1>1, <1>4, BoundsStep DEF WindowsTypeOK
  <2>2. changes' \in 0..MaxChanges /\ faults' \in 0..MaxFaults
    BY <1>1, BoundsStep
  <2> QED BY <1>3, <2>1, <2>2 DEF HandTypes, TurnsTypeOK
<1> QED BY <1>3, <1>4, <1>5 DEF TurnsInductive

THEOREM TurnsAlwaysInductive == TurnsSpec => []TurnsInductive
<1>1. TurnsInit => TurnsInductive BY TurnsInitInductive
<1>2. TurnsInductive /\ [TurnsNext]_turnsVars => TurnsInductive' BY StepInductive
<1> QED BY <1>1, <1>2, PTL DEF TurnsSpec

-----------------------------------------------------------------------------
(* The properties.                                                         *)

(* Whatever sequence of resizes, mode changes, new handles, closed and     *)
(* reopened windows, lost and outdated surfaces a run meets, the textures  *)
(* a frame presents were acquired from surfaces configured to what this    *)
(* turn's extraction saw (extract_windows, create_surfaces and             *)
(* prepare_windows), and no surface is used against a live texture.        *)
THEOREM PresentedTexturesFit == TurnsSpec => []TexturesFit
<1>1. TurnsInductive => TexturesFit
  <2> SUFFICES ASSUME TurnsInductive PROVE TexturesFit OBVIOUS
  <2>1. TurnsTypeOK /\ HandOff /\ CellsInv BY DEF TurnsInductive
  <2>2. ASSUME turn = "render", NEW w \in Holds(cells)
        PROVE  /\ cells[w].record.texture = cells[w].surface.shape
               /\ cells[w].surface.shape = Wanted(cells[w].record)
    <3>1. place # "gone" /\ ~Waiting BY <2>1, <2>2, TurnIsHeld
    <3>2. Created BY <2>2, <3>1 DEF Created, Cleaned
    <3>3. HeldRight(cells[w]) /\ Fits(cells[w])
      BY <2>1, <2>2, <3>1, <3>2 DEF CellsInv, CellInv, Holds, Live
    <3> QED BY <2>2, <3>3 DEF HeldRight, Fits, Holds, Live
  <2> QED BY <2>1, <2>2 DEF TexturesFit, CellsInv
<1> QED BY <1>1, TurnsAlwaysInductive, PTL

(* The render app is in one hand at a time and finds its receiver waiting, *)
(* the schedule runs on the thread that claimed the flush thread, and only *)
(* a panic of the render thread keeps a lent render world from being       *)
(* dropped on the main thread (RenderAppChannels and its Drop).            *)
THEOREM RenderWorldIsHandedBack == TurnsSpec => []RenderWorldComesHome
<1>1. TurnsInductive => RenderWorldComesHome
  BY DEF TurnsInductive, HandOff, ImmediateHand, UnstartedHand, StartedHand,
         RenderWorldComesHome
<1> QED BY <1>1, TurnsAlwaysInductive, PTL


=============================================================================
