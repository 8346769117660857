---------------------------- MODULE ResourcePool ----------------------------
(***************************************************************************)
(* The frame resource allocator over its frames: phases, the plan that     *)
(* gives every allocation request of a frame a pooled resource, and the    *)
(* pool with its ageing (allocator.rs, pool.rs).                           *)
(*                                                                         *)
(* A frame is the set of allocation requests its request streams solve to  *)
(* (see FrameResources).  The pool is a function from ids: candidates      *)
(* are met in the order of their ids, since a new id is above those of all *)
(* candidates.  Planning and materialising a request is one step, because  *)
(* the plan never looks at the resources.  A descriptor is what reuse      *)
(* depends on: its creation fields, one value, and its current size.       *)
(***************************************************************************)
EXTENDS Integers, FiniteSets

CONSTANTS
  Forms, Sizes,   \* of descriptors
  Externals,      \* external resources: imports and external swaps
  Frames,         \* the frames a client may record
  MaxUnusedAge,
  MaxId,          \* bound: ids of the pool
  MaxOver         \* bound: over-capacity age at which a resolve may still start

Desc == [form : Forms, size : Sizes]
Owners == {"owned"} \cup Externals
Request == [desc : Desc, start : Nat, end : Nat, source : Owners, shared : BOOLEAN]
Allocation ==
  [desc : Desc, owner : Owners, used : BOOLEAN, cacheable : BOOLEAN, age : Nat, over : Nat]

ASSUME SizesAssumption == Sizes \subseteq Nat /\ MaxUnusedAge \in Nat
ASSUME BoundsAssumption == MaxId \in Nat /\ MaxOver \in Nat
ASSUME ExternalsAssumption == "owned" \notin Externals
ASSUME FramesAssumption ==
  \A f \in Frames :
    /\ IsFiniteSet(DOMAIN f) /\ DOMAIN f \subseteq Nat /\ f \in [DOMAIN f -> Request]
    /\ \A r \in DOMAIN f : /\ f[r].start <= f[r].end
                           /\ f[r].shared => f[r].source = "owned"

VARIABLES
  phase,
  frame,       \* the allocation requests of the frame
  registered,  \* external resources staged for the frame
  evict,       \* process_eviction
  pool,
  todo,        \* requests the plan has not assigned
  held,        \* the slots of the plan: the requests each allocation serves
  resolution,  \* the published assignment, NoResolution when there is none
  call,        \* how the last resolve went
  leftover     \* history: the plan started over a pool that was not clean

vars == <<phase, frame, registered, evict, pool, todo, held, resolution, call, leftover>>

Empty == [i \in {} |-> 0]
NoResolution == Empty

Init ==
  /\ phase = "startup" /\ frame = Empty /\ registered = {} /\ evict = TRUE
  /\ pool = Empty /\ todo = {} /\ held = Empty /\ resolution = NoResolution
  /\ call = "idle" /\ leftover = FALSE

Calling == call = "planning"

----------------------------------------------------------------------------
(* Reuse *)

\* Mutant of Overlaps: only what starts inside the other range meets it.
OverlapsInside(a, b) == b.start <= a.start /\ a.start <= b.end
Overlaps(a, b) == a.start <= b.end /\ b.start <= a.end

CanReuseFor(have, want) == have.form = want.form /\ have.size >= want.size

Reusable(a) == a.owner = "owned" /\ a.cacheable

Candidates == {i \in DOMAIN pool : Reusable(pool[i])}

\* Largest first, then by start, then by id.
Before(q, r) ==
  \/ frame[q].desc.size > frame[r].desc.size
  \/ /\ frame[q].desc.size = frame[r].desc.size
     /\ \/ frame[q].start < frame[r].start
        \/ frame[q].start = frame[r].start /\ q < r
Turn(r) == r \in todo /\ \A q \in todo \ {r} : Before(r, q)

Rejects(i, r) ==
  \/ ~Reusable(pool[i]) \/ ~CanReuseFor(pool[i].desc, frame[r].desc)
  \/ \E q \in held[i] : Overlaps(frame[q], frame[r])
Accepting(r) == {i \in DOMAIN held : frame[r].shared /\ ~Rejects(i, r)}
First(ids) == CHOOSE i \in ids : \A j \in ids : i <= j

NextId ==
  IF DOMAIN held = {} THEN 0
  ELSE 1 + (CHOOSE i \in DOMAIN held : \A j \in DOMAIN held : j <= i)

----------------------------------------------------------------------------
(* Phases *)

ClearedFrame ==
  /\ frame' = Empty /\ registered' = {} /\ resolution' = NoResolution
  /\ todo' = {} /\ held' = Empty /\ call' = "idle"

BeginPreConsume ==
  /\ phase = "startup"
  /\ phase' = "preconsume" /\ frame' = Empty /\ registered' = {} /\ resolution' = NoResolution
  /\ UNCHANGED <<evict, pool, todo, held, call, leftover>>

RegisterExternal(e) ==
  /\ ~Calling /\ e \notin registered
  /\ registered' = registered \cup {e}
  /\ UNCHANGED <<phase, frame, evict, pool, todo, held, resolution, call, leftover>>

SetProcessEviction(b) ==
  /\ ~Calling
  /\ evict' = b
  /\ UNCHANGED <<phase, frame, registered, pool, todo, held, resolution, call, leftover>>

\* The requests of the frame are solved here; nothing is materialised yet.
EnterResolve(f) ==
  /\ phase = "preconsume"
  /\ phase' = "resolve" /\ frame' = f /\ resolution' = NoResolution
  /\ UNCHANGED <<registered, evict, pool, todo, held, call, leftover>>

\* The resources need not have been materialised.
EnterConsume ==
  /\ phase = "resolve" /\ ~Calling
  /\ phase' = "consume"
  /\ UNCHANGED <<frame, registered, evict, pool, todo, held, resolution, call, leftover>>

EnterStartup ==
  /\ phase = "cleanup"
  /\ phase' = "startup"
  /\ UNCHANGED <<frame, registered, evict, pool, todo, held, resolution, call, leftover>>

Aged(a) ==
  [a EXCEPT !.age = IF a.used THEN 0 ELSE IF evict THEN a.age + 1 ELSE a.age,
            !.used = FALSE]

\* Mutant of Kept: what may not be cached stays until it is old.
KeptOwned(a) == a.owner = "owned" /\ (evict => a.age <= MaxUnusedAge /\ a.over <= MaxUnusedAge)
Kept(a) == Reusable(a) /\ (evict => a.age <= MaxUnusedAge /\ a.over <= MaxUnusedAge)

\* A frame that did not replay all its requests is refused here and is reset.
Cleanup ==
  /\ phase = "consume"
  /\ phase' = "cleanup"
  /\ pool' = [i \in {j \in DOMAIN pool : Kept(Aged(pool[j]))} |-> Aged(pool[i])]
  /\ ClearedFrame
  /\ UNCHANGED <<evict, leftover>>

ClearAllCaches ==
  /\ phase = "cleanup"
  /\ pool' = Empty
  /\ UNCHANGED <<phase, frame, registered, evict, todo, held, resolution, call, leftover>>

\* From whatever phase: the pool is not touched.
ResetForFrame ==
  /\ ~Calling
  /\ phase' = "startup" /\ evict' = TRUE
  /\ ClearedFrame
  /\ UNCHANGED <<pool, leftover>>

----------------------------------------------------------------------------
(* resolve_frame_resources *)

BeginResolve ==
  /\ phase = "resolve" /\ ~Calling
  /\ \A i \in DOMAIN pool : i + Cardinality(DOMAIN frame) <= MaxId /\ pool[i].over <= MaxOver
  /\ held' = [i \in Candidates |-> {}]
  /\ todo' = DOMAIN frame /\ call' = "planning"
  /\ leftover' = (Candidates # DOMAIN pool)
  /\ UNCHANGED <<phase, frame, registered, evict, pool, resolution>>

\* mark_used_this_frame_for_request
Marked(a, desc) ==
  [a EXCEPT !.used = TRUE,
            !.over = IF Reusable(a) /\ CanReuseFor(a.desc, desc) /\ a.desc.size # desc.size
                     THEN a.over + 1 ELSE 0]

Reuse(r) ==
  LET i == First(Accepting(r))
  IN  /\ Calling /\ Turn(r) /\ Accepting(r) # {}
      /\ held' = [held EXCEPT ![i] = @ \cup {r}]
      /\ pool' = [pool EXCEPT ![i] = Marked(@, frame[r].desc)]
      /\ todo' = todo \ {r}
      /\ UNCHANGED <<phase, frame, registered, evict, resolution, call, leftover>>

Created(r) ==
  [desc |-> frame[r].desc, owner |-> frame[r].source, used |-> TRUE,
   cacheable |-> frame[r].shared, age |-> 0, over |-> 0]

Unregistered(r) == frame[r].source # "owned" /\ frame[r].source \notin registered

Create(r) ==
  /\ Calling /\ Turn(r) /\ Accepting(r) = {} /\ ~Unregistered(r) /\ NextId \notin DOMAIN pool
  /\ held' = [i \in DOMAIN held \cup {NextId} |-> IF i = NextId THEN {r} ELSE held[i]]
  /\ pool' = [i \in DOMAIN pool \cup {NextId} |-> IF i = NextId THEN Created(r) ELSE pool[i]]
  /\ todo' = todo \ {r} /\ registered' = registered \ {frame[r].source}
  /\ UNCHANGED <<phase, frame, evict, resolution, call, leftover>>

\* The error returns at once; what was created or marked stays.  A registered
\* resource may turn out not to match the descriptor of the request.
Refuse(r) ==
  /\ Calling /\ Turn(r) /\ Accepting(r) = {}
  /\ \/ Unregistered(r) /\ call' = "unregistered" /\ UNCHANGED registered
     \/ /\ frame[r].source \in registered
        /\ call' = "mismatched" /\ registered' = registered \ {frame[r].source}
     \/ /\ ~Unregistered(r) /\ NextId \in DOMAIN pool
        /\ call' = "taken" /\ registered' = registered \ {frame[r].source}
  /\ todo' = {} /\ held' = Empty
  /\ UNCHANGED <<phase, frame, evict, pool, resolution, leftover>>

Serving(r) == CHOOSE i \in DOMAIN held : r \in held[i]

Publish ==
  /\ Calling /\ todo = {}
  /\ resolution' = [r \in DOMAIN frame |->
                      [id |-> Serving(r), allocation |-> pool[Serving(r)]]]
  /\ call' = "idle" /\ held' = Empty
  /\ UNCHANGED <<phase, frame, registered, evict, pool, todo, leftover>>

Next ==
  \/ BeginPreConsume
  \/ \E f \in Frames : EnterResolve(f)
  \/ \E e \in Externals : RegisterExternal(e)
  \/ \E b \in BOOLEAN : SetProcessEviction(b)
  \/ EnterConsume \/ Cleanup \/ ClearAllCaches \/ EnterStartup \/ ResetForFrame
  \/ BeginResolve \/ Publish
  \/ \E r \in todo : Reuse(r) \/ Create(r) \/ Refuse(r)

Spec == Init /\ [][Next]_vars

----------------------------------------------------------------------------
(* Properties *)

TypeOK ==
  /\ phase \in {"startup", "preconsume", "resolve", "consume", "cleanup"}
  /\ frame \in Frames \cup {Empty} /\ registered \subseteq Externals /\ evict \in BOOLEAN
  /\ DOMAIN pool \subseteq Nat /\ pool \in [DOMAIN pool -> Allocation]
  /\ todo \subseteq DOMAIN frame
  /\ DOMAIN held \subseteq DOMAIN pool /\ held \in [DOMAIN held -> SUBSET DOMAIN frame]
  /\ DOMAIN resolution \subseteq DOMAIN frame
  /\ resolution \in [DOMAIN resolution -> [id : Nat, allocation : Allocation]]
  /\ call \in {"idle", "planning", "taken", "unregistered", "mismatched"} /\ leftover \in BOOLEAN

Apart(q, r) == frame[q].end < frame[r].start \/ frame[r].end < frame[q].start

\* Two requests of a frame that are given the same resource are never alive at
\* the same time, and both may be shared: no external resource and none that an
\* external swap touched serves two requests (FrameResourcePoolPlan).
NoSharing ==
  \A q, r \in DOMAIN resolution :
    q # r /\ resolution[q].id = resolution[r].id =>
      Apart(q, r) /\ frame[q].shared /\ frame[r].shared

Serves(a, request) ==
  /\ a.owner = request.source /\ a.used /\ a.cacheable = request.shared
  /\ a.desc.form = request.desc.form /\ a.desc.size >= request.desc.size

\* A published resource is what its request asked for: large enough and of the
\* same form, owned or the very external resource, kept for later frames only
\* when it may be shared (plan, resolve_frame_resources).
ServesRequest == \A r \in DOMAIN resolution : Serves(resolution[r].allocation, frame[r])

\* A cleaned-up pool holds nothing of the frame: no external resource, none
\* that may not be cached, nothing in use (cleanup_after_frame_with_eviction).
CleanAfterCleanup ==
  phase = "cleanup" =>
    \A i \in DOMAIN pool : pool[i].owner = "owned" /\ pool[i].cacheable /\ ~pool[i].used

\* A resolve stumbles over an id in use only when the pool was not clean: a
\* frame was given up after it resolved, or the frame resolves again
\* (validate_new_allocation).
TakenOnlyByLeftovers == call = "taken" => leftover

\* Whatever frames were refused, failed half-way or were given up before: the
\* published resources serve their requests, cleanup leaves nothing behind that
\* a later frame could be handed, and ids clash only over leftovers.
PoolIsSound == TypeOK /\ ServesRequest /\ CleanAfterCleanup /\ TakenOnlyByLeftovers

=============================================================================
