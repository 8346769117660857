------------------------ MODULE FrameResourcesProofs ------------------------
(***************************************************************************)
(* Safety of the frame resource allocator for every set of descriptors and *)
(* external resources, every threshold and whatever the nodes of the       *)
(* frames ask for.                                                         *)
(*                                                                         *)
(* Pool.  The published resolution is a copy of what the plan held when    *)
(* its last request was assigned, so the work is in PlanInv: what holds of *)
(* the slots while the requests are assigned one by one, in any frame that *)
(* is WellFormed.                                                          *)
(*                                                                         *)
(* Solver.  The requests of a frame solve to a well-formed frame, and what *)
(* a tag is solved to at a time is what going back in time finds (Settled, *)
(* Grows, Follows): uses and getters rest on it.                           *)
(*                                                                         *)
(* Replay.  A stream is a Run of its node's steps; the consume walk stands *)
(* where the run has it, or lags behind once a request is left out.        *)
(***************************************************************************)
EXTENDS FrameResources, FoldTheorems, FiniteSetTheorems, TLAPS

\* What the requests of a frame are, whatever frames a client may record.
WellFormed(f) ==
  /\ IsFiniteSet(DOMAIN f) /\ DOMAIN f \subseteq Nat /\ f \in [DOMAIN f -> Request]
  /\ \A r \in DOMAIN f : f[r].start <= f[r].end /\ (f[r].shared => f[r].source = "owned")

\* TypeOK, for any frame.
AllocatorTyped ==
  /\ phase \in {"startup", "preconsume", "resolve", "consume", "cleanup"}
  /\ WellFormed(frame) /\ registered \subseteq Externals /\ evict \in BOOLEAN
  /\ DOMAIN pool \subseteq Nat /\ pool \in [DOMAIN pool -> Allocation]
  /\ todo \subseteq DOMAIN frame
  /\ DOMAIN held \subseteq DOMAIN pool /\ held \in [DOMAIN held -> SUBSET DOMAIN frame]
  /\ DOMAIN resolution \subseteq DOMAIN frame
  /\ resolution \in [DOMAIN resolution -> [id : Nat, allocation : Allocation]]
  /\ call \in {"idle", "planning", "taken", "unregistered", "mismatched"} /\ leftover \in BOOLEAN

\* The ids of the pool are bounded, so the plan has a next one.
BoundedIds == \E n \in Nat : \A i \in DOMAIN pool : i <= n

SlotInv ==
  /\ \A i \in DOMAIN held : \A r \in held[i] : Serves(pool[i], frame[r])
  /\ \A i \in DOMAIN held : \A q, r \in held[i] :
       q # r => Apart(q, r) /\ frame[q].shared /\ frame[r].shared

PlanInv ==
  /\ Calling => /\ phase = "resolve" /\ SlotInv
                /\ \A r \in DOMAIN frame \ todo : \E i \in DOMAIN held : r \in held[i]
                /\ leftover \/ DOMAIN held = DOMAIN pool
  /\ ~Calling => DOMAIN held = {} /\ todo = {}

Inductive ==
  AllocatorTyped /\ BoundedIds /\ PlanInv /\ NoSharing /\ ServesRequest /\ CleanAfterCleanup
    /\ TakenOnlyByLeftovers

----------------------------------------------------------------------------

\* The slot a request is given accepts it.
LEMMA FirstAccepts ==
  ASSUME AllocatorTyped, NEW r, Accepting(r) # {}
  PROVE  First(Accepting(r)) \in Accepting(r)
<1>1. Accepting(r) \subseteq Nat
  BY DEF AllocatorTyped, Accepting
<1>2. \E i \in Accepting(r) : \A j \in Accepting(r) : i <= j
  BY <1>1, LeastExists
<1> QED BY <1>2 DEF First

\* The next id is above those of all slots.
LEMMA NextIdIsNew ==
  ASSUME AllocatorTyped, BoundedIds
  PROVE  NextId \in Nat /\ NextId \notin DOMAIN held
<1>1. CASE DOMAIN held = {}
  BY <1>1 DEF NextId
<1>2. CASE DOMAIN held # {}
  <2>1. DOMAIN held \subseteq Nat /\ DOMAIN held \subseteq DOMAIN pool
    BY DEF AllocatorTyped
  <2>2. PICK n \in Nat : \A i \in DOMAIN held : i <= n
    BY <2>1 DEF BoundedIds
  <2>3. \E i \in DOMAIN held : \A j \in DOMAIN held : j <= i
    BY <1>2, <2>1, <2>2, GreatestExists
  <2> DEFINE g == CHOOSE i \in DOMAIN held : \A j \in DOMAIN held : j <= i
  <2>4. g \in DOMAIN held /\ \A j \in DOMAIN held : j <= g
    BY <2>3
  <2>5. NextId = 1 + g
    BY <1>2 DEF NextId
  <2> HIDE DEF g
  <2> QED BY <2>1, <2>4, <2>5
<1> QED BY <1>1, <1>2

\* The requests of a frame are typed.
LEMMA RequestType ==
  ASSUME AllocatorTyped, NEW r \in DOMAIN frame
  PROVE  /\ frame[r] \in Request /\ frame[r].start <= frame[r].end
         /\ frame[r].shared => frame[r].source = "owned"
BY DEF AllocatorTyped, WellFormed

\* Ageing keeps an allocation one, of the same descriptor and owner.
LEMMA AgedType ==
  ASSUME NEW a \in Allocation, evict \in BOOLEAN
  PROVE  /\ Aged(a) \in Allocation /\ ~Aged(a).used
         /\ Aged(a).owner = a.owner /\ Aged(a).cacheable = a.cacheable
<1> DEFINE age == IF a.used THEN 0 ELSE IF evict THEN a.age + 1 ELSE a.age
<1>1. age \in Nat
  BY DEF Allocation
<1>2. Aged(a) = [a EXCEPT !.age = age, !.used = FALSE]
  BY DEF Aged
<1> HIDE DEF age
<1> QED BY <1>1, <1>2 DEF Allocation

\* So does marking it as used, for a request it can serve.
LEMMA MarkedType ==
  ASSUME NEW a \in Allocation, NEW d \in Desc
  PROVE  /\ Marked(a, d) \in Allocation /\ Marked(a, d).used
         /\ Marked(a, d).desc = a.desc /\ Marked(a, d).owner = a.owner
         /\ Marked(a, d).cacheable = a.cacheable
<1> DEFINE over == IF Reusable(a) /\ CanReuseFor(a.desc, d) /\ a.desc.size # d.size
                   THEN a.over + 1 ELSE 0
<1>1. over \in Nat
  BY DEF Allocation
<1>2. Marked(a, d) = [a EXCEPT !.used = TRUE, !.over = over]
  BY DEF Marked
<1> HIDE DEF over
<1> QED BY <1>1, <1>2 DEF Allocation

\* What the empty function is typed as.
LEMMA EmptyType ==
  /\ DOMAIN Empty = {}
  /\ \A S : Empty \in [DOMAIN Empty -> S]
  /\ WellFormed(Empty)
<1>1. DOMAIN Empty = {} /\ \A S : Empty \in [DOMAIN Empty -> S]
  BY DEF Empty
<1> QED BY <1>1, FS_EmptySet DEF WellFormed

----------------------------------------------------------------------------

\* The allocator starts in a state of the invariant.
LEMMA InitEstablishes == Init => Inductive
<1> SUFFICES ASSUME Init PROVE Inductive
  OBVIOUS
<1> USE EmptyType DEF Init
<1>1. AllocatorTyped
  BY DEF AllocatorTyped, NoResolution
<1>2. BoundedIds
  BY DEF BoundedIds
<1>3. PlanInv
  BY DEF PlanInv, Calling
<1>4. NoSharing /\ ServesRequest
  BY DEF NoSharing, ServesRequest, NoResolution
<1>5. CleanAfterCleanup /\ TakenOnlyByLeftovers
  BY DEF CleanAfterCleanup, TakenOnlyByLeftovers
<1> QED BY <1>1, <1>2, <1>3, <1>4, <1>5 DEF Inductive

\* The steps that change neither pool, plan nor resolution.
LEMMA QuietStep ==
  ASSUME Inductive,
         UNCHANGED <<frame, pool, todo, held, resolution, call, leftover>>,
         evict' \in BOOLEAN, registered' \subseteq Externals,
         phase' \in {"startup", "preconsume", "resolve", "consume", "cleanup"},
         Calling => phase' = phase,
         phase' = "cleanup" => phase = "cleanup"
  PROVE  Inductive'
<1> USE DEF Inductive
<1>1. AllocatorTyped'
  BY DEF AllocatorTyped
<1>2. BoundedIds'
  BY DEF BoundedIds
<1>3. PlanInv'
  BY DEF PlanInv, Calling, SlotInv, Apart
<1>4. NoSharing'
  BY DEF NoSharing, Apart
<1>5. ServesRequest'
  BY DEF ServesRequest
<1>6. CleanAfterCleanup' /\ TakenOnlyByLeftovers'
  BY DEF CleanAfterCleanup, TakenOnlyByLeftovers
<1> QED BY <1>1, <1>2, <1>3, <1>4, <1>5, <1>6

\* The steps that start or end a frame: whatever it resolved is forgotten.
LEMMA FrameStep ==
  ASSUME Inductive,
         WellFormed(frame'), registered' \subseteq Externals, evict' \in BOOLEAN,
         resolution' = NoResolution, UNCHANGED leftover,
         phase' \in {"startup", "preconsume", "resolve", "consume", "cleanup"},
         todo' = {}, DOMAIN held' = {}, held' \in [DOMAIN held' -> SUBSET DOMAIN frame'],
         ~Calling', call' \in {"idle", call},
         DOMAIN pool' \subseteq DOMAIN pool, pool' \in [DOMAIN pool' -> Allocation],
         CleanAfterCleanup'
  PROVE  Inductive'
<1> USE EmptyType DEF Inductive
<1>1. AllocatorTyped'
  BY DEF AllocatorTyped, NoResolution
<1>2. BoundedIds'
  BY DEF BoundedIds
<1>3. PlanInv'
  BY DEF PlanInv, Calling
<1>4. NoSharing' /\ ServesRequest'
  BY DEF NoSharing, ServesRequest, NoResolution
<1>5. TakenOnlyByLeftovers'
  BY DEF TakenOnlyByLeftovers
<1> QED BY <1>1, <1>2, <1>3, <1>4, <1>5

\* Cleaning up leaves only owned, cacheable allocations that are not in use.
LEMMA CleanupPreserves ==
  ASSUME Inductive, Cleanup
  PROVE  Inductive'
<1> USE DEF Inductive
<1>1. ASSUME NEW i \in DOMAIN pool
      PROVE  /\ Aged(pool[i]) \in Allocation /\ ~Aged(pool[i]).used
  BY AgedType DEF AllocatorTyped
<1>2. /\ DOMAIN pool' \subseteq DOMAIN pool
      /\ \A i \in DOMAIN pool' : pool'[i] = Aged(pool[i]) /\ Kept(Aged(pool[i]))
  BY DEF Cleanup
<1>3. pool' \in [DOMAIN pool' -> Allocation]
  BY <1>1 DEF Cleanup
<1>4. CleanAfterCleanup'
  BY <1>1, <1>2 DEF CleanAfterCleanup, Kept, Reusable
<1> QED BY <1>2, <1>3, <1>4, FrameStep, EmptyType DEF Cleanup, ClearedFrame, Calling, AllocatorTyped

\* A resolve starts from the reusable allocations, which serve nobody yet.
LEMMA BeginResolvePreserves ==
  ASSUME Inductive, BeginResolve
  PROVE  Inductive'
<1> USE DEF Inductive, BeginResolve
<1>1. AllocatorTyped'
  BY DEF AllocatorTyped, Candidates
<1>2. BoundedIds'
  BY DEF BoundedIds
<1>3. PlanInv'
  BY DEF PlanInv, Calling, SlotInv
<1>4. NoSharing'
  BY DEF NoSharing, Apart
<1>5. ServesRequest'
  BY DEF ServesRequest
<1>6. CleanAfterCleanup' /\ TakenOnlyByLeftovers'
  BY DEF CleanAfterCleanup, TakenOnlyByLeftovers
<1> QED BY <1>1, <1>2, <1>3, <1>4, <1>5, <1>6

\* A slot takes a request that overlaps none of those it serves.
LEMMA ReusePreserves ==
  ASSUME Inductive, NEW r \in todo, Reuse(r)
  PROVE  Inductive'
<1> USE DEF Inductive
<1> DEFINE i == First(Accepting(r))
<1>1. i \in Accepting(r)
  BY FirstAccepts DEF Reuse
<1>2. /\ Calling /\ pool' = [pool EXCEPT ![i] = Marked(pool[i], frame[r].desc)]
      /\ held' = [held EXCEPT ![i] = held[i] \cup {r}] /\ todo' = todo \ {r}
      /\ UNCHANGED <<phase, frame, registered, evict, resolution, call, leftover>>
  BY DEF Reuse
<1> HIDE DEF i
<1>3. /\ i \in DOMAIN held /\ i \in DOMAIN pool /\ pool[i] \in Allocation
      /\ r \in DOMAIN frame /\ frame[r] \in Request /\ frame[r].desc \in Desc
      /\ frame[r].shared /\ frame[r].source = "owned"
  BY <1>1, RequestType DEF AllocatorTyped, Accepting, Request
<1>4. /\ Reusable(pool[i]) /\ CanReuseFor(pool[i].desc, frame[r].desc)
      /\ \A q \in held[i] : ~Overlaps(frame[q], frame[r])
  BY <1>1 DEF Accepting, Rejects
<1>5. /\ pool'[i] \in Allocation /\ pool'[i].used /\ pool'[i].desc = pool[i].desc
      /\ pool'[i].owner = pool[i].owner /\ pool'[i].cacheable = pool[i].cacheable
  BY <1>2, <1>3, MarkedType
<1>6. /\ DOMAIN pool' = DOMAIN pool /\ DOMAIN held' = DOMAIN held
      /\ \A j \in DOMAIN pool : j # i => pool'[j] = pool[j]
      /\ \A j \in DOMAIN held : j # i => held'[j] = held[j]
      /\ held'[i] = held[i] \cup {r}
  BY <1>2, <1>3
<1>7. AllocatorTyped'
  <2>1. pool' \in [DOMAIN pool' -> Allocation]
    BY <1>2, <1>5, <1>6 DEF AllocatorTyped
  <2>2. held' \in [DOMAIN held' -> SUBSET DOMAIN frame']
    BY <1>2, <1>3, <1>6 DEF AllocatorTyped
  <2> QED BY <1>2, <1>6, <2>1, <2>2 DEF AllocatorTyped
<1>8. BoundedIds'
  BY <1>6 DEF BoundedIds
<1>9. PlanInv'
  <2>1. SlotInv
    BY <1>2 DEF PlanInv
  <2>2. ASSUME NEW j \in DOMAIN held', NEW q \in held'[j] PROVE Serves(pool'[j], frame'[q])
    <3>1. CASE j # i
      BY <1>2, <1>6, <2>1, <3>1 DEF SlotInv, AllocatorTyped
    <3>2. CASE j = i /\ q = r
      BY <1>2, <1>3, <1>4, <1>5, <3>2 DEF Serves, Reusable, CanReuseFor, Allocation
    <3>3. CASE j = i /\ q \in held[i]
      BY <1>2, <1>3, <1>5, <2>1, <3>3 DEF SlotInv, Serves
    <3> QED BY <1>6, <3>1, <3>2, <3>3
  <2>3. ASSUME NEW q \in held[i] PROVE Apart(q, r) /\ Apart(r, q) /\ frame[q].shared
    <3>1. frame[q] \in Request
      BY <1>3, RequestType DEF AllocatorTyped
    <3>2. Apart(q, r) /\ Apart(r, q)
      BY <1>3, <1>4, <3>1 DEF Apart, Overlaps, Request
    <3>3. frame[q].shared
      BY <1>3, <1>4, <2>1, <3>1 DEF SlotInv, Serves, Reusable, Request, Allocation
    <3> QED BY <3>2, <3>3
  <2>4. ASSUME NEW j \in DOMAIN held', NEW q \in held'[j], NEW p \in held'[j], q # p
        PROVE  Apart(q, p)' /\ frame'[q].shared /\ frame'[p].shared
    <3>1. CASE j # i
      BY <1>2, <1>6, <2>1, <2>4, <3>1 DEF SlotInv, Apart
    <3>2. CASE j = i
      BY <1>2, <1>3, <1>6, <2>1, <2>3, <2>4, <3>2 DEF SlotInv, Apart
    <3> QED BY <3>1, <3>2
  <2>5. ASSUME NEW q \in DOMAIN frame' \ todo' PROVE \E j \in DOMAIN held' : q \in held'[j]
    BY <1>2, <1>3, <1>6 DEF PlanInv
  <2>6. SlotInv'
    BY <2>2, <2>4 DEF SlotInv
  <2> QED BY <1>2, <1>6, <2>5, <2>6 DEF PlanInv, Calling
<1>10. NoSharing'
  BY <1>2 DEF NoSharing, Apart
<1>11. ServesRequest'
  BY <1>2 DEF ServesRequest
<1>12. CleanAfterCleanup' /\ TakenOnlyByLeftovers'
  BY <1>2 DEF CleanAfterCleanup, TakenOnlyByLeftovers, PlanInv, Calling
<1> QED BY <1>7, <1>8, <1>9, <1>10, <1>11, <1>12

\* A new allocation serves the request it was made for.
LEMMA CreatePreserves ==
  ASSUME Inductive, NEW r \in todo, Create(r)
  PROVE  Inductive'
<1> USE DEF Inductive
<1> DEFINE n == NextId
<1>1. n \in Nat /\ n \notin DOMAIN held /\ n \notin DOMAIN pool
  BY NextIdIsNew DEF Create
<1>2. /\ Calling /\ todo' = todo \ {r} /\ registered' = registered \ {frame[r].source}
      /\ pool' = [i \in DOMAIN pool \cup {n} |-> IF i = n THEN Created(r) ELSE pool[i]]
      /\ held' = [i \in DOMAIN held \cup {n} |-> IF i = n THEN {r} ELSE held[i]]
      /\ UNCHANGED <<phase, frame, evict, resolution, call, leftover>>
  BY DEF Create
<1> HIDE DEF n
<1>3. r \in DOMAIN frame /\ frame[r] \in Request
  BY RequestType DEF AllocatorTyped
<1>4. Created(r) \in Allocation /\ Serves(Created(r), frame[r])
  <2>1. /\ frame[r].desc \in Desc /\ frame[r].source \in Owners /\ frame[r].shared \in BOOLEAN
        /\ frame[r].desc.size \in Nat
    BY <1>3, SizesAssumption DEF Request, Desc
  <2>2. Created(r) \in Allocation
    BY <2>1 DEF Created, Allocation
  <2>3. Serves(Created(r), frame[r])
    BY <2>1 DEF Created, Serves
  <2> QED BY <2>2, <2>3
<1>5. /\ DOMAIN pool' = DOMAIN pool \cup {n} /\ DOMAIN held' = DOMAIN held \cup {n}
      /\ pool'[n] = Created(r) /\ \A i \in DOMAIN pool : pool'[i] = pool[i]
      /\ held'[n] = {r} /\ \A i \in DOMAIN held : held'[i] = held[i]
  BY <1>1, <1>2
<1>6. AllocatorTyped'
  <2>1. pool' \in [DOMAIN pool' -> Allocation]
    BY <1>2, <1>4, <1>5 DEF AllocatorTyped
  <2>2. held' \in [DOMAIN held' -> SUBSET DOMAIN frame']
    BY <1>2, <1>3, <1>5 DEF AllocatorTyped
  <2> QED BY <1>1, <1>2, <1>5, <2>1, <2>2 DEF AllocatorTyped
<1>7. BoundedIds'
  <2>1. PICK b \in Nat : \A i \in DOMAIN pool : i <= b
    BY DEF BoundedIds
  <2>2. b + n \in Nat /\ \A i \in DOMAIN pool' : i <= b + n
    BY <1>1, <1>5, <2>1 DEF AllocatorTyped
  <2> QED BY <2>2 DEF BoundedIds
<1>8. PlanInv'
  <2>1. SlotInv
    BY <1>2 DEF PlanInv
  <2>2. ASSUME NEW i \in DOMAIN held', NEW q \in held'[i] PROVE Serves(pool'[i], frame'[q])
    BY <1>2, <1>4, <1>5, <2>1 DEF SlotInv, AllocatorTyped
  <2>3. ASSUME NEW i \in DOMAIN held', NEW q \in held'[i], NEW p \in held'[i], q # p
        PROVE  Apart(q, p)' /\ frame'[q].shared /\ frame'[p].shared
    BY <1>2, <1>5, <2>1, <2>3 DEF SlotInv, Apart
  <2>4. ASSUME NEW q \in DOMAIN frame' \ todo' PROVE \E i \in DOMAIN held' : q \in held'[i]
    BY <1>2, <1>5 DEF PlanInv
  <2>5. SlotInv'
    BY <2>2, <2>3 DEF SlotInv
  <2> QED BY <1>2, <1>5, <2>4, <2>5 DEF PlanInv, Calling
<1>9. NoSharing'
  BY <1>2 DEF NoSharing, Apart
<1>10. ServesRequest'
  BY <1>2 DEF ServesRequest
<1>11. CleanAfterCleanup' /\ TakenOnlyByLeftovers'
  BY <1>2 DEF CleanAfterCleanup, TakenOnlyByLeftovers, PlanInv, Calling
<1> QED BY <1>6, <1>7, <1>8, <1>9, <1>10, <1>11

\* The slots of a clean pool are the whole pool, and the next id is above them.
LEMMA RefusePreserves ==
  ASSUME Inductive, NEW r \in todo, Refuse(r)
  PROVE  Inductive'
<1> USE EmptyType DEF Inductive
<1>1. /\ Calling /\ todo' = {} /\ held' = Empty /\ registered' \subseteq registered
      /\ call' \in {"taken", "unregistered", "mismatched"}
      /\ call' = "taken" => NextId \in DOMAIN pool
      /\ UNCHANGED <<phase, frame, evict, pool, resolution, leftover>>
  BY DEF Refuse
<1>2. AllocatorTyped'
  BY <1>1 DEF AllocatorTyped
<1>3. BoundedIds'
  BY <1>1 DEF BoundedIds
<1>4. PlanInv'
  BY <1>1 DEF PlanInv, Calling
<1>5. NoSharing'
  BY <1>1 DEF NoSharing, Apart
<1>6. ServesRequest'
  BY <1>1 DEF ServesRequest
<1>7. CleanAfterCleanup'
  BY <1>1 DEF CleanAfterCleanup, PlanInv
<1>8. TakenOnlyByLeftovers'
  BY <1>1, NextIdIsNew DEF TakenOnlyByLeftovers, PlanInv
<1> QED BY <1>2, <1>3, <1>4, <1>5, <1>6, <1>7, <1>8

\* What is published is what the slots held.
LEMMA PublishPreserves ==
  ASSUME Inductive, Publish
  PROVE  Inductive'
<1> USE EmptyType DEF Inductive
<1>1. /\ Calling /\ todo = {} /\ call' = "idle" /\ held' = Empty
      /\ UNCHANGED <<phase, frame, registered, evict, pool, todo, leftover>>
      /\ DOMAIN resolution' = DOMAIN frame
      /\ \A r \in DOMAIN frame :
           resolution'[r] = [id |-> Serving(r), allocation |-> pool[Serving(r)]]
  BY DEF Publish
<1>2. SlotInv
  BY <1>1 DEF PlanInv
<1>3. ASSUME NEW r \in DOMAIN frame
      PROVE  Serving(r) \in DOMAIN held /\ r \in held[Serving(r)]
  <2>1. \E i \in DOMAIN held : r \in held[i]
    BY <1>1 DEF PlanInv
  <2> QED BY <2>1 DEF Serving
<1>4. ASSUME NEW r \in DOMAIN frame PROVE Serving(r) \in Nat /\ pool[Serving(r)] \in Allocation
  BY <1>3 DEF AllocatorTyped
<1>5. AllocatorTyped'
  <2>1. resolution' \in [DOMAIN resolution' -> [id : Nat, allocation : Allocation]]
    BY <1>4 DEF Publish
  <2> QED BY <1>1, <2>1 DEF AllocatorTyped
<1>6. BoundedIds'
  BY <1>1 DEF BoundedIds
<1>7. PlanInv'
  BY <1>1 DEF PlanInv, Calling
<1>8. NoSharing'
  BY <1>1, <1>2, <1>3 DEF NoSharing, SlotInv, Apart
<1>9. ServesRequest'
  BY <1>1, <1>2, <1>3 DEF ServesRequest, SlotInv
<1>10. CleanAfterCleanup' /\ TakenOnlyByLeftovers'
  BY <1>1 DEF CleanAfterCleanup, TakenOnlyByLeftovers
<1> QED BY <1>5, <1>6, <1>7, <1>8, <1>9, <1>10

----------------------------------------------------------------------------

\* Every step of the allocator preserves the invariant.
LEMMA StepPreserves ==
  ASSUME Inductive, [Next]_vars \/ \E f : WellFormed(f) /\ EnterResolve(f)
  PROVE  Inductive'
<1>0. AllocatorTyped /\ PlanInv /\ CleanAfterCleanup
  BY DEF Inductive
<1>1. CASE BeginPreConsume
  BY <1>0, <1>1, EmptyType, FrameStep
  DEF BeginPreConsume, PlanInv, Calling, AllocatorTyped, CleanAfterCleanup
<1>2. ASSUME NEW e \in Externals, RegisterExternal(e) PROVE Inductive'
  BY <1>0, <1>2, QuietStep DEF RegisterExternal, AllocatorTyped
<1>3. ASSUME NEW b \in BOOLEAN, SetProcessEviction(b) PROVE Inductive'
  BY <1>0, <1>3, QuietStep DEF SetProcessEviction, AllocatorTyped
<1>4. ASSUME NEW f, WellFormed(f), EnterResolve(f) PROVE Inductive'
  BY <1>0, <1>4, EmptyType, FrameStep
  DEF EnterResolve, PlanInv, Calling, AllocatorTyped, CleanAfterCleanup
<1>5. CASE EnterConsume
  BY <1>0, <1>5, QuietStep DEF EnterConsume, AllocatorTyped
<1>6. CASE EnterStartup
  BY <1>0, <1>6, QuietStep DEF EnterStartup, AllocatorTyped, PlanInv
<1>7. CASE Cleanup
  BY <1>7, CleanupPreserves
<1>8. CASE ClearAllCaches
  <2>1. ~Calling
    BY <1>0, <1>8 DEF ClearAllCaches, PlanInv
  <2> QED BY <1>0, <1>8, <2>1, EmptyType DEF ClearAllCaches, Inductive, AllocatorTyped,
       BoundedIds, PlanInv, Calling, NoSharing, Apart, ServesRequest, CleanAfterCleanup,
       TakenOnlyByLeftovers
<1>9. CASE ResetForFrame
  BY <1>0, <1>9, EmptyType, FrameStep
  DEF ResetForFrame, ClearedFrame, Calling, AllocatorTyped, CleanAfterCleanup
<1>10. CASE BeginResolve
  BY <1>10, BeginResolvePreserves
<1>11. CASE Publish
  BY <1>11, PublishPreserves
<1>12. ASSUME NEW r \in todo, Reuse(r) \/ Create(r) \/ Refuse(r) PROVE Inductive'
  BY <1>12, ReusePreserves, CreatePreserves, RefusePreserves
<1>13. CASE UNCHANGED vars
  BY <1>0, <1>13, QuietStep DEF vars, AllocatorTyped
<1>14. \A f \in Frames : WellFormed(f)
  BY FramesAssumption DEF WellFormed
<1> QED BY <1>1, <1>2, <1>3, <1>4, <1>5, <1>6, <1>7, <1>8, <1>9, <1>10, <1>11, <1>12, <1>13, <1>14
        DEF Next

\* Whatever frames are recorded and however the phases are driven, the
\* allocator stays in the invariant.
THEOREM InductiveInvariant == Spec => []Inductive
BY InitEstablishes, StepPreserves, PTL DEF Spec

\* The allocator's state is typed: ids, allocations and the published
\* assignment (pool.rs, allocator.rs).
THEOREM TypeCorrect == Spec => []TypeOK
<1> DEFINE Recordable == frame \in Frames \cup {Empty}
<1>1. Init => Recordable
  BY DEF Init
<1>2. Recordable /\ [Next]_vars => Recordable'
  BY DEF Next, vars, BeginPreConsume, EnterResolve, RegisterExternal, SetProcessEviction,
     EnterConsume, Cleanup, ClearAllCaches, EnterStartup, ResetForFrame, ClearedFrame,
     BeginResolve, Publish, Reuse, Create, Refuse
<1>3. Inductive /\ Recordable => TypeOK
  BY DEF Inductive, AllocatorTyped, TypeOK
<1> QED BY <1>1, <1>2, <1>3, InductiveInvariant, PTL DEF Spec

\* No two requests of a frame whose lifetimes meet are given the same
\* resource, and none that may not be shared is given to two (plan).
THEOREM ResourcesAreNotShared == Spec => []NoSharing
<1>1. Inductive => NoSharing
  BY DEF Inductive
<1> QED BY <1>1, InductiveInvariant, PTL

\* Every published resource is what its request asked for.
THEOREM RequestsAreServed == Spec => []ServesRequest
<1>1. Inductive => ServesRequest
  BY DEF Inductive
<1> QED BY <1>1, InductiveInvariant, PTL

\* The published resources serve their requests, nothing of the frame is left
\* in a cleaned-up pool, and a clean pool never refuses a new id.
THEOREM PoolStaysSound == Spec => []PoolIsSound
<1>1. Inductive /\ TypeOK => PoolIsSound
  BY DEF Inductive, PoolIsSound
<1> QED BY <1>1, InductiveInvariant, TypeCorrect, PTL

-----------------------------------------------------------------------------
(* The lifetime solver: what one request does to its state *)

Recorded == Asks(Said)

Instances ==
  [desc : Desc, start : Nat, end : Nat, source : Owners, touched : BOOLEAN,
   shared : BOOLEAN, open : Int]
Events == [tag : Tags, at : Nat, instance : Nat]

\* The solver's states, in which every name is that of an instance.
States ==
  {s \in [names : UNION {[D -> Nat] : D \in SUBSET Tags}, instances : Seq(Instances),
          events : Seq(Events), ok : BOOLEAN] :
     \A tag \in DOMAIN s.names : s.names[tag] \in DOMAIN s.instances}

NameAt(s, tag) == IF tag \in DOMAIN s.names THEN s.names[tag] ELSE NoInstance

\* The same instance, maybe prolonged.
Ages(a, b, at) ==
  /\ b.start = a.start /\ b.desc = a.desc /\ b.source = a.source
  /\ b.end \in {a.end, at} /\ (a.touched => b.touched) /\ (b.shared => a.shared)

\* No instance is new and no name changes.
Prolongs(s, r, at) ==
  /\ r \in States /\ r.names = s.names /\ r.events = s.events /\ r.ok = s.ok
  /\ Len(r.instances) = Len(s.instances)
  /\ \A i \in DOMAIN s.instances : Ages(s.instances[i], r.instances[i], at)

\* Prolonging is a matter of the instances only.
LEMMA ProlongedBy ==
  ASSUME NEW s \in States, NEW at, NEW new \in Seq(Instances), Len(new) = Len(s.instances),
         \A i \in DOMAIN s.instances : Ages(s.instances[i], new[i], at)
  PROVE  Prolongs(s, [s EXCEPT !.instances = new], at)
<1> DEFINE r == [s EXCEPT !.instances = new]
<1>1. /\ r.names = s.names /\ r.instances = new /\ r.events = s.events /\ r.ok = s.ok
      /\ DOMAIN new = DOMAIN s.instances
  BY DEF States
<1>2. r \in States
  BY <1>1 DEF States
<1> HIDE DEF r
<1>3. Prolongs(s, r, at)
  BY <1>1, <1>2 DEF Prolongs
<1> QED BY <1>3 DEF r

\* Changing one instance.
LEMMA OneProlonged ==
  ASSUME NEW s \in States, NEW at, NEW i \in DOMAIN s.instances, NEW b \in Instances,
         Ages(s.instances[i], b, at)
  PROVE  Prolongs(s, [s EXCEPT !.instances[i] = b], at)
<1> DEFINE new == [s.instances EXCEPT ![i] = b]
<1>1. s.instances \in Seq(Instances)
  BY DEF States
<1>2. /\ new \in Seq(Instances) /\ Len(new) = Len(s.instances) /\ new[i] = b
      /\ \A j \in DOMAIN s.instances : j # i => new[j] = s.instances[j]
  BY <1>1
<1>3. \A j \in DOMAIN s.instances : Ages(s.instances[j], s.instances[j], at)
  BY DEF Ages
<1>4. \A j \in DOMAIN s.instances : Ages(s.instances[j], new[j], at)
  BY <1>2, <1>3
<1>5. [s EXCEPT !.instances[i] = b] = [s EXCEPT !.instances = new]
  BY DEF States
<1> HIDE DEF new
<1> QED BY <1>2, <1>4, <1>5, ProlongedBy

LEMMA ProlongTwice ==
  ASSUME NEW s, NEW r, NEW u, NEW at, Prolongs(s, r, at), Prolongs(r, u, at)
  PROVE  Prolongs(s, u, at)
BY DEF Prolongs, Ages

\* A live tag's instance, and each way to change it.
LEMMA InstanceOf ==
  ASSUME NEW s \in States, NEW tag, Alive(s, tag)
  PROVE  /\ s.names[tag] \in DOMAIN s.instances /\ Current(s, tag) = s.instances[s.names[tag]]
         /\ Current(s, tag) \in Instances /\ tag \in Tags
BY DEF States, Alive, Current

LEMMA ExtendedProlongs ==
  ASSUME NEW s \in States, NEW tag, NEW at \in Nat, Alive(s, tag)
  PROVE  Prolongs(s, Extended(s, tag, at), at)
<1> DEFINE i == s.names[tag]
           a == s.instances[i]
           b == [a EXCEPT !.end = at]
<1>1. i \in DOMAIN s.instances /\ a \in Instances
  BY InstanceOf
<1>2. b \in Instances /\ Ages(a, b, at)
  BY <1>1 DEF Instances, Ages
<1>3. Extended(s, tag, at) = [s EXCEPT !.instances[i] = b]
  BY DEF Extended
<1> HIDE DEF i, b
<1> QED BY <1>1, <1>2, <1>3, OneProlonged

LEMMA UsedProlongs ==
  ASSUME NEW s \in States, NEW tag, NEW at \in Nat, NEW change \in Int, Alive(s, tag)
  PROVE  /\ Prolongs(s, Used(s, tag, at, change), at)
         /\ Used(s, tag, at, change).instances[s.names[tag]].touched
         /\ Used(s, tag, at, change).instances[s.names[tag]].end = at
<1> DEFINE i == s.names[tag]
           a == s.instances[i]
           b == [a EXCEPT !.touched = TRUE, !.end = at, !.open = a.open + change]
<1>1. i \in DOMAIN s.instances /\ a \in Instances
  BY InstanceOf
<1>2. b \in Instances /\ Ages(a, b, at) /\ b.touched /\ b.end = at
  <2>1. a.open + change \in Int
    BY <1>1 DEF Instances
  <2> DEFINE n == a.open + change
  <2> HIDE DEF a, n
  <2> QED BY <1>1, <2>1 DEF Instances, Ages, n
<1>3. Used(s, tag, at, change) = [s EXCEPT !.instances[i] = b]
  BY DEF Used, Current
<1>4. [s EXCEPT !.instances[i] = b].instances[i] = b
  BY <1>1 DEF States
<1> HIDE DEF i, b
<1>5. Prolongs(s, [s EXCEPT !.instances[i] = b], at)
  BY <1>1, <1>2, OneProlonged
<1> QED BY <1>2, <1>3, <1>4, <1>5 DEF i

LEMMA SwappedOutProlongs ==
  ASSUME NEW s \in States, NEW tag, NEW at \in Nat, Alive(s, tag)
  PROVE  Prolongs(s, SwappedOut(s, tag, at), at)
<1> DEFINE r == Extended(s, tag, at)
           i == s.names[tag]
           a == r.instances[i]
           b == [a EXCEPT !.shared = FALSE]
<1>1. Prolongs(s, r, at) /\ r \in States
  BY ExtendedProlongs DEF Prolongs
<1>2. i \in DOMAIN r.instances /\ a \in Instances
  BY <1>1, InstanceOf DEF Prolongs, States
<1>3. b \in Instances /\ Ages(a, b, at)
  BY <1>2 DEF Instances, Ages
<1>4. SwappedOut(s, tag, at) = [r EXCEPT !.instances[i] = b]
  BY DEF SwappedOut
<1> HIDE DEF i, b, r
<1>5. Prolongs(r, [r EXCEPT !.instances[i] = b], at)
  BY <1>1, <1>2, <1>3, OneProlonged
<1> QED BY <1>1, <1>4, <1>5, ProlongTwice

LEMMA OpenUsesProlong ==
  ASSUME NEW s \in States, NEW at \in Nat
  PROVE  Prolongs(s, OpenUsesExtended(s, at), at)
<1> DEFINE new == [i \in DOMAIN s.instances |->
                     IF s.instances[i].open # 0 THEN [s.instances[i] EXCEPT !.end = at]
                     ELSE s.instances[i]]
<1>1. s.instances \in Seq(Instances)
  BY DEF States
<1>2. ASSUME NEW i \in DOMAIN s.instances
      PROVE  new[i] \in Instances /\ Ages(s.instances[i], new[i], at)
  <2>1. s.instances[i] \in Instances
    BY <1>1
  <2> QED BY <2>1 DEF Instances, Ages
<1>3. new \in Seq(Instances) /\ Len(new) = Len(s.instances)
  <2>1. Len(s.instances) \in Nat /\ DOMAIN s.instances = 1 .. Len(s.instances)
    BY <1>1
  <2>2. new \in [1 .. Len(s.instances) -> Instances]
    BY <1>2, <2>1
  <2> HIDE DEF new
  <2> QED BY <2>1, <2>2
<1>4. OpenUsesExtended(s, at) = [s EXCEPT !.instances = new]
  BY DEF OpenUsesExtended
<1> HIDE DEF new
<1> QED BY <1>2, <1>3, <1>4, ProlongedBy

\* What was logged at a time: the last event about a tag says what it names.
News(s, r, tag) == {e \in DOMAIN r.events : e > Len(s.events) /\ r.events[e].tag = tag}
Logs(s, r, at) ==
  /\ Len(s.events) <= Len(r.events)
  /\ \A e \in DOMAIN s.events : r.events[e] = s.events[e]
  /\ \A e \in DOMAIN r.events : e > Len(s.events) => r.events[e].at = at
  /\ \A tag \in Tags :
       \/ News(s, r, tag) = {} /\ NameAt(r, tag) = NameAt(s, tag)
       \/ \E e \in News(s, r, tag) : /\ \A d \in News(s, r, tag) : d <= e
                                     /\ r.events[e].instance = NameAt(r, tag)

LEMMA LogTwice ==
  ASSUME NEW s \in States, NEW r \in States, NEW u \in States, NEW at,
         Logs(s, r, at), Logs(r, u, at)
  PROVE  Logs(s, u, at)
<1>1. /\ Len(s.events) \in Nat /\ DOMAIN s.events = 1 .. Len(s.events)
      /\ Len(r.events) \in Nat /\ DOMAIN r.events = 1 .. Len(r.events)
      /\ Len(u.events) \in Nat /\ DOMAIN u.events = 1 .. Len(u.events)
  BY DEF States
<1>2. /\ Len(s.events) <= Len(r.events) /\ Len(r.events) <= Len(u.events)
      /\ \A e \in DOMAIN s.events : r.events[e] = s.events[e]
      /\ \A e \in DOMAIN r.events : u.events[e] = r.events[e]
      /\ \A e \in DOMAIN r.events : e > Len(s.events) => r.events[e].at = at
      /\ \A e \in DOMAIN u.events : e > Len(r.events) => u.events[e].at = at
  BY DEF Logs
<1>3. /\ Len(s.events) <= Len(u.events)
      /\ \A e \in DOMAIN s.events : u.events[e] = s.events[e]
      /\ \A e \in DOMAIN u.events : e > Len(s.events) => u.events[e].at = at
  BY <1>1, <1>2
<1>4. ASSUME NEW tag \in Tags
      PROVE  \/ News(s, u, tag) = {} /\ NameAt(u, tag) = NameAt(s, tag)
             \/ \E e \in News(s, u, tag) : /\ \A d \in News(s, u, tag) : d <= e
                                           /\ u.events[e].instance = NameAt(u, tag)
  <2>1. News(s, u, tag) = News(s, r, tag) \cup News(r, u, tag)
    BY <1>1, <1>2 DEF News
  <2>2. \A d \in News(s, r, tag), e \in News(r, u, tag) : d <= e
    BY <1>1 DEF News
  <2>3. CASE \E e \in News(r, u, tag) : /\ \A d \in News(r, u, tag) : d <= e
                                        /\ u.events[e].instance = NameAt(u, tag)
    BY <2>1, <2>2, <2>3
  <2>4. CASE News(r, u, tag) = {} /\ NameAt(u, tag) = NameAt(r, tag)
    <3>1. CASE News(s, r, tag) = {} /\ NameAt(r, tag) = NameAt(s, tag)
      BY <2>1, <2>4, <3>1
    <3>2. CASE \E e \in News(s, r, tag) : /\ \A d \in News(s, r, tag) : d <= e
                                          /\ r.events[e].instance = NameAt(r, tag)
      <4>1. \A e \in News(s, r, tag) : u.events[e] = r.events[e]
        BY <1>2 DEF News
      <4> QED BY <2>1, <2>4, <3>2, <4>1
    <3> QED BY <3>1, <3>2 DEF Logs
  <2> QED BY <2>3, <2>4 DEF Logs
<1> QED BY <1>3, <1>4 DEF Logs

LEMMA ProlongingLogsNothing ==
  ASSUME NEW s \in States, NEW r, NEW at, Prolongs(s, r, at)
  PROVE  Logs(s, r, at) /\ \A tag : NameAt(r, tag) = NameAt(s, tag)
<1>1. r.names = s.names /\ r.events = s.events
  BY DEF Prolongs
<1>2. Len(s.events) \in Nat /\ DOMAIN s.events = 1 .. Len(s.events)
  BY DEF States
<1>3. \A tag : NameAt(r, tag) = NameAt(s, tag)
  BY <1>1 DEF NameAt
<1>4. \A tag : News(s, r, tag) = {}
  BY <1>1, <1>2 DEF News
<1> QED BY <1>1, <1>2, <1>3, <1>4 DEF Logs

\* An event at the end of the log.
LEMMA OneEvent ==
  ASSUME NEW s \in States, NEW r \in States, NEW at \in Nat, NEW tag \in Tags, NEW i \in Nat,
         r.events = Append(s.events, [tag |-> tag, at |-> at, instance |-> i]),
         \A t \in Tags : NameAt(r, t) = IF t = tag THEN i ELSE NameAt(s, t)
  PROVE  Logs(s, r, at)
<1> DEFINE n == Len(s.events)
           e == [tag |-> tag, at |-> at, instance |-> i]
<1>1. n \in Nat /\ DOMAIN s.events = 1 .. n /\ s.events \in Seq(Events)
  BY DEF States
<1>2. e.tag = tag /\ e.at = at /\ e.instance = i
  OBVIOUS
<1> HIDE DEF n, e
<1>3. /\ DOMAIN r.events = 1 .. n + 1 /\ Len(r.events) = n + 1 /\ r.events[n + 1] = e
      /\ \A d \in 1 .. n : r.events[d] = s.events[d]
  BY <1>1 DEF e, n
<1>4. News(s, r, tag) = {n + 1} /\ \A t : t # tag => News(s, r, t) = {}
  BY <1>1, <1>2, <1>3 DEF News, n
<1>5. \A d \in DOMAIN r.events : d > n => r.events[d].at = at
  BY <1>1, <1>2, <1>3
<1> QED BY <1>1, <1>2, <1>3, <1>4, <1>5 DEF Logs, n

LEMMA RenamedFacts ==
  ASSUME NEW s \in States, NEW tag \in Tags, NEW i \in DOMAIN s.instances, NEW at \in Nat
  PROVE  LET r == Renamed(s, tag, i, at)
         IN  /\ r \in States /\ r.instances = s.instances /\ r.ok = s.ok /\ Logs(s, r, at)
             /\ \A t : NameAt(r, t) = IF t = tag THEN i ELSE NameAt(s, t)
             /\ \A t : Alive(s, t) => Alive(r, t)
<1> DEFINE r == Renamed(s, tag, i, at)
           e == [tag |-> tag, at |-> at, instance |-> i]
           names == [t \in DOMAIN s.names \cup {tag} |-> IF t = tag THEN i ELSE s.names[t]]
<1>1. /\ s.instances \in Seq(Instances) /\ s.events \in Seq(Events) /\ i \in Nat
      /\ DOMAIN s.names \in SUBSET Tags /\ s.names \in [DOMAIN s.names -> Nat]
      /\ \A t \in DOMAIN s.names : s.names[t] \in DOMAIN s.instances
  BY DEF States
<1>2. e \in Events /\ Append(s.events, e) \in Seq(Events)
  BY <1>1 DEF Events
<1>3. r = [s EXCEPT !.names = names, !.events = Append(s.events, e)]
  BY DEF Renamed
<1>4. /\ r.names = names /\ r.events = Append(s.events, e) /\ r.instances = s.instances
      /\ r.ok = s.ok
  BY <1>3 DEF States
<1>5. DOMAIN names \in SUBSET Tags /\ names \in [DOMAIN names -> Nat]
  BY <1>1
<1>6. r \in States
  <2>1. \A t \in DOMAIN names : names[t] \in DOMAIN s.instances
    BY <1>1
  <2>2. names \in UNION {[D -> Nat] : D \in SUBSET Tags}
    BY <1>5
  <2> HIDE DEF names, e
  <2> QED BY <1>2, <1>3, <2>1, <2>2 DEF States
<1>7. \A t : NameAt(r, t) = IF t = tag THEN i ELSE NameAt(s, t)
  BY <1>4 DEF NameAt
<1>8. \A t : Alive(s, t) => Alive(r, t)
  BY <1>4 DEF Alive
<1>9. Logs(s, r, at)
  <2> HIDE DEF r
  <2> QED BY <1>1, <1>4, <1>6, <1>7, OneEvent
<1> QED BY <1>4, <1>6, <1>7, <1>8, <1>9

\* An instance as a request brings it in.
Fresh(a, at) ==
  /\ a \in Instances /\ a.start = at /\ a.end = at /\ (a.shared => a.source = "owned")

\* A declaration over a state that may have been prolonged before.
LEMMA DeclaredFacts ==
  ASSUME NEW s \in States, NEW p, NEW at \in Nat, Prolongs(s, p, at),
         NEW tag \in Tags, NEW a, Fresh(a, at)
  PROVE  LET r == Declared(p, tag, a)
             n == Len(s.instances) + 1
         IN  /\ r \in States /\ r.ok = s.ok /\ Logs(s, r, at)
             /\ Len(r.instances) = n /\ r.instances[n] = a
             /\ \A i \in DOMAIN s.instances : Ages(s.instances[i], r.instances[i], at)
             /\ \A t : NameAt(r, t) = IF t = tag THEN n ELSE NameAt(s, t)
<1> DEFINE n == Len(s.instances) + 1
           u == [p EXCEPT !.instances = Append(p.instances, a)]
           r == Declared(p, tag, a)
<1>1. /\ p \in States /\ p.names = s.names /\ p.events = s.events /\ p.ok = s.ok
      /\ Len(p.instances) = Len(s.instances)
      /\ \A i \in DOMAIN s.instances : Ages(s.instances[i], p.instances[i], at)
      /\ a \in Instances /\ a.start = at
  BY DEF Prolongs, Fresh
<1>2. /\ p.instances \in Seq(Instances) /\ s.instances \in Seq(Instances)
      /\ Len(s.instances) \in Nat /\ DOMAIN s.instances = 1 .. Len(s.instances)
      /\ DOMAIN p.instances = DOMAIN s.instances /\ s.events \in Seq(Events)
  BY <1>1 DEF States
<1>3. /\ u.names = s.names /\ u.events = s.events /\ u.ok = s.ok
      /\ u.instances = Append(p.instances, a)
  BY <1>1 DEF States
<1>4. /\ Len(u.instances) = n /\ u.instances[n] = a /\ DOMAIN u.instances = 1 .. n
      /\ u.instances \in Seq(Instances)
      /\ \A i \in DOMAIN s.instances : u.instances[i] = p.instances[i]
  BY <1>1, <1>2, <1>3
<1>5. u \in States
  <2>1. \A t \in DOMAIN s.names : s.names[t] \in DOMAIN u.instances
    BY <1>2, <1>4 DEF States
  <2>2. Append(p.instances, a) \in Seq(Instances)
    BY <1>1, <1>2
  <2> QED BY <1>1, <1>3, <2>1, <2>2 DEF States
<1>6. r = Renamed(u, tag, n, at)
  BY <1>1 DEF Declared
<1> HIDE DEF u, r
<1>7. /\ r \in States /\ r.instances = u.instances /\ r.ok = u.ok /\ Logs(u, r, at)
      /\ \A t : NameAt(r, t) = IF t = tag THEN n ELSE NameAt(u, t)
  <2>1. n \in DOMAIN u.instances
    BY <1>2, <1>4
  <2> QED BY <1>5, <1>6, <2>1, RenamedFacts
<1>8. \A t : NameAt(u, t) = NameAt(s, t)
  BY <1>3 DEF NameAt
<1>9. Logs(s, r, at)
  BY <1>3, <1>7, <1>8 DEF Logs, News
<1> QED BY <1>1, <1>3, <1>4, <1>7, <1>8, <1>9 DEF r

LEMMA FreedFacts ==
  ASSUME NEW s \in States, NEW at \in Nat, NEW tag \in Tags, Alive(s, tag)
  PROVE  LET r == Freed(s, tag, at)
         IN  /\ r \in States /\ r.ok = s.ok /\ Logs(s, r, at)
             /\ Len(r.instances) = Len(s.instances)
             /\ \A i \in DOMAIN s.instances : Ages(s.instances[i], r.instances[i], at)
             /\ \A t : NameAt(r, t) = IF t = tag THEN NoInstance ELSE NameAt(s, t)
<1> DEFINE p == Extended(s, tag, at)
           r == Freed(s, tag, at)
           e == [tag |-> tag, at |-> at, instance |-> NoInstance]
           names == [t \in DOMAIN p.names \ {tag} |-> p.names[t]]
<1>1. Prolongs(s, p, at)
  BY ExtendedProlongs
<1>2. r = [p EXCEPT !.names = names, !.events = Append(p.events, e)]
  BY DEF Freed
<1> HIDE DEF p, r
<1>3. /\ p \in States /\ p.names = s.names /\ p.events = s.events /\ p.ok = s.ok
      /\ Len(p.instances) = Len(s.instances)
      /\ \A i \in DOMAIN s.instances : Ages(s.instances[i], p.instances[i], at)
  BY <1>1 DEF Prolongs
<1>4. /\ p.events \in Seq(Events) /\ DOMAIN p.names \in SUBSET Tags
      /\ p.names \in [DOMAIN p.names -> Nat]
      /\ \A t \in DOMAIN p.names : p.names[t] \in DOMAIN p.instances
  BY <1>3 DEF States
<1>5. Append(p.events, e) \in Seq(Events)
  BY <1>4 DEF Events, NoInstance
<1>6. /\ r.names = names /\ r.events = Append(p.events, e) /\ r.instances = p.instances
      /\ r.ok = p.ok
  BY <1>2, <1>3 DEF States
<1>7. r \in States
  <2>1. names \in UNION {[D -> Nat] : D \in SUBSET Tags}
    <3>1. DOMAIN names \in SUBSET Tags /\ names \in [DOMAIN names -> Nat]
      BY <1>4
    <3> QED BY <3>1
  <2>2. \A t \in DOMAIN names : names[t] \in DOMAIN p.instances
    BY <1>4
  <2> HIDE DEF names, e
  <2> QED BY <1>2, <1>3, <1>5, <2>1, <2>2 DEF States
<1>8. \A t : NameAt(r, t) = IF t = tag THEN NoInstance ELSE NameAt(s, t)
  BY <1>3, <1>6 DEF NameAt
<1>9. Logs(s, r, at)
  BY <1>3, <1>6, <1>7, <1>8, OneEvent DEF NoInstance
<1> QED BY <1>3, <1>6, <1>7, <1>8, <1>9 DEF r

LEMMA SwappedFacts ==
  ASSUME NEW s \in States, NEW at \in Nat, NEW a \in Tags, NEW b \in Tags,
         Alive(s, a), Alive(s, b)
  PROVE  LET r == Swapped(s, a, b, at)
         IN  /\ r \in States /\ r.ok = s.ok /\ Logs(s, r, at)
             /\ Len(r.instances) = Len(s.instances)
             /\ \A i \in DOMAIN s.instances : Ages(s.instances[i], r.instances[i], at)
             /\ \A t : NameAt(r, t) = IF t = a THEN NameAt(s, b)
                                      ELSE IF t = b THEN NameAt(s, a) ELSE NameAt(s, t)
<1> DEFINE p == Extended(s, a, at)
           u == Extended(p, b, at)
           v == Renamed(u, a, s.names[b], at)
           r == Swapped(s, a, b, at)
<1>1. Prolongs(s, p, at)
  BY ExtendedProlongs
<1>2. p \in States /\ p.names = s.names /\ Alive(p, b)
  BY <1>1 DEF Prolongs, Alive
<1>3. Prolongs(p, u, at)
  <2> HIDE DEF p
  <2> QED BY <1>2, ExtendedProlongs
<1>4. Prolongs(s, u, at)
  <2> HIDE DEF p, u
  <2> QED BY <1>1, <1>3, ProlongTwice
<1>5. r = Renamed(v, b, s.names[a], at)
  BY DEF Swapped
<1> HIDE DEF p, u
<1>6. /\ u \in States /\ u.ok = s.ok /\ Len(u.instances) = Len(s.instances)
      /\ \A i \in DOMAIN s.instances : Ages(s.instances[i], u.instances[i], at)
      /\ DOMAIN u.instances = DOMAIN s.instances
  BY <1>4 DEF Prolongs, States
<1>7. Logs(s, u, at) /\ \A t : NameAt(u, t) = NameAt(s, t)
  BY <1>4, ProlongingLogsNothing
<1>8. /\ s.names[a] \in DOMAIN s.instances /\ s.names[b] \in DOMAIN s.instances
      /\ NameAt(s, a) = s.names[a] /\ NameAt(s, b) = s.names[b]
  BY InstanceOf DEF NameAt, Alive
<1>9. /\ v \in States /\ v.instances = u.instances /\ v.ok = u.ok /\ Logs(u, v, at)
      /\ \A t : NameAt(v, t) = IF t = a THEN s.names[b] ELSE NameAt(u, t)
  BY <1>6, <1>8, RenamedFacts
<1> HIDE DEF v, r
<1>10. /\ r \in States /\ r.instances = v.instances /\ r.ok = v.ok /\ Logs(v, r, at)
       /\ \A t : NameAt(r, t) = IF t = b THEN s.names[a] ELSE NameAt(v, t)
  BY <1>5, <1>6, <1>8, <1>9, RenamedFacts
<1>11. Logs(s, v, at)
  BY <1>6, <1>7, <1>9, LogTwice
<1>12. Logs(s, r, at)
  BY <1>9, <1>10, <1>11, LogTwice
<1> QED BY <1>6, <1>7, <1>8, <1>9, <1>10, <1>12 DEF r

\* What a tag names after a request; n is the number a new instance gets.
AfterName(s, q, n, tag) ==
  IF Makes(q, tag) THEN n
  ELSE IF q.kind = "free" /\ q.tag = tag THEN NoInstance
  ELSE IF q.kind = "swap" /\ q.tag = tag THEN NameAt(s, q.other)
  ELSE IF q.kind = "swap" /\ q.other = tag THEN NameAt(s, q.tag)
  ELSE NameAt(s, tag)

Follows(s, r, q, at) ==
  /\ r \in States /\ r.ok = s.ok /\ Logs(s, r, at)
  /\ \/ Len(r.instances) = Len(s.instances) /\ \A tag \in Tags : ~Makes(q, tag)
     \/ /\ Len(r.instances) = Len(s.instances) + 1
        /\ Fresh(r.instances[Len(s.instances) + 1], at)
  /\ \A i \in DOMAIN s.instances : Ages(s.instances[i], r.instances[i], at)
  /\ \A tag \in Tags : NameAt(r, tag) = AfterName(s, q, Len(s.instances) + 1, tag)
  /\ q.kind \in {"useBegin", "useEnd"} =>
       /\ NameAt(s, q.tag) \in DOMAIN s.instances
       /\ r.instances[NameAt(s, q.tag)].touched /\ r.instances[NameAt(s, q.tag)].end = at

LEMMA RequestFields ==
  ASSUME NEW q \in Recorded
  PROVE  /\ q.tag \in Tags
         /\ q.kind \in {"declare", "import", "swapExternal"} => q.desc \in Desc
         /\ q.kind \in {"import", "swapExternal"} =>
              q.external \in Externals /\ q.external \in Owners /\ q.external # "owned"
         /\ q.kind \in {"declareLike", "swap"} => q.other \in Tags
         /\ q.kind \in {"useBegin", "useEnd", "free", "queue", "isDeclared", "decision", "declare",
                        "declareLike", "swap", "import", "swapExternal"}
BY ExternalsAssumption DEF Recorded, Asks, Owners

LEMMA NewInstance ==
  ASSUME NEW desc \in Desc, NEW at \in Nat, NEW source \in Owners
  PROVE  Fresh(Instance(desc, at, source), at)
<1> DEFINE touched == source # "owned"
           shared == source = "owned"
           a == [desc |-> desc, start |-> at, end |-> at, source |-> source,
                 touched |-> touched, shared |-> shared, open |-> 0]
<1>1. touched \in BOOLEAN /\ shared \in BOOLEAN /\ (shared => source = "owned")
  OBVIOUS
<1>2. Instance(desc, at, source) = a
  BY DEF Instance
<1> HIDE DEF touched, shared
<1>3. a \in Instances
  BY <1>1 DEF Instances
<1>4. a.start = at /\ a.end = at /\ a.source = source /\ a.shared = shared
  OBVIOUS
<1> HIDE DEF a
<1> QED BY <1>1, <1>2, <1>3, <1>4 DEF Fresh

\* Each request that is not refused.
LEMMA HandledFacts ==
  ASSUME NEW s \in States, NEW q \in Recorded, NEW at \in Nat, ~Refuses(s, q)
  PROVE  Follows(s, Handled(s, q, at), q, at)
<1> DEFINE r == Handled(s, q, at)
           n == Len(s.instances) + 1
<1>0. /\ Len(s.instances) \in Nat /\ DOMAIN s.instances = 1 .. Len(s.instances)
      /\ n # Len(s.instances)
  BY DEF States
<1>1. q.tag \in Tags
  BY RequestFields
<1>2. ASSUME q.kind \in {"declare", "declareLike", "import"}
      PROVE  Follows(s, r, q, at)
  <2>1. PICK a : Fresh(a, at) /\ r = Declared(s, q.tag, a)
    <3>1. CASE q.kind = "declare"
      BY <3>1, RequestFields, NewInstance DEF Handled, Owners
    <3>2. CASE q.kind = "declareLike"
      <4>1. Current(s, q.other).desc \in Desc
        BY <3>2, RequestFields, InstanceOf DEF Refuses, Instances
      <4> QED BY <3>2, <4>1, NewInstance DEF Handled, Owners
    <3>3. CASE q.kind = "import"
      BY <3>3, RequestFields, NewInstance DEF Handled
    <3> QED BY <1>2, <3>1, <3>2, <3>3
  <2>2. Prolongs(s, s, at)
    BY DEF Prolongs, Ages
  <2> HIDE DEF r
  <2>3. /\ r \in States /\ r.ok = s.ok /\ Logs(s, r, at)
        /\ Len(r.instances) = n /\ r.instances[n] = a
        /\ \A i \in DOMAIN s.instances : Ages(s.instances[i], r.instances[i], at)
        /\ \A t : NameAt(r, t) = IF t = q.tag THEN n ELSE NameAt(s, t)
    BY <1>1, <2>1, <2>2, DeclaredFacts
  <2>4. \A t : AfterName(s, q, n, t) = IF t = q.tag THEN n ELSE NameAt(s, t)
    BY <1>2 DEF AfterName, Makes
  <2> QED BY <1>2, <2>1, <2>3, <2>4 DEF Follows
<1>3. ASSUME q.kind = "swapExternal"
      PROVE  Follows(s, r, q, at)
  <2> DEFINE a == Instance(q.desc, at, q.external)
             p == SwappedOut(s, q.tag, at)
  <2>1. Fresh(a, at) /\ r = Declared(p, q.tag, a)
    BY <1>3, RequestFields, NewInstance DEF Handled
  <2>2. Prolongs(s, p, at)
    BY <1>3, SwappedOutProlongs DEF Refuses
  <2> HIDE DEF r, p, a
  <2>3. /\ r \in States /\ r.ok = s.ok /\ Logs(s, r, at)
        /\ Len(r.instances) = n /\ r.instances[n] = a
        /\ \A i \in DOMAIN s.instances : Ages(s.instances[i], r.instances[i], at)
        /\ \A t : NameAt(r, t) = IF t = q.tag THEN n ELSE NameAt(s, t)
    BY <1>1, <2>1, <2>2, DeclaredFacts
  <2>4. \A t : AfterName(s, q, n, t) = IF t = q.tag THEN n ELSE NameAt(s, t)
    BY <1>3 DEF AfterName, Makes
  <2> QED BY <1>3, <2>1, <2>3, <2>4 DEF Follows
<1>4. ASSUME q.kind = "free"
      PROVE  Follows(s, r, q, at)
  <2>1. r = Freed(s, q.tag, at) /\ Alive(s, q.tag)
    BY <1>4 DEF Handled, Refuses
  <2> HIDE DEF r
  <2>2. /\ r \in States /\ r.ok = s.ok /\ Logs(s, r, at)
        /\ Len(r.instances) = Len(s.instances)
        /\ \A i \in DOMAIN s.instances : Ages(s.instances[i], r.instances[i], at)
        /\ \A t : NameAt(r, t) = IF t = q.tag THEN NoInstance ELSE NameAt(s, t)
    BY <1>1, <2>1, FreedFacts
  <2>3. \A t : /\ ~Makes(q, t)
               /\ AfterName(s, q, n, t) = IF t = q.tag THEN NoInstance ELSE NameAt(s, t)
    BY <1>4 DEF AfterName, Makes
  <2> QED BY <1>4, <2>2, <2>3 DEF Follows
<1>5. ASSUME q.kind = "swap"
      PROVE  Follows(s, r, q, at)
  <2>1. /\ r = Swapped(s, q.tag, q.other, at) /\ Alive(s, q.tag) /\ Alive(s, q.other)
        /\ q.other \in Tags
    BY <1>5, RequestFields DEF Handled, Refuses
  <2> HIDE DEF r
  <2>2. /\ r \in States /\ r.ok = s.ok /\ Logs(s, r, at)
        /\ Len(r.instances) = Len(s.instances)
        /\ \A i \in DOMAIN s.instances : Ages(s.instances[i], r.instances[i], at)
        /\ \A t : NameAt(r, t) = IF t = q.tag THEN NameAt(s, q.other)
                                 ELSE IF t = q.other THEN NameAt(s, q.tag) ELSE NameAt(s, t)
    BY <1>1, <2>1, SwappedFacts
  <2>3. \A t : /\ ~Makes(q, t)
               /\ AfterName(s, q, n, t) = IF t = q.tag THEN NameAt(s, q.other)
                                          ELSE IF t = q.other THEN NameAt(s, q.tag)
                                          ELSE NameAt(s, t)
    BY <1>5 DEF AfterName, Makes
  <2> QED BY <1>5, <2>2, <2>3 DEF Follows
<1>6. ASSUME q.kind \in {"useBegin", "useEnd", "queue", "isDeclared", "decision"}
      PROVE  Follows(s, r, q, at)
  <2>1. /\ Prolongs(s, r, at)
        /\ q.kind \in {"useBegin", "useEnd"} =>
             /\ NameAt(s, q.tag) \in DOMAIN s.instances
             /\ r.instances[NameAt(s, q.tag)].touched /\ r.instances[NameAt(s, q.tag)].end = at
    <3>1. CASE q.kind \in {"useBegin", "useEnd"}
      <4>1. Alive(s, q.tag)
        BY <3>1 DEF Refuses
      <4>2. NameAt(s, q.tag) = s.names[q.tag] /\ s.names[q.tag] \in DOMAIN s.instances
        BY <4>1, InstanceOf DEF NameAt, Alive
      <4>3. \E change \in Int : r = Used(s, q.tag, at, change)
        BY <3>1 DEF Handled
      <4> HIDE DEF r
      <4> QED BY <4>1, <4>2, <4>3, UsedProlongs
    <3>2. CASE q.kind = "queue"
      <4>1. r = OpenUsesExtended(s, at)
        BY <3>2 DEF Handled
      <4> HIDE DEF r
      <4> QED BY <3>2, <4>1, OpenUsesProlong
    <3>3. CASE q.kind \in {"isDeclared", "decision"}
      <4>1. r = s
        BY <3>3 DEF Handled
      <4> HIDE DEF r
      <4> QED BY <3>3, <4>1 DEF Prolongs, Ages
    <3> QED BY <1>6, <3>1, <3>2, <3>3
  <2> HIDE DEF r
  <2>2. Logs(s, r, at) /\ \A t : NameAt(r, t) = NameAt(s, t)
    BY <2>1, ProlongingLogsNothing
  <2>3. \A t : ~Makes(q, t) /\ AfterName(s, q, n, t) = NameAt(s, t)
    BY <1>6 DEF AfterName, Makes
  <2> QED BY <2>1, <2>2, <2>3 DEF Follows, Prolongs
<1> QED BY <1>2, <1>3, <1>4, <1>5, <1>6, RequestFields

-----------------------------------------------------------------------------
(* The solver: all its requests *)

SolveStep(T, s, at) ==
  IF ~s.ok \/ Refuses(s, T[at]) THEN [s EXCEPT !.ok = FALSE] ELSE Handled(s, T[at], at)

LEMMA UnsolvedState == Unsolved \in States
<1> DEFINE names == [t \in {} |-> NoInstance]
<1>1. DOMAIN names = {} /\ names \in [{} -> Nat]
  OBVIOUS
<1>2. names \in UNION {[D -> Nat] : D \in SUBSET Tags}
  BY <1>1
<1>3. Unsolved = [names |-> names, instances |-> <<>>, events |-> <<>>, ok |-> TRUE]
  BY DEF Unsolved
<1> HIDE DEF names
<1>4. <<>> \in Seq(Instances) /\ <<>> \in Seq(Events)
  OBVIOUS
<1> QED BY <1>1, <1>2, <1>3, <1>4 DEF States

LEMMA StepState ==
  ASSUME NEW T \in Seq(Recorded), NEW s \in States, NEW at \in 1 .. Len(T)
  PROVE  SolveStep(T, s, at) \in States
<1>1. [s EXCEPT !.ok = FALSE] \in States
  <2> DEFINE r == [s EXCEPT !.ok = FALSE]
  <2>1. r.names = s.names /\ r.instances = s.instances
    BY DEF States
  <2> QED BY <2>1 DEF States
<1>2. T[at] \in Recorded /\ at \in Nat
  OBVIOUS
<1>3. ~Refuses(s, T[at]) => Handled(s, T[at], at) \in States
  BY <1>2, HandledFacts DEF Follows
<1> QED BY <1>1, <1>3 DEF SolveStep

\* The states the solver goes through.
SolverRun(T, S) ==
  /\ S \in [0 .. Len(T) -> States] /\ S[0] = Unsolved
  /\ \A k \in 1 .. Len(T) : S[k] = SolveStep(T, S[k - 1], k)

LEMMA SolverStates ==
  ASSUME NEW T \in Seq(Recorded)
  PROVE  \E S : SolverRun(T, S) /\ Solve(T) = S[Len(T)]
<1> DEFINE n == Len(T)
           one(s, at) == IF ~s.ok \/ Refuses(s, T[at]) THEN [s EXCEPT !.ok = FALSE]
                         ELSE Handled(s, T[at], at)
           h == [k \in 1 .. n |-> [s \in States |-> one(s, k)]]
           positions == [i \in DOMAIN T |-> i]
           It == CHOOSE f : f = [r \in SUBSET (1 .. n) |->
                   IF r = {} THEN Unsolved ELSE one(f[r \ {Max(r)}], positions[Max(r)])]
<1>1. n \in Nat /\ DOMAIN T = 1 .. n /\ \A k \in 1 .. n : positions[k] = k
  OBVIOUS
<1>2. \A s, k : one(s, k) = SolveStep(T, s, k)
  BY DEF SolveStep
<1> HIDE DEF one
<1>3. h \in [1 .. n -> [States -> States]]
  BY <1>2, StepState
<1>4. \A k \in 1 .. n, s \in States : h[k][s] = one(s, k)
  OBVIOUS
<1> HIDE DEF h
<1>5. PICK g : FoldEquation(States, Unsolved, h, n, g)
  BY <1>1, <1>3, UnsolvedState, FoldExists
<1>6. g = [r \in SUBSET (1 .. n) |->
             IF r = {} THEN Unsolved ELSE one(g[r \ {Max(r)}], positions[Max(r)])]
  <2>1. ASSUME NEW r \in SUBSET (1 .. n), r # {}
        PROVE  g[r] = one(g[r \ {Max(r)}], positions[Max(r)])
    <3>1. Max(r) \in 1 .. n
      BY <1>1, <2>1, MaxFacts
    <3>2. g[r \ {Max(r)}] \in States /\ g[r] = h[Max(r)][g[r \ {Max(r)}]]
      BY <1>5, <2>1 DEF FoldEquation
    <3> QED BY <1>1, <1>4, <3>1, <3>2
  <2>2. g = [r \in SUBSET (1 .. n) |-> g[r]] /\ g[{}] = Unsolved
    BY <1>5 DEF FoldEquation
  <2> HIDE DEF positions
  <2> QED BY <2>1, <2>2
<1>7. It = [r \in SUBSET (1 .. n) |->
              IF r = {} THEN Unsolved ELSE one(It[r \ {Max(r)}], positions[Max(r)])]
  BY <1>6, Zenon
<1>8. Solve(T) = It[1 .. n]
  BY <1>1, Zenon DEF Solve, FoldLeftDomain, FoldLeft, MapThenFoldSet, one
<1> HIDE DEF It, positions
<1>9. It[{}] = Unsolved /\ \A k \in 1 .. n : It[1 .. k] = one(It[1 .. k-1], k)
  <2>1. \A k \in 1 .. n : k \in 1 .. k
    BY <1>1
  <2>2. {} \in SUBSET (1 .. n)
    OBVIOUS
  <2>3. \A k \in 1 .. n : 1 .. k \in SUBSET (1 .. n) /\ Max(1 .. k) = k /\ (1 .. k) \ {k} = 1 .. k-1
    BY <1>1, PrefixSets
  <2>4. \A k \in 1 .. n : positions[Max(1 .. k)] = k
    BY <1>1, <2>3
  <2>5. \A r \in SUBSET (1 .. n) : r # {} => It[r] = one(It[r \ {Max(r)}], positions[Max(r)])
    BY <1>7
  <2>6. \A k \in 1 .. n : 1 .. k # {}
    BY <2>1
  <2> QED BY <1>7, <2>2, <2>3, <2>4, <2>5, <2>6
<1> DEFINE S == [k \in 0 .. n |-> It[1 .. k]]
<1>10. /\ S[0] = Unsolved /\ S[n] = Solve(T)
       /\ \A k \in 1 .. n : S[k] = SolveStep(T, S[k - 1], k)
  <2>1. 1 .. 0 = {} /\ n \in 0 .. n /\ 0 \in 0 .. n
    BY <1>1
  <2>2. \A k \in 1 .. n : k \in 0 .. n /\ k - 1 \in 0 .. n
    BY <1>1
  <2> HIDE DEF n
  <2> QED BY <1>2, <1>8, <1>9, <2>1, <2>2
<1>11. ASSUME NEW k \in 0 .. n PROVE S[k] \in States
  <2> DEFINE D == {j \in Nat : j <= n => S[j] \in States}
  <2>1. 0 \in D
    BY <1>10, UnsolvedState
  <2>2. ASSUME NEW j \in D PROVE j + 1 \in D
    <3>1. SUFFICES ASSUME j + 1 <= n PROVE S[j + 1] \in States
      BY <2>2
    <3>2. j + 1 \in 1 .. n /\ (j + 1) - 1 = j /\ j <= n
      BY <1>1, <2>2, <3>1
    <3>3. S[j] \in States /\ S[j + 1] = SolveStep(T, S[j], j + 1)
      BY <1>10, <2>2, <3>2
    <3> HIDE DEF S
    <3> QED BY <3>2, <3>3, StepState
  <2> HIDE DEF S, D
  <2>3. D \subseteq Nat
    BY DEF D
  <2>4. D = Nat
    BY <2>1, <2>2, <2>3, Reached
  <2>5. k \in Nat /\ k <= n
    BY <1>1
  <2> QED BY <2>4, <2>5 DEF D
<1>12. SolverRun(T, S)
  <2>1. S \in [0 .. n -> States]
    BY <1>11
  <2> HIDE DEF S
  <2> QED BY <1>10, <2>1 DEF SolverRun
<1> QED BY <1>10, <1>12

-----------------------------------------------------------------------------
(* Who made what a tag names *)

MakerStep(v, q, n) ==
  [tag \in Tags |->
     IF Makes(q, tag) THEN n
     ELSE IF q.kind = "free" /\ q.tag = tag THEN 0
     ELSE IF q.kind = "swap" /\ q.tag = tag THEN v[q.other]
     ELSE IF q.kind = "swap" /\ q.other = tag THEN v[q.tag]
     ELSE v[tag]]

MakerRun(T, M) ==
  /\ M \in [0 .. Len(T) -> [Tags -> Nat]] /\ M[0] = [tag \in Tags |-> 0]
  /\ \A k \in 1 .. Len(T) : M[k] = MakerStep(M[k - 1], T[k], k)

LEMMA MakerStates ==
  ASSUME Timeline(streams) \in Seq(Recorded)
  PROVE  MakerRun(Timeline(streams), Maker)
<1> DEFINE T == Timeline(streams)
           N == Len(T)
           V == [Tags -> Nat]
           none == [tag \in Tags |-> 0]
           h == [k \in Nat |-> [v \in V |->
                   IF k + 1 <= N THEN MakerStep(v, T[k + 1], k + 1) ELSE v]]
           row(f, n) ==
             [tag \in Tags |->
                IF n = 0 THEN 0
                ELSE LET q == T[n]
                     IN  IF Makes(q, tag) THEN n
                         ELSE IF q.kind = "free" /\ q.tag = tag THEN 0
                         ELSE IF q.kind = "swap" /\ q.tag = tag THEN f[n - 1][q.other]
                         ELSE IF q.kind = "swap" /\ q.other = tag THEN f[n - 1][q.tag]
                         ELSE f[n - 1][tag]]
           It == CHOOSE f : f = [n \in 0 .. N |-> row(f, n)]
<1>1. T \in Seq(Recorded) /\ N \in Nat /\ DOMAIN T = 1 .. N /\ none \in V
  OBVIOUS
<1>2. Maker = It
  BY DEF Maker
<1> HIDE DEF T
<1>3. \A k \in 1 .. N : T[k] \in Recorded
  BY <1>1
<1> HIDE DEF N
<1>4. \A v \in V, k \in 1 .. N : MakerStep(v, T[k], k) \in V
  <2>1. SUFFICES ASSUME NEW v \in V, NEW k \in 1 .. N PROVE MakerStep(v, T[k], k) \in V
    OBVIOUS
  <2>2. T[k].tag \in Tags /\ (T[k].kind = "swap" => T[k].other \in Tags) /\ k \in Nat
    BY <1>3, RequestFields
  <2> QED BY <2>2 DEF MakerStep
<1>5. h \in [Nat -> [V -> V]]
  <2>1. \A k \in Nat : k + 1 <= N => k + 1 \in 1 .. N
    BY <1>1
  <2> HIDE DEF V
  <2> QED BY <1>4, <2>1
<1>6. \A k \in Nat, v \in V : k + 1 <= N => h[k][v] = MakerStep(v, T[k + 1], k + 1)
  OBVIOUS
<1> HIDE DEF h, V
<1>7. PICK f : Recursive(V, none, h, f)
  BY <1>1, <1>5, Recursion
<1>8. f \in [Nat -> V] /\ f[0] = none /\ \A k \in Nat : f[k + 1] = h[k][f[k]]
  BY <1>7 DEF Recursive
<1> DEFINE g == [n \in 0 .. N |-> f[n]]
<1>9. g \in [0 .. N -> V] /\ g[0] = none
  BY <1>1, <1>8
<1>10. ASSUME NEW k \in 1 .. N PROVE g[k] = MakerStep(g[k - 1], T[k], k)
  <2>1. k - 1 \in Nat /\ (k - 1) + 1 = k /\ k <= N /\ k \in 0 .. N /\ k - 1 \in 0 .. N
    BY <1>1
  <2>2. f[k] = h[k - 1][f[k - 1]] /\ f[k - 1] \in V
    BY <1>8, <2>1
  <2>3. h[k - 1][f[k - 1]] = MakerStep(f[k - 1], T[k], k)
    BY <1>6, <2>1, <2>2
  <2> QED BY <2>1, <2>2, <2>3
<1> HIDE DEF g, none
<1>11. ASSUME NEW F, NEW k \in 1 .. N PROVE row(F, k) = MakerStep(F[k - 1], T[k], k)
  <2>1. k # 0
    BY <1>1
  <2> QED BY <2>1 DEF MakerStep
<1>12. \A F : row(F, 0) = none
  BY DEF none
<1> HIDE DEF row
<1>13. \A k \in 0 .. N : k = 0 \/ k \in 1 .. N
  BY <1>1
<1>14. g = [n \in 0 .. N |-> row(g, n)]
  <2>1. \A k \in 0 .. N : g[k] = row(g, k)
    BY <1>9, <1>10, <1>11, <1>12, <1>13
  <2> QED BY <1>9, <2>1
<1>15. It = [n \in 0 .. N |-> row(It, n)]
  BY <1>14, Zenon
<1> HIDE DEF It
<1>16. It = g
  <2> DEFINE D == {k \in Nat : k <= N => It[k] = g[k]}
  <2>1. 0 \in D
    <3>1. 0 \in 0 .. N
      BY <1>1
    <3> QED BY <1>12, <1>14, <1>15, <3>1
  <2>2. ASSUME NEW k \in D PROVE k + 1 \in D
    <3>1. SUFFICES ASSUME k + 1 <= N PROVE It[k + 1] = g[k + 1]
      BY <2>2
    <3>2. k + 1 \in 1 .. N /\ k + 1 \in 0 .. N /\ (k + 1) - 1 = k /\ It[k] = g[k]
      BY <1>1, <2>2, <3>1
    <3>3. It[k + 1] = row(It, k + 1) /\ g[k + 1] = row(g, k + 1)
      BY <1>14, <1>15, <3>2
    <3>4. row(It, k + 1) = MakerStep(It[k], T[k + 1], k + 1)
      BY <1>11, <3>2
    <3>5. row(g, k + 1) = MakerStep(g[k], T[k + 1], k + 1)
      BY <1>11, <3>2
    <3> QED BY <3>2, <3>3, <3>4, <3>5
  <2> HIDE DEF D
  <2>3. D \subseteq Nat
    BY DEF D
  <2>4. D = Nat
    BY <2>1, <2>2, <2>3, Reached
  <2>5. \A k \in 0 .. N : It[k] = g[k]
    BY <1>1, <2>4 DEF D
  <2> QED BY <1>9, <1>15, <2>5
<1> QED BY <1>2, <1>9, <1>10, <1>16 DEF MakerRun, T, N, V, none

-----------------------------------------------------------------------------
(* What holds after each request.                                           *)

\* Instances stay, their ranges only grow.
Grows(s, r) ==
  /\ Len(s.instances) <= Len(r.instances)
  /\ \A i \in DOMAIN s.instances :
       /\ r.instances[i].start = s.instances[i].start
       /\ s.instances[i].touched => r.instances[i].touched
       /\ s.instances[i].end <= r.instances[i].end

StartOf(s, i) == IF i = NoInstance THEN 0 ELSE s.instances[i].start

\* After k requests, of which v says who made what each tag names.
Settled(s, v, k) ==
  /\ \A i \in DOMAIN s.instances :
       /\ 1 <= s.instances[i].start /\ s.instances[i].start <= s.instances[i].end
       /\ s.instances[i].end <= k /\ (s.instances[i].shared => s.instances[i].source = "owned")
  /\ \A i, j \in DOMAIN s.instances : i < j => s.instances[i].start < s.instances[j].start
  /\ \A e \in DOMAIN s.events : s.events[e].at <= k
  /\ \A tag \in Tags : v[tag] = StartOf(s, NameAt(s, tag))
  /\ \A tag \in Tags : Lookup(s, tag, k) = NameAt(s, tag)

About(s, tag, at) == {i \in DOMAIN s.events : s.events[i].tag = tag /\ s.events[i].at <= at}

LEMMA AboutFacts ==
  ASSUME NEW s \in States, NEW tag, NEW at
  PROVE  /\ Lookup(s, tag, at) = IF About(s, tag, at) = {} THEN NoInstance
                                 ELSE s.events[Max(About(s, tag, at))].instance
         /\ About(s, tag, at) # {} =>
              /\ Max(About(s, tag, at)) \in About(s, tag, at)
              /\ \A i \in About(s, tag, at) : i <= Max(About(s, tag, at))
<1>1. Len(s.events) \in Nat /\ DOMAIN s.events = 1 .. Len(s.events)
  BY DEF States
<1>2. About(s, tag, at) \in SUBSET (1 .. Len(s.events))
  BY <1>1 DEF About
<1>3. Lookup(s, tag, at) = IF About(s, tag, at) = {} THEN NoInstance
                           ELSE s.events[Max(About(s, tag, at))].instance
  BY DEF Lookup, About
<1> QED BY <1>1, <1>2, <1>3, MaxFacts

\* Later requests do not change what was named before.
LEMMA LookupStays ==
  ASSUME NEW s \in States, NEW r \in States, NEW k \in Nat, Logs(s, r, k + 1),
         NEW tag \in Tags, NEW at \in 0 .. k
  PROVE  Lookup(r, tag, at) = Lookup(s, tag, at)
<1>1. /\ Len(s.events) \in Nat /\ DOMAIN s.events = 1 .. Len(s.events)
      /\ Len(r.events) \in Nat /\ DOMAIN r.events = 1 .. Len(r.events)
  BY DEF States
<1>2. /\ DOMAIN s.events \subseteq DOMAIN r.events
      /\ \A e \in DOMAIN s.events : r.events[e] = s.events[e]
      /\ \A e \in DOMAIN r.events : e \notin DOMAIN s.events => r.events[e].at = k + 1
  BY <1>1 DEF Logs
<1>3. ~(k + 1 <= at)
  OBVIOUS
<1>4. About(r, tag, at) = About(s, tag, at)
  BY <1>2, <1>3 DEF About
<1>5. \A i \in About(s, tag, at) : r.events[i] = s.events[i]
  BY <1>2 DEF About
<1> QED BY <1>4, <1>5, AboutFacts

\* A tag is found under its name at the time of the last request.
LEMMA LookupFinds ==
  ASSUME NEW s \in States, NEW r \in States, NEW k \in Nat, Logs(s, r, k + 1),
         NEW tag \in Tags, \A e \in DOMAIN s.events : s.events[e].at <= k,
         Lookup(s, tag, k) = NameAt(s, tag)
  PROVE  Lookup(r, tag, k + 1) = NameAt(r, tag)
<1>1. /\ Len(s.events) \in Nat /\ DOMAIN s.events = 1 .. Len(s.events)
      /\ Len(r.events) \in Nat /\ DOMAIN r.events = 1 .. Len(r.events)
      /\ \A e \in DOMAIN s.events : s.events[e].at \in Nat
  <2>1. s.events \in Seq(Events) /\ r.events \in Seq(Events)
    BY DEF States
  <2>2. \A e \in DOMAIN s.events : s.events[e] \in Events
    BY <2>1
  <2> QED BY <2>1, <2>2 DEF Events
<1>2. /\ DOMAIN s.events \subseteq DOMAIN r.events
      /\ \A e \in DOMAIN s.events : r.events[e] = s.events[e]
      /\ \A e \in DOMAIN r.events : e \notin DOMAIN s.events =>
           e > Len(s.events) /\ r.events[e].at = k + 1
  BY <1>1 DEF Logs
<1>3. \A e \in DOMAIN r.events : r.events[e].at <= k + 1
  BY <1>1, <1>2
<1>4. About(r, tag, k + 1) = About(s, tag, k) \cup News(s, r, tag)
  BY <1>1, <1>2, <1>3 DEF About, News
<1>5. \A i \in About(s, tag, k) : r.events[i] = s.events[i] /\ i <= Len(s.events)
  BY <1>1, <1>2 DEF About
<1>6. CASE News(s, r, tag) = {} /\ NameAt(r, tag) = NameAt(s, tag)
  BY <1>4, <1>5, <1>6, AboutFacts
<1>7. CASE \E e \in News(s, r, tag) : /\ \A d \in News(s, r, tag) : d <= e
                                      /\ r.events[e].instance = NameAt(r, tag)
  <2>1. PICK e \in News(s, r, tag) : /\ \A d \in News(s, r, tag) : d <= e
                                     /\ r.events[e].instance = NameAt(r, tag)
    BY <1>7
  <2> DEFINE m == Max(About(r, tag, k + 1))
  <2>2. e \in DOMAIN r.events /\ e > Len(s.events) /\ e \in About(r, tag, k + 1)
    BY <1>4 DEF News
  <2>3. m \in About(r, tag, k + 1) /\ e <= m /\ m \in DOMAIN r.events
    <3>1. About(r, tag, k + 1) \subseteq DOMAIN r.events
      BY DEF About
    <3> QED BY <2>2, <3>1, AboutFacts
  <2> HIDE DEF m
  <2>4. m <= e
    BY <1>1, <1>4, <1>5, <2>1, <2>2, <2>3
  <2>5. m = e
    BY <1>1, <2>2, <2>3, <2>4
  <2> QED BY <2>1, <2>2, <2>5, AboutFacts DEF m
<1> QED BY <1>6, <1>7 DEF Logs

LEMMA NameFacts ==
  ASSUME NEW s \in States, NEW tag
  PROVE  NameAt(s, tag) \in DOMAIN s.instances \/ NameAt(s, tag) = NoInstance
BY DEF States, NameAt

LEMMA NamesArePositive ==
  ASSUME NEW s \in States
  PROVE  /\ Len(s.instances) \in Nat /\ DOMAIN s.instances = 1 .. Len(s.instances)
         /\ NoInstance \notin DOMAIN s.instances
         /\ \A i \in DOMAIN s.instances : s.instances[i] \in Instances
BY DEF States, NoInstance

LEMMA UnsolvedSettled ==
  Settled(Unsolved, [tag \in Tags |-> 0], 0)
<1>1. DOMAIN Unsolved.instances = {} /\ DOMAIN Unsolved.events = {} /\ DOMAIN Unsolved.names = {}
  BY DEF Unsolved
<1>2. \A tag : NameAt(Unsolved, tag) = NoInstance
  BY <1>1 DEF NameAt
<1>3. \A tag : Lookup(Unsolved, tag, 0) = NoInstance
  BY <1>1 DEF Lookup
<1> QED BY <1>1, <1>2, <1>3 DEF Settled, StartOf

\* One more request.
LEMMA StaysSettled ==
  ASSUME NEW k \in Nat, NEW s \in States, NEW v, Settled(s, v, k), NEW q \in Recorded,
         NEW r, Follows(s, r, q, k + 1)
  PROVE  Settled(r, MakerStep(v, q, k + 1), k + 1) /\ Grows(s, r)
<1> DEFINE n == Len(s.instances)
           w == MakerStep(v, q, k + 1)
<1>1. /\ r \in States /\ Logs(s, r, k + 1)
      /\ \/ Len(r.instances) = n /\ \A tag \in Tags : ~Makes(q, tag)
         \/ Len(r.instances) = n + 1 /\ Fresh(r.instances[n + 1], k + 1)
      /\ \A i \in DOMAIN s.instances : Ages(s.instances[i], r.instances[i], k + 1)
      /\ \A tag \in Tags : NameAt(r, tag) = AfterName(s, q, n + 1, tag)
  BY DEF Follows
<1>2. /\ n \in Nat /\ DOMAIN s.instances = 1 .. n /\ NoInstance \notin DOMAIN s.instances
      /\ \A i \in DOMAIN s.instances : s.instances[i].start \in Nat /\ s.instances[i].end \in Nat
  BY NamesArePositive DEF Instances
<1>3. /\ Len(r.instances) \in Nat /\ DOMAIN r.instances = 1 .. Len(r.instances)
      /\ NoInstance \notin DOMAIN r.instances
      /\ \A i \in DOMAIN r.instances : r.instances[i].start \in Nat /\ r.instances[i].end \in Nat
  BY <1>1, NamesArePositive DEF Instances
<1>4. /\ \A i \in DOMAIN s.instances :
           /\ 1 <= s.instances[i].start /\ s.instances[i].start <= s.instances[i].end
           /\ s.instances[i].end <= k /\ (s.instances[i].shared => s.instances[i].source = "owned")
      /\ \A i, j \in DOMAIN s.instances : i < j => s.instances[i].start < s.instances[j].start
      /\ \A e \in DOMAIN s.events : s.events[e].at <= k
      /\ \A tag \in Tags : v[tag] = StartOf(s, NameAt(s, tag))
      /\ \A tag \in Tags : Lookup(s, tag, k) = NameAt(s, tag)
  BY DEF Settled
<1>5. \A i \in DOMAIN s.instances :
        /\ i \in DOMAIN r.instances /\ r.instances[i].start = s.instances[i].start
        /\ r.instances[i].end \in {s.instances[i].end, k + 1}
        /\ s.instances[i].touched => r.instances[i].touched
        /\ r.instances[i].shared => s.instances[i].shared
        /\ r.instances[i].source = s.instances[i].source
  BY <1>1, <1>2, <1>3 DEF Ages
<1>6. \A i \in DOMAIN r.instances : i \notin DOMAIN s.instances =>
        /\ i = n + 1 /\ r.instances[i].start = k + 1 /\ r.instances[i].end = k + 1
        /\ r.instances[i].shared => r.instances[i].source = "owned"
  BY <1>1, <1>2, <1>3 DEF Fresh
<1>7. \A i \in DOMAIN r.instances :
        /\ 1 <= r.instances[i].start /\ r.instances[i].start <= r.instances[i].end
        /\ r.instances[i].end <= k + 1 /\ (r.instances[i].shared => r.instances[i].source = "owned")
  <2>1. SUFFICES ASSUME NEW i \in DOMAIN r.instances
                 PROVE  /\ 1 <= r.instances[i].start /\ r.instances[i].start <= r.instances[i].end
                        /\ r.instances[i].end <= k + 1
                        /\ (r.instances[i].shared => r.instances[i].source = "owned")
    OBVIOUS
  <2>2. CASE i \in DOMAIN s.instances
    <3>1. s.instances[i].start <= k
      BY <1>2, <1>4, <2>2
    <3> QED BY <1>2, <1>4, <1>5, <2>2, <3>1
  <2>3. CASE i \notin DOMAIN s.instances
    BY <1>6, <2>3
  <2> QED BY <2>2, <2>3
<1>8. \A i, j \in DOMAIN r.instances : i < j => r.instances[i].start < r.instances[j].start
  <2>1. SUFFICES ASSUME NEW i \in DOMAIN r.instances, NEW j \in DOMAIN r.instances, i < j
                 PROVE  r.instances[i].start < r.instances[j].start
    OBVIOUS
  <2>2. i \in DOMAIN s.instances
    BY <1>1, <1>2, <1>3, <2>1
  <2>3. CASE j \in DOMAIN s.instances
    BY <1>4, <1>5, <2>1, <2>2, <2>3
  <2>4. CASE j \notin DOMAIN s.instances
    <3>1. s.instances[i].start <= k
      BY <1>2, <1>4, <2>2
    <3> QED BY <1>2, <1>5, <1>6, <2>2, <2>4, <3>1
  <2> QED BY <2>3, <2>4
<1>9. \A e \in DOMAIN r.events : r.events[e].at <= k + 1
  <2>1. s.events \in Seq(Events)
    BY DEF States
  <2>2. \A e \in DOMAIN s.events : s.events[e].at \in Nat
    <3>1. \A e \in DOMAIN s.events : s.events[e] \in Events
      BY <2>1
    <3> QED BY <3>1 DEF Events
  <2>3. Len(s.events) \in Nat /\ DOMAIN s.events = 1 .. Len(s.events)
    BY <2>1
  <2>4. Len(r.events) \in Nat /\ DOMAIN r.events = 1 .. Len(r.events)
    BY <1>1 DEF States
  <2>5. \A e \in DOMAIN r.events :
          IF e \in DOMAIN s.events THEN r.events[e] = s.events[e] ELSE r.events[e].at = k + 1
    BY <1>1, <2>3, <2>4 DEF Logs
  <2> QED BY <1>4, <2>2, <2>5
<1>10. ASSUME NEW tag \in Tags PROVE w[tag] = StartOf(r, NameAt(r, tag))
  <2>1. \A t \in Tags : v[t] = StartOf(r, NameAt(s, t))
    BY <1>4, <1>5, NameFacts DEF StartOf
  <2>2. /\ w[tag] = IF Makes(q, tag) THEN k + 1
                    ELSE IF q.kind = "free" /\ q.tag = tag THEN 0
                    ELSE IF q.kind = "swap" /\ q.tag = tag THEN v[q.other]
                    ELSE IF q.kind = "swap" /\ q.other = tag THEN v[q.tag]
                    ELSE v[tag]
    BY DEF MakerStep
  <2>3. q.tag \in Tags /\ (q.kind = "swap" => q.other \in Tags)
    BY RequestFields
  <2>4. NameAt(r, tag) = AfterName(s, q, n + 1, tag)
    BY <1>1
  <2> HIDE DEF w
  <2>5. CASE Makes(q, tag)
    <3>1. Len(r.instances) = n + 1 /\ n + 1 \in DOMAIN r.instances /\ n + 1 \notin DOMAIN s.instances
      BY <1>1, <1>2, <1>3, <2>5
    <3>2. NameAt(r, tag) = n + 1 /\ n + 1 # NoInstance
      BY <1>2, <2>4, <2>5 DEF AfterName, NoInstance
    <3> QED BY <1>6, <2>2, <2>5, <3>1, <3>2 DEF StartOf
  <2>6. CASE ~Makes(q, tag)
    BY <2>1, <2>2, <2>3, <2>4, <2>6 DEF AfterName, StartOf
  <2> QED BY <2>5, <2>6
<1>11. ASSUME NEW tag \in Tags PROVE Lookup(r, tag, k + 1) = NameAt(r, tag)
  BY <1>1, <1>4, LookupFinds
<1>12. Grows(s, r)
  <2>1. n <= Len(r.instances)
    BY <1>1, <1>2
  <2>2. \A i \in DOMAIN s.instances : s.instances[i].end <= r.instances[i].end
    BY <1>2, <1>4, <1>5
  <2> QED BY <1>5, <2>1, <2>2 DEF Grows
<1> HIDE DEF w
<1>13. Settled(r, w, k + 1)
  BY <1>7, <1>8, <1>9, <1>10, <1>11 DEF Settled
<1> QED BY <1>12, <1>13 DEF w

LEMMA GrowsOn ==
  ASSUME NEW s \in States, NEW r \in States, NEW u \in States, Grows(s, r), Grows(r, u)
  PROVE  Grows(s, u)
<1>1. /\ Len(s.instances) \in Nat /\ DOMAIN s.instances = 1 .. Len(s.instances)
      /\ Len(r.instances) \in Nat /\ DOMAIN r.instances = 1 .. Len(r.instances)
      /\ Len(u.instances) \in Nat /\ DOMAIN u.instances = 1 .. Len(u.instances)
  BY NamesArePositive
<1>2. /\ \A i \in DOMAIN s.instances : s.instances[i].end \in Nat
      /\ \A i \in DOMAIN r.instances : r.instances[i].end \in Nat
      /\ \A i \in DOMAIN u.instances : u.instances[i].end \in Nat
  BY NamesArePositive DEF Instances
<1>3. DOMAIN s.instances \subseteq DOMAIN r.instances /\ DOMAIN r.instances \subseteq DOMAIN u.instances
  BY <1>1 DEF Grows
<1>4. \A i \in DOMAIN s.instances : s.instances[i].end <= u.instances[i].end
  <2>1. SUFFICES ASSUME NEW i \in DOMAIN s.instances
                 PROVE  s.instances[i].end <= u.instances[i].end
    OBVIOUS
  <2>2. s.instances[i].end <= r.instances[i].end /\ r.instances[i].end <= u.instances[i].end
    BY <1>3 DEF Grows
  <2> QED BY <1>2, <1>3, <2>2
<1> QED BY <1>1, <1>3, <1>4 DEF Grows

LEMMA GrowsNot ==
  ASSUME NEW s \in States
  PROVE  Grows(s, s)
<1>1. Len(s.instances) \in Nat /\ \A i \in DOMAIN s.instances : s.instances[i].end \in Nat
  BY NamesArePositive DEF Instances
<1> QED BY <1>1 DEF Grows

\* Every request of a frame that solves: what it does, and that what is known
\* of its time is found in the state at the end.
LEMMA SolverFacts ==
  ASSUME NEW T \in Seq(Recorded), NEW S, SolverRun(T, S), NEW M, MakerRun(T, M),
         S[Len(T)].ok
  PROVE  /\ \A k \in 0 .. Len(T) :
              /\ S[k] \in States /\ Settled(S[k], M[k], k) /\ Grows(S[k], S[Len(T)])
              /\ \A tag \in Tags : Lookup(S[Len(T)], tag, k) = NameAt(S[k], tag)
         /\ \A k \in 1 .. Len(T) : Follows(S[k - 1], S[k], T[k], k)
<1> DEFINE n == Len(T)
           Ends(k) == \A j \in 0 .. k :
                        /\ Settled(S[j], M[j], j) /\ Grows(S[j], S[k])
                        /\ \A tag \in Tags : Lookup(S[k], tag, j) = NameAt(S[j], tag)
           Steps(k) == \A j \in 1 .. k : Follows(S[j - 1], S[j], T[j], j)
           D == {k \in Nat : k <= n /\ S[k].ok => Ends(k) /\ Steps(k)}
<1>1. /\ n \in Nat /\ \A k \in 0 .. n : S[k] \in States
      /\ S[0] = Unsolved /\ M[0] = [tag \in Tags |-> 0]
      /\ \A k \in 1 .. n : /\ S[k] = SolveStep(T, S[k - 1], k)
                           /\ M[k] = MakerStep(M[k - 1], T[k], k) /\ T[k] \in Recorded
  <2>1. n \in Nat /\ \A k \in 1 .. n : T[k] \in Recorded
    OBVIOUS
  <2>2. S \in [0 .. n -> States]
    BY DEF SolverRun
  <2> QED BY <2>1, <2>2 DEF SolverRun, MakerRun
<1> HIDE DEF n
<1>2. 0 \in D
  <2>1. Ends(0)
    <3>1. \A j \in 0 .. 0 : j = 0
      OBVIOUS
    <3>2. S[0] \in States
      BY <1>1
    <3>3. Settled(S[0], M[0], 0)
      BY <1>1, UnsolvedSettled
    <3>4. \A tag \in Tags : Lookup(S[0], tag, 0) = NameAt(S[0], tag)
      BY <3>3 DEF Settled
    <3> QED BY <3>1, <3>2, <3>3, <3>4, GrowsNot
  <2>2. Steps(0)
    OBVIOUS
  <2> HIDE DEF Ends, Steps
  <2> QED BY <2>1, <2>2
<1>3. ASSUME NEW k \in D PROVE k + 1 \in D
  <2>1. SUFFICES ASSUME k + 1 <= n, S[k + 1].ok PROVE Ends(k + 1) /\ Steps(k + 1)
    <3> HIDE DEF Ends, Steps
    <3> QED BY <1>3
  <2>2. k \in Nat /\ k <= n /\ k + 1 \in 1 .. n /\ (k + 1) - 1 = k /\ k \in 0 .. n /\ k + 1 \in 0 .. n
    BY <1>1, <2>1
  <2>3. /\ S[k] \in States /\ S[k + 1] \in States /\ S[k + 1] = SolveStep(T, S[k], k + 1)
        /\ M[k + 1] = MakerStep(M[k], T[k + 1], k + 1) /\ T[k + 1] \in Recorded
    BY <1>1, <2>2
  <2>4. S[k].ok /\ ~Refuses(S[k], T[k + 1]) /\ S[k + 1] = Handled(S[k], T[k + 1], k + 1)
    <3>1. ~[S[k] EXCEPT !.ok = FALSE].ok
      BY <2>3 DEF States
    <3> QED BY <2>1, <2>3, <3>1 DEF SolveStep
  <2>5. Follows(S[k], S[k + 1], T[k + 1], k + 1)
    BY <2>2, <2>3, <2>4, HandledFacts
  <2>6. Ends(k) /\ Steps(k)
    BY <1>3, <2>2, <2>4
  <2>7. \A j \in 0 .. k + 1 : j \in 0 .. k \/ j = k + 1
    BY <2>2
  <2>8. \A j \in 1 .. k + 1 : j \in 1 .. k \/ j = k + 1
    BY <2>2
  <2>9. Settled(S[k], M[k], k)
    BY <2>2, <2>6
  <2>10. Settled(S[k + 1], M[k + 1], k + 1) /\ Grows(S[k], S[k + 1])
    BY <2>2, <2>3, <2>5, <2>9, StaysSettled
  <2>11. ASSUME NEW j \in 0 .. k
         PROVE  /\ Settled(S[j], M[j], j) /\ Grows(S[j], S[k + 1])
                /\ \A tag \in Tags : Lookup(S[k + 1], tag, j) = NameAt(S[j], tag)
    <3>1. /\ Settled(S[j], M[j], j) /\ Grows(S[j], S[k])
          /\ \A tag \in Tags : Lookup(S[k], tag, j) = NameAt(S[j], tag)
      BY <2>6
    <3>2. S[j] \in States
      BY <1>1, <2>2
    <3>3. Grows(S[j], S[k + 1])
      BY <2>3, <2>10, <3>1, <3>2, GrowsOn
    <3>4. Logs(S[k], S[k + 1], k + 1)
      BY <2>5 DEF Follows
    <3>5. \A tag \in Tags : Lookup(S[k + 1], tag, j) = Lookup(S[k], tag, j)
      BY <2>2, <2>3, <3>4, LookupStays
    <3> QED BY <3>1, <3>3, <3>5
  <2>12. Grows(S[k + 1], S[k + 1])
    BY <2>3, GrowsNot
  <2>13. \A tag \in Tags : Lookup(S[k + 1], tag, k + 1) = NameAt(S[k + 1], tag)
    BY <2>10 DEF Settled
  <2>14. Ends(k + 1)
    BY <2>7, <2>10, <2>11, <2>12, <2>13
  <2>15. Steps(k + 1)
    BY <2>2, <2>5, <2>6, <2>8
  <2> QED BY <2>14, <2>15
<1> HIDE DEF D
<1>4. D \subseteq Nat
  BY DEF D
<1>5. D = Nat
  BY <1>2, <1>3, <1>4, Reached
<1>6. S[n].ok
  BY DEF n
<1>7. Ends(n) /\ Steps(n)
  <2> HIDE DEF Ends, Steps
  <2> QED BY <1>1, <1>5, <1>6 DEF D
<1> QED BY <1>1, <1>7 DEF n

-----------------------------------------------------------------------------
(* The streams end to end *)

LEMMA TimelineType ==
  ASSUME NEW R, NEW seqs \in Seq(Seq(R))
  PROVE  Timeline(seqs) \in Seq(R)
<1>1. PICK F : Leading(R, seqs, F)
  BY LeadingExist
<1>2. Len(seqs) \in 0 .. Len(seqs)
  OBVIOUS
<1>3. F[Len(seqs)] \in Seq(R)
  BY <1>1, <1>2 DEF Leading
<1>4. FlattenSeq(seqs) = F[Len(seqs)]
  BY <1>1, FlattenFacts
<1> QED BY <1>3, <1>4 DEF Timeline

\* A group lies in the timeline at its offset.
LEMMA GroupsLieWithin ==
  ASSUME NEW R, NEW seqs \in Seq(Seq(R)), NEW g \in 1 .. Len(seqs)
  PROVE  /\ Len(Timeline(SubSeq(seqs, 1, g - 1))) \in Nat
         /\ Len(Timeline(SubSeq(seqs, 1, g - 1))) + Len(seqs[g]) <= Len(Timeline(seqs))
<1> DEFINE n == Len(seqs)
           first == SubSeq(seqs, 1, g - 1)
<1>1. PICK F : Leading(R, seqs, F)
  BY LeadingExist
<1>2. /\ F \in [0 .. n -> Seq(R)] /\ F[0] = <<>>
      /\ \A k \in 1 .. n : F[k] = F[k - 1] \o seqs[k]
  BY <1>1 DEF Leading
<1>3. n \in Nat /\ g \in Nat /\ g <= n /\ g - 1 \in Nat /\ \A k \in 1 .. n : seqs[k] \in Seq(R)
  OBVIOUS
<1>4. Timeline(seqs) = F[n]
  BY <1>1, FlattenFacts DEF Timeline
<1>5. Timeline(first) = F[g - 1]
  <2>1. /\ first \in Seq(Seq(R)) /\ Len(first) = g - 1
        /\ \A k \in 1 .. g - 1 : first[k] = seqs[k]
    OBVIOUS
  <2> DEFINE G == [k \in 0 .. g - 1 |-> F[k]]
  <2> HIDE DEF first, n
  <2>2. \A k \in 0 .. g - 1 : k \in 0 .. n
    BY <1>3
  <2>3. G \in [0 .. g - 1 -> Seq(R)] /\ G[0] = <<>> /\ G[g - 1] = F[g - 1]
    BY <1>2, <1>3, <2>2
  <2>4. ASSUME NEW k \in 1 .. g - 1 PROVE G[k] = G[k - 1] \o first[k]
    <3>1. k \in 1 .. n /\ k \in 0 .. g - 1 /\ k - 1 \in 0 .. g - 1
      BY <1>3
    <3> QED BY <1>2, <2>1, <3>1
  <2> HIDE DEF G
  <2>5. Leading(R, first, G)
    BY <2>1, <2>3, <2>4 DEF Leading
  <2> QED BY <2>1, <2>3, <2>5, FlattenFacts DEF Timeline
<1> HIDE DEF n, first
<1>6. \A k \in 0 .. n : Len(F[k]) \in Nat
  BY <1>2
<1>7. \A k \in 1 .. n : /\ Len(F[k]) = Len(F[k - 1]) + Len(seqs[k]) /\ Len(seqs[k]) \in Nat
                        /\ Len(F[k - 1]) \in Nat
  <2>1. SUFFICES ASSUME NEW k \in 1 .. n
                 PROVE  /\ Len(F[k]) = Len(F[k - 1]) + Len(seqs[k]) /\ Len(seqs[k]) \in Nat
                        /\ Len(F[k - 1]) \in Nat
    OBVIOUS
  <2>2. k - 1 \in 0 .. n
    BY <1>3
  <2>3. F[k - 1] \in Seq(R) /\ seqs[k] \in Seq(R) /\ F[k] = F[k - 1] \o seqs[k]
    BY <1>2, <1>3, <2>2
  <2> QED BY <2>3
<1> DEFINE D == {k \in Nat : g + k <= n => Len(F[g]) <= Len(F[g + k])}
<1>8. 0 \in D
  <2>1. g \in 0 .. n /\ g + 0 = g
    BY <1>3
  <2> QED BY <1>6, <2>1
<1>9. ASSUME NEW k \in D PROVE k + 1 \in D
  <2>1. SUFFICES ASSUME g + (k + 1) <= n PROVE Len(F[g]) <= Len(F[g + (k + 1)])
    BY <1>9
  <2>2. /\ g + (k + 1) \in 1 .. n /\ (g + (k + 1)) - 1 = g + k /\ g \in 0 .. n
        /\ g + (k + 1) \in 0 .. n /\ Len(F[g]) <= Len(F[g + k])
    BY <1>3, <1>9, <2>1
  <2>3. /\ Len(F[g + (k + 1)]) = Len(F[g + k]) + Len(seqs[g + (k + 1)])
        /\ Len(seqs[g + (k + 1)]) \in Nat /\ Len(F[g + k]) \in Nat
    BY <1>7, <2>2
  <2>4. Len(F[g]) \in Nat
    BY <1>6, <2>2
  <2>5. ASSUME NEW a \in Nat, NEW b \in Nat, NEW c \in Nat, NEW d, d = b + c, a <= b
        PROVE  a <= d
    BY <2>5
  <2> QED BY <2>2, <2>3, <2>4, <2>5
<1> HIDE DEF D
<1>10. D \subseteq Nat
  BY DEF D
<1>11. D = Nat
  BY <1>8, <1>9, <1>10, Reached
<1>12. n - g \in Nat /\ g + (n - g) = n
  BY <1>3
<1>13. Len(F[g]) <= Len(F[n])
  <2>1. n - g \in D
    BY <1>11, <1>12
  <2>2. g + (n - g) <= n
    BY <1>3
  <2>3. Len(F[g]) <= Len(F[g + (n - g)])
    BY <2>1, <2>2 DEF D
  <2> QED BY <1>12, <2>3
<1>14. Len(F[g]) = Len(F[g - 1]) + Len(seqs[g]) /\ Len(F[g - 1]) \in Nat
  <2>1. g \in 1 .. n
    BY DEF n
  <2> QED BY <1>7, <2>1
<1> QED BY <1>4, <1>5, <1>13, <1>14 DEF first

-----------------------------------------------------------------------------
(* The frame: what is recorded, and what it solves to.                      *)

StreamsTyped ==
  /\ program \in Seq(Seq(Step))
  /\ streams \in Seq(Seq(Recorded)) /\ Len(streams) = Len(program)
  /\ cursor \in Seq(Nat) /\ Len(cursor) = Len(program)
  /\ \A g \in AllGroups : cursor[g] <= Len(streams[g])
  /\ node \in AllGroups \cup {NoNode} /\ answer \in Said /\ passed \in Nat
  /\ node # NoNode => phase \in {"preconsume", "consume"}

\* The frame of the pool is what the streams solve to.
FrameIsSolved ==
  /\ phase \in {"resolve", "consume"} =>
       /\ solution = Solve(Timeline(streams)) /\ solution.ok /\ frame = Allocations(solution)
  /\ resolution # NoResolution => DOMAIN resolution = DOMAIN frame

FrameInv == Inductive /\ StreamsTyped /\ FrameIsSolved

LEMMA SolvedWell ==
  ASSUME Timeline(streams) \in Seq(Recorded), NEW s, s = Solve(Timeline(streams)), s.ok
  PROVE  WellFormed(Allocations(s))
<1> DEFINE T == Timeline(streams)
           D == {j \in DOMAIN s.instances : s.instances[j].touched}
           a == Allocations(s)
<1>1. PICK S : SolverRun(T, S) /\ Solve(T) = S[Len(T)]
  BY SolverStates
<1>2. Len(T) \in 0 .. Len(T)
  OBVIOUS
<1>3. s \in States /\ Settled(s, Maker[Len(T)], Len(T))
  BY <1>1, <1>2, MakerStates, SolverFacts
<1>4. /\ Len(s.instances) \in Nat /\ DOMAIN s.instances = 1 .. Len(s.instances)
      /\ \A i \in DOMAIN s.instances : s.instances[i] \in Instances
  BY <1>3, NamesArePositive
<1>5. IsFiniteSet(D) /\ D \subseteq Nat
  <2>1. IsFiniteSet(1 .. Len(s.instances)) /\ D \subseteq 1 .. Len(s.instances)
    BY <1>4, FS_Interval
  <2> QED BY <2>1, FS_Subset
<1>6. ASSUME NEW i \in D
      PROVE  /\ a[i] \in Request /\ a[i].start <= a[i].end
             /\ a[i].shared => a[i].source = "owned"
  <2> DEFINE t == s.instances[i]
  <2>1. t \in Instances /\ t.start <= t.end /\ (t.shared => t.source = "owned")
    BY <1>3, <1>4 DEF Settled
  <2>2. a[i] = [desc |-> t.desc, start |-> t.start, end |-> t.end, source |-> t.source,
                shared |-> t.shared]
    BY DEF Allocations
  <2> HIDE DEF t, a
  <2> QED BY <2>1, <2>2 DEF Instances, Request
<1>7. DOMAIN a = D /\ a = [i \in D |-> a[i]]
  BY DEF Allocations
<1> HIDE DEF a, D
<1>8. a \in [D -> Request]
  BY <1>6, <1>7
<1> QED BY <1>5, <1>6, <1>7, <1>8 DEF WellFormed, a

LEMMA StreamFacts ==
  ASSUME StreamsTyped
  PROVE  /\ Len(program) \in Nat /\ DOMAIN program = 1 .. Len(program)
         /\ DOMAIN streams = DOMAIN program /\ DOMAIN cursor = DOMAIN program
         /\ \A g \in DOMAIN program :
              /\ streams[g] \in Seq(Recorded) /\ Len(streams[g]) \in Nat /\ cursor[g] \in Nat
              /\ cursor[g] <= Len(streams[g]) /\ program[g] \in Seq(Step)
         /\ NoNode \notin DOMAIN program /\ (node # NoNode => node \in DOMAIN program)
<1>1. /\ program \in Seq(Seq(Step)) /\ streams \in Seq(Seq(Recorded)) /\ cursor \in Seq(Nat)
      /\ Len(streams) = Len(program) /\ Len(cursor) = Len(program)
      /\ \A g \in DOMAIN program : cursor[g] <= Len(streams[g])
      /\ node \in DOMAIN program \cup {NoNode}
  BY DEF StreamsTyped, AllGroups
<1>2. /\ Len(program) \in Nat /\ DOMAIN program = 1 .. Len(program)
      /\ DOMAIN streams = DOMAIN program /\ DOMAIN cursor = DOMAIN program
  BY <1>1
<1>3. \A g \in DOMAIN program :
        streams[g] \in Seq(Recorded) /\ cursor[g] \in Nat /\ program[g] \in Seq(Step)
  BY <1>1, <1>2
<1>4. \A g \in DOMAIN program : Len(streams[g]) \in Nat
  BY <1>3
<1> QED BY <1>1, <1>2, <1>3, <1>4 DEF NoNode

\* The step the node takes next.
LEMMA DueFacts ==
  ASSUME StreamsTyped, node # NoNode, Pending # {}
  PROVE  /\ Due \in Pending /\ Due \in DOMAIN program[node] /\ Due > passed /\ Due \in Nat
         /\ \A k \in Pending : Due <= k
         /\ program[node] \in Seq(Step) /\ program[node][Due] \in Step
         /\ program[node][Due].request \in Asks({NoAnswer})
<1>1. program[node] \in Seq(Step)
  BY DEF StreamsTyped, AllGroups
<1>2. Pending \subseteq Nat /\ Pending \subseteq DOMAIN program[node]
  BY <1>1 DEF Pending
<1>3. \E x \in Pending : \A y \in Pending : x <= y
  BY <1>2, LeastExists
<1>4. Due \in Pending /\ \A k \in Pending : Due <= k
  BY <1>3 DEF Due, Min
<1>5. program[node][Due] \in Step
  BY <1>1, <1>2, <1>4
<1> QED BY <1>1, <1>2, <1>4, <1>5 DEF Pending, Step

LEMMA AskedIsRecorded ==
  ASSUME NEW q \in Asks({NoAnswer}), NEW a \in Said
  PROVE  [q EXCEPT !.answer = a] \in Recorded
BY DEF Asks, Recorded

LEMMA SuppliedIsSaid ==
  ASSUME NEW q, NEW a \in Supplied(q)
  PROVE  a \in Said
BY DEF Supplied, DeclaredIn, Said, NoAnswer

\* Between walks the owner changes the pool, not what was recorded.
LEMMA OwnPreserves ==
  ASSUME FrameInv, BetweenWalks, UNCHANGED streamVars, Inductive',
         \/ UNCHANGED <<phase, frame, resolution>>
         \/ phase' \in {"startup", "cleanup"} /\ UNCHANGED <<frame, resolution>>
         \/ UNCHANGED <<phase, frame>> /\ DOMAIN resolution' = DOMAIN frame
  PROVE  FrameInv'
<1>1. /\ node = NoNode
      /\ UNCHANGED <<program, streams, cursor, solution, node, passed, answer>>
  BY DEF BetweenWalks, streamVars
<1>2. StreamsTyped'
  BY <1>1 DEF FrameInv, StreamsTyped, AllGroups
<1>3. FrameIsSolved'
  <2>1. (phase' \in {"resolve", "consume"} =>
           /\ solution' = Solve(Timeline(streams')) /\ solution'.ok /\ frame' = Allocations(solution'))
    <3>1. phase' \in {"resolve", "consume"} => phase \in {"resolve", "consume"} /\ frame' = frame
      OBVIOUS
    <3> QED BY <1>1, <3>1 DEF FrameInv, FrameIsSolved
  <2>2. resolution' # NoResolution => DOMAIN resolution' = DOMAIN frame'
    BY DEF FrameInv, FrameIsSolved
  <2> QED BY <2>1, <2>2 DEF FrameIsSolved
<1> QED BY <1>2, <1>3 DEF FrameInv

\* A frame that is gone leaves nothing of its streams.
LEMMA ClearedPreserves ==
  ASSUME FrameInv, ClearedStreams, Inductive', resolution' = NoResolution,
         phase' \in {"startup", "cleanup"}
  PROVE  FrameInv'
<1>1. StreamsTyped'
  <2>1. <<>> \in Seq(Seq(Step)) /\ <<>> \in Seq(Seq(Recorded)) /\ <<>> \in Seq(Nat)
        /\ Len(<<>>) = 0 /\ DOMAIN <<>> = {}
    OBVIOUS
  <2>2. NoAnswer \in Said
    BY DEF Said
  <2> QED BY <2>1, <2>2 DEF StreamsTyped, ClearedStreams, AllGroups
<1>2. FrameIsSolved'
  BY DEF FrameIsSolved
<1> QED BY <1>1, <1>2 DEF FrameInv

LEMMA BeginRecordingPreserves ==
  ASSUME FrameInv, NEW p \in Programs, BeginRecording(p), Inductive'
  PROVE  FrameInv'
<1>1. /\ p \in Seq(Seq(Step)) /\ program' = p /\ node' = NoNode /\ passed' = 0
      /\ answer' = NoAnswer /\ phase' = "preconsume" /\ resolution' = NoResolution
      /\ streams' = [g \in DOMAIN p |-> <<>>] /\ cursor' = [g \in DOMAIN p |-> 0]
  BY ProgramsAssumption DEF BeginRecording, BeginPreConsume
<1>2. Len(p) \in Nat /\ DOMAIN p = 1 .. Len(p)
  BY <1>1
<1>3. /\ streams' \in Seq(Seq(Recorded)) /\ Len(streams') = Len(p)
      /\ cursor' \in Seq(Nat) /\ Len(cursor') = Len(p)
  <2>1. streams' \in [1 .. Len(p) -> Seq(Recorded)] /\ cursor' \in [1 .. Len(p) -> Nat]
    BY <1>1, <1>2
  <2> QED BY <1>2, <2>1
<1>4. \A g \in DOMAIN p : cursor'[g] <= Len(streams'[g])
  <2>1. Len(<<>>) = 0
    OBVIOUS
  <2> QED BY <1>1, <2>1
<1>5. StreamsTyped'
  BY <1>1, <1>3, <1>4 DEF StreamsTyped, AllGroups, Said
<1>6. FrameIsSolved'
  BY <1>1 DEF FrameIsSolved
<1> QED BY <1>5, <1>6 DEF FrameInv

LEMMA RecordPreserves ==
  ASSUME FrameInv, Record, Inductive'
  PROVE  FrameInv'
<1>1. /\ StreamsTyped /\ FrameIsSolved /\ phase = "preconsume" /\ node # NoNode /\ Pending # {}
      /\ phase' = phase /\ frame' = frame /\ resolution' = resolution
      /\ program' = program /\ cursor' = cursor /\ node' = node /\ passed' = Due
  BY DEF FrameInv, Record, vars
<1> DEFINE q == program[node][Due].request
<1>2. PICK a \in Supplied(q) :
        /\ streams' = [streams EXCEPT ![node] = Append(streams[node], [q EXCEPT !.answer = a])]
        /\ answer' \in {a, answer}
  BY DEF Record
<1>3. q \in Asks({NoAnswer}) /\ Due \in Nat
  BY <1>1, DueFacts
<1>4. a \in Said
  BY <1>2, SuppliedIsSaid
<1> HIDE DEF q
<1> DEFINE e == [q EXCEPT !.answer = a]
<1>5. e \in Recorded
  BY <1>3, <1>4, AskedIsRecorded
<1> HIDE DEF e
<1>6. /\ node \in DOMAIN program /\ DOMAIN program = DOMAIN streams
      /\ \A g \in DOMAIN program : streams[g] \in Seq(Recorded) /\ cursor[g] \in Nat
  BY <1>1, StreamFacts
<1>7. Append(streams[node], e) \in Seq(Recorded) /\ Len(Append(streams[node], e)) = Len(streams[node]) + 1
      /\ Len(streams[node]) \in Nat
  BY <1>5, <1>6
<1>8. streams' = [streams EXCEPT ![node] = Append(streams[node], e)]
  BY <1>2 DEF e
<1>9. streams' \in Seq(Seq(Recorded)) /\ Len(streams') = Len(program)
  BY <1>1, <1>6, <1>7, <1>8 DEF StreamsTyped
<1>10. \A g \in AllGroups : cursor[g] <= Len(streams'[g])
  <2>1. SUFFICES ASSUME NEW g \in AllGroups PROVE cursor[g] <= Len(streams'[g])
    OBVIOUS
  <2>2. cursor[g] <= Len(streams[g])
    BY <1>1 DEF StreamsTyped
  <2>3. CASE g = node
    BY <1>6, <1>7, <1>8, <2>2, <2>3
  <2>4. CASE g # node
    BY <1>6, <1>8, <2>2, <2>4 DEF AllGroups
  <2> QED BY <2>3, <2>4
<1>11. StreamsTyped'
  BY <1>1, <1>2, <1>3, <1>4, <1>9, <1>10 DEF StreamsTyped, AllGroups
<1>12. FrameIsSolved'
  BY <1>1 DEF FrameIsSolved
<1> QED BY <1>11, <1>12 DEF FrameInv

LEMMA ReplayPreserves ==
  ASSUME FrameInv, Replay, Inductive'
  PROVE  FrameInv'
<1>1. /\ StreamsTyped /\ FrameIsSolved /\ phase = "consume" /\ node # NoNode /\ Pending # {}
      /\ phase' = phase /\ frame' = frame /\ resolution' = resolution /\ solution' = solution
      /\ program' = program /\ streams' = streams /\ node' = node /\ passed' = Due
  BY DEF FrameInv, Replay, vars
<1> DEFINE q == program[node][Due].request
<1>2. PICK a \in Supplied(q) :
        \/ cursor' = cursor /\ answer' = answer
        \/ /\ cursor[node] < Len(streams[node])
           /\ cursor' = [cursor EXCEPT ![node] = cursor[node] + 1]
           /\ answer' \in {answer, streams[node][cursor[node] + 1].answer}
  BY DEF Replay
<1>3. /\ node \in DOMAIN program /\ DOMAIN program = DOMAIN streams /\ DOMAIN cursor = DOMAIN program
      /\ \A g \in DOMAIN program : streams[g] \in Seq(Recorded) /\ cursor[g] \in Nat
  BY <1>1, StreamFacts
<1>4. answer' \in Said
  <2>1. \A e \in Recorded : e.answer \in Said
    BY DEF Recorded, Asks
  <2>2. cursor[node] < Len(streams[node]) => streams[node][cursor[node] + 1] \in Recorded
    BY <1>3
  <2> QED BY <1>1, <1>2, <2>1, <2>2 DEF StreamsTyped
<1>5. /\ cursor' \in Seq(Nat) /\ Len(cursor') = Len(program)
      /\ \A g \in DOMAIN program : cursor'[g] <= Len(streams[g])
  <2>1. CASE cursor' = cursor
    BY <1>1, <2>1 DEF StreamsTyped, AllGroups
  <2>2. CASE /\ cursor[node] < Len(streams[node])
             /\ cursor' = [cursor EXCEPT ![node] = cursor[node] + 1]
    <3>1. cursor[node] + 1 \in Nat /\ cursor[node] + 1 <= Len(streams[node])
      BY <1>3, <2>2
    <3> QED BY <1>1, <1>3, <2>2, <3>1 DEF StreamsTyped, AllGroups
  <2> QED BY <1>2, <2>1, <2>2
<1>6. Due \in Nat
  BY <1>1, DueFacts
<1>7. StreamsTyped'
  BY <1>1, <1>4, <1>5, <1>6 DEF StreamsTyped, AllGroups
<1>8. FrameIsSolved'
  BY <1>1 DEF FrameIsSolved
<1> QED BY <1>7, <1>8 DEF FrameInv

\* The steps of the walks that record and repeat nothing.
LEMMA WalkPreserves ==
  ASSUME FrameInv, Inductive', UNCHANGED <<vars, program, streams, cursor, solution>>,
         node' \in AllGroups \cup {NoNode}, passed' \in Nat, answer' \in Said,
         node' # NoNode => phase \in {"preconsume", "consume"}
  PROVE  FrameInv'
<1>1. phase' = phase /\ frame' = frame /\ resolution' = resolution
  BY DEF vars
<1>2. StreamsTyped'
  BY <1>1 DEF FrameInv, StreamsTyped, AllGroups
<1>3. FrameIsSolved'
  BY <1>1 DEF FrameInv, FrameIsSolved
<1> QED BY <1>2, <1>3 DEF FrameInv

LEMMA BeginReplayingPreserves ==
  ASSUME FrameInv, BeginReplaying, Inductive'
  PROVE  FrameInv'
<1>1. /\ StreamsTyped /\ FrameIsSolved /\ phase = "resolve" /\ phase' = "consume"
      /\ frame' = frame /\ resolution' = resolution /\ solution' = solution /\ answer' = answer
      /\ program' = program /\ streams' = streams /\ node' = node /\ passed' = passed
      /\ cursor' = [g \in AllGroups |-> 0]
  BY DEF FrameInv, BeginReplaying, EnterConsume
<1>2. Len(program) \in Nat /\ DOMAIN program = 1 .. Len(program)
      /\ \A g \in DOMAIN program : streams[g] \in Seq(Recorded)
  BY <1>1 DEF StreamsTyped
<1>3. cursor' \in Seq(Nat) /\ Len(cursor') = Len(program)
  <2>1. cursor' \in [1 .. Len(program) -> Nat]
    BY <1>1, <1>2 DEF AllGroups
  <2> QED BY <1>2, <2>1
<1>4. \A g \in AllGroups : cursor'[g] <= Len(streams[g])
  BY <1>1, <1>2 DEF AllGroups
<1>5. StreamsTyped'
  BY <1>1, <1>3, <1>4 DEF StreamsTyped, AllGroups
<1>6. FrameIsSolved'
  BY <1>1 DEF FrameIsSolved
<1> QED BY <1>5, <1>6 DEF FrameInv

LEMMA SolveRequestsPreserves ==
  ASSUME FrameInv, SolveRequests
  PROVE  FrameInv'
<1> DEFINE s == Solve(Timeline(streams))
<1>1. /\ Inductive /\ StreamsTyped /\ FrameIsSolved /\ node = NoNode
      /\ s.ok /\ EnterResolve(Allocations(s)) /\ solution' = s
      /\ UNCHANGED <<program, streams, cursor, node, passed, answer>>
  BY DEF FrameInv, SolveRequests, Solved
<1>2. Timeline(streams) \in Seq(Recorded)
  BY <1>1, TimelineType DEF StreamsTyped
<1>3. WellFormed(Allocations(s))
  BY <1>1, <1>2, SolvedWell
<1> HIDE DEF s
<1>4. Inductive'
  BY <1>1, <1>3, StepPreserves
<1>5. StreamsTyped'
  BY <1>1 DEF StreamsTyped, AllGroups
<1>6. FrameIsSolved'
  BY <1>1 DEF FrameIsSolved, EnterResolve, s
<1> QED BY <1>4, <1>5, <1>6 DEF FrameInv

LEMMA FrameInitEstablishes == FrameInit => FrameInv
<1> SUFFICES ASSUME FrameInit PROVE FrameInv
  OBVIOUS
<1>1. Inductive
  BY InitEstablishes DEF FrameInit
<1>2. StreamsTyped
  <2>1. <<>> \in Seq(Seq(Step)) /\ <<>> \in Seq(Seq(Recorded)) /\ <<>> \in Seq(Nat)
        /\ Len(<<>>) = 0 /\ DOMAIN <<>> = {}
    OBVIOUS
  <2> QED BY <2>1 DEF StreamsTyped, FrameInit, AllGroups, Said
<1>3. FrameIsSolved
  BY DEF FrameIsSolved, FrameInit, Init
<1> QED BY <1>1, <1>2, <1>3 DEF FrameInv

\* Every step of a frame preserves the invariant.
LEMMA FrameStepPreserves ==
  ASSUME FrameInv, [FrameNext]_allVars
  PROVE  FrameInv'
<1>0. Inductive /\ StreamsTyped /\ FrameIsSolved
  BY DEF FrameInv
<1>1. ASSUME NEW p \in Programs, BeginRecording(p) PROVE FrameInv'
  <2>1. Inductive'
    BY <1>0, <1>1, StepPreserves DEF BeginRecording, Next
  <2> QED BY <1>1, <2>1, BeginRecordingPreserves
<1>2. UNCHANGED vars => Inductive'
  BY <1>0, StepPreserves
<1>3. ASSUME NEW g \in AllGroups, EnterNode(g) PROVE FrameInv'
  BY <1>2, <1>3, WalkPreserves DEF EnterNode, Said
<1>4. CASE Record
  BY <1>2, <1>4, RecordPreserves DEF Record
<1>5. CASE Replay
  BY <1>2, <1>5, ReplayPreserves DEF Replay
<1>6. CASE Sway
  <2>1. Due \in Nat /\ node \in AllGroups /\ answer \in Said
    BY <1>0, <1>6, DueFacts, StreamFacts DEF Sway, AllGroups, StreamsTyped
  <2> QED BY <1>2, <1>6, <2>1, WalkPreserves DEF Sway
<1>7. CASE LeaveNode
  BY <1>2, <1>7, WalkPreserves DEF LeaveNode, Said
<1>8. CASE SolveRequests
  BY <1>8, SolveRequestsPreserves
<1>9. CASE BeginReplaying
  BY <1>0, <1>9, StepPreserves, BeginReplayingPreserves DEF BeginReplaying, Next
<1>10. CASE CleanupFrame
  <2>1. Inductive' /\ resolution' = NoResolution /\ phase' = "cleanup"
    BY <1>0, <1>10, StepPreserves DEF CleanupFrame, Next, Cleanup, ClearedFrame
  <2> QED BY <1>10, <2>1, ClearedPreserves DEF CleanupFrame
<1>11. CASE GiveUp
  <2>1. Inductive' /\ resolution' = NoResolution /\ phase' = "startup"
    BY <1>0, <1>11, StepPreserves DEF GiveUp, Next, ResetForFrame, ClearedFrame
  <2> QED BY <1>11, <2>1, ClearedPreserves DEF GiveUp
<1>12. ASSUME NEW e \in Externals, Own(RegisterExternal(e)) PROVE FrameInv'
  <2>1. RegisterExternal(e) /\ BetweenWalks /\ UNCHANGED streamVars
    BY <1>12 DEF Own
  <2>2. Inductive'
    BY <1>0, <2>1, StepPreserves DEF Next
  <2> QED BY <2>1, <2>2, OwnPreserves DEF RegisterExternal
<1>13. ASSUME NEW b \in BOOLEAN, Own(SetProcessEviction(b)) PROVE FrameInv'
  <2>1. SetProcessEviction(b) /\ BetweenWalks /\ UNCHANGED streamVars
    BY <1>13 DEF Own
  <2>2. Inductive'
    BY <1>0, <2>1, StepPreserves DEF Next
  <2> QED BY <2>1, <2>2, OwnPreserves DEF SetProcessEviction
<1>14. CASE Own(ClearAllCaches) \/ Own(EnterStartup)
  <2>1. /\ ClearAllCaches \/ EnterStartup
        /\ BetweenWalks /\ UNCHANGED streamVars
    BY <1>14 DEF Own
  <2>2. Inductive'
    BY <1>0, <2>1, StepPreserves DEF Next
  <2> QED BY <2>1, <2>2, OwnPreserves DEF ClearAllCaches, EnterStartup
<1>15. CASE Own(BeginResolve) \/ Own(Publish)
  <2>1. /\ BeginResolve \/ Publish
        /\ BetweenWalks /\ UNCHANGED streamVars
    BY <1>15 DEF Own
  <2>2. Inductive'
    BY <1>0, <2>1, StepPreserves DEF Next
  <2> QED BY <2>1, <2>2, OwnPreserves DEF BeginResolve, Publish
<1>16. ASSUME NEW r \in todo, Own(Reuse(r)) \/ Own(Create(r)) \/ Own(Refuse(r)) PROVE FrameInv'
  <2>1. /\ Reuse(r) \/ Create(r) \/ Refuse(r)
        /\ BetweenWalks /\ UNCHANGED streamVars
    BY <1>16 DEF Own
  <2>2. Inductive'
    BY <1>0, <2>1, StepPreserves DEF Next
  <2> QED BY <2>1, <2>2, OwnPreserves DEF Reuse, Create, Refuse
<1>17. CASE UNCHANGED allVars
  <2>1. UNCHANGED <<vars, program, streams, cursor, solution, node, passed, answer>>
    BY <1>17 DEF allVars, streamVars
  <2>2. Inductive' /\ node' = node /\ passed' = passed /\ answer' = answer
    BY <1>2, <2>1
  <2>3. node \in AllGroups \cup {NoNode} /\ passed \in Nat /\ answer \in Said
        /\ (node # NoNode => phase \in {"preconsume", "consume"})
    BY <1>0 DEF StreamsTyped
  <2> QED BY <2>1, <2>2, <2>3, WalkPreserves
<1> QED BY <1>1, <1>3, <1>4, <1>5, <1>6, <1>7, <1>8, <1>9, <1>10, <1>11, <1>12, <1>13, <1>14,
        <1>15, <1>16, <1>17 DEF FrameNext

\* Whatever nodes record and however the walks go, the frame is what its
\* streams solve to.
THEOREM FrameInvariant == FrameSpec => []FrameInv
BY FrameInitEstablishes, FrameStepPreserves, PTL DEF FrameSpec

\* With every frame allowed, a frame is one of the pool's: what holds of the
\* pool holds whatever the nodes record.
THEOREM FramesRefineThePool ==
  ASSUME \A f : WellFormed(f) => f \in Frames
  PROVE  FrameSpec => Spec
<1>1. FrameInit => Init
  BY DEF FrameInit
<1>2. FrameInv /\ [FrameNext]_allVars => [Next]_vars
  <2> SUFFICES ASSUME FrameInv, [FrameNext]_allVars PROVE [Next]_vars
    OBVIOUS
  <2>1. CASE SolveRequests
    <3> DEFINE s == Solve(Timeline(streams))
    <3>1. s.ok /\ EnterResolve(Allocations(s))
      BY <2>1 DEF SolveRequests, Solved
    <3>2. Timeline(streams) \in Seq(Recorded)
      BY TimelineType DEF FrameInv, StreamsTyped
    <3>3. WellFormed(Allocations(s))
      BY <3>1, <3>2, SolvedWell
    <3> HIDE DEF s
    <3> QED BY <3>1, <3>3 DEF Next
  <2>2. CASE \/ \E p \in Programs : BeginRecording(p)
             \/ BeginReplaying \/ CleanupFrame \/ GiveUp
    BY <2>2 DEF BeginRecording, BeginReplaying, CleanupFrame, GiveUp, Next
  <2>3. CASE (\E g \in AllGroups : EnterNode(g)) \/ Record \/ Replay \/ Sway \/ LeaveNode
    BY <2>3 DEF EnterNode, Record, Replay, Sway, LeaveNode
  <2>4. CASE \/ \E e \in Externals : Own(RegisterExternal(e))
             \/ \E b \in BOOLEAN : Own(SetProcessEviction(b))
             \/ Own(ClearAllCaches) \/ Own(EnterStartup)
             \/ Own(BeginResolve) \/ Own(Publish)
             \/ \E r \in todo : Own(Reuse(r)) \/ Own(Create(r)) \/ Own(Refuse(r))
    BY <2>4 DEF Own, Next
  <2>5. CASE UNCHANGED allVars
    BY <2>5 DEF allVars
  <2> QED BY <2>1, <2>2, <2>3, <2>4, <2>5 DEF FrameNext
<1> QED BY <1>1, <1>2, FrameInvariant, PTL DEF FrameSpec, Spec

\* The states the solver went through on the way to the solution.
Explains(T, S) ==
  /\ S[Len(T)] = solution /\ MakerRun(T, Maker)
  /\ \A k \in 0 .. Len(T) :
       /\ S[k] \in States /\ Settled(S[k], Maker[k], k) /\ Grows(S[k], solution)
       /\ \A tag \in Tags : Lookup(solution, tag, k) = NameAt(S[k], tag)
  /\ \A k \in 1 .. Len(T) : Follows(S[k - 1], S[k], T[k], k)

LEMMA SolutionExplained ==
  ASSUME FrameInv, phase \in {"resolve", "consume"}
  PROVE  /\ Timeline(streams) \in Seq(Recorded)
         /\ \E S : Explains(Timeline(streams), S)
<1> DEFINE T == Timeline(streams)
<1>1. T \in Seq(Recorded)
  BY TimelineType DEF FrameInv, StreamsTyped
<1>2. solution = Solve(T) /\ solution.ok
  BY DEF FrameInv, FrameIsSolved
<1>3. PICK S : SolverRun(T, S) /\ Solve(T) = S[Len(T)]
  BY <1>1, SolverStates
<1>4. MakerRun(T, Maker)
  BY <1>1, MakerStates
<1>5. S[Len(T)] = solution /\ S[Len(T)].ok
  BY <1>2, <1>3
<1> HIDE DEF T
<1>6. /\ \A k \in 0 .. Len(T) :
              /\ S[k] \in States /\ Settled(S[k], Maker[k], k) /\ Grows(S[k], S[Len(T)])
              /\ \A tag \in Tags : Lookup(S[Len(T)], tag, k) = NameAt(S[k], tag)
      /\ \A k \in 1 .. Len(T) : Follows(S[k - 1], S[k], T[k], k)
  BY <1>1, <1>3, <1>4, <1>5, SolverFacts
<1>7. Explains(T, S)
  BY <1>4, <1>5, <1>6 DEF Explains
<1> QED BY <1>1, <1>7 DEF T

\* What a tag names at a time is an instance that is in the solution, and its
\* start says who made it.
LEMMA NamedInSolution ==
  ASSUME NEW T \in Seq(Recorded), NEW S, Explains(T, S), NEW k \in 0 .. Len(T), NEW tag \in Tags
  PROVE  LET i == Lookup(solution, tag, k)
         IN  \/ i \in DOMAIN solution.instances /\ Maker[k][tag] = solution.instances[i].start
                /\ Maker[k][tag] # 0
             \/ i = NoInstance /\ Maker[k][tag] = 0
<1> DEFINE i == Lookup(solution, tag, k)
<1>1. /\ S[k] \in States /\ Settled(S[k], Maker[k], k) /\ Grows(S[k], solution)
      /\ i = NameAt(S[k], tag)
  BY DEF Explains
<1>2. Len(T) \in 0 .. Len(T)
  OBVIOUS
<1>3. solution \in States
  BY <1>2 DEF Explains
<1> HIDE DEF i
<1>4. Maker[k][tag] = StartOf(S[k], i)
  BY <1>1 DEF Settled
<1>5. DOMAIN S[k].instances \subseteq DOMAIN solution.instances
  <2>1. /\ Len(S[k].instances) \in Nat /\ DOMAIN S[k].instances = 1 .. Len(S[k].instances)
        /\ Len(solution.instances) \in Nat
        /\ DOMAIN solution.instances = 1 .. Len(solution.instances)
    BY <1>1, <1>3, NamesArePositive
  <2> QED BY <1>1, <2>1 DEF Grows
<1>6. i \in DOMAIN S[k].instances \/ i = NoInstance
  BY <1>1, NameFacts
<1>7. ASSUME i \in DOMAIN S[k].instances
      PROVE  /\ i \in DOMAIN solution.instances
             /\ Maker[k][tag] = solution.instances[i].start /\ Maker[k][tag] # 0
  <2>1. i # NoInstance
    BY <1>1, <1>7, NamesArePositive
  <2>2. S[k].instances[i].start = solution.instances[i].start /\ 1 <= S[k].instances[i].start
    BY <1>1, <1>7 DEF Grows, Settled
  <2>3. ~(1 <= 0)
    OBVIOUS
  <2> QED BY <1>4, <1>5, <1>7, <2>1, <2>2, <2>3 DEF StartOf
<1> QED BY <1>4, <1>6, <1>7 DEF i, StartOf

\* A use falls into the range of the instance its tag names.
LEMMA UsesFallWithin ==
  ASSUME NEW T \in Seq(Recorded), NEW S, Explains(T, S), NEW x \in 1 .. Len(T),
         T[x].kind \in {"useBegin", "useEnd"}
  PROVE  LET i == Lookup(solution, T[x].tag, x)
         IN  /\ i \in DOMAIN solution.instances /\ solution.instances[i].touched
             /\ solution.instances[i].start <= x /\ x <= solution.instances[i].end
             /\ Maker[x][T[x].tag] = solution.instances[i].start
<1> DEFINE tag == T[x].tag
           i == Lookup(solution, tag, x)
           a == S[x].instances[i]
           z == solution.instances[i]
<1>1. /\ T[x] \in Recorded /\ tag \in Tags /\ x \in 0 .. Len(T) /\ x - 1 \in 0 .. Len(T)
      /\ Len(T) \in 0 .. Len(T) /\ x \in Nat
  <2>1. T[x] \in Recorded /\ Len(T) \in Nat
    OBVIOUS
  <2> QED BY <2>1, RequestFields
<1>2. /\ S[x] \in States /\ S[x - 1] \in States /\ Settled(S[x], Maker[x], x)
      /\ Grows(S[x], solution) /\ i = NameAt(S[x], tag) /\ Follows(S[x - 1], S[x], T[x], x)
      /\ solution \in States
  BY <1>1 DEF Explains
<1>3. /\ NameAt(S[x - 1], tag) \in DOMAIN S[x - 1].instances
      /\ S[x].instances[NameAt(S[x - 1], tag)].touched /\ S[x].instances[NameAt(S[x - 1], tag)].end = x
  BY <1>2 DEF Follows
<1>4. NameAt(S[x], tag) = NameAt(S[x - 1], tag)
  <2>1. NameAt(S[x], tag) = AfterName(S[x - 1], T[x], Len(S[x - 1].instances) + 1, tag)
    BY <1>1, <1>2 DEF Follows
  <2>2. ~Makes(T[x], tag) /\ T[x].kind # "free" /\ T[x].kind # "swap"
    BY DEF Makes
  <2> QED BY <2>1, <2>2 DEF AfterName
<1>5. i \in DOMAIN S[x].instances /\ a.touched /\ a.end = x
  <2>1. i # NoInstance
    BY <1>2, <1>3, <1>4, NamesArePositive
  <2>2. i \in DOMAIN S[x].instances
    BY <1>2, <2>1, NameFacts
  <2> QED BY <1>2, <1>3, <1>4, <2>2
<1>6. a.start <= x
  BY <1>2, <1>5 DEF Settled
<1>7. z.start = a.start /\ z.touched /\ x <= z.end
  BY <1>2, <1>5 DEF Grows
<1>8. /\ i \in DOMAIN solution.instances /\ Maker[x][tag] = z.start
  <2>1. i # NoInstance
    BY <1>2, <1>5, NamesArePositive
  <2> QED BY <1>1, <2>1, NamedInSolution
<1> QED BY <1>6, <1>7, <1>8

LEMMA StartsDiffer ==
  ASSUME NEW T \in Seq(Recorded), NEW S, Explains(T, S),
         NEW i \in DOMAIN solution.instances, NEW j \in DOMAIN solution.instances,
         solution.instances[i].start = solution.instances[j].start
  PROVE  i = j
<1>1. Len(T) \in 0 .. Len(T)
  OBVIOUS
<1>2. solution \in States /\ Settled(solution, Maker[Len(T)], Len(T))
  BY <1>1 DEF Explains
<1>3. /\ Len(solution.instances) \in Nat
      /\ DOMAIN solution.instances = 1 .. Len(solution.instances)
      /\ solution.instances[i].start \in Nat /\ solution.instances[j].start \in Nat
  BY <1>2, NamesArePositive DEF Instances
<1>4. /\ i < j => solution.instances[i].start < solution.instances[j].start
      /\ j < i => solution.instances[j].start < solution.instances[i].start
  BY <1>2 DEF Settled
<1> QED BY <1>3, <1>4

\* The pool's requests are the instances that were used.
LEMMA RequestsAreInstances ==
  ASSUME FrameInv, phase \in {"resolve", "consume"}, resolution # NoResolution
  PROVE  /\ DOMAIN resolution = {i \in DOMAIN solution.instances : solution.instances[i].touched}
         /\ \A i \in DOMAIN resolution : /\ frame[i].start = solution.instances[i].start
                                         /\ frame[i].end = solution.instances[i].end
BY DEF FrameInv, FrameIsSolved, Allocations

LEMMA UsesAreKept == FrameInv => UsesKeepTheirContents
<1> SUFFICES ASSUME FrameInv, Resolved PROVE UsesKeepTheirContents
  BY DEF UsesKeepTheirContents
<1> DEFINE T == Timeline(streams)
           uses == {x \in DOMAIN T : T[x].kind \in {"useBegin", "useEnd"}}
           i(x) == Lookup(solution, T[x].tag, x)
           made(x) == Maker[x][T[x].tag]
           got(x) == ResolvedAt(T[x].tag, x)
           start(x) == solution.instances[i(x)].start
           end(x) == solution.instances[i(x)].end
<1>1. phase \in {"resolve", "consume"} /\ resolution # NoResolution
  BY DEF Resolved
<1>2. T \in Seq(Recorded)
  BY <1>1, SolutionExplained
<1>3. PICK S : Explains(T, S)
  BY <1>1, SolutionExplained
<1> HIDE DEF T
<1>4. ASSUME NEW x \in uses
      PROVE  /\ x \in Nat /\ i(x) \in DOMAIN solution.instances /\ solution.instances[i(x)].touched
             /\ start(x) <= x /\ x <= end(x) /\ made(x) = start(x)
  <2>1. x \in 1 .. Len(T) /\ T[x].kind \in {"useBegin", "useEnd"}
    BY <1>2
  <2> QED BY <1>2, <1>3, <2>1, UsesFallWithin
<1>5. ASSUME NEW x \in uses
      PROVE  /\ i(x) \in DOMAIN resolution /\ got(x) = resolution[i(x)].id
             /\ frame[i(x)].start = start(x) /\ frame[i(x)].end = end(x)
  <2>1. i(x) \in DOMAIN resolution
    BY <1>1, <1>4, RequestsAreInstances
  <2> QED BY <1>1, <2>1, RequestsAreInstances DEF ResolvedAt
<1>6. \A x \in uses : start(x) \in Nat /\ end(x) \in Nat
  <2>1. Len(T) \in 0 .. Len(T)
    BY <1>2
  <2>2. solution \in States
    BY <1>3, <2>1 DEF Explains
  <2> QED BY <1>4, <2>2, NamesArePositive DEF Instances
<1>7. ASSUME NEW x \in uses, NEW y \in uses, NEW z \in uses, x <= z, z <= y, made(x) = made(y)
      PROVE  made(z) = made(x) <=> got(z) = got(x)
  <2>1. i(x) = i(y)
    <3>1. start(x) = start(y)
      BY <1>4, <1>7
    <3> QED BY <1>2, <1>3, <1>4, <3>1, StartsDiffer
  <2>2. CASE made(z) = made(x)
    <3>1. start(z) = start(x)
      BY <1>4, <2>2
    <3>2. i(z) = i(x)
      BY <1>2, <1>3, <1>4, <3>1, StartsDiffer
    <3> QED BY <1>5, <2>2, <3>2
  <2>3. CASE made(z) # made(x)
    <3>1. i(z) # i(x)
      BY <1>4, <2>3
    <3>2. start(x) <= z /\ z <= end(x)
      <4>1. start(x) <= x /\ y <= end(y) /\ end(y) = end(x)
        BY <1>4, <2>1
      <4>2. x \in Nat /\ y \in Nat /\ z \in Nat
        BY <1>4
      <4> HIDE DEF start, end, i, uses
      <4> QED BY <1>6, <1>7, <4>1, <4>2
    <3>3. start(z) <= z /\ z <= end(z) /\ z \in Nat
      BY <1>4
    <3>4. ~Apart(i(x), i(z))
      <4>1. ~(end(x) < start(z)) /\ ~(end(z) < start(x))
        <5> HIDE DEF start, end, i, uses
        <5> QED BY <1>6, <3>2, <3>3
      <4> QED BY <1>5, <4>1 DEF Apart
    <3>5. resolution[i(x)].id # resolution[i(z)].id
      <4>1. NoSharing /\ i(x) \in DOMAIN resolution /\ i(z) \in DOMAIN resolution
        BY <1>5 DEF FrameInv, Inductive
      <4> HIDE DEF i
      <4> QED BY <3>1, <3>4, <4>1 DEF NoSharing
    <3> QED BY <1>5, <2>3, <3>5
  <2> QED BY <2>2, <2>3
<1> HIDE DEF made, got
<1>8. \A x, y, z \in uses :
        x <= z /\ z <= y /\ made(x) = made(y) => (made(z) = made(x) <=> got(z) = got(x))
  BY <1>7
<1> QED BY <1>8 DEF UsesKeepTheirContents, made, got, T

\* From its first use to its last a resource keeps its contents: every use of
\* it retrieves the same pooled resource, and no use of another retrieves that
\* one meanwhile, whatever the nodes declare, swap and free (lifetime.rs,
\* pool.rs, resolved_allocation_id_at).
THEOREM UsesRetrieveTheirOwn == FrameSpec => []UsesKeepTheirContents
BY FrameInvariant, UsesAreKept, PTL

LEMMA GettersFollow == FrameInv => GettersFollowTheTimeline
<1> SUFFICES ASSUME FrameInv, CanRetrieve, node # NoNode, cursor[node] > 0
             PROVE  GettersFollowTheTimeline
  BY DEF GettersFollowTheTimeline
<1> DEFINE T == Timeline(streams)
           k == Offset(node) + cursor[node]
<1>1. phase \in {"resolve", "consume"} /\ resolution # NoResolution
  BY DEF CanRetrieve
<1>2. T \in Seq(Recorded)
  BY <1>1, SolutionExplained
<1>3. PICK S : Explains(T, S)
  BY <1>1, SolutionExplained
<1>4. k \in 0 .. Len(T)
  <2>1. StreamsTyped
    BY DEF FrameInv
  <2>2. /\ node \in 1 .. Len(streams) /\ streams \in Seq(Seq(Recorded))
        /\ cursor[node] \in Nat /\ cursor[node] <= Len(streams[node]) /\ Len(streams[node]) \in Nat
    BY <2>1, StreamFacts DEF StreamsTyped
  <2>3. /\ Offset(node) \in Nat /\ Offset(node) + Len(streams[node]) <= Len(T)
    BY <2>2, GroupsLieWithin DEF Offset
  <2>4. Len(T) \in Nat
    BY <1>2
  <2> HIDE DEF T
  <2> QED BY <2>2, <2>3, <2>4
<1> HIDE DEF T, k
<1>5. ASSUME NEW tag \in Tags
      PROVE  LET made == Maker[k][tag]
             IN  ResolvedAt(tag, k) =
                   IF \E i \in DOMAIN resolution : solution.instances[i].start = made
                   THEN resolution[CHOOSE i \in DOMAIN resolution :
                                     solution.instances[i].start = made].id
                   ELSE NoResource
  <2> DEFINE made == Maker[k][tag]
             j == Lookup(solution, tag, k)
  <2>1. \/ j \in DOMAIN solution.instances /\ made = solution.instances[j].start /\ made # 0
        \/ j = NoInstance /\ made = 0
    BY <1>2, <1>3, <1>4, NamedInSolution
  <2>2. DOMAIN resolution \subseteq DOMAIN solution.instances
    BY <1>1, RequestsAreInstances
  <2>3. NoInstance \notin DOMAIN solution.instances
        /\ \A i \in DOMAIN solution.instances : solution.instances[i].start # 0
    <3>1. Len(T) \in 0 .. Len(T)
      BY <1>2
    <3>2. solution \in States /\ Settled(solution, Maker[Len(T)], Len(T))
      BY <1>3, <3>1 DEF Explains
    <3>3. ~(1 <= 0)
      OBVIOUS
    <3> QED BY <3>2, <3>3, NamesArePositive DEF Settled
  <2>4. ResolvedAt(tag, k) = IF j \in DOMAIN resolution THEN resolution[j].id ELSE NoResource
    BY DEF ResolvedAt
  <2> HIDE DEF made, j
  <2>5. CASE j \in DOMAIN resolution
    <3>1. made = solution.instances[j].start
      BY <2>1, <2>2, <2>3, <2>5
    <3>2. \A i \in DOMAIN resolution : solution.instances[i].start = made => i = j
      BY <1>2, <1>3, <2>2, <2>5, <3>1, StartsDiffer
    <3>3. (CHOOSE i \in DOMAIN resolution : solution.instances[i].start = made) = j
      BY <2>5, <3>1, <3>2
    <3> QED BY <2>4, <2>5, <3>1, <3>3 DEF made
  <2>6. CASE j \notin DOMAIN resolution
    <3>1. ~ \E i \in DOMAIN resolution : solution.instances[i].start = made
      <4>1. SUFFICES ASSUME NEW i \in DOMAIN resolution, solution.instances[i].start = made
                     PROVE  FALSE
        OBVIOUS
      <4>2. i \in DOMAIN solution.instances /\ made # 0
        BY <2>2, <2>3, <4>1
      <4>3. j \in DOMAIN solution.instances /\ made = solution.instances[j].start
        BY <2>1, <4>2
      <4>4. i = j
        BY <1>2, <1>3, <4>1, <4>2, <4>3, StartsDiffer
      <4> QED BY <2>6, <4>4
    <3> QED BY <2>4, <2>6, <3>1 DEF made
  <2> QED BY <2>5, <2>6
<1> QED BY <1>5 DEF GettersFollowTheTimeline, Retrieved, current_consume_time, k

\* In whatever order the nodes of the consume walk come, a node retrieves under
\* a tag what the tag names at that point of GPU order (current_consume_time,
\* TagLifetime::lookup).
THEOREM GettersSeeTheirTime == FrameSpec => []GettersFollowTheTimeline
BY FrameInvariant, GettersFollow, PTL

\* No two requests of a recorded frame that are alive together share a
\* resource, whatever the nodes record.
THEOREM FramesDoNotShare == FrameSpec => []NoSharing
<1>1. FrameInv => NoSharing
  BY DEF FrameInv, Inductive
<1> QED BY <1>1, FrameInvariant, PTL

-----------------------------------------------------------------------------
(* Recording and replaying: what a node asked is told by its stream.        *)

NextSteps(steps, p, said) == {k \in DOMAIN steps : k > p /\ steps[k].when \in {NoAnswer, said}}
Least(d, D) == d \in D /\ \A k \in D : d <= k

\* What is supplied along with a request after what was asked before.
SuppliedAfter(q, before) ==
  CASE q.kind = "decision"   -> {"yes", "no"}
    [] q.kind = "isDeclared" -> {DeclaredIn(before, q.tag)}
    [] OTHER                 -> {NoAnswer}

\* A stream as the node's steps lead to it: the step of each request, and the
\* last answer after it.
Run(steps, stream, at, said) ==
  /\ at \in [0 .. Len(stream) -> Nat] /\ said \in [0 .. Len(stream) -> Said]
  /\ at[0] = 0 /\ said[0] = NoAnswer
  /\ \A k \in 1 .. Len(stream) :
       LET q == steps[at[k]].request
       IN  /\ Least(at[k], NextSteps(steps, at[k - 1], said[k - 1]))
           /\ stream[k] = [q EXCEPT !.answer = stream[k].answer]
           /\ stream[k].answer \in SuppliedAfter(q, SubSeq(stream, 1, k - 1))
           /\ said[k] = IF Answers(q) THEN stream[k].answer ELSE said[k - 1]

Over(steps, stream, at, said) == NextSteps(steps, at[Len(stream)], said[Len(stream)]) = {}

\* A node that recorded the stream is at step p, with the answer "now".
RunsTo(steps, stream, p, now) ==
  \E at, said : Run(steps, stream, at, said) /\ at[Len(stream)] = p /\ said[Len(stream)] = now

Whole(steps, stream) ==
  \E at, said : Run(steps, stream, at, said) /\ Over(steps, stream, at, said)

\* A node that repeated c requests is where the run had it then.
StandsAt(steps, stream, c, p, now) ==
  \E at, said : /\ Run(steps, stream, at, said) /\ Over(steps, stream, at, said)
                /\ p = at[c] /\ now = said[c]

\* A node that repeated c requests is past the step of the one to come.
LagsBehind(steps, stream, c, p, now) ==
  \E at, said : /\ Run(steps, stream, at, said) /\ Over(steps, stream, at, said)
                /\ c < Len(stream) /\ p >= at[c + 1] /\ now = said[c]

LEMMA NextStepsAre ==
  /\ Pending = NextSteps(program[node], passed, answer)
  /\ \A q : Supplied(q) = SuppliedAfter(q, SubSeq(streams[node], 1, Position(node)))
BY DEF Pending, NextSteps, Supplied, SuppliedAfter

LEMMA RunStarts ==
  ASSUME NEW steps
  PROVE  RunsTo(steps, <<>>, 0, NoAnswer)
<1> DEFINE at == [k \in 0 .. 0 |-> 0]
           said == [k \in 0 .. 0 |-> NoAnswer]
<1>1. Len(<<>>) = 0
  OBVIOUS
<1>2. NoAnswer \in Said
  BY DEF Said
<1>3. Run(steps, <<>>, at, said) /\ at[0] = 0 /\ said[0] = NoAnswer
  BY <1>1, <1>2 DEF Run
<1> QED BY <1>1, <1>3 DEF RunsTo

LEMMA PrefixOfAppend ==
  ASSUME NEW R, NEW s \in Seq(R), NEW e \in R, NEW m \in 0 .. Len(s)
  PROVE  SubSeq(Append(s, e), 1, m) = SubSeq(s, 1, m)
<1>1. /\ Len(s) \in Nat /\ Append(s, e) \in Seq(R) /\ Len(Append(s, e)) = Len(s) + 1
      /\ \A i \in 1 .. Len(s) : Append(s, e)[i] = s[i]
  OBVIOUS
<1> DEFINE t == Append(s, e)
<1> HIDE DEF t
<1>2. /\ SubSeq(t, 1, m) = [i \in 1 .. m |-> t[i]]
      /\ SubSeq(s, 1, m) = [i \in 1 .. m |-> s[i]]
  BY <1>1 DEF t
<1>3. \A i \in 1 .. m : t[i] = s[i]
  BY <1>1 DEF t
<1> QED BY <1>2, <1>3 DEF t

\* A request with the answer it got.
Answered(q, a) == [q EXCEPT !.answer = a]

\* One more request is recorded.
LEMMA RunGrows ==
  ASSUME NEW steps \in Seq(Step), NEW stream \in Seq(Recorded), NEW p, NEW now,
         RunsTo(steps, stream, p, now),
         NEW d, Least(d, NextSteps(steps, p, now)),
         NEW a, a \in SuppliedAfter(steps[d].request, SubSeq(stream, 1, Len(stream)))
  PROVE  RunsTo(steps, Append(stream, Answered(steps[d].request, a)), d,
                IF Answers(steps[d].request) THEN a ELSE now)
<1>0. PICK at, said : /\ Run(steps, stream, at, said)
                      /\ at[Len(stream)] = p /\ said[Len(stream)] = now
  BY DEF RunsTo
<1> DEFINE q == steps[d].request
           m == Len(stream)
           e == [q EXCEPT !.answer = a]
           longer == Append(stream, e)
           last == IF Answers(q) THEN a ELSE said[m]
           at2 == [k \in 0 .. m + 1 |-> IF k = m + 1 THEN d ELSE at[k]]
           said2 == [k \in 0 .. m + 1 |-> IF k = m + 1 THEN last ELSE said[k]]
<1>1. /\ m \in Nat /\ at \in [0 .. m -> Nat] /\ said \in [0 .. m -> Said]
      /\ at[0] = 0 /\ said[0] = NoAnswer
  BY <1>0 DEF Run
<1>2. d \in DOMAIN steps /\ d \in Nat /\ steps[d] \in Step /\ q \in Asks({NoAnswer})
  <2>1. d \in DOMAIN steps
    BY DEF Least, NextSteps
  <2>2. d \in Nat /\ steps[d] \in Step
    BY <2>1
  <2> QED BY <2>1, <2>2 DEF Step
<1>3. a \in Said
  BY DEF SuppliedAfter, DeclaredIn, Said, NoAnswer
<1> HIDE DEF q
<1>4. e \in Recorded /\ e.answer = a
  BY <1>2, <1>3, AskedIsRecorded DEF Asks
<1> HIDE DEF e
<1>5. /\ longer \in Seq(Recorded) /\ Len(longer) = m + 1 /\ longer[m + 1] = e
      /\ \A k \in 1 .. m : longer[k] = stream[k]
  BY <1>4
<1>6. \A k \in 0 .. m : SubSeq(longer, 1, k) = SubSeq(stream, 1, k)
  BY <1>4, PrefixOfAppend
<1> HIDE DEF longer
<1>7. at2 \in [0 .. m + 1 -> Nat] /\ said2 \in [0 .. m + 1 -> Said]
  <2>1. last \in Said
    BY <1>1, <1>3
  <2>2. \A k \in 0 .. m + 1 : k # m + 1 => k \in 0 .. m
    BY <1>1
  <2> HIDE DEF last, m
  <2> QED BY <1>1, <1>2, <2>1, <2>2
<1>8. /\ at2[m + 1] = d /\ said2[m + 1] = last
      /\ \A k \in 0 .. m : at2[k] = at[k] /\ said2[k] = said[k]
  BY <1>1
<1> HIDE DEF at2, said2, last
<1>9. ASSUME NEW k \in 1 .. m + 1
      PROVE  LET r == steps[at2[k]].request
             IN  /\ Least(at2[k], NextSteps(steps, at2[k - 1], said2[k - 1]))
                 /\ longer[k] = [r EXCEPT !.answer = longer[k].answer]
                 /\ longer[k].answer \in SuppliedAfter(r, SubSeq(longer, 1, k - 1))
                 /\ said2[k] = IF Answers(r) THEN longer[k].answer ELSE said2[k - 1]
  <2>1. CASE k = m + 1
    <3>1. k - 1 = m /\ m \in 0 .. m
      BY <1>1, <2>1
    <3>2. longer[k] = [q EXCEPT !.answer = longer[k].answer]
      BY <1>4, <1>5, <2>1 DEF e
    <3> QED BY <1>0, <1>4, <1>5, <1>6, <1>8, <2>1, <3>1, <3>2 DEF q, last
  <2>2. CASE k # m + 1
    <3>1. k \in 1 .. m /\ k \in 0 .. m /\ k - 1 \in 0 .. m
      BY <1>1, <2>2
    <3>2. at2[k] = at[k] /\ at2[k - 1] = at[k - 1] /\ said2[k] = said[k] /\ said2[k - 1] = said[k - 1]
          /\ longer[k] = stream[k] /\ SubSeq(longer, 1, k - 1) = SubSeq(stream, 1, k - 1)
      BY <1>5, <1>6, <1>8, <3>1
    <3> QED BY <1>0, <3>1, <3>2 DEF Run
  <2> QED BY <2>1, <2>2
<1>10. Run(steps, longer, at2, said2)
  <2>1. 0 \in 0 .. m
    BY <1>1
  <2> QED BY <1>1, <1>5, <1>7, <1>8, <1>9, <2>1 DEF Run
<1> QED BY <1>0, <1>5, <1>8, <1>10 DEF RunsTo, longer, e, q, last, Answered

LEMMA RunEnds ==
  ASSUME NEW steps \in Seq(Step), NEW stream \in Seq(Recorded), NEW at, NEW said,
         Run(steps, stream, at, said), Over(steps, stream, at, said),
         NEW c \in 0 .. Len(stream)
  PROVE  /\ NextSteps(steps, at[c], said[c]) = {} <=> c = Len(stream)
         /\ c < Len(stream) => /\ c + 1 \in 1 .. Len(stream) /\ (c + 1) - 1 = c
                               /\ Least(at[c + 1], NextSteps(steps, at[c], said[c]))
<1> DEFINE N == NextSteps(steps, at[c], said[c])
<1>1. Len(stream) \in Nat /\ c \in Nat /\ c <= Len(stream)
  OBVIOUS
<1>2. c = Len(stream) => N = {}
  BY DEF Over
<1>3. ASSUME c < Len(stream)
      PROVE  /\ c + 1 \in 1 .. Len(stream) /\ (c + 1) - 1 = c /\ Least(at[c + 1], N)
  <2>1. c + 1 \in 1 .. Len(stream) /\ (c + 1) - 1 = c
    BY <1>1, <1>3
  <2>2. Least(at[c + 1], NextSteps(steps, at[(c + 1) - 1], said[(c + 1) - 1]))
    BY <2>1 DEF Run
  <2> QED BY <2>1, <2>2
<1>4. N = {} <=> c = Len(stream)
  BY <1>1, <1>2, <1>3 DEF Least
<1> QED BY <1>3, <1>4

LEMMA RunRepeats ==
  ASSUME NEW steps \in Seq(Step), NEW stream \in Seq(Recorded), NEW at, NEW said,
         Run(steps, stream, at, said), Over(steps, stream, at, said),
         NEW c \in 0 .. Len(stream),
         NEW d, Least(d, NextSteps(steps, at[c], said[c])),
         NEW a \in SuppliedAfter(steps[d].request, SubSeq(stream, 1, c))
  PROVE  /\ c < Len(stream) /\ c + 1 \in 1 .. Len(stream) /\ at[c + 1] = d
         /\ said[c + 1] = IF Answers(steps[d].request) THEN stream[c + 1].answer ELSE said[c]
         /\ MatchesReplay(Answered(steps[d].request, a), stream[c + 1])
<1> DEFINE N == NextSteps(steps, at[c], said[c])
           q == steps[d].request
           r == stream[c + 1]
<1>1. c < Len(stream) /\ a \in SuppliedAfter(q, SubSeq(stream, 1, c))
  <2>1. NextSteps(steps, at[c], said[c]) # {}
    BY DEF Least
  <2>2. c # Len(stream)
    BY <2>1, RunEnds
  <2> QED BY <2>2
<1>2. c + 1 \in 1 .. Len(stream) /\ (c + 1) - 1 = c /\ Least(at[c + 1], N)
  BY <1>1, RunEnds
<1>3. N \subseteq Nat
  BY DEF NextSteps
<1>4. d = at[c + 1]
  <2>1. d \in Nat /\ at[c + 1] \in Nat /\ d <= at[c + 1] /\ at[c + 1] <= d
    BY <1>2, <1>3 DEF Least
  <2> QED BY <2>1
<1>5. /\ r = [q EXCEPT !.answer = r.answer]
      /\ r.answer \in SuppliedAfter(q, SubSeq(stream, 1, c))
      /\ said[c + 1] = IF Answers(q) THEN r.answer ELSE said[c]
  BY <1>2, <1>4 DEF Run
<1>6. q \in Asks({NoAnswer}) /\ r \in Recorded
  <2>1. d \in DOMAIN steps
    BY DEF Least, NextSteps
  <2>2. steps[d] \in Step
    BY <2>1
  <2> QED BY <1>2, <2>2 DEF Step
<1> HIDE DEF q, r
<1>7. MatchesReplay([q EXCEPT !.answer = a], r)
  <2>1. CASE q.kind = "decision"
    <3>1. [q EXCEPT !.answer = a].kind = "decision" /\ r.kind = "decision"
      BY <1>5, <1>6, <2>1 DEF Asks
    <3> QED BY <3>1 DEF MatchesReplay
  <2>2. CASE q.kind # "decision"
    <3>1. a = r.answer
      BY <1>1, <1>5, <2>2 DEF SuppliedAfter
    <3> QED BY <1>5, <3>1 DEF MatchesReplay
  <2> QED BY <2>1, <2>2
<1> QED BY <1>1, <1>2, <1>4, <1>5, <1>7 DEF q, r, Answered

\* A node that stands where its run had it has nothing left to ask exactly when
\* it repeated the whole stream; else it asks what comes next in the stream.
LEMMA StandsFacts ==
  ASSUME NEW steps \in Seq(Step), NEW stream \in Seq(Recorded), NEW c \in 0 .. Len(stream),
         NEW p, NEW now, StandsAt(steps, stream, c, p, now)
  PROVE  NextSteps(steps, p, now) = {} <=> c = Len(stream)
<1>1. PICK at, said : /\ Run(steps, stream, at, said) /\ Over(steps, stream, at, said)
                      /\ p = at[c] /\ now = said[c]
  BY DEF StandsAt
<1>2. NextSteps(steps, at[c], said[c]) = {} <=> c = Len(stream)
  BY <1>1, RunEnds
<1> QED BY <1>1, <1>2

LEMMA StandsOn ==
  ASSUME NEW steps \in Seq(Step), NEW stream \in Seq(Recorded), NEW c \in 0 .. Len(stream),
         NEW p, NEW now, StandsAt(steps, stream, c, p, now),
         NEW d, Least(d, NextSteps(steps, p, now)),
         NEW a, a \in SuppliedAfter(steps[d].request, SubSeq(stream, 1, c))
  PROVE  /\ c < Len(stream) /\ MatchesReplay(Answered(steps[d].request, a), stream[c + 1])
         /\ StandsAt(steps, stream, c + 1, d,
                     IF Answers(steps[d].request) THEN stream[c + 1].answer ELSE now)
         /\ LagsBehind(steps, stream, c, d, now)
<1>1. PICK at, said : /\ Run(steps, stream, at, said) /\ Over(steps, stream, at, said)
                      /\ p = at[c] /\ now = said[c]
  BY DEF StandsAt
<1> DEFINE N == NextSteps(steps, at[c], said[c])
<1>2. Least(d, N)
  BY <1>1
<1>3. /\ c < Len(stream) /\ c + 1 \in 1 .. Len(stream) /\ at[c + 1] = d
      /\ said[c + 1] = IF Answers(steps[d].request) THEN stream[c + 1].answer ELSE said[c]
      /\ MatchesReplay(Answered(steps[d].request, a), stream[c + 1])
  BY <1>1, <1>2, RunRepeats
<1>5. at[c + 1] \in Nat
  <2>1. c + 1 \in 0 .. Len(stream)
    BY <1>3
  <2> QED BY <1>1, <2>1 DEF Run
<1>6. StandsAt(steps, stream, c + 1, d,
               IF Answers(steps[d].request) THEN stream[c + 1].answer ELSE now)
  BY <1>1, <1>3 DEF StandsAt
<1>7. LagsBehind(steps, stream, c, d, now)
  <2>1. d >= at[c + 1]
    BY <1>3, <1>5
  <2> QED BY <1>1, <1>3, <2>1 DEF LagsBehind
<1> QED BY <1>3, <1>6, <1>7

\* Who has an answer has asked for it.
LEMMA AnswersAreAsked ==
  ASSUME NEW steps \in Seq(Step), NEW stream \in Seq(Recorded), NEW at, NEW said,
         Run(steps, stream, at, said), NEW c \in 0 .. Len(stream), said[c] # NoAnswer
  PROVE  \E l \in DOMAIN steps : l <= at[c] /\ Answers(steps[l].request)
<1> DEFINE n == Len(stream)
           asked(k) == \E l \in DOMAIN steps : l <= at[k] /\ Answers(steps[l].request)
           D == {k \in Nat : k <= n /\ said[k] # NoAnswer => asked(k)}
<1>1. n \in Nat /\ said[0] = NoAnswer /\ \A k \in 0 .. n : at[k] \in Nat
  BY DEF Run
<1>2. 0 \in D
  BY <1>1
<1>3. ASSUME NEW k \in D PROVE k + 1 \in D
  <2>1. SUFFICES ASSUME k + 1 <= n, said[k + 1] # NoAnswer PROVE asked(k + 1)
    BY <1>3
  <2>2. k + 1 \in 1 .. n /\ (k + 1) - 1 = k /\ k \in 0 .. n /\ k + 1 \in 0 .. n /\ k <= n
    BY <1>1, <1>3, <2>1
  <2>3. /\ Least(at[k + 1], NextSteps(steps, at[k], said[k]))
        /\ said[k + 1] = IF Answers(steps[at[k + 1]].request) THEN stream[k + 1].answer ELSE said[k]
    BY <2>2 DEF Run
  <2>4. at[k + 1] \in DOMAIN steps /\ at[k + 1] > at[k]
    BY <2>3 DEF Least, NextSteps
  <2>5. at[k] \in Nat /\ at[k + 1] \in Nat
    BY <1>1, <2>2
  <2>6. CASE Answers(steps[at[k + 1]].request)
    BY <2>4, <2>5, <2>6
  <2>7. CASE ~Answers(steps[at[k + 1]].request)
    <3>1. said[k] # NoAnswer
      BY <2>1, <2>3, <2>7
    <3>2. PICK l \in DOMAIN steps : l <= at[k] /\ Answers(steps[l].request)
      BY <1>3, <2>2, <3>1
    <3>3. l \in Nat
      OBVIOUS
    <3>4. l <= at[k + 1]
      BY <2>4, <2>5, <3>2, <3>3
    <3> QED BY <3>2, <3>4
  <2> QED BY <2>6, <2>7
<1> HIDE DEF D, asked
<1>4. D \subseteq Nat
  BY DEF D
<1>5. D = Nat
  BY <1>2, <1>3, <1>4, Reached
<1>6. c \in Nat /\ c <= n
  BY <1>1
<1> QED BY <1>5, <1>6 DEF D, asked

\* Who is past the step of the request to come does not catch up: what it
\* makes in its place stands for an earlier step.
LEMMA LagsOn ==
  ASSUME NEW steps \in Seq(Step), NEW stream \in Seq(Recorded), AsksAfresh(steps),
         NEW c \in 0 .. Len(stream), NEW p \in Nat, NEW now,
         LagsBehind(steps, stream, c, p, now),
         NEW d, Least(d, NextSteps(steps, p, now)),
         NEW a \in Said, MatchesReplay(Answered(steps[d].request, a), stream[c + 1])
  PROVE  LagsBehind(steps, stream, c + 1, d,
                    IF Answers(steps[d].request) THEN stream[c + 1].answer ELSE now)
<1>0. PICK at, said :
        /\ Run(steps, stream, at, said) /\ Over(steps, stream, at, said)
        /\ c < Len(stream) /\ p >= at[c + 1] /\ now = said[c]
        /\ Least(d, NextSteps(steps, p, said[c]))
        /\ MatchesReplay([steps[d].request EXCEPT !.answer = a], stream[c + 1])
  BY DEF LagsBehind, Answered
<1> DEFINE n == Len(stream)
           i == at[c + 1]
           q == steps[d].request
           first == steps[i].request
           r == stream[c + 1]
<1>1. /\ n \in Nat /\ c \in Nat /\ c + 1 \in 1 .. n /\ (c + 1) - 1 = c /\ c + 1 \in 0 .. n
      /\ (c + 1) + 1 = c + 2
  BY <1>0
<1>2. /\ Least(i, NextSteps(steps, at[c], said[c]))
      /\ r = [first EXCEPT !.answer = r.answer]
      /\ said[c + 1] = IF Answers(first) THEN r.answer ELSE said[c]
  BY <1>0, <1>1 DEF Run
<1>3. at[c] \in Nat /\ i \in Nat
  BY <1>0, <1>1 DEF Run
<1>4. /\ i \in DOMAIN steps /\ i > at[c] /\ steps[i].when \in {NoAnswer, said[c]}
      /\ d \in DOMAIN steps /\ d > p /\ steps[d].when \in {NoAnswer, said[c]} /\ d \in Nat
  BY <1>0, <1>2 DEF Least, NextSteps
<1>5. first \in Asks({NoAnswer}) /\ q \in Asks({NoAnswer})
  <2>1. steps[i] \in Step /\ steps[d] \in Step
    BY <1>4
  <2> QED BY <2>1 DEF Step
<1>6. SameQuestion(first, q) /\ (Answers(first) <=> Answers(q))
  <2> HIDE DEF first, q, r, i
  <2>1. r.kind = first.kind /\ r.tag = first.tag
    BY <1>2, <1>5 DEF Asks
  <2>2. [q EXCEPT !.answer = a].kind = q.kind /\ [q EXCEPT !.answer = a].tag = q.tag
    BY <1>5 DEF Asks
  <2>3. \/ [q EXCEPT !.answer = a] = r
        \/ [q EXCEPT !.answer = a].kind = "decision" /\ r.kind = "decision"
    BY <1>0 DEF MatchesReplay, q, r
  <2>4. q.kind = first.kind /\ (first.kind = "decision" \/ first.tag = q.tag)
    BY <2>1, <2>2, <2>3
  <2> QED BY <2>4 DEF SameQuestion, Answers
<1>7. d > i
  BY <1>0, <1>3, <1>4
<1>8. steps[d].when \in {NoAnswer, said[c + 1]}
  <2>1. CASE steps[d].when = NoAnswer \/ ~Answers(first)
    BY <1>2, <1>4, <2>1
  <2>2. CASE steps[d].when # NoAnswer /\ Answers(first)
    <3>1. steps[d].when = said[c] /\ said[c] # NoAnswer
      BY <1>4, <2>2
    <3>2. PICK l \in DOMAIN steps : l <= at[c] /\ Answers(steps[l].request)
      BY <1>0, <3>1, AnswersAreAsked
    <3>3. l \in Nat
      OBVIOUS
    <3>4. l < i
      BY <1>3, <1>4, <3>2, <3>3
    <3>5. steps[i].when \in {NoAnswer, steps[d].when}
      BY <1>4, <3>1
    <3>6. FALSE
      <4> HIDE DEF i
      <4> QED BY <1>4, <1>6, <1>7, <2>2, <3>2, <3>4, <3>5 DEF AsksAfresh
    <3> QED BY <3>6
  <2> QED BY <2>1, <2>2
<1>9. d \in NextSteps(steps, at[c + 1], said[c + 1])
  BY <1>4, <1>7, <1>8 DEF NextSteps
<1>10. c + 1 # n
  BY <1>0, <1>1, <1>9, RunEnds
<1>11. c + 1 < n /\ c + 2 \in 1 .. n /\ (c + 2) - 1 = c + 1
  BY <1>1, <1>10
<1>12. Least(at[c + 2], NextSteps(steps, at[c + 1], said[c + 1]))
  BY <1>0, <1>11 DEF Run
<1>13. at[c + 2] <= d
  BY <1>9, <1>12 DEF Least
<1>14. at[c + 2] \in Nat
  <2>1. c + 2 \in 0 .. n
    BY <1>11
  <2> QED BY <1>0, <2>1 DEF Run
<1>15. /\ d >= at[(c + 1) + 1] /\ c + 1 < Len(stream)
       /\ said[c + 1] = IF Answers(q) THEN r.answer ELSE now
  BY <1>0, <1>1, <1>2, <1>4, <1>6, <1>11, <1>13, <1>14
<1> QED BY <1>0, <1>15 DEF LagsBehind

\* Nor when what it asks is refused.
LEMMA LagsStill ==
  ASSUME NEW steps \in Seq(Step), NEW stream \in Seq(Recorded), NEW c \in 0 .. Len(stream),
         NEW p \in Nat, NEW now, LagsBehind(steps, stream, c, p, now),
         NEW d \in Nat, d > p
  PROVE  LagsBehind(steps, stream, c, d, now)
<1>1. PICK at, said :
        /\ Run(steps, stream, at, said) /\ Over(steps, stream, at, said)
        /\ c < Len(stream) /\ p >= at[c + 1] /\ now = said[c]
  BY DEF LagsBehind
<1>2. c + 1 \in 0 .. Len(stream)
  BY <1>1
<1>3. at[c + 1] \in Nat
  BY <1>1, <1>2 DEF Run
<1>4. d >= at[c + 1]
  BY <1>1, <1>3
<1> QED BY <1>1, <1>4 DEF LagsBehind

\* The preconsume walk: the node that runs stands where its stream has it.
Recording ==
  \A g \in AllGroups :
    /\ g \in walked => Whole(program[g], streams[g])
    /\ g = node => RunsTo(program[g], streams[g], passed, answer)
    /\ g \notin walked /\ g # node => streams[g] = <<>>

WhollyRecorded == \A g \in AllGroups : Whole(program[g], streams[g])

\* The consume walk while no request was left out.
Repeating ==
  \A g \in AllGroups :
    /\ g = node => StandsAt(program[g], streams[g], cursor[g], passed, answer)
    /\ g \in walked => cursor[g] = Len(streams[g])
    /\ g \notin walked /\ g # node => cursor[g] = 0

\* And once one was: some node was left, or is, with requests to repeat.
Lagging ==
  \E g \in AllGroups :
    /\ g \in walked \/ g = node
    /\ cursor[g] < Len(streams[g])
    /\ g = node => LagsBehind(program[g], streams[g], cursor[g], passed, answer)

AllAskAfresh == \A g \in AllGroups : AsksAfresh(program[g])

ReplayInv ==
  /\ walked \subseteq AllGroups /\ node \notin walked
  /\ phase = "preconsume" => Recording
  /\ phase = "resolve" => WhollyRecorded
  /\ phase = "consume" => /\ WhollyRecorded /\ (~swayed => Repeating)
                          /\ swayed /\ AllAskAfresh => Lagging
  /\ (refused => swayed) /\ (swayed => phase = "consume")

LEMMA BeginRecordingReplays ==
  ASSUME NEW p \in Programs, BeginRecording(p)
  PROVE  ReplayInv'
<1>1. /\ phase' = "preconsume" /\ program' = p /\ walked' = {} /\ node' = NoNode
      /\ streams' = [g \in DOMAIN p |-> <<>>] /\ ~swayed' /\ ~refused' /\ p \in Seq(Seq(Step))
  BY ProgramsAssumption DEF BeginRecording, BeginPreConsume
<1>2. NoNode \notin DOMAIN p
  BY <1>1 DEF NoNode
<1>3. \A g \in DOMAIN p : streams'[g] = <<>> /\ g # node' /\ g \notin walked'
  BY <1>1, <1>2
<1>4. Recording'
  BY <1>1, <1>3 DEF Recording, AllGroups
<1> QED BY <1>1, <1>4 DEF ReplayInv, AllGroups

LEMMA EnterNodeReplays ==
  ASSUME StreamsTyped, ReplayInv, NEW g \in AllGroups, EnterNode(g)
  PROVE  ReplayInv'
<1>1. /\ phase \in {"preconsume", "consume"} /\ node = NoNode /\ g \notin walked
      /\ node' = g /\ passed' = 0 /\ answer' = NoAnswer /\ phase' = phase
      /\ UNCHANGED <<program, streams, cursor, walked, swayed, refused>>
      /\ NoNode \notin AllGroups
  BY StreamFacts DEF EnterNode, vars, AllGroups
<1>2. ASSUME Recording PROVE Recording'
  <2>1. streams[g] = <<>>
    BY <1>1, <1>2 DEF Recording
  <2>2. RunsTo(program[g], streams[g], 0, NoAnswer)
    BY <2>1, RunStarts
  <2> QED BY <1>1, <1>2, <2>2 DEF Recording, AllGroups
<1>3. ASSUME Repeating, WhollyRecorded PROVE Repeating'
  <2>1. cursor[g] = 0 /\ Whole(program[g], streams[g])
    BY <1>1, <1>3 DEF Repeating, WhollyRecorded
  <2>2. StandsAt(program[g], streams[g], 0, 0, NoAnswer)
    BY <2>1 DEF Whole, StandsAt, Run
  <2> QED BY <1>1, <1>3, <2>1, <2>2 DEF Repeating, AllGroups
<1>4. ASSUME Lagging PROVE Lagging'
  <2>1. PICK h \in AllGroups : (h \in walked \/ h = node) /\ cursor[h] < Len(streams[h])
    BY <1>4 DEF Lagging
  <2>2. h \in walked /\ h # g
    BY <1>1, <2>1
  <2> QED BY <1>1, <2>1, <2>2 DEF Lagging, AllGroups
<1> QED BY <1>1, <1>2, <1>3, <1>4 DEF ReplayInv, AllGroups, WhollyRecorded, AllAskAfresh

LEMMA RecordReplays ==
  ASSUME StreamsTyped, ReplayInv, Record
  PROVE  ReplayInv'
<1>1. /\ phase = "preconsume" /\ phase' = phase /\ node # NoNode /\ Pending # {}
      /\ passed' = Due
      /\ UNCHANGED <<program, node, walked, swayed, refused>>
  BY DEF Record, vars
<1> DEFINE q == program[node][Due].request
           before == SubSeq(streams[node], 1, Len(streams[node]))
           longer(a) == Append(streams[node], Answered(q, a))
<1>2. PICK a \in SuppliedAfter(q, before) :
        /\ streams' = [streams EXCEPT ![node] = longer(a)]
        /\ answer' = IF Answers(q) THEN a ELSE answer
  <2>1. Position(node) = Len(streams[node])
    BY <1>1 DEF Position
  <2>2. Supplied(q) = SuppliedAfter(q, before)
    BY <2>1, NextStepsAre
  <2>3. \E a \in Supplied(q) :
          /\ streams' = [streams EXCEPT ![node] = longer(a)]
          /\ answer' = IF Answers(q) THEN a ELSE answer
    BY DEF Record, Answered
  <2> QED BY <2>2, <2>3
<1>3. /\ node \in AllGroups /\ DOMAIN streams = AllGroups /\ streams[node] \in Seq(Recorded)
      /\ program[node] \in Seq(Step)
  BY <1>1, StreamFacts DEF AllGroups
<1>4. Recording /\ node \notin walked
  BY <1>1 DEF ReplayInv
<1>5. RunsTo(program[node], streams[node], passed, answer)
  BY <1>3, <1>4 DEF Recording
<1>6. Least(Due, NextSteps(program[node], passed, answer))
  BY <1>1, DueFacts, NextStepsAre DEF Least
<1>7. RunsTo(program[node], longer(a), Due, answer')
  BY <1>2, <1>3, <1>5, <1>6, RunGrows
<1>8. /\ streams'[node] = longer(a)
      /\ \A g \in AllGroups : g # node => streams'[g] = streams[g]
  BY <1>2, <1>3
<1> HIDE DEF longer, q, before
<1>9. Recording'
  BY <1>1, <1>4, <1>7, <1>8 DEF Recording, AllGroups
<1> QED BY <1>1, <1>9 DEF ReplayInv, AllGroups

LEMMA ReplayReplays ==
  ASSUME StreamsTyped, ReplayInv, Replay
  PROVE  ReplayInv'
<1>1. /\ phase = "consume" /\ phase' = phase /\ node # NoNode /\ Pending # {} /\ passed' = Due
      /\ UNCHANGED <<program, streams, node, walked, swayed>>
  BY DEF Replay, vars
<1> DEFINE steps == program[node]
           stream == streams[node]
           c == cursor[node]
           q == steps[Due].request
           matched(a) == c < Len(stream) /\ MatchesReplay(Answered(q, a), stream[c + 1])
           told == IF Answers(q) THEN stream[c + 1].answer ELSE answer
<1>2. PICK a \in SuppliedAfter(q, SubSeq(stream, 1, c)) :
        /\ cursor' = IF matched(a) THEN [cursor EXCEPT ![node] = c + 1] ELSE cursor
        /\ answer' = IF matched(a) THEN told ELSE answer
        /\ refused' = (refused \/ ~matched(a))
  <2>1. Supplied(q) = SuppliedAfter(q, SubSeq(stream, 1, c))
    BY <1>1, NextStepsAre DEF Position
  <2>2. PICK a \in Supplied(q) :
          LET asked == [q EXCEPT !.answer = a]
              matches == c < Len(stream) /\ MatchesReplay(asked, stream[c + 1])
          IN  /\ cursor' = IF matches THEN [cursor EXCEPT ![node] = c + 1] ELSE cursor
              /\ answer' = IF matches /\ Answers(asked) THEN stream[c + 1].answer ELSE answer
              /\ refused' = (refused \/ ~matches)
    BY DEF Replay
  <2>3. [q EXCEPT !.answer = a] = Answered(q, a)
    BY DEF Answered
  <2>4. Answers(Answered(q, a)) <=> Answers(q)
    <3>1. q \in Asks({NoAnswer})
      BY <1>1, DueFacts
    <3> HIDE DEF q
    <3> QED BY <3>1 DEF Asks, Answered, Answers
  <2> HIDE DEF q, c, stream, steps
  <2>5. /\ cursor' = IF matched(a) THEN [cursor EXCEPT ![node] = c + 1] ELSE cursor
        /\ answer' = IF matched(a) THEN told ELSE answer
        /\ refused' = (refused \/ ~matched(a))
    BY <2>2, <2>3, <2>4
  <2> QED BY <2>1, <2>5
<1>3. /\ node \in AllGroups /\ DOMAIN cursor = AllGroups /\ node \notin walked
      /\ steps \in Seq(Step) /\ stream \in Seq(Recorded) /\ c \in 0 .. Len(stream) /\ passed \in Nat
  BY <1>1, StreamFacts DEF AllGroups, ReplayInv, StreamsTyped
<1>4. Least(Due, NextSteps(steps, passed, answer)) /\ Due \in Nat /\ Due > passed
  BY <1>1, DueFacts, NextStepsAre DEF Least
<1>5. a \in Said
  BY DEF SuppliedAfter, DeclaredIn, Said, NoAnswer
<1>6. /\ matched(a) => cursor'[node] = c + 1 /\ answer' = told
      /\ ~matched(a) => cursor'[node] = c /\ answer' = answer
      /\ \A g \in AllGroups : g # node => cursor'[g] = cursor[g]
      /\ refused' => refused \/ ~matched(a)
  BY <1>2, <1>3
<1> HIDE DEF matched
<1>7. ASSUME ~swayed PROVE matched(a) /\ Repeating'
  <2>1. Repeating
    BY <1>1, <1>7 DEF ReplayInv
  <2>2. StandsAt(steps, stream, c, passed, answer)
    BY <1>3, <2>1 DEF Repeating
  <2>3. /\ c < Len(stream) /\ MatchesReplay(Answered(q, a), stream[c + 1])
        /\ StandsAt(steps, stream, c + 1, Due, told)
    <3> HIDE DEF steps, stream, c
    <3> QED BY <1>2, <1>3, <1>4, <2>2, StandsOn
  <2>4. matched(a)
    BY <2>3 DEF matched
  <2>5. StandsAt(program[node], streams[node], cursor'[node], Due, answer')
    BY <1>6, <2>3, <2>4
  <2> HIDE DEF q, c, steps, stream, told
  <2>6. Repeating'
    BY <1>1, <1>3, <1>6, <2>1, <2>5 DEF Repeating, AllGroups
  <2> QED BY <2>4, <2>6
<1>8. ASSUME swayed, AllAskAfresh PROVE Lagging'
  <2>1. PICK g \in AllGroups :
          /\ g \in walked \/ g = node
          /\ cursor[g] < Len(streams[g])
          /\ g = node => LagsBehind(program[g], streams[g], cursor[g], passed, answer)
    BY <1>1, <1>8 DEF ReplayInv, Lagging
  <2>2. CASE g # node
    <3>1. cursor'[g] < Len(streams[g]) /\ g \in walked
      BY <1>6, <2>1, <2>2
    <3> QED BY <1>1, <2>2, <3>1 DEF Lagging, AllGroups
  <2>3. CASE g = node
    <3>1. LagsBehind(steps, stream, c, passed, answer)
      BY <2>1, <2>3
    <3>2. LagsBehind(steps, stream, cursor'[node], Due, answer')
      <4>1. CASE matched(a)
        <5>1. AsksAfresh(steps) /\ MatchesReplay(Answered(q, a), stream[c + 1])
          BY <1>3, <1>8, <4>1 DEF AllAskAfresh, matched
        <5>2. LagsBehind(steps, stream, c + 1, Due, told)
          <6> HIDE DEF steps, stream, c
          <6> QED BY <1>3, <1>4, <1>5, <3>1, <5>1, LagsOn
        <5> QED BY <1>6, <4>1, <5>2
      <4>2. CASE ~matched(a)
        <5>1. LagsBehind(steps, stream, c, Due, answer)
          <6> HIDE DEF steps, stream, c
          <6> QED BY <1>3, <1>4, <3>1, LagsStill
        <5> QED BY <1>6, <4>2, <5>1
      <4> QED BY <4>1, <4>2
    <3>3. cursor'[node] < Len(stream)
      BY <3>2 DEF LagsBehind
    <3> QED BY <1>1, <1>3, <3>2, <3>3 DEF Lagging, AllGroups
  <2> QED BY <2>2, <2>3
<1>9. AllAskAfresh' => AllAskAfresh
  BY <1>1 DEF AllAskAfresh, AllGroups
<1>10. WhollyRecorded' /\ walked \subseteq AllGroups /\ (refused => swayed)
  BY <1>1 DEF ReplayInv, WhollyRecorded, AllGroups
<1>11. refused' => swayed'
  BY <1>1, <1>6, <1>7, <1>10
<1> HIDE DEF q, c, steps, stream, told
<1> QED BY <1>1, <1>3, <1>7, <1>8, <1>9, <1>10, <1>11 DEF ReplayInv, AllGroups

LEMMA SwayReplays ==
  ASSUME StreamsTyped, ReplayInv, Sway
  PROVE  ReplayInv'
<1>1. /\ phase = "consume" /\ phase' = phase /\ node # NoNode /\ Pending # {} /\ passed' = Due
      /\ ~swayed /\ swayed'
      /\ UNCHANGED <<program, streams, cursor, node, answer, walked, refused>>
  BY DEF Sway, vars
<1> DEFINE steps == program[node]
           stream == streams[node]
           c == cursor[node]
<1>2. /\ node \in AllGroups /\ steps \in Seq(Step) /\ stream \in Seq(Recorded)
      /\ c \in 0 .. Len(stream)
  BY <1>1, StreamFacts DEF AllGroups
<1>3. StandsAt(steps, stream, c, passed, answer)
  BY <1>1, <1>2 DEF ReplayInv, Repeating
<1>4. Least(Due, NextSteps(steps, passed, answer))
  BY <1>1, DueFacts, NextStepsAre DEF Least
<1>5. PICK a : a \in SuppliedAfter(steps[Due].request, SubSeq(stream, 1, c))
  BY DEF SuppliedAfter
<1>6. c < Len(stream) /\ LagsBehind(steps, stream, c, Due, answer)
  <2> HIDE DEF steps, stream, c
  <2> QED BY <1>2, <1>3, <1>4, <1>5, StandsOn
<1>7. Lagging'
  BY <1>1, <1>2, <1>6 DEF Lagging, AllGroups
<1> QED BY <1>1, <1>7 DEF ReplayInv, WhollyRecorded, AllGroups

LEMMA LeaveNodeReplays ==
  ASSUME StreamsTyped, ReplayInv, LeaveNode
  PROVE  ReplayInv'
<1>1. /\ phase \in {"preconsume", "consume"} /\ phase' = phase /\ node # NoNode /\ Pending = {}
      /\ node' = NoNode /\ walked' = walked \cup {node}
      /\ UNCHANGED <<program, streams, cursor, swayed, refused>>
  BY DEF LeaveNode, vars, StreamsTyped
<1>2. /\ node \in AllGroups /\ NoNode \notin AllGroups /\ program[node] \in Seq(Step)
      /\ streams[node] \in Seq(Recorded) /\ cursor[node] \in 0 .. Len(streams[node])
  BY <1>1, StreamFacts DEF AllGroups
<1>3. NextSteps(program[node], passed, answer) = {}
  BY <1>1, NextStepsAre
<1>4. ASSUME Recording PROVE Recording'
  <2>1. RunsTo(program[node], streams[node], passed, answer)
    BY <1>2, <1>4 DEF Recording
  <2>2. Whole(program[node], streams[node])
    BY <1>3, <2>1 DEF RunsTo, Whole, Over
  <2> QED BY <1>1, <1>2, <1>4, <2>2 DEF Recording, AllGroups
<1>5. ASSUME Repeating PROVE Repeating'
  <2>1. StandsAt(program[node], streams[node], cursor[node], passed, answer)
    BY <1>2, <1>5 DEF Repeating
  <2>2. cursor[node] = Len(streams[node])
    BY <1>2, <1>3, <2>1, StandsFacts
  <2> QED BY <1>1, <1>2, <1>5, <2>2 DEF Repeating, AllGroups
<1>6. ASSUME Lagging PROVE Lagging'
  BY <1>1, <1>2, <1>6 DEF Lagging, AllGroups
<1>7. WhollyRecorded' <=> WhollyRecorded
  BY <1>1 DEF WhollyRecorded, AllGroups
<1>8. AllAskAfresh' <=> AllAskAfresh
  BY <1>1 DEF AllAskAfresh, AllGroups
<1>9. walked' \subseteq AllGroups' /\ node' \notin walked'
  BY <1>1, <1>2 DEF ReplayInv, AllGroups
<1> QED BY <1>1, <1>4, <1>5, <1>6, <1>7, <1>8, <1>9 DEF ReplayInv

LEMMA SolveRequestsReplays ==
  ASSUME ReplayInv, SolveRequests
  PROVE  ReplayInv'
<1>1. /\ phase = "preconsume" /\ phase' = "resolve" /\ walked = AllGroups
      /\ UNCHANGED <<program, streams, node, walked, swayed, refused>>
  BY DEF SolveRequests, EnterResolve
<1>2. WhollyRecorded'
  BY <1>1 DEF ReplayInv, Recording, WhollyRecorded, AllGroups
<1> QED BY <1>1, <1>2 DEF ReplayInv, AllGroups

LEMMA BeginReplayingReplays ==
  ASSUME StreamsTyped, ReplayInv, BeginReplaying
  PROVE  ReplayInv'
<1>1. /\ phase = "resolve" /\ phase' = "consume" /\ node = NoNode
      /\ cursor' = [g \in AllGroups |-> 0] /\ walked' = {}
      /\ UNCHANGED <<program, streams, node, passed, answer, swayed, refused>>
  BY DEF BeginReplaying, EnterConsume, StreamsTyped
<1>2. WhollyRecorded' /\ ~swayed'
  BY <1>1 DEF ReplayInv, WhollyRecorded, AllGroups
<1>3. Repeating'
  BY <1>1, StreamFacts DEF Repeating, AllGroups
<1> QED BY <1>1, <1>2, <1>3 DEF ReplayInv, AllGroups

LEMMA ClearedReplays ==
  ASSUME ClearedStreams, phase' \in {"startup", "cleanup"}
  PROVE  ReplayInv'
BY DEF ClearedStreams, ReplayInv, AllGroups

\* The owner of the frame meddles with no walk.
LEMMA OwnReplays ==
  ASSUME ReplayInv, UNCHANGED streamVars,
         phase' = phase \/ (phase = "cleanup" /\ phase' = "startup")
  PROVE  ReplayInv'
<1>1. UNCHANGED <<program, streams, cursor, node, passed, answer, walked, swayed, refused>>
  BY DEF streamVars
<1>2. \/ phase' = phase
      \/ phase' = "startup" /\ ~swayed
  BY DEF ReplayInv
<1> QED BY <1>1, <1>2 DEF ReplayInv, AllGroups, Recording, WhollyRecorded, Repeating, Lagging,
        AllAskAfresh

\* Every step of a frame keeps its nodes where their streams have them.
LEMMA StepReplays ==
  ASSUME StreamsTyped, ReplayInv, [FrameNext]_allVars
  PROVE  ReplayInv'
<1>1. ASSUME NEW p \in Programs, BeginRecording(p) PROVE ReplayInv'
  BY <1>1, BeginRecordingReplays
<1>2. ASSUME NEW g \in AllGroups, EnterNode(g) PROVE ReplayInv'
  BY <1>2, EnterNodeReplays
<1>3. CASE Record
  BY <1>3, RecordReplays
<1>4. CASE Replay
  BY <1>4, ReplayReplays
<1>5. CASE Sway
  BY <1>5, SwayReplays
<1>6. CASE LeaveNode
  BY <1>6, LeaveNodeReplays
<1>7. CASE SolveRequests
  BY <1>7, SolveRequestsReplays
<1>8. CASE BeginReplaying
  BY <1>8, BeginReplayingReplays
<1>9. CASE CleanupFrame
  BY <1>9, ClearedReplays DEF CleanupFrame, Cleanup
<1>10. CASE GiveUp
  BY <1>10, ClearedReplays DEF GiveUp, ResetForFrame
<1>11. ASSUME NEW e \in Externals, Own(RegisterExternal(e)) PROVE ReplayInv'
  BY <1>11, OwnReplays DEF Own, RegisterExternal
<1>12. ASSUME NEW b \in BOOLEAN, Own(SetProcessEviction(b)) PROVE ReplayInv'
  BY <1>12, OwnReplays DEF Own, SetProcessEviction
<1>13. CASE Own(ClearAllCaches) \/ Own(EnterStartup)
  BY <1>13, OwnReplays DEF Own, ClearAllCaches, EnterStartup
<1>14. CASE Own(BeginResolve) \/ Own(Publish)
  BY <1>14, OwnReplays DEF Own, BeginResolve, Publish
<1>15. ASSUME NEW r \in todo, Own(Reuse(r)) \/ Own(Create(r)) \/ Own(Refuse(r)) PROVE ReplayInv'
  <2>1. UNCHANGED streamVars /\ phase' = phase
    BY <1>15 DEF Own, Reuse, Create, Refuse
  <2> QED BY <2>1, OwnReplays
<1>16. CASE UNCHANGED allVars
  BY <1>16, OwnReplays DEF allVars, vars
<1> QED BY <1>1, <1>2, <1>3, <1>4, <1>5, <1>6, <1>7, <1>8, <1>9, <1>10, <1>11, <1>12, <1>13,
        <1>14, <1>15, <1>16 DEF FrameNext

LEMMA InitReplays == FrameInit => ReplayInv
<1> SUFFICES ASSUME FrameInit PROVE ReplayInv
  OBVIOUS
<1>1. phase = "startup" /\ walked = {} /\ ~swayed /\ ~refused
  BY DEF FrameInit, Init
<1> QED BY <1>1 DEF ReplayInv

\* Whatever the nodes ask and in whatever order they come, each stands where
\* its stream has it, until a request is left out.
LEMMA ReplayInvariant == FrameSpec => [](FrameInv /\ ReplayInv)
<1>1. FrameInit => FrameInv /\ ReplayInv
  BY FrameInitEstablishes, InitReplays
<1>2. FrameInv /\ ReplayInv /\ [FrameNext]_allVars => (FrameInv /\ ReplayInv)'
  BY FrameStepPreserves, StepReplays DEF FrameInv
<1> QED BY <1>1, <1>2, PTL DEF FrameSpec

\* A request is refused only when one was left out, and then alone does the end
\* of the consume walk find a stream that was not repeated: a frame whose nodes
\* ask as their answers tell them to passes both checks (replay_consume,
\* validate_consume_finished).
NoneLeftOut ==
  ~swayed => /\ ~refused
             /\ phase = "consume" /\ node = NoNode /\ walked = AllGroups =>
                  \A g \in AllGroups : cursor[g] = Len(streams[g])

THEOREM FaithfulFramesPass == FrameSpec => []NoneLeftOut
<1>1. ReplayInv => NoneLeftOut
  BY DEF ReplayInv, Repeating, NoneLeftOut
<1> QED BY <1>1, ReplayInvariant, PTL

ProgramsAskAfresh == \A p \in Programs : \A g \in DOMAIN p : AsksAfresh(p[g])

LEMMA AsksAfreshInvariant ==
  ASSUME ProgramsAskAfresh
  PROVE  FrameSpec => []AllAskAfresh
<1>1. FrameInit => AllAskAfresh
  BY DEF FrameInit, AllAskAfresh, AllGroups
<1>2. AllAskAfresh /\ [FrameNext]_allVars => AllAskAfresh'
  <2>1. SUFFICES ASSUME AllAskAfresh, [FrameNext]_allVars PROVE AllAskAfresh'
    OBVIOUS
  <2>2. \/ program' = program \/ program' = <<>> \/ program' \in Programs
    BY <2>1 DEF FrameNext, BeginRecording, EnterNode, Record, Replay, Sway, LeaveNode, SolveRequests,
       BeginReplaying, CleanupFrame, GiveUp, ClearedStreams, Own, streamVars, allVars
  <2> QED BY <2>1, <2>2 DEF AllAskAfresh, AllGroups, ProgramsAskAfresh
<1> QED BY <1>1, <1>2, PTL DEF FrameSpec

\* Where no node puts a question again under the answer the question needs, the
\* end of the consume walk tells every frame in which a request was left out.
THEOREM DivergenceIsTold ==
  ASSUME ProgramsAskAfresh
  PROVE  FrameSpec => []ReplayTellsDivergence
<1>1. FrameInv /\ ReplayInv /\ AllAskAfresh => ReplayTellsDivergence
  <2>1. SUFFICES ASSUME FrameInv, ReplayInv, AllAskAfresh PROVE ReplayTellsDivergence
    OBVIOUS
  <2>2. /\ refused => swayed
        /\ phase = "consume" /\ ~swayed => Repeating
        /\ phase = "consume" /\ swayed => Lagging
    BY <2>1 DEF ReplayInv
  <2>3. ASSUME phase = "consume", node = NoNode, walked = AllGroups
        PROVE  swayed <=> \E g \in AllGroups : cursor[g] # Len(streams[g])
    <3>1. ASSUME NEW g \in AllGroups, cursor[g] < Len(streams[g])
          PROVE  cursor[g] # Len(streams[g])
      <4>1. cursor[g] \in Nat /\ Len(streams[g]) \in Nat
        BY <2>1, StreamFacts DEF FrameInv, AllGroups
      <4> QED BY <3>1, <4>1
    <3>2. ASSUME swayed PROVE \E g \in AllGroups : cursor[g] # Len(streams[g])
      BY <2>2, <2>3, <3>1, <3>2 DEF Lagging
    <3>3. ASSUME ~swayed PROVE \A g \in AllGroups : cursor[g] = Len(streams[g])
      BY <2>2, <2>3, <3>3 DEF Repeating
    <3> QED BY <3>2, <3>3
  <2> QED BY <2>2, <2>3 DEF ReplayTellsDivergence
<1>2. FrameSpec => []AllAskAfresh
  BY AsksAfreshInvariant
<1> QED BY <1>1, <1>2, ReplayInvariant, PTL

=============================================================================
