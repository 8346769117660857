------------------------- MODULE FrameInputsProofs -------------------------
(***************************************************************************)
(* Proofs about cameras and the frames of a dispatch, for every set of     *)
(* cameras, windows and targets and every grace period and limit; only the *)
(* selection asks for the depth limit the code has.                        *)
(*                                                                         *)
(* What a camera reaches over dependencies is a recursion over numbers; it *)
(* stops growing after as many steps as there are cameras (BelowIsLeast),  *)
(* so a new dependency closes no cycle.  Every operation on the registry   *)
(* is shown to keep it sound, registration one by one being a fold; what a *)
(* frame shows is fixed when its target is built, by resolving the depths  *)
(* of the dependencies and sorting what is chosen.                         *)
(***************************************************************************)
EXTENDS FrameInputs, FiniteSetTheorems, FoldTheorems, TLAPS

-----------------------------------------------------------------------------
(* What a camera reaches over dependencies.                                 *)

Closed(reg, K) == \A d \in K \cap DOMAIN reg : Dependencies(reg, d) \subseteq K

\* One step further along the dependencies.
Further(reg, K) == K \cup UNION {Dependencies(reg, d) : d \in K \cap DOMAIN reg}

LEMMA BelowSteps ==
  ASSUME NEW reg, NEW c \in DOMAIN reg,
         \A d \in DOMAIN reg : Dependencies(reg, d) \subseteq Cameras
  PROVE  \E f \in [Nat -> SUBSET Cameras] :
           /\ f[0] = Dependencies(reg, c) /\ \A n \in Nat : f[n + 1] = Further(reg, f[n])
           /\ Below(reg, c) = f[Cardinality(Cameras)]
<1> DEFINE V == SUBSET Cameras
           h == [n \in Nat |-> [K \in V |-> Further(reg, K)]]
           It == CHOOSE step : step = [n \in Nat |->
                   IF n = 0 THEN Dependencies(reg, c)
                   ELSE step[n - 1] \cup
                        UNION {Dependencies(reg, d) : d \in step[n - 1] \cap DOMAIN reg}]
<1>1. Dependencies(reg, c) \in V /\ \A K \in V : Further(reg, K) \in V
  BY DEF Further
<1> HIDE DEF V
<1>2. h \in [Nat -> [V -> V]]
  BY <1>1
<1>3. PICK f : Recursive(V, Dependencies(reg, c), h, f)
  BY <1>1, <1>2, Recursion
<1>4. f \in [Nat -> V] /\ f[0] = Dependencies(reg, c)
  BY <1>3 DEF Recursive
<1>5. \A n \in Nat : f[n + 1] = Further(reg, f[n])
  <2>1. \A n \in Nat : f[n + 1] = h[n][f[n]] /\ f[n] \in V
    BY <1>3 DEF Recursive
  <2> QED BY <2>1
<1> HIDE DEF h
<1>6. f = [n \in Nat |->
             IF n = 0 THEN Dependencies(reg, c)
             ELSE f[n - 1] \cup
                  UNION {Dependencies(reg, d) : d \in f[n - 1] \cap DOMAIN reg}]
  <2>1. ASSUME NEW n \in Nat, n # 0
        PROVE  f[n] = f[n - 1] \cup
                      UNION {Dependencies(reg, d) : d \in f[n - 1] \cap DOMAIN reg}
    <3>1. n - 1 \in Nat /\ (n - 1) + 1 = n
      BY <2>1
    <3>2. f[n] = Further(reg, f[n - 1])
      BY <1>5, <3>1
    <3> QED BY <3>2 DEF Further
  <2>2. f = [n \in Nat |-> f[n]]
    BY <1>4
  <2> QED BY <1>4, <2>1, <2>2
<1>7. It = [n \in Nat |->
              IF n = 0 THEN Dependencies(reg, c)
              ELSE It[n - 1] \cup
                   UNION {Dependencies(reg, d) : d \in It[n - 1] \cap DOMAIN reg}]
  BY <1>6, Zenon
<1>8. Below(reg, c) = It[Cardinality(Cameras)]
  BY Zenon DEF Below
<1> HIDE DEF It
<1>9. It[0] = Dependencies(reg, c)
  BY <1>7
<1>10. \A n \in Nat : It[n + 1] = Further(reg, It[n])
  <2>1. SUFFICES ASSUME NEW n \in Nat PROVE It[n + 1] = Further(reg, It[n])
    OBVIOUS
  <2>2. n + 1 \in Nat /\ n + 1 # 0 /\ (n + 1) - 1 = n
    OBVIOUS
  <2>3. It[n + 1] = It[(n + 1) - 1] \cup
                    UNION {Dependencies(reg, d) : d \in It[(n + 1) - 1] \cap DOMAIN reg}
    BY <1>7, <2>2
  <2> QED BY <2>2, <2>3 DEF Further
<1>11. \A n \in Nat : It[n] \in V
  <2> DEFINE T == {n \in Nat : It[n] \in V}
  <2>1. 0 \in T
    BY <1>1, <1>9
  <2>2. \A n \in T : n + 1 \in T
    BY <1>1, <1>10
  <2>3. T \subseteq Nat
    OBVIOUS
  <2> HIDE DEF T
  <2>4. T = Nat
    BY <2>1, <2>2, <2>3, Reached
  <2> QED BY <2>4 DEF T
<1>12. It \in [Nat -> V]
  <2>1. It = [n \in Nat |-> It[n]]
    BY <1>7
  <2> QED BY <1>11, <2>1
<1> QED BY <1>8, <1>9, <1>10, <1>12 DEF V

\* Below is the least set that holds the dependencies of c and is closed.
LEMMA BelowIsLeast ==
  ASSUME NEW reg, NEW c \in DOMAIN reg,
         \A d \in DOMAIN reg : Dependencies(reg, d) \subseteq Cameras
  PROVE  /\ Dependencies(reg, c) \subseteq Below(reg, c) /\ Closed(reg, Below(reg, c))
         /\ \A K : Closed(reg, K) /\ Dependencies(reg, c) \subseteq K => Below(reg, c) \subseteq K
<1>1. PICK f \in [Nat -> SUBSET Cameras] :
        /\ f[0] = Dependencies(reg, c) /\ \A n \in Nat : f[n + 1] = Further(reg, f[n])
        /\ Below(reg, c) = f[Cardinality(Cameras)]
  BY BelowSteps
<1>2. IsFiniteSet(Cameras) /\ Cardinality(Cameras) \in Nat
  BY CamerasAssumption, FS_CardinalityType
<1> DEFINE T == {n \in Nat : /\ Dependencies(reg, c) \subseteq f[n]
                             /\ Closed(reg, f[n]) \/ Cardinality(f[n]) >= n
                             /\ \A K : Closed(reg, K) /\ Dependencies(reg, c) \subseteq K
                                         => f[n] \subseteq K}
<1>3. \A n \in Nat : f[n] \subseteq Cameras /\ IsFiniteSet(f[n]) /\ Cardinality(f[n]) \in Nat
  BY <1>1, <1>2, FS_Subset, FS_CardinalityType
<1>4. 0 \in T
  BY <1>1, <1>3
<1>5. ASSUME NEW n \in T PROVE n + 1 \in T
  <2>1. n \in Nat /\ n + 1 \in Nat /\ f[n + 1] = Further(reg, f[n])
    BY <1>1
  <2>2. Dependencies(reg, c) \subseteq f[n + 1] /\ f[n] \subseteq f[n + 1]
    BY <1>5, <2>1 DEF Further
  <2>3. \A K : Closed(reg, K) /\ Dependencies(reg, c) \subseteq K => f[n + 1] \subseteq K
    BY <1>5, <2>1 DEF Further, Closed
  <2>4. CASE Closed(reg, f[n])
    <3>1. f[n + 1] = f[n]
      BY <2>1, <2>4 DEF Further, Closed
    <3> QED BY <2>1, <2>2, <2>3, <2>4, <3>1
  <2>5. CASE ~ Closed(reg, f[n])
    <3>1. f[n + 1] # f[n]
      BY <2>1, <2>5 DEF Further, Closed
    <3>2. Cardinality(f[n]) >= n
      BY <1>5, <2>5
    <3>3. Cardinality(f[n]) <= Cardinality(f[n + 1]) /\ Cardinality(f[n]) # Cardinality(f[n + 1])
      BY <1>3, <2>1, <2>2, <3>1, FS_Subset
    <3>4. Cardinality(f[n + 1]) >= n + 1
      BY <1>3, <2>1, <3>2, <3>3
    <3> QED BY <2>1, <2>2, <2>3, <3>4
  <2> QED BY <2>4, <2>5
<1> HIDE DEF T
<1>6. T = Nat
  <2>1. T \subseteq Nat
    BY DEF T
  <2> QED BY <1>4, <1>5, <2>1, Reached
<1> DEFINE N == Cardinality(Cameras)
<1>7. N \in T
  BY <1>2, <1>6
<1>8. Closed(reg, f[N])
  <2>1. CASE Cardinality(f[N]) >= N
    <3>1. f[N] = Cameras
      <4>1. Cardinality(f[N]) <= N
        BY <1>2, <1>3, FS_Subset
      <4>2. Cardinality(f[N]) = N
        BY <1>2, <1>3, <2>1, <4>1
      <4> QED BY <1>2, <1>3, <4>2, FS_Subset
    <3> QED BY <3>1 DEF Closed
  <2> QED BY <1>7, <2>1 DEF T
<1> QED BY <1>1, <1>7, <1>8 DEF T

-----------------------------------------------------------------------------
(* The registry.                                                            *)

\* The dependencies that carry a flag.
Flagged(reg, flag) ==
  {e \in Cameras \X Cameras : /\ e[1] \in DOMAIN reg /\ e[2] \in Dependencies(reg, e[1])
                              /\ flag \in reg[e[1]].dependencies[e[2]]}

\* What an entry keeps of the last frame that showed its camera.
HistoryIsSound(entry, last) ==
  /\ entry.last_prepared \in {Unprepared, last}
  /\ entry.last_update_tick <= last => entry.last_prepared = last

\* The last frames came before the tick.
SeenBefore(seen, t) ==
  seen \in [Cameras -> Nat \cup {Unprepared}] /\ \A c \in Cameras : seen[c] < t

\* Acyclic and within the limit, as DependenciesAreSound says it of the registry.
Linked(reg) ==
  \A c \in DOMAIN reg :
    /\ Dependencies(reg, c) \subseteq DOMAIN reg
    /\ c \notin Below(reg, c)
    /\ Cardinality(Dependencies(reg, c)) <= MAX_CAMERA_DEPENDENCIES

OwnSpaces(reg) ==
  \A c, d \in DOMAIN reg : c # d => reg[c].render_flow_space # reg[d].render_flow_space

FlagsAreSound(reg) ==
  \A c \in DOMAIN reg : \A d \in Dependencies(reg, c) :
    "TEMPORARY_REQUESTED" \in reg[c].dependencies[d] => "TEMPORARY" \in reg[c].dependencies[d]

Registries == UNION {[D -> Entry] : D \in SUBSET Cameras}

Sound(reg, seen, t) ==
  /\ reg \in Registries /\ SeenBefore(seen, t)
  /\ \A c \in DOMAIN reg : HistoryIsSound(reg[c], seen[c])
  /\ Linked(reg) /\ OwnSpaces(reg) /\ FlagsAreSound(reg)

LEMMA RegistryFacts ==
  ASSUME NEW reg
  PROVE  reg \in Registries <=>
           /\ DOMAIN reg \subseteq Cameras /\ reg = [c \in DOMAIN reg |-> reg[c]]
           /\ \A c \in DOMAIN reg : reg[c] \in Entry
<1>1. ASSUME reg \in Registries
      PROVE  /\ DOMAIN reg \subseteq Cameras /\ reg = [c \in DOMAIN reg |-> reg[c]]
             /\ \A c \in DOMAIN reg : reg[c] \in Entry
  <2>1. PICK D \in SUBSET Cameras : reg \in [D -> Entry]
    BY <1>1 DEF Registries
  <2> QED BY <2>1
<1>2. ASSUME DOMAIN reg \subseteq Cameras, reg = [c \in DOMAIN reg |-> reg[c]],
             \A c \in DOMAIN reg : reg[c] \in Entry
      PROVE  reg \in Registries
  <2>1. reg \in [DOMAIN reg -> Entry]
    BY <1>2
  <2> QED BY <1>2, <2>1 DEF Registries
<1> QED BY <1>1, <1>2

\* The sets that dependencies may be kept in.
DependencySets == UNION {[D -> SUBSET Flags] : D \in SUBSET Cameras}

LEMMA EntryFacts ==
  ASSUME NEW e
  PROVE  e \in Entry <=>
           /\ e = [target_view_index |-> e.target_view_index, management |-> e.management,
                   render_policy |-> e.render_policy, render_flow_space |-> e.render_flow_space,
                   enabled |-> e.enabled, last_update_tick |-> e.last_update_tick,
                   dependencies |-> e.dependencies, last_prepared |-> e.last_prepared]
           /\ e.target_view_index \in Nat /\ e.management \in Managements
           /\ e.render_policy \in Policies /\ e.render_flow_space \in Nat
           /\ e.enabled \in BOOLEAN /\ e.last_update_tick \in Nat
           /\ e.dependencies \in DependencySets
           /\ e.last_prepared \in Nat \cup {Unprepared}
BY DEF Entry, DependencySets

LEMMA DependencySetFacts ==
  ASSUME NEW deps
  PROVE  deps \in DependencySets <=>
           /\ DOMAIN deps \subseteq Cameras /\ deps = [d \in DOMAIN deps |-> deps[d]]
           /\ \A d \in DOMAIN deps : deps[d] \subseteq Flags
<1>1. ASSUME deps \in DependencySets
      PROVE  /\ DOMAIN deps \subseteq Cameras /\ deps = [d \in DOMAIN deps |-> deps[d]]
             /\ \A d \in DOMAIN deps : deps[d] \subseteq Flags
  <2>1. PICK D \in SUBSET Cameras : deps \in [D -> SUBSET Flags]
    BY <1>1 DEF DependencySets
  <2> QED BY <2>1
<1>2. ASSUME DOMAIN deps \subseteq Cameras, deps = [d \in DOMAIN deps |-> deps[d]],
             \A d \in DOMAIN deps : deps[d] \subseteq Flags
      PROVE  deps \in DependencySets
  <2>1. deps \in [DOMAIN deps -> SUBSET Flags]
    BY <1>2
  <2> QED BY <1>2, <2>1 DEF DependencySets
<1> QED BY <1>1, <1>2

LEMMA NoDependencies == <<>> \in DependencySets /\ DOMAIN <<>> = {}
<1>1. DOMAIN <<>> = {}
  OBVIOUS
<1>2. <<>> = [d \in {} |-> {}]
  OBVIOUS
<1> QED BY <1>1, <1>2, DependencySetFacts

LEMMA NoRegistry == <<>> \in Registries
<1>1. DOMAIN <<>> = {}
  OBVIOUS
<1>2. <<>> = [d \in DOMAIN <<>> |-> <<>>[d]]
  OBVIOUS
<1> QED BY <1>1, <1>2, RegistryFacts

\* Fewer cameras and fewer dependencies leave what is linked linked.
LEMMA FewerLinks ==
  ASSUME NEW old \in Registries, NEW new \in Registries, Linked(old),
         DOMAIN new \subseteq DOMAIN old,
         \A c \in DOMAIN new : Dependencies(new, c) \subseteq Dependencies(old, c) \cap DOMAIN new
  PROVE  Linked(new)
<1>1. /\ DOMAIN old \subseteq Cameras
      /\ \A c \in DOMAIN old : Dependencies(old, c) \subseteq Cameras
      /\ \A c \in DOMAIN new : Dependencies(new, c) \subseteq Cameras
  BY RegistryFacts DEF Linked
<1>2. SUFFICES ASSUME NEW c \in DOMAIN new
               PROVE  /\ c \notin Below(new, c)
                      /\ Cardinality(Dependencies(new, c)) <= MAX_CAMERA_DEPENDENCIES
  BY DEF Linked
<1>3. Below(new, c) \subseteq Below(old, c)
  <2>1. Dependencies(old, c) \subseteq Below(old, c) /\ Closed(old, Below(old, c))
    BY <1>1, <1>2, BelowIsLeast
  <2>2. Closed(new, Below(old, c)) /\ Dependencies(new, c) \subseteq Below(old, c)
    BY <1>2, <2>1 DEF Closed
  <2> QED BY <1>1, <2>2, BelowIsLeast
<1>4. /\ IsFiniteSet(Dependencies(old, c))
      /\ Cardinality(Dependencies(new, c)) <= Cardinality(Dependencies(old, c))
      /\ Cardinality(Dependencies(new, c)) \in Nat /\ Cardinality(Dependencies(old, c)) \in Nat
  BY <1>1, <1>2, CamerasAssumption, FS_Subset, FS_CardinalityType
<1>5. MAX_CAMERA_DEPENDENCIES \in Nat /\ Cardinality(Dependencies(old, c)) <= MAX_CAMERA_DEPENDENCIES
  BY <1>2, LimitsAssumption DEF Linked
<1> QED BY <1>2, <1>3, <1>4, <1>5 DEF Linked

\* An entry of which only the dependencies may differ.
SameEntry(e, f) ==
  /\ e.target_view_index = f.target_view_index /\ e.management = f.management
  /\ e.render_policy = f.render_policy /\ e.render_flow_space = f.render_flow_space
  /\ e.enabled = f.enabled /\ e.last_update_tick = f.last_update_tick
  /\ e.last_prepared = f.last_prepared

LEMMA EntryWith ==
  ASSUME NEW e \in Entry, NEW deps \in DependencySets
  PROVE  /\ [e EXCEPT !.dependencies = deps] \in Entry
         /\ [e EXCEPT !.dependencies = deps].dependencies = deps
         /\ SameEntry([e EXCEPT !.dependencies = deps], e)
<1> DEFINE f == [e EXCEPT !.dependencies = deps]
<1>1. f = [target_view_index |-> e.target_view_index, management |-> e.management,
           render_policy |-> e.render_policy, render_flow_space |-> e.render_flow_space,
           enabled |-> e.enabled, last_update_tick |-> e.last_update_tick,
           dependencies |-> deps, last_prepared |-> e.last_prepared]
  BY DEF Entry
<1> HIDE DEF f
<1>2. SameEntry(f, e) /\ f.dependencies = deps
  BY <1>1 DEF SameEntry
<1>3. f \in Entry
  BY <1>1, <1>2, EntryFacts DEF SameEntry
<1> QED BY <1>2, <1>3 DEF f

\* A registry with the cameras of another, or fewer of them, linked otherwise.
Relinked(old, new) ==
  /\ new \in Registries /\ DOMAIN new \subseteq DOMAIN old
  /\ \A c \in DOMAIN new : SameEntry(new[c], old[c])

LEMMA RelinkedSound ==
  ASSUME NEW t, NEW seen, NEW old, Sound(old, seen, t), NEW new, Relinked(old, new),
         Linked(new), FlagsAreSound(new)
  PROVE  Sound(new, seen, t)
<1>1. \A c \in DOMAIN new : HistoryIsSound(new[c], seen[c])
  BY DEF Sound, Relinked, SameEntry, HistoryIsSound
<1>2. OwnSpaces(new)
  BY DEF Sound, Relinked, SameEntry, OwnSpaces
<1> QED BY <1>1, <1>2 DEF Sound, Relinked

LEMMA RestrictedDependencies ==
  ASSUME NEW deps \in DependencySets, NEW kept, kept \subseteq DOMAIN deps
  PROVE  /\ Restrict(deps, kept) \in DependencySets /\ DOMAIN Restrict(deps, kept) = kept
         /\ \A d \in kept : Restrict(deps, kept)[d] = deps[d]
<1>1. /\ DOMAIN Restrict(deps, kept) = kept /\ \A d \in kept : Restrict(deps, kept)[d] = deps[d]
      /\ Restrict(deps, kept) = [d \in kept |-> Restrict(deps, kept)[d]]
  BY DEF Restrict
<1> QED BY <1>1, DependencySetFacts

LEMMA DependenciesTyped ==
  ASSUME NEW reg \in Registries, NEW c \in DOMAIN reg
  PROVE  reg[c] \in Entry /\ reg[c].dependencies \in DependencySets
BY RegistryFacts, EntryFacts

LEMMA UnregisterFacts ==
  ASSUME NEW reg \in Registries, NEW gone
  PROVE  LET new == unregister_cameras(reg, gone)
         IN /\ Relinked(reg, new) /\ DOMAIN new = DOMAIN reg \ gone
            /\ \A c \in DOMAIN new :
                 /\ Dependencies(new, c) = Dependencies(reg, c) \ gone
                 /\ \A d \in Dependencies(new, c) :
                      new[c].dependencies[d] = reg[c].dependencies[d]
<1> DEFINE new == unregister_cameras(reg, gone)
           D == DOMAIN reg \ gone
           kept(c) == DOMAIN reg[c].dependencies \ gone
<1>1. new = [c \in D |-> [reg[c] EXCEPT !.dependencies =
                            Restrict(reg[c].dependencies, kept(c))]]
  BY DEF unregister_cameras, remove_all_dependencies_to, Restrict
<1>2. ASSUME NEW c \in D
      PROVE  /\ new[c] \in Entry /\ SameEntry(new[c], reg[c])
             /\ Dependencies(new, c) = Dependencies(reg, c) \ gone
             /\ \A d \in Dependencies(new, c) : new[c].dependencies[d] = reg[c].dependencies[d]
  <2>1. reg[c] \in Entry /\ reg[c].dependencies \in DependencySets
    BY DependenciesTyped
  <2>2. /\ Restrict(reg[c].dependencies, kept(c)) \in DependencySets
        /\ DOMAIN Restrict(reg[c].dependencies, kept(c)) = kept(c)
        /\ \A d \in kept(c) : Restrict(reg[c].dependencies, kept(c))[d] = reg[c].dependencies[d]
    BY <2>1, RestrictedDependencies
  <2>3. new[c] = [reg[c] EXCEPT !.dependencies = Restrict(reg[c].dependencies, kept(c))]
    BY <1>1
  <2> HIDE DEF new, kept
  <2>4. /\ new[c] \in Entry /\ SameEntry(new[c], reg[c])
        /\ new[c].dependencies = Restrict(reg[c].dependencies, kept(c))
    BY <2>1, <2>2, <2>3, EntryWith
  <2> QED BY <2>2, <2>4 DEF Dependencies, kept
<1>3. DOMAIN new = D /\ new = [c \in DOMAIN new |-> new[c]]
  BY <1>1
<1> HIDE DEF new
<1>4. new \in Registries
  BY <1>2, <1>3, RegistryFacts
<1> QED BY <1>2, <1>3, <1>4 DEF Relinked, new

LEMMA UnregisterSound ==
  ASSUME NEW t, NEW seen, NEW reg, Sound(reg, seen, t), NEW gone
  PROVE  Sound(unregister_cameras(reg, gone), seen, t)
<1> DEFINE new == unregister_cameras(reg, gone)
<1>1. reg \in Registries /\ Linked(reg) /\ FlagsAreSound(reg)
  BY DEF Sound
<1>2. /\ Relinked(reg, new) /\ DOMAIN new = DOMAIN reg \ gone
      /\ \A c \in DOMAIN new :
           /\ Dependencies(new, c) = Dependencies(reg, c) \ gone
           /\ \A d \in Dependencies(new, c) : new[c].dependencies[d] = reg[c].dependencies[d]
  BY <1>1, UnregisterFacts
<1> HIDE DEF new
<1>3. \A c \in DOMAIN new : Dependencies(new, c) \subseteq Dependencies(reg, c) \cap DOMAIN new
  BY <1>1, <1>2 DEF Linked
<1>4. Linked(new)
  BY <1>1, <1>2, <1>3, FewerLinks DEF Relinked
<1>5. FlagsAreSound(new)
  BY <1>1, <1>2, <1>3 DEF FlagsAreSound
<1>6. Sound(new, seen, t)
  BY <1>2, <1>4, <1>5, RelinkedSound
<1> QED BY <1>6 DEF new

LEMMA UnregisterFlagged ==
  ASSUME NEW reg \in Registries, NEW gone, NEW flag
  PROVE  Flagged(unregister_cameras(reg, gone), flag)
           = {e \in Flagged(reg, flag) : gone \cap {e[1], e[2]} = {}}
<1> DEFINE new == unregister_cameras(reg, gone)
<1>1. /\ DOMAIN new = DOMAIN reg \ gone
      /\ \A c \in DOMAIN new :
           /\ Dependencies(new, c) = Dependencies(reg, c) \ gone
           /\ \A d \in Dependencies(new, c) : new[c].dependencies[d] = reg[c].dependencies[d]
  BY UnregisterFacts
<1> HIDE DEF new
<1>2. Flagged(new, flag) = {e \in Flagged(reg, flag) : gone \cap {e[1], e[2]} = {}}
  BY <1>1 DEF Flagged
<1> QED BY <1>2 DEF new

LEMMA MinFacts ==
  ASSUME NEW T, T \subseteq Nat, T # {}
  PROVE  Min(T) \in T /\ \A k \in T : Min(T) <= k
BY LeastExists DEF Min

\* A new camera gets a flow space that no registered camera has.
LEMMA SpaceIsFree ==
  ASSUME NEW reg \in Registries, NEW management
  PROVE  /\ allocate_render_flow_space(reg, management) \in Nat
         /\ \A c \in DOMAIN reg :
              reg[c].render_flow_space # allocate_render_flow_space(reg, management)
<1> DEFINE start == IF management = "Permanent" THEN 0 ELSE TEMPORAL_RENDER_FLOW_SPACE_START
           used == {reg[c].render_flow_space : c \in DOMAIN reg}
           some == start .. start + Cardinality(used)
           space == [c \in DOMAIN reg |-> reg[c].render_flow_space]
<1>1. start \in Nat
  BY LimitsAssumption
<1>2. IsFiniteSet(used) /\ Cardinality(used) \in Nat
  <2>1. IsFiniteSet(DOMAIN reg)
    BY RegistryFacts, CamerasAssumption, FS_Subset
  <2>2. space \in Surjection(DOMAIN reg, used)
    BY DEF Surjection
  <2> HIDE DEF used, space
  <2> QED BY <2>1, <2>2, FS_Surjection, FS_CardinalityType
<1> HIDE DEF start, used
<1>3. some \subseteq Nat /\ IsFiniteSet(some) /\ Cardinality(some) = Cardinality(used) + 1
  <2>1. /\ start \in Int /\ start + Cardinality(used) \in Int
        /\ ~ (start > start + Cardinality(used))
    BY <1>1, <1>2
  <2>2. IsFiniteSet(some) /\ Cardinality(some) = (start + Cardinality(used)) - start + 1
    BY <2>1, FS_Interval
  <2> QED BY <1>1, <1>2, <2>2
<1> HIDE DEF some
<1>4. some \ used # {}
  <2>1. SUFFICES ASSUME some \subseteq used PROVE FALSE
    OBVIOUS
  <2>2. Cardinality(some) <= Cardinality(used)
    BY <1>2, <2>1, FS_Subset
  <2> QED BY <1>2, <1>3, <2>2
<1>5. Min(some \ used) \in some \ used
  BY <1>3, <1>4, MinFacts
<1>6. allocate_render_flow_space(reg, management) = Min(some \ used)
  BY DEF allocate_render_flow_space, some, used, start
<1> QED BY <1>3, <1>5, <1>6 DEF used

\* A registry with one camera more, or with one registered again.
OneRegistered(reg, new, c) ==
  /\ DOMAIN new = DOMAIN reg \cup {c}
  /\ new[c].dependencies = IF c \in DOMAIN reg THEN reg[c].dependencies ELSE <<>>
  /\ \A d \in DOMAIN reg \ {c} : new[d] = reg[d]

LEMMA RegisterFacts ==
  ASSUME update_tick \in Nat, NEW seen, NEW reg, Sound(reg, seen, update_tick), NEW c \in Cameras,
         NEW index \in Nat, NEW management \in Managements, NEW policy \in Policies
  PROVE  /\ Sound(register_camera(reg, c, index, management, policy), seen, update_tick)
         /\ OneRegistered(reg, register_camera(reg, c, index, management, policy), c)
<1> DEFINE new == register_camera(reg, c, index, management, policy)
           space == IF c \in DOMAIN reg THEN reg[c].render_flow_space
                    ELSE allocate_render_flow_space(reg, management)
           deps == IF c \in DOMAIN reg THEN reg[c].dependencies ELSE <<>>
           entry == [target_view_index |-> index, management |-> management,
                     render_policy |-> policy, enabled |-> TRUE,
                     render_flow_space |-> space, last_update_tick |-> update_tick,
                     dependencies |-> deps, last_prepared |-> Unprepared]
<1>1. new = [d \in DOMAIN reg \cup {c} |-> IF d = c THEN entry ELSE reg[d]]
  BY DEF register_camera
<1>2. reg \in Registries /\ DOMAIN reg \subseteq Cameras
  BY RegistryFacts DEF Sound
<1>3. \A d \in DOMAIN reg : reg[d] \in Entry /\ reg[d].render_flow_space \in Nat
  BY <1>2, RegistryFacts, EntryFacts
<1>4. space \in Nat /\ \A d \in DOMAIN reg \ {c} : reg[d].render_flow_space # space
  <2>1. CASE c \in DOMAIN reg
    BY <1>3, <2>1 DEF Sound, OwnSpaces
  <2>2. CASE c \notin DOMAIN reg
    BY <1>2, <2>2, SpaceIsFree
  <2> QED BY <2>1, <2>2
<1>5. deps \in DependencySets /\ (c \notin DOMAIN reg => DOMAIN deps = {})
  BY <1>2, DependenciesTyped, NoDependencies
<1> HIDE DEF space, deps
<1>6. entry \in Entry /\ HistoryIsSound(entry, seen[c])
  <2>1. entry \in Entry
    BY <1>4, <1>5, EntryFacts
  <2>2. HistoryIsSound(entry, seen[c])
    <3>1. seen[c] \in Nat \cup {Unprepared} /\ seen[c] < update_tick
      BY DEF Sound, SeenBefore
    <3> QED BY <3>1 DEF HistoryIsSound, Unprepared
  <2> QED BY <2>1, <2>2
<1>7. /\ entry.dependencies = deps /\ entry.render_flow_space = space
  OBVIOUS
<1> HIDE DEF new, entry
<1>8. DOMAIN new = DOMAIN reg \cup {c} /\ new[c] = entry /\ \A d \in DOMAIN reg \ {c} : new[d] = reg[d]
  BY <1>1
<1>9. new \in Registries
  <2>1. \A d \in DOMAIN new : new[d] \in Entry
    BY <1>3, <1>6, <1>8
  <2>2. new = [d \in DOMAIN new |-> new[d]]
    BY <1>1
  <2> QED BY <1>2, <1>8, <2>1, <2>2, RegistryFacts
<1>10. /\ \A d \in DOMAIN reg : Dependencies(new, d) = Dependencies(reg, d)
       /\ \A d \in DOMAIN reg : new[d].dependencies = reg[d].dependencies
       /\ c \notin DOMAIN reg => Dependencies(new, c) = {}
  BY <1>5, <1>7, <1>8 DEF Dependencies, deps
<1>11. Linked(new)
  <2>1. \A d \in DOMAIN new : Dependencies(new, d) \subseteq Cameras
    BY <1>2, <1>8, <1>10 DEF Sound, Linked
  <2>2. SUFFICES ASSUME NEW d \in DOMAIN new
                 PROVE  /\ Dependencies(new, d) \subseteq DOMAIN new
                        /\ d \notin Below(new, d)
                        /\ Cardinality(Dependencies(new, d)) <= MAX_CAMERA_DEPENDENCIES
    BY DEF Linked
  <2>3. CASE d \in DOMAIN reg
    <3>1. /\ Dependencies(reg, d) \subseteq DOMAIN reg /\ d \notin Below(reg, d)
          /\ Cardinality(Dependencies(reg, d)) <= MAX_CAMERA_DEPENDENCIES
      BY <2>3 DEF Sound, Linked
    <3>2. /\ Dependencies(reg, d) \subseteq Below(reg, d) /\ Closed(reg, Below(reg, d))
          /\ \A x \in DOMAIN reg : Dependencies(reg, x) \subseteq Cameras
      <4>1. \A x \in DOMAIN reg : Dependencies(reg, x) \subseteq Cameras
        BY <1>2 DEF Sound, Linked
      <4> QED BY <2>3, <4>1, BelowIsLeast
    <3>3. Closed(new, Below(reg, d)) /\ Dependencies(new, d) \subseteq Below(reg, d)
      BY <1>8, <1>10, <2>3, <3>2 DEF Closed
    <3>4. Below(new, d) \subseteq Below(reg, d)
      BY <2>1, <3>3, BelowIsLeast
    <3> QED BY <1>8, <1>10, <2>3, <3>1, <3>4
  <2>4. CASE d \notin DOMAIN reg
    <3>1. d = c /\ Dependencies(new, d) = {}
      BY <1>8, <1>10, <2>2, <2>4
    <3>2. Closed(new, {}) /\ Dependencies(new, d) \subseteq {}
      BY <3>1 DEF Closed
    <3>3. Below(new, d) \subseteq {}
      BY <2>1, <3>2, BelowIsLeast
    <3> QED BY <3>1, <3>3, FS_EmptySet, LimitsAssumption
  <2> QED BY <2>3, <2>4
<1>12. OwnSpaces(new)
  BY <1>4, <1>7, <1>8 DEF Sound, OwnSpaces
<1>13. FlagsAreSound(new)
  BY <1>8, <1>10 DEF Sound, FlagsAreSound
<1>14. \A d \in DOMAIN new : HistoryIsSound(new[d], seen[d])
  BY <1>6, <1>8 DEF Sound
<1>15. Sound(new, seen, update_tick)
  BY <1>9, <1>11, <1>12, <1>13, <1>14 DEF Sound
<1> QED BY <1>7, <1>8, <1>15 DEF new, deps, OneRegistered

\* A dependency that closes no cycle leaves what is linked linked.
LEMMA OneMoreLink ==
  ASSUME NEW old \in Registries, NEW new \in Registries, Linked(old),
         DOMAIN new = DOMAIN old, NEW p \in DOMAIN old, NEW ch \in DOMAIN old, p # ch,
         p \notin Below(old, ch),
         \A c \in DOMAIN old \ {p} : Dependencies(new, c) = Dependencies(old, c),
         Dependencies(new, p) = Dependencies(old, p) \cup {ch},
         ch \in Dependencies(old, p)
           \/ Cardinality(Dependencies(old, p)) < MAX_CAMERA_DEPENDENCIES
  PROVE  Linked(new)
<1>1. DOMAIN old \subseteq Cameras /\ \A c \in DOMAIN old : Dependencies(old, c) \subseteq Cameras
  BY RegistryFacts DEF Linked
<1>2. \A c \in DOMAIN new : Dependencies(new, c) \subseteq DOMAIN new /\ Dependencies(new, c) \subseteq Cameras
  BY <1>1 DEF Linked
<1>3. /\ \A c \in DOMAIN old : Dependencies(old, c) \subseteq Below(old, c) /\ Closed(old, Below(old, c))
      /\ \A c \in DOMAIN old : \A K : Closed(old, K) /\ Dependencies(old, c) \subseteq K
                                        => Below(old, c) \subseteq K
  BY <1>1, BelowIsLeast
<1>4. ASSUME NEW c \in DOMAIN new PROVE c \notin Below(new, c)
  <2>1. c \in DOMAIN old /\ c \notin Below(old, c)
    BY <1>4 DEF Linked
  <2>2. CASE p \notin Below(old, c) \cup {c}
    <3>1. Closed(new, Below(old, c)) /\ Dependencies(new, c) \subseteq Below(old, c)
      BY <1>3, <2>1, <2>2 DEF Closed
    <3> QED BY <1>2, <2>1, <3>1, BelowIsLeast
  <2>3. CASE p \in Below(old, c) \cup {c}
    <3> DEFINE K == Below(old, c) \cup {ch} \cup Below(old, ch)
    <3>1. Dependencies(new, c) \subseteq K
      BY <1>3, <2>1
    <3>2. Closed(new, K)
      <4>1. SUFFICES ASSUME NEW d \in K \cap DOMAIN new PROVE Dependencies(new, d) \subseteq K
        BY DEF Closed
      <4>2. Dependencies(old, d) \subseteq K
        BY <1>3, <2>1 DEF Closed
      <4> QED BY <4>2
    <3>3. c # ch
      BY <2>3
    <3>4. c \notin Below(old, ch)
      <4>1. SUFFICES ASSUME c \in Below(old, ch) PROVE FALSE
        OBVIOUS
      <4>2. Below(old, c) \subseteq Below(old, ch)
        BY <1>3, <2>1, <4>1 DEF Closed
      <4> QED BY <2>3, <4>1, <4>2
    <3>5. Below(new, c) \subseteq K
      BY <1>2, <3>1, <3>2, BelowIsLeast
    <3> QED BY <2>1, <3>3, <3>4, <3>5
  <2> QED BY <2>2, <2>3
<1>5. ASSUME NEW c \in DOMAIN new
      PROVE  Cardinality(Dependencies(new, c)) <= MAX_CAMERA_DEPENDENCIES
  <2>1. \A d \in DOMAIN old : Cardinality(Dependencies(old, d)) <= MAX_CAMERA_DEPENDENCIES
    BY DEF Linked
  <2>2. CASE c = p /\ ch \notin Dependencies(old, p)
    <3>1. IsFiniteSet(Dependencies(old, p)) /\ Cardinality(Dependencies(old, p)) \in Nat
      BY <1>1, CamerasAssumption, FS_Subset, FS_CardinalityType
    <3>2. Cardinality(Dependencies(new, p)) = Cardinality(Dependencies(old, p)) + 1
      BY <2>2, <3>1, FS_AddElement
    <3>3. Cardinality(Dependencies(old, p)) < MAX_CAMERA_DEPENDENCIES /\ MAX_CAMERA_DEPENDENCIES \in Nat
      BY <2>2, LimitsAssumption
    <3> QED BY <2>2, <3>1, <3>2, <3>3
  <2>3. CASE c = p /\ ch \in Dependencies(old, p)
    <3>1. Dependencies(new, c) = Dependencies(old, c)
      BY <2>3
    <3> QED BY <2>1, <2>3, <3>1
  <2>4. CASE c # p
    BY <2>1, <2>4
  <2> QED BY <2>2, <2>3, <2>4
<1> QED BY <1>2, <1>4, <1>5 DEF Linked

LEMMA AddFacts ==
  ASSUME NEW t, NEW seen, NEW reg, Sound(reg, seen, t), NEW p, NEW ch,
         NEW management \in Managements,
         NEW new, new = add_camera_dependency(reg, p, ch, management), new # reg
  PROVE  /\ Sound(new, seen, t) /\ DOMAIN new = DOMAIN reg
         /\ Flagged(new, "TEMPORARY_REQUESTED") =
              IF management = "Temporal" THEN Flagged(reg, "TEMPORARY_REQUESTED") \cup {<<p, ch>>}
              ELSE Flagged(reg, "TEMPORARY_REQUESTED") \ {<<p, ch>>}
<1> DEFINE flags == IF management = "Temporal" THEN Flags ELSE {}
           deps == [d \in DOMAIN reg[p].dependencies \cup {ch} |->
                      IF d # ch THEN reg[p].dependencies[d] ELSE flags]
<1>1. /\ p # ch /\ p \in DOMAIN reg /\ ch \in DOMAIN reg
      /\ p \notin Below(reg, ch)
      /\ \/ ch \in Dependencies(reg, p)
         \/ ~ (Cardinality(Dependencies(reg, p)) >= MAX_CAMERA_DEPENDENCIES)
      /\ new = [reg EXCEPT ![p].dependencies = deps]
  BY DEF add_camera_dependency, has_dependency
<1>2. reg \in Registries /\ DOMAIN reg \subseteq Cameras /\ \A c \in DOMAIN reg : reg[c] \in Entry
  BY RegistryFacts DEF Sound
<1>3. deps \in DependencySets /\ DOMAIN deps = Dependencies(reg, p) \cup {ch}
  <2>1. /\ DOMAIN reg[p].dependencies \subseteq Cameras
        /\ \A d \in DOMAIN reg[p].dependencies : reg[p].dependencies[d] \subseteq Flags
    BY <1>1, <1>2, DependenciesTyped, DependencySetFacts
  <2>2. flags \subseteq Flags
    OBVIOUS
  <2> HIDE DEF flags
  <2>3. DOMAIN deps \subseteq Cameras /\ \A d \in DOMAIN deps : deps[d] \subseteq Flags
    BY <1>1, <1>2, <2>1, <2>2
  <2>4. deps = [d \in DOMAIN deps |-> deps[d]]
    OBVIOUS
  <2>5. DOMAIN deps = Dependencies(reg, p) \cup {ch}
    BY DEF Dependencies
  <2> HIDE DEF deps
  <2> QED BY <2>3, <2>4, <2>5, DependencySetFacts
<1>4. /\ \A d \in Dependencies(reg, p) \ {ch} : deps[d] = reg[p].dependencies[d]
      /\ deps[ch] = flags
  BY DEF Dependencies
<1> HIDE DEF deps
<1>5. /\ DOMAIN new = DOMAIN reg /\ new[p] = [reg[p] EXCEPT !.dependencies = deps]
      /\ \A c \in DOMAIN reg \ {p} : new[c] = reg[c]
      /\ new = [c \in DOMAIN new |-> new[c]]
  BY <1>1
<1>6. new[p] \in Entry /\ new[p].dependencies = deps /\ SameEntry(new[p], reg[p])
  <2>1. reg[p] \in Entry
    BY <1>1, <1>2
  <2> QED BY <1>3, <1>5, <2>1, EntryWith
<1>7. Relinked(reg, new)
  <2>1. ASSUME NEW c \in DOMAIN new
        PROVE  new[c] \in Entry /\ SameEntry(new[c], reg[c])
    <3>1. CASE c = p
      BY <3>1, <1>6
    <3>2. CASE c # p
      <4>1. c \in DOMAIN reg /\ new[c] = reg[c]
        BY <3>2, <1>5
      <4> QED BY <4>1, <1>2 DEF SameEntry
    <3> QED BY <3>1, <3>2
  <2>2. DOMAIN new \subseteq Cameras /\ new = [c \in DOMAIN new |-> new[c]]
    BY <1>2, <1>5
  <2>3. new \in Registries
    BY <2>1, <2>2, RegistryFacts
  <2> QED BY <1>5, <2>1, <2>3 DEF Relinked
<1>8. /\ \A c \in DOMAIN reg \ {p} : Dependencies(new, c) = Dependencies(reg, c)
      /\ Dependencies(new, p) = Dependencies(reg, p) \cup {ch}
  BY <1>3, <1>5, <1>6 DEF Dependencies
<1>9. Linked(new)
  <2>1. \/ ch \in Dependencies(reg, p)
        \/ Cardinality(Dependencies(reg, p)) < MAX_CAMERA_DEPENDENCIES
    <3>1. Cardinality(Dependencies(reg, p)) \in Nat
      <4>1. Dependencies(reg, p) \subseteq Cameras
        BY <1>1, <1>2 DEF Sound, Linked
      <4> QED BY <4>1, CamerasAssumption, FS_Subset, FS_CardinalityType
    <3>2. MAX_CAMERA_DEPENDENCIES \in Nat
      BY LimitsAssumption
    <3> QED BY <1>1, <3>1, <3>2
  <2>2. Linked(reg) /\ new \in Registries
    BY <1>7 DEF Sound, Relinked
  <2> QED BY <1>1, <1>2, <1>5, <1>8, <2>1, <2>2, OneMoreLink
<1>10. FlagsAreSound(new)
  <2>1. "TEMPORARY_REQUESTED" \in flags => "TEMPORARY" \in flags
    BY DEF Flags
  <2> HIDE DEF flags
  <2>2. SUFFICES ASSUME NEW c \in DOMAIN new, NEW d \in Dependencies(new, c),
                        "TEMPORARY_REQUESTED" \in new[c].dependencies[d]
                 PROVE  "TEMPORARY" \in new[c].dependencies[d]
    BY DEF FlagsAreSound
  <2>3. CASE c = p /\ d = ch
    BY <1>4, <1>6, <2>1, <2>2, <2>3
  <2>4. CASE c = p /\ d # ch
    BY <1>1, <1>4, <1>6, <1>8, <2>2, <2>4 DEF Sound, FlagsAreSound
  <2>5. CASE c # p
    BY <1>5, <1>8, <2>2, <2>5 DEF Sound, FlagsAreSound
  <2> QED BY <2>3, <2>4, <2>5
<1>11. Sound(new, seen, t)
  BY <1>7, <1>9, <1>10, RelinkedSound
<1>12. "TEMPORARY_REQUESTED" \in flags <=> management = "Temporal"
  BY DEF Flags
<1> HIDE DEF flags
<1>13. Flagged(new, "TEMPORARY_REQUESTED") =
              IF management = "Temporal" THEN Flagged(reg, "TEMPORARY_REQUESTED") \cup {<<p, ch>>}
              ELSE Flagged(reg, "TEMPORARY_REQUESTED") \ {<<p, ch>>}
  <2> DEFINE F == "TEMPORARY_REQUESTED"
  <2>1. \A c, d \in Cameras : <<c, d>> # <<p, ch>> =>
          (<<c, d>> \in Flagged(new, F) <=> <<c, d>> \in Flagged(reg, F))
    BY <1>1, <1>4, <1>5, <1>6, <1>8 DEF Flagged
  <2>2. <<p, ch>> \in Flagged(new, F) <=> management = "Temporal"
    BY <1>1, <1>2, <1>4, <1>5, <1>6, <1>8, <1>12 DEF Flagged
  <2>3. \A e \in Flagged(new, F) \cup Flagged(reg, F) \cup {<<p, ch>>} :
          \E c, d \in Cameras : e = <<c, d>>
    BY <1>1, <1>2 DEF Flagged
  <2> HIDE DEF F
  <2>4. \A e : e \in Flagged(new, F) <=>
                 IF e = <<p, ch>> THEN management = "Temporal" ELSE e \in Flagged(reg, F)
    BY <2>1, <2>2, <2>3
  <2>5. Flagged(new, F) = IF management = "Temporal" THEN Flagged(reg, F) \cup {<<p, ch>>}
                          ELSE Flagged(reg, F) \ {<<p, ch>>}
    BY <2>4
  <2> QED BY <2>5 DEF F
<1> QED BY <1>5, <1>11, <1>13

LEMMA RemoveFacts ==
  ASSUME NEW t, NEW seen, NEW reg, Sound(reg, seen, t), NEW p, NEW ch,
         NEW new, new = remove_camera_dependency(reg, p, ch), new # reg
  PROVE  /\ Sound(new, seen, t) /\ DOMAIN new = DOMAIN reg
         /\ Flagged(new, "TEMPORARY_REQUESTED") = Flagged(reg, "TEMPORARY_REQUESTED") \ {<<p, ch>>}
<1> DEFINE kept == DOMAIN reg[p].dependencies \ {ch}
           deps == Restrict(reg[p].dependencies, kept)
<1>1. p \in DOMAIN reg /\ new = [reg EXCEPT ![p].dependencies = deps]
  BY DEF remove_camera_dependency
<1>2. reg \in Registries /\ DOMAIN reg \subseteq Cameras /\ \A c \in DOMAIN reg : reg[c] \in Entry
  BY RegistryFacts DEF Sound
<1>3. /\ deps \in DependencySets /\ DOMAIN deps = Dependencies(reg, p) \ {ch}
      /\ \A d \in Dependencies(reg, p) \ {ch} : deps[d] = reg[p].dependencies[d]
  <2>1. reg[p].dependencies \in DependencySets
    BY <1>1, <1>2, DependenciesTyped
  <2>2. kept \subseteq DOMAIN reg[p].dependencies
    OBVIOUS
  <2>3. kept = Dependencies(reg, p) \ {ch}
    BY DEF Dependencies
  <2> HIDE DEF kept
  <2> QED BY <2>1, <2>2, <2>3, RestrictedDependencies
<1> HIDE DEF deps
<1>4. /\ DOMAIN new = DOMAIN reg /\ new[p] = [reg[p] EXCEPT !.dependencies = deps]
      /\ \A c \in DOMAIN reg \ {p} : new[c] = reg[c]
      /\ new = [c \in DOMAIN new |-> new[c]]
  BY <1>1
<1>5. new[p] \in Entry /\ new[p].dependencies = deps /\ SameEntry(new[p], reg[p])
  <2>1. reg[p] \in Entry
    BY <1>1, <1>2
  <2> QED BY <1>3, <1>4, <2>1, EntryWith
<1>6. Relinked(reg, new)
  <2>1. ASSUME NEW c \in DOMAIN new
        PROVE  new[c] \in Entry /\ SameEntry(new[c], reg[c])
    <3>1. CASE c = p
      BY <3>1, <1>5
    <3>2. CASE c # p
      <4>1. c \in DOMAIN reg /\ new[c] = reg[c]
        BY <3>2, <1>4
      <4> QED BY <4>1, <1>2 DEF SameEntry
    <3> QED BY <3>1, <3>2
  <2>2. DOMAIN new \subseteq Cameras /\ new = [c \in DOMAIN new |-> new[c]]
    BY <1>2, <1>4
  <2>3. new \in Registries
    BY <2>1, <2>2, RegistryFacts
  <2> QED BY <1>4, <2>1, <2>3 DEF Relinked
<1>7. /\ \A c \in DOMAIN reg \ {p} : Dependencies(new, c) = Dependencies(reg, c)
      /\ Dependencies(new, p) = Dependencies(reg, p) \ {ch}
      /\ \A c \in DOMAIN new : \A d \in Dependencies(new, c) :
           new[c].dependencies[d] = reg[c].dependencies[d]
  BY <1>3, <1>4, <1>5 DEF Dependencies
<1>8. Linked(new)
  <2>1. \A c \in DOMAIN new : Dependencies(new, c) \subseteq Dependencies(reg, c) \cap DOMAIN new
    BY <1>4, <1>7 DEF Sound, Linked
  <2> QED BY <1>2, <1>4, <1>6, <2>1, FewerLinks DEF Sound, Relinked
<1>9. FlagsAreSound(new)
  BY <1>4, <1>7 DEF Sound, FlagsAreSound
<1>10. Sound(new, seen, t)
  BY <1>6, <1>8, <1>9, RelinkedSound
<1>11. Flagged(new, "TEMPORARY_REQUESTED") = Flagged(reg, "TEMPORARY_REQUESTED") \ {<<p, ch>>}
  <2> DEFINE F == "TEMPORARY_REQUESTED"
  <2> HIDE DEF F
  <2>1. \A c, d \in Cameras :
          <<c, d>> \in Flagged(new, F) <=> <<c, d>> \in Flagged(reg, F) /\ <<c, d>> # <<p, ch>>
    <3>1. \A c, d \in Cameras :
            /\ <<c, d>> \in Flagged(new, F) <=>
                 c \in DOMAIN new /\ d \in Dependencies(new, c) /\ F \in new[c].dependencies[d]
            /\ <<c, d>> \in Flagged(reg, F) <=>
                 c \in DOMAIN reg /\ d \in Dependencies(reg, c) /\ F \in reg[c].dependencies[d]
      BY DEF Flagged
    <3>2. \A c, d \in Cameras : <<c, d>> # <<p, ch>> <=> ~ (c = p /\ d = ch)
      OBVIOUS
    <3>3. \A c, d \in Cameras : c \in DOMAIN new =>
            (d \in Dependencies(new, c) <=> d \in Dependencies(reg, c) /\ ~ (c = p /\ d = ch))
      BY <1>4, <1>7
    <3>4. \A c \in DOMAIN new : \A d \in Dependencies(new, c) :
            F \in new[c].dependencies[d] <=> F \in reg[c].dependencies[d]
      BY <1>7
    <3>5. DOMAIN new = DOMAIN reg
      BY <1>4
    <3>6. ASSUME NEW c \in Cameras, NEW d \in Cameras
          PROVE  <<c, d>> \in Flagged(new, F)
                   <=> <<c, d>> \in Flagged(reg, F) /\ <<c, d>> # <<p, ch>>
      <4>1. CASE c \in DOMAIN new
        BY <3>1, <3>2, <3>3, <3>4, <3>5, <4>1
      <4>2. CASE c \notin DOMAIN new
        BY <3>1, <3>5, <4>2
      <4> QED BY <4>1, <4>2
    <3> QED BY <3>6
  <2>2. \A e \in Flagged(new, F) \cup Flagged(reg, F) : \E c, d \in Cameras : e = <<c, d>>
    BY DEF Flagged
  <2>3. \A e : e \in Flagged(new, F) <=> e \in Flagged(reg, F) /\ e # <<p, ch>>
    BY <2>1, <2>2
  <2>4. Flagged(new, F) = Flagged(reg, F) \ {<<p, ch>>}
    BY <2>3
  <2> QED BY <2>4 DEF F
<1> QED BY <1>4, <1>10, <1>11

\* Two registries with the same cameras and the same dependencies of them.
SameLinks(old, new) ==
  DOMAIN new = DOMAIN old /\ \A c \in DOMAIN old : new[c].dependencies = old[c].dependencies

LEMMA SameLinksFacts ==
  ASSUME NEW old \in Registries, NEW new \in Registries, SameLinks(old, new)
  PROVE  /\ Linked(old) => Linked(new)
         /\ FlagsAreSound(old) => FlagsAreSound(new)
         /\ \A flag : Flagged(new, flag) = Flagged(old, flag)
<1>1. \A c \in DOMAIN old : Dependencies(new, c) = Dependencies(old, c)
  BY DEF SameLinks, Dependencies
<1>2. ASSUME Linked(old) PROVE Linked(new)
  <2>1. \A c \in DOMAIN new : Dependencies(new, c) \subseteq Dependencies(old, c) \cap DOMAIN new
    BY <1>1, <1>2 DEF Linked, SameLinks
  <2> QED BY <1>2, <2>1, FewerLinks DEF SameLinks
<1>3. FlagsAreSound(old) => FlagsAreSound(new)
  BY <1>1 DEF FlagsAreSound, SameLinks
<1>4. \A flag : Flagged(new, flag) = Flagged(old, flag)
  BY <1>1 DEF Flagged, SameLinks
<1> QED BY <1>2, <1>3, <1>4

OneEnabled(reg, new, c) == \E enabled \in BOOLEAN : new = [reg EXCEPT ![c].enabled = enabled]

LEMMA EnableFacts ==
  ASSUME NEW t, NEW seen, NEW reg, Sound(reg, seen, t), NEW c \in DOMAIN reg,
         NEW new, OneEnabled(reg, new, c)
  PROVE  /\ Sound(new, seen, t) /\ DOMAIN new = DOMAIN reg
         /\ \A flag : Flagged(new, flag) = Flagged(reg, flag)
<1>0. PICK enabled \in BOOLEAN : new = [reg EXCEPT ![c].enabled = enabled]
  BY DEF OneEnabled
<1>1. reg \in Registries /\ DOMAIN reg \subseteq Cameras /\ \A d \in DOMAIN reg : reg[d] \in Entry
  BY RegistryFacts DEF Sound
<1>2. /\ DOMAIN new = DOMAIN reg /\ new[c] = [reg[c] EXCEPT !.enabled = enabled]
      /\ \A d \in DOMAIN reg \ {c} : new[d] = reg[d]
      /\ new = [d \in DOMAIN new |-> new[d]]
  BY <1>0
<1>3. /\ new[c] \in Entry
      /\ new[c].render_flow_space = reg[c].render_flow_space
      /\ new[c].last_update_tick = reg[c].last_update_tick
      /\ new[c].dependencies = reg[c].dependencies
      /\ new[c].last_prepared = reg[c].last_prepared
  <2>1. reg[c] \in Entry
    BY <1>1
  <2>2. new[c] = [target_view_index |-> reg[c].target_view_index, management |-> reg[c].management,
           render_policy |-> reg[c].render_policy, render_flow_space |-> reg[c].render_flow_space,
           enabled |-> enabled, last_update_tick |-> reg[c].last_update_tick,
           dependencies |-> reg[c].dependencies, last_prepared |-> reg[c].last_prepared]
    BY <1>2, <2>1 DEF Entry
  <2>3. new[c] \in Entry
    BY <2>1, <2>2, EntryFacts
  <2> QED BY <2>2, <2>3
<1>4. new \in Registries
  <2>1. \A d \in DOMAIN new : new[d] \in Entry
    BY <1>1, <1>2, <1>3
  <2> QED BY <1>1, <1>2, <2>1, RegistryFacts
<1>5. SameLinks(reg, new)
  BY <1>2, <1>3 DEF SameLinks
<1>6. /\ Linked(new) /\ FlagsAreSound(new)
      /\ \A flag : Flagged(new, flag) = Flagged(reg, flag)
  BY <1>1, <1>4, <1>5, SameLinksFacts DEF Sound
<1>7. (\A d \in DOMAIN new : HistoryIsSound(new[d], seen[d])) /\ OwnSpaces(new)
  <2>1. \A d \in DOMAIN new :
          /\ new[d].render_flow_space = reg[d].render_flow_space
          /\ new[d].last_update_tick = reg[d].last_update_tick
          /\ new[d].last_prepared = reg[d].last_prepared
    BY <1>2, <1>3
  <2>2. \A d \in DOMAIN new : HistoryIsSound(new[d], seen[d])
    BY <1>2, <2>1 DEF Sound, HistoryIsSound
  <2>3. OwnSpaces(new)
    BY <1>2, <2>1 DEF Sound, OwnSpaces
  <2> QED BY <2>2, <2>3
<1>8. Sound(new, seen, t)
  BY <1>4, <1>6, <1>7 DEF Sound
<1> QED BY <1>2, <1>6, <1>8

-----------------------------------------------------------------------------
(* The flush of the temporary dependencies.                                 *)

WithFlushed(reg) ==
  [c \in DOMAIN reg |-> [reg[c] EXCEPT !.dependencies = FlushDependencies(reg[c].dependencies)]]

LEMMA FlushFacts ==
  ASSUME NEW t, NEW seen, NEW reg, Sound(reg, seen, t)
  PROVE  LET new == WithFlushed(reg)
         IN /\ Sound(new, seen, t) /\ Relinked(reg, new) /\ DOMAIN new = DOMAIN reg
            /\ Flagged(new, "TEMPORARY_REQUESTED") = {}
            /\ Flagged(new, "TEMPORARY") = Flagged(reg, "TEMPORARY_REQUESTED")
<1> DEFINE deps(c) == FlushDependencies(reg[c].dependencies)
           new == [c \in DOMAIN reg |-> [reg[c] EXCEPT !.dependencies = deps(c)]]
           keep(c) == {d \in Dependencies(reg, c) : "TEMPORARY" \in reg[c].dependencies[d]
                                 => "TEMPORARY_REQUESTED" \in reg[c].dependencies[d]}
<1>1. reg \in Registries /\ DOMAIN reg \subseteq Cameras /\ \A c \in DOMAIN reg : reg[c] \in Entry
  BY RegistryFacts DEF Sound
<1>2. ASSUME NEW c \in DOMAIN reg
      PROVE  /\ deps(c) \in DependencySets /\ DOMAIN deps(c) = keep(c)
             /\ \A d \in keep(c) : deps(c)[d] = reg[c].dependencies[d] \ {"TEMPORARY_REQUESTED"}
  <2>1. /\ DOMAIN reg[c].dependencies \subseteq Cameras
        /\ \A d \in DOMAIN reg[c].dependencies : reg[c].dependencies[d] \subseteq Flags
    BY <1>1, DependenciesTyped, DependencySetFacts
  <2>2. deps(c) = [d \in keep(c) |-> reg[c].dependencies[d] \ {"TEMPORARY_REQUESTED"}]
    BY DEF FlushDependencies, Dependencies
  <2>3. keep(c) \subseteq DOMAIN reg[c].dependencies
    BY DEF Dependencies
  <2> HIDE DEF deps, keep
  <2>4. /\ DOMAIN deps(c) = keep(c) /\ deps(c) = [d \in DOMAIN deps(c) |-> deps(c)[d]]
        /\ \A d \in keep(c) : deps(c)[d] = reg[c].dependencies[d] \ {"TEMPORARY_REQUESTED"}
    BY <2>2
  <2>5. DOMAIN deps(c) \subseteq Cameras /\ \A d \in DOMAIN deps(c) : deps(c)[d] \subseteq Flags
    BY <2>1, <2>3, <2>4
  <2> QED BY <2>4, <2>5, DependencySetFacts
<1> HIDE DEF deps
<1>3. /\ DOMAIN new = DOMAIN reg /\ new = [c \in DOMAIN new |-> new[c]]
      /\ \A c \in DOMAIN reg : new[c] = [reg[c] EXCEPT !.dependencies = deps(c)]
  OBVIOUS
<1> HIDE DEF new
<1>4. \A c \in DOMAIN new : /\ new[c] \in Entry /\ SameEntry(new[c], reg[c])
                            /\ new[c].dependencies = deps(c)
  <2>1. SUFFICES ASSUME NEW c \in DOMAIN reg
                 PROVE  /\ new[c] \in Entry /\ SameEntry(new[c], reg[c])
                        /\ new[c].dependencies = deps(c)
    BY <1>3
  <2>2. reg[c] \in Entry /\ deps(c) \in DependencySets
    BY <1>1, <1>2
  <2>3. /\ [reg[c] EXCEPT !.dependencies = deps(c)] \in Entry
        /\ [reg[c] EXCEPT !.dependencies = deps(c)].dependencies = deps(c)
        /\ SameEntry([reg[c] EXCEPT !.dependencies = deps(c)], reg[c])
    BY <2>2, EntryWith
  <2> QED BY <1>3, <2>3
<1>5. Relinked(reg, new)
  BY <1>1, <1>3, <1>4, RegistryFacts DEF Relinked
<1>6. \A c \in DOMAIN new :
        /\ Dependencies(new, c) = keep(c)
        /\ \A d \in keep(c) :
             new[c].dependencies[d] = reg[c].dependencies[d] \ {"TEMPORARY_REQUESTED"}
  <2> HIDE DEF keep
  <2> QED BY <1>2, <1>3, <1>4 DEF Dependencies
<1>7. Linked(new)
  <2>1. \A c \in DOMAIN new : Dependencies(new, c) \subseteq Dependencies(reg, c) \cap DOMAIN new
    BY <1>3, <1>6 DEF Sound, Linked
  <2> QED BY <1>1, <1>3, <1>5, <2>1, FewerLinks DEF Sound, Relinked
<1>8. FlagsAreSound(new) /\ Flagged(new, "TEMPORARY_REQUESTED") = {}
  BY <1>6 DEF FlagsAreSound, Flagged
<1>9. Sound(new, seen, t)
  BY <1>5, <1>7, <1>8, RelinkedSound
<1>10. Flagged(new, "TEMPORARY") = Flagged(reg, "TEMPORARY_REQUESTED")
  <2>1. \A c \in DOMAIN reg : \A d \in Cameras :
          (d \in Dependencies(new, c) /\ "TEMPORARY" \in new[c].dependencies[d])
            <=> (d \in Dependencies(reg, c) /\ "TEMPORARY_REQUESTED" \in reg[c].dependencies[d])
    BY <1>3, <1>6 DEF Sound, FlagsAreSound
  <2> QED BY <1>3, <2>1 DEF Flagged
<1> QED BY <1>3, <1>5, <1>8, <1>9, <1>10 DEF new, deps, WithFlushed

LEMMA FlushedFacts ==
  ASSUME NEW t, NEW seen, Sound(registry, seen, t)
  PROVE  LET reg == Flushed(TRUE)
         IN /\ Sound(reg, seen, t) /\ DOMAIN reg \subseteq DOMAIN registry
            /\ \A c \in DOMAIN reg : SameEntry(reg[c], registry[c])
            /\ Flagged(reg, "TEMPORARY_REQUESTED") = {}
            /\ Flagged(reg, "TEMPORARY") =
                 {e \in Flagged(registry, "TEMPORARY_REQUESTED") : {e[1], e[2]} \subseteq DOMAIN reg}
<1> DEFINE f == WithFlushed(registry)
           gone == StaleTemporals(f)
           reg == unregister_cameras(f, gone)
<1>1. Flushed(TRUE) = reg
  BY DEF Flushed, flush_temporal_state, WithFlushed
<1>2. /\ Sound(f, seen, t) /\ Flagged(f, "TEMPORARY_REQUESTED") = {} /\ Relinked(registry, f)
      /\ Flagged(f, "TEMPORARY") = Flagged(registry, "TEMPORARY_REQUESTED")
  BY FlushFacts
<1>3. DOMAIN f = DOMAIN registry
  BY DEF WithFlushed
<1> HIDE DEF f, gone
<1>4. f \in Registries
  BY <1>2 DEF Sound
<1>5. /\ Sound(reg, seen, t) /\ DOMAIN reg = DOMAIN f \ gone /\ Relinked(f, reg)
      /\ \A flag : Flagged(reg, flag) = {e \in Flagged(f, flag) : gone \cap {e[1], e[2]} = {}}
  BY <1>2, <1>4, UnregisterSound, UnregisterFacts, UnregisterFlagged
<1> HIDE DEF reg
<1>6. \A e \in Flagged(f, "TEMPORARY") :
        gone \cap {e[1], e[2]} = {} <=> {e[1], e[2]} \subseteq DOMAIN reg
  <2>1. \A e \in Flagged(f, "TEMPORARY") : e[1] \in DOMAIN f /\ e[2] \in DOMAIN f
    BY <1>2 DEF Flagged, Sound, Linked
  <2> QED BY <1>5, <2>1
<1>7. Flagged(reg, "TEMPORARY") =
        {e \in Flagged(registry, "TEMPORARY_REQUESTED") : {e[1], e[2]} \subseteq DOMAIN reg}
  BY <1>2, <1>5, <1>6
<1>8. \A c \in DOMAIN reg : SameEntry(reg[c], registry[c])
  BY <1>2, <1>5 DEF Relinked, SameEntry
<1> QED BY <1>1, <1>2, <1>3, <1>5, <1>7, <1>8

-----------------------------------------------------------------------------
(* The cameras of a frame.                                                  *)

Roots(reg, requested) ==
  {c \in DOMAIN reg : reg[c].enabled /\ (reg[c].render_policy = "Always" \/ c \in requested)}

Parents(reg, c) == {q \in DOMAIN reg : c \in Dependencies(reg, q)}

\* One round of the depths.
Closer(reg, depth) ==
  [c \in DOMAIN reg |-> Min({depth[c]} \cup {depth[p] + 1 : p \in Parents(reg, c)})]

LEMMA CloserFacts ==
  ASSUME NEW reg, NEW depth \in [DOMAIN reg -> Nat]
  PROVE  /\ Closer(reg, depth) \in [DOMAIN reg -> Nat]
         /\ \A c \in DOMAIN reg :
              /\ Closer(reg, depth)[c] <= depth[c]
              /\ \A p \in Parents(reg, c) : Closer(reg, depth)[c] <= depth[p] + 1
              /\ \/ Closer(reg, depth)[c] = depth[c]
                 \/ \E p \in Parents(reg, c) : Closer(reg, depth)[c] = depth[p] + 1
<1> DEFINE S(c) == {depth[c]} \cup {depth[p] + 1 : p \in Parents(reg, c)}
<1>1. Closer(reg, depth) = [c \in DOMAIN reg |-> Min(S(c))]
  BY DEF Closer
<1>2. \A c \in DOMAIN reg : S(c) \subseteq Nat /\ S(c) # {}
  BY DEF Parents
<1>3. \A c \in DOMAIN reg : \A k : k \in S(c) <=>
        k = depth[c] \/ \E p \in Parents(reg, c) : k = depth[p] + 1
  OBVIOUS
<1> HIDE DEF S
<1>4. \A c \in DOMAIN reg : /\ Min(S(c)) \in S(c) /\ Min(S(c)) \in Nat
                            /\ \A k \in S(c) : Min(S(c)) <= k
  BY <1>2, MinFacts
<1>5. \A c \in DOMAIN reg : Closer(reg, depth)[c] = Min(S(c))
  BY <1>1
<1>6. Closer(reg, depth) \in [DOMAIN reg -> Nat]
  BY <1>1, <1>4
<1>7. ASSUME NEW c \in DOMAIN reg
      PROVE  /\ Closer(reg, depth)[c] <= depth[c]
             /\ \A p \in Parents(reg, c) : Closer(reg, depth)[c] <= depth[p] + 1
             /\ \/ Closer(reg, depth)[c] = depth[c]
                \/ \E p \in Parents(reg, c) : Closer(reg, depth)[c] = depth[p] + 1
  BY <1>3, <1>4, <1>5
<1> QED BY <1>6, <1>7

\* The rounds of resolve_dependency_depths.
DepthRun(reg, requested, f) ==
  /\ f \in [Nat -> [DOMAIN reg -> Nat]]
  /\ f[0] = [c \in DOMAIN reg |-> IF c \in Roots(reg, requested) THEN 0
                                  ELSE MAX_CAMERA_DEPENDENCY_DEPTH + 1]
  /\ \A n \in Nat : f[n + 1] = Closer(reg, f[n])
  /\ resolve_dependency_depths(reg, requested) = f[Cardinality(Cameras)]

LEMMA DepthRounds ==
  ASSUME NEW reg, NEW requested
  PROVE  \E f : DepthRun(reg, requested, f)
<1> DEFINE V == [DOMAIN reg -> Nat]
           start == [c \in DOMAIN reg |-> IF c \in Roots(reg, requested) THEN 0
                                          ELSE MAX_CAMERA_DEPENDENCY_DEPTH + 1]
           h == [n \in Nat |-> [depth \in V |-> Closer(reg, depth)]]
           It == CHOOSE round : round = [n \in Nat |->
                   IF n = 0 THEN start
                   ELSE [c \in DOMAIN reg |->
                          Min({round[n - 1][c]} \cup
                              {round[n - 1][p] + 1 : p \in Parents(reg, c)})]]
<1>1. start \in V
  BY LimitsAssumption
<1> HIDE DEF V
<1>2. \A depth \in V : Closer(reg, depth) \in V
  BY CloserFacts DEF V
<1>3. h \in [Nat -> [V -> V]]
  BY <1>2
<1> HIDE DEF start
<1>4. PICK f : Recursive(V, start, h, f)
  BY <1>1, <1>3, Recursion
<1>5. f \in [Nat -> V] /\ f[0] = start /\ \A n \in Nat : f[n + 1] = Closer(reg, f[n])
  <2>1. f \in [Nat -> V] /\ f[0] = start /\ \A n \in Nat : f[n + 1] = h[n][f[n]]
    BY <1>4 DEF Recursive
  <2>2. \A n \in Nat : f[n] \in V
    BY <2>1
  <2> QED BY <2>1, <2>2
<1> HIDE DEF h
<1>6. f = [n \in Nat |->
             IF n = 0 THEN start
             ELSE [c \in DOMAIN reg |->
                    Min({f[n - 1][c]} \cup {f[n - 1][p] + 1 : p \in Parents(reg, c)})]]
  <2>1. ASSUME NEW n \in Nat, n # 0 PROVE f[n] = Closer(reg, f[n - 1])
    <3>1. n - 1 \in Nat /\ (n - 1) + 1 = n
      BY <2>1
    <3> QED BY <1>5, <3>1
  <2>2. f = [n \in Nat |-> f[n]]
    BY <1>5
  <2> QED BY <1>5, <2>1, <2>2 DEF Closer
<1>7. It = [n \in Nat |->
              IF n = 0 THEN start
              ELSE [c \in DOMAIN reg |->
                     Min({It[n - 1][c]} \cup {It[n - 1][p] + 1 : p \in Parents(reg, c)})]]
  BY <1>6, Zenon
<1>8. resolve_dependency_depths(reg, requested) = It[Cardinality(Cameras)]
  BY Zenon DEF resolve_dependency_depths, Roots, Parents, start
<1> HIDE DEF It
<1>9. It[0] = start
  BY <1>7
<1>10. \A n \in Nat : It[n + 1] = Closer(reg, It[n])
  <2>1. SUFFICES ASSUME NEW n \in Nat PROVE It[n + 1] = Closer(reg, It[n])
    OBVIOUS
  <2>2. n + 1 \in Nat /\ n + 1 # 0 /\ (n + 1) - 1 = n
    OBVIOUS
  <2>3. It[n + 1] = Closer(reg, It[(n + 1) - 1])
    BY <1>7, <2>2 DEF Closer
  <2> QED BY <2>2, <2>3
<1>11. \A n \in Nat : It[n] \in V
  <2> DEFINE T == {n \in Nat : It[n] \in V}
  <2>1. 0 \in T
    BY <1>1, <1>9
  <2>2. \A n \in T : n + 1 \in T
    BY <1>2, <1>10
  <2>3. T \subseteq Nat
    OBVIOUS
  <2> HIDE DEF T
  <2>4. T = Nat
    BY <2>1, <2>2, <2>3, Reached
  <2> QED BY <2>4 DEF T
<1>12. It \in [Nat -> V]
  <2>1. It = [n \in Nat |-> It[n]]
    BY <1>7
  <2> QED BY <1>11, <2>1
<1>13. DepthRun(reg, requested, It)
  BY <1>8, <1>9, <1>10, <1>12 DEF V, start, DepthRun
<1> QED BY <1>13

\* With the depth of the code, a camera is near when it is a root or a direct
\* dependency of one, however many rounds are made.
LEMMA DepthFacts ==
  ASSUME MAX_CAMERA_DEPENDENCY_DEPTH = 1,
         NEW reg, DOMAIN reg \subseteq Cameras, NEW requested, NEW c \in DOMAIN reg
  PROVE  resolve_dependency_depths(reg, requested)[c] <= MAX_CAMERA_DEPENDENCY_DEPTH
           <=> \/ c \in Roots(reg, requested)
               \/ \E r \in Roots(reg, requested) : c \in Dependencies(reg, r)
<1> DEFINE R == Roots(reg, requested)
           Near(d) == d \in R \/ \E r \in R : d \in Dependencies(reg, r)
<1>0. PICK f : DepthRun(reg, requested, f)
  BY DepthRounds
<1>1. /\ f \in [Nat -> [DOMAIN reg -> Nat]]
      /\ f[0] = [d \in DOMAIN reg |-> IF d \in R THEN 0 ELSE MAX_CAMERA_DEPENDENCY_DEPTH + 1]
      /\ \A n \in Nat : f[n + 1] = Closer(reg, f[n])
      /\ resolve_dependency_depths(reg, requested) = f[Cardinality(Cameras)]
  BY <1>0 DEF DepthRun
<1>2. R \subseteq DOMAIN reg
  BY DEF Roots
<1> HIDE DEF R
<1> DEFINE Right(n) == \A d \in DOMAIN reg :
                         /\ f[n][d] = 0 <=> d \in R
                         /\ f[n][d] <= 1 => Near(d)
                         /\ n > 0 /\ Near(d) => f[n][d] <= 1
           T == {n \in Nat : Right(n)}
<1>3. \A n \in Nat : f[n] \in [DOMAIN reg -> Nat]
  BY <1>1
<1>4. 0 \in T
  BY <1>1
<1>5. ASSUME NEW n \in T PROVE n + 1 \in T
  <2>1. n \in Nat /\ n + 1 \in Nat /\ n + 1 > 0 /\ f[n + 1] = Closer(reg, f[n])
    BY <1>1
  <2>2. SUFFICES ASSUME NEW d \in DOMAIN reg
                 PROVE  /\ f[n + 1][d] = 0 <=> d \in R
                        /\ f[n + 1][d] <= 1 <=> Near(d)
    BY <2>1
  <2>3. /\ f[n + 1][d] \in Nat /\ f[n][d] \in Nat /\ f[n + 1][d] <= f[n][d]
        /\ \A p \in Parents(reg, d) : f[n][p] \in Nat /\ f[n + 1][d] <= f[n][p] + 1
        /\ f[n + 1][d] = f[n][d] \/ \E p \in Parents(reg, d) : f[n + 1][d] = f[n][p] + 1
    <3>1. f[n] \in [DOMAIN reg -> Nat] /\ f[n + 1] \in [DOMAIN reg -> Nat]
      BY <1>3, <2>1
    <3>2. \A p \in Parents(reg, d) : f[n][p] \in Nat
      BY <3>1 DEF Parents
    <3> QED BY <2>1, <3>1, <3>2, CloserFacts
  <2>4. /\ f[n][d] = 0 <=> d \in R
        /\ f[n][d] <= 1 => Near(d)
        /\ \A p \in Parents(reg, d) : f[n][p] = 0 <=> p \in R
    BY <1>5 DEF Parents
  <2>5. f[n + 1][d] = 0 <=> d \in R
    BY <2>3, <2>4
  <2>6. Near(d) => f[n + 1][d] <= 1
    <3>1. ASSUME NEW r \in R, d \in Dependencies(reg, r) PROVE f[n + 1][d] <= 1
      <4>1. r \in Parents(reg, d)
        BY <1>2, <3>1 DEF Parents
      <4>2. f[n][r] = 0 /\ f[n + 1][d] <= f[n][r] + 1
        BY <2>3, <2>4, <4>1
      <4> QED BY <2>3, <4>2
    <3> QED BY <2>3, <2>5, <3>1
  <2>7. f[n + 1][d] <= 1 => Near(d)
    <3>1. ASSUME NEW p \in Parents(reg, d), f[n + 1][d] = f[n][p] + 1, f[n + 1][d] <= 1
          PROVE  Near(d)
      <4>1. f[n][p] = 0
        BY <2>3, <3>1
      <4> QED BY <2>4, <4>1 DEF Parents
    <3> QED BY <2>3, <2>4, <3>1
  <2> QED BY <2>5, <2>6, <2>7
<1> HIDE DEF T
<1>6. T = Nat
  <2>1. T \subseteq Nat
    BY DEF T
  <2> QED BY <1>4, <1>5, <2>1, Reached
<1>7. Cardinality(Cameras) \in Nat /\ Cardinality(Cameras) > 0
  <2>1. Cameras # {}
    OBVIOUS
  <2> QED BY <2>1, CamerasAssumption, FS_CardinalityType, FS_EmptySet
<1>8. Right(Cardinality(Cameras))
  BY <1>6, <1>7 DEF T
<1> QED BY <1>1, <1>3, <1>7, <1>8 DEF R

LEMMA SelectFacts ==
  ASSUME MAX_CAMERA_DEPENDENCY_DEPTH = 1, NEW reg, DOMAIN reg \subseteq Cameras, NEW requested
  PROVE  LET enabled == {c \in DOMAIN reg : reg[c].enabled}
             roots == Roots(reg, requested)
         IN select_cameras(reg, requested)
              = roots \cup (enabled \cap UNION {Dependencies(reg, r) : r \in roots})
<1>1. \A c \in DOMAIN reg :
        resolve_dependency_depths(reg, requested)[c] <= MAX_CAMERA_DEPENDENCY_DEPTH
           <=> \/ c \in Roots(reg, requested)
               \/ \E r \in Roots(reg, requested) : c \in Dependencies(reg, r)
  BY DepthFacts
<1>2. \A c \in Roots(reg, requested) : c \in DOMAIN reg /\ reg[c].enabled
  BY DEF Roots
<1> QED BY <1>1, <1>2 DEF select_cameras

LEMMA InsertFacts ==
  ASSUME NEW reg, NEW l \in Seq(Cameras), NEW c \in Cameras
  PROVE  /\ Insert(reg, l, c) \in Seq(Cameras)
         /\ ToSet(Insert(reg, l, c)) = ToSet(l) \cup {c}
<1> DEFINE stops == {j \in DOMAIN l : ~ SortsBefore(reg, c, l[j])} \cup {0}
           i == Max(stops) + 1
<1>1. i \in 1..Len(l)+1
  <2>1. Len(l) \in Nat /\ stops \in SUBSET (0..Len(l)) /\ stops # {}
    OBVIOUS
  <2> HIDE DEF stops
  <2>2. Max(stops) \in 0..Len(l)
    BY <2>1, MaxBounds
  <2> QED BY <2>1, <2>2
<1>2. Insert(reg, l, c) = SubSeq(l, 1, i-1) \o <<c>> \o SubSeq(l, i, Len(l))
  BY DEF Insert, InsertAt
<1> HIDE DEF i
<1> DEFINE a == SubSeq(l, 1, i-1)
           b == SubSeq(l, i, Len(l))
<1>3. /\ a \in Seq(Cameras) /\ Len(a) = i - 1 /\ \A k \in 1..i-1 : a[k] = l[k]
  BY <1>1
<1>4. /\ b \in Seq(Cameras) /\ Len(b) = Len(l) + 1 - i
      /\ \A k \in 1..Len(l)+1-i : b[k] = l[k + i - 1]
  BY <1>1
<1> HIDE DEF a, b
<1> DEFINE m == a \o <<c>>
           r == m \o b
<1>5. m \in Seq(Cameras) /\ Len(m) = i /\ m[i] = c /\ \A k \in 1..i-1 : m[k] = l[k]
  BY <1>1, <1>3
<1> HIDE DEF m
<1>6. /\ r \in Seq(Cameras) /\ Len(r) = Len(l) + 1 /\ \A k \in 1..i : r[k] = m[k]
      /\ \A k \in i+1..Len(l)+1 : r[k] = b[k - i]
  BY <1>1, <1>4, <1>5
<1>7. r[i] = c /\ \A k \in 1..i-1 : r[k] = l[k]
  BY <1>1, <1>5, <1>6
<1>8. \A k \in i..Len(l) : r[k + 1] = l[k]
  <2>1. SUFFICES ASSUME NEW k \in i..Len(l) PROVE r[k + 1] = l[k]
    OBVIOUS
  <2>2. k + 1 \in i+1..Len(l)+1 /\ (k + 1) - i \in 1..Len(l)+1-i /\ ((k + 1) - i) + i - 1 = k
    BY <1>1
  <2> QED BY <1>4, <1>6, <2>2
<1> HIDE DEF r
<1>9. ToSet(r) \subseteq ToSet(l) \cup {c}
  <2>1. SUFFICES ASSUME NEW k \in 1..Len(l)+1 PROVE r[k] \in ToSet(l) \cup {c}
    BY <1>6 DEF ToSet
  <2>2. CASE k < i
    BY <1>1, <1>7, <2>2 DEF ToSet
  <2>3. CASE k = i
    BY <1>7, <2>3
  <2>4. CASE k > i
    <3>1. k - 1 \in i..Len(l) /\ (k - 1) + 1 = k /\ k - 1 \in 1..Len(l)
      BY <1>1, <2>4
    <3> QED BY <1>8, <3>1 DEF ToSet
  <2> QED BY <1>1, <2>2, <2>3, <2>4
<1>10. ToSet(l) \cup {c} \subseteq ToSet(r)
  <2>1. c \in ToSet(r)
    BY <1>1, <1>6, <1>7 DEF ToSet
  <2>2. ASSUME NEW k \in 1..Len(l) PROVE l[k] \in ToSet(r)
    <3>1. CASE k < i
      BY <1>1, <1>6, <1>7, <3>1 DEF ToSet
    <3>2. CASE k >= i
      <4>1. k \in i..Len(l) /\ k + 1 \in 1..Len(l)+1
        BY <1>1, <3>2
      <4> QED BY <1>6, <1>8, <4>1 DEF ToSet
    <3> QED BY <1>1, <3>1, <3>2
  <2> QED BY <2>1, <2>2 DEF ToSet
<1> QED BY <1>2, <1>6, <1>9, <1>10 DEF r, m, a, b

\* The sequences of a set hold each of its elements.
LEMMA SequenceOfSet ==
  ASSUME NEW S, IsFiniteSet(S), NEW s \in SetToSeqs(S)
  PROVE  /\ s \in [1..Cardinality(S) -> S] /\ Cardinality(S) \in Nat
         /\ s \in Seq(S) /\ Len(s) = Cardinality(S) /\ ToSet(s) = S
<1> DEFINE n == Cardinality(S)
<1>1. n \in Nat
  BY FS_CardinalityType
<1>2. s \in [1..n -> S] /\ \A i, j \in 1..n : i # j => s[i] # s[j]
  BY DEF SetToSeqs
<1>3. IsFiniteSet(1..n) /\ Cardinality(1..n) = n
  <2>1. Cardinality(1..n) = IF 1 > n THEN 0 ELSE n - 1 + 1
    BY <1>1, FS_Interval
  <2>2. IsFiniteSet(1..n)
    BY <1>1, FS_Interval
  <2> QED BY <1>1, <2>1, <2>2
<1>4. s \in Injection(1..n, S)
  BY <1>2 DEF Injection, IsInjective
<1> HIDE DEF n
<1>5. Cardinality(1..n) = Cardinality(S)
  BY <1>3 DEF n
<1>6. s \in Surjection(1..n, S)
  BY <1>4, <1>5, FS_Injection
<1>7. \A x \in S : \E i \in 1..n : s[i] = x
  BY <1>6 DEF Surjection
<1>8. ToSet(s) = S
  BY <1>2, <1>7 DEF ToSet
<1> QED BY <1>1, <1>2, <1>8 DEF n

\* sort_selected_cameras puts the cameras in some order and keeps each of them.
LEMMA SortFacts ==
  ASSUME NEW reg, NEW chosen \in SUBSET Cameras, NEW sorted \in sort_selected_cameras(reg, chosen)
  PROVE  sorted \in Seq(Cameras) /\ ToSet(sorted) = chosen
<1> DEFINE n == Cardinality(chosen)
<1>1. IsFiniteSet(chosen)
  BY CamerasAssumption, FS_Subset
<1>2. PICK s \in SetToSeqs(chosen) :
        sorted = FoldLeft(LAMBDA l, c : Insert(reg, l, c), <<>>, s)
  BY DEF sort_selected_cameras
<1>3. s \in [1..n -> Cameras] /\ n \in Nat /\ ToSet(s) = chosen
  BY <1>1, SequenceOfSet
<1> HIDE DEF n
<1> DEFINE V == Seq(Cameras)
           h == [k \in 1..n |-> [l \in V |-> Insert(reg, l, s[k])]]
           It == CHOOSE it : it = [r \in SUBSET (1..n) |->
                   IF r = {} THEN <<>> ELSE Insert(reg, it[r \ {Max(r)}], s[Max(r)])]
<1>4. <<>> \in V /\ \A k \in 1..n : \A l \in V : Insert(reg, l, s[k]) \in V
  <2>1. \A k \in 1..n : s[k] \in Cameras
    BY <1>3
  <2>2. <<>> \in V
    OBVIOUS
  <2> QED BY <2>1, <2>2, InsertFacts
<1> HIDE DEF V
<1>5. h \in [1..n -> [V -> V]]
  BY <1>4
<1>6. \A k \in 1..n : \A l \in V : h[k][l] = Insert(reg, l, s[k])
  OBVIOUS
<1> HIDE DEF h
<1>7. PICK g : FoldEquation(V, <<>>, h, n, g)
  BY <1>3, <1>4, <1>5, FoldExists
<1>8. g = [r \in SUBSET (1..n) |->
             IF r = {} THEN <<>> ELSE Insert(reg, g[r \ {Max(r)}], s[Max(r)])]
  <2>1. ASSUME NEW r \in SUBSET (1..n), r # {}
        PROVE  g[r] = Insert(reg, g[r \ {Max(r)}], s[Max(r)])
    <3>1. Max(r) \in 1..n
      BY <1>3, <2>1, MaxFacts
    <3>2. g[r \ {Max(r)}] \in V /\ g[r] = h[Max(r)][g[r \ {Max(r)}]]
      BY <1>7, <2>1 DEF FoldEquation
    <3> QED BY <1>6, <3>1, <3>2
  <2>2. g = [r \in SUBSET (1..n) |-> g[r]] /\ g[{}] = <<>>
    BY <1>7 DEF FoldEquation
  <2> QED BY <2>1, <2>2
<1>9. It = [r \in SUBSET (1..n) |->
              IF r = {} THEN <<>> ELSE Insert(reg, It[r \ {Max(r)}], s[Max(r)])]
  BY <1>8, Zenon
<1>10. sorted = It[1..n]
  <2>1. DOMAIN s = 1..n
    BY <1>3
  <2> QED BY <1>2, <2>1, Zenon DEF FoldLeft, MapThenFoldSet
<1> HIDE DEF It
<1>11. It[{}] = <<>> /\ \A k \in 1..n : It[1..k] = Insert(reg, It[1..k-1], s[k])
  <2>1. \A k \in 1..n : k \in 1..k
    BY <1>3
  <2>2. {} \in SUBSET (1..n)
    OBVIOUS
  <2>3. \A k \in 1..n : 1..k \in SUBSET (1..n) /\ Max(1..k) = k /\ (1..k) \ {k} = 1..k-1
    BY <1>3, PrefixSets
  <2> QED BY <1>9, <2>1, <2>2, <2>3
<1> DEFINE W == [k \in 0..n |-> {l \in V : ToSet(l) = {s[j] : j \in 1..k}}]
<1>12. KeepsWithin(It, W, n)
  <2>1. It[{}] \in W[0]
    <3>1. ToSet(<<>>) = {s[j] : j \in 1..0}
      BY DEF ToSet
    <3>2. 0 \in 0..n
      BY <1>3
    <3> QED BY <1>4, <1>11, <3>1, <3>2
  <2>2. ASSUME NEW k \in 1..n, It[1..k-1] \in W[k - 1] PROVE It[1..k] \in W[k]
    <3>1. k - 1 \in 0..n /\ k \in 0..n /\ s[k] \in Cameras
      BY <1>3
    <3>2. It[1..k-1] \in V /\ ToSet(It[1..k-1]) = {s[j] : j \in 1..k-1}
      BY <2>2, <3>1
    <3>3. It[1..k] \in V /\ ToSet(It[1..k]) = {s[j] : j \in 1..k-1} \cup {s[k]}
      <4>1. PICK l \in Seq(Cameras) : l = It[1..k-1]
        BY <3>2 DEF V
      <4>2. /\ Insert(reg, l, s[k]) \in Seq(Cameras)
            /\ ToSet(Insert(reg, l, s[k])) = ToSet(l) \cup {s[k]}
        BY <3>1, InsertFacts
      <4> QED BY <1>11, <3>2, <4>1, <4>2 DEF V
    <3>4. {s[j] : j \in 1..k-1} \cup {s[k]} = {s[j] : j \in 1..k}
      BY <1>3
    <3> QED BY <3>1, <3>3, <3>4
  <2> HIDE DEF W
  <2> QED BY <2>1, <2>2 DEF KeepsWithin
<1> HIDE DEF W
<1>13. It[1..n] \in W[n]
  BY <1>3, <1>12, FoldWithin
<1>14. n \in 0..n /\ {s[j] : j \in 1..n} = ToSet(s)
  BY <1>3 DEF ToSet
<1> QED BY <1>3, <1>10, <1>13, <1>14 DEF W, V

\* What the selection keeps is what it had of the cameras that stay.
LEMMA StillSelectedFacts ==
  ASSUME selected \in Seq(Cameras), NEW gone
  PROVE  StillSelected(gone) \in Seq(Cameras) /\ ToSet(StillSelected(gone)) \subseteq ToSet(selected) \ gone
<1> DEFINE n == Len(selected)
           V == {l \in Seq(Cameras) : ToSet(l) \subseteq ToSet(selected) \ gone}
           more(l, c) == IF c \in gone THEN l ELSE Append(l, c)
           h == [k \in 1..n |-> [l \in V |-> more(l, selected[k])]]
           It == CHOOSE it : it = [r \in SUBSET (1..n) |->
                   IF r = {} THEN <<>> ELSE more(it[r \ {Max(r)}], selected[Max(r)])]
<1>1. n \in Nat /\ DOMAIN selected = 1..n
  OBVIOUS
<1>2. <<>> \in V /\ \A k \in 1..n : \A l \in V : more(l, selected[k]) \in V
  <2>1. <<>> \in V
    BY DEF ToSet
  <2>2. SUFFICES ASSUME NEW k \in 1..n, NEW l \in V, selected[k] \notin gone
                 PROVE  Append(l, selected[k]) \in V
    BY <2>1
  <2>3. selected[k] \in Cameras /\ selected[k] \in ToSet(selected)
    BY <1>1 DEF ToSet
  <2>4. Append(l, selected[k]) \in Seq(Cameras)
    BY <2>3
  <2>5. ToSet(Append(l, selected[k])) \subseteq ToSet(l) \cup {selected[k]}
    BY DEF ToSet
  <2> QED BY <2>2, <2>3, <2>4, <2>5
<1> HIDE DEF V
<1>3. h \in [1..n -> [V -> V]]
  BY <1>2
<1>4. \A k \in 1..n : \A l \in V : h[k][l] = more(l, selected[k])
  OBVIOUS
<1> HIDE DEF h, n, more
<1>5. PICK g : FoldEquation(V, <<>>, h, n, g)
  BY <1>1, <1>2, <1>3, FoldExists
<1>6. g = [r \in SUBSET (1..n) |->
             IF r = {} THEN <<>> ELSE more(g[r \ {Max(r)}], selected[Max(r)])]
  <2>1. ASSUME NEW r \in SUBSET (1..n), r # {}
        PROVE  g[r] = more(g[r \ {Max(r)}], selected[Max(r)])
    <3>1. Max(r) \in 1..n
      BY <1>1, <2>1, MaxFacts
    <3>2. g[r \ {Max(r)}] \in V /\ g[r] = h[Max(r)][g[r \ {Max(r)}]]
      BY <1>5, <2>1 DEF FoldEquation
    <3> QED BY <1>4, <3>1, <3>2
  <2>2. g = [r \in SUBSET (1..n) |-> g[r]] /\ g[{}] = <<>>
    BY <1>5 DEF FoldEquation
  <2> QED BY <2>1, <2>2
<1>7. It = [r \in SUBSET (1..n) |->
              IF r = {} THEN <<>> ELSE more(It[r \ {Max(r)}], selected[Max(r)])]
  BY <1>6, Zenon
<1>8. StillSelected(gone) = It[1..n]
  BY <1>1, Zenon DEF StillSelected, FoldLeft, MapThenFoldSet, more
<1> HIDE DEF It
<1>9. It[{}] = <<>> /\ \A k \in 1..n : It[1..k] = more(It[1..k-1], selected[k])
  <2>1. \A k \in 1..n : k \in 1..k
    BY <1>1
  <2>2. {} \in SUBSET (1..n)
    OBVIOUS
  <2>3. \A k \in 1..n : 1..k \in SUBSET (1..n) /\ Max(1..k) = k /\ (1..k) \ {k} = 1..k-1
    BY <1>1, PrefixSets
  <2> QED BY <1>7, <2>1, <2>2, <2>3
<1> DEFINE W == [k \in 0..n |-> V]
<1>10. n \in 0..n /\ 0 \in 0..n /\ \A k \in 1..n : k \in 0..n /\ k - 1 \in 0..n
  BY <1>1
<1>11. KeepsWithin(It, W, n)
  <2>1. \A l \in V, k \in 1..n : more(l, selected[k]) \in V
    BY <1>2 DEF more
  <2> QED BY <1>2, <1>9, <1>10, <2>1 DEF KeepsWithin
<1> HIDE DEF W
<1>12. It[1..n] \in W[n]
  BY <1>1, <1>11, FoldWithin
<1> QED BY <1>8, <1>10, <1>12 DEF W, V

\* The registry while the submitted cameras are registered: no camera is lost
\* and none changes its dependencies.
Extended(reg) ==
  /\ DOMAIN registry \subseteq DOMAIN reg
  /\ \A c \in DOMAIN reg :
       reg[c].dependencies = IF c \in DOMAIN registry THEN registry[c].dependencies ELSE <<>>

LEMMA RegisteredFacts ==
  ASSUME update_tick \in Nat, NEW seen, Sound(registry, seen, update_tick), NEW n \in Nat,
         NEW sub \in [1..n -> Cameras]
  PROVE  Sound(Registered(sub), seen, update_tick) /\ Extended(Registered(sub))
<1> DEFINE V == {reg \in Registries : Sound(reg, seen, update_tick) /\ Extended(reg)}
           one(reg, k) == register_camera(reg, sub[k], TargetViewIndex(sub, k), "Permanent", "OnDemand")
           h == [k \in 1..n |-> [reg \in V |-> one(reg, k)]]
           positions == [i \in DOMAIN sub |-> i]
           It == CHOOSE it : it = [r \in SUBSET (1..n) |->
                   IF r = {} THEN registry ELSE one(it[r \ {Max(r)}], positions[Max(r)])]
<1>1. DOMAIN sub = 1..n /\ DOMAIN positions = 1..n /\ \A k \in 1..n : positions[k] = k
  OBVIOUS
<1>2. registry \in V
  BY DEF Sound, Extended
<1>3. ASSUME NEW k \in 1..n, NEW reg \in V PROVE one(reg, k) \in V
  <2>1. TargetViewIndex(sub, k) \in Nat
    <3>1. IsFiniteSet({j \in 1 .. k - 1 : Target[sub[j]] = Target[sub[k]]})
      <4>1. IsFiniteSet(1 .. k - 1)
        BY FS_Interval
      <4> QED BY <4>1, FS_Subset
    <3> QED BY <3>1, FS_CardinalityType DEF TargetViewIndex
  <2>2. sub[k] \in Cameras /\ Sound(reg, seen, update_tick) /\ Extended(reg)
    OBVIOUS
  <2>3. "Permanent" \in Managements /\ "OnDemand" \in Policies
    BY DEF Managements, Policies
  <2> DEFINE c == sub[k]
             index == TargetViewIndex(sub, k)
             new == register_camera(reg, c, index, "Permanent", "OnDemand")
  <2> HIDE DEF c, index
  <2>4. Sound(new, seen, update_tick) /\ OneRegistered(reg, new, c)
    <3>1. c \in Cameras /\ index \in Nat
      BY <2>1, <2>2 DEF c, index
    <3> QED BY <2>2, <2>3, <3>1, RegisterFacts
  <2> HIDE DEF new
  <2>5. Extended(new)
    BY <2>2, <2>4 DEF Extended, OneRegistered
  <2> QED BY <2>4, <2>5 DEF Sound, new, c, index
<1> HIDE DEF V
<1>4. h \in [1..n -> [V -> V]]
  BY <1>3
<1>5. \A k \in 1..n : \A reg \in V : h[k][reg] = one(reg, k)
  OBVIOUS
<1> HIDE DEF h, one
<1>6. PICK g : FoldEquation(V, registry, h, n, g)
  BY <1>2, <1>4, FoldExists
<1>7. g = [r \in SUBSET (1..n) |->
             IF r = {} THEN registry ELSE one(g[r \ {Max(r)}], positions[Max(r)])]
  <2>1. ASSUME NEW r \in SUBSET (1..n), r # {}
        PROVE  g[r] = one(g[r \ {Max(r)}], positions[Max(r)])
    <3>1. Max(r) \in 1..n
      BY <2>1, MaxFacts
    <3>2. g[r \ {Max(r)}] \in V /\ g[r] = h[Max(r)][g[r \ {Max(r)}]]
      BY <1>6, <2>1 DEF FoldEquation
    <3> QED BY <1>1, <1>5, <3>1, <3>2
  <2>2. g = [r \in SUBSET (1..n) |-> g[r]] /\ g[{}] = registry
    BY <1>6 DEF FoldEquation
  <2> HIDE DEF positions
  <2> QED BY <2>1, <2>2
<1>8. It = [r \in SUBSET (1..n) |->
              IF r = {} THEN registry ELSE one(It[r \ {Max(r)}], positions[Max(r)])]
  BY <1>7, Zenon
<1>9. Registered(sub) = It[1..n]
  BY <1>1, Zenon DEF Registered, FoldLeftDomain, FoldLeft, MapThenFoldSet, one
<1> HIDE DEF It, positions
<1>10. It[{}] = registry /\ \A k \in 1..n : It[1..k] = one(It[1..k-1], k)
  <2>1. \A k \in 1..n : k \in 1..k
    OBVIOUS
  <2>2. {} \in SUBSET (1..n)
    OBVIOUS
  <2>3. \A k \in 1..n : 1..k \in SUBSET (1..n) /\ Max(1..k) = k /\ (1..k) \ {k} = 1..k-1
    BY PrefixSets
  <2>4. \A k \in 1..n : positions[Max(1..k)] = k
    BY <1>1, <2>3
  <2>5. \A r \in SUBSET (1..n) : r # {} => It[r] = one(It[r \ {Max(r)}], positions[Max(r)])
    BY <1>8
  <2>6. \A k \in 1..n : 1..k # {}
    BY <2>1
  <2> QED BY <1>8, <2>2, <2>3, <2>4, <2>5, <2>6
<1> DEFINE W == [k \in 0..n |-> V]
<1>11. n \in 0..n /\ 0 \in 0..n /\ \A k \in 1..n : k \in 0..n /\ k - 1 \in 0..n
  OBVIOUS
<1>12. KeepsWithin(It, W, n)
  <2>1. \A reg \in V, k \in 1..n : one(reg, k) \in V
    BY <1>3 DEF one
  <2> QED BY <1>2, <1>10, <1>11, <2>1 DEF KeepsWithin
<1> HIDE DEF W
<1>13. It[1..n] \in W[n]
  BY <1>12, FoldWithin
<1> QED BY <1>9, <1>11, <1>13 DEF W, V

-----------------------------------------------------------------------------
(* The inductive invariant.                                                 *)

\* The storage, whatever the stage.
StorageIsSound ==
  /\ update_tick \in Nat /\ Sound(registry, last_shown, update_tick)
  /\ extracted \subseteq SceneCameras /\ ToSet(submitted) \subseteq SceneCameras
  /\ selected \in Seq(Cameras) /\ ToSet(selected) \subseteq DOMAIN registry

IsSequence(s) == \E S : s \in Seq(S)

\* The dispatch: there are frames only while it builds, and once the first of
\* them is there nothing that was requested is left to flush.
DispatchIsSound ==
  /\ IsSequence(frames)
  /\ flushed \in BOOLEAN /\ (flushed <=> frames # <<>>)
  /\ stage # "build" => frames = <<>>
  /\ ~ flushed => asked = Flagged(registry, "TEMPORARY_REQUESTED")
  /\ flushed => Flagged(registry, "TEMPORARY_REQUESTED") = {}

FrameInv ==
  StorageIsSound /\ DispatchIsSound /\ TemporariesAreTheRequested

LEMMA InvImpliesSound == FrameInv => RegistryIsSound
<1>1. SUFFICES ASSUME FrameInv PROVE RegistryIsSound
  OBVIOUS
<1>2. /\ DOMAIN registry \subseteq Cameras /\ \A c \in DOMAIN registry : registry[c] \in Entry
      /\ ToSet(selected) \subseteq Cameras
  BY <1>1, RegistryFacts DEF FrameInv, StorageIsSound, Sound
<1>3. TypeOK
  BY <1>1, <1>2 DEF TypeOK, FrameInv, StorageIsSound
<1>4. DependenciesAreSound
  BY <1>1 DEF DependenciesAreSound, FrameInv, StorageIsSound, Sound, Linked
<1>5. FlowSpacesAreOwn
  BY <1>1 DEF FlowSpacesAreOwn, FrameInv, StorageIsSound, Sound, OwnSpaces
<1> QED BY <1>3, <1>4, <1>5 DEF RegistryIsSound

LEMMA NoFrames == IsSequence(<<>>)
<1>1. <<>> \in Seq({})
  OBVIOUS
<1> QED BY <1>1 DEF IsSequence

LEMMA NoLonger == FrameInv /\ frames' \in {frames, <<>>} => ~ (Len(frames') > Len(frames))
<1>1. SUFFICES ASSUME FrameInv, frames' \in {frames, <<>>} PROVE ~ (Len(frames') > Len(frames))
  OBVIOUS
<1>2. PICK S : frames \in Seq(S)
  BY <1>1 DEF FrameInv, DispatchIsSound, IsSequence
<1> QED BY <1>1, <1>2

LEMMA InitSound == InitFrames => FrameInv /\ SelectionIsClosed
<1>1. SUFFICES ASSUME InitFrames PROVE FrameInv /\ SelectionIsClosed
  OBVIOUS
<1>2. DOMAIN registry = {} /\ registry \in Registries
  BY <1>1, NoRegistry, NoDependencies DEF InitFrames, Init
<1>3. Sound(registry, last_shown, update_tick)
  <2>1. SeenBefore(last_shown, update_tick)
    BY <1>1 DEF InitFrames, Init, SeenBefore, Unprepared
  <2> QED BY <1>2, <2>1 DEF Sound, Linked, OwnSpaces, FlagsAreSound
<1>4. StorageIsSound
  BY <1>1, <1>2, <1>3 DEF StorageIsSound, InitFrames, Init, ToSet
<1>5. Flagged(registry, "TEMPORARY_REQUESTED") = {}
  BY <1>2 DEF Flagged
<1>6. DispatchIsSound
  BY <1>1, <1>5, NoFrames DEF DispatchIsSound, InitFrames
<1>7. TemporariesAreTheRequested /\ SelectionIsClosed
  BY <1>1 DEF InitFrames, TemporariesAreTheRequested, SelectionIsClosed
<1> QED BY <1>4, <1>6, <1>7 DEF FrameInv

\* To forget the frames of cameras that are gone keeps the registry sound.
LEMMA StillShownSound ==
  ASSUME NEW t \in Nat, NEW seen, Sound(registry', seen, t)
  PROVE  Sound(registry', StillShown(seen), t)
<1> DEFINE now == StillShown(seen)
<1>1. /\ now = [c \in Cameras |-> now[c]]
      /\ \A c \in Cameras : now[c] = IF c \in DOMAIN registry' THEN seen[c] ELSE Unprepared
  BY DEF StillShown
<1> HIDE DEF now
<1>2. registry' \in Registries /\ SeenBefore(seen, t) /\ DOMAIN registry' \subseteq Cameras
  BY RegistryFacts DEF Sound
<1>3. \A c \in DOMAIN registry' : now[c] = seen[c]
  BY <1>1, <1>2
<1>4. \A c \in Cameras : now[c] \in Nat \cup {Unprepared} /\ now[c] < t
  BY <1>1, <1>2 DEF SeenBefore, Unprepared
<1>5. SeenBefore(now, t)
  BY <1>1, <1>4 DEF SeenBefore
<1>6. Sound(registry', now, t)
  BY <1>3, <1>5 DEF Sound
<1> QED BY <1>6 DEF now

\* A step between dispatches keeps the invariant when it keeps the storage
\* sound and asked up to date.
LEMMA OutsideBuild ==
  ASSUME FrameInv, stage # "build", stage' # "build", UNCHANGED <<frames, flushed>>,
         StorageIsSound', asked' = Flagged(registry', "TEMPORARY_REQUESTED")
  PROVE  FrameInv' /\ SelectionIsClosed'
<1>1. frames = <<>> /\ flushed = FALSE /\ frames' = <<>> /\ flushed' = FALSE
  BY DEF FrameInv, DispatchIsSound
<1>2. DispatchIsSound'
  BY <1>1, NoFrames DEF DispatchIsSound
<1>3. (TemporariesAreTheRequested /\ SelectionIsClosed)'
  BY DEF TemporariesAreTheRequested, SelectionIsClosed
<1> QED BY <1>2, <1>3 DEF FrameInv

LEMMA AskedOutsideBuild ==
  FrameInv /\ stage # "build" => asked = Flagged(registry, "TEMPORARY_REQUESTED")
BY DEF FrameInv, DispatchIsSound

LEMMA RegisterStep ==
  ASSUME FrameInv, NEW c \in Helpers, NEW management \in Managements, NEW policy \in Policies,
         RegisterCamera(c, management, policy)
  PROVE  FrameInv' /\ SelectionIsClosed'
<1>1. /\ stage # "build" /\ stage' = stage /\ UNCHANGED <<frames, flushed, update_tick>>
      /\ UNCHANGED <<extracted, submitted, selected, asked, last_shown>>
      /\ registry' = register_camera(registry, c, 0, management, policy)
  BY DEF RegisterCamera, Call
<1>2. c \in Cameras /\ 0 \in Nat /\ update_tick \in Nat /\ Sound(registry, last_shown, update_tick)
  BY DEF Cameras, FrameInv, StorageIsSound
<1>3. Sound(registry', last_shown, update_tick) /\ OneRegistered(registry, registry', c)
  BY <1>1, <1>2, RegisterFacts
<1>4. StorageIsSound'
  BY <1>1, <1>3 DEF FrameInv, StorageIsSound, OneRegistered
<1>5. Flagged(registry', "TEMPORARY_REQUESTED") = Flagged(registry, "TEMPORARY_REQUESTED")
  <2>1. \A d \in DOMAIN registry :
          /\ d \in DOMAIN registry' /\ registry'[d].dependencies = registry[d].dependencies
          /\ Dependencies(registry', d) = Dependencies(registry, d)
    BY <1>3 DEF OneRegistered, Dependencies
  <2>2. \A d \in DOMAIN registry' \ DOMAIN registry : Dependencies(registry', d) = {}
    BY <1>3, NoDependencies DEF OneRegistered, Dependencies
  <2> QED BY <2>1, <2>2 DEF Flagged
<1>6. asked' = Flagged(registry', "TEMPORARY_REQUESTED")
  BY <1>1, <1>5, AskedOutsideBuild
<1> QED BY <1>1, <1>4, <1>6, OutsideBuild

LEMMA UnregisterStep ==
  ASSUME FrameInv, NEW c \in Helpers, UnregisterCamera(c)
  PROVE  FrameInv' /\ SelectionIsClosed'
<1>1. /\ stage # "build" /\ stage' = stage /\ UNCHANGED <<frames, flushed, update_tick>>
      /\ UNCHANGED <<extracted, submitted>>
      /\ registry' = unregister_cameras(registry, {c})
      /\ selected' = StillSelected({c})
      /\ asked' = {e \in asked : c \notin {e[1], e[2]}} /\ last_shown' = StillShown(last_shown)
  BY DEF UnregisterCamera, Call
<1>2. registry \in Registries /\ Sound(registry, last_shown, update_tick)
  BY DEF FrameInv, StorageIsSound, Sound
<1>3. Sound(registry', last_shown, update_tick) /\ DOMAIN registry' = DOMAIN registry \ {c}
  BY <1>1, <1>2, UnregisterSound, UnregisterFacts
<1>4. selected' \in Seq(Cameras) /\ ToSet(selected') \subseteq ToSet(selected) \ {c}
  BY <1>1, StillSelectedFacts DEF FrameInv, StorageIsSound
<1>5. StorageIsSound'
  <2>1. Sound(registry', last_shown', update_tick)
    BY <1>1, <1>3, StillShownSound DEF FrameInv, StorageIsSound
  <2> QED BY <1>1, <1>3, <1>4, <2>1 DEF FrameInv, StorageIsSound
<1>6. Flagged(registry', "TEMPORARY_REQUESTED")
        = {e \in Flagged(registry, "TEMPORARY_REQUESTED") : {c} \cap {e[1], e[2]} = {}}
  BY <1>1, <1>2, UnregisterFlagged
<1>7. asked' = Flagged(registry', "TEMPORARY_REQUESTED")
  BY <1>1, <1>6, AskedOutsideBuild
<1> QED BY <1>1, <1>5, <1>7, OutsideBuild

LEMMA EnableStep ==
  ASSUME FrameInv, NEW c \in Cameras, NEW enabled \in BOOLEAN, SetCameraEnabled(c, enabled)
  PROVE  FrameInv' /\ SelectionIsClosed'
<1>1. /\ stage # "build" /\ stage' = stage /\ UNCHANGED <<frames, flushed, update_tick>>
      /\ UNCHANGED <<extracted, submitted, selected, asked, last_shown>>
      /\ c \in DOMAIN registry /\ registry' = [registry EXCEPT ![c].enabled = enabled]
  BY DEF SetCameraEnabled, Call
<1>2. Sound(registry, last_shown, update_tick)
  BY DEF FrameInv, StorageIsSound
<1>3. /\ Sound(registry', last_shown, update_tick) /\ DOMAIN registry' = DOMAIN registry
      /\ \A flag : Flagged(registry', flag) = Flagged(registry, flag)
  <2>1. OneEnabled(registry, registry', c)
    BY <1>1 DEF OneEnabled
  <2>2. c \in DOMAIN registry
    BY <1>1
  <2> QED BY <1>2, <2>1, <2>2, EnableFacts
<1>4. StorageIsSound'
  BY <1>1, <1>3 DEF FrameInv, StorageIsSound
<1>5. asked' = Flagged(registry', "TEMPORARY_REQUESTED")
  BY <1>1, <1>3, AskedOutsideBuild
<1> QED BY <1>1, <1>4, <1>5, OutsideBuild

LEMMA AddStep ==
  ASSUME FrameInv, NEW p \in Cameras, NEW c \in Cameras, NEW management \in Managements,
         AddCameraDependency(p, c, management)
  PROVE  FrameInv' /\ SelectionIsClosed'
<1>1. /\ stage # "build" /\ stage' = stage /\ UNCHANGED <<frames, flushed, update_tick>>
      /\ UNCHANGED <<extracted, submitted, selected, last_shown>>
      /\ registry' = add_camera_dependency(registry, p, c, management) /\ registry' # registry
      /\ asked' = IF management = "Temporal" THEN asked \cup {<<p, c>>} ELSE asked \ {<<p, c>>}
  BY DEF AddCameraDependency, Call
<1>2. Sound(registry, last_shown, update_tick)
  BY DEF FrameInv, StorageIsSound
<1>3. /\ Sound(registry', last_shown, update_tick) /\ DOMAIN registry' = DOMAIN registry
      /\ Flagged(registry', "TEMPORARY_REQUESTED") =
           IF management = "Temporal"
           THEN Flagged(registry, "TEMPORARY_REQUESTED") \cup {<<p, c>>}
           ELSE Flagged(registry, "TEMPORARY_REQUESTED") \ {<<p, c>>}
  BY <1>1, <1>2, AddFacts
<1>4. StorageIsSound'
  BY <1>1, <1>3 DEF FrameInv, StorageIsSound
<1>5. asked' = Flagged(registry', "TEMPORARY_REQUESTED")
  BY <1>1, <1>3, AskedOutsideBuild
<1> QED BY <1>1, <1>4, <1>5, OutsideBuild

LEMMA RemoveStep ==
  ASSUME FrameInv, NEW p \in Cameras, NEW c \in Cameras, RemoveCameraDependency(p, c)
  PROVE  FrameInv' /\ SelectionIsClosed'
<1>1. /\ stage # "build" /\ stage' = stage /\ UNCHANGED <<frames, flushed, update_tick>>
      /\ UNCHANGED <<extracted, submitted, selected, last_shown>>
      /\ registry' = remove_camera_dependency(registry, p, c) /\ registry' # registry
      /\ asked' = asked \ {<<p, c>>}
  BY DEF RemoveCameraDependency, Call
<1>2. Sound(registry, last_shown, update_tick)
  BY DEF FrameInv, StorageIsSound
<1>3. /\ Sound(registry', last_shown, update_tick) /\ DOMAIN registry' = DOMAIN registry
      /\ Flagged(registry', "TEMPORARY_REQUESTED") =
           Flagged(registry, "TEMPORARY_REQUESTED") \ {<<p, c>>}
  BY <1>1, <1>2, RemoveFacts
<1>4. StorageIsSound'
  BY <1>1, <1>3 DEF FrameInv, StorageIsSound
<1>5. asked' = Flagged(registry', "TEMPORARY_REQUESTED")
  BY <1>1, <1>3, AskedOutsideBuild
<1> QED BY <1>1, <1>4, <1>5, OutsideBuild

LEMMA ExtractStep ==
  ASSUME FrameInv, ExtractCameras
  PROVE  FrameInv' /\ SelectionIsClosed'
<1>1. /\ stage # "build" /\ stage' # "build" /\ UNCHANGED <<frames, flushed>>
      /\ UNCHANGED <<registry, submitted, selected, update_tick, asked, last_shown>>
      /\ extracted' \subseteq SceneCameras
  BY DEF ExtractCameras
<1>2. StorageIsSound'
  BY <1>1 DEF FrameInv, StorageIsSound
<1>3. asked' = Flagged(registry', "TEMPORARY_REQUESTED")
  BY <1>1, AskedOutsideBuild
<1> QED BY <1>1, <1>2, <1>3, OutsideBuild

LEMMA SyncStep ==
  ASSUME FrameInv, SyncRenderCameraStorage
  PROVE  FrameInv' /\ SelectionIsClosed'
<1>1. /\ stage # "build" /\ stage' # "build" /\ UNCHANGED <<frames, flushed, update_tick, extracted>>
      /\ asked' = StillRegistered(asked) /\ last_shown' = StillShown(last_shown)
      /\ sync_extracted_cameras
  BY DEF SyncRenderCameraStorage, sync_extracted_cameras
<1>2. PICK sub \in Submissions(extracted) : \E gone :
        /\ submitted' = sub
        /\ registry' = unregister_cameras(Registered(sub), gone)
        /\ selected' = StillSelected(gone)
  BY <1>1 DEF sync_extracted_cameras
<1>0. PICK gone :
        /\ submitted' = sub
        /\ registry' = unregister_cameras(Registered(sub), gone)
        /\ selected' = StillSelected(gone)
  BY <1>2
<1> DEFINE now == Registered(sub)
<1>3. /\ update_tick \in Nat /\ Sound(registry, last_shown, update_tick) /\ registry \in Registries
      /\ extracted \subseteq SceneCameras /\ SceneCameras \subseteq Cameras
      /\ selected \in Seq(Cameras) /\ ToSet(selected) \subseteq DOMAIN registry
  BY DEF FrameInv, StorageIsSound, Sound, Cameras
<1>4. IsFiniteSet(extracted)
  BY <1>3, CamerasAssumption, FS_Subset
<1>5. /\ sub \in [1..Cardinality(extracted) -> extracted] /\ Cardinality(extracted) \in Nat
      /\ ToSet(sub) = extracted
  <2>1. sub \in SetToSeqs(extracted)
    BY <1>2 DEF Submissions
  <2> QED BY <1>4, <2>1, SequenceOfSet
<1>6. Sound(now, last_shown, update_tick) /\ Extended(now)
  <2>1. sub \in [1..Cardinality(extracted) -> Cameras]
    BY <1>3, <1>5
  <2> QED BY <1>3, <1>5, <2>1, RegisteredFacts
<1> HIDE DEF now
<1>7. now \in Registries
  BY <1>6 DEF Sound
<1>8. registry' = unregister_cameras(now, gone)
  BY <1>0 DEF now
<1>9. Sound(registry', last_shown, update_tick) /\ DOMAIN registry' = DOMAIN now \ gone
  BY <1>6, <1>7, <1>8, UnregisterSound, UnregisterFacts
<1>10. selected' \in Seq(Cameras) /\ ToSet(selected') \subseteq ToSet(selected) \ gone
  BY <1>0, <1>3, StillSelectedFacts
<1>11. StorageIsSound'
  <2>1. ToSet(selected') \subseteq DOMAIN registry'
    BY <1>3, <1>6, <1>9, <1>10 DEF Extended
  <2>2. Sound(registry', last_shown', update_tick)
    BY <1>1, <1>3, <1>9, StillShownSound
  <2> QED BY <1>0, <1>1, <1>3, <1>5, <1>9, <1>10, <2>1, <2>2 DEF StorageIsSound
<1>12. Flagged(now, "TEMPORARY_REQUESTED") = Flagged(registry, "TEMPORARY_REQUESTED")
  <2>1. \A d \in DOMAIN registry :
          /\ d \in DOMAIN now /\ now[d].dependencies = registry[d].dependencies
          /\ Dependencies(now, d) = Dependencies(registry, d)
    BY <1>6 DEF Extended, Dependencies
  <2>2. \A d \in DOMAIN now \ DOMAIN registry : Dependencies(now, d) = {}
    BY <1>6, NoDependencies DEF Extended, Dependencies
  <2> QED BY <2>1, <2>2 DEF Flagged
<1>13. Flagged(registry', "TEMPORARY_REQUESTED")
         = {e \in Flagged(now, "TEMPORARY_REQUESTED") : gone \cap {e[1], e[2]} = {}}
  BY <1>7, <1>8, UnregisterFlagged
<1>14. \A e \in Flagged(now, "TEMPORARY_REQUESTED") : {e[1], e[2]} \subseteq DOMAIN now
  BY <1>6 DEF Sound, Linked, Flagged
<1>15. asked' = Flagged(registry', "TEMPORARY_REQUESTED")
  <2>1. asked = Flagged(now, "TEMPORARY_REQUESTED")
    BY <1>1, <1>12, AskedOutsideBuild
  <2>2. \A e \in Flagged(now, "TEMPORARY_REQUESTED") :
          gone \cap {e[1], e[2]} = {} <=> {e[1], e[2]} \subseteq DOMAIN registry'
    BY <1>9, <1>14
  <2>3. asked' = {e \in asked : {e[1], e[2]} \subseteq DOMAIN registry'}
    BY <1>1 DEF StillRegistered
  <2> QED BY <1>13, <2>1, <2>2, <2>3
<1> QED BY <1>1, <1>11, <1>15, OutsideBuild

LEMMA BeginStep ==
  ASSUME FrameInv, BeginDispatch
  PROVE  FrameInv' /\ SelectionIsClosed'
<1>1. /\ stage # "build" /\ UNCHANGED <<frames, flushed, asked, registry>>
      /\ UNCHANGED <<extracted, submitted, selected, update_tick, last_shown>>
  BY DEF BeginDispatch, storage
<1>2. StorageIsSound' /\ frames' = <<>> /\ flushed' = FALSE
  BY <1>1 DEF FrameInv, StorageIsSound, DispatchIsSound
<1>3. asked' = Flagged(registry', "TEMPORARY_REQUESTED")
  BY <1>1, AskedOutsideBuild
<1>4. DispatchIsSound'
  BY <1>2, <1>3, NoFrames DEF DispatchIsSound
<1>5. Len(<<>>) # 1
  OBVIOUS
<1>6. (TemporariesAreTheRequested /\ SelectionIsClosed)'
  BY <1>2, <1>5 DEF TemporariesAreTheRequested, SelectionIsClosed
<1> QED BY <1>2, <1>4, <1>6 DEF FrameInv

\* The dispatch ends without another frame.
LEMMA CloseStep ==
  ASSUME FrameInv, ResolveFails \/ EndDispatch
  PROVE  FrameInv' /\ SelectionIsClosed'
<1>1. /\ stage' # "build" /\ frames' = <<>> /\ flushed' = FALSE
      /\ asked' = IF flushed THEN {} ELSE asked
      /\ UNCHANGED <<registry, extracted, submitted, selected, update_tick, last_shown>>
  BY DEF ResolveFails, EndDispatch, CloseDispatch, storage
<1>2. StorageIsSound'
  BY <1>1 DEF FrameInv, StorageIsSound
<1>3. asked' = Flagged(registry', "TEMPORARY_REQUESTED")
  BY <1>1 DEF FrameInv, DispatchIsSound
<1>4. DispatchIsSound'
  BY <1>1, <1>3, NoFrames DEF DispatchIsSound
<1>5. (TemporariesAreTheRequested /\ SelectionIsClosed)'
  BY <1>1 DEF TemporariesAreTheRequested, SelectionIsClosed
<1> QED BY <1>2, <1>4, <1>5 DEF FrameInv

\* Between two steps nothing moves.
LEMMA StutterStep ==
  ASSUME FrameInv, UNCHANGED vars
  PROVE  FrameInv' /\ (SelectionIsClosed => SelectionIsClosed')
<1>1. /\ UNCHANGED <<registry, extracted, submitted, selected, update_tick>>
      /\ UNCHANGED <<stage, frames, flushed, asked, last_shown>>
  BY DEF vars, storage, frameVars
<1>2. StorageIsSound' /\ DispatchIsSound'
  BY <1>1 DEF FrameInv, StorageIsSound, DispatchIsSound
<1>3. TemporariesAreTheRequested'
  BY <1>1 DEF FrameInv, TemporariesAreTheRequested
<1>4. SelectionIsClosed => SelectionIsClosed'
  BY <1>1 DEF SelectionIsClosed
<1> QED BY <1>2, <1>3, <1>4 DEF FrameInv

-----------------------------------------------------------------------------
(* The frame of one window.                                                 *)

\* What preparing the chosen cameras leaves of the registry: their history.
Prepared(reg, new, chosen) ==
  new = [c \in DOMAIN reg |-> IF c \in chosen THEN [reg[c] EXCEPT !.last_prepared = update_tick]
                              ELSE reg[c]]

\* The last frames after a frame with the chosen cameras.
NowShown(seen, chosen) == [c \in Cameras |-> IF c \in chosen THEN update_tick ELSE seen[c]]

LEMMA PreparedFacts ==
  ASSUME update_tick \in Nat, NEW seen, NEW reg, Sound(reg, seen, update_tick), NEW chosen,
         NEW new, Prepared(reg, new, chosen)
  PROVE  /\ Sound(new, NowShown(seen, chosen), update_tick + 1) /\ SameLinks(reg, new)
         /\ \A flag : Flagged(new, flag) = Flagged(reg, flag)
         /\ \A c \in DOMAIN reg : /\ new[c].enabled = reg[c].enabled
                                  /\ new[c].render_policy = reg[c].render_policy
                                  /\ new[c].last_update_tick = reg[c].last_update_tick
<1> DEFINE now == NowShown(seen, chosen)
<1>0. /\ now = [c \in Cameras |-> now[c]]
      /\ \A c \in Cameras : now[c] = IF c \in chosen THEN update_tick ELSE seen[c]
  BY DEF NowShown
<1> HIDE DEF now
<1>1. reg \in Registries /\ DOMAIN reg \subseteq Cameras /\ \A c \in DOMAIN reg : reg[c] \in Entry
  BY RegistryFacts DEF Sound
<1>2. /\ DOMAIN new = DOMAIN reg /\ new = [c \in DOMAIN new |-> new[c]]
      /\ \A c \in DOMAIN reg : new[c] = IF c \in chosen
                                        THEN [reg[c] EXCEPT !.last_prepared = update_tick]
                                        ELSE reg[c]
  BY DEF Prepared
<1>3. ASSUME NEW c \in DOMAIN reg
      PROVE  /\ new[c] \in Entry /\ HistoryIsSound(new[c], now[c])
             /\ new[c].render_flow_space = reg[c].render_flow_space
             /\ new[c].dependencies = reg[c].dependencies
             /\ new[c].enabled = reg[c].enabled
             /\ new[c].render_policy = reg[c].render_policy
             /\ new[c].last_update_tick = reg[c].last_update_tick
  <2>1. /\ reg[c] \in Entry /\ reg[c].last_update_tick \in Nat
        /\ reg[c].last_prepared \in Nat \cup {Unprepared}
    BY <1>1, EntryFacts
  <2>2. HistoryIsSound(reg[c], seen[c])
    BY DEF Sound
  <2>3. CASE c \in chosen
    <3>1. new[c] = [target_view_index |-> reg[c].target_view_index, management |-> reg[c].management,
            render_policy |-> reg[c].render_policy, render_flow_space |-> reg[c].render_flow_space,
            enabled |-> reg[c].enabled, last_update_tick |-> reg[c].last_update_tick,
            dependencies |-> reg[c].dependencies, last_prepared |-> update_tick]
      BY <1>2, <2>1, <2>3 DEF Entry
    <3>2. new[c] \in Entry
      BY <2>1, <3>1, EntryFacts
    <3>3. HistoryIsSound(new[c], now[c])
      BY <1>0, <1>1, <2>3, <3>1 DEF HistoryIsSound
    <3> QED BY <3>1, <3>2, <3>3
  <2>4. CASE c \notin chosen
    <3>1. HistoryIsSound(reg[c], now[c])
      BY <1>0, <1>1, <2>2, <2>4
    <3> QED BY <1>2, <2>1, <2>4, <3>1
  <2> QED BY <2>3, <2>4
<1>4. new \in Registries
  BY <1>1, <1>2, <1>3, RegistryFacts
<1>5. SameLinks(reg, new)
  BY <1>2, <1>3 DEF SameLinks
<1>6. Linked(new) /\ FlagsAreSound(new) /\ \A flag : Flagged(new, flag) = Flagged(reg, flag)
  BY <1>1, <1>4, <1>5, SameLinksFacts DEF Sound
<1>7. OwnSpaces(new)
  BY <1>2, <1>3 DEF Sound, OwnSpaces
<1>8. SeenBefore(now, update_tick + 1)
  <2>1. \A c \in Cameras : now[c] \in Nat \cup {Unprepared} /\ now[c] < update_tick + 1
    BY <1>0 DEF Sound, SeenBefore, Unprepared
  <2> QED BY <1>0, <2>1 DEF SeenBefore
<1>9. Sound(new, now, update_tick + 1)
  BY <1>2, <1>3, <1>4, <1>6, <1>7, <1>8 DEF Sound
<1> QED BY <1>3, <1>5, <1>6, <1>9 DEF now

\* The temporary dependencies as TemporariesAreTheRequested writes them.
LEMMA TemporaryPairs ==
  ASSUME NEW reg \in Registries, Linked(reg)
  PROVE  Flagged(reg, "TEMPORARY") =
           UNION {{<<c, d>> : d \in {e \in Dependencies(reg, c) :
                                       "TEMPORARY" \in reg[c].dependencies[e]}} :
                  c \in DOMAIN reg}
<1>1. DOMAIN reg \subseteq Cameras /\ \A c \in DOMAIN reg : Dependencies(reg, c) \subseteq Cameras
  BY RegistryFacts DEF Linked
<1> QED BY <1>1 DEF Flagged

\* The code's dispatcher flushes the temporaries and keeps the history.
LEMMA ContextFacts ==
  CameraPrepareContext.flush_temporaries = TRUE /\ CameraPrepareContext.stable_frame = FALSE
BY DEF CameraPrepareContext, construct, flushes_temporary_cameras, allows_camera_jitter,
       requires_stable_dissolves

LEMMA AppendFrame ==
  ASSUME NEW s, IsSequence(s), NEW f, NEW r, r = Append(s, f)
  PROVE  IsSequence(r) /\ r # <<>> /\ Last(r) = f /\ Len(r) = Len(s) + 1 /\ (Len(r) = 1 => s = <<>>)
<1>1. PICK S : s \in Seq(S)
  BY DEF IsSequence
<1> DEFINE R == S \cup {f}
<1>2. s \in Seq(R) /\ f \in R
  BY <1>1
<1> HIDE DEF R
<1>3. /\ r \in Seq(R) /\ Len(r) = Len(s) + 1 /\ r[Len(s) + 1] = f /\ Len(s) \in Nat
  BY <1>2
<1>4. r # <<>> /\ (Len(r) = 1 => s = <<>>)
  BY <1>2, <1>3
<1> QED BY <1>3, <1>4 DEF Last, IsSequence

\* What BuildTarget leaves when it is done with the cameras of a group.
LEMMA BuildFacts ==
  ASSUME FrameInv, BuildTarget
  PROVE  LET group == Head(groups)
             reg == Flushed(TRUE)
             chosen == select_cameras(reg, group.requested_cameras)
             views == [i \in DOMAIN selected' |-> View(reg, selected'[i], chosen, FALSE)]
         IN /\ stage = "build" /\ UNCHANGED <<extracted, submitted>>
            /\ selected' \in sort_selected_cameras(reg, chosen)
            /\ Prepared(reg, registry', chosen)
            /\ update_tick' = update_tick + 1
            /\ last_shown' = StillShown(NowShown(last_shown, ToSet(selected')))
            /\ \/ /\ frames' = Append(frames, build_frame_input(group, views))
                  /\ flushed' = TRUE /\ asked' = StillRegistered(asked) /\ stage' = "build"
               \/ frames' = <<>> /\ flushed' = FALSE /\ asked' = {} /\ stage' = "extract"
<1> DEFINE flush == CameraPrepareContext.flush_temporaries
           stable == CameraPrepareContext.stable_frame
<1>1. flush = TRUE /\ stable = FALSE
  BY ContextFacts
<1>2. LET group == Head(groups)
          reg == Flushed(flush)
          chosen == select_cameras(reg, group.requested_cameras)
          views == [i \in DOMAIN selected' |-> View(reg, selected'[i], chosen, stable)]
      IN /\ stage = "build" /\ UNCHANGED <<extracted, submitted>>
         /\ selected' \in sort_selected_cameras(reg, chosen)
         /\ Prepared(reg, registry', chosen)
         /\ update_tick' = update_tick + 1
         /\ last_shown' = StillShown(NowShown(last_shown, ToSet(selected')))
         /\ \/ /\ frames' = Append(frames, build_frame_input(group, views))
               /\ flushed' = TRUE /\ asked' = StillRegistered(asked) /\ stage' = "build"
            \/ frames' = <<>> /\ flushed' = FALSE /\ asked' = {} /\ stage' = "extract"
  BY Zenon DEF BuildTarget, prepare_frame_cameras, CloseDispatch, Prepared, NowShown
<1> HIDE DEF flush, stable
<1> QED BY <1>1, <1>2, Zenon

\* The frame that is built last.
NewFrame(reg, chosen, group) ==
  build_frame_input(group, [i \in DOMAIN selected' |-> View(reg, selected'[i], chosen, FALSE)])

LEMMA NewFrameFacts ==
  ASSUME NEW reg, NEW chosen, NEW group, NEW n \in Nat, DOMAIN selected' = 1..n
  PROVE  LET f == NewFrame(reg, chosen, group)
         IN /\ f.tick = update_tick /\ f.requested = group.requested_cameras
            /\ DOMAIN f.views = 1..n
            /\ \A i \in 1..n :
                 /\ f.views[i].camera_id = selected'[i]
                 /\ f.views[i].selected_dependencies = Dependencies(reg, selected'[i]) \cap chosen
                 /\ f.views[i].previous_frame = reg[selected'[i]].last_prepared
                 /\ f.views[i].reset_temporal_history
                      <=> reg[selected'[i]].last_prepared = Unprepared
<1> DEFINE views == [i \in DOMAIN selected' |-> View(reg, selected'[i], chosen, FALSE)]
<1>1. NewFrame(reg, chosen, group)
        = [window |-> group.declared, tick |-> update_tick,
           requested |-> group.requested_cameras, views |-> views]
  BY DEF NewFrame, build_frame_input
<1>2. DOMAIN views = 1..n /\ \A i \in 1..n : views[i] = View(reg, selected'[i], chosen, FALSE)
  OBVIOUS
<1>3. \A c : /\ View(reg, c, chosen, FALSE).camera_id = c
             /\ View(reg, c, chosen, FALSE).selected_dependencies = Dependencies(reg, c) \cap chosen
             /\ View(reg, c, chosen, FALSE).previous_frame = reg[c].last_prepared
             /\ View(reg, c, chosen, FALSE).reset_temporal_history
                  <=> reg[c].last_prepared = Unprepared
  BY DEF View
<1> HIDE DEF views
<1> DEFINE f == NewFrame(reg, chosen, group)
<1>4. f.tick = update_tick /\ f.requested = group.requested_cameras /\ f.views = views
  BY <1>1
<1> HIDE DEF f
<1>5. \A i \in 1..n : f.views[i] = View(reg, selected'[i], chosen, FALSE)
  BY <1>2, <1>4
<1>6. \A i \in 1..n :
        /\ f.views[i].camera_id = selected'[i]
        /\ f.views[i].selected_dependencies = Dependencies(reg, selected'[i]) \cap chosen
        /\ f.views[i].previous_frame = reg[selected'[i]].last_prepared
        /\ f.views[i].reset_temporal_history <=> reg[selected'[i]].last_prepared = Unprepared
  BY <1>3, <1>5
<1> QED BY <1>2, <1>4, <1>6 DEF f

LEMMA BuildStep ==
  ASSUME FrameInv, BuildTarget
  PROVE  /\ FrameInv' /\ (MAX_CAMERA_DEPENDENCY_DEPTH = 1 => SelectionIsClosed')
         /\ Len(frames') > Len(frames) => TakesTheLastFrames
<1> DEFINE group == Head(groups)
           requested == group.requested_cameras
           reg == Flushed(TRUE)
           chosen == select_cameras(reg, requested)
<1>1. /\ stage = "build" /\ UNCHANGED <<extracted, submitted>>
      /\ selected' \in sort_selected_cameras(reg, chosen)
      /\ Prepared(reg, registry', chosen)
      /\ update_tick' = update_tick + 1
      /\ last_shown' = StillShown(NowShown(last_shown, ToSet(selected')))
      /\ \/ /\ frames' = Append(frames, NewFrame(reg, chosen, group))
            /\ flushed' = TRUE /\ asked' = StillRegistered(asked) /\ stage' = "build"
         \/ frames' = <<>> /\ flushed' = FALSE /\ asked' = {} /\ stage' = "extract"
  BY BuildFacts, Zenon DEF NewFrame
<1>2. update_tick \in Nat /\ Sound(registry, last_shown, update_tick)
  BY DEF FrameInv, StorageIsSound
<1>3. /\ Sound(reg, last_shown, update_tick) /\ DOMAIN reg \subseteq DOMAIN registry
      /\ \A c \in DOMAIN reg : SameEntry(reg[c], registry[c])
      /\ Flagged(reg, "TEMPORARY_REQUESTED") = {}
      /\ Flagged(reg, "TEMPORARY") =
           {e \in Flagged(registry, "TEMPORARY_REQUESTED") : {e[1], e[2]} \subseteq DOMAIN reg}
  BY <1>2, FlushedFacts
<1>4. chosen \subseteq DOMAIN reg
  BY DEF select_cameras
<1>5. MAX_CAMERA_DEPENDENCY_DEPTH = 1 =>
        LET enabled == {c \in DOMAIN reg : reg[c].enabled}
            roots == Roots(reg, requested)
        IN chosen = roots \cup (enabled \cap UNION {Dependencies(reg, r) : r \in roots})
  BY <1>3, SelectFacts, RegistryFacts DEF Sound
<1> HIDE DEF reg, chosen, requested
<1>6. DOMAIN reg \subseteq Cameras /\ reg \in Registries
  BY <1>3, RegistryFacts DEF Sound
<1>7. selected' \in Seq(Cameras) /\ ToSet(selected') = chosen
  BY <1>1, <1>4, <1>6, SortFacts
<1>8. /\ Sound(registry', NowShown(last_shown, chosen), update_tick + 1) /\ SameLinks(reg, registry')
      /\ \A flag : Flagged(registry', flag) = Flagged(reg, flag)
      /\ \A c \in DOMAIN reg : /\ registry'[c].enabled = reg[c].enabled
                               /\ registry'[c].render_policy = reg[c].render_policy
                               /\ registry'[c].last_update_tick = reg[c].last_update_tick
  BY <1>1, <1>2, <1>3, PreparedFacts
<1>9. /\ DOMAIN registry' = DOMAIN reg
      /\ \A c \in DOMAIN reg : Dependencies(registry', c) = Dependencies(reg, c)
  BY <1>8 DEF SameLinks, Dependencies
<1>10. StorageIsSound'
  <2>1. (update_tick + 1) \in Nat
    BY <1>2
  <2>2. Sound(registry', last_shown', update_tick')
    BY <1>1, <1>7, <1>8, <2>1, StillShownSound
  <2> QED BY <1>1, <1>4, <1>7, <1>9, <2>1, <2>2 DEF FrameInv, StorageIsSound
<1>11. CASE frames' = <<>> /\ flushed' = FALSE /\ asked' = {} /\ stage' = "extract"
  <2>1. DispatchIsSound'
    BY <1>3, <1>8, <1>11, NoFrames DEF DispatchIsSound
  <2>2. (TemporariesAreTheRequested /\ SelectionIsClosed)'
    BY <1>11 DEF TemporariesAreTheRequested, SelectionIsClosed
  <2>3. ~ (Len(frames') > Len(frames))
    BY <1>11, NoLonger
  <2> QED BY <1>10, <2>1, <2>2, <2>3 DEF FrameInv
<1>12. CASE /\ frames' = Append(frames, NewFrame(reg, chosen, group))
            /\ flushed' = TRUE /\ asked' = StillRegistered(asked) /\ stage' = "build"
  <2> DEFINE f == NewFrame(reg, chosen, group)
             n == Len(selected')
  <2>1. IsSequence(frames)
    BY DEF FrameInv, DispatchIsSound
  <2>2. /\ IsSequence(frames') /\ frames' # <<>> /\ Last(frames') = f
        /\ Len(frames') = 1 => frames = <<>>
    BY <1>12, <2>1, AppendFrame
  <2>3. DispatchIsSound'
    BY <1>3, <1>8, <1>12, <2>2 DEF DispatchIsSound
  <2>4. TemporariesAreTheRequested'
    <3>1. SUFFICES ASSUME frames = <<>>
                   PROVE  asked' = Flagged(registry', "TEMPORARY")
      <4>1. registry' \in Registries /\ Linked(registry')
        BY <1>8 DEF Sound
      <4>2. Flagged(registry', "TEMPORARY") =
              UNION {{<<c, d>> : d \in {e \in Dependencies(registry', c) :
                                          "TEMPORARY" \in registry'[c].dependencies[e]}} :
                     c \in DOMAIN registry'}
        BY <4>1, TemporaryPairs
      <4> QED BY <2>2, <4>2 DEF TemporariesAreTheRequested, Dependencies
    <3>2. asked = Flagged(registry, "TEMPORARY_REQUESTED")
      BY <3>1 DEF FrameInv, DispatchIsSound
    <3>3. asked' = {e \in asked : {e[1], e[2]} \subseteq DOMAIN reg}
      BY <1>9, <1>12 DEF StillRegistered
    <3> QED BY <1>3, <1>8, <3>2, <3>3
  <2>5. n \in Nat /\ DOMAIN selected' = 1..n
    BY <1>7
  <2>6. \A i \in 1..n : selected'[i] \in chosen /\ selected'[i] \in DOMAIN reg
    BY <1>4, <1>7, <2>5 DEF ToSet
  <2> HIDE DEF n
  <2>7. /\ f.tick = update_tick /\ f.requested = requested /\ DOMAIN f.views = 1..n
        /\ \A i \in 1..n :
             /\ f.views[i].camera_id = selected'[i]
             /\ f.views[i].selected_dependencies = Dependencies(reg, selected'[i]) \cap chosen
             /\ f.views[i].previous_frame = reg[selected'[i]].last_prepared
             /\ f.views[i].reset_temporal_history
                  <=> reg[selected'[i]].last_prepared = Unprepared
    BY <2>5, NewFrameFacts DEF requested
  <2> HIDE DEF f
  <2>8. TakesTheLastFrames
    <3>1. ASSUME NEW i \in 1..n
          PROVE  LET c == f.views[i].camera_id
                 IN /\ f.views[i].previous_frame \in {Unprepared, last_shown[c]}
                    /\ registry[c].last_update_tick <= last_shown[c] =>
                         f.views[i].previous_frame = last_shown[c]
      <4>1. selected'[i] \in DOMAIN reg /\ HistoryIsSound(reg[selected'[i]], last_shown[selected'[i]])
        BY <1>3, <2>6 DEF Sound
      <4>2. reg[selected'[i]].last_update_tick = registry[selected'[i]].last_update_tick
        BY <1>3, <4>1 DEF SameEntry
      <4> QED BY <2>7, <4>1, <4>2 DEF HistoryIsSound
    <3> QED BY <2>2, <2>7, <3>1 DEF TakesTheLastFrames
  <2>9. ASSUME MAX_CAMERA_DEPENDENCY_DEPTH = 1 PROVE SelectionIsClosed'
    <3> DEFINE shown == {f.views[i].camera_id : i \in DOMAIN f.views}
               enabled == {c \in DOMAIN registry' : registry'[c].enabled}
               roots == {c \in enabled : registry'[c].render_policy = "Always" \/ c \in f.requested}
    <3>1. shown = chosen
      BY <1>7, <2>5, <2>7 DEF ToSet
    <3>2. enabled = {c \in DOMAIN reg : reg[c].enabled} /\ roots = Roots(reg, requested)
      BY <1>8, <1>9, <2>7 DEF Roots
    <3>3. \A r \in roots : Dependencies(registry', r) = Dependencies(reg, r)
      BY <1>9
    <3>4. UNION {Dependencies(registry', r) : r \in roots} = UNION {Dependencies(reg, r) : r \in roots}
      BY <3>3
    <3>5. shown = roots \cup (enabled \cap UNION {Dependencies(registry', r) : r \in roots})
      BY <1>5, <2>9, <3>1, <3>2, <3>4
    <3>6. \A i \in DOMAIN f.views :
            f.views[i].selected_dependencies
              = shown \cap Dependencies(registry', f.views[i].camera_id)
      BY <1>9, <2>6, <2>7, <3>1
    <3> HIDE DEF shown
    <3>7. shown = {f.views[i].camera_id : i \in DOMAIN f.views}
      BY DEF shown
    <3> QED BY <2>2, <3>5, <3>6, <3>7 DEF SelectionIsClosed
  <2> QED BY <1>10, <2>3, <2>4, <2>8, <2>9 DEF FrameInv
<1> QED BY <1>1, <1>11, <1>12

-----------------------------------------------------------------------------
(* The theorems.                                                            *)

LEMMA StepSound ==
  ASSUME FrameInv, [Next]_vars
  PROVE  /\ FrameInv' /\ (MAX_CAMERA_DEPENDENCY_DEPTH = 1 /\ SelectionIsClosed => SelectionIsClosed')
         /\ Len(frames') > Len(frames) => TakesTheLastFrames
<1> USE NoLonger
<1>1. CASE UNCHANGED vars
  BY <1>1, StutterStep DEF vars, frameVars
<1>2. CASE Exit
  BY <1>2, StutterStep DEF Exit, vars, frameVars
<1>3. CASE ExtractCameras
  BY <1>3, ExtractStep DEF ExtractCameras
<1>4. CASE SyncRenderCameraStorage
  BY <1>4, SyncStep DEF SyncRenderCameraStorage
<1>5. CASE \E c \in Helpers, management \in Managements, policy \in Policies :
             RegisterCamera(c, management, policy)
  BY <1>5, RegisterStep DEF RegisterCamera, Call
<1>6. CASE \E c \in Helpers : UnregisterCamera(c)
  BY <1>6, UnregisterStep DEF UnregisterCamera, Call
<1>7. CASE \E c \in Cameras, enabled \in BOOLEAN : SetCameraEnabled(c, enabled)
  BY <1>7, EnableStep DEF SetCameraEnabled, Call
<1>8. CASE \E p, c \in Cameras, management \in Managements : AddCameraDependency(p, c, management)
  BY <1>8, AddStep DEF AddCameraDependency, Call
<1>9. CASE \E p, c \in Cameras : RemoveCameraDependency(p, c)
  BY <1>9, RemoveStep DEF RemoveCameraDependency, Call
<1>10. CASE BeginDispatch
  BY <1>10, BeginStep DEF BeginDispatch
<1>11. CASE ResolveFails \/ EndDispatch
  BY <1>11, CloseStep DEF ResolveFails, EndDispatch, CloseDispatch
<1>12. CASE BuildTarget
  BY <1>12, BuildStep
<1> QED BY <1>1, <1>2, <1>3, <1>4, <1>5, <1>6, <1>7, <1>8, <1>9, <1>10, <1>11, <1>12 DEF Next

\* The registry and the dispatch in progress stay sound under every call.
THEOREM FrameInvariant == Spec => []FrameInv
<1>1. InitFrames => FrameInv
  BY InitSound
<1>2. FrameInv /\ [Next]_vars => FrameInv'
  BY StepSound
<1> QED BY <1>1, <1>2, PTL DEF Spec

\* The registry stays consistent: entries of their type, dependencies without
\* cycles, without missing cameras and within their limit, flow spaces of one
\* camera each (register_camera, add_camera_dependency, unregister_camera,
\* flush_temporal_state, sync_extracted_cameras).
THEOREM RegistrySound == Spec => []RegistryIsSound
BY FrameInvariant, InvImpliesSound, PTL

\* The first frame of a dispatch has the temporary dependencies requested since
\* the last dispatch and no others (add_camera_dependency, flush_temporal_state).
THEOREM TemporariesAsRequested == Spec => []TemporariesAreTheRequested
<1>1. FrameInv => TemporariesAreTheRequested
  BY DEF FrameInv
<1> QED BY <1>1, FrameInvariant, PTL

\* A view's previous frame is the last frame that showed its camera, and is
\* there unless none did since the camera was last registered (register_camera,
\* prepare_frame_cameras).
THEOREM HistoryFollowsTheFrames == Spec => HistoryIsOfTheLastFrame
<1>1. FrameInv /\ [Next]_vars => [Len(frames') > Len(frames) => TakesTheLastFrames]_vars
  BY StepSound
<1> QED BY <1>1, FrameInvariant, PTL DEF Spec, HistoryIsOfTheLastFrame

\* With the depth limit of the code, which is 1, a frame shows its roots and
\* their enabled direct dependencies, whatever the cameras and their links
\* (resolve_dependency_depths, select_cameras, sort_selected_cameras).
THEOREM SelectionClosed ==
  ASSUME MAX_CAMERA_DEPENDENCY_DEPTH = 1
  PROVE  Spec => []SelectionIsClosed
<1>1. InitFrames => FrameInv /\ SelectionIsClosed
  BY InitSound
<1>2. (FrameInv /\ SelectionIsClosed) /\ [Next]_vars => (FrameInv /\ SelectionIsClosed)'
  BY StepSound
<1> QED BY <1>1, <1>2, PTL DEF Spec
=============================================================================
