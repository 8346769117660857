---------------------------- MODULE ParallelFor ----------------------------
(***************************************************************************)
(* One parallel-for of leet_jobs2: how run_parallel_for splits a range     *)
(* into batches and team jobs, and how the team jobs share the batches and *)
(* elect the one that runs the epilogue (dispatcher.rs).                   *)
(*                                                                         *)
(* A step is one atomic access of the shared progress state, one call of   *)
(* the range closure or one call of the epilogue.  The job system may      *)
(* start a team job any time after its dispatch and may lose it to a       *)
(* shutdown (JobSystem).  u32 arithmetic wraps at Modulus.                 *)
(***************************************************************************)
EXTENDS Integers, FiniteSets, Functions

CONSTANTS
  Modulus,     \* 2^32 in the code
  Requests     \* the parallel-fors a run may dispatch

MaxU32 == Modulus - 1
U32 == 0 .. MaxU32
Request == [elements : U32, maxBatch : U32, workers : U32]

ASSUME ModulusAssumption == Modulus \in Nat \ {0, 1}
ASSUME RequestsAssumption == Requests \subseteq Request

VARIABLES
  request,     \* the parallel-for being dispatched
  pc,          \* where each team job is
  batch,       \* the batch a team job claimed last
  next,        \* ParallelForSharedState::next_batch
  finished,    \* ParallelForSharedState::finished_teams
  runs,        \* history: how often the closure was called for an element
  epilogue     \* whether the take-once epilogue was taken and run

loopVars == <<request, pc, batch, next, finished, runs, epilogue>>

Smaller(a, b) == IF a <= b THEN a ELSE b
Larger(a, b) == IF a >= b THEN a ELSE b

-----------------------------------------------------------------------------
(* Geometry *)

\* parallel_for_team_size: one team job per worker and one for the flush thread.
TeamSize(r) == Smaller(r.elements, Larger(Smaller(r.workers + 1, MaxU32), 1))

\* parallel_for_batch_geometry
BatchCount(r) ==
  IF r.maxBatch = 0 THEN Larger(TeamSize(r), 1)
  ELSE Larger(r.elements \div r.maxBatch, 1)
\* Mutant of DivCeil: the remainder is forgotten.
DivFloor(a, b) == a \div b
DivCeil(a, b) == (a + b - 1) \div b
BatchSize(r) == DivCeil(r.elements, BatchCount(r))

\* saturating_mul and saturating_add
BatchStart(r, b) == Smaller(b * BatchSize(r), MaxU32)
BatchEnd(r, b) == Smaller(Smaller(BatchStart(r, b) + BatchSize(r), MaxU32), r.elements)

\* A zero-element parallel-for is one job, and so is one for a single team.
JobCount(r) == Larger(TeamSize(r), 1)
Teams == 0 .. JobCount(request) - 1
Elements == 0 .. request.elements - 1
Multi == TeamSize(request) > 1

Labels == {"none", "queued", "claim", "run", "leave", "epilogue", "done", "lost"}

LoopTypeOK ==
  /\ request \in Requests
  /\ pc \in [Teams -> Labels]
  /\ batch \in [Teams -> U32]
  /\ next \in U32 /\ finished \in U32
  /\ runs \in [Elements -> Nat]
  /\ epilogue \in BOOLEAN

LoopInit ==
  /\ request \in Requests
  /\ pc = [t \in Teams |-> "none"]
  /\ batch = [t \in Teams |-> 0]
  /\ next = 0
  /\ finished = 0
  /\ runs = [e \in Elements |-> 0]
  /\ epilogue = FALSE

-----------------------------------------------------------------------------
(* Steps *)

Goto(t, label) == pc' = [pc EXCEPT ![t] = label]

\* The elements the closure is called with: all of them in the one-job path.
RangeOf(t) ==
  IF Multi THEN BatchStart(request, batch[t]) .. BatchEnd(request, batch[t]) - 1 ELSE Elements

\* run_parallel_for dispatches the team jobs in order, each by run_job; the
\* first may be over before the last is dispatched.
DispatchTeam(t) ==
  /\ pc[t] = "none"
  /\ \A u \in 0 .. t - 1 : pc[u] # "none"
  /\ Goto(t, "queued")
  /\ UNCHANGED <<request, batch, next, finished, runs, epilogue>>

StartTeam(t) ==
  /\ pc[t] = "queued"
  /\ Goto(t, IF Multi THEN "claim" ELSE IF request.elements = 0 THEN "epilogue" ELSE "run")
  /\ UNCHANGED <<request, batch, next, finished, runs, epilogue>>

\* Shutdown drops a queued team job.
LoseTeam(t) ==
  /\ pc[t] = "queued"
  /\ Goto(t, "lost")
  /\ UNCHANGED <<request, batch, next, finished, runs, epilogue>>

\* next_batch.fetch_add
Claim(t) ==
  /\ pc[t] = "claim"
  /\ next' = (next + 1) % Modulus
  /\ batch' = [batch EXCEPT ![t] = next]
  /\ Goto(t, IF next >= BatchCount(request) THEN "leave"
             ELSE IF BatchStart(request, next) < BatchEnd(request, next) THEN "run" ELSE "claim")
  /\ UNCHANGED <<request, finished, runs, epilogue>>

\* run_range
RunRange(t) ==
  /\ pc[t] = "run"
  /\ runs' = [e \in Elements |-> IF e \in RangeOf(t) THEN runs[e] + 1 ELSE runs[e]]
  /\ Goto(t, IF Multi THEN "claim" ELSE "epilogue")
  /\ UNCHANGED <<request, batch, next, finished, epilogue>>

\* Mutant of Leave: the first team to leave runs the epilogue.
LeaveFirst(t) ==
  /\ pc[t] = "leave"
  /\ finished' = (finished + 1) % Modulus
  /\ Goto(t, IF finished = 0 THEN "epilogue" ELSE "done")
  /\ UNCHANGED <<request, batch, next, runs, epilogue>>

\* finished_teams.fetch_add: the last team to leave runs the epilogue.
Leave(t) ==
  /\ pc[t] = "leave"
  /\ finished' = (finished + 1) % Modulus
  /\ Goto(t, IF finished + 1 = TeamSize(request) THEN "epilogue" ELSE "done")
  /\ UNCHANGED <<request, batch, next, runs, epilogue>>

\* run_epilogue_once, and the end of the job that called it.
RunEpilogue(t) ==
  /\ pc[t] = "epilogue"
  /\ epilogue' = TRUE
  /\ Goto(t, "done")
  /\ UNCHANGED <<request, batch, next, finished, runs>>

TeamStep(t) ==
  \/ DispatchTeam(t) \/ StartTeam(t) \/ Claim(t) \/ RunRange(t) \/ Leave(t) \/ RunEpilogue(t)

LoopNext == \E t \in Teams : TeamStep(t) \/ LoseTeam(t)

LoopSpec == LoopInit /\ [][LoopNext]_loopVars

-----------------------------------------------------------------------------
(* Properties *)

\* The accumulate counter is back at zero after the dispatch.
Resolved == \A t \in Teams : pc[t] = "done"

\* A parallel-for covers every element exactly once: no element is handed to
\* the closure twice, and none is missing when the counter resolves, whatever
\* the batch hint and however the team jobs interleave.
ExactlyOnce ==
  /\ \A e \in Elements : runs[e] <= 1
  /\ Resolved => \A e \in Elements : runs[e] = 1

\* The epilogue runs after every closure call has returned and before the
\* counter resolves.
EpilogueLast ==
  /\ epilogue => /\ \A e \in Elements : runs[e] = 1
                 /\ \A t \in Teams : pc[t] = "done"
  /\ Resolved => epilogue

=============================================================================
