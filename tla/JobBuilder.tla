---------------------------- MODULE JobBuilder -----------------------------
(***************************************************************************)
(* Builders of leet_jobs2: how dispatches, fences, external waits and      *)
(* continuations become jobs with a wait and an accumulate counter         *)
(* (builder.rs, and the += of counter.rs).                                 *)
(*                                                                         *)
(* Builder 0 belongs to a client; builder i is the one that job i creates  *)
(* from its run context, whose final synchronization extends job i.  A     *)
(* step is one dispatch or one look at a counter, so jobs may finish       *)
(* between any two looks.  The job system is reduced to what JobSystem     *)
(* shows of it: a job gets past its wait counter at some moment at which   *)
(* the counter is zero, runs, and is counted off.                          *)
(***************************************************************************)
EXTENDS Integers, Sequences, FiniteSets

CONSTANTS
  MaxJobs,      \* bound on the jobs of a run, the builders' own included
  MaxCounters,  \* bound on the counters of a run
  MaxFences     \* bound on the explicit fences of a run

\* The external counter and the two of the client's builder are there at once.
ASSUME BoundsAssumption ==
  {MaxJobs, MaxCounters, MaxFences} \subseteq Nat /\ MaxCounters >= 3

JobIds == 1 .. MaxJobs
CounterIds == 1 .. MaxCounters
BuilderIds == 0 .. MaxJobs
NoCounter == 0
External == 1   \* a counter some code outside resolves
Kinds == {"user", "empty"}
States == {"none", "counted", "running", "done"}
Steps == {"none", "active", "rotate", "sync", "link", "wrap", "final"}

VARIABLES
  jobs,      \* the dispatched jobs, in order
  state,     \* how far each job is
  value,     \* the value of each counter
  created,   \* how many counters there are
  builder,   \* the fields of each builder, and the call it is in
  fences     \* how many explicit fences were asked for

vars == <<jobs, state, value, created, builder, fences>>

Idle == [step |-> "none", wait |-> NoCounter, accum |-> NoCounter, parent |-> NoCounter,
         needsFence |-> FALSE, extracting |-> FALSE,
         external |-> FALSE, behind |-> {}, result |-> NoCounter]

\* behind, before and external are histories: the jobs fenced off so far, the
\* jobs a job was fenced behind, and whether the external counter was added.
Job == [wait : CounterIds, accum : CounterIds, kind : Kinds, by : BuilderIds,
        ancestors : SUBSET JobIds, before : SUBSET JobIds, external : BOOLEAN]
BuilderState ==
  [step : Steps, wait : CounterIds \cup {NoCounter}, accum : CounterIds \cup {NoCounter},
   parent : CounterIds \cup {NoCounter}, needsFence : BOOLEAN, extracting : BOOLEAN,
   external : BOOLEAN, behind : SUBSET JobIds, result : CounterIds \cup {NoCounter}]

TypeOK ==
  /\ jobs \in Seq(Job) /\ Len(jobs) <= MaxJobs
  /\ state \in [JobIds -> States]
  /\ value \in [CounterIds -> Nat]
  /\ created \in CounterIds
  /\ builder \in [BuilderIds -> BuilderState]
  /\ fences \in 0 .. MaxFences

Init ==
  /\ jobs = <<>>
  /\ state = [j \in JobIds |-> "none"]
  /\ value = [c \in CounterIds |-> IF c = External THEN 1 ELSE 0]
  /\ created = 3
  /\ builder = [b \in BuilderIds |->
       IF b = 0 THEN [Idle EXCEPT !.step = "active", !.wait = 2, !.accum = 3] ELSE Idle]
  /\ fences = 0

-----------------------------------------------------------------------------
(* Helpers *)

IsZero(c) == value[c] = 0
Dispatched == 1 .. Len(jobs)
By(b) == {j \in Dispatched : jobs[j].by = b}

\* A continuation builder is not Send: only its own running job calls it.
CanCall(b) ==
  /\ builder[b].step = "active"
  /\ b \in JobIds => state[b] = "running"

\* The jobs whose completion waits for what builder b dispatches.
Ancestors(b) == IF b = 0 THEN {} ELSE {b} \cup jobs[b].ancestors

\* run_job: counted before anybody can see it.
RunJob(b, kind, w, a) ==
  /\ Len(jobs) < MaxJobs
  /\ jobs' = Append(jobs, [wait |-> w, accum |-> a, kind |-> kind, by |-> b,
                           ancestors |-> Ancestors(b),
                           before |-> IF kind = "user" THEN builder[b].behind ELSE {},
                           external |-> kind = "user" /\ builder[b].external])
  /\ state' = [state EXCEPT ![Len(jobs) + 1] = "counted"]
  /\ value' = [value EXCEPT ![a] = @ + 1]

Become(b, fields) == builder' = [builder EXCEPT ![b] = fields]

-----------------------------------------------------------------------------
(* Builder calls *)

\* RunContext::create_builder
CreateBuilder(j) ==
  /\ j \in Dispatched /\ jobs[j].kind = "user"
  /\ state[j] = "running" /\ builder[j].step = "none"
  /\ created + 2 <= MaxCounters
  /\ created' = created + 2
  /\ Become(j, [Idle EXCEPT !.step = "active", !.wait = created + 1, !.accum = created + 2,
                            !.parent = jobs[j].accum])
  /\ UNCHANGED <<jobs, state, value, fences>>

\* dispatch_job, up to its fence.
DispatchJob(b) ==
  /\ CanCall(b)
  /\ ~builder[b].needsFence
  /\ RunJob(b, "user", builder[b].wait, builder[b].accum)
  /\ Become(b, [builder[b] EXCEPT !.step = "rotate"])
  /\ UNCHANGED <<created, fences>>

DispatchJobNoFence(b) ==
  /\ CanCall(b)
  /\ RunJob(b, "user", builder[b].wait, builder[b].accum)
  /\ Become(b, [builder[b] EXCEPT !.needsFence = TRUE])
  /\ UNCHANGED <<created, fences>>

DispatchFenceExplicitly(b) ==
  /\ CanCall(b)
  /\ fences < MaxFences
  /\ fences' = fences + 1
  /\ Become(b, [builder[b] EXCEPT !.step = "rotate"])
  /\ UNCHANGED <<jobs, state, value, created>>

\* Mutant of Rotate: an accumulator nobody uses is rotated as well.
RotateAlways(b) ==
  /\ builder[b].step = "rotate"
  /\ created < MaxCounters
  /\ created' = created + 1
  /\ Become(b, [builder[b] EXCEPT !.step = "active", !.needsFence = FALSE,
                                  !.wait = builder[b].accum, !.accum = created + 1,
                                  !.behind = By(b)])
  /\ UNCHANGED <<jobs, state, value, fences>>

\* rotate_accumulator_if_nonzero
Rotate(b) ==
  /\ builder[b].step = "rotate"
  /\ LET fenced == [builder[b] EXCEPT !.step = "active", !.needsFence = FALSE,
                                      !.behind = By(b)]
     IN IF IsZero(builder[b].accum)
        THEN Become(b, fenced) /\ UNCHANGED created
        ELSE /\ created < MaxCounters
             /\ created' = created + 1
             /\ Become(b, [fenced EXCEPT !.wait = builder[b].accum, !.accum = created + 1])
  /\ UNCHANGED <<jobs, state, value, fences>>

\* dispatch_wait: an empty job keeps the wait counter up until the other
\* counter resolves.
DispatchWait(b) ==
  /\ CanCall(b)
  /\ ~builder[b].needsFence
  /\ ~builder[b].external   \* bound: once per builder
  /\ IF IsZero(External) THEN UNCHANGED <<jobs, state, value>>
     ELSE RunJob(b, "empty", External, builder[b].wait)
  /\ Become(b, [builder[b] EXCEPT !.external = TRUE])
  /\ UNCHANGED <<created, fences>>

\* extract_wait_counter, or the drop of the builder; only a continuation builder
\* ends differently.
Finalize(b, extracting) ==
  /\ CanCall(b)
  /\ ~builder[b].needsFence
  /\ extracting => builder[b].parent # NoCounter
  /\ Become(b, [builder[b] EXCEPT !.step = "sync", !.extracting = extracting])
  /\ UNCHANGED <<jobs, state, value, created, fences>>

\* The builder is gone; what is left is the counter it ended with.
Ended(b, result) ==
  Become(b, [Idle EXCEPT !.step = "final", !.result = result,
                         !.external = builder[b].external])

\* Mutant of FinalSync: the accumulator is taken even when it is over.
FinalSyncOnAccum(b) ==
  /\ builder[b].step = "sync"
  /\ IF builder[b].parent = NoCounter THEN Ended(b, builder[b].accum)
     ELSE Become(b, [builder[b] EXCEPT !.step = "link", !.result = builder[b].accum])
  /\ UNCHANGED <<jobs, state, value, created, fences>>

\* final_sync: the last group, or what it waited for when it is over.
FinalSync(b) ==
  /\ builder[b].step = "sync"
  /\ LET finalWait == IF IsZero(builder[b].accum) THEN builder[b].wait ELSE builder[b].accum
     IN IF builder[b].parent = NoCounter THEN Ended(b, finalWait)
        ELSE Become(b, [builder[b] EXCEPT !.step = "link", !.result = finalWait])
  /\ UNCHANGED <<jobs, state, value, created, fences>>

\* Mutant of LinkContinuation: the parent is not extended.
LinkNothing(b) ==
  /\ builder[b].step = "link"
  /\ IF builder[b].extracting THEN Become(b, [builder[b] EXCEPT !.step = "wrap"])
     ELSE Ended(b, builder[b].result)
  /\ UNCHANGED <<jobs, state, value, created, fences>>

\* A continuation builder keeps its parent's counter up with an empty job.
LinkContinuation(b) ==
  /\ builder[b].step = "link"
  /\ IF IsZero(builder[b].result) THEN UNCHANGED <<jobs, state, value>>
     ELSE RunJob(b, "empty", builder[b].result, builder[b].parent)
  /\ IF builder[b].extracting THEN Become(b, [builder[b] EXCEPT !.step = "wrap"])
     ELSE Ended(b, builder[b].result)
  /\ UNCHANGED <<created, fences>>

\* What a continuation builder extracts is a counter that waits for the parent's.
WrapContinuation(b) ==
  /\ builder[b].step = "wrap"
  /\ created < MaxCounters
  /\ created' = created + 1
  /\ IF IsZero(builder[b].parent) THEN UNCHANGED <<jobs, state, value>>
     ELSE RunJob(b, "empty", builder[b].parent, created + 1)
  /\ Ended(b, created + 1)
  /\ UNCHANGED fences

-----------------------------------------------------------------------------
(* The job system and the world around *)

\* The job is seen to be past its wait counter; it starts then or later.
Start(j) ==
  /\ j \in Dispatched /\ state[j] = "counted"
  /\ IsZero(jobs[j].wait)
  /\ state' = [state EXCEPT ![j] = "running"]
  /\ UNCHANGED <<jobs, value, created, builder, fences>>

\* The closure drops its builder before it returns.
Finish(j) ==
  /\ state[j] = "running"
  /\ builder[j].step \in {"none", "final"}
  /\ state' = [state EXCEPT ![j] = "done"]
  /\ value' = [value EXCEPT ![jobs[j].accum] = @ - 1]
  /\ UNCHANGED <<jobs, created, builder, fences>>

ResolveExternal ==
  /\ ~IsZero(External)
  /\ value' = [value EXCEPT ![External] = 0]
  /\ UNCHANGED <<jobs, state, created, builder, fences>>

CallStep(b) == Rotate(b) \/ FinalSync(b) \/ LinkContinuation(b) \/ WrapContinuation(b)
JobStep(j) == Start(j) \/ Finish(j)

Next ==
  \/ \E j \in JobIds : CreateBuilder(j) \/ JobStep(j)
  \/ \E b \in BuilderIds :
       \/ DispatchJob(b) \/ DispatchJobNoFence(b) \/ DispatchFenceExplicitly(b)
       \/ DispatchWait(b) \/ CallStep(b)
       \/ \E extracting \in BOOLEAN : Finalize(b, extracting)
  \/ ResolveExternal

Spec == Init /\ [][Next]_vars

-----------------------------------------------------------------------------
(* Properties *)

\* The job and everything dispatched by its continuation builders is done.
Completed(j) ==
  /\ state[j] = "done"
  /\ \A k \in Dispatched :
       jobs[k].kind = "user" /\ j \in jobs[k].ancestors => state[k] = "done"

\* Later builder work waits for every group fenced off before it, with the
\* continuations of its jobs, however the groups' jobs finish around the looks
\* at the accumulator.
FencesHold ==
  \A j \in Dispatched :
    state[j] \in {"running", "done"} => \A i \in jobs[j].before : Completed(i)

\* The counter a builder ends with covers all the work it dispatched and the
\* external counter it added.
ResultCoversWork ==
  \A b \in BuilderIds :
    builder[b].step = "final" /\ IsZero(builder[b].result)
      => /\ \A j \in By(b) : jobs[j].kind = "user" => Completed(j)
         /\ builder[b].external => IsZero(External)

\* Work dispatched after dispatch_wait waits for the supplied counter, whatever
\* rotations come between.
ExternalWaitsHold ==
  \A j \in Dispatched :
    jobs[j].external /\ state[j] \in {"running", "done"} => IsZero(External)

\* No job of a builder starts before anything its builder was told to wait
\* for, by a fence or by dispatch_wait.
WaitsHold == TypeOK /\ FencesHold /\ ExternalWaitsHold

\* A parent's accumulate counter does not resolve before the work of its
\* continuation builder does.
ContinuationExtendsParent ==
  \A j \in Dispatched :
    state[j] = "done" /\ IsZero(jobs[j].accum) => Completed(j)
=============================================================================
