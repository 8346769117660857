--------------------------- MODULE DispatchProofs ---------------------------
(***************************************************************************)
(* Proofs about what the dispatcher's callers are promised: by JobBuilder, *)
(* for every bound on jobs, counters and fences, and by ParallelFor, for   *)
(* every range, batch hint and number of workers for which the claim       *)
(* counter does not wrap.                                                  *)
(*                                                                         *)
(* What a fence, an external wait or the end of a builder promises is      *)
(* about jobs that may be several counters away.  The invariant            *)
(* (Inductive) follows the promise from counter to counter: After(k, i)    *)
(* says that job k starts after job i is completed, Behind(i, c) that some *)
(* job counted on c is such a k, Covered(i, c) that i itself may be        *)
(* counted there.  Promised says this of what a job waits for, Kept of     *)
(* jobs that have started, and BuildersOK of the counters a builder holds. *)
(*                                                                         *)
(* The batches of a parallel-for partition its range (InOneBatch),         *)
(* saturated arithmetic and all.  Its invariant (LoopInductive, Sharing)   *)
(* says of the shared progress that a batch below the counter is either    *)
(* being run by one team or done, that the counter passes the last batch   *)
(* at most once per team, and that the count of finished teams is the      *)
(* number of those that left.                                              *)
(***************************************************************************)
EXTENDS JobBuilder, ParallelFor, FiniteSetTheorems, TLAPS

-----------------------------------------------------------------------------
(* The inductive invariant *)

Started(j) == state[j] \in {"running", "done"}
Pending(c) == {j \in Dispatched : jobs[j].accum = c /\ ~(state[j] = "done")}
Counters == 2 .. created

\* The jobs a builder was asked for, without the empty ones it adds.
Work(b) == {j \in By(b) : jobs[j].kind = "user"}

\* The empty job of a builder that ends: it waits for all of the builder's work.
Closing(k) == jobs[k].kind = "empty" /\ jobs[k].wait # External

\* Job k starts after job i is completed: i was fenced off, or added to the
\* counter k waits for by dispatch_wait, or is work of the builder k closes.
After(k, i) ==
  \/ i \in jobs[k].before
  \/ jobs[i].kind = "empty" /\ i < k /\ jobs[i].accum = jobs[k].wait
  \/ Closing(k) /\ i \in Work(jobs[k].by)

\* Counter c is not zero before job i is completed.
Behind(i, c) == Completed(i) \/ \E k \in Dispatched : jobs[k].accum = c /\ After(k, i)
Covered(i, c) == jobs[i].accum = c \/ Behind(i, c)

\* The same for the external counter.
AfterExternal(k) ==
  \/ jobs[k].wait = External
  \/ jobs[k].external
  \/ Closing(k) /\ builder[jobs[k].by].external
ExternalCovered(c) ==
  IsZero(External) \/ \E k \in Dispatched : jobs[k].accum = c /\ AfterExternal(k)

Conservation == \A c \in CounterIds \ {External} : value[c] = Cardinality(Pending(c))

JobOK(j) ==
  /\ jobs[j].accum \in Counters /\ jobs[j].wait \in Counters \cup {External}
  /\ jobs[j].by < j
  /\ jobs[j].by # 0 => jobs[jobs[j].by].kind = "user"
  /\ jobs[j].ancestors = Ancestors(jobs[j].by)
  /\ \A i \in jobs[j].ancestors : i < j /\ jobs[i].kind = "user"
  /\ \A i \in jobs[j].ancestors :
       jobs[j].by = i \/ \E k \in jobs[j].ancestors : jobs[k].by = i
  /\ \A i \in jobs[j].before : i < j
  /\ jobs[j].kind = "empty" => jobs[j].before = {} /\ ~jobs[j].external
  /\ jobs[j].kind = "user" => jobs[j].wait # External
  /\ Closing(j) => builder[jobs[j].by].step \in {"wrap", "final"}
JobsOK ==
  /\ \A j \in JobIds : state[j] = "none" <=> j \notin Dispatched
  /\ \A j \in Dispatched : JobOK(j)

\* What a job waits for stands behind its wait counter, and is over when it starts.
Promised ==
  \A k \in Dispatched :
    /\ \A i \in Dispatched : After(k, i) => Covered(i, jobs[k].wait)
    /\ AfterExternal(k) => jobs[k].wait = External \/ ExternalCovered(jobs[k].wait)
Kept ==
  \A k \in Dispatched : Started(k) =>
    /\ \A i \in Dispatched : After(k, i) => Completed(i)
    /\ AfterExternal(k) => IsZero(External)

Live(b) == builder[b].step \in {"active", "rotate", "sync"}

BuilderOK(b) ==
  /\ builder[b].step = "none" => b # 0 /\ By(b) = {}
  /\ b = 0 => builder[b].parent = NoCounter /\ builder[b].step \notin {"link", "wrap"}
  /\ b # 0 /\ builder[b].step # "none" => b \in Dispatched /\ jobs[b].kind = "user" /\ Started(b)
  /\ b # 0 /\ builder[b].step \notin {"none", "final"} =>
       state[b] = "running" /\ builder[b].parent = jobs[b].accum
  /\ Live(b) => {builder[b].wait, builder[b].accum} \subseteq Counters
                /\ builder[b].wait # builder[b].accum
  /\ builder[b].step \in {"link", "wrap", "final"} => builder[b].result \in Counters
Apart ==
  \A a, b \in BuilderIds : a # b /\ Live(a) /\ Live(b) =>
    {builder[a].wait, builder[a].accum} \cap {builder[b].wait, builder[b].accum} = {}

\* The jobs of a live builder since its last fence.
GroupOK(b) ==
  /\ builder[b].behind \subseteq By(b)
  /\ \A k \in By(b) \ builder[b].behind :
       IF jobs[k].kind = "user"
       THEN /\ jobs[k].wait = builder[b].wait /\ jobs[k].accum = builder[b].accum
            /\ jobs[k].before = builder[b].behind /\ jobs[k].external = builder[b].external
            /\ \A i \in By(b) \ builder[b].behind : jobs[i].kind = "empty" => i < k
       ELSE jobs[k].accum = builder[b].wait
  /\ builder[b].step \in {"active", "sync"} /\ ~builder[b].needsFence => Work(b) \subseteq builder[b].behind
  /\ builder[b].step = "sync" => ~builder[b].needsFence
  /\ Work(b) \subseteq builder[b].behind => IsZero(builder[b].accum)
  /\ \A i \in builder[b].behind : Covered(i, builder[b].wait)
  /\ builder[b].external => ExternalCovered(builder[b].wait)

\* What a builder that ended has left.
EndOK(b) ==
  /\ builder[b].step \in {"link", "final"} =>
       /\ \A i \in Work(b) : Covered(i, builder[b].result)
       /\ builder[b].external => ExternalCovered(builder[b].result)
  /\ b # 0 /\ builder[b].step \in {"wrap", "final"} =>
       /\ \A i \in Work(b) : Behind(i, jobs[b].accum)
       /\ builder[b].external => ExternalCovered(jobs[b].accum)

BuildersOK ==
  /\ Apart
  /\ \A b \in BuilderIds : BuilderOK(b) /\ (Live(b) => GroupOK(b)) /\ EndOK(b)

Inductive ==
  /\ TypeOK /\ value[External] \in {0, 1}
  /\ Conservation /\ JobsOK /\ Promised /\ Kept /\ BuildersOK

-----------------------------------------------------------------------------
(* What the helpers do *)

OthersKeep(b) == \A a \in BuilderIds \ {b} : builder'[a] = builder[a]

LEMMA Typing ==
  ASSUME TypeOK
  PROVE  /\ Len(jobs) \in Nat /\ Dispatched \subseteq JobIds /\ Dispatched \subseteq Nat
         /\ \A j \in Dispatched :
              /\ jobs[j] \in Job
              /\ jobs[j].wait \in CounterIds /\ jobs[j].accum \in CounterIds
              /\ jobs[j].kind \in Kinds /\ jobs[j].by \in BuilderIds
              /\ jobs[j].ancestors \subseteq JobIds /\ jobs[j].before \subseteq JobIds
              /\ jobs[j].external \in BOOLEAN
         /\ \A b \in BuilderIds :
              /\ builder[b] \in BuilderState
              /\ builder[b].step \in Steps /\ builder[b].wait \in CounterIds \cup {NoCounter}
              /\ builder[b].accum \in CounterIds \cup {NoCounter}
              /\ builder[b].parent \in CounterIds \cup {NoCounter}
              /\ builder[b].needsFence \in BOOLEAN /\ builder[b].extracting \in BOOLEAN
              /\ builder[b].external \in BOOLEAN /\ builder[b].behind \subseteq JobIds
              /\ builder[b].result \in CounterIds \cup {NoCounter}
         /\ JobIds \subseteq BuilderIds /\ CounterIds \subseteq Nat \ {0} /\ JobIds \subseteq Nat \ {0}
         /\ BuilderIds = JobIds \cup {0} /\ 0 \notin JobIds
         /\ External \in CounterIds
<1>1. /\ jobs \in Seq(Job) /\ Len(jobs) <= MaxJobs /\ MaxJobs \in Nat
      /\ builder \in [BuilderIds -> BuilderState]
  BY BoundsAssumption DEF TypeOK
<1>2. Len(jobs) \in Nat /\ Dispatched \subseteq JobIds /\ Dispatched \subseteq Nat
  BY <1>1 DEF Dispatched, JobIds
<1>3. \A j \in Dispatched : jobs[j] \in Job
  BY <1>1 DEF Dispatched
<1>4. ASSUME NEW r \in Job
      PROVE  /\ r.wait \in CounterIds /\ r.accum \in CounterIds
             /\ r.kind \in Kinds /\ r.by \in BuilderIds
             /\ r.ancestors \subseteq JobIds /\ r.before \subseteq JobIds
             /\ r.external \in BOOLEAN
  BY DEF Job
<1>5. ASSUME NEW r \in BuilderState
      PROVE  /\ r.step \in Steps /\ r.wait \in CounterIds \cup {NoCounter}
             /\ r.accum \in CounterIds \cup {NoCounter}
             /\ r.parent \in CounterIds \cup {NoCounter}
             /\ r.needsFence \in BOOLEAN /\ r.extracting \in BOOLEAN
             /\ r.external \in BOOLEAN /\ r.behind \subseteq JobIds
             /\ r.result \in CounterIds \cup {NoCounter}
  BY DEF BuilderState
<1>6. \A b \in BuilderIds : builder[b] \in BuilderState
  BY <1>1
<1>7. /\ JobIds \subseteq BuilderIds /\ CounterIds \subseteq Nat \ {0} /\ JobIds \subseteq Nat \ {0}
      /\ BuilderIds = JobIds \cup {0} /\ 0 \notin JobIds
      /\ External \in CounterIds
  BY BoundsAssumption DEF JobIds, BuilderIds, CounterIds, External
<1> QED BY <1>2, <1>3, <1>4, <1>5, <1>6, <1>7

\* The new job of run_job.
IsNew(n, b, kind, w, a) ==
  /\ n \in JobIds /\ n \notin Dispatched /\ n = Len(jobs) + 1
  /\ Dispatched' = Dispatched \cup {n}
  /\ \A j \in Dispatched : j < n /\ jobs'[j] = jobs[j] /\ state'[j] = state[j]
  /\ jobs'[n].wait = w /\ jobs'[n].accum = a /\ jobs'[n].kind = kind /\ jobs'[n].by = b
  /\ jobs'[n].ancestors = Ancestors(b)
  /\ jobs'[n].before = (IF kind = "user" THEN builder[b].behind ELSE {})
  /\ jobs'[n].external = (kind = "user" /\ builder[b].external)
  /\ state'[n] = "counted" /\ \A j \in JobIds \ {n} : state'[j] = state[j]
  /\ \A c \in CounterIds : value'[c] = IF c = a THEN value[c] + 1 ELSE value[c]

LEMMA RunJobEffect ==
  ASSUME TypeOK, NEW b \in BuilderIds, b # 0 => b \in Dispatched, NEW kind \in Kinds,
         NEW w \in CounterIds, NEW a \in CounterIds, RunJob(b, kind, w, a)
  PROVE  /\ \E n : IsNew(n, b, kind, w, a)
         /\ jobs' \in Seq(Job) /\ Len(jobs') <= MaxJobs
         /\ state' \in [JobIds -> States] /\ value' \in [CounterIds -> Nat]
<1> DEFINE before == IF kind = "user" THEN builder[b].behind ELSE {}
           external == kind = "user" /\ builder[b].external
           job == [wait |-> w, accum |-> a, kind |-> kind, by |-> b,
                   ancestors |-> Ancestors(b), before |-> before, external |-> external]
<1>1. PICK anc : anc = Ancestors(b)
  OBVIOUS
<1>2. anc \subseteq JobIds /\ before \subseteq JobIds /\ external \in BOOLEAN
  BY <1>1, Typing DEF Ancestors
<1>3. jobs' = Append(jobs, job)
  BY DEF RunJob
<1>4. /\ job \in Job
      /\ job.wait = w /\ job.accum = a /\ job.kind = kind /\ job.by = b
      /\ job.ancestors = anc /\ job.before = before /\ job.external = external
  BY <1>1, <1>2 DEF Job
<1> HIDE DEF job
<1>5. PICK n : n = Len(jobs) + 1
  OBVIOUS
<1>6. /\ n \in JobIds /\ n \notin Dispatched
      /\ state' = [state EXCEPT ![n] = "counted"] /\ value' = [value EXCEPT ![a] = @ + 1]
      /\ \A j \in Dispatched : j < n
  BY <1>5, Typing, BoundsAssumption DEF RunJob, JobIds, Dispatched
<1>7. /\ jobs' \in Seq(Job) /\ Len(jobs') = n /\ jobs'[n] = job
      /\ \A j \in 1 .. Len(jobs) : jobs'[j] = jobs[j]
  BY <1>3, <1>4, <1>5, Typing DEF TypeOK
<1>8. Dispatched' = Dispatched \cup {n}
  BY <1>5, <1>7, Typing DEF Dispatched
<1>9. /\ state' \in [JobIds -> States] /\ value' \in [CounterIds -> Nat]
      /\ state'[n] = "counted" /\ \A j \in JobIds \ {n} : state'[j] = state[j]
      /\ \A c \in CounterIds : value'[c] = IF c = a THEN value[c] + 1 ELSE value[c]
  BY <1>6 DEF TypeOK, States
<1>10. \A j \in Dispatched : j < n /\ jobs'[j] = jobs[j] /\ state'[j] = state[j]
  BY <1>6, <1>7, <1>9, Typing DEF Dispatched
<1>11. IsNew(n, b, kind, w, a)
  <2> HIDE DEF before, external
  <2>1. before = (IF kind = "user" THEN builder[b].behind ELSE {})
    BY DEF before
  <2>2. external = (kind = "user" /\ builder[b].external)
    BY DEF external
  <2> QED BY <1>1, <1>4, <1>5, <1>6, <1>7, <1>8, <1>9, <1>10, <2>1, <2>2 DEF IsNew
<1>12. Len(jobs') <= MaxJobs
  BY <1>5, <1>6, <1>7, BoundsAssumption DEF JobIds
<1> QED BY <1>7, <1>9, <1>11, <1>12

LEMMA Becomes ==
  ASSUME TypeOK, NEW b \in BuilderIds, NEW r \in BuilderState, Become(b, r)
  PROVE  /\ builder' \in [BuilderIds -> BuilderState] /\ builder'[b] = r /\ OthersKeep(b)
BY DEF Become, TypeOK, OthersKeep

-----------------------------------------------------------------------------
(* What the calls do *)

LEMMA CreateBuilderEffect ==
  ASSUME TypeOK, NEW j \in JobIds, CreateBuilder(j)
  PROVE  /\ builder' \in [BuilderIds -> BuilderState] /\ OthersKeep(j)
         /\ j \in Dispatched /\ jobs[j].kind = "user" /\ state[j] = "running"
         /\ builder[j].step = "none"
         /\ builder'[j].step = "active" /\ builder'[j].parent = jobs[j].accum
         /\ builder'[j].wait = created + 1 /\ builder'[j].accum = created + 2
         /\ ~builder'[j].needsFence /\ ~builder'[j].external /\ builder'[j].behind = {}
         /\ created' = created + 2 /\ created' \in CounterIds
         /\ UNCHANGED <<jobs, state, value, fences>>
<1> DEFINE r == [Idle EXCEPT !.step = "active", !.wait = created + 1, !.accum = created + 2,
                             !.parent = jobs[j].accum]
<1>1. j \in Dispatched /\ created + 1 \in CounterIds /\ created + 2 \in CounterIds
  BY BoundsAssumption DEF CreateBuilder, TypeOK, CounterIds
<1>2. jobs[j].accum \in CounterIds /\ j \in BuilderIds
  BY <1>1, Typing
<1>3. /\ r \in BuilderState
      /\ r.step = "active" /\ r.wait = created + 1 /\ r.accum = created + 2
      /\ r.parent = jobs[j].accum /\ ~r.needsFence /\ ~r.external /\ r.behind = {}
  BY <1>1, <1>2 DEF Idle, BuilderState, Steps, NoCounter
<1>4. Become(j, r)
  BY DEF CreateBuilder
<1> HIDE DEF r
<1> QED BY <1>1, <1>2, <1>3, <1>4, Becomes DEF CreateBuilder

\* Both kinds of dispatch: the job joins the group, and a fence is due.
AsksForJob(b) ==
  /\ RunJob(b, "user", builder[b].wait, builder[b].accum)
  /\ builder'[b].wait = builder[b].wait /\ builder'[b].accum = builder[b].accum
  /\ builder'[b].parent = builder[b].parent /\ builder'[b].behind = builder[b].behind
  /\ builder'[b].external = builder[b].external
  /\ \/ builder'[b].step = "rotate"
     \/ builder'[b].step = "active" /\ builder'[b].needsFence

LEMMA DispatchEffect ==
  ASSUME TypeOK, NEW b \in BuilderIds, DispatchJob(b) \/ DispatchJobNoFence(b)
  PROVE  /\ builder' \in [BuilderIds -> BuilderState] /\ OthersKeep(b)
         /\ CanCall(b) /\ AsksForJob(b)
         /\ UNCHANGED <<created, fences>>
<1>1. PICK r \in BuilderState : r = builder[b]
  BY Typing
<1> DEFINE q == [r EXCEPT !.step = "rotate"]
           n == [r EXCEPT !.needsFence = TRUE]
<1>2. /\ q \in BuilderState /\ q.step = "rotate"
      /\ q.wait = r.wait /\ q.accum = r.accum /\ q.parent = r.parent /\ q.behind = r.behind
      /\ q.external = r.external
  BY DEF BuilderState, Steps
<1>3. /\ n \in BuilderState /\ n.step = r.step /\ n.needsFence
      /\ n.wait = r.wait /\ n.accum = r.accum /\ n.parent = r.parent /\ n.behind = r.behind
      /\ n.external = r.external
  BY DEF BuilderState
<1>4. /\ CanCall(b) /\ r.step = "active"
      /\ RunJob(b, "user", builder[b].wait, builder[b].accum)
      /\ UNCHANGED <<created, fences>>
  BY <1>1 DEF DispatchJob, DispatchJobNoFence, CanCall
<1>5. Become(b, q) \/ Become(b, n)
  BY <1>1 DEF DispatchJob, DispatchJobNoFence
<1> HIDE DEF q, n
<1> QED BY <1>1, <1>2, <1>3, <1>4, <1>5, Becomes DEF AsksForJob

LEMMA FenceEffect ==
  ASSUME TypeOK, NEW b \in BuilderIds, DispatchFenceExplicitly(b)
  PROVE  /\ builder' \in [BuilderIds -> BuilderState] /\ OthersKeep(b)
         /\ CanCall(b) /\ builder'[b].step = "rotate"
         /\ builder'[b].wait = builder[b].wait /\ builder'[b].accum = builder[b].accum
         /\ builder'[b].parent = builder[b].parent /\ builder'[b].behind = builder[b].behind
         /\ builder'[b].external = builder[b].external
         /\ fences' \in 0 .. MaxFences /\ UNCHANGED <<jobs, state, value, created>>
<1>1. PICK r \in BuilderState : r = builder[b]
  BY Typing
<1> DEFINE q == [r EXCEPT !.step = "rotate"]
<1>2. /\ q \in BuilderState /\ q.step = "rotate"
      /\ q.wait = r.wait /\ q.accum = r.accum /\ q.parent = r.parent /\ q.behind = r.behind
      /\ q.external = r.external
  BY DEF BuilderState, Steps
<1>3. Become(b, q)
  BY <1>1 DEF DispatchFenceExplicitly
<1>4. fences' \in 0 .. MaxFences
  BY BoundsAssumption DEF DispatchFenceExplicitly, TypeOK
<1> HIDE DEF q
<1> QED BY <1>1, <1>2, <1>3, <1>4, Becomes DEF DispatchFenceExplicitly

LEMMA RotateEffect ==
  ASSUME TypeOK, NEW b \in BuilderIds, Rotate(b)
  PROVE  /\ builder' \in [BuilderIds -> BuilderState] /\ OthersKeep(b)
         /\ builder[b].step = "rotate" /\ builder'[b].step = "active"
         /\ ~builder'[b].needsFence /\ builder'[b].behind = By(b)
         /\ builder'[b].parent = builder[b].parent
         /\ builder'[b].external = builder[b].external
         /\ \/ /\ IsZero(builder[b].accum) /\ created' = created
               /\ builder'[b].wait = builder[b].wait /\ builder'[b].accum = builder[b].accum
            \/ /\ ~IsZero(builder[b].accum) /\ created' = created + 1
               /\ created' \in CounterIds
               /\ builder'[b].wait = builder[b].accum /\ builder'[b].accum = created + 1
         /\ UNCHANGED <<jobs, state, value, fences>>
<1>1. PICK r \in BuilderState : r = builder[b]
  BY Typing
<1>2. PICK B : B = By(b)
  OBVIOUS
<1>3. B \subseteq JobIds
  BY <1>2, Typing DEF By
<1> DEFINE q == [r EXCEPT !.step = "active", !.needsFence = FALSE, !.behind = B]
           p == [q EXCEPT !.wait = r.accum, !.accum = created + 1]
<1>4. /\ q \in BuilderState /\ q.step = "active" /\ ~q.needsFence /\ q.behind = B
      /\ q.wait = r.wait /\ q.accum = r.accum /\ q.parent = r.parent
      /\ q.external = r.external
  BY <1>3 DEF BuilderState, Steps
<1>5. ASSUME created + 1 \in CounterIds
      PROVE  /\ p \in BuilderState /\ p.step = "active" /\ ~p.needsFence /\ p.behind = B
             /\ p.wait = r.accum /\ p.accum = created + 1 /\ p.parent = r.parent
             /\ p.external = r.external
  <2> HIDE DEF q
  <2>1. r.accum \in CounterIds \cup {NoCounter}
    BY DEF BuilderState
  <2> QED BY <1>4, <1>5, <2>1 DEF BuilderState
<1>6. IF IsZero(builder[b].accum) THEN Become(b, q) /\ UNCHANGED created
      ELSE created < MaxCounters /\ created' = created + 1 /\ Become(b, p)
  BY <1>1, <1>2 DEF Rotate
<1>7. ~IsZero(builder[b].accum) => created + 1 \in CounterIds
  BY <1>6, BoundsAssumption DEF TypeOK, CounterIds
<1>8. builder[b].step = "rotate" /\ UNCHANGED <<jobs, state, value, fences>>
  BY DEF Rotate
<1> HIDE DEF q, p
<1>9. CASE IsZero(builder[b].accum)
  BY <1>1, <1>2, <1>4, <1>6, <1>8, <1>9, Becomes
<1>10. CASE ~IsZero(builder[b].accum)
  BY <1>1, <1>2, <1>5, <1>6, <1>7, <1>8, <1>10, Becomes
<1> QED BY <1>9, <1>10

LEMMA DispatchWaitEffect ==
  ASSUME TypeOK, NEW b \in BuilderIds, DispatchWait(b)
  PROVE  /\ builder' \in [BuilderIds -> BuilderState] /\ OthersKeep(b)
         /\ CanCall(b) /\ ~builder[b].needsFence /\ builder'[b].step = "active"
         /\ ~builder'[b].needsFence /\ builder'[b].external
         /\ builder'[b].wait = builder[b].wait /\ builder'[b].accum = builder[b].accum
         /\ builder'[b].parent = builder[b].parent /\ builder'[b].behind = builder[b].behind
         /\ \/ IsZero(External) /\ UNCHANGED <<jobs, state, value>>
            \/ RunJob(b, "empty", External, builder[b].wait)
         /\ UNCHANGED <<created, fences>>
<1>1. PICK r \in BuilderState : r = builder[b]
  BY Typing
<1> DEFINE q == [r EXCEPT !.external = TRUE]
<1>2. /\ q \in BuilderState /\ q.step = r.step /\ q.needsFence = r.needsFence /\ q.external
      /\ q.wait = r.wait /\ q.accum = r.accum /\ q.parent = r.parent /\ q.behind = r.behind
  BY DEF BuilderState
<1>3. Become(b, q)
  BY <1>1 DEF DispatchWait
<1>4. /\ CanCall(b) /\ ~r.needsFence /\ r.step = "active"
      /\ \/ IsZero(External) /\ UNCHANGED <<jobs, state, value>>
         \/ RunJob(b, "empty", External, builder[b].wait)
      /\ UNCHANGED <<created, fences>>
  BY <1>1 DEF DispatchWait, CanCall
<1> HIDE DEF q
<1> QED BY <1>1, <1>2, <1>3, <1>4, Becomes

LEMMA FinalizeEffect ==
  ASSUME TypeOK, NEW b \in BuilderIds, NEW e \in BOOLEAN, Finalize(b, e)
  PROVE  /\ builder' \in [BuilderIds -> BuilderState] /\ OthersKeep(b)
         /\ CanCall(b) /\ ~builder[b].needsFence /\ builder'[b].step = "sync"
         /\ ~builder'[b].needsFence /\ builder'[b].external = builder[b].external
         /\ builder'[b].wait = builder[b].wait /\ builder'[b].accum = builder[b].accum
         /\ builder'[b].parent = builder[b].parent /\ builder'[b].behind = builder[b].behind
         /\ UNCHANGED <<jobs, state, value, created, fences>>
<1>1. PICK r \in BuilderState : r = builder[b]
  BY Typing
<1> DEFINE q == [r EXCEPT !.step = "sync", !.extracting = e]
<1>2. /\ q \in BuilderState /\ q.step = "sync" /\ q.needsFence = r.needsFence
      /\ q.external = r.external
      /\ q.wait = r.wait /\ q.accum = r.accum /\ q.parent = r.parent /\ q.behind = r.behind
  BY DEF BuilderState, Steps
<1>3. Become(b, q)
  BY <1>1 DEF Finalize
<1> HIDE DEF q
<1> QED BY <1>1, <1>2, <1>3, Becomes DEF Finalize

\* A builder that is gone.
LEMMA EndedEffect ==
  ASSUME TypeOK, NEW b \in BuilderIds, NEW c \in CounterIds \cup {NoCounter}, Ended(b, c)
  PROVE  /\ builder' \in [BuilderIds -> BuilderState] /\ OthersKeep(b)
         /\ builder'[b].step = "final" /\ builder'[b].result = c
         /\ builder'[b].external = builder[b].external /\ builder'[b].parent = NoCounter
<1>1. PICK e \in BOOLEAN : e = builder[b].external
  BY Typing
<1> DEFINE q == [Idle EXCEPT !.step = "final", !.result = c, !.external = e]
<1>2. /\ q \in BuilderState /\ q.step = "final" /\ q.result = c /\ q.external = e
      /\ q.parent = NoCounter
  BY DEF Idle, BuilderState, Steps
<1>3. Become(b, q)
  BY <1>1 DEF Ended
<1> HIDE DEF q
<1> QED BY <1>1, <1>2, <1>3, Becomes

LEMMA FinalSyncEffect ==
  ASSUME TypeOK, NEW b \in BuilderIds, FinalSync(b)
  PROVE  /\ builder' \in [BuilderIds -> BuilderState] /\ OthersKeep(b)
         /\ builder[b].step = "sync" /\ builder'[b].external = builder[b].external
         /\ builder'[b].result =
              IF IsZero(builder[b].accum) THEN builder[b].wait ELSE builder[b].accum
         /\ \/ /\ builder[b].parent = NoCounter /\ builder'[b].step = "final"
               /\ builder'[b].parent = NoCounter
            \/ /\ builder[b].parent # NoCounter /\ builder'[b].step = "link"
               /\ builder'[b].parent = builder[b].parent
         /\ UNCHANGED <<jobs, state, value, created, fences>>
<1>1. PICK r \in BuilderState : r = builder[b]
  BY Typing
<1>2. PICK w : w = IF IsZero(builder[b].accum) THEN builder[b].wait ELSE builder[b].accum
  OBVIOUS
<1>3. w \in CounterIds \cup {NoCounter}
  BY <1>2, Typing
<1> DEFINE q == [r EXCEPT !.step = "link", !.result = w]
<1>4. /\ q \in BuilderState /\ q.step = "link" /\ q.result = w
      /\ q.external = r.external /\ q.parent = r.parent
  BY <1>3 DEF BuilderState, Steps
<1>5. /\ IF builder[b].parent = NoCounter THEN Ended(b, w) ELSE Become(b, q)
      /\ builder[b].step = "sync" /\ UNCHANGED <<jobs, state, value, created, fences>>
  BY <1>1, <1>2 DEF FinalSync
<1> HIDE DEF q
<1>6. CASE builder[b].parent = NoCounter
  BY <1>2, <1>3, <1>5, <1>6, EndedEffect
<1>7. CASE builder[b].parent # NoCounter
  BY <1>1, <1>2, <1>4, <1>5, <1>7, Becomes
<1> QED BY <1>6, <1>7

LEMMA LinkEffect ==
  ASSUME TypeOK, NEW b \in BuilderIds, LinkContinuation(b)
  PROVE  /\ builder' \in [BuilderIds -> BuilderState] /\ OthersKeep(b)
         /\ builder[b].step = "link" /\ builder'[b].external = builder[b].external
         /\ builder'[b].result = builder[b].result
         /\ \/ builder'[b].step = "wrap" /\ builder'[b].parent = builder[b].parent
            \/ builder'[b].step = "final"
         /\ \/ IsZero(builder[b].result) /\ UNCHANGED <<jobs, state, value>>
            \/ RunJob(b, "empty", builder[b].result, builder[b].parent)
         /\ UNCHANGED <<created, fences>>
<1>1. PICK r \in BuilderState : r = builder[b]
  BY Typing
<1> DEFINE q == [r EXCEPT !.step = "wrap"]
<1>2. /\ q \in BuilderState /\ q.step = "wrap" /\ q.result = r.result
      /\ q.external = r.external /\ q.parent = r.parent
  BY DEF BuilderState, Steps
<1>3. /\ IF builder[b].extracting THEN Become(b, q) ELSE Ended(b, builder[b].result)
      /\ builder[b].step = "link"
      /\ \/ IsZero(builder[b].result) /\ UNCHANGED <<jobs, state, value>>
         \/ RunJob(b, "empty", builder[b].result, builder[b].parent)
      /\ UNCHANGED <<created, fences>>
  BY <1>1 DEF LinkContinuation
<1>4. builder[b].result \in CounterIds \cup {NoCounter}
  BY Typing
<1> HIDE DEF q
<1>5. CASE builder[b].extracting
  BY <1>1, <1>2, <1>3, <1>5, Becomes
<1>6. CASE ~builder[b].extracting
  BY <1>3, <1>4, <1>6, EndedEffect
<1> QED BY <1>5, <1>6

LEMMA WrapEffect ==
  ASSUME TypeOK, NEW b \in BuilderIds, WrapContinuation(b)
  PROVE  /\ builder' \in [BuilderIds -> BuilderState] /\ OthersKeep(b)
         /\ builder[b].step = "wrap" /\ builder'[b].step = "final"
         /\ builder'[b].external = builder[b].external
         /\ builder'[b].result = created + 1
         /\ created' = created + 1 /\ created' \in CounterIds
         /\ \/ IsZero(builder[b].parent) /\ UNCHANGED <<jobs, state, value>>
            \/ RunJob(b, "empty", builder[b].parent, created + 1)
         /\ UNCHANGED fences
<1>1. created + 1 \in CounterIds
  BY BoundsAssumption DEF WrapContinuation, TypeOK, CounterIds
<1> QED BY <1>1, EndedEffect DEF WrapContinuation

-----------------------------------------------------------------------------
(* The shape of a step *)

Ends(b) == builder[b].step \in {"wrap", "final"}

\* A builder that ended stays so.
EndedStay ==
  \A b \in BuilderIds :
    /\ Ends(b) => Ends(b)'
    /\ builder[b].step = "link" \/ Ends(b) => builder'[b].external = builder[b].external

\* Who adds a job to which counter behind which.
AddedBy(b, kind, w, a) ==
  /\ b # 0 => b \in Dispatched /\ jobs[b].kind = "user" /\ state[b] = "running"
  /\ \/ /\ kind = "user" /\ builder[b].step = "active"
        /\ w = builder[b].wait /\ a = builder[b].accum
     \/ /\ kind = "empty" /\ builder[b].step = "active" /\ ~builder[b].needsFence
        /\ w = External /\ a = builder[b].wait
     \/ /\ kind = "empty" /\ builder[b].step = "link" /\ b # 0
        /\ w = builder[b].result /\ a = jobs[b].accum /\ Ends(b)'
     \/ /\ kind = "empty" /\ builder[b].step = "wrap" /\ b # 0
        /\ w = jobs[b].accum /\ a = created + 1 /\ created' = created + 1

\* The job side of a step: one job is added, or jobs only go on.
Adds ==
  \E b \in BuilderIds, kind \in Kinds, w \in Counters \cup {External},
     a \in CounterIds \ {External} :
    AddedBy(b, kind, w, a) /\ \E n : IsNew(n, b, kind, w, a)
GoesOn ==
  /\ jobs' = jobs
  /\ \A j \in Dispatched : /\ Started(j) => Started(j)'
                           /\ state[j] = "done" => state'[j] = "done"
  /\ IsZero(External) => IsZero(External)'
  /\ \/ UNCHANGED <<state, value>>
     \/ ResolveExternal
     \/ \E j \in JobIds : Start(j) \/ Finish(j)

LEMMA NextCases ==
  ASSUME [Next]_vars
  PROVE  \/ \E j \in JobIds : CreateBuilder(j) \/ Start(j) \/ Finish(j)
         \/ \E b \in BuilderIds :
              \/ DispatchJob(b) \/ DispatchJobNoFence(b)
              \/ DispatchFenceExplicitly(b) \/ Rotate(b) \/ DispatchWait(b)
              \/ \E e \in BOOLEAN : Finalize(b, e)
              \/ FinalSync(b) \/ LinkContinuation(b) \/ WrapContinuation(b)
         \/ ResolveExternal
         \/ UNCHANGED vars
BY DEF Next, CallStep, JobStep

\* A builder that is called belongs to a running job, or to the client.
LEMMA CallerRuns ==
  ASSUME Inductive, NEW b \in BuilderIds, builder[b].step \notin {"none", "final"}
  PROVE  /\ b # 0 => /\ b \in Dispatched /\ jobs[b].kind = "user" /\ state[b] = "running"
                     /\ builder[b].parent = jobs[b].accum /\ jobs[b].accum \in Counters
         /\ b = 0 => builder[b].parent = NoCounter /\ builder[b].step \notin {"link", "wrap"}
         /\ Live(b) => /\ builder[b].wait \in Counters /\ builder[b].accum \in Counters
                       /\ builder[b].wait # builder[b].accum
         /\ builder[b].step \in {"link", "wrap"} => builder[b].result \in Counters
<1>1. BuilderOK(b)
  BY DEF Inductive, BuildersOK
<1>2. \A j \in Dispatched : jobs[j].accum \in Counters
  BY DEF Inductive, JobsOK, JobOK
<1> QED BY <1>1, <1>2 DEF BuilderOK

LEMMA CounterTyping ==
  ASSUME TypeOK
  PROVE  /\ created \in Nat /\ created <= MaxCounters
         /\ Counters \subseteq CounterIds \ {External} /\ NoCounter \notin Counters
         /\ created + 1 \in Nat /\ created + 1 \notin Counters
BY BoundsAssumption DEF TypeOK, Counters, CounterIds, External, NoCounter

LEMMA EndedBuildersStay ==
  ASSUME Inductive, [Next]_vars
  PROVE  EndedStay
<1> USE DEF EndedStay, Ends, Inductive
<1>1. ASSUME NEW j \in JobIds, CreateBuilder(j) \/ Start(j) \/ Finish(j) PROVE EndedStay
  <2>1. CASE CreateBuilder(j)
    BY <2>1, CreateBuilderEffect DEF OthersKeep
  <2>2. CASE Start(j) \/ Finish(j)
    BY <2>2 DEF Start, Finish
  <2> QED BY <1>1, <2>1, <2>2
<1>2. ASSUME NEW b \in BuilderIds, DispatchJob(b) \/ DispatchJobNoFence(b) PROVE EndedStay
  BY <1>2, DispatchEffect DEF CanCall, OthersKeep
<1>3. ASSUME NEW b \in BuilderIds, DispatchFenceExplicitly(b) PROVE EndedStay
  BY <1>3, FenceEffect DEF CanCall, OthersKeep
<1>4. ASSUME NEW b \in BuilderIds, Rotate(b) PROVE EndedStay
  BY <1>4, RotateEffect DEF OthersKeep
<1>5. ASSUME NEW b \in BuilderIds, DispatchWait(b) PROVE EndedStay
  BY <1>5, DispatchWaitEffect DEF CanCall, OthersKeep
<1>6. ASSUME NEW b \in BuilderIds, NEW e \in BOOLEAN, Finalize(b, e) PROVE EndedStay
  BY <1>6, FinalizeEffect DEF CanCall, OthersKeep
<1>7. ASSUME NEW b \in BuilderIds, FinalSync(b) PROVE EndedStay
  BY <1>7, FinalSyncEffect DEF OthersKeep
<1>8. ASSUME NEW b \in BuilderIds, LinkContinuation(b) PROVE EndedStay
  BY <1>8, LinkEffect DEF OthersKeep
<1>9. ASSUME NEW b \in BuilderIds, WrapContinuation(b) PROVE EndedStay
  BY <1>9, WrapEffect DEF OthersKeep
<1>10. CASE ResolveExternal
  BY <1>10 DEF ResolveExternal
<1>11. CASE UNCHANGED vars
  BY <1>11 DEF vars
<1> QED
  BY <1>1, <1>2, <1>3, <1>4, <1>5, <1>6, <1>7, <1>8, <1>9, <1>10, <1>11, NextCases

\* The calls that may add a job.
LEMMA AddsOrNot ==
  ASSUME Inductive, [Next]_vars
  PROVE  Adds \/ GoesOn
<1> USE DEF Inductive
<1>0. Counters \subseteq CounterIds \ {External} /\ External \in CounterIds
  BY CounterTyping, Typing
<1>same. ASSUME UNCHANGED <<jobs, state, value>> PROVE GoesOn
  BY <1>same DEF GoesOn, Started, IsZero
<1>1. ASSUME NEW j \in JobIds, CreateBuilder(j) \/ Start(j) \/ Finish(j) PROVE GoesOn
  <2>1. CASE CreateBuilder(j)
    BY <1>same, <2>1, CreateBuilderEffect
  <2>2. CASE Start(j)
    BY <2>2, Typing DEF Start, GoesOn, Started, IsZero, TypeOK
  <2>3. CASE Finish(j)
    <3>1. j \in Dispatched
      BY <2>3 DEF Finish, JobsOK
    <3>2. jobs[j].accum # External /\ External \in CounterIds
      BY <3>1, CounterTyping, Typing DEF JobsOK, JobOK
    <3> QED BY <2>3, <3>2, Typing DEF Finish, GoesOn, Started, IsZero, TypeOK
  <2> QED BY <1>1, <2>1, <2>2, <2>3
<1>2. ASSUME NEW b \in BuilderIds, DispatchJob(b) \/ DispatchJobNoFence(b) PROVE Adds
  <2>1. CanCall(b) /\ RunJob(b, "user", builder[b].wait, builder[b].accum)
    BY <1>2, DispatchEffect DEF AsksForJob
  <2>2. builder[b].step = "active" /\ Live(b)
    BY <2>1 DEF CanCall, Live
  <2>3. /\ b # 0 => b \in Dispatched /\ jobs[b].kind = "user" /\ state[b] = "running"
        /\ builder[b].wait \in Counters /\ builder[b].accum \in Counters
    BY <2>2, CallerRuns
  <2>4. \E n : IsNew(n, b, "user", builder[b].wait, builder[b].accum)
    BY <1>0, <2>1, <2>3, RunJobEffect DEF Kinds
  <2> QED BY <1>0, <2>2, <2>3, <2>4 DEF Adds, AddedBy, Kinds
<1>3. ASSUME NEW b \in BuilderIds, DispatchFenceExplicitly(b) PROVE GoesOn
  BY <1>same, <1>3, FenceEffect
<1>4. ASSUME NEW b \in BuilderIds, Rotate(b) PROVE GoesOn
  BY <1>same, <1>4, RotateEffect
<1>5. ASSUME NEW b \in BuilderIds, DispatchWait(b) PROVE Adds \/ GoesOn
  <2>1. /\ CanCall(b) /\ ~builder[b].needsFence
        /\ UNCHANGED <<jobs, state, value>> \/ RunJob(b, "empty", External, builder[b].wait)
    BY <1>5, DispatchWaitEffect
  <2>2. builder[b].step = "active" /\ Live(b)
    BY <2>1 DEF CanCall, Live
  <2>3. /\ b # 0 => b \in Dispatched /\ jobs[b].kind = "user" /\ state[b] = "running"
        /\ builder[b].wait \in Counters
    BY <2>2, CallerRuns
  <2>4. ASSUME RunJob(b, "empty", External, builder[b].wait) PROVE Adds
    <3>1. \E n : IsNew(n, b, "empty", External, builder[b].wait)
      BY <1>0, <2>3, <2>4, RunJobEffect DEF Kinds
    <3> QED BY <1>0, <2>1, <2>2, <2>3, <3>1 DEF Adds, AddedBy, Kinds
  <2> QED BY <1>same, <2>1, <2>4
<1>6. ASSUME NEW b \in BuilderIds, NEW e \in BOOLEAN, Finalize(b, e) PROVE GoesOn
  BY <1>same, <1>6, FinalizeEffect
<1>7. ASSUME NEW b \in BuilderIds, FinalSync(b) PROVE GoesOn
  BY <1>same, <1>7, FinalSyncEffect
<1>8. ASSUME NEW b \in BuilderIds, LinkContinuation(b) PROVE Adds \/ GoesOn
  <2>1. /\ builder[b].step = "link" /\ Ends(b)'
        /\ \/ UNCHANGED <<jobs, state, value>>
           \/ RunJob(b, "empty", builder[b].result, builder[b].parent)
    BY <1>8, LinkEffect DEF Ends
  <2>2. /\ b # 0 /\ b \in Dispatched /\ jobs[b].kind = "user" /\ state[b] = "running"
        /\ builder[b].parent = jobs[b].accum /\ jobs[b].accum \in Counters
        /\ builder[b].result \in Counters
    BY <2>1, CallerRuns
  <2>3. ASSUME RunJob(b, "empty", builder[b].result, jobs[b].accum) PROVE Adds
    <3>1. \E n : IsNew(n, b, "empty", builder[b].result, jobs[b].accum)
      BY <1>0, <2>2, <2>3, RunJobEffect DEF Kinds
    <3> QED BY <1>0, <2>1, <2>2, <3>1 DEF Adds, AddedBy, Kinds
  <2> QED BY <1>same, <2>1, <2>2, <2>3
<1>9. ASSUME NEW b \in BuilderIds, WrapContinuation(b) PROVE Adds \/ GoesOn
  <2>1. /\ builder[b].step = "wrap" /\ created + 1 \in CounterIds /\ created' = created + 1
        /\ \/ UNCHANGED <<jobs, state, value>>
           \/ RunJob(b, "empty", builder[b].parent, created + 1)
    BY <1>9, WrapEffect
  <2>2. /\ b # 0 /\ b \in Dispatched /\ jobs[b].kind = "user" /\ state[b] = "running"
        /\ builder[b].parent = jobs[b].accum /\ jobs[b].accum \in Counters
    BY <2>1, CallerRuns
  <2>3. created + 1 # External
    BY <2>2, CounterTyping DEF Counters, External
  <2>4. ASSUME RunJob(b, "empty", jobs[b].accum, created + 1) PROVE Adds
    <3>1. \E n : IsNew(n, b, "empty", jobs[b].accum, created + 1)
      BY <1>0, <2>1, <2>2, <2>4, RunJobEffect DEF Kinds
    <3> QED BY <1>0, <2>1, <2>2, <2>3, <3>1 DEF Adds, AddedBy, Kinds
  <2> QED BY <1>same, <2>1, <2>2, <2>4
<1>10. CASE ResolveExternal
  BY <1>10, Typing DEF ResolveExternal, GoesOn, Started, IsZero, TypeOK
<1>11. CASE UNCHANGED vars
  BY <1>same, <1>11 DEF vars
<1> QED
  BY <1>1, <1>2, <1>3, <1>4, <1>5, <1>6, <1>7, <1>8, <1>9, <1>10, <1>11, NextCases

-----------------------------------------------------------------------------
(* What a step leaves alone *)

LEMMA JobFields ==
  ASSUME Inductive, NEW j \in Dispatched
  PROVE  /\ JobOK(j) /\ j \in JobIds /\ j \in Nat /\ jobs[j].by \in BuilderIds
         /\ state[j] \in {"counted", "running", "done"}
         /\ jobs[j].accum \in Counters /\ jobs[j].accum \in CounterIds
         /\ jobs[j].accum # External
         /\ jobs[j].wait \in Counters \cup {External} /\ jobs[j].wait \in CounterIds
         /\ jobs[j].kind \in {"user", "empty"}
         /\ \A i \in jobs[j].before : i \in Dispatched /\ i < j
         /\ \A i \in jobs[j].ancestors : i \in Dispatched /\ i < j /\ jobs[i].kind = "user"
<1>1. TypeOK /\ JobsOK
  BY DEF Inductive
<1>2. JobOK(j) /\ j \in JobIds /\ state[j] # "none"
  BY <1>1, Typing DEF JobsOK
<1>3. state[j] \in {"counted", "running", "done"}
  BY <1>1, <1>2 DEF TypeOK, States
<1>4. \A i \in JobIds : i < j => i \in Dispatched
  BY <1>1, Typing DEF Dispatched
<1>5. /\ \A i \in jobs[j].before : i \in JobIds /\ i < j
      /\ \A i \in jobs[j].ancestors : i \in JobIds /\ i < j /\ jobs[i].kind = "user"
  BY <1>1, <1>2, Typing DEF JobOK
<1>6. /\ jobs[j].accum \in Counters /\ jobs[j].accum \in CounterIds
      /\ jobs[j].accum # External
      /\ jobs[j].wait \in Counters \cup {External} /\ jobs[j].wait \in CounterIds
      /\ jobs[j].kind \in {"user", "empty"} /\ jobs[j].by \in BuilderIds /\ j \in Nat
  BY <1>1, <1>2, CounterTyping, Typing DEF JobOK, Kinds
<1> QED BY <1>2, <1>3, <1>4, <1>5, <1>6

\* Jobs only go on.
LEMMA JobsStay ==
  ASSUME Inductive, [Next]_vars
  PROVE  /\ Dispatched \subseteq Dispatched'
         /\ \A j \in Dispatched : /\ jobs'[j] = jobs[j]
                                  /\ Started(j) => Started(j)'
                                  /\ state[j] = "done" => state'[j] = "done"
         /\ IsZero(External) => IsZero(External)'
<1>1. CASE GoesOn
  BY <1>1 DEF GoesOn, Dispatched
<1>2. CASE Adds
  BY <1>2, Typing DEF Adds, IsNew, Started, IsZero, Inductive
<1> QED BY <1>1, <1>2, AddsOrNot

LEMMA AncestorsStay ==
  ASSUME Inductive, [Next]_vars, NEW b \in BuilderIds, b = 0 \/ b \in Dispatched
  PROVE  (Ancestors(b))' = Ancestors(b)
BY JobsStay DEF Ancestors

LEMMA CompletedStays ==
  ASSUME Inductive, [Next]_vars, NEW j \in Dispatched, Completed(j)
  PROVE  (Completed(j))'
<1>1. state'[j] = "done"
  BY JobsStay DEF Completed
<1>2. ASSUME NEW k \in Dispatched', jobs'[k].kind = "user", j \in jobs'[k].ancestors
      PROVE  state'[k] = "done"
  <2>1. CASE k \in Dispatched
    BY <1>2, <2>1, JobsStay DEF Completed
  <2>2. CASE k \notin Dispatched
    <3>1. Adds
      BY <2>2, AddsOrNot DEF GoesOn, Dispatched
    <3>2. PICK b \in BuilderIds, kind \in Kinds, w \in Counters \cup {External},
               a \in CounterIds \ {External} :
            AddedBy(b, kind, w, a) /\ \E n : IsNew(n, b, kind, w, a)
      BY <3>1 DEF Adds
    <3>3. IsNew(k, b, kind, w, a)
      BY <2>2, <3>2 DEF IsNew
    <3>4. j \in Ancestors(b)
      BY <1>2, <3>3 DEF IsNew
    <3>5. b # 0 /\ (j = b \/ j \in jobs[b].ancestors)
      BY <3>4 DEF Ancestors
    <3>6. b \in Dispatched /\ jobs[b].kind = "user" /\ state[b] = "running"
      BY <3>2, <3>5 DEF AddedBy
    <3> QED BY <3>5, <3>6 DEF Completed
  <2> QED BY <2>1, <2>2
<1> QED BY <1>1, <1>2 DEF Completed

LEMMA EndedWorkStays ==
  ASSUME Inductive, [Next]_vars, NEW b \in BuilderIds, builder[b].step # "active"
  PROVE  (Work(b))' = Work(b)
<1>1. ASSUME NEW k \in Dispatched', k \notin Dispatched, jobs'[k].kind = "user"
      PROVE  jobs'[k].by # b
  <2>1. Adds
    BY <1>1, AddsOrNot DEF GoesOn, Dispatched
  <2>2. PICK a \in BuilderIds, kind \in Kinds, w \in Counters \cup {External},
             c \in CounterIds \ {External} :
          AddedBy(a, kind, w, c) /\ \E n : IsNew(n, a, kind, w, c)
    BY <2>1 DEF Adds
  <2>3. IsNew(k, a, kind, w, c)
    BY <1>1, <2>2 DEF IsNew
  <2> QED BY <1>1, <2>2, <2>3 DEF IsNew, AddedBy
<1>2. \A k : k \in (Work(b))' <=> k \in Work(b)
  BY <1>1, JobsStay DEF Work, By
<1> QED BY <1>2

\* What an old job starts after does not change.
LEMMA AfterStays ==
  ASSUME Inductive, [Next]_vars, NEW k \in Dispatched
  PROVE  /\ \A i \in Dispatched : (After(k, i))' <=> After(k, i)
         /\ \A i \in Dispatched' \ Dispatched : ~(After(k, i))'
         /\ (AfterExternal(k))' <=> AfterExternal(k)
<1>1. PICK b \in BuilderIds : b = jobs[k].by
  BY JobFields
<1>2. jobs'[k] = jobs[k] /\ Dispatched \subseteq Dispatched'
      /\ \A i \in Dispatched : jobs'[i] = jobs[i]
  BY JobsStay
<1>3. (Closing(k))' <=> Closing(k)
  BY <1>2 DEF Closing
<1>4. Closing(k) => Ends(b)
  BY <1>1, JobFields DEF JobOK, Ends
<1>5. Closing(k) => (Work(b))' = Work(b) /\ builder'[b].external = builder[b].external
  BY <1>4, EndedWorkStays, EndedBuildersStay DEF Ends, EndedStay
<1>6. \A i \in Dispatched : (After(k, i))' <=> After(k, i)
  BY <1>1, <1>2, <1>3, <1>5 DEF After
<1>7. ASSUME NEW i \in Dispatched' \ Dispatched, (After(k, i))' PROVE FALSE
  <2>1. i \notin jobs[k].before
    BY <1>7, JobFields
  <2>2. i \notin Work(b)
    BY <1>7 DEF Work, By
  <2>3. ~(i < k)
    <3>1. Adds
      BY <1>7, AddsOrNot DEF GoesOn, Dispatched
    <3>2. k < i /\ i \in Nat /\ k \in Nat
      BY <1>7, <3>1, JobFields, Typing DEF Adds, IsNew, Inductive
    <3> QED BY <3>2
  <2> QED BY <1>1, <1>2, <1>3, <1>5, <1>7, <2>1, <2>2, <2>3 DEF After
<1>8. (AfterExternal(k))' <=> AfterExternal(k)
  BY <1>1, <1>2, <1>3, <1>5 DEF AfterExternal
<1> QED BY <1>6, <1>7, <1>8

\* A promise that a counter carries is never taken back.
LEMMA CoverStays ==
  ASSUME Inductive, [Next]_vars, NEW c
  PROVE  /\ \A i \in Dispatched : Behind(i, c) => (Behind(i, c))'
         /\ \A i \in Dispatched : Covered(i, c) => (Covered(i, c))'
         /\ ExternalCovered(c) => (ExternalCovered(c))'
<1>1. ASSUME NEW i \in Dispatched, Behind(i, c) PROVE (Behind(i, c))'
  <2>1. CASE Completed(i)
    BY <2>1, CompletedStays DEF Behind
  <2>2. ASSUME NEW k \in Dispatched, jobs[k].accum = c, After(k, i) PROVE (Behind(i, c))'
    <3>1. (After(k, i))' /\ jobs'[k].accum = c /\ k \in Dispatched'
      BY <2>2, AfterStays, JobsStay
    <3> QED BY <3>1 DEF Behind
  <2> QED BY <1>1, <2>1, <2>2 DEF Behind
<1>2. ASSUME NEW i \in Dispatched, Covered(i, c) PROVE (Covered(i, c))'
  BY <1>1, <1>2, JobsStay DEF Covered
<1>3. ASSUME ExternalCovered(c) PROVE (ExternalCovered(c))'
  <2>1. ASSUME NEW k \in Dispatched, jobs[k].accum = c, AfterExternal(k)
        PROVE  (ExternalCovered(c))'
    <3>1. (AfterExternal(k))' /\ jobs'[k].accum = c /\ k \in Dispatched'
      BY <2>1, AfterStays, JobsStay
    <3> QED BY <3>1 DEF ExternalCovered
  <2> QED BY <1>3, <2>1, JobsStay DEF ExternalCovered
<1> QED BY <1>1, <1>2, <1>3

-----------------------------------------------------------------------------
(* What a counter that is zero says *)

LEMMA PendingFinite ==
  ASSUME Inductive, NEW c
  PROVE  IsFiniteSet(Pending(c)) /\ Pending(c) \subseteq JobIds
<1>1. IsFiniteSet(JobIds)
  BY BoundsAssumption, FS_Interval DEF JobIds
<1>2. Pending(c) \subseteq JobIds
  BY Typing DEF Pending, Inductive
<1> QED BY <1>1, <1>2, FS_Subset

LEMMA ZeroIsDone ==
  ASSUME Inductive, NEW k \in Dispatched, IsZero(jobs[k].accum)
  PROVE  state[k] = "done"
<1>1. PICK c \in CounterIds \ {External} : c = jobs[k].accum
  BY JobFields
<1>2. Cardinality(Pending(c)) = 0
  BY <1>1 DEF Inductive, Conservation, IsZero
<1>3. Pending(c) = {}
  BY <1>2, PendingFinite, FS_EmptySet
<1> QED BY <1>1, <1>3 DEF Pending

LEMMA BehindHolds ==
  ASSUME Inductive, NEW c, IsZero(c), NEW i \in Dispatched, Behind(i, c)
  PROVE  Completed(i)
<1>1. ASSUME NEW k \in Dispatched, jobs[k].accum = c, After(k, i) PROVE Completed(i)
  BY <1>1, ZeroIsDone DEF Inductive, Kept, Started
<1> QED BY <1>1 DEF Behind

\* The work of a continuation builder is done when its parent's counter is zero.
LEMMA ParentsExtended ==
  ASSUME Inductive, NEW j \in Dispatched, state[j] = "done", IsZero(jobs[j].accum)
  PROVE  Completed(j)
<1> SUFFICES ASSUME NEW k \in Dispatched, jobs[k].kind = "user", j \in jobs[k].ancestors
             PROVE  state[k] = "done"
  BY DEF Completed
<1>1. /\ j # 0 /\ j \in BuilderIds /\ BuilderOK(j) /\ EndOK(j)
  BY JobFields, Typing DEF Inductive, BuildersOK
<1>2. ASSUME NEW i \in Work(j) PROVE Completed(i)
  <2>1. i \in By(j) /\ i \in Dispatched
    BY DEF Work, By
  <2>2. builder[j].step = "final"
    BY <1>1, <2>1 DEF BuilderOK
  <2>3. Behind(i, jobs[j].accum)
    BY <1>1, <1>2, <2>2 DEF EndOK
  <2> QED BY <2>1, <2>3, BehindHolds
<1>3. CASE jobs[k].by = j
  BY <1>2, <1>3 DEF Completed, Work, By
<1>4. ASSUME NEW i \in jobs[k].ancestors, jobs[i].by = j PROVE state[k] = "done"
  <2>1. i \in Dispatched /\ jobs[i].kind = "user"
    BY JobFields
  <2>2. Completed(i)
    BY <1>2, <1>4, <2>1 DEF Work, By
  <2> QED BY <2>2 DEF Completed
<1> QED BY <1>3, <1>4, JobFields DEF JobOK

LEMMA CoveredHolds ==
  ASSUME Inductive, NEW c, IsZero(c), NEW i \in Dispatched, Covered(i, c)
  PROVE  Completed(i)
BY BehindHolds, ZeroIsDone, ParentsExtended DEF Covered

LEMMA ExternalHolds ==
  ASSUME Inductive, NEW c, IsZero(c), ExternalCovered(c)
  PROVE  IsZero(External)
BY ZeroIsDone DEF ExternalCovered, Inductive, Kept, Started

-----------------------------------------------------------------------------
(* The jobs, step by step *)

LEMMA Starts ==
  ASSUME Inductive, [Next]_vars, NEW k \in Dispatched, ~Started(k), Started(k)'
  PROVE  IsZero(jobs[k].wait)
<1>1. CASE Adds
  BY <1>1 DEF Adds, IsNew, Started
<1>2. CASE GoesOn
  <2>1. ASSUME NEW j \in JobIds, Start(j) PROVE IsZero(jobs[k].wait)
    BY <2>1, JobFields DEF Start, Started, Inductive, TypeOK
  <2>2. ASSUME NEW j \in JobIds, Finish(j) PROVE FALSE
    BY <2>2, JobFields DEF Finish, Started, Inductive, TypeOK
  <2> QED BY <1>2, <2>1, <2>2 DEF GoesOn, ResolveExternal, Started
<1> QED BY <1>1, <1>2, AddsOrNot

LEMMA KeptStep ==
  ASSUME Inductive, [Next]_vars
  PROVE  Kept'
<1>1. ASSUME NEW k \in Dispatched', Started(k)'
      PROVE  k \in Dispatched
  BY <1>1, AddsOrNot DEF Adds, IsNew, GoesOn, Dispatched, Started
<1>2. ASSUME NEW k \in Dispatched, Started(k)'
      PROVE  /\ \A i \in Dispatched : After(k, i) => Completed(i)
             /\ AfterExternal(k) => IsZero(External)
  <2>1. CASE Started(k)
    BY <2>1 DEF Inductive, Kept
  <2>2. CASE ~Started(k)
    <3>1. IsZero(jobs[k].wait)
      BY <1>2, <2>2, Starts
    <3>2. ASSUME NEW i \in Dispatched, After(k, i) PROVE Completed(i)
      <4>1. Covered(i, jobs[k].wait)
        BY <3>2 DEF Inductive, Promised
      <4> QED BY <3>1, <4>1, CoveredHolds
    <3>3. AfterExternal(k) => IsZero(External)
      BY <3>1, ExternalHolds DEF Inductive, Promised
    <3> QED BY <3>2, <3>3
  <2> QED BY <2>1, <2>2
<1>3. ASSUME NEW k \in Dispatched', Started(k)', NEW i \in Dispatched', (After(k, i))'
      PROVE  (Completed(i))'
  <2>1. k \in Dispatched /\ i \in Dispatched /\ After(k, i)
    BY <1>1, <1>3, AfterStays
  <2> QED BY <1>2, <1>3, <2>1, CompletedStays
<1>4. ASSUME NEW k \in Dispatched', Started(k)', (AfterExternal(k))'
      PROVE  IsZero(External)'
  BY <1>1, <1>2, <1>4, AfterStays, JobsStay
<1> QED BY <1>3, <1>4 DEF Kept

\* What is so of the builder that adds a job.
LEMMA AddingBuilder ==
  ASSUME Inductive, NEW b \in BuilderIds
  PROVE  /\ builder[b].step = "active" => Live(b) /\ GroupOK(b)
         /\ EndOK(b) /\ BuilderOK(b)
BY DEF Inductive, BuildersOK, Live

LEMMA PromisedStep ==
  ASSUME Inductive, [Next]_vars
  PROVE  Promised'
<1>1. ASSUME NEW k \in Dispatched
      PROVE  /\ \A i \in Dispatched' : (After(k, i))' => (Covered(i, jobs[k].wait))'
             /\ (AfterExternal(k))' => \/ jobs'[k].wait = External
                                       \/ (ExternalCovered(jobs[k].wait))'
  <2>1. PICK w : w = jobs[k].wait /\ w = jobs'[k].wait
    BY JobsStay
  <2>2. ASSUME NEW i \in Dispatched', (After(k, i))' PROVE (Covered(i, w))'
    <3>1. i \in Dispatched /\ After(k, i)
      BY <2>2, AfterStays
    <3>2. Covered(i, w)
      BY <2>1, <3>1 DEF Inductive, Promised
    <3> QED BY <3>1, <3>2, CoverStays
  <2>3. (AfterExternal(k))' => w = External \/ (ExternalCovered(w))'
    BY <2>1, AfterStays, CoverStays DEF Inductive, Promised
  <2> QED BY <2>1, <2>2, <2>3
<1>2. ASSUME NEW b \in BuilderIds, NEW kind \in Kinds, NEW w \in Counters \cup {External},
             NEW a \in CounterIds \ {External}, NEW n,
             AddedBy(b, kind, w, a), IsNew(n, b, kind, w, a)
      PROVE  /\ \A i \in Dispatched' : (After(n, i))' => (Covered(i, w))'
             /\ (AfterExternal(n))' => w = External \/ (ExternalCovered(w))'
  <2>1. /\ jobs'[n].wait = w /\ jobs'[n].kind = kind /\ jobs'[n].by = b
        /\ jobs'[n].before = IF kind = "user" THEN builder[b].behind ELSE {}
        /\ jobs'[n].external = (kind = "user" /\ builder[b].external)
    BY <1>2 DEF IsNew
  <2>2. ASSUME NEW i \in Dispatched', i \in builder[b].behind, kind = "user"
        PROVE  (Covered(i, w))'
    <3>1. w = builder[b].wait /\ GroupOK(b)
      BY <1>2, <2>2, AddingBuilder DEF AddedBy
    <3>2. i \in Dispatched /\ Covered(i, w)
      BY <2>2, <3>1 DEF GroupOK, By
    <3> QED BY <3>2, CoverStays
  <2>3. kind = "user" /\ builder[b].external => (ExternalCovered(w))'
    <3>1. kind = "user" => w = builder[b].wait /\ GroupOK(b)
      BY <1>2, AddingBuilder DEF AddedBy
    <3>2. kind = "user" /\ builder[b].external => ExternalCovered(w)
      BY <3>1 DEF GroupOK
    <3> QED BY <3>2, CoverStays
  <2>4. ASSUME kind = "empty", w # External
        PROVE  /\ \A i \in (Work(b))' : (Covered(i, w))'
               /\ builder'[b].external => (ExternalCovered(w))'
    <3>1. /\ b # 0 /\ EndOK(b)
          /\ \/ builder[b].step = "link" /\ w = builder[b].result
             \/ builder[b].step = "wrap" /\ w = jobs[b].accum
      BY <1>2, <2>4, AddingBuilder DEF AddedBy
    <3>2. /\ \A i \in Work(b) : i \in Dispatched /\ Covered(i, w)
          /\ builder[b].external => ExternalCovered(w)
      BY <3>1 DEF EndOK, Covered, Work, By
    <3>3. (Work(b))' = Work(b) /\ builder'[b].external = builder[b].external
      BY <3>1, EndedWorkStays, EndedBuildersStay DEF EndedStay, Ends
    <3> QED BY <3>2, <3>3, CoverStays
  <2>5. ASSUME NEW i \in Dispatched', (After(n, i))' PROVE (Covered(i, w))'
    <3>1. CASE jobs'[i].accum = w
      BY <3>1 DEF Covered
    <3>2. CASE i \in jobs'[n].before
      BY <2>1, <2>2, <3>2
    <3>3. CASE (Closing(n))' /\ i \in (Work(b))'
      BY <2>1, <2>4, <3>3 DEF Closing
    <3> QED BY <2>1, <2>5, <3>1, <3>2, <3>3 DEF After
  <2>6. (AfterExternal(n))' => w = External \/ (ExternalCovered(w))'
    BY <2>1, <2>3, <2>4 DEF AfterExternal, Closing
  <2> QED BY <2>5, <2>6
<1>3. ASSUME NEW k \in Dispatched', k \notin Dispatched
      PROVE  /\ \A i \in Dispatched' : (After(k, i))' => (Covered(i, jobs[k].wait))'
             /\ (AfterExternal(k))' => \/ jobs'[k].wait = External
                                       \/ (ExternalCovered(jobs[k].wait))'
  <2>1. Adds
    BY <1>3, AddsOrNot DEF GoesOn, Dispatched
  <2>2. PICK b \in BuilderIds, kind \in Kinds, w \in Counters \cup {External},
             a \in CounterIds \ {External} :
          AddedBy(b, kind, w, a) /\ \E n : IsNew(n, b, kind, w, a)
    BY <2>1 DEF Adds
  <2>3. IsNew(k, b, kind, w, a) /\ jobs'[k].wait = w
    BY <1>3, <2>2 DEF IsNew
  <2> QED BY <1>2, <2>2, <2>3
<1> QED BY <1>1, <1>3 DEF Promised

LEMMA CreatedGrows ==
  ASSUME Inductive, [Next]_vars
  PROVE  created' \in Nat /\ created <= created' /\ Counters \subseteq Counters'
<1> USE DEF Inductive
<1>1. created' \in CounterIds \/ created' = created => created' \in Nat
  BY CounterTyping, BoundsAssumption DEF CounterIds
<1>2. ASSUME NEW j \in JobIds, CreateBuilder(j) \/ Start(j) \/ Finish(j)
      PROVE  created' = created \/ created' = created + 2
  BY <1>2, CreateBuilderEffect DEF Start, Finish
<1>3. ASSUME NEW b \in BuilderIds,
             \/ DispatchJob(b) \/ DispatchJobNoFence(b)
             \/ DispatchFenceExplicitly(b) \/ Rotate(b) \/ DispatchWait(b)
             \/ \E e \in BOOLEAN : Finalize(b, e)
             \/ FinalSync(b) \/ LinkContinuation(b) \/ WrapContinuation(b)
      PROVE  created' = created \/ created' = created + 1
  BY <1>3, DispatchEffect, FenceEffect, RotateEffect, DispatchWaitEffect, FinalizeEffect,
     FinalSyncEffect, LinkEffect, WrapEffect
<1>4. created' \in {created, created + 1, created + 2}
  BY <1>2, <1>3, NextCases DEF ResolveExternal, vars
<1> QED BY <1>4, CounterTyping DEF Counters

LEMMA JobsOKStep ==
  ASSUME Inductive, [Next]_vars
  PROVE  JobsOK'
<1>1. ASSUME NEW j \in Dispatched
      PROVE  (JobOK(j))'
  <2>1. PICK b \in BuilderIds : b = jobs[j].by
    BY JobFields
  <2>2. jobs'[j] = jobs[j] /\ \A i \in Dispatched : jobs'[i] = jobs[i]
    BY JobsStay
  <2>3. JobOK(j) /\ b < j /\ j \in Nat
    BY <2>1, JobFields DEF JobOK
  <2>4. b = 0 \/ b \in Dispatched
    BY <2>3, Typing DEF Dispatched, Inductive, JobIds, BuilderIds
  <2>5. (Ancestors(b))' = Ancestors(b)
    BY <2>4, AncestorsStay
  <2>6. \A i \in jobs[j].ancestors : i \in Dispatched
    BY JobFields
  <2>7. Counters \subseteq Counters'
    BY CreatedGrows
  <2>8. (Closing(j))' => builder'[b].step \in {"wrap", "final"}
    BY <2>1, <2>2, <2>3, EndedBuildersStay DEF Closing, JobOK, EndedStay, Ends
  <2>9. b # 0 => jobs'[b].kind = "user"
    BY <2>1, <2>2, <2>3, <2>4 DEF JobOK
  <2>10. /\ jobs'[j].accum \in Counters' /\ jobs'[j].wait \in Counters' \cup {External}
         /\ jobs'[j].by = b /\ jobs'[j].ancestors = (Ancestors(b))'
    BY <2>1, <2>2, <2>3, <2>5, <2>7 DEF JobOK
  <2>11. /\ \A i \in jobs'[j].ancestors : i < j /\ jobs'[i].kind = "user"
         /\ \A i \in jobs'[j].ancestors :
              b = i \/ \E k \in jobs'[j].ancestors : jobs'[k].by = i
    <3>1. PICK A : A = jobs[j].ancestors /\ A = jobs'[j].ancestors
      BY <2>2
    <3>2. /\ \A i \in A : i \in Dispatched /\ i < j /\ jobs[i].kind = "user"
          /\ \A i \in A : b = i \/ \E k \in A : jobs[k].by = i
      BY <2>1, <2>3, <2>6, <3>1 DEF JobOK
    <3>3. \A i \in A : jobs'[i].kind = "user" /\ jobs'[i].by = jobs[i].by
      BY <2>2, <3>2
    <3>4. \A i \in A : b = i \/ \E k \in A : jobs'[k].by = i
      BY <3>2, <3>3
    <3> QED BY <3>1, <3>2, <3>3, <3>4
  <2>12. /\ \A i \in jobs'[j].before : i < j
         /\ jobs'[j].kind = "empty" => jobs'[j].before = {} /\ ~jobs'[j].external
         /\ jobs'[j].kind = "user" => jobs'[j].wait # External
    BY <2>2, <2>3 DEF JobOK
  <2> QED BY <2>3, <2>8, <2>9, <2>10, <2>11, <2>12 DEF JobOK
<1>2. ASSUME NEW n \in Dispatched', n \notin Dispatched
      PROVE  (JobOK(n))' /\ state'[n] # "none"
  <2>1. Adds
    BY <1>2, AddsOrNot DEF GoesOn, Dispatched
  <2>2. PICK b \in BuilderIds, kind \in Kinds, w \in Counters \cup {External},
             a \in CounterIds \ {External} :
          AddedBy(b, kind, w, a) /\ \E m : IsNew(m, b, kind, w, a)
    BY <2>1 DEF Adds
  <2>3. IsNew(n, b, kind, w, a)
    BY <1>2, <2>2 DEF IsNew
  <2>4. Counters \subseteq Counters' /\ w \in Counters' \cup {External}
    BY <2>2, CreatedGrows
  <2>5. a \in Counters'
    <3>1. CASE builder[b].step = "wrap"
      <4>1. created' = a /\ created' = created + 1
        BY <2>2, <3>1 DEF AddedBy
      <4> QED BY <4>1, CounterTyping, Typing DEF Counters, Inductive, External, CounterIds
    <3>2. CASE builder[b].step # "wrap"
      BY <2>2, <2>4, <3>2, CallerRuns DEF AddedBy, Live
    <3> QED BY <3>1, <3>2
  <2>6. b # 0 => b \in Dispatched /\ jobs[b].kind = "user"
    BY <2>2 DEF AddedBy
  <2>7. b < n /\ (b # 0 => jobs'[b].kind = "user")
    <3>1. b # 0 => b < n /\ jobs'[b].kind = "user"
      BY <2>3, <2>6 DEF IsNew
    <3>2. 0 < n
      BY <2>3, Typing DEF IsNew, Inductive
    <3> QED BY <3>1, <3>2
  <2>8. (Ancestors(b))' = Ancestors(b) /\ jobs'[n].ancestors = Ancestors(b)
    BY <2>3, <2>6, AncestorsStay DEF IsNew
  <2>9. \A i \in Ancestors(b) : i \in Dispatched /\ jobs[i].kind = "user"
    BY <2>6, JobFields DEF Ancestors
  <2>10. \A i \in Ancestors(b) : i < n /\ jobs'[i].kind = "user" /\ jobs'[i] = jobs[i]
    BY <2>3, <2>9 DEF IsNew
  <2>11. \A i \in Ancestors(b) : b = i \/ \E k \in Ancestors(b) : jobs[k].by = i
    <3>1. ASSUME NEW i \in jobs[b].ancestors, b # 0
          PROVE  \E k \in Ancestors(b) : jobs[k].by = i
      <4>1. jobs[b].by = i \/ \E k \in jobs[b].ancestors : jobs[k].by = i
        BY <2>6, <3>1, JobFields DEF JobOK
      <4> QED BY <3>1, <4>1 DEF Ancestors
    <3> QED BY <3>1 DEF Ancestors
  <2>12. \A i \in jobs'[n].before : i < n
    <3>1. \A i \in builder[b].behind : kind = "user" => i \in Dispatched
      BY <2>2, AddingBuilder DEF AddedBy, GroupOK, By
    <3> QED BY <2>3, <3>1 DEF IsNew
  <2>13. kind = "user" => w # External
    BY <2>2, CallerRuns, CounterTyping DEF AddedBy, Live, Inductive
  <2>14. (Closing(n))' => builder'[b].step \in {"wrap", "final"}
    BY <2>2, <2>3, EndedBuildersStay DEF Closing, IsNew, AddedBy, EndedStay, Ends
  <2>15. /\ jobs'[n].wait = w /\ jobs'[n].accum = a /\ jobs'[n].kind = kind /\ jobs'[n].by = b
         /\ kind = "empty" => jobs'[n].before = {} /\ ~jobs'[n].external
         /\ state'[n] # "none"
    BY <2>3 DEF IsNew
  <2> QED BY <2>4, <2>5, <2>7, <2>8, <2>10, <2>11, <2>12, <2>13, <2>14, <2>15 DEF JobOK
<1>3. ASSUME NEW j \in JobIds PROVE state'[j] = "none" <=> j \notin Dispatched'
  <2>0. TypeOK /\ (state[j] = "none" <=> j \notin Dispatched)
    BY DEF Inductive, JobsOK
  <2>1. CASE Adds
    BY <1>2, <2>0, <2>1, Typing DEF Adds, IsNew
  <2>2. CASE GoesOn
    <3>1. Dispatched' = Dispatched
      BY <2>2 DEF GoesOn, Dispatched
    <3>2. state'[j] = "none" <=> state[j] = "none"
      BY <2>0, <2>2 DEF GoesOn, Start, Finish, ResolveExternal, TypeOK
    <3> QED BY <2>0, <3>1, <3>2
  <2> QED BY <2>1, <2>2, AddsOrNot
<1> QED BY <1>1, <1>2, <1>3 DEF JobsOK

LEMMA ConservationStep ==
  ASSUME Inductive, [Next]_vars
  PROVE  Conservation' /\ value'[External] \in {0, 1}
<1> USE DEF Inductive
<1>1. External \in CounterIds /\ value \in [CounterIds -> Nat] /\ state \in [JobIds -> States]
  BY Typing DEF TypeOK
<1>2. CASE Adds
  <2>1. PICK b \in BuilderIds, kind \in Kinds, w \in Counters \cup {External},
             a \in CounterIds \ {External} :
          AddedBy(b, kind, w, a) /\ \E n : IsNew(n, b, kind, w, a)
    BY <1>2 DEF Adds
  <2>2. PICK n : IsNew(n, b, kind, w, a)
    BY <2>1
  <2>3. ASSUME NEW c \in CounterIds \ {External} PROVE value'[c] = Cardinality((Pending(c))')
    <3>1. (Pending(c))' = IF c = a THEN Pending(c) \cup {n} ELSE Pending(c)
      BY <2>2 DEF Pending, IsNew
    <3>2. n \notin Pending(c) /\ IsFiniteSet(Pending(c))
      BY <2>2, PendingFinite DEF Pending, IsNew
    <3>3. Cardinality(Pending(c) \cup {n}) = Cardinality(Pending(c)) + 1
      BY <3>2, FS_AddElement
    <3>4. value'[c] = IF c = a THEN value[c] + 1 ELSE value[c]
      BY <2>2 DEF IsNew
    <3> QED BY <3>1, <3>3, <3>4 DEF Conservation
  <2>4. value'[External] = value[External]
    BY <1>1, <2>1, <2>2 DEF IsNew
  <2> QED BY <2>3, <2>4 DEF Conservation
<1>3. CASE GoesOn
  <2>1. Dispatched' = Dispatched /\ jobs' = jobs
    BY <1>3 DEF GoesOn, Dispatched
  <2>2. CASE UNCHANGED <<state, value>>
    BY <2>1, <2>2 DEF Conservation, Pending
  <2>3. CASE ResolveExternal
    BY <1>1, <2>1, <2>3 DEF Conservation, Pending, ResolveExternal
  <2>4. ASSUME NEW j \in JobIds, Start(j) PROVE Conservation' /\ value' = value
    <3>1. \A c : (Pending(c))' = Pending(c)
      BY <1>1, <2>1, <2>4 DEF Pending, Start
    <3> QED BY <2>4, <3>1 DEF Conservation, Start
  <2>5. ASSUME NEW j \in JobIds, Finish(j) PROVE Conservation' /\ value'[External] = value[External]
    <3>1. j \in Dispatched /\ state[j] = "running"
      BY <2>5 DEF Finish, JobsOK
    <3>2. PICK a \in CounterIds \ {External} : a = jobs[j].accum
      BY <3>1, JobFields
    <3>3. /\ state' = [state EXCEPT ![j] = "done"]
          /\ value' = [value EXCEPT ![a] = @ - 1]
      BY <2>5, <3>2 DEF Finish
    <3>4. ASSUME NEW c \in CounterIds \ {External} PROVE value'[c] = Cardinality((Pending(c))')
      <4>1. (Pending(c))' = IF c = a THEN Pending(c) \ {j} ELSE Pending(c)
        BY <1>1, <2>1, <3>1, <3>2, <3>3, JobFields DEF Pending
      <4>2. c = a => j \in Pending(c)
        BY <3>1, <3>2 DEF Pending
      <4>3. IsFiniteSet(Pending(c))
        BY PendingFinite
      <4>4. c = a => Cardinality(Pending(c) \ {j}) = Cardinality(Pending(c)) - 1
        BY <4>2, <4>3, FS_RemoveElement
      <4>5. value'[c] = IF c = a THEN value[c] - 1 ELSE value[c]
        BY <1>1, <3>3
      <4> QED BY <4>1, <4>4, <4>5 DEF Conservation
    <3>5. value'[External] = value[External]
      BY <1>1, <3>2, <3>3
    <3> QED BY <3>4, <3>5 DEF Conservation
  <2>6. value'[External] \in {0, 1}
    BY <1>1, <1>3, <2>4, <2>5 DEF GoesOn, ResolveExternal
  <2> QED BY <1>3, <2>2, <2>3, <2>4, <2>5, <2>6 DEF GoesOn
<1> QED BY <1>2, <1>3, AddsOrNot

LEMMA TypeStep ==
  ASSUME Inductive, [Next]_vars
  PROVE  TypeOK'
<1> USE DEF Inductive
<1>1. /\ jobs \in Seq(Job) /\ Len(jobs) <= MaxJobs /\ state \in [JobIds -> States]
      /\ value \in [CounterIds -> Nat] /\ created \in CounterIds
      /\ builder \in [BuilderIds -> BuilderState] /\ fences \in 0 .. MaxFences
  BY DEF TypeOK
<1>2. Counters \subseteq CounterIds /\ External \in CounterIds
  BY CounterTyping, Typing
<1>3. ASSUME NEW b \in BuilderIds, b # 0 => b \in Dispatched, NEW kind \in Kinds,
             NEW w \in CounterIds, NEW a \in CounterIds, RunJob(b, kind, w, a)
      PROVE  /\ jobs' \in Seq(Job) /\ Len(jobs') <= MaxJobs
             /\ state' \in [JobIds -> States] /\ value' \in [CounterIds -> Nat]
  BY <1>3, RunJobEffect
<1>4. ASSUME NEW j \in JobIds, CreateBuilder(j) PROVE TypeOK'
  BY <1>1, <1>4, CreateBuilderEffect DEF TypeOK
<1>5. ASSUME NEW j \in JobIds, Start(j) PROVE TypeOK'
  BY <1>1, <1>5 DEF Start, TypeOK, States
<1>6. ASSUME NEW j \in JobIds, Finish(j) PROVE TypeOK'
  <2>1. j \in Dispatched /\ state[j] = "running"
    BY <1>6 DEF Finish, JobsOK
  <2>2. PICK a \in CounterIds \ {External} : a = jobs[j].accum
    BY <2>1, JobFields
  <2>3. value[a] # 0
    BY <2>1, <2>2, ZeroIsDone DEF IsZero
  <2>4. value' = [value EXCEPT ![a] = @ - 1]
    BY <1>6, <2>2 DEF Finish
  <2>5. value' \in [CounterIds -> Nat]
    BY <1>1, <2>3, <2>4
  <2> QED BY <1>1, <1>6, <2>5 DEF Finish, TypeOK, States
<1>7. ASSUME NEW b \in BuilderIds, DispatchJob(b) \/ DispatchJobNoFence(b) PROVE TypeOK'
  <2>1. /\ CanCall(b) /\ RunJob(b, "user", builder[b].wait, builder[b].accum)
        /\ builder' \in [BuilderIds -> BuilderState] /\ UNCHANGED <<created, fences>>
    BY <1>7, DispatchEffect DEF AsksForJob
  <2>2. /\ b # 0 => b \in Dispatched
        /\ builder[b].wait \in CounterIds /\ builder[b].accum \in CounterIds
    BY <1>2, <2>1, CallerRuns DEF CanCall, Live
  <2> QED BY <1>1, <1>3, <2>1, <2>2 DEF TypeOK, Kinds
<1>8. ASSUME NEW b \in BuilderIds, DispatchFenceExplicitly(b) PROVE TypeOK'
  BY <1>1, <1>8, FenceEffect DEF TypeOK
<1>9. ASSUME NEW b \in BuilderIds, Rotate(b) PROVE TypeOK'
  BY <1>1, <1>9, RotateEffect DEF TypeOK
<1>10. ASSUME NEW b \in BuilderIds, DispatchWait(b) PROVE TypeOK'
  <2>1. /\ CanCall(b) /\ builder' \in [BuilderIds -> BuilderState] /\ UNCHANGED <<created, fences>>
        /\ \/ UNCHANGED <<jobs, state, value>>
           \/ RunJob(b, "empty", External, builder[b].wait)
    BY <1>10, DispatchWaitEffect
  <2>2. (b # 0 => b \in Dispatched) /\ builder[b].wait \in CounterIds
    BY <1>2, <2>1, CallerRuns DEF CanCall, Live
  <2> QED BY <1>1, <1>2, <1>3, <2>1, <2>2 DEF TypeOK, Kinds
<1>11. ASSUME NEW b \in BuilderIds, NEW e \in BOOLEAN, Finalize(b, e) PROVE TypeOK'
  BY <1>1, <1>11, FinalizeEffect DEF TypeOK
<1>12. ASSUME NEW b \in BuilderIds, FinalSync(b) PROVE TypeOK'
  BY <1>1, <1>12, FinalSyncEffect DEF TypeOK
<1>13. ASSUME NEW b \in BuilderIds, LinkContinuation(b) PROVE TypeOK'
  <2>1. /\ builder[b].step = "link" /\ builder' \in [BuilderIds -> BuilderState]
        /\ UNCHANGED <<created, fences>>
        /\ \/ UNCHANGED <<jobs, state, value>>
           \/ RunJob(b, "empty", builder[b].result, builder[b].parent)
    BY <1>13, LinkEffect
  <2>2. b \in Dispatched /\ builder[b].result \in CounterIds /\ builder[b].parent \in CounterIds
    BY <1>2, <2>1, CallerRuns
  <2> QED BY <1>1, <1>3, <2>1, <2>2 DEF TypeOK, Kinds
<1>14. ASSUME NEW b \in BuilderIds, WrapContinuation(b) PROVE TypeOK'
  <2>1. /\ builder[b].step = "wrap" /\ builder' \in [BuilderIds -> BuilderState]
        /\ created' = created + 1 /\ created' \in CounterIds /\ UNCHANGED fences
        /\ \/ UNCHANGED <<jobs, state, value>>
           \/ RunJob(b, "empty", builder[b].parent, created + 1)
    BY <1>14, WrapEffect
  <2>2. b \in Dispatched /\ builder[b].parent \in CounterIds
    BY <1>2, <2>1, CallerRuns
  <2> QED BY <1>1, <1>3, <2>1, <2>2 DEF TypeOK, Kinds
<1>15. CASE ResolveExternal
  BY <1>1, <1>15 DEF ResolveExternal, TypeOK
<1>16. CASE UNCHANGED vars
  BY <1>1, <1>16 DEF vars, TypeOK
<1> QED
  BY <1>4, <1>5, <1>6, <1>7, <1>8, <1>9, <1>10, <1>11, <1>12, <1>13, <1>14, <1>15, <1>16,
     NextCases

-----------------------------------------------------------------------------
(* The builders, step by step *)

Good(b) == BuilderOK(b) /\ (Live(b) => GroupOK(b)) /\ EndOK(b)

\* Nobody finishes the job whose builder is in use.
LEMMA RunningStays ==
  ASSUME Inductive, [Next]_vars, NEW b \in Dispatched, state[b] = "running",
         builder[b].step \notin {"none", "final"}
  PROVE  state'[b] = "running"
<1>1. CASE Adds
  BY <1>1 DEF Adds, IsNew
<1>2. CASE GoesOn
  BY <1>2, JobFields DEF GoesOn, Start, Finish, ResolveExternal, Inductive, TypeOK
<1> QED BY <1>1, <1>2, AddsOrNot

\* A counter nobody got yet is zero.
LEMMA FreshIsZero ==
  ASSUME Inductive, NEW c \in CounterIds, c \notin Counters, c # External
  PROVE  IsZero(c)
<1>1. Pending(c) = {}
  BY JobFields DEF Pending
<1> QED BY <1>1, FS_EmptySet DEF Inductive, Conservation, IsZero

\* Only the builder that has it counts a zero counter up.
LEMMA ZeroStays ==
  ASSUME Inductive, [Next]_vars, NEW c \in Counters, IsZero(c),
         \A b \in BuilderIds : builder[b].step = "active" =>
           c \notin {builder[b].wait, builder[b].accum} \/ (By(b))' = By(b)
  PROVE  IsZero(c)'
<1>0. c \in CounterIds \ {External} /\ value \in [CounterIds -> Nat] /\ c # created + 1
  BY CounterTyping DEF Inductive, TypeOK
<1>1. CASE Adds
  <2>1. PICK b \in BuilderIds, kind \in Kinds, w \in Counters \cup {External},
             a \in CounterIds \ {External} :
          AddedBy(b, kind, w, a) /\ \E n : IsNew(n, b, kind, w, a)
    BY <1>1 DEF Adds
  <2>2. PICK n : IsNew(n, b, kind, w, a)
    BY <2>1
  <2>3. n \in (By(b))' /\ n \notin By(b)
    BY <2>2 DEF By, IsNew
  <2>4. b \in Dispatched /\ state[b] = "running" => jobs[b].accum # c
    BY ZeroIsDone
  <2>5. a # c
    BY <1>0, <2>1, <2>3, <2>4 DEF AddedBy
  <2> QED BY <1>0, <2>2, <2>5 DEF IsNew, IsZero
<1>2. CASE GoesOn
  <2>1. ASSUME NEW j \in JobIds, Finish(j) PROVE IsZero(c)'
    <3>1. j \in Dispatched /\ state[j] = "running"
      BY <2>1 DEF Finish, Inductive, JobsOK
    <3>2. jobs[j].accum # c
      BY <3>1, ZeroIsDone
    <3> QED BY <1>0, <2>1, <3>2 DEF Finish, IsZero
  <2> QED BY <1>0, <1>2, <2>1 DEF GoesOn, Start, ResolveExternal, IsZero
<1> QED BY <1>1, <1>2, AddsOrNot

LEMMA WorkStays ==
  ASSUME Inductive, [Next]_vars, NEW b \in BuilderIds, (By(b))' = By(b)
  PROVE  (Work(b))' = Work(b)
BY JobsStay DEF Work, By

\* A builder that a step is not about.
LEMMA BuilderKept ==
  ASSUME Inductive, [Next]_vars, NEW a \in BuilderIds, builder'[a] = builder[a],
         (By(a))' = By(a)
  PROVE  (Good(a))'
<1>1. BuilderOK(a) /\ (Live(a) => GroupOK(a)) /\ EndOK(a)
  BY DEF Inductive, BuildersOK
<1>2. PICK r : r = builder[a] /\ r = builder'[a]
  OBVIOUS
<1>3. (Work(a))' = Work(a) /\ \A k \in By(a) : k \in Dispatched /\ jobs'[k] = jobs[k]
  BY WorkStays, JobsStay DEF By
<1>4. a \in Dispatched => /\ a \in Dispatched' /\ jobs'[a] = jobs[a]
                          /\ Started(a) => Started(a)'
  BY JobsStay
<1>5. Counters \subseteq Counters'
  BY CreatedGrows
<1>6. (BuilderOK(a))'
  <2>1. a # 0 /\ r.step \notin {"none", "final"} => state'[a] = "running"
    BY <1>1, <1>2, RunningStays DEF BuilderOK
  <2> QED BY <1>1, <1>2, <1>4, <1>5, <2>1 DEF BuilderOK, Live
<1>7. ASSUME Live(a) PROVE (GroupOK(a))'
  <2>1. GroupOK(a) /\ r.accum \in Counters /\ r.wait \in Counters
    BY <1>1, <1>2, <1>7 DEF BuilderOK
  <2>2. ASSUME Work(a) \subseteq r.behind PROVE IsZero(r.accum)'
    <3>1. IsZero(r.accum)
      BY <1>2, <2>1, <2>2 DEF GroupOK
    <3>2. \A b \in BuilderIds : builder[b].step = "active" =>
            r.accum \notin {builder[b].wait, builder[b].accum} \/ (By(b))' = By(b)
      BY <1>2, <1>7 DEF Inductive, BuildersOK, Apart, Live
    <3> QED BY <2>1, <3>1, <3>2, ZeroStays
  <2>3. \A i \in r.behind : (Covered(i, r.wait))'
    BY <1>2, <1>3, <2>1, CoverStays DEF GroupOK
  <2>4. r.external => (ExternalCovered(r.wait))'
    BY <1>2, <2>1, CoverStays DEF GroupOK
  <2>5. /\ r.behind \subseteq By(a)
        /\ \A k \in By(a) \ r.behind :
             IF jobs'[k].kind = "user"
             THEN /\ jobs'[k].wait = r.wait /\ jobs'[k].accum = r.accum
                  /\ jobs'[k].before = r.behind /\ jobs'[k].external = r.external
                  /\ \A i \in By(a) \ r.behind : jobs'[i].kind = "empty" => i < k
             ELSE jobs'[k].accum = r.wait
    BY <1>2, <1>3, <2>1 DEF GroupOK
  <2>6. /\ r.step \in {"active", "sync"} /\ ~r.needsFence => Work(a) \subseteq r.behind
        /\ r.step = "sync" => ~r.needsFence
    BY <1>2, <2>1 DEF GroupOK
  <2> QED BY <1>2, <1>3, <2>2, <2>3, <2>4, <2>5, <2>6 DEF GroupOK
<1>8. (EndOK(a))'
  <2>1. \A i \in Work(a) : i \in Dispatched
    BY DEF Work, By
  <2>2. r.step \in {"link", "final"} =>
          /\ \A i \in Work(a) : (Covered(i, r.result))'
          /\ r.external => (ExternalCovered(r.result))'
    BY <1>1, <1>2, <2>1, CoverStays DEF EndOK
  <2>3. ASSUME a # 0, r.step \in {"wrap", "final"}
        PROVE  /\ \A i \in Work(a) : (Behind(i, jobs[a].accum))'
               /\ r.external => (ExternalCovered(jobs[a].accum))'
    <3>1. a \in Dispatched
      BY <1>1, <1>2, <2>3 DEF BuilderOK
    <3>2. PICK c : c = jobs[a].accum /\ c = jobs'[a].accum
      BY <1>4, <3>1
    <3>3. /\ \A i \in Work(a) : Behind(i, c)
          /\ r.external => ExternalCovered(c)
      BY <1>1, <1>2, <2>3, <3>2 DEF EndOK
    <3>4. /\ \A i \in Work(a) : (Behind(i, c))'
          /\ r.external => (ExternalCovered(c))'
      BY <2>1, <3>3, CoverStays
    <3> QED BY <3>2, <3>4
  <2> QED BY <1>2, <1>3, <2>2, <2>3 DEF EndOK
<1>9. (Live(a))' => Live(a)
  BY <1>2 DEF Live
<1> QED BY <1>6, <1>7, <1>8, <1>9 DEF Good

\* No builder gets a counter another one has.
Fresh(b) ==
  (Live(b))' => \A c \in {builder'[b].wait, builder'[b].accum} :
                  \/ c \notin Counters
                  \/ Live(b) /\ c \in {builder[b].wait, builder[b].accum}

LEMMA OneBuilderMoves ==
  ASSUME Inductive, [Next]_vars, NEW b \in BuilderIds, OthersKeep(b), Fresh(b), (Good(b))',
         \A a \in BuilderIds \ {b} : (By(a))' = By(a)
  PROVE  BuildersOK'
<1>1. \A a \in BuilderIds : (Good(a))'
  BY BuilderKept DEF OthersKeep
<1>2. \A a \in BuilderIds : Live(a) => {builder[a].wait, builder[a].accum} \subseteq Counters
  BY DEF Inductive, BuildersOK, BuilderOK
<1>3. Apart
  BY DEF Inductive, BuildersOK
<1>4. ASSUME NEW a \in BuilderIds \ {b}
      PROVE  /\ builder'[a] = builder[a] /\ (Live(a))' <=> Live(a)
  BY DEF OthersKeep, Live
<1>5. ASSUME NEW a \in BuilderIds \ {b}, Live(a), (Live(b))'
      PROVE  {builder[a].wait, builder[a].accum} \cap {builder'[b].wait, builder'[b].accum} = {}
  BY <1>2, <1>3, <1>5 DEF Fresh, Apart
<1>6. Apart'
  BY <1>3, <1>4, <1>5 DEF Apart
<1> QED BY <1>1, <1>6 DEF BuildersOK, Good

LEMMA NoBuilderMoves ==
  ASSUME Inductive, [Next]_vars, builder' = builder, jobs' = jobs
  PROVE  BuildersOK'
<1>1. \A a \in BuilderIds : (By(a))' = By(a)
  BY DEF By, Dispatched
<1>2. \A a \in BuilderIds : (Good(a))'
  BY <1>1, BuilderKept
<1>3. Apart'
  BY DEF Inductive, BuildersOK, Apart, Live
<1> QED BY <1>2, <1>3 DEF BuildersOK, Good

LEMMA ByAfter ==
  ASSUME NEW b \in BuilderIds, NEW kind, NEW w, NEW a, NEW n, IsNew(n, b, kind, w, a)
  PROVE  /\ (By(b))' = By(b) \cup {n} /\ n \notin By(b)
         /\ \A c \in BuilderIds \ {b} : (By(c))' = By(c)
         /\ (Work(b))' = IF kind = "user" THEN Work(b) \cup {n} ELSE Work(b)
BY DEF IsNew, By, Work

\* What is so of a builder that is called, before and after.
LEMMA Called ==
  ASSUME Inductive, [Next]_vars, NEW b \in BuilderIds, builder[b].step \notin {"none", "final"}
  PROVE  /\ b # 0 => /\ b \in Dispatched' /\ jobs'[b] = jobs[b] /\ jobs[b].kind = "user"
                     /\ state[b] = "running" /\ state'[b] = "running" /\ (Started(b))'
                     /\ builder[b].parent = jobs[b].accum
         /\ b = 0 => builder[b].parent = NoCounter /\ builder[b].step \notin {"link", "wrap"}
         /\ Live(b) => /\ GroupOK(b)
                       /\ builder[b].wait \in Counters' /\ builder[b].accum \in Counters'
                       /\ builder[b].wait \in Counters /\ builder[b].accum \in Counters
                       /\ builder[b].wait # builder[b].accum
         /\ builder[b].step \in {"link", "wrap"} => builder[b].result \in Counters'
         /\ EndOK(b) /\ \A k \in By(b) : k \in Dispatched /\ jobs'[k] = jobs[k]
<1>1. b # 0 => b \in Dispatched /\ state[b] = "running" /\ state'[b] = "running"
  BY CallerRuns, RunningStays
<1>2. Live(b) => GroupOK(b)
  BY DEF Inductive, BuildersOK
<1>3. EndOK(b) /\ \A k \in By(b) : k \in Dispatched /\ jobs'[k] = jobs[k]
  BY JobsStay DEF Inductive, BuildersOK, By
<1> QED BY <1>1, <1>2, <1>3, CallerRuns, CreatedGrows, JobsStay DEF Started

LEMMA CreateBuilderStep ==
  ASSUME Inductive, [Next]_vars, NEW j \in JobIds, CreateBuilder(j)
  PROVE  BuildersOK'
<1>1. /\ OthersKeep(j) /\ j \in Dispatched /\ jobs[j].kind = "user" /\ state[j] = "running"
      /\ builder[j].step = "none"
      /\ builder'[j].step = "active" /\ builder'[j].parent = jobs[j].accum
      /\ builder'[j].wait = created + 1 /\ builder'[j].accum = created + 2
      /\ ~builder'[j].needsFence /\ ~builder'[j].external /\ builder'[j].behind = {}
      /\ created' = created + 2 /\ created' \in CounterIds
      /\ UNCHANGED <<jobs, state, value>>
  BY CreateBuilderEffect DEF Inductive
<1>2. j \in BuilderIds /\ j # 0 /\ BuilderOK(j)
  BY Typing DEF Inductive, BuildersOK
<1>3. created \in Nat /\ created >= 2
  BY <1>1, CounterTyping, JobFields DEF Inductive, Counters
<1>4. \A b \in BuilderIds : (By(b))' = By(b)
  BY <1>1 DEF By, Dispatched
<1>5. By(j) = {} /\ (By(j))' = {} /\ (Work(j))' = {}
  BY <1>1, <1>2, <1>4 DEF BuilderOK, Work
<1>6. created + 2 \notin Counters /\ created + 1 \notin Counters /\ created + 2 # External
      /\ {created + 1, created + 2} \subseteq Counters' /\ created + 1 # created + 2
  BY <1>1, <1>3 DEF Counters, External
<1>7. IsZero(created + 2)
  BY <1>1, <1>6, FreshIsZero
<1>8. IsZero(builder[j].accum)'
  BY <1>1, <1>7 DEF IsZero
<1>9. (BuilderOK(j))'
  BY <1>1, <1>2, <1>6 DEF BuilderOK, Live, Dispatched, Started
<1>10. (GroupOK(j))'
  BY <1>1, <1>5, <1>8 DEF GroupOK
<1>11. (EndOK(j))'
  BY <1>1 DEF EndOK
<1>12. Fresh(j)
  BY <1>1, <1>6 DEF Fresh
<1> QED BY <1>1, <1>2, <1>4, <1>9, <1>10, <1>11, <1>12, OneBuilderMoves DEF Good

LEMMA DispatchStep ==
  ASSUME Inductive, [Next]_vars, NEW b \in BuilderIds, DispatchJob(b) \/ DispatchJobNoFence(b)
  PROVE  BuildersOK'
<1>1. /\ OthersKeep(b) /\ CanCall(b) /\ AsksForJob(b)
  BY DispatchEffect DEF Inductive
<1>2. PICK w, a, B, x : w = builder[b].wait /\ a = builder[b].accum /\ B = builder[b].behind
                        /\ x = builder[b].external
  OBVIOUS
<1>3. /\ builder[b].step = "active" /\ Live(b)
      /\ builder'[b].wait = w /\ builder'[b].accum = a /\ builder'[b].behind = B
      /\ builder'[b].external = x /\ builder'[b].parent = builder[b].parent
      /\ \/ builder'[b].step = "rotate"
         \/ builder'[b].step = "active" /\ builder'[b].needsFence
      /\ RunJob(b, "user", w, a)
  BY <1>1, <1>2 DEF CanCall, Live, AsksForJob
<1>4. /\ b # 0 => /\ b \in Dispatched /\ b \in Dispatched' /\ jobs'[b] = jobs[b]
                  /\ jobs[b].kind = "user"
                  /\ state'[b] = "running" /\ (Started(b))' /\ builder[b].parent = jobs[b].accum
      /\ b = 0 => builder[b].parent = NoCounter
      /\ w \in Counters' /\ a \in Counters' /\ w \in Counters /\ a \in Counters /\ w # a
      /\ GroupOK(b) /\ \A k \in By(b) : k \in Dispatched /\ jobs'[k] = jobs[k]
  BY <1>2, <1>3, Called, CallerRuns
<1>5. PICK n : IsNew(n, b, "user", w, a)
  BY <1>3, <1>4, RunJobEffect, CounterTyping DEF Inductive, Kinds
<1>6. /\ (By(b))' = By(b) \cup {n} /\ n \notin By(b)
      /\ \A c \in BuilderIds \ {b} : (By(c))' = By(c)
      /\ (Work(b))' = Work(b) \cup {n}
  BY <1>5, ByAfter
<1>7. /\ jobs'[n].kind = "user" /\ jobs'[n].wait = w /\ jobs'[n].accum = a
      /\ jobs'[n].before = B /\ jobs'[n].external = x
      /\ \A k \in By(b) : k < n
  <2>1. x \in BOOLEAN
    BY <1>2, Typing DEF Inductive
  <2> QED BY <1>2, <1>4, <1>5, <2>1 DEF IsNew
<1>8. B \subseteq By(b)
  BY <1>2, <1>4 DEF GroupOK
<1>9. \A i \in B : (Covered(i, w))'
  BY <1>2, <1>4, <1>8, CoverStays DEF GroupOK
<1>10. x => (ExternalCovered(w))'
  BY <1>2, <1>4, CoverStays DEF GroupOK
<1>11. \A k \in By(b) \ B :
         IF jobs'[k].kind = "user"
         THEN /\ jobs'[k].wait = w /\ jobs'[k].accum = a
              /\ jobs'[k].before = B /\ jobs'[k].external = x
              /\ \A i \in By(b) \ B : jobs'[i].kind = "empty" => i < k
         ELSE jobs'[k].accum = w
  BY <1>2, <1>4 DEF GroupOK
<1>12. \A k \in (By(b))' \ B :
         IF jobs'[k].kind = "user"
         THEN /\ jobs'[k].wait = w /\ jobs'[k].accum = a
              /\ jobs'[k].before = B /\ jobs'[k].external = x
              /\ \A i \in (By(b))' \ B : jobs'[i].kind = "empty" => i < k
         ELSE jobs'[k].accum = w
  BY <1>6, <1>7, <1>11
<1>13. (GroupOK(b))'
  BY <1>3, <1>6, <1>8, <1>9, <1>10, <1>12 DEF GroupOK
<1>14. (BuilderOK(b))'
  BY <1>3, <1>4 DEF BuilderOK
<1>15. (EndOK(b))' /\ Fresh(b)
  BY <1>2, <1>3 DEF EndOK, Fresh
<1> QED BY <1>1, <1>6, <1>13, <1>14, <1>15, OneBuilderMoves DEF Good

\* The calls that keep the group and its counters and add no job.
LEMMA SameGroupStep ==
  ASSUME Inductive, [Next]_vars, NEW b \in BuilderIds, OthersKeep(b), UNCHANGED <<jobs, state, value>>,
         Live(b), (Live(b))',
         builder'[b].wait = builder[b].wait, builder'[b].accum = builder[b].accum,
         builder'[b].parent = builder[b].parent, builder'[b].behind = builder[b].behind,
         \/ builder'[b].external = builder[b].external
         \/ IsZero(External) /\ Work(b) \subseteq builder[b].behind,
         builder'[b].step \in {"active", "sync"} =>
           Work(b) \subseteq builder[b].behind /\ ~builder'[b].needsFence
  PROVE  BuildersOK'
<1>1. PICK w, a, B : w = builder[b].wait /\ a = builder[b].accum /\ B = builder[b].behind
  OBVIOUS
<1>2. /\ b # 0 => /\ b \in Dispatched' /\ jobs'[b] = jobs[b] /\ jobs[b].kind = "user"
                  /\ state'[b] = "running" /\ (Started(b))' /\ builder[b].parent = jobs[b].accum
      /\ b = 0 => builder[b].parent = NoCounter
      /\ w \in Counters' /\ a \in Counters' /\ w # a
      /\ GroupOK(b) /\ \A k \in By(b) : k \in Dispatched /\ jobs'[k] = jobs[k]
  BY <1>1, Called DEF Live
<1>3. (\A c \in BuilderIds : (By(c))' = By(c)) /\ (Work(b))' = Work(b)
  BY DEF By, Work, Dispatched
<1>4. \A i \in B : (Covered(i, w))'
  BY <1>1, <1>2, CoverStays DEF GroupOK
<1>5. builder'[b].external => (ExternalCovered(w))'
  BY <1>1, <1>2, CoverStays DEF GroupOK, ExternalCovered
<1>6. Work(b) \subseteq B => IsZero(a)'
  BY <1>1, <1>2 DEF GroupOK, IsZero
<1>7. \A k \in By(b) \ B :
         IF jobs'[k].kind = "user"
         THEN /\ jobs'[k].wait = w /\ jobs'[k].accum = a
              /\ jobs'[k].before = B /\ jobs'[k].external = builder'[b].external
              /\ \A i \in By(b) \ B : jobs'[i].kind = "empty" => i < k
         ELSE jobs'[k].accum = w
  BY <1>1, <1>2 DEF GroupOK, Work
<1>8. (GroupOK(b))'
  BY <1>1, <1>2, <1>3, <1>4, <1>5, <1>6, <1>7 DEF GroupOK
<1>9. (BuilderOK(b))'
  BY <1>1, <1>2 DEF BuilderOK, Live
<1>10. (EndOK(b))' /\ Fresh(b)
  BY DEF EndOK, Live, Fresh
<1> QED BY <1>3, <1>8, <1>9, <1>10, OneBuilderMoves DEF Good

LEMMA FenceStep ==
  ASSUME Inductive, [Next]_vars, NEW b \in BuilderIds, DispatchFenceExplicitly(b)
  PROVE  BuildersOK'
<1>1. /\ OthersKeep(b) /\ CanCall(b) /\ builder'[b].step = "rotate"
      /\ builder'[b].wait = builder[b].wait /\ builder'[b].accum = builder[b].accum
      /\ builder'[b].parent = builder[b].parent /\ builder'[b].behind = builder[b].behind
      /\ builder'[b].external = builder[b].external
      /\ UNCHANGED <<jobs, state, value>>
  BY FenceEffect DEF Inductive
<1>2. Live(b) /\ (Live(b))'
  BY <1>1 DEF CanCall, Live
<1> QED BY <1>1, <1>2, SameGroupStep

LEMMA FinalizeStep ==
  ASSUME Inductive, [Next]_vars, NEW b \in BuilderIds, NEW e \in BOOLEAN, Finalize(b, e)
  PROVE  BuildersOK'
<1>1. /\ OthersKeep(b) /\ CanCall(b) /\ ~builder[b].needsFence /\ builder'[b].step = "sync"
      /\ ~builder'[b].needsFence /\ builder'[b].external = builder[b].external
      /\ builder'[b].wait = builder[b].wait /\ builder'[b].accum = builder[b].accum
      /\ builder'[b].parent = builder[b].parent /\ builder'[b].behind = builder[b].behind
      /\ UNCHANGED <<jobs, state, value>>
  BY FinalizeEffect DEF Inductive
<1>2. builder[b].step = "active" /\ Live(b) /\ (Live(b))'
  BY <1>1 DEF CanCall, Live
<1>3. Work(b) \subseteq builder[b].behind
  BY <1>1, <1>2, AddingBuilder DEF GroupOK
<1> QED BY <1>1, <1>2, <1>3, SameGroupStep

\* After a fence every job of the builder stands behind its wait counter.
LEMMA RotateCovers ==
  ASSUME Inductive, NEW b \in BuilderIds, Live(b), NEW i \in By(b)
  PROVE  /\ IsZero(builder[b].accum) => Covered(i, builder[b].wait)
         /\ ~IsZero(builder[b].accum) =>
              /\ Covered(i, builder[b].accum)
              /\ builder[b].external => ExternalCovered(builder[b].accum)
<1>1. PICK w, a, B : w = builder[b].wait /\ a = builder[b].accum /\ B = builder[b].behind
  OBVIOUS
<1>2. GroupOK(b) /\ i \in Dispatched
  BY DEF Inductive, BuildersOK, By
<1>3. jobs[i].kind \in {"user", "empty"}
  BY <1>2, JobFields
<1>4. CASE IsZero(a)
  <2>1. CASE i \in B
    BY <1>1, <1>2, <2>1, <1>4 DEF GroupOK
  <2>2. CASE i \notin B /\ jobs[i].kind = "user"
    <3>1. jobs[i].accum = a
      BY <1>1, <1>2, <2>2 DEF GroupOK
    <3>2. Completed(i)
      BY <1>2, <1>4, <3>1, ZeroIsDone, ParentsExtended
    <3> QED BY <1>1, <1>4, <3>2 DEF Covered, Behind
  <2>3. CASE i \notin B /\ jobs[i].kind = "empty"
    <3>1. jobs[i].accum = w
      BY <1>1, <1>2, <2>3 DEF GroupOK
    <3> QED BY <1>1, <1>4, <3>1 DEF Covered
  <2> QED BY <1>3, <2>1, <2>2, <2>3
<1>5. CASE ~IsZero(a)
  <2>1. PICK k \in Work(b) : k \notin B
    BY <1>1, <1>2, <1>5 DEF GroupOK
  <2>2. k \in By(b) \ B /\ jobs[k].kind = "user" /\ k \in Dispatched
    BY <2>1 DEF Work, By
  <2>3. /\ jobs[k].wait = w /\ jobs[k].accum = a /\ jobs[k].before = B
        /\ jobs[k].external = builder[b].external
        /\ \A e \in By(b) \ B : jobs[e].kind = "empty" => e < k
    BY <1>1, <1>2, <2>2 DEF GroupOK
  <2>4. Covered(i, a)
    <3>1. CASE i \in B
      BY <2>2, <2>3, <3>1 DEF Covered, Behind, After
    <3>2. CASE i \notin B /\ jobs[i].kind = "user"
      BY <1>1, <1>2, <3>2 DEF GroupOK, Covered
    <3>3. CASE i \notin B /\ jobs[i].kind = "empty"
      <4>1. jobs[i].accum = w /\ i < k
        BY <1>1, <1>2, <2>3, <3>3 DEF GroupOK
      <4> QED BY <2>2, <2>3, <3>3, <4>1 DEF Covered, Behind, After
    <3> QED BY <1>3, <3>1, <3>2, <3>3
  <2>5. builder[b].external => ExternalCovered(a)
    BY <2>2, <2>3 DEF ExternalCovered, AfterExternal
  <2> QED BY <1>1, <1>5, <2>4, <2>5
<1> QED BY <1>1, <1>4, <1>5

LEMMA RotateStep ==
  ASSUME Inductive, [Next]_vars, NEW b \in BuilderIds, Rotate(b)
  PROVE  BuildersOK'
<1>1. /\ OthersKeep(b) /\ builder[b].step = "rotate" /\ builder'[b].step = "active"
      /\ ~builder'[b].needsFence /\ builder'[b].behind = By(b)
      /\ builder'[b].parent = builder[b].parent
      /\ builder'[b].external = builder[b].external
      /\ \/ /\ IsZero(builder[b].accum) /\ created' = created
            /\ builder'[b].wait = builder[b].wait /\ builder'[b].accum = builder[b].accum
         \/ /\ ~IsZero(builder[b].accum) /\ created' = created + 1 /\ created' \in CounterIds
            /\ builder'[b].wait = builder[b].accum /\ builder'[b].accum = created + 1
      /\ UNCHANGED <<jobs, state, value>>
  BY RotateEffect DEF Inductive
<1>2. PICK w : w = builder'[b].wait
  OBVIOUS
<1>3. Live(b)
  BY <1>1 DEF Live
<1>4. /\ b # 0 => /\ b \in Dispatched' /\ jobs'[b] = jobs[b] /\ jobs[b].kind = "user"
                  /\ state'[b] = "running" /\ (Started(b))' /\ builder[b].parent = jobs[b].accum
      /\ b = 0 => builder[b].parent = NoCounter
      /\ builder[b].wait \in Counters' /\ builder[b].accum \in Counters'
      /\ builder[b].wait \in Counters /\ builder[b].accum \in Counters
      /\ builder[b].wait # builder[b].accum /\ GroupOK(b)
      /\ \A k \in By(b) : k \in Dispatched /\ jobs'[k] = jobs[k]
  BY <1>1, <1>3, Called
<1>5. (\A c \in BuilderIds : (By(c))' = By(c)) /\ (Work(b))' = Work(b)
  BY <1>1 DEF By, Work, Dispatched
<1>6. \A i \in By(b) : Covered(i, w)
  BY <1>1, <1>2, <1>3, RotateCovers
<1>7. builder[b].external => ExternalCovered(w)
  <2>1. CASE IsZero(builder[b].accum)
    BY <1>1, <1>2, <1>4, <2>1 DEF GroupOK
  <2>2. ASSUME ~IsZero(builder[b].accum), builder[b].external PROVE ExternalCovered(w)
    <3>1. PICK k \in Work(b) : k \notin builder[b].behind
      BY <1>4, <2>2 DEF GroupOK
    <3>2. k \in By(b)
      BY <3>1 DEF Work
    <3> QED BY <1>1, <1>2, <1>3, <2>2, <3>2, RotateCovers
  <2> QED BY <2>1, <2>2
<1>8. (\A i \in By(b) : (Covered(i, w))') /\ (builder[b].external => (ExternalCovered(w))')
  BY <1>4, <1>6, <1>7, CoverStays
<1>9. created + 1 \notin Counters /\ created + 1 # External /\ created' \in Nat
      /\ (created' = created + 1 => created + 1 \in Counters')
      /\ (created + 1 \in CounterIds => IsZero(created + 1))
  <2>1. created + 1 \notin Counters /\ created + 1 # External /\ created \in Nat /\ created >= 2
    BY <1>4, CounterTyping DEF Inductive, Counters, External
  <2> QED BY <2>1, FreshIsZero, CreatedGrows DEF Counters
<1>10. IsZero(builder[b].accum)'
  BY <1>1, <1>9 DEF IsZero
<1>11. (GroupOK(b))'
  BY <1>1, <1>2, <1>5, <1>8, <1>10 DEF GroupOK, Work
<1>12. (BuilderOK(b))'
  BY <1>1, <1>4, <1>9 DEF BuilderOK, Live
<1>13. (EndOK(b))'
  BY <1>1 DEF EndOK
<1>14. Fresh(b)
  BY <1>1, <1>3, <1>9 DEF Fresh
<1> QED BY <1>1, <1>5, <1>11, <1>12, <1>13, <1>14, OneBuilderMoves DEF Good

LEMMA DispatchWaitStep ==
  ASSUME Inductive, [Next]_vars, NEW b \in BuilderIds, DispatchWait(b)
  PROVE  BuildersOK'
<1>1. /\ OthersKeep(b) /\ CanCall(b) /\ ~builder[b].needsFence /\ builder'[b].step = "active"
      /\ ~builder'[b].needsFence /\ builder'[b].external
      /\ builder'[b].wait = builder[b].wait /\ builder'[b].accum = builder[b].accum
      /\ builder'[b].parent = builder[b].parent /\ builder'[b].behind = builder[b].behind
      /\ \/ IsZero(External) /\ UNCHANGED <<jobs, state, value>>
         \/ RunJob(b, "empty", External, builder[b].wait)
  BY DispatchWaitEffect DEF Inductive
<1>2. builder[b].step = "active" /\ Live(b) /\ (Live(b))'
  BY <1>1 DEF CanCall, Live
<1>3. GroupOK(b) /\ Work(b) \subseteq builder[b].behind
  BY <1>1, <1>2, AddingBuilder DEF GroupOK
<1>4. CASE IsZero(External) /\ UNCHANGED <<jobs, state, value>>
  BY <1>1, <1>2, <1>3, <1>4, SameGroupStep
<1>5. CASE RunJob(b, "empty", External, builder[b].wait)
  <2>1. PICK w, a, B : w = builder[b].wait /\ a = builder[b].accum /\ B = builder[b].behind
    OBVIOUS
  <2>2. /\ b # 0 => /\ b \in Dispatched /\ b \in Dispatched' /\ jobs'[b] = jobs[b]
                    /\ jobs[b].kind = "user"
                    /\ state'[b] = "running" /\ (Started(b))' /\ builder[b].parent = jobs[b].accum
        /\ b = 0 => builder[b].parent = NoCounter
        /\ w \in Counters' /\ a \in Counters' /\ w \in Counters /\ a \in Counters /\ w # a
        /\ \A k \in By(b) : k \in Dispatched /\ jobs'[k] = jobs[k]
    BY <1>2, <2>1, Called, CallerRuns
  <2>3. PICK n : IsNew(n, b, "empty", External, w)
    BY <1>5, <2>1, <2>2, RunJobEffect, CounterTyping, Typing DEF Inductive, Kinds
  <2>4. /\ (By(b))' = By(b) \cup {n} /\ n \notin By(b)
        /\ \A c \in BuilderIds \ {b} : (By(c))' = By(c)
        /\ (Work(b))' = Work(b)
    BY <2>3, ByAfter
  <2>5. /\ jobs'[n].kind = "empty" /\ jobs'[n].wait = External /\ jobs'[n].accum = w
        /\ n \in Dispatched'
    BY <2>3 DEF IsNew
  <2>6. B \subseteq By(b) /\ \A i \in B : (Covered(i, w))'
    BY <1>3, <2>1, <2>2, CoverStays DEF GroupOK
  <2>7. (ExternalCovered(w))'
    BY <2>5 DEF ExternalCovered, AfterExternal
  <2>8. IsZero(a)'
    <3>1. IsZero(a) /\ a \in CounterIds
      BY <1>3, <2>1, <2>2, CounterTyping DEF GroupOK, Inductive
    <3> QED BY <2>2, <2>3, <3>1 DEF IsNew, IsZero
  <2>9. \A k \in (By(b))' \ B : jobs'[k].kind # "user" /\ jobs'[k].accum = w
    <3>1. \A k \in By(b) \ B : jobs[k].kind # "user" /\ jobs[k].accum = w
      BY <1>3, <2>1 DEF GroupOK, Work
    <3> QED BY <2>2, <2>4, <2>5, <3>1
  <2>10. (GroupOK(b))'
    BY <1>1, <1>3, <2>1, <2>4, <2>6, <2>7, <2>8, <2>9 DEF GroupOK
  <2>11. (BuilderOK(b))'
    BY <1>1, <2>1, <2>2 DEF BuilderOK
  <2>12. (EndOK(b))' /\ Fresh(b)
    BY <1>1, <1>2 DEF EndOK, Fresh
  <2> QED BY <1>1, <2>4, <2>10, <2>11, <2>12, OneBuilderMoves DEF Good
<1> QED BY <1>1, <1>4, <1>5

LEMMA FinalSyncStep ==
  ASSUME Inductive, [Next]_vars, NEW b \in BuilderIds, FinalSync(b)
  PROVE  BuildersOK'
<1>1. /\ OthersKeep(b) /\ builder[b].step = "sync"
      /\ builder'[b].external = builder[b].external
      /\ builder'[b].result = IF IsZero(builder[b].accum) THEN builder[b].wait ELSE builder[b].accum
      /\ \/ /\ builder[b].parent = NoCounter /\ builder'[b].step = "final"
            /\ builder'[b].parent = NoCounter
         \/ /\ builder[b].parent # NoCounter /\ builder'[b].step = "link"
            /\ builder'[b].parent = builder[b].parent
      /\ UNCHANGED <<jobs, state, value>>
  BY FinalSyncEffect DEF Inductive
<1>2. Live(b) /\ ~(Live(b))'
  BY <1>1 DEF Live
<1>3. PICK w : w = builder[b].wait
  OBVIOUS
<1>4. /\ b # 0 => /\ b \in Dispatched' /\ jobs'[b] = jobs[b] /\ jobs[b].kind = "user"
                  /\ state'[b] = "running" /\ (Started(b))' /\ builder[b].parent = jobs[b].accum
                  /\ builder[b].parent # NoCounter
      /\ b = 0 => builder[b].parent = NoCounter
      /\ w \in Counters' /\ GroupOK(b)
      /\ \A k \in By(b) : k \in Dispatched /\ jobs'[k] = jobs[k]
  <2>1. b # 0 => b \in Dispatched /\ jobs[b].accum # NoCounter
    BY <1>1, CallerRuns, CounterTyping DEF Inductive
  <2> QED BY <1>1, <1>2, <1>3, <2>1, Called
<1>5. (\A c \in BuilderIds : (By(c))' = By(c)) /\ (Work(b))' = Work(b) /\ Work(b) \subseteq By(b)
  BY <1>1 DEF By, Work, Dispatched
<1>6. Work(b) \subseteq builder[b].behind /\ IsZero(builder[b].accum)
  BY <1>1, <1>4 DEF GroupOK
<1>7. builder'[b].result = w
  BY <1>1, <1>3, <1>6
<1>8. /\ \A i \in Work(b) : (Covered(i, w))'
      /\ builder[b].external => (ExternalCovered(w))'
  BY <1>3, <1>4, <1>5, <1>6, CoverStays DEF GroupOK
<1>9. (EndOK(b))'
  BY <1>1, <1>4, <1>5, <1>7, <1>8 DEF EndOK
<1>10. (BuilderOK(b))'
  <2>1. CASE b = 0
    <3>1. builder'[b].step = "final" /\ builder'[b].parent = NoCounter
      BY <1>1, <1>4, <2>1
    <3> QED BY <1>2, <1>4, <1>7, <2>1, <3>1 DEF BuilderOK
  <2>2. CASE b # 0
    <3>1. builder'[b].step = "link" /\ builder'[b].parent = jobs'[b].accum
      BY <1>1, <1>4, <2>2
    <3> QED BY <1>2, <1>4, <1>7, <2>2, <3>1 DEF BuilderOK
  <2> QED BY <2>1, <2>2
<1>11. Fresh(b)
  BY <1>2 DEF Fresh
<1> QED BY <1>1, <1>2, <1>5, <1>9, <1>10, <1>11, OneBuilderMoves DEF Good

LEMMA LinkStep ==
  ASSUME Inductive, [Next]_vars, NEW b \in BuilderIds, LinkContinuation(b)
  PROVE  BuildersOK'
<1>1. /\ OthersKeep(b) /\ builder[b].step = "link"
      /\ builder'[b].external = builder[b].external
      /\ builder'[b].result = builder[b].result
      /\ \/ builder'[b].step = "wrap" /\ builder'[b].parent = builder[b].parent
         \/ builder'[b].step = "final"
      /\ \/ IsZero(builder[b].result) /\ UNCHANGED <<jobs, state, value>>
         \/ RunJob(b, "empty", builder[b].result, builder[b].parent)
  BY LinkEffect DEF Inductive
<1>2. PICK r, p : r = builder[b].result /\ p = jobs[b].accum
  OBVIOUS
<1>3. /\ b # 0 /\ b \in Dispatched /\ b \in Dispatched' /\ jobs'[b] = jobs[b]
      /\ jobs[b].kind = "user" /\ state'[b] = "running" /\ (Started(b))'
      /\ builder[b].parent = p /\ r \in Counters /\ r \in Counters' /\ p \in Counters
      /\ EndOK(b) /\ \A k \in Work(b) : k \in Dispatched
  BY <1>1, <1>2, Called, CallerRuns DEF Work, By
<1>4. ~(Live(b))'
  BY <1>1 DEF Live
<1>5. /\ \A i \in Work(b) : Covered(i, r)
      /\ builder[b].external => ExternalCovered(r)
  BY <1>1, <1>2, <1>3 DEF EndOK
<1>6. (Work(b))' = Work(b)
  BY <1>1, EndedWorkStays
<1>7. \A a \in BuilderIds \ {b} : (By(a))' = By(a)
  <2>1. CASE UNCHANGED <<jobs, state, value>>
    BY <2>1 DEF By, Dispatched
  <2>2. CASE RunJob(b, "empty", r, p)
    <3>1. \E n : IsNew(n, b, "empty", r, p)
      BY <1>3, <2>2, RunJobEffect, CounterTyping DEF Inductive, Kinds
    <3> QED BY <3>1, ByAfter
  <2> QED BY <1>1, <1>2, <1>3, <2>1, <2>2
<1>8. /\ \A i \in Work(b) : (Behind(i, p))'
      /\ builder[b].external => (ExternalCovered(p))'
  <2>1. CASE IsZero(r) /\ UNCHANGED <<jobs, state, value>>
    <3>1. \A i \in Work(b) : Completed(i)
      BY <1>3, <1>5, <2>1, CoveredHolds
    <3>2. builder[b].external => IsZero(External)
      BY <1>5, <2>1, ExternalHolds
    <3> QED BY <1>3, <3>1, <3>2, CompletedStays, JobsStay DEF Behind, ExternalCovered
  <2>2. CASE RunJob(b, "empty", r, p)
    <3>1. PICK n : IsNew(n, b, "empty", r, p)
      BY <1>3, <2>2, RunJobEffect, CounterTyping DEF Inductive, Kinds
    <3>2. /\ n \in Dispatched' /\ jobs'[n].accum = p /\ jobs'[n].by = b /\ (Closing(n))'
      BY <1>3, <3>1, CounterTyping DEF IsNew, Closing, Inductive
    <3>3. \A i \in Work(b) : (After(n, i))'
      BY <1>6, <3>2 DEF After
    <3>4. builder[b].external => (AfterExternal(n))'
      BY <1>1, <3>2 DEF AfterExternal
    <3> QED BY <3>2, <3>3, <3>4 DEF Behind, ExternalCovered
  <2> QED BY <1>1, <1>2, <1>3, <2>1, <2>2
<1>9. /\ \A i \in Work(b) : (Covered(i, r))'
      /\ builder[b].external => (ExternalCovered(r))'
  BY <1>3, <1>5, CoverStays
<1>10. (EndOK(b))'
  BY <1>1, <1>2, <1>3, <1>6, <1>8, <1>9 DEF EndOK
<1>11. (BuilderOK(b))'
  BY <1>1, <1>2, <1>3, <1>4 DEF BuilderOK
<1>12. Fresh(b)
  BY <1>4 DEF Fresh
<1> QED BY <1>1, <1>4, <1>7, <1>10, <1>11, <1>12, OneBuilderMoves DEF Good

LEMMA WrapStep ==
  ASSUME Inductive, [Next]_vars, NEW b \in BuilderIds, WrapContinuation(b)
  PROVE  BuildersOK'
<1>1. /\ OthersKeep(b) /\ builder[b].step = "wrap" /\ builder'[b].step = "final"
      /\ builder'[b].external = builder[b].external
      /\ builder'[b].result = created + 1
      /\ created' = created + 1 /\ created' \in CounterIds
      /\ \/ IsZero(builder[b].parent) /\ UNCHANGED <<jobs, state, value>>
         \/ RunJob(b, "empty", builder[b].parent, created + 1)
  BY WrapEffect DEF Inductive
<1>2. PICK r, p : r = created + 1 /\ p = jobs[b].accum
  OBVIOUS
<1>3. /\ b # 0 /\ b \in Dispatched /\ b \in Dispatched' /\ jobs'[b] = jobs[b]
      /\ jobs[b].kind = "user" /\ state[b] = "running" /\ (Started(b))'
      /\ builder[b].parent = p /\ p \in Counters
      /\ EndOK(b) /\ \A k \in Work(b) : k \in Dispatched
  BY <1>1, <1>2, Called, CallerRuns DEF Work, By
<1>4. RunJob(b, "empty", p, r)
  BY <1>1, <1>2, <1>3, ZeroIsDone
<1>5. PICK n : IsNew(n, b, "empty", p, r)
  BY <1>1, <1>2, <1>3, <1>4, RunJobEffect, CounterTyping DEF Inductive, Kinds
<1>6. (Work(b))' = Work(b) /\ \A a \in BuilderIds \ {b} : (By(a))' = By(a)
  BY <1>5, ByAfter
<1>7. /\ n \in Dispatched' /\ jobs'[n].accum = r /\ jobs'[n].by = b /\ (Closing(n))'
  BY <1>3, <1>5, CounterTyping DEF IsNew, Closing, Inductive
<1>8. /\ \A i \in Work(b) : (Covered(i, r))'
      /\ builder[b].external => (ExternalCovered(r))'
  <2>1. \A i \in Work(b) : (After(n, i))'
    BY <1>6, <1>7 DEF After
  <2>2. builder[b].external => (AfterExternal(n))'
    BY <1>1, <1>7 DEF AfterExternal
  <2> QED BY <1>7, <2>1, <2>2 DEF Covered, Behind, ExternalCovered
<1>9. /\ \A i \in Work(b) : (Behind(i, p))'
      /\ builder[b].external => (ExternalCovered(p))'
  BY <1>1, <1>2, <1>3, CoverStays DEF EndOK
<1>10. (EndOK(b))'
  BY <1>1, <1>2, <1>3, <1>6, <1>8, <1>9 DEF EndOK
<1>11. r \in Counters'
  BY <1>1, <1>2, <1>3, CounterTyping, CreatedGrows DEF Inductive, Counters
<1>12. (BuilderOK(b))' /\ ~(Live(b))'
  BY <1>1, <1>2, <1>3, <1>11 DEF BuilderOK, Live
<1>13. Fresh(b)
  BY <1>12 DEF Fresh
<1> QED BY <1>1, <1>6, <1>10, <1>12, <1>13, OneBuilderMoves DEF Good

LEMMA BuildersStep ==
  ASSUME Inductive, [Next]_vars
  PROVE  BuildersOK'
<1>1. ASSUME NEW j \in JobIds, CreateBuilder(j) \/ Start(j) \/ Finish(j) PROVE BuildersOK'
  BY <1>1, CreateBuilderStep, NoBuilderMoves DEF Start, Finish
<1>2. ASSUME NEW b \in BuilderIds,
             \/ DispatchJob(b) \/ DispatchJobNoFence(b)
             \/ DispatchFenceExplicitly(b) \/ Rotate(b) \/ DispatchWait(b)
             \/ \E e \in BOOLEAN : Finalize(b, e)
             \/ FinalSync(b) \/ LinkContinuation(b) \/ WrapContinuation(b)
      PROVE  BuildersOK'
  BY <1>2, DispatchStep, FenceStep, RotateStep, DispatchWaitStep, FinalizeStep, FinalSyncStep,
     LinkStep, WrapStep
<1>3. CASE ResolveExternal
  BY <1>3, NoBuilderMoves DEF ResolveExternal
<1>4. CASE UNCHANGED vars
  BY <1>4, NoBuilderMoves DEF vars
<1> QED BY <1>1, <1>2, <1>3, <1>4, NextCases

-----------------------------------------------------------------------------
(* The theorems *)

LEMMA Initially == Init => Inductive
<1> SUFFICES ASSUME Init PROVE Inductive
  OBVIOUS
<1>1. /\ jobs = <<>> /\ fences = 0 /\ created = 3 /\ created \in CounterIds
      /\ state = [j \in JobIds |-> "none"]
      /\ value = [c \in CounterIds |-> IF c = External THEN 1 ELSE 0]
      /\ External \in CounterIds
  BY BoundsAssumption DEF Init, CounterIds, External
<1>2. Dispatched = {} /\ Len(jobs) = 0
  BY <1>1 DEF Dispatched
<1> DEFINE first == [Idle EXCEPT !.step = "active", !.wait = 2, !.accum = 3]
<1>0. 2 \in CounterIds /\ 3 \in CounterIds
  BY BoundsAssumption DEF CounterIds
<1>a. /\ Idle \in BuilderState /\ Idle.step = "none" /\ Idle.parent = NoCounter
      /\ ~Idle.needsFence /\ ~Idle.external /\ Idle.behind = {}
  BY DEF Idle, BuilderState, Steps
<1>b. PICK r \in BuilderState : r = Idle
  BY <1>a
<1>c. PICK x \in CounterIds : x = 2
  BY <1>0
<1>d. PICK y \in CounterIds : y = 3
  BY <1>0
<1>e. first = [r EXCEPT !.step = "active", !.wait = x, !.accum = y]
  BY <1>b, <1>c, <1>d
<1> HIDE DEF first
<1>3. /\ Idle \in BuilderState /\ Idle.step = "none"
      /\ first \in BuilderState /\ first.step = "active" /\ first.wait = 2 /\ first.accum = 3
      /\ first.parent = NoCounter /\ ~first.needsFence /\ ~first.external /\ first.behind = {}
  <2>1. /\ r.parent = NoCounter /\ ~r.needsFence /\ ~r.external /\ r.behind = {}
    BY <1>a, <1>b
  <2>2. /\ first \in BuilderState /\ first.step = "active" /\ first.wait = x /\ first.accum = y
        /\ first.parent = r.parent /\ first.needsFence = r.needsFence
        /\ first.external = r.external /\ first.behind = r.behind
    BY <1>e DEF BuilderState, Steps
  <2> QED BY <1>a, <1>c, <1>d, <2>1, <2>2
<1>4. builder = [b \in BuilderIds |-> IF b = 0 THEN first ELSE Idle]
  BY DEF Init, first
<1>5. TypeOK /\ value[External] \in {0, 1}
  BY <1>1, <1>2, <1>3, <1>4, BoundsAssumption DEF TypeOK, States
<1>6. Conservation
  <2>1. \A c : Pending(c) = {}
    BY <1>2 DEF Pending
  <2> QED BY <1>1, <2>1, FS_EmptySet DEF Conservation
<1>7. JobsOK /\ Promised /\ Kept
  BY <1>1, <1>2 DEF JobsOK, Promised, Kept
<1>8. 2 \in Counters /\ 3 \in Counters /\ \A b : By(b) = {} /\ Work(b) = {}
  BY <1>1, <1>2 DEF Counters, By, Work
<1>9. 0 \in BuilderIds /\ \A b \in BuilderIds : builder[b] = IF b = 0 THEN first ELSE Idle
  BY <1>4, BoundsAssumption DEF BuilderIds
<1>10. \A b \in BuilderIds : Live(b) <=> b = 0
  BY <1>3, <1>9 DEF Live
<1>11. ASSUME NEW b \in BuilderIds PROVE BuilderOK(b) /\ (Live(b) => GroupOK(b)) /\ EndOK(b)
  <2>1. BuilderOK(b)
    BY <1>3, <1>8, <1>9, <1>10 DEF BuilderOK
  <2>2. IsZero(3)
    BY <1>1 DEF IsZero, External
  <2>3. Live(b) => GroupOK(b)
    BY <1>3, <1>8, <1>9, <1>10, <2>2 DEF GroupOK
  <2>4. EndOK(b)
    BY <1>3, <1>9 DEF EndOK
  <2> QED BY <2>1, <2>3, <2>4
<1>12. Apart
  BY <1>10 DEF Apart
<1> QED BY <1>5, <1>6, <1>7, <1>11, <1>12 DEF Inductive, BuildersOK

\* Every reachable state satisfies the invariant.
THEOREM InductiveInvariant == Spec => []Inductive
<1>1. Inductive /\ [Next]_vars => Inductive'
  BY TypeStep, ConservationStep, JobsOKStep, PromisedStep, KeptStep, BuildersStep DEF Inductive
<1> QED BY Initially, <1>1, PTL DEF Spec

\* No job of a builder starts before what its builder was told to wait for, by
\* a fence or by dispatch_wait, is over, however jobs finish around the looks at
\* the counters (builder.rs).
THEOREM BuilderWaitsHold == Spec => []WaitsHold
<1>1. ASSUME Inductive PROVE WaitsHold
  <2>1. FencesHold
    <3>1. ASSUME NEW j \in Dispatched, Started(j), NEW i \in jobs[j].before PROVE Completed(i)
      <4>1. i \in Dispatched /\ After(j, i)
        BY <1>1, <3>1, JobFields DEF After
      <4> QED BY <1>1, <3>1, <4>1 DEF Inductive, Kept
    <3> QED BY <3>1 DEF FencesHold, Started
  <2>2. ExternalWaitsHold
    BY <1>1 DEF Inductive, Kept, AfterExternal, ExternalWaitsHold, Started
  <2> QED BY <1>1, <2>1, <2>2 DEF WaitsHold, Inductive
<1> QED BY <1>1, InductiveInvariant, PTL

\* The counter a builder ends with is not zero before the work it stands for is
\* done (final_sync, extract_wait_counter).
THEOREM BuilderResultCovers == Spec => []ResultCoversWork
<1>1. ASSUME Inductive, NEW b \in BuilderIds, builder[b].step = "final", IsZero(builder[b].result)
      PROVE  /\ \A j \in By(b) : jobs[j].kind = "user" => Completed(j)
             /\ builder[b].external => IsZero(External)
  <2>1. EndOK(b)
    BY <1>1 DEF Inductive, BuildersOK
  <2>2. \A j \in Work(b) : j \in Dispatched /\ Covered(j, builder[b].result)
    BY <1>1, <2>1 DEF EndOK, Work, By
  <2>3. \A j \in Work(b) : Completed(j)
    BY <1>1, <2>2, CoveredHolds
  <2>4. builder[b].external => IsZero(External)
    BY <1>1, <2>1, ExternalHolds DEF EndOK
  <2> QED BY <2>3, <2>4 DEF Work
<1>2. Inductive => ResultCoversWork
  BY <1>1 DEF ResultCoversWork
<1> QED BY <1>2, InductiveInvariant, PTL

\* A job whose continuation builder dispatched more work is not taken for done
\* before that work is (the parent counter of a continuation builder).
THEOREM ParentIsExtended == Spec => []ContinuationExtendsParent
<1>1. Inductive => ContinuationExtendsParent
  BY ParentsExtended DEF ContinuationExtendsParent
<1> QED BY <1>1, InductiveInvariant, PTL


-----------------------------------------------------------------------------
(* A parallel-for: the inductive invariant *)

\* Every team claims once in vain, which the counter has to have room for.
ClaimsFit == \A r \in Requests : BatchCount(r) + TeamSize(r) < Modulus

Batches(r) == 0 .. BatchCount(r) - 1
BatchOf(r, e) == CHOOSE b \in Batches(r) : e \in BatchStart(r, b) .. BatchEnd(r, b) - 1

Running(b) == \E t \in Teams : pc[t] = "run" /\ batch[t] = b
Over == {t \in Teams : pc[t] \in {"leave", "epilogue", "done"}}
Out == {t \in Teams : pc[t] \in {"epilogue", "done"}}

\* An element was covered when its batch was claimed and is not being run.
LoopCovered ==
  \A e \in Elements :
    runs[e] = IF BatchOf(request, e) < next /\ ~Running(BatchOf(request, e)) THEN 1 ELSE 0

\* Several teams share the batches.
Sharing ==
  /\ \A t \in Teams : pc[t] = "run" => batch[t] < next /\ batch[t] \in Batches(request)
  /\ \A t, u \in Teams : pc[t] = "run" /\ pc[u] = "run" /\ batch[t] = batch[u] => t = u
  /\ LoopCovered
  /\ next <= BatchCount(request) + Cardinality(Over)
  /\ Over # {} => next >= BatchCount(request)
  /\ finished = Cardinality(Out)
  /\ Out = Teams => epilogue \/ \E t \in Teams : pc[t] = "epilogue"

\* One job does it all.
Alone ==
  /\ \A t \in Teams : pc[t] \notin {"claim", "leave"}
  /\ \A t \in Teams : \A e \in Elements : runs[e] = IF pc[t] \in {"epilogue", "done"} THEN 1 ELSE 0
  /\ \A t \in Teams : pc[t] = "done" => epilogue

LoopInductive ==
  /\ ClaimsFit /\ LoopTypeOK
  /\ \A t \in Teams : (pc[t] = "epilogue" \/ epilogue) => Out = Teams
  /\ \A t, u \in Teams : pc[t] = "epilogue" /\ pc[u] = "epilogue" => t = u
  /\ \A t \in Teams : pc[t] = "epilogue" => ~epilogue
  /\ Multi => Sharing
  /\ ~Multi => Alone

----------------------------------------------------------------------------
(* Arithmetic *)

LEMMA Division ==
  ASSUME NEW a \in Nat, NEW b \in Nat \ {0}
  PROVE  /\ a \div b \in Nat /\ b * (a \div b) <= a /\ a < b * (a \div b) + b
OBVIOUS

LEMMA Remainder == ASSUME NEW a \in Nat, NEW b \in Nat, a < b PROVE a % b = a
OBVIOUS

LEMMA Multiples ==
  ASSUME NEW a \in Nat, NEW b \in Nat, NEW s \in Nat
  PROVE  /\ a * s \in Nat /\ a * s = s * a /\ (a <= b => a * s <= b * s) /\ (a + 1) * s = a * s + s
OBVIOUS

----------------------------------------------------------------------------
(* Geometry *)

\* The numbers of teams and batches, and that the batches are long enough.
LEMMA Sizes ==
  ASSUME NEW r \in Request
  PROVE  /\ r.elements \in Nat /\ r.elements <= MaxU32 /\ MaxU32 \in Nat
         /\ TeamSize(r) \in Nat /\ TeamSize(r) <= r.elements /\ (r.elements > 0 => TeamSize(r) > 0)
         /\ BatchCount(r) \in Nat \ {0} /\ BatchSize(r) \in Nat
         /\ r.elements <= BatchCount(r) * BatchSize(r)
<1>1. /\ MaxU32 \in Nat /\ r.elements \in 0 .. MaxU32 /\ r.maxBatch \in 0 .. MaxU32
      /\ r.workers \in 0 .. MaxU32
  BY ModulusAssumption DEF Request, U32, MaxU32
<1> DEFINE n == r.elements
           T == TeamSize(r)
           B == BatchCount(r)
           S == BatchSize(r)
<1>2. T \in Nat /\ T <= n /\ (n > 0 => T > 0)
  BY <1>1 DEF TeamSize, Smaller, Larger
<1> HIDE DEF T
<1>3. B \in Nat \ {0}
  <2>1. CASE r.maxBatch = 0
    BY <1>2, <2>1 DEF BatchCount, Larger, T
  <2>2. CASE r.maxBatch # 0
    <3>1. n \div r.maxBatch \in Nat
      BY <1>1, <2>2, Division
    <3> QED BY <2>2, <3>1 DEF BatchCount, Larger
  <2> QED BY <2>1, <2>2
<1> HIDE DEF B
<1>4. S = (n + B - 1) \div B
  BY DEF BatchSize, DivCeil, B
<1> HIDE DEF S
<1>5. n + B - 1 \in Nat
  BY <1>1, <1>3
<1> DEFINE a == n + B - 1
<1>6. S \in Nat /\ a < B * S + B
  <2>1. a \in Nat
    BY <1>5
  <2> HIDE DEF a
  <2> QED BY <1>3, <1>4, <2>1, Division DEF a
<1>7. B * S \in Nat
  BY <1>3, <1>6, Multiples
<1>8. n <= B * S
  BY <1>1, <1>3, <1>6, <1>7
<1> QED BY <1>1, <1>2, <1>3, <1>6, <1>8 DEF T, B, S

\* What a batch covers, saturation and all.
LEMMA WhatABatchCovers ==
  ASSUME NEW r \in Request, NEW e \in 0 .. r.elements - 1, NEW c \in Nat
  PROVE  /\ BatchStart(r, c) \in Nat /\ BatchEnd(r, c) \in Nat
         /\ e \in BatchStart(r, c) .. BatchEnd(r, c) - 1 <=>
              c * BatchSize(r) <= e /\ e < c * BatchSize(r) + BatchSize(r)
<1> DEFINE S == BatchSize(r)
           p == c * S
<1>1. /\ r.elements \in Nat /\ r.elements <= MaxU32 /\ MaxU32 \in Nat /\ S \in Nat
  BY Sizes
<1>2. p \in Nat
  BY <1>1, Multiples
<1>3. /\ BatchStart(r, c) = Smaller(p, MaxU32)
      /\ BatchEnd(r, c) = Smaller(Smaller(Smaller(p, MaxU32) + S, MaxU32), r.elements)
  BY DEF BatchStart, BatchEnd
<1> HIDE DEF p, S
<1> QED BY <1>1, <1>2, <1>3 DEF Smaller, p, S

\* Every element is in exactly one batch.
LEMMA InOneBatch ==
  ASSUME NEW r \in Request, NEW e \in 0 .. r.elements - 1
  PROVE  /\ BatchOf(r, e) \in Batches(r)
         /\ \A c \in Batches(r) : e \in BatchStart(r, c) .. BatchEnd(r, c) - 1 <=> c = BatchOf(r, e)
<1> DEFINE S == BatchSize(r)
           B == BatchCount(r)
           b == e \div S
<1>1. /\ r.elements \in Nat /\ S \in Nat /\ B \in Nat \ {0} /\ r.elements <= B * S /\ e \in Nat
      /\ e < r.elements
  BY Sizes
<1>2. S # 0
  <2>1. S = 0 => B * S = 0
    BY <1>1
  <2> QED BY <1>1, <2>1
<1>3. b \in Nat /\ S * b <= e /\ e < S * b + S
  <2> HIDE DEF S
  <2> QED BY <1>1, <1>2, Division
<1> HIDE DEF b, S, B
<1>4. b * S = S * b /\ b * S \in Nat /\ (b + 1) * S = b * S + S
  BY <1>1, <1>3, Multiples
<1>5. b < B
  <2>1. B <= b => B * S <= b * S
    BY <1>1, <1>3, Multiples
  <2>2. B * S \in Nat
    BY <1>1, Multiples
  <2> QED BY <1>1, <1>3, <1>4, <2>1, <2>2
<1>6. ASSUME NEW c \in Nat
      PROVE  c * S <= e /\ e < c * S + S <=> c = b
  <2>1. c * S \in Nat /\ (c + 1) * S = c * S + S
    BY <1>1, Multiples
  <2>2. c + 1 <= b => (c + 1) * S <= b * S
    BY <1>1, <1>3, Multiples
  <2>3. b + 1 <= c => (b + 1) * S <= c * S
    BY <1>1, <1>3, Multiples
  <2>4. c = b => c * S <= e /\ e < c * S + S
    BY <1>3, <1>4
  <2>5. c * S <= e /\ e < c * S + S => ~(c + 1 <= b) /\ ~(b + 1 <= c)
    BY <1>1, <1>3, <1>4, <2>1, <2>2, <2>3
  <2> QED BY <1>3, <2>4, <2>5
<1>7. \A c \in Batches(r) : e \in BatchStart(r, c) .. BatchEnd(r, c) - 1 <=> c = b
  <2>1. \A c \in Batches(r) : c \in Nat
    BY <1>1 DEF Batches, B
  <2> QED BY <2>1, <1>6, WhatABatchCovers DEF S
<1>8. b \in Batches(r)
  BY <1>1, <1>3, <1>5 DEF Batches, B
<1>9. BatchOf(r, e) = b
  BY <1>7, <1>8 DEF BatchOf
<1> QED BY <1>7, <1>8, <1>9

----------------------------------------------------------------------------
(* Steps *)

\* What is fixed while the invariant holds.
LEMMA Ground ==
  ASSUME LoopInductive
  PROVE  /\ request \in Request /\ request.elements \in Nat /\ Elements = 0 .. request.elements - 1
         /\ Modulus \in Nat /\ MaxU32 = Modulus - 1 /\ Modulus > 1
         /\ TeamSize(request) \in Nat /\ BatchCount(request) \in Nat \ {0}
         /\ BatchCount(request) + TeamSize(request) < Modulus
         /\ next \in Nat /\ finished \in Nat /\ pc \in [Teams -> Labels] /\ batch \in [Teams -> U32]
         /\ IsFiniteSet(Teams) /\ 0 \in Teams
         /\ Cardinality(Teams) = IF Multi THEN TeamSize(request) ELSE 1
         /\ ~Multi => Teams = {0}
<1>1. request \in Request /\ request \in Requests
  BY RequestsAssumption DEF LoopInductive, LoopTypeOK
<1>2. /\ TeamSize(request) \in Nat /\ BatchCount(request) \in Nat \ {0} /\ request.elements \in Nat
  BY <1>1, Sizes
<1>3. BatchCount(request) + TeamSize(request) < Modulus
  BY <1>1 DEF LoopInductive, ClaimsFit
<1>4. JobCount(request) = IF Multi THEN TeamSize(request) ELSE 1
  BY <1>2 DEF JobCount, Larger, Multi
<1>5. Teams = 0 .. JobCount(request) - 1 /\ JobCount(request) \in Nat \ {0}
  BY <1>2, <1>4 DEF Teams, Multi
<1>6. IsFiniteSet(Teams) /\ Cardinality(Teams) = JobCount(request)
  <2>1. 0 \in Int /\ JobCount(request) - 1 \in Int
    BY <1>5
  <2>2. /\ IsFiniteSet(0 .. JobCount(request) - 1)
        /\ Cardinality(0 .. JobCount(request) - 1) =
             IF 0 > JobCount(request) - 1 THEN 0 ELSE JobCount(request) - 1 - 0 + 1
    BY <2>1, FS_Interval
  <2> QED BY <1>5, <2>2
<1>7. ~Multi => Teams = {0}
  BY <1>4, <1>5
<1>8. next \in Nat /\ finished \in Nat /\ pc \in [Teams -> Labels] /\ batch \in [Teams -> U32]
  BY ModulusAssumption DEF LoopInductive, LoopTypeOK, U32, MaxU32
<1> QED BY <1>1, <1>2, <1>3, <1>4, <1>5, <1>6, <1>7, <1>8, ModulusAssumption DEF Elements, MaxU32

\* A set of teams is no larger than all of them, and as large only if it is all.
LEMMA SomeTeams ==
  ASSUME LoopInductive, NEW T \in SUBSET Teams
  PROVE  /\ IsFiniteSet(T) /\ Cardinality(T) \in Nat /\ Cardinality(T) <= Cardinality(Teams)
         /\ Cardinality(T) = Cardinality(Teams) <=> T = Teams
         /\ T = {} <=> Cardinality(T) = 0
         /\ \A t \in Teams \ T : Cardinality(T \cup {t}) = Cardinality(T) + 1
<1>1. IsFiniteSet(Teams)
  BY Ground
<1>2. /\ IsFiniteSet(T) /\ Cardinality(T) <= Cardinality(Teams)
      /\ Cardinality(Teams) = Cardinality(T) => Teams = T
  BY <1>1, FS_Subset
<1>3. Cardinality(T) \in Nat /\ (T = {} <=> Cardinality(T) = 0)
  BY <1>2, FS_CardinalityType, FS_EmptySet
<1>4. \A t \in Teams \ T : Cardinality(T \cup {t}) = Cardinality(T) + 1
  BY <1>2, FS_AddElement
<1> QED BY <1>2, <1>3, <1>4

\* A step of a team moves that team only.
Moves(t, label) ==
  /\ request' = request /\ Teams' = Teams /\ Elements' = Elements /\ (Multi' <=> Multi)
  /\ pc' \in [Teams -> Labels] /\ pc'[t] = label /\ \A u \in Teams : u # t => pc'[u] = pc[u]

LEMMA GotoMoves ==
  ASSUME LoopInductive, NEW t \in Teams, NEW label \in Labels, Goto(t, label), request' = request
  PROVE  Moves(t, label)
<1>1. pc \in [Teams -> Labels] /\ pc' = [pc EXCEPT ![t] = label]
  BY Ground DEF Goto
<1>2. Teams' = Teams /\ Elements' = Elements /\ (Multi' <=> Multi)
  BY DEF Teams, Elements, Multi
<1> QED BY <1>1, <1>2 DEF Moves

LEMMA CoveredNow ==
  ASSUME NEW r, r = request', Elements' = Elements,
         \A e \in Elements :
           runs'[e] = IF BatchOf(r, e) < next' /\ ~Running(BatchOf(r, e))' THEN 1 ELSE 0
  PROVE  LoopCovered'
<1> HIDE DEF BatchOf
<1> QED BY DEF LoopCovered, Running

\* A team that is dispatched, started or lost does nothing to the batches.
LEMMA SharingKept ==
  ASSUME LoopInductive, Multi, NEW t \in Teams, NEW label \in {"queued", "claim", "lost"},
         pc[t] \in {"none", "queued"}, Moves(t, label),
         UNCHANGED <<batch, next, finished, runs, epilogue>>
  PROVE  Sharing' /\ Out' = Out
<1>0. Sharing
  BY DEF LoopInductive
<1>1. \A u \in Teams : (pc'[u] = "run" <=> pc[u] = "run")
                       /\ (pc'[u] = "epilogue" <=> pc[u] = "epilogue")
  BY DEF Moves
<1>2. Over' = Over /\ Out' = Out
  BY DEF Moves, Over, Out
<1>3. \A b : Running(b)' <=> Running(b)
  BY <1>1 DEF Moves, Running
<1>4. request' = request /\ Teams' = Teams /\ Elements' = Elements
  BY DEF Moves
<1>5. LoopCovered'
  <2>1. PICK r : r = request
    OBVIOUS
  <2>2. \A e \in Elements :
          runs'[e] = IF BatchOf(r, e) < next' /\ ~Running(BatchOf(r, e))' THEN 1 ELSE 0
    BY <1>0, <1>3, <2>1 DEF Sharing, LoopCovered
  <2> QED BY <1>4, <2>1, <2>2, CoveredNow
<1> QED BY <1>0, <1>1, <1>2, <1>4, <1>5 DEF Sharing


\* The types after a step, and what does not change.
LEMMA TypesNow ==
  ASSUME LoopInductive, NEW t \in Teams, NEW label \in Labels, Moves(t, label),
         batch' \in [Teams -> U32], next' \in U32, finished' \in U32,
         runs' \in [Elements -> Nat], epilogue' \in BOOLEAN
  PROVE  LoopTypeOK' /\ ClaimsFit'
BY DEF LoopInductive, LoopTypeOK, Moves, ClaimsFit

LEMMA QuietStep ==
  ASSUME LoopInductive, NEW t \in Teams, DispatchTeam(t) \/ StartTeam(t) \/ LoseTeam(t)
  PROVE  LoopInductive'
<1>0. /\ UNCHANGED <<request, batch, next, finished, runs, epilogue>>
      /\ pc[t] \in {"none", "queued"} /\ LoopTypeOK
  BY DEF DispatchTeam, StartTeam, LoseTeam, LoopInductive
<1>1. PICK label \in {"queued", "lost", "claim", "epilogue", "run"} :
        /\ Goto(t, label)
        /\ Multi => label \in {"queued", "lost", "claim"}
        /\ ~Multi => label # "claim" /\ (label = "epilogue" => request.elements = 0)
  BY DEF DispatchTeam, StartTeam, LoseTeam
<1>2. Moves(t, label)
  BY <1>0, <1>1, GotoMoves DEF Labels
<1>3. LoopTypeOK' /\ ClaimsFit'
  BY <1>0, <1>2, TypesNow DEF LoopTypeOK, Labels
<1>4. CASE Multi
  <2>1. label \in {"queued", "lost", "claim"}
    BY <1>1, <1>4
  <2>2. Sharing' /\ Out' = Out
    BY <1>0, <1>2, <1>4, <2>1, SharingKept
  <2>3. \A u \in Teams : pc'[u] = "epilogue" => pc[u] = "epilogue"
    BY <1>2, <2>1 DEF Moves
  <2> QED BY <1>0, <1>2, <1>3, <1>4, <2>2, <2>3 DEF LoopInductive, Moves
<1>5. CASE ~Multi
  <2>1. Teams = {0} /\ t = 0 /\ Teams' = {0} /\ Elements' = Elements
    BY <1>2, <1>5, Ground DEF Moves
  <2>2. pc'[0] = label /\ ~epilogue
    <3>1. t \notin Out
      BY <1>0 DEF Out
    <3> QED BY <1>2, <2>1, <3>1 DEF Moves, LoopInductive
  <2>3. label = "epilogue" => Elements = {} /\ Out' = Teams'
    <3>1. label = "epilogue" => Elements = {}
      BY <1>1, <1>5, Ground
    <3>2. label = "epilogue" => Out' = Teams'
      BY <2>1, <2>2 DEF Out
    <3> QED BY <3>1, <3>2
  <2>4. Alone'
    BY <1>0, <1>1, <1>5, <2>1, <2>2, <2>3 DEF Alone, LoopInductive
  <2> QED BY <1>0, <1>2, <1>3, <1>5, <2>1, <2>2, <2>3, <2>4 DEF LoopInductive, Moves
<1> QED BY <1>4, <1>5

LEMMA ClaimStep ==
  ASSUME LoopInductive, NEW t \in Teams, Claim(t)
  PROVE  LoopInductive'
<1>0. /\ pc[t] = "claim" /\ Multi /\ Sharing /\ LoopTypeOK
      /\ UNCHANGED <<request, finished, runs, epilogue>>
  BY DEF Claim, LoopInductive, Alone
<1> DEFINE B == BatchCount(request)
<1>1. /\ next \in Nat /\ B \in Nat \ {0} /\ B + TeamSize(request) < Modulus
      /\ Cardinality(Teams) = TeamSize(request) /\ MaxU32 = Modulus - 1 /\ Modulus \in Nat
      /\ TeamSize(request) \in Nat /\ batch \in [Teams -> U32]
  BY <1>0, Ground
<1>2. Cardinality(Over) \in Nat /\ Cardinality(Over) + 1 <= TeamSize(request)
      /\ Cardinality(Over \cup {t}) = Cardinality(Over) + 1
  <2>1. Over \in SUBSET Teams /\ t \notin Over
    BY <1>0 DEF Over
  <2>2. Over # Teams
    BY <2>1
  <2> QED BY <1>1, <2>1, <2>2, SomeTeams
<1>3. next + 1 < Modulus /\ next <= B + Cardinality(Over)
  BY <1>0, <1>1, <1>2 DEF Sharing
<1>4. next' = next + 1
  <2>1. (next + 1) % Modulus = next + 1
    BY <1>1, <1>3, Remainder
  <2> QED BY <2>1 DEF Claim
<1>5. batch' = [batch EXCEPT ![t] = next] /\ next \in U32 /\ next' \in U32
  BY <1>1, <1>3, <1>4 DEF Claim, U32
<1>6. PICK label \in {"leave", "run", "claim"} :
        /\ Goto(t, label)
        /\ next >= B <=> label = "leave"
        /\ label = "run" <=> next < B /\ BatchStart(request, next) < BatchEnd(request, next)
  BY <1>1 DEF Claim
<1>7. Moves(t, label)
  BY <1>0, <1>6, GotoMoves DEF Labels
<1>8. batch' \in [Teams -> U32] /\ batch'[t] = next /\ \A u \in Teams : u # t => batch'[u] = batch[u]
  BY <1>1, <1>5
<1>9. LoopTypeOK' /\ ClaimsFit'
  BY <1>0, <1>5, <1>7, <1>8, TypesNow DEF LoopTypeOK, Labels
<1>10. Out' = Out /\ \A u \in Teams : (pc'[u] = "epilogue" <=> pc[u] = "epilogue")
  BY <1>0, <1>7 DEF Out, Moves
<1>11. \A b : b # next => (Running(b)' <=> Running(b))
  BY <1>0, <1>7, <1>8 DEF Running, Moves
<1>12. ~Running(next)
  <2>1. \A u \in Teams : batch[u] \in Nat
    BY <1>1 DEF U32
  <2> QED BY <1>0, <1>1, <2>1 DEF Running, Sharing
<1>13. PICK n : n = next
  OBVIOUS
<1>14. Running(n)' <=> label = "run"
  BY <1>7, <1>8, <1>12, <1>13 DEF Running, Moves
<1>15. LoopCovered'
  <2>1. PICK r : r = request
    OBVIOUS
  <2>2. ASSUME NEW e \in Elements
        PROVE  runs'[e] = IF BatchOf(r, e) < next' /\ ~Running(BatchOf(r, e))' THEN 1 ELSE 0
    <3> DEFINE b == BatchOf(r, e)
    <3>1. /\ b \in Batches(r) /\ \A c \in Batches(r) : e \in BatchStart(r, c) .. BatchEnd(r, c) - 1 <=> c = b
      BY <2>1, Ground, InOneBatch
    <3>2. b \in Nat /\ b < B
      BY <1>1, <2>1, <3>1 DEF Batches
    <3>3. runs[e] = IF b < next /\ ~Running(b) THEN 1 ELSE 0
      BY <1>0, <2>1 DEF Sharing, LoopCovered
    <3> HIDE DEF b
    <3>4. CASE b # next
      <4>1. b < next <=> b < next'
        BY <1>1, <1>4, <3>2, <3>4
      <4>2. Running(b)' <=> Running(b)
        BY <1>11, <3>4
      <4> QED BY <1>0, <3>3, <4>1, <4>2 DEF b
    <3>5. CASE b = next
      <4>1. e \in BatchStart(r, next) .. BatchEnd(r, next) - 1
        BY <3>1, <3>5
      <4>2. BatchStart(request, next) \in Nat /\ BatchEnd(request, next) \in Nat
        BY <1>1, <2>1, Ground, WhatABatchCovers
      <4>3. label = "run"
        BY <1>6, <2>1, <3>2, <3>5, <4>1, <4>2
      <4>4. ~(b < next) /\ Running(b)'
        BY <1>1, <1>13, <1>14, <3>5, <4>3
      <4> QED BY <1>0, <3>3, <4>4 DEF b
    <3> QED BY <3>4, <3>5
  <2> QED BY <1>0, <1>7, <2>1, <2>2, CoveredNow DEF Moves
<1>16. /\ \A u \in Teams : pc'[u] = "run" => batch'[u] < next' /\ batch'[u] \in Batches(request)
       /\ \A u, v \in Teams : pc'[u] = "run" /\ pc'[v] = "run" /\ batch'[u] = batch'[v] => u = v
  <2>1. \A u \in Teams : batch[u] \in Nat
    BY <1>1 DEF U32
  <2>2. next < B => next \in Batches(request)
    BY <1>1 DEF Batches
  <2>3. \A u \in Teams : u # t /\ pc'[u] = "run" => pc[u] = "run" /\ batch'[u] # next
                                                    /\ batch'[u] < next /\ batch'[u] \in Batches(request)
    BY <1>0, <1>1, <1>7, <1>8, <2>1 DEF Moves, Sharing
  <2>4. pc'[t] = "run" => next < B
    BY <1>6, <1>7 DEF Moves
  <2>5. \A u \in Teams : pc'[u] = "run" => batch'[u] < next' /\ batch'[u] \in Batches(request)
    BY <1>1, <1>4, <1>8, <2>1, <2>2, <2>3, <2>4
  <2>6. ASSUME NEW u \in Teams, NEW v \in Teams, pc'[u] = "run", pc'[v] = "run",
               batch'[u] = batch'[v]
        PROVE  u = v
    BY <1>0, <1>8, <2>3, <2>6 DEF Sharing
  <2> QED BY <2>5, <2>6
<1>17. /\ next' <= B + Cardinality(Over') /\ (Over' # {} => next' >= B)
  <2>1. CASE label = "leave"
    <3>1. Over' = Over \cup {t}
      BY <1>0, <1>7, <2>1 DEF Over, Moves
    <3> QED BY <1>1, <1>2, <1>3, <1>4, <1>6, <2>1, <3>1
  <2>2. CASE label # "leave"
    <3>1. Over' = Over
      BY <1>0, <1>7, <2>2 DEF Over, Moves
    <3>2. next < B
      BY <1>1, <1>6, <2>2
    <3>3. Over = {}
      BY <1>0, <1>1, <3>2 DEF Sharing
    <3> QED BY <1>1, <1>2, <1>4, <3>1, <3>2, <3>3
  <2> QED BY <2>1, <2>2
<1>18. Sharing'
  BY <1>0, <1>7, <1>10, <1>15, <1>16, <1>17 DEF Sharing, Moves
<1> QED BY <1>0, <1>7, <1>9, <1>10, <1>18 DEF LoopInductive, Moves

LEMMA RunStep ==
  ASSUME LoopInductive, NEW t \in Teams, RunRange(t)
  PROVE  LoopInductive'
<1>0. /\ pc[t] = "run" /\ UNCHANGED <<request, batch, next, finished, epilogue>> /\ LoopTypeOK
      /\ runs' = [e \in Elements |-> IF e \in RangeOf(t) THEN runs[e] + 1 ELSE runs[e]]
      /\ Out # Teams /\ ~epilogue /\ \A u \in Teams : pc[u] # "epilogue"
  <2>1. Out # Teams
    <3>1. pc[t] = "run"
      BY DEF RunRange
    <3> QED BY <3>1 DEF Out
  <2> QED BY <2>1 DEF RunRange, LoopInductive
<1>1. PICK label \in {"claim", "epilogue"} : Goto(t, label) /\ (Multi <=> label = "claim")
  BY DEF RunRange
<1>2. Moves(t, label)
  BY <1>0, <1>1, GotoMoves DEF Labels
<1>3. LoopTypeOK' /\ ClaimsFit'
  <2>1. runs' \in [Elements -> Nat]
    <3>1. runs \in [Elements -> Nat]
      BY <1>0 DEF LoopTypeOK
    <3> HIDE DEF RangeOf
    <3> QED BY <1>0, <3>1
  <2> QED BY <1>0, <1>2, <2>1, TypesNow DEF LoopTypeOK, Labels
<1>4. CASE Multi
  <2>0. PICK n : n = batch[t]
    OBVIOUS
  <2>1. /\ Sharing /\ label = "claim" /\ n < next /\ n \in Batches(request) /\ Running(n)
        /\ RangeOf(t) = BatchStart(request, n) .. BatchEnd(request, n) - 1
    BY <1>0, <1>1, <1>4, <2>0 DEF LoopInductive, Sharing, Running, RangeOf
  <2>2. Over' = Over /\ Out' = Out /\ \A u \in Teams : pc'[u] # "epilogue"
    BY <1>0, <1>2, <2>1 DEF Over, Out, Moves
  <2>3. ~Running(n)' /\ \A b : b # n => (Running(b)' <=> Running(b))
    BY <1>0, <1>2, <2>0, <2>1 DEF Running, Moves, Sharing
  <2>4. LoopCovered'
    <3>1. PICK r : r = request
      OBVIOUS
    <3>2. ASSUME NEW e \in Elements
          PROVE  runs'[e] = IF BatchOf(r, e) < next' /\ ~Running(BatchOf(r, e))' THEN 1 ELSE 0
      <4> DEFINE b == BatchOf(r, e)
      <4>1. \A c \in Batches(r) : e \in BatchStart(r, c) .. BatchEnd(r, c) - 1 <=> c = b
        BY <3>1, Ground, InOneBatch
      <4>2. e \in RangeOf(t) <=> n = b
        BY <2>1, <3>1, <4>1
      <4>3. runs[e] = IF b < next /\ ~Running(b) THEN 1 ELSE 0
        BY <2>1, <3>1 DEF Sharing, LoopCovered
      <4> HIDE DEF b
      <4>4. CASE b = n
        <5>1. runs[e] = 0 /\ runs'[e] = 1
          BY <1>0, <2>1, <4>2, <4>3, <4>4
        <5>2. b < next' /\ ~Running(b)'
          BY <1>0, <2>1, <2>3, <4>4 DEF Running
        <5> QED BY <5>1, <5>2 DEF b
      <4>5. CASE b # n
        <5>1. runs'[e] = runs[e] /\ (Running(b)' <=> Running(b))
          BY <1>0, <2>3, <4>2, <4>5
        <5> QED BY <1>0, <4>3, <5>1 DEF b
      <4> QED BY <4>4, <4>5
    <3> QED BY <1>0, <1>2, <3>1, <3>2, CoveredNow DEF Moves
  <2>5. Sharing'
    BY <1>0, <1>2, <2>1, <2>2, <2>4 DEF Sharing, Moves
  <2> QED BY <1>0, <1>2, <1>3, <1>4, <2>2, <2>5 DEF LoopInductive, Moves
<1>5. CASE ~Multi
  <2>1. Teams = {0} /\ t = 0 /\ Teams' = {0} /\ Elements' = Elements /\ RangeOf(t) = Elements
    BY <1>2, <1>5, Ground DEF Moves, RangeOf
  <2>2. pc'[0] = "epilogue" /\ pc[0] = "run"
    BY <1>0, <1>1, <1>2, <1>5, <2>1 DEF Moves
  <2>3. Out' = Teams'
    BY <2>1, <2>2 DEF Out
  <2>4. \A e \in Elements : runs'[e] = 1
    <3>1. \A e \in Elements : runs[e] = 0
      BY <1>5, <2>1, <2>2 DEF LoopInductive, Alone
    <3> QED BY <1>0, <2>1, <3>1
  <2>5. Alone'
    BY <2>1, <2>2, <2>4 DEF Alone
  <2> QED BY <1>0, <1>2, <1>3, <1>5, <2>1, <2>2, <2>3, <2>5 DEF LoopInductive, Moves
<1> QED BY <1>4, <1>5

LEMMA LeaveStep ==
  ASSUME LoopInductive, NEW t \in Teams, Leave(t)
  PROVE  LoopInductive'
<1>0. /\ pc[t] = "leave" /\ Multi /\ Sharing /\ LoopTypeOK
      /\ UNCHANGED <<request, batch, next, runs, epilogue>>
      /\ t \notin Out /\ Out \in SUBSET Teams
  BY DEF Leave, LoopInductive, Alone, Out
<1>1. ~epilogue /\ \A u \in Teams : pc[u] # "epilogue"
  BY <1>0 DEF LoopInductive
<1>2. /\ TeamSize(request) \in Nat /\ Modulus \in Nat /\ TeamSize(request) < Modulus
      /\ Cardinality(Teams) = TeamSize(request) /\ MaxU32 = Modulus - 1
  BY <1>0, Ground
<1>3. /\ Cardinality(Out) \in Nat /\ finished = Cardinality(Out)
      /\ Cardinality(Out \cup {t}) = finished + 1 /\ finished + 1 <= TeamSize(request)
      /\ finished + 1 = TeamSize(request) <=> Out \cup {t} = Teams
  <2>1. Out \cup {t} \in SUBSET Teams
    BY <1>0
  <2> HIDE DEF Out
  <2>2. Cardinality(Out) \in Nat /\ Cardinality(Out \cup {t}) = Cardinality(Out) + 1
    BY <1>0, SomeTeams
  <2>3. /\ Cardinality(Out \cup {t}) <= Cardinality(Teams)
        /\ Cardinality(Out \cup {t}) = Cardinality(Teams) <=> Out \cup {t} = Teams
    BY <2>1, SomeTeams
  <2> QED BY <1>0, <1>2, <2>2, <2>3 DEF Sharing
<1>4. finished' = finished + 1 /\ finished' \in U32
  <2>1. (finished + 1) % Modulus = finished + 1
    BY <1>2, <1>3, Remainder
  <2> QED BY <1>2, <1>3, <2>1 DEF Leave, U32
<1>5. PICK label \in {"epilogue", "done"} :
        Goto(t, label) /\ (label = "epilogue" <=> Out \cup {t} = Teams)
  BY <1>3 DEF Leave
<1>6. Moves(t, label)
  BY <1>0, <1>5, GotoMoves DEF Labels
<1>7. LoopTypeOK' /\ ClaimsFit'
  BY <1>0, <1>4, <1>6, TypesNow DEF LoopTypeOK, Labels
<1>8. /\ Out' = Out \cup {t} /\ Over' = Over
      /\ \A u \in Teams : pc'[u] = "epilogue" <=> u = t /\ label = "epilogue"
  BY <1>0, <1>1, <1>6 DEF Out, Over, Moves
<1>9. LoopCovered'
  <2>1. PICK r : r = request
    OBVIOUS
  <2>2. \A b : Running(b)' <=> Running(b)
    BY <1>0, <1>6 DEF Running, Moves
  <2>3. \A e \in Elements :
          runs'[e] = IF BatchOf(r, e) < next' /\ ~Running(BatchOf(r, e))' THEN 1 ELSE 0
    BY <1>0, <2>1, <2>2 DEF Sharing, LoopCovered
  <2> QED BY <1>0, <1>6, <2>1, <2>3, CoveredNow DEF Moves
<1>10. Sharing'
  BY <1>0, <1>3, <1>4, <1>5, <1>6, <1>8, <1>9 DEF Sharing, Moves
<1> QED BY <1>0, <1>1, <1>5, <1>6, <1>7, <1>8, <1>10 DEF LoopInductive, Moves

LEMMA EpilogueStep ==
  ASSUME LoopInductive, NEW t \in Teams, RunEpilogue(t)
  PROVE  LoopInductive'
<1>0. /\ pc[t] = "epilogue" /\ Goto(t, "done") /\ epilogue' = TRUE /\ LoopTypeOK
      /\ UNCHANGED <<request, batch, next, finished, runs>>
  BY DEF RunEpilogue, LoopInductive
<1>1. Moves(t, "done")
  BY <1>0, GotoMoves DEF Labels
<1>2. LoopTypeOK' /\ ClaimsFit'
  BY <1>0, <1>1, TypesNow DEF LoopTypeOK, Labels
<1>3. Out' = Teams' /\ Out' = Out /\ Over' = Over /\ \A u \in Teams : pc'[u] # "epilogue"
  <2>1. Out = Teams /\ \A u \in Teams : u # t => pc[u] # "epilogue"
    BY <1>0 DEF LoopInductive
  <2> QED BY <1>0, <1>1, <2>1 DEF Out, Over, Moves
<1>4. CASE Multi
  <2>1. LoopCovered'
    <3>1. PICK r : r = request
      OBVIOUS
    <3>2. \A b : Running(b)' <=> Running(b)
      BY <1>0, <1>1 DEF Running, Moves
    <3>3. \A e \in Elements :
            runs'[e] = IF BatchOf(r, e) < next' /\ ~Running(BatchOf(r, e))' THEN 1 ELSE 0
      BY <1>0, <1>4, <3>1, <3>2 DEF LoopInductive, Sharing, LoopCovered
    <3> QED BY <1>0, <1>1, <3>1, <3>3, CoveredNow DEF Moves
  <2>2. Sharing'
    BY <1>0, <1>1, <1>3, <1>4, <2>1 DEF LoopInductive, Sharing, Moves
  <2> QED BY <1>0, <1>1, <1>2, <1>3, <1>4, <2>2 DEF LoopInductive, Moves
<1>5. CASE ~Multi
  <2>1. Alone'
    BY <1>0, <1>1, <1>5 DEF LoopInductive, Alone, Moves
  <2> QED BY <1>0, <1>1, <1>2, <1>3, <1>5, <2>1 DEF LoopInductive, Moves
<1> QED BY <1>4, <1>5

----------------------------------------------------------------------------
(* Everything together *)

LEMMA LoopInitInductive == ASSUME LoopInit, ClaimsFit PROVE LoopInductive
<1>1. request \in Request /\ request \in Requests
  BY RequestsAssumption DEF LoopInit
<1>2. /\ 0 \in U32 /\ (\A t \in Teams : pc[t] = "none") /\ (\A e \in Elements : runs[e] = 0)
      /\ next = 0 /\ finished = 0 /\ ~epilogue
  BY ModulusAssumption DEF LoopInit, U32, MaxU32
<1>3. LoopTypeOK
  BY <1>1, <1>2 DEF LoopInit, LoopTypeOK, Labels
<1>4. Out = {} /\ Over = {} /\ Cardinality(Out) = 0 /\ Cardinality(Over) = 0
  BY <1>2, FS_EmptySet DEF Out, Over
<1>5. Out # Teams
  <2>1. TeamSize(request) \in Nat
    BY <1>1, Sizes
  <2>2. 0 \in Teams
    BY <2>1 DEF Teams, JobCount, Larger
  <2> QED BY <1>4, <2>2
<1>6. LoopCovered
  <2>1. \A e \in Elements : BatchOf(request, e) \in Nat
    <3>1. \A e \in Elements : BatchOf(request, e) \in Batches(request)
      BY <1>1, InOneBatch DEF Elements
    <3>2. BatchCount(request) \in Nat
      BY <1>1, Sizes
    <3> QED BY <3>1, <3>2 DEF Batches
  <2>2. \A e \in Elements : ~(BatchOf(request, e) < next)
    BY <1>2, <2>1
  <2> QED BY <1>2, <2>2 DEF LoopCovered
<1>7. Sharing
  <2>1. BatchCount(request) \in Nat
    BY <1>1, Sizes
  <2> QED BY <1>2, <1>4, <1>5, <1>6, <2>1 DEF Sharing
<1>8. Alone
  BY <1>2 DEF Alone
<1> QED BY <1>2, <1>3, <1>5, <1>7, <1>8 DEF LoopInductive

LEMMA LoopNextInductive == ASSUME LoopInductive, [LoopNext]_loopVars PROVE LoopInductive'
<1>1. ASSUME NEW t \in Teams, TeamStep(t) \/ LoseTeam(t) PROVE LoopInductive'
  BY <1>1, QuietStep, ClaimStep, RunStep, LeaveStep, EpilogueStep DEF TeamStep
<1>2. CASE UNCHANGED loopVars
  BY <1>2 DEF loopVars, LoopInductive, ClaimsFit, LoopTypeOK, Sharing, Alone, LoopCovered, Running, Over, Out,
              Teams, Elements, Multi
<1> QED BY <1>1, <1>2 DEF LoopNext

LEMMA LoopAlwaysInductive == ClaimsFit /\ LoopSpec => []LoopInductive
<1>1. ClaimsFit /\ LoopInit => LoopInductive
  BY LoopInitInductive
<1>2. LoopInductive /\ [LoopNext]_loopVars => LoopInductive'
  BY LoopNextInductive
<1> QED BY <1>1, <1>2, PTL DEF LoopSpec

\* A parallel-for whose claims fit its counter hands every element to the closure
\* exactly once (run_parallel_for and run_parallel_for_team, dispatcher.rs).
THEOREM EveryElementOnce == ClaimsFit /\ LoopSpec => []ExactlyOnce
<1>1. ASSUME LoopInductive PROVE ExactlyOnce
  <2>1. 0 \in Teams /\ Elements = 0 .. request.elements - 1 /\ request \in Request
        /\ next \in Nat /\ BatchCount(request) \in Nat
    BY <1>1, Ground
  <2>2. CASE Multi
    <3>1. Sharing
      BY <1>1, <2>2 DEF LoopInductive
    <3>2. \A e \in Elements : runs[e] \in {0, 1}
      BY <3>1 DEF Sharing, LoopCovered
    <3>3. ASSUME Resolved, NEW e \in Elements PROVE runs[e] = 1
      <4>1. Over # {}
        BY <2>1, <3>3 DEF Over, Resolved
      <4>2. next >= BatchCount(request)
        BY <3>1, <4>1 DEF Sharing
      <4>3. BatchOf(request, e) \in Batches(request)
        BY <2>1, InOneBatch
      <4>4. BatchOf(request, e) < next
        BY <2>1, <4>2, <4>3 DEF Batches
      <4>5. ~Running(BatchOf(request, e))
        BY <3>3 DEF Running, Resolved
      <4> QED BY <3>1, <4>4, <4>5 DEF Sharing, LoopCovered
    <3> QED BY <3>2, <3>3 DEF ExactlyOnce
  <2>3. CASE ~Multi
    BY <1>1, <2>1, <2>3 DEF LoopInductive, Alone, ExactlyOnce, Resolved
  <2> QED BY <2>2, <2>3
<1> QED BY <1>1, LoopAlwaysInductive, PTL

\* Its epilogue runs after every call of the closure has returned and before the
\* counter resolves (run_epilogue_once, dispatcher.rs).
THEOREM EpilogueComesLast == ClaimsFit /\ LoopSpec => []EpilogueLast
<1>1. ASSUME LoopInductive, ExactlyOnce PROVE EpilogueLast
  <2>1. epilogue => \A t \in Teams : pc[t] = "done"
    BY <1>1, Ground DEF LoopInductive, Out
  <2>2. epilogue => \A e \in Elements : runs[e] = 1
    BY <1>1, <2>1 DEF ExactlyOnce, Resolved
  <2>3. ASSUME Resolved PROVE epilogue
    <3>1. 0 \in Teams /\ Out = Teams /\ \A t \in Teams : pc[t] = "done"
      BY <1>1, <2>3, Ground DEF Resolved, Out
    <3>2. CASE Multi
      BY <1>1, <3>1, <3>2 DEF LoopInductive, Sharing
    <3>3. CASE ~Multi
      BY <1>1, <3>1, <3>3 DEF LoopInductive, Alone
    <3> QED BY <3>2, <3>3
  <2> QED BY <2>1, <2>2, <2>3 DEF EpilogueLast
<1> QED BY <1>1, LoopAlwaysInductive, EveryElementOnce, PTL

=============================================================================
