----------------------------- MODULE JobSystem -----------------------------
(***************************************************************************)
(* The leet_jobs2 runtime: counters with their waiting lists, the ready    *)
(* queues and their condition variable, the worker loop, the flush loop,   *)
(* deferrals and shutdown (counter.rs, queue.rs, dispatcher.rs, worker.rs, *)
(* deferral.rs).                                                           *)
(*                                                                         *)
(* A step is one critical section or one atomic access of the code, so     *)
(* every point where another thread may run between two of them is a       *)
(* program-counter value here.  Client threads, and job bodies, are any    *)
(* program that dispatches, flushes, creates and finishes deferrals and    *)
(* shuts the system down.                                                  *)
(***************************************************************************)
EXTENDS Integers, FiniteSets, SequencesExt

CONSTANTS
  Workers,             \* the spawned worker threads
  Clients,             \* the other threads that call into the job system
  FlushThread,         \* the client that called claim_flush_thread
  Stoppers,            \* the clients that may call shutdown, never a worker
  Jobs,                \* the closures a run may dispatch, each at most once
  Deferrals,           \* the completion deferrals a run may create
  Counters, NoCounter,
  NoJob,
  Programs,            \* the declarations [Jobs -> Decl] the clients may use
  DeferralCounter,     \* the counter each deferral is created on
  CounterPriority,     \* the priority each counter is created with
  AllJobsCriticalPath, \* JobSystemConfig::all_jobs_critical_path
  MaxLatentJobs, MaxCriticalPathJobs, MaxImmediateJobs,
  FlushKinds           \* which of the public flush variants are called

Latent == 0
RenderPath == 1
CriticalPath == 2
Immediate == 3
Lanes == Latent .. Immediate

Hints == {"none", "trivial", "large"}
Decl == [accum : Counters, wait : Counters \cup {NoCounter}, hint : Hints]
Threads == Workers \cup Clients
Units == Jobs \cup Deferrals

ASSUME ThreadsAssumption ==
  /\ Workers # {} /\ Workers \cap Clients = {} /\ FlushThread \in Clients
  /\ Stoppers \subseteq Clients
ASSUME FiniteAssumption ==
  IsFiniteSet(Jobs) /\ IsFiniteSet(Deferrals) /\ IsFiniteSet(Threads)
ASSUME NamesAssumption ==
  NoCounter \notin Counters /\ NoJob \notin Jobs /\ Jobs \cap Deferrals = {}
\* dispatcher.rs:367-372 refuses a job that waits on its own counter.
ASSUME ProgramsAssumption ==
  /\ Programs \subseteq [Jobs -> Decl]
  /\ \A p \in Programs : \A j \in Jobs : p[j].wait # p[j].accum
ASSUME CountersAssumption ==
  /\ DeferralCounter \in [Deferrals -> Counters]
  /\ CounterPriority \in [Counters -> Lanes]
ASSUME ConfigAssumption ==
  /\ AllJobsCriticalPath \in BOOLEAN
  /\ {MaxLatentJobs, MaxCriticalPathJobs, MaxImmediateJobs} \subseteq Nat \ {0}
  /\ FlushKinds \subseteq {"plain", "timed", "renderFrame"}

VARIABLES
  decl,      \* the counters and the hint each job is dispatched with
  place,     \* who owns the job: see Places
  before,    \* history: the units a job was dispatched behind
  value,     \* CounterEntry::value
  waiting,   \* CounterEntry::waiting, oldest first
  lanes,     \* ReadyQueueState: one FIFO per priority, oldest first
  pc,        \* what each thread does next
  hand,      \* the job a thread owns outside every queue
  running,   \* the job whose body a thread executes
  batch,     \* waiting jobs a thread took and has not queued yet
  zeroed,    \* the counter a thread took to zero
  deferral,  \* CompletionDeferral: "unused", "held" or "finished"
  flush,     \* the flush in progress: its target and policy
  awaited,   \* history: the units open on the target when the flush began
  answer,    \* what the flush returned
  shutdown,  \* Dispatcher::shutdown
  closed     \* ReadyQueueState::is_shutdown

jobVars == <<decl, place, before>>
counterVars == <<value, waiting>>
threadVars == <<pc, hand, running, batch, zeroed>>
flushVars == <<flush, awaited, answer>>
stopVars == <<shutdown, closed>>
vars == <<decl, place, before, value, waiting, lanes, pc, hand, running, batch,
          zeroed, deferral, flush, awaited, answer, shutdown, closed>>

\* "cleared": its wait counter was seen at zero, and a thread carries it.
Places == {"new", "counted", "parked", "cleared", "ready", "running", "done",
           "dropped"}
Labels == {"free", "body", "counted", "park", "push", "signal", "zeroed",
           "drain", "release", "signalRelease", "pop", "popped", "head",
           "trypop", "requeue", "signalRequeue", "idlewait", "wakewait",
           "waiting", "close", "join", "stopped", "panicked"}
NoFlush == [target |-> NoCounter, min |-> Latent, large |-> TRUE, timed |-> FALSE]
Flushes == [target : Counters \cup {NoCounter}, min : Lanes,
            large : BOOLEAN, timed : BOOLEAN]

TypeOK ==
  /\ decl \in Programs
  /\ place \in [Jobs -> Places]
  /\ before \in [Jobs -> SUBSET Units]
  /\ value \in [Counters -> Nat]
  /\ waiting \in [Counters -> Seq(Jobs)]
  /\ lanes \in [Lanes -> Seq(Jobs)]
  /\ pc \in [Threads -> Labels]
  /\ hand \in [Threads -> Jobs \cup {NoJob}]
  /\ running \in [Threads -> Jobs \cup {NoJob}]
  /\ batch \in [Threads -> Seq(Jobs)]
  /\ zeroed \in [Threads -> Counters \cup {NoCounter}]
  /\ deferral \in [Deferrals -> {"unused", "held", "finished"}]
  /\ flush \in Flushes
  /\ awaited \in SUBSET Units
  /\ answer \in {"none", "pending", "true", "false"}
  /\ shutdown \in BOOLEAN
  /\ closed \in BOOLEAN

Init ==
  /\ decl \in Programs
  /\ place = [j \in Jobs |-> "new"]
  /\ before = [j \in Jobs |-> {}]
  /\ value = [c \in Counters |-> 0]
  /\ waiting = [c \in Counters |-> <<>>]
  /\ lanes = [l \in Lanes |-> <<>>]
  /\ pc = [t \in Threads |-> IF t \in Workers THEN "pop" ELSE "free"]
  /\ hand = [t \in Threads |-> NoJob]
  /\ running = [t \in Threads |-> NoJob]
  /\ batch = [t \in Threads |-> <<>>]
  /\ zeroed = [t \in Threads |-> NoCounter]
  /\ deferral = [d \in Deferrals |-> "unused"]
  /\ flush = NoFlush
  /\ awaited = {}
  /\ answer = "none"
  /\ shutdown = FALSE
  /\ closed = FALSE

-----------------------------------------------------------------------------
(* Priorities and capacities *)

\* map_priority: the priority a counter is really created with.
Priority(c) == IF AllJobsCriticalPath THEN CriticalPath ELSE CounterPriority[c]

\* queue_priority_for_job: the lane a job is queued in.
LaneOf(j) ==
  IF AllJobsCriticalPath /\ decl[j].hint = "large"
  THEN Latent
  ELSE Priority(decl[j].accum)

\* ReadyQueueCapacities::from_config
Capacity(l) ==
  CASE l = Immediate -> MaxImmediateJobs
    [] l \in {RenderPath, CriticalPath} -> MaxCriticalPathJobs
    [] OTHER -> IF AllJobsCriticalPath /\ MaxCriticalPathJobs > MaxLatentJobs
                THEN MaxCriticalPathJobs ELSE MaxLatentJobs

HasRoom(j) == Len(lanes[LaneOf(j)]) < Capacity(LaneOf(j))
HasReadyJob == \E l \in Lanes : lanes[l] # <<>>
TopLane == CHOOSE l \in Lanes :
             lanes[l] # <<>> /\ \A m \in Lanes : lanes[m] # <<>> => m <= l

\* The units counted on c whose completion has not been counted.
Outstanding(c) ==
  {j \in Jobs : place[j] \notin {"new", "done"} /\ decl[j].accum = c}
    \cup {d \in Deferrals : deferral[d] = "held" /\ DeferralCounter[d] = c}

Finished == {j \in Jobs : place[j] = "done"}
              \cup {d \in Deferrals : deferral[d] = "finished"}

-----------------------------------------------------------------------------
(* Threads *)

\* Where a thread goes when no job body is on its stack.
Idle(t) ==
  IF t \in Workers THEN "pop"
  ELSE IF t = FlushThread /\ flush.target # NoCounter THEN "head" ELSE "free"

\* Where a call into the job system returns to.
Caller(t) == IF running[t] # NoJob THEN "body" ELSE Idle(t)

InUserCode(t) == pc[t] \in {"free", "body"}
Goto(t, label) == pc' = [pc EXCEPT ![t] = label]

\* CounterEntry::is_zero, and a mutant of it: off by one.
IsAlmostZero(c) == value[c] <= 1
\* Another: nothing is outstanding once the queues are closed.
IsZeroOrClosed(c) == value[c] = 0 \/ closed
IsZero(c) == value[c] = 0

Sleepers == {t \in Threads : pc[t] = "waiting"}
Woken(t) == IF t \in Workers THEN "pop" ELSE "head"

\* Mutant of NotifyOne and NotifyAll: the notification is forgotten.
NotifyNobody(t, label) == Goto(t, label)

\* Condvar::notify_one wakes some sleeper, or nobody when none sleeps.
NotifyOne(t, label) ==
  IF Sleepers = {} THEN Goto(t, label)
  ELSE \E s \in Sleepers : pc' = [pc EXCEPT ![t] = label, ![s] = Woken(s)]

\* Condvar::notify_all
NotifyAll(t, label) ==
  pc' = [u \in Threads |-> IF u = t THEN label
                           ELSE IF u \in Sleepers THEN Woken(u) ELSE pc[u]]

\* A panic unwinds the thread: it drops the jobs it owns, undecremented, and
\* its flush guard.  An unwound worker is gone.
Owned(t) == ({hand[t], running[t]} \cup Range(batch[t])) \ {NoJob}
Panic(t) ==
  /\ Goto(t, "panicked")
  /\ place' = [j \in Jobs |-> IF j \in Owned(t) THEN "dropped" ELSE place[j]]
  /\ hand' = [hand EXCEPT ![t] = NoJob]
  /\ running' = [running EXCEPT ![t] = NoJob]
  /\ batch' = [batch EXCEPT ![t] = <<>>]
  /\ IF t = FlushThread /\ flush.target # NoCounter
     THEN flush' = NoFlush /\ awaited' = {} /\ answer' = "none"
     ELSE UNCHANGED flushVars
  /\ UNCHANGED <<decl, before, counterVars, lanes, zeroed, deferral, stopVars>>

-----------------------------------------------------------------------------
(* Dispatching a job: run_job and queue_job_or_wait *)

\* run_job counts the job before any other thread can see it.
Dispatch(t, j) ==
  /\ InUserCode(t)
  /\ place[j] = "new"
  /\ value' = [value EXCEPT ![decl[j].accum] = @ + 1]
  /\ place' = [place EXCEPT ![j] = "counted"]
  /\ before' = [before EXCEPT ![j] = IF decl[j].wait = NoCounter THEN {}
                                     ELSE Outstanding(decl[j].wait)]
  /\ hand' = [hand EXCEPT ![t] = j]
  /\ Goto(t, "counted")
  /\ UNCHANGED <<decl, waiting, lanes, running, batch, zeroed, deferral, flushVars, stopVars>>

\* The unlocked look at the wait counter.
TestWait(t) ==
  /\ pc[t] = "counted"
  /\ LET j == hand[t]
         w == decl[j].wait
     IN IF w = NoCounter \/ IsZero(w)
        THEN /\ place' = [place EXCEPT ![j] = "cleared"]
             /\ Goto(t, "push")
        ELSE /\ Goto(t, "park")
             /\ UNCHANGED place
  /\ UNCHANGED <<decl, before, counterVars, lanes, hand, running, batch, zeroed,
                 deferral, flushVars, stopVars>>

\* Mutant of Park: no recheck under the waiting lock.
ParkBlindly(t) ==
  /\ pc[t] = "park"
  /\ LET j == hand[t]
     IN /\ place' = [place EXCEPT ![j] = "parked"]
        /\ waiting' = [waiting EXCEPT ![decl[j].wait] = Append(@, j)]
  /\ hand' = [hand EXCEPT ![t] = NoJob]
  /\ Goto(t, Caller(t))
  /\ UNCHANGED <<decl, before, value, lanes, running, batch, zeroed, deferral,
                 flushVars, stopVars>>

\* try_add_to_waiting: park, unless the counter reached zero meanwhile.
Park(t) ==
  /\ pc[t] = "park"
  /\ LET j == hand[t]
         w == decl[j].wait
     IN IF IsZero(w)
        THEN /\ place' = [place EXCEPT ![j] = "cleared"]
             /\ Goto(t, "push")
             /\ UNCHANGED <<waiting, hand>>
        ELSE /\ place' = [place EXCEPT ![j] = "parked"]
             /\ waiting' = [waiting EXCEPT ![w] = Append(@, j)]
             /\ hand' = [hand EXCEPT ![t] = NoJob]
             /\ Goto(t, Caller(t))
  /\ UNCHANGED <<decl, before, value, lanes, running, batch, zeroed, deferral,
                 flushVars, stopVars>>

\* try_push_if_open in an open lane with room.
Enqueue(j) ==
  /\ ~closed
  /\ HasRoom(j)
  /\ lanes' = [lanes EXCEPT ![LaneOf(j)] = Append(@, j)]
  /\ place' = [place EXCEPT ![j] = "ready"]

\* queue_job_and_signal, for a dispatch and for the flush loop's requeue_job.
Push(t) ==
  /\ pc[t] \in {"push", "requeue"}
  /\ Enqueue(hand[t])
  /\ hand' = [hand EXCEPT ![t] = NoJob]
  /\ Goto(t, IF pc[t] = "push" THEN "signal" ELSE "signalRequeue")
  /\ UNCHANGED <<decl, before, counterVars, running, batch, zeroed, deferral,
                 flushVars, stopVars>>

\* "cannot dispatch job after shutdown" and "ready queue is full".
PushPanics(t) ==
  /\ pc[t] \in {"push", "requeue"}
  /\ shutdown \/ ~HasRoom(hand[t])
  /\ Panic(t)

\* The notify_one that follows a push, outside the queue lock.
Signal(t) ==
  /\ pc[t] \in {"signal", "signalRelease", "signalRequeue"}
  /\ NotifyOne(t, CASE pc[t] = "signal" -> Caller(t)
                    [] pc[t] = "signalRelease" -> "release"
                    [] pc[t] = "signalRequeue" -> "wakewait")
  /\ UNCHANGED <<jobVars, counterVars, lanes, hand, running, batch, zeroed,
                 deferral, flushVars, stopVars>>

-----------------------------------------------------------------------------
(* Completing a unit: decrement_counter_entry *)

\* Mutant of Decrement: the zero transition releases nobody.
DecrementOnly(t, c, label) ==
  /\ value' = [value EXCEPT ![c] = @ - 1]
  /\ Goto(t, label)
  /\ UNCHANGED zeroed

\* Takes c down by one for thread t, which goes on to label unless c is zero.
Decrement(t, c, label) ==
  /\ value' = [value EXCEPT ![c] = @ - 1]
  /\ IF value[c] = 1
     THEN Goto(t, "zeroed") /\ zeroed' = [zeroed EXCEPT ![t] = c]
     ELSE Goto(t, label) /\ UNCHANGED zeroed

\* The job's closure returns and its accumulate counter is decremented.
FinishBody(t) ==
  /\ pc[t] = "body"
  /\ Decrement(t, decl[running[t]].accum, Idle(t))
  /\ place' = [place EXCEPT ![running[t]] = "done"]
  /\ running' = [running EXCEPT ![t] = NoJob]
  /\ UNCHANGED <<decl, before, waiting, lanes, hand, batch, deferral, flushVars, stopVars>>

CreateDeferral(t, d) ==
  /\ InUserCode(t)
  /\ deferral[d] = "unused"
  /\ deferral' = [deferral EXCEPT ![d] = "held"]
  /\ value' = [value EXCEPT ![DeferralCounter[d]] = @ + 1]
  /\ UNCHANGED <<jobVars, waiting, lanes, threadVars, flushVars, stopVars>>

\* Mutant of FinishDeferral: the drop that follows a finish counts off again.
FinishDeferralTwice(t, d) ==
  /\ InUserCode(t)
  /\ deferral[d] = "held"
  /\ Decrement(t, DeferralCounter[d], pc[t])
  /\ UNCHANGED <<jobVars, waiting, lanes, hand, running, batch, deferral, flushVars, stopVars>>

\* CompletionDeferral::finish, and its Drop when it was not finished.
FinishDeferral(t, d) ==
  /\ InUserCode(t)
  /\ deferral[d] = "held"
  /\ deferral' = [deferral EXCEPT ![d] = "finished"]
  /\ Decrement(t, DeferralCounter[d], pc[t])
  /\ UNCHANGED <<jobVars, waiting, lanes, hand, running, batch, flushVars, stopVars>>

\* The zero transition wakes every sleeper, the flush thread among them.
AnnounceZero(t) ==
  /\ pc[t] = "zeroed"
  /\ IF shutdown
     THEN Goto(t, Caller(t)) /\ zeroed' = [zeroed EXCEPT ![t] = NoCounter]
     ELSE NotifyAll(t, "drain") /\ UNCHANGED zeroed
  /\ UNCHANGED <<jobVars, counterVars, lanes, hand, running, batch, deferral,
                 flushVars, stopVars>>

\* Mutant of DrainWaiting: no recheck that the counter is still zero.
DrainWaitingUnchecked(t) ==
  /\ pc[t] = "drain"
  /\ LET c == zeroed[t]
     IN /\ batch' = [batch EXCEPT ![t] = waiting[c]]
        /\ waiting' = [waiting EXCEPT ![c] = <<>>]
        /\ place' = [j \in Jobs |->
                       IF j \in Range(waiting[c]) THEN "cleared" ELSE place[j]]
  /\ zeroed' = [zeroed EXCEPT ![t] = NoCounter]
  /\ Goto(t, "release")
  /\ UNCHANGED <<decl, before, value, lanes, hand, running, deferral, flushVars, stopVars>>

\* flush_waiting: take the whole list, unless the counter is in use again.
DrainWaiting(t) ==
  /\ pc[t] = "drain"
  /\ LET c == zeroed[t]
     IN IF IsZero(c)
        THEN /\ batch' = [batch EXCEPT ![t] = waiting[c]]
             /\ waiting' = [waiting EXCEPT ![c] = <<>>]
             /\ place' = [j \in Jobs |->
                            IF j \in Range(waiting[c]) THEN "cleared" ELSE place[j]]
        ELSE UNCHANGED <<batch, waiting, place>>
  /\ zeroed' = [zeroed EXCEPT ![t] = NoCounter]
  /\ Goto(t, "release")
  /\ UNCHANGED <<decl, before, value, lanes, hand, running, deferral, flushVars, stopVars>>

\* The waiting list is released from its end.
ReleaseOne(t) ==
  /\ pc[t] = "release"
  /\ batch[t] # <<>>
  /\ Enqueue(Last(batch[t]))
  /\ batch' = [batch EXCEPT ![t] = Front(@)]
  /\ Goto(t, "signalRelease")
  /\ UNCHANGED <<decl, before, counterVars, hand, running, zeroed, deferral,
                 flushVars, stopVars>>

\* Mutant of ReleaseEnds: one job is released and the others are forgotten.
ReleaseEndsEarly(t) ==
  /\ pc[t] = "release"
  /\ place' = [j \in Jobs |-> IF j \in Range(batch[t]) THEN "dropped" ELSE place[j]]
  /\ batch' = [batch EXCEPT ![t] = <<>>]
  /\ Goto(t, Caller(t))
  /\ UNCHANGED <<decl, before, counterVars, lanes, hand, running, zeroed,
                 deferral, flushVars, stopVars>>

\* Shutdown breaks the loop, which drops the rest of the list.
ReleaseEnds(t) ==
  /\ pc[t] = "release"
  /\ batch[t] = <<>> \/ shutdown
  /\ place' = [j \in Jobs |-> IF j \in Range(batch[t]) THEN "dropped" ELSE place[j]]
  /\ batch' = [batch EXCEPT ![t] = <<>>]
  /\ Goto(t, Caller(t))
  /\ UNCHANGED <<decl, before, counterVars, lanes, hand, running, zeroed,
                 deferral, flushVars, stopVars>>

ReleasePanics(t) ==
  /\ pc[t] = "release"
  /\ batch[t] # <<>>
  /\ ~closed /\ ~HasRoom(Last(batch[t]))
  /\ Panic(t)

-----------------------------------------------------------------------------
(* The worker loop *)

\* pop_highest_priority: thread t takes the oldest job of the top lane.
PopTop(t, label) ==
  /\ hand' = [hand EXCEPT ![t] = Head(lanes[TopLane])]
  /\ place' = [place EXCEPT ![Head(lanes[TopLane])] = "cleared"]
  /\ lanes' = [lanes EXCEPT ![TopLane] = Tail(@)]
  /\ Goto(t, label)

\* pop_blocking
PopBlocking(t) ==
  /\ pc[t] = "pop"
  /\ \/ closed /\ Goto(t, "stopped") /\ UNCHANGED <<hand, place, lanes>>
     \/ ~closed /\ HasReadyJob /\ PopTop(t, "popped")
     \/ ~closed /\ ~HasReadyJob /\ Goto(t, "waiting") /\ UNCHANGED <<hand, place, lanes>>
  /\ UNCHANGED <<decl, before, counterVars, running, batch, zeroed, deferral,
                 flushVars, stopVars>>

\* worker_loop drops a job popped after shutdown began, else runs it.
RunPopped(t) ==
  /\ pc[t] = "popped"
  /\ IF shutdown
     THEN /\ place' = [place EXCEPT ![hand[t]] = "dropped"]
          /\ Goto(t, "stopped")
          /\ UNCHANGED running
     ELSE /\ place' = [place EXCEPT ![hand[t]] = "running"]
          /\ Goto(t, "body")
          /\ running' = [running EXCEPT ![t] = hand[t]]
  /\ hand' = [hand EXCEPT ![t] = NoJob]
  /\ UNCHANGED <<decl, before, counterVars, lanes, batch, zeroed, deferral,
                 flushVars, stopVars>>

\* A condition variable may wake a sleeper that nobody notified.
SpuriousWake(t) ==
  /\ t \in Workers
  /\ pc[t] = "waiting"
  /\ Goto(t, "pop")
  /\ UNCHANGED <<jobVars, counterVars, lanes, hand, running, batch, zeroed,
                 deferral, flushVars, stopVars>>

-----------------------------------------------------------------------------
(* The flush loop *)

MinPriority(kind, c) == IF kind = "renderFrame" THEN RenderPath ELSE Priority(c)

\* num_worker_threads is zero once shutdown took the join handles.
ProcessesLarge(kind) ==
  \/ kind # "renderFrame"
  \/ closed \/ Cardinality(Workers) < 3

\* should_run_during_flush: j came from the given lane.
RunsDuringFlush(j, lane) ==
  \/ decl[j].accum = flush.target
  \/ decl[j].hint = "trivial"
  \/ lane >= flush.min /\ (flush.large \/ decl[j].hint # "large")

\* flush_counter, flush_counter_with_timeout, flush_counter_render_frame
BeginFlush(c, kind) ==
  /\ pc[FlushThread] = "free"
  /\ flush' = [target |-> c, min |-> MinPriority(kind, c), large |-> ProcessesLarge(kind),
               timed |-> kind = "timed"]
  /\ awaited' = Outstanding(c)
  /\ answer' = "pending"
  /\ Goto(FlushThread, "head")
  /\ UNCHANGED <<jobVars, counterVars, lanes, hand, running, batch, zeroed,
                 deferral, stopVars>>

FlushReturns(result) ==
  /\ flush' = NoFlush
  /\ awaited' = {}
  /\ answer' = result
  /\ Goto(FlushThread, "free")

\* The loop head: resolved, out of time, or round again.
FlushHead ==
  /\ pc[FlushThread] = "head"
  /\ \/ IsZero(flush.target) /\ FlushReturns("true")
     \/ ~IsZero(flush.target) /\ flush.timed /\ FlushReturns("false")
     \/ ~IsZero(flush.target) /\ Goto(FlushThread, "trypop") /\ UNCHANGED flushVars
  /\ UNCHANGED <<jobVars, counterVars, lanes, hand, running, batch, zeroed,
                 deferral, stopVars>>

\* try_pop, and the choice to run the job here or to give it back.
FlushPop ==
  /\ pc[FlushThread] = "trypop"
  /\ IF closed \/ ~HasReadyJob
     THEN Goto(FlushThread, "idlewait") /\ UNCHANGED <<hand, place, lanes, running>>
     ELSE LET j == Head(lanes[TopLane])
          IN IF RunsDuringFlush(j, TopLane)
             THEN /\ lanes' = [lanes EXCEPT ![TopLane] = Tail(@)]
                  /\ place' = [place EXCEPT ![j] = "running"]
                  /\ running' = [running EXCEPT ![FlushThread] = j]
                  /\ Goto(FlushThread, "body")
                  /\ UNCHANGED hand
             ELSE PopTop(FlushThread, "requeue") /\ UNCHANGED running
  /\ UNCHANGED <<decl, before, counterVars, batch, zeroed, deferral, flushVars, stopVars>>

\* wait_for_ready_job_timeout sleeps only while there is nothing to pop;
\* wait_for_queue_wakeup_timeout, after a requeue, sleeps all the same.
FlushSleep ==
  /\ pc[FlushThread] \in {"idlewait", "wakewait"}
  /\ IF \/ closed \/ IsZero(flush.target)
        \/ pc[FlushThread] = "idlewait" /\ HasReadyJob
     THEN Goto(FlushThread, "head")
     ELSE Goto(FlushThread, "waiting")
  /\ UNCHANGED <<jobVars, counterVars, lanes, hand, running, batch, zeroed,
                 deferral, flushVars, stopVars>>

\* FLUSH_IDLE_WAIT or the deadline passes.
FlushWaitExpires ==
  /\ pc[FlushThread] = "waiting"
  /\ Goto(FlushThread, "head")
  /\ UNCHANGED <<jobVars, counterVars, lanes, hand, running, batch, zeroed,
                 deferral, flushVars, stopVars>>

-----------------------------------------------------------------------------
(* Shutdown *)

\* Only the first caller gets past the swap of the shutdown flag.
BeginShutdown(t) ==
  /\ t \in Stoppers
  /\ InUserCode(t)
  /\ ~shutdown
  /\ shutdown' = TRUE
  /\ Goto(t, "close")
  /\ UNCHANGED <<jobVars, counterVars, lanes, hand, running, batch, zeroed,
                 deferral, flushVars, closed>>

\* ReadyQueues::shutdown drops every queued job and wakes every sleeper.
CloseQueues(t) ==
  /\ pc[t] = "close"
  /\ closed' = TRUE
  /\ lanes' = [l \in Lanes |-> <<>>]
  /\ place' = [j \in Jobs |-> IF place[j] = "ready" THEN "dropped" ELSE place[j]]
  /\ NotifyAll(t, "join")
  /\ UNCHANGED <<decl, before, counterVars, hand, running, batch, zeroed,
                 deferral, flushVars, shutdown>>

\* Joining waits for every worker; a worker that panicked makes join panic.
JoinWorkers(t) ==
  /\ pc[t] = "join"
  /\ \A w \in Workers : pc[w] = "stopped"
  /\ Goto(t, Caller(t))
  /\ UNCHANGED <<jobVars, counterVars, lanes, hand, running, batch, zeroed,
                 deferral, flushVars, stopVars>>

JoinPanics(t) ==
  /\ pc[t] = "join"
  /\ \A w \in Workers : pc[w] \in {"stopped", "panicked"}
  /\ \E w \in Workers : pc[w] = "panicked"
  /\ Panic(t)

-----------------------------------------------------------------------------
\* What the runtime does by itself once it has been called.
ThreadStep(t) ==
  \/ TestWait(t) \/ Park(t) \/ Push(t) \/ PushPanics(t) \/ Signal(t)
  \/ AnnounceZero(t) \/ DrainWaiting(t) \/ ReleaseOne(t) \/ ReleaseEnds(t)
  \/ ReleasePanics(t) \/ PopBlocking(t) \/ RunPopped(t)
  \/ CloseQueues(t) \/ JoinWorkers(t) \/ JoinPanics(t)

FlushStep == FlushHead \/ FlushPop \/ FlushSleep \/ FlushWaitExpires

\* What clients and job bodies choose to do.
UserStep(t) ==
  \/ \E j \in Jobs : Dispatch(t, j)
  \/ \E d \in Deferrals : CreateDeferral(t, d) \/ FinishDeferral(t, d)
  \/ FinishBody(t)
  \/ BeginShutdown(t)

Next ==
  \/ \E t \in Threads : ThreadStep(t) \/ UserStep(t) \/ SpuriousWake(t)
  \/ FlushStep
  \/ \E c \in Counters, kind \in FlushKinds : BeginFlush(c, kind)

Spec == Init /\ [][Next]_vars

\* Every thread keeps being scheduled, time passes and every closure returns;
\* nobody has to dispatch, flush or shut down.
Fairness ==
  /\ \A t \in Threads : WF_vars(ThreadStep(t)) /\ WF_vars(FinishBody(t))
  /\ WF_vars(FlushStep)

\* The owner of a deferral finishes or drops it sooner or later.
DeferralsEnd ==
  \A d \in Deferrals : SF_vars(\E t \in Threads : FinishDeferral(t, d))

FairSpec == Spec /\ Fairness /\ DeferralsEnd

\* The flush thread's short sleep after a requeue lets a woken worker reach the
\* queue at least once in a while before the job is popped back.
WorkersReachQueue ==
  \A w \in Workers : SF_vars(PopBlocking(w) /\ HasReadyJob)

FairSpecRequeue == FairSpec /\ WorkersReachQueue

-----------------------------------------------------------------------------
(* Properties *)

\* A counter's value is exactly the number of units counted on it that have
\* not been counted off: increment-before-queue in run_job, one decrement per
\* finished job or deferral, none for a parked, released or requeued job.
CounterConservation ==
  \A c \in Counters : value[c] = Cardinality(Outstanding(c))

\* While the system is up, a job parked behind a counter that is back at zero
\* has a thread on its way to release it: the recheck under the waiting lock
\* in try_add_to_waiting and flush_waiting leaves no window between "saw
\* nonzero" and "parked", even when the counter is reused meanwhile.
ReleaseUnderWay(c) ==
  \E t \in Threads : pc[t] \in {"zeroed", "drain"} /\ zeroed[t] = c
NoStrandedWaiter ==
  ~shutdown => \A c \in Counters :
    waiting[c] # <<>> => value[c] # 0 \/ ReleaseUnderWay(c)

\* A job that is queued, held for running, running or done had every unit it
\* was dispatched behind finish first, whatever was counted on its wait
\* counter since.
DependencyOrder ==
  \A j \in Jobs :
    place[j] \in {"cleared", "ready", "running", "done"} => before[j] \subseteq Finished

\* No ready job sits in the queues beside a sleeping worker unless somebody is
\* awake to look at the queues or a notification is still to come.  Workers
\* and the flush thread share one condition variable and a push notifies only
\* one of them, so a push may well wake the thread that does not want the job.
\* The thread that shuts the system down will empty the queues and wake everyone.
LooksAtQueues(t) ==
  \/ pc[t] \in {"signal", "signalRelease", "signalRequeue", "zeroed", "close"}
  \/ t \in Workers /\ pc[t] = "pop"
  \/ t = FlushThread /\ pc[t] \in {"head", "trypop", "requeue", "idlewait", "wakewait"}
NoLostWakeup ==
  (HasReadyJob /\ \E w \in Workers : pc[w] = "waiting")
    => \E t \in Threads : LooksAtQueues(t)

\* Jobs are only ever lost to shutdown or to a panic somebody saw.
NoSilentLoss ==
  (\E j \in Jobs : place[j] = "dropped")
    => shutdown \/ \E t \in Threads : pc[t] = "panicked"

\* What the contract sees of a unit.
JobPhase(p) ==
  CASE p = "new" -> "new"
    [] p \in {"counted", "parked", "cleared", "ready"} -> "open"
    [] p = "running" -> "running"
    [] p = "done" -> "finished"
    [] p = "dropped" -> "lost"
DeferralPhase(p) ==
  CASE p = "unused" -> "new" [] p = "held" -> "open" [] p = "finished" -> "finished"
UnitPhase ==
  [u \in Units |-> IF u \in Jobs THEN JobPhase(place[u]) ELSE DeferralPhase(deferral[u])]

\* The runtime implements the contract its callers rely on.
Contract == INSTANCE JobContract WITH unit <- UnitPhase
ImplementsContract == Contract!Spec

\* With acyclic dependencies every dispatched job finishes, unless the system is
\* shut down first.
EveryJobFinishes ==
  \A j \in Jobs : place[j] = "counted" ~> place[j] = "done" \/ shutdown

\* Every flush comes back, unless the system is shut down under it.
FlushComesBack == answer = "pending" ~> answer # "pending" \/ shutdown

\* shutdown joins: every worker leaves its loop whatever it was doing.
ShutdownStopsWorkers ==
  shutdown ~> \A w \in Workers : pc[w] \in {"stopped", "panicked"}

-----------------------------------------------------------------------------
(* The inductive invariant behind the safety properties *)

\* What a thread holds at each of its labels.
ThreadOK(t) ==
  /\ pc[t] \in {"counted", "park"} =>
       hand[t] \in Jobs /\ place[hand[t]] = "counted"
  /\ pc[t] \in {"push", "requeue", "popped"} =>
       hand[t] \in Jobs /\ place[hand[t]] = "cleared"
  /\ pc[t] \notin {"counted", "park", "push", "requeue", "popped"} => hand[t] = NoJob
  /\ pc[t] = "park" => decl[hand[t]].wait \in Counters
  /\ pc[t] = "body" => running[t] # NoJob
  /\ running[t] # NoJob => place[running[t]] = "running"
  /\ pc[t] \in {"zeroed", "drain"} <=> zeroed[t] \in Counters
  /\ pc[t] \notin {"release", "signalRelease"} => batch[t] = <<>>
ThreadsOK == \A t \in Threads : ThreadOK(t)

\* No job is in two hands, bodies or batches.
OneOwner == \A t, u \in Threads :
  /\ t # u /\ hand[t] # NoJob => hand[t] # hand[u]
  /\ t # u /\ running[t] # NoJob => running[t] # running[u]
  /\ \A i \in 1 .. Len(batch[t]) :
       /\ place[batch[t][i]] = "cleared"
       /\ hand[u] # batch[t][i]
       /\ \A k \in 1 .. Len(batch[u]) : batch[t][i] = batch[u][k] => t = u /\ i = k

\* A queued job is in one place of its own lane, a parked one in one place of
\* the list of the counter it waits for.
QueuesOK ==
  /\ \A l \in Lanes : \A i \in 1 .. Len(lanes[l]) :
       /\ place[lanes[l][i]] = "ready" /\ LaneOf(lanes[l][i]) = l
       /\ \A k \in 1 .. Len(lanes[l]) : lanes[l][i] = lanes[l][k] => i = k
  /\ \A c \in Counters : \A i \in 1 .. Len(waiting[c]) :
       /\ place[waiting[c][i]] = "parked" /\ decl[waiting[c][i]].wait = c
       /\ \A k \in 1 .. Len(waiting[c]) : waiting[c][i] = waiting[c][k] => i = k

\* What a job was dispatched behind has finished or is still counted.
BeforeOK == \A j \in Jobs :
  /\ place[j] = "new" => before[j] = {}
  /\ before[j] \subseteq Finished \cup
       (IF decl[j].wait = NoCounter THEN {} ELSE Outstanding(decl[j].wait))

Inductive ==
  /\ TypeOK /\ ThreadsOK /\ OneOwner /\ QueuesOK
  /\ CounterConservation /\ BeforeOK /\ DependencyOrder /\ NoStrandedWaiter
=============================================================================
