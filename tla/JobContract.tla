---------------------------- MODULE JobContract ----------------------------
(***************************************************************************)
(* What leet_jobs2 promises its callers, without queues, wait lists,       *)
(* condition variables or worker threads.                                  *)
(*                                                                         *)
(* A unit of work is a job or a completion deferral.  Every unit is opened *)
(* on one counter.  A job that was dispatched behind a wait counter starts *)
(* only after every unit that was open on that counter at the moment of    *)
(* the dispatch has finished, and a flush answers TRUE only after every    *)
(* unit that was open on its counter when the flush began has finished.    *)
(* A unit that is lost (shutdown, panic) never counts as finished.         *)
(***************************************************************************)
CONSTANTS Jobs, Deferrals

Units == Jobs \cup Deferrals

VARIABLES
  unit,     \* unit[u]: where unit u is in its life
  before,   \* before[j]: the units job j was dispatched behind
  awaited,  \* the units the flush in progress was called for
  answer    \* what the last flush returned, or what the present one does

vars == <<unit, before, awaited, answer>>

Phases == {"new", "open", "running", "finished", "lost"}
Answers == {"none", "pending", "true", "false"}

Finished == {u \in Units : unit[u] = "finished"}

\* Units that have been counted and whose completion has not been.
Open == {u \in Units : unit[u] \in {"open", "running", "lost"}}

TypeOK ==
  /\ unit \in [Units -> Phases]
  /\ before \in [Jobs -> SUBSET Units]
  /\ awaited \in SUBSET Units
  /\ answer \in Answers

Init ==
  /\ unit = [u \in Units |-> "new"]
  /\ before = [j \in Jobs |-> {}]
  /\ awaited = {}
  /\ answer = "none"

\* A job is dispatched behind some of the open units; a deferral behind none.
DispatchJob(j) ==
  /\ unit[j] = "new"
  /\ unit' = [unit EXCEPT ![j] = "open"]
  /\ \E B \in SUBSET Open : before' = [before EXCEPT ![j] = B]
  /\ UNCHANGED <<awaited, answer>>

OpenDeferral(d) ==
  /\ unit[d] = "new"
  /\ unit' = [unit EXCEPT ![d] = "open"]
  /\ UNCHANGED <<before, awaited, answer>>

Start(j) ==
  /\ unit[j] = "open"
  /\ before[j] \subseteq Finished
  /\ unit' = [unit EXCEPT ![j] = "running"]
  /\ UNCHANGED <<before, awaited, answer>>

Finish(u) ==
  /\ unit[u] = IF u \in Jobs THEN "running" ELSE "open"
  /\ unit' = [unit EXCEPT ![u] = "finished"]
  /\ UNCHANGED <<before, awaited, answer>>

\* Shutdown and panics discard jobs, and a panic may take the flush with it.
Lose(S) ==
  /\ S # {}
  /\ \A j \in S : unit[j] \in {"open", "running"}
  /\ unit' = [u \in Units |-> IF u \in S THEN "lost" ELSE unit[u]]
  /\ \/ UNCHANGED <<awaited, answer>>
     \/ awaited' = {} /\ answer' = "none"
  /\ UNCHANGED before

BeginFlush(B) ==
  /\ answer # "pending"
  /\ awaited' = B
  /\ answer' = "pending"
  /\ UNCHANGED <<unit, before>>

FlushResolved ==
  /\ answer = "pending"
  /\ awaited \subseteq Finished
  /\ awaited' = {}
  /\ answer' = "true"
  /\ UNCHANGED <<unit, before>>

FlushTimedOut ==
  /\ answer = "pending"
  /\ awaited' = {}
  /\ answer' = "false"
  /\ UNCHANGED <<unit, before>>

Next ==
  \/ \E j \in Jobs : DispatchJob(j) \/ Start(j)
  \/ \E d \in Deferrals : OpenDeferral(d)
  \/ \E u \in Units : Finish(u)
  \/ \E S \in SUBSET Jobs : Lose(S)
  \/ \E B \in SUBSET Open : BeginFlush(B)
  \/ FlushResolved
  \/ FlushTimedOut

Spec == Init /\ [][Next]_vars
=============================================================================
