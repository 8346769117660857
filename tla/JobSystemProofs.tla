-------------------------- MODULE JobSystemProofs --------------------------
(***************************************************************************)
(* Safety of the job runtime for every set of threads, jobs, deferrals and *)
(* counters, every program and every queue capacity.                       *)
(*                                                                         *)
(* Inductive is the invariant; each of its conjuncts has a lemma that      *)
(* takes it through the steps, in the order of StepCases.  The effects of  *)
(* the actions are lemmas of their own, so that the conjuncts share them.  *)
(* The second half adds Wakeups and the refinement of JobContract.         *)
(***************************************************************************)
EXTENDS JobSystem, FiniteSetTheorems, TLAPS

\* What the sequence operators of the model return.
LEMMA SeqFacts ==
  ASSUME NEW S, NEW s \in Seq(S)
  PROVE  /\ \A e \in S : Append(s, e) \in Seq(S)
         /\ s # <<>> => /\ Head(s) \in S /\ Tail(s) \in Seq(S)
                        /\ Front(s) \in Seq(S) /\ Last(s) \in S
         /\ Range(s) \subseteq S
         /\ \A e : e \in Range(s) <=> \E i \in 1 .. Len(s) : s[i] = e
BY DEF Front, Last, Range

\* The top lane is a non-empty one.
LEMMA TopLaneFacts ==
  ASSUME TypeOK, HasReadyJob
  PROVE  /\ TopLane \in Lanes /\ lanes[TopLane] # <<>>
         /\ Head(lanes[TopLane]) \in Jobs /\ Tail(lanes[TopLane]) \in Seq(Jobs)
<1>1. \E l \in Lanes : lanes[l] # <<>> /\ \A m \in Lanes : lanes[m] # <<>> => m <= l
  BY DEF HasReadyJob, Lanes, Latent, Immediate
<1>2. TopLane \in Lanes /\ lanes[TopLane] # <<>>
  BY <1>1 DEF TopLane
<1>3. lanes[TopLane] \in Seq(Jobs)
  BY <1>2 DEF TypeOK
<1> QED BY <1>2, <1>3, SeqFacts

\* A program declares every job.
LEMMA DeclType ==
  ASSUME TypeOK
  PROVE  decl \in [Jobs -> Decl]
BY ProgramsAssumption DEF TypeOK

\* Every job has a lane.
LEMMA LaneOfType ==
  ASSUME TypeOK, NEW j \in Jobs
  PROVE  LaneOf(j) \in Lanes
<1>1. decl[j].accum \in Counters
  BY DeclType DEF Decl
<1> QED BY <1>1, CountersAssumption
        DEF LaneOf, Priority, Lanes, Latent, CriticalPath, Immediate

\* The idle flush record is one.
LEMMA NoFlushType == NoFlush \in Flushes
BY DEF NoFlush, Flushes, Lanes, Latent, Immediate

\* Counting a unit off keeps a positive counter natural.
LEMMA DecrementType ==
  ASSUME TypeOK, NEW c \in Counters, value[c] > 0, NEW t, NEW label, Decrement(t, c, label)
  PROVE  value' \in [Counters -> Nat]
<1>1. value \in [Counters -> Nat] /\ value' = [value EXCEPT ![c] = @ - 1]
  BY DEF TypeOK, Decrement
<1> QED BY <1>1

\* Finitely many units are counted on a counter.
LEMMA OutstandingFinite ==
  ASSUME NEW c
  PROVE  IsFiniteSet(Outstanding(c))
<1> DEFINE J == {j \in Jobs : place[j] \notin {"new", "done"} /\ decl[j].accum = c}
           D == {d \in Deferrals : deferral[d] = "held" /\ DeferralCounter[d] = c}
<1>1. IsFiniteSet(J) /\ IsFiniteSet(D)
  <2>1. J \subseteq Jobs /\ D \subseteq Deferrals
    OBVIOUS
  <2> QED BY <2>1, FiniteAssumption, FS_Subset
<1> QED BY <1>1, FS_Union DEF Outstanding

\* A counter some unit is counted on is positive: this is where the type of
\* value, a natural number, rests on conservation.
LEMMA CountedPositive ==
  ASSUME TypeOK, CounterConservation, NEW c \in Counters, NEW u \in Outstanding(c)
  PROVE  value[c] \in Nat /\ value[c] > 0
<1>1. Outstanding(c) # {} /\ IsFiniteSet(Outstanding(c))
  BY OutstandingFinite
<1>2. Cardinality(Outstanding(c)) # 0 /\ Cardinality(Outstanding(c)) \in Nat
  BY <1>1, FS_EmptySet, FS_CardinalityType
<1> QED BY <1>2 DEF CounterConservation

\* The inductive step of TypeOK.
LEMMA TypeStep ==
  ASSUME Inductive, [Next]_vars
  PROVE  TypeOK'
<1>1. TypeOK /\ ThreadsOK /\ CounterConservation
  BY DEF Inductive
<1> USE <1>1
<1>2. ASSUME NEW t \in Threads, NEW j \in Jobs, Dispatch(t, j) PROVE TypeOK'
  <2>1. place' \in [Jobs -> Places]
    BY <1>2 DEF Dispatch, TypeOK, Places
  <2>2. before' \in [Jobs -> SUBSET Units]
    BY <1>2 DEF Dispatch, TypeOK, Outstanding, Units
  <2>3. value' \in [Counters -> Nat]
    BY <1>2, ProgramsAssumption DEF Dispatch, TypeOK, Decl
  <2>4. pc' \in [Threads -> Labels]
    BY <1>2 DEF Dispatch, TypeOK, Goto, Labels, Caller, Idle
  <2>5. hand' \in [Threads -> Jobs \cup {NoJob}]
    BY <1>2 DEF Dispatch, TypeOK
  <2>6. UNCHANGED <<decl, waiting, lanes, running, batch, zeroed, deferral, flush, awaited, answer, shutdown, closed>>
    BY <1>2 DEF Dispatch, jobVars, counterVars, threadVars, flushVars, stopVars
  <2> QED BY <2>1, <2>2, <2>3, <2>4, <2>5, <2>6 DEF TypeOK
<1>3. ASSUME NEW t \in Threads, TestWait(t) PROVE TypeOK'
  <2>1. place' \in [Jobs -> Places]
    BY <1>3 DEF TestWait, TypeOK, Places
  <2>2. pc' \in [Threads -> Labels]
    BY <1>3 DEF TestWait, TypeOK, Goto, Labels, Caller, Idle
  <2>3. UNCHANGED <<decl, before, value, waiting, lanes, hand, running, batch, zeroed, deferral, flush, awaited, answer, shutdown, closed>>
    BY <1>3 DEF TestWait, jobVars, counterVars, threadVars, flushVars, stopVars
  <2> QED BY <2>1, <2>2, <2>3 DEF TypeOK
<1>4. ASSUME NEW t \in Threads, Park(t) PROVE TypeOK'
  <2>1. place' \in [Jobs -> Places]
    BY <1>4 DEF Park, TypeOK, Places
  <2>2. waiting' \in [Counters -> Seq(Jobs)]
    <3>1. hand[t] \in Jobs /\ decl[hand[t]].wait \in Counters
      BY <1>4 DEF Park, ThreadsOK, ThreadOK
    <3>2. waiting \in [Counters -> Seq(Jobs)]
      BY DEF TypeOK
    <3>3. \/ UNCHANGED waiting
          \/ waiting' = [waiting EXCEPT ![decl[hand[t]].wait] = Append(@, hand[t])]
      BY <1>4 DEF Park
    <3>4. Append(waiting[decl[hand[t]].wait], hand[t]) \in Seq(Jobs)
      BY <3>1, <3>2, SeqFacts
    <3> QED BY <3>2, <3>3, <3>4
  <2>3. pc' \in [Threads -> Labels]
    BY <1>4 DEF Park, TypeOK, Goto, Labels, Caller, Idle
  <2>4. hand' \in [Threads -> Jobs \cup {NoJob}]
    BY <1>4 DEF Park, TypeOK
  <2>5. UNCHANGED <<decl, before, value, lanes, running, batch, zeroed, deferral, flush, awaited, answer, shutdown, closed>>
    BY <1>4 DEF Park, jobVars, counterVars, threadVars, flushVars, stopVars
  <2> QED BY <2>1, <2>2, <2>3, <2>4, <2>5 DEF TypeOK
<1>5. ASSUME NEW t \in Threads, Push(t) PROVE TypeOK'
  <2>1. place' \in [Jobs -> Places]
    BY <1>5 DEF Push, TypeOK, Enqueue, Places
  <2>2. lanes' \in [Lanes -> Seq(Jobs)]
    <3>1. hand[t] \in Jobs
      BY <1>5 DEF Push, ThreadsOK, ThreadOK
    <3>2. lanes \in [Lanes -> Seq(Jobs)] /\ LaneOf(hand[t]) \in Lanes
      BY <3>1, LaneOfType DEF TypeOK
    <3> QED BY <1>5, <3>1, <3>2, SeqFacts DEF Push, Enqueue
  <2>3. pc' \in [Threads -> Labels]
    BY <1>5 DEF Push, TypeOK, Goto, Labels, Caller, Idle
  <2>4. hand' \in [Threads -> Jobs \cup {NoJob}]
    BY <1>5 DEF Push, TypeOK
  <2>5. UNCHANGED <<decl, before, value, waiting, running, batch, zeroed, deferral, flush, awaited, answer, shutdown, closed>>
    BY <1>5 DEF Push, jobVars, counterVars, threadVars, flushVars, stopVars
  <2> QED BY <2>1, <2>2, <2>3, <2>4, <2>5 DEF TypeOK
<1>6. ASSUME NEW t \in Threads, Panic(t) PROVE TypeOK'
  <2>1. place' \in [Jobs -> Places]
    BY <1>6 DEF Panic, TypeOK, Places
  <2>2. pc' \in [Threads -> Labels]
    BY <1>6 DEF Panic, TypeOK, Goto, Labels, Caller, Idle
  <2>3. hand' \in [Threads -> Jobs \cup {NoJob}]
    BY <1>6 DEF Panic, TypeOK
  <2>4. running' \in [Threads -> Jobs \cup {NoJob}]
    BY <1>6 DEF Panic, TypeOK
  <2>5. batch' \in [Threads -> Seq(Jobs)]
    BY <1>6 DEF Panic, TypeOK
  <2>6. flush' \in Flushes
    BY <1>6, NoFlushType DEF Panic, TypeOK, flushVars
  <2>7. awaited' \in SUBSET Units
    BY <1>6 DEF Panic, TypeOK, flushVars
  <2>8. answer' \in {"none", "pending", "true", "false"}
    BY <1>6 DEF Panic, TypeOK, flushVars
  <2>9. UNCHANGED <<decl, before, value, waiting, lanes, zeroed, deferral, shutdown, closed>>
    BY <1>6 DEF Panic, jobVars, counterVars, threadVars, flushVars, stopVars
  <2> QED BY <2>1, <2>2, <2>3, <2>4, <2>5, <2>6, <2>7, <2>8, <2>9 DEF TypeOK
<1>7. ASSUME NEW t \in Threads, Signal(t) PROVE TypeOK'
  <2>1. pc' \in [Threads -> Labels]
    <3>1. pc \in [Threads -> Labels] /\ Caller(t) \in Labels
      BY DEF TypeOK, Caller, Idle, Labels
    <3>2. \A s \in Threads : Woken(s) \in Labels
      BY DEF Woken, Labels
    <3>3. {"release", "wakewait"} \subseteq Labels
      BY DEF Labels
    <3>4. \A label \in Labels : NotifyOne(t, label) => pc' \in [Threads -> Labels]
      BY <3>1, <3>2 DEF NotifyOne, Sleepers, Goto
    <3> QED BY <1>7, <3>1, <3>3, <3>4 DEF Signal
  <2>2. UNCHANGED <<decl, place, before, value, waiting, lanes, hand, running, batch, zeroed, deferral, flush, awaited, answer, shutdown, closed>>
    BY <1>7 DEF Signal, jobVars, counterVars, threadVars, flushVars, stopVars
  <2> QED BY <2>1, <2>2 DEF TypeOK
<1>8. ASSUME NEW t \in Threads, FinishBody(t) PROVE TypeOK'
  <2>1. place' \in [Jobs -> Places]
    BY <1>8 DEF FinishBody, TypeOK, Places
  <2>2. value' \in [Counters -> Nat]
    <3>1. running[t] \in Jobs /\ place[running[t]] = "running"
      BY <1>8, NamesAssumption DEF FinishBody, ThreadsOK, ThreadOK, TypeOK
    <3>2. decl[running[t]].accum \in Counters
      BY <3>1, DeclType DEF Decl
    <3>3. running[t] \in Outstanding(decl[running[t]].accum)
      BY <3>1 DEF Outstanding
    <3>4. value[decl[running[t]].accum] > 0
      BY <3>2, <3>3, CountedPositive
    <3> QED BY <1>8, <3>2, <3>4, DecrementType DEF FinishBody
  <2>3. pc' \in [Threads -> Labels]
    BY <1>8 DEF FinishBody, TypeOK, Decrement, Goto, Labels, Caller, Idle
  <2>4. running' \in [Threads -> Jobs \cup {NoJob}]
    BY <1>8 DEF FinishBody, TypeOK
  <2>5. zeroed' \in [Threads -> Counters \cup {NoCounter}]
    <3>1. running[t] \in Jobs /\ place[running[t]] = "running"
      BY <1>8, NamesAssumption DEF FinishBody, ThreadsOK, ThreadOK, TypeOK
    <3>2. decl[running[t]].accum \in Counters
      BY <3>1, DeclType DEF Decl
    <3> QED BY <1>8, <3>2 DEF FinishBody, Decrement, TypeOK
  <2>6. UNCHANGED <<decl, before, waiting, lanes, hand, batch, deferral, flush, awaited, answer, shutdown, closed>>
    BY <1>8 DEF FinishBody, jobVars, counterVars, threadVars, flushVars, stopVars, Decrement
  <2> QED BY <2>1, <2>2, <2>3, <2>4, <2>5, <2>6 DEF TypeOK
<1>9. ASSUME NEW t \in Threads, NEW d \in Deferrals, CreateDeferral(t, d) PROVE TypeOK'
  <2>1. value' \in [Counters -> Nat]
    <3>1. DeferralCounter[d] \in Counters /\ value \in [Counters -> Nat]
      BY CountersAssumption DEF TypeOK
    <3> QED BY <1>9, <3>1 DEF CreateDeferral
  <2>2. deferral' \in [Deferrals -> {"unused", "held", "finished"}]
    BY <1>9 DEF CreateDeferral, TypeOK
  <2>3. UNCHANGED <<decl, place, before, waiting, lanes, pc, hand, running, batch, zeroed, flush, awaited, answer, shutdown, closed>>
    BY <1>9 DEF CreateDeferral, jobVars, counterVars, threadVars, flushVars, stopVars
  <2> QED BY <2>1, <2>2, <2>3 DEF TypeOK
<1>10. ASSUME NEW t \in Threads, NEW d \in Deferrals, FinishDeferral(t, d) PROVE TypeOK'
  <2>1. value' \in [Counters -> Nat]
    <3>1. DeferralCounter[d] \in Counters
      BY CountersAssumption
    <3>2. d \in Outstanding(DeferralCounter[d])
      BY <1>10 DEF FinishDeferral, Outstanding
    <3>3. value[DeferralCounter[d]] > 0
      BY <3>1, <3>2, CountedPositive
    <3> QED BY <1>10, <3>1, <3>3, DecrementType DEF FinishDeferral
  <2>2. pc' \in [Threads -> Labels]
    BY <1>10 DEF FinishDeferral, TypeOK, Decrement, InUserCode, Goto, Labels, Caller, Idle
  <2>3. zeroed' \in [Threads -> Counters \cup {NoCounter}]
    BY <1>10, CountersAssumption DEF FinishDeferral, TypeOK, Decrement
  <2>4. deferral' \in [Deferrals -> {"unused", "held", "finished"}]
    BY <1>10 DEF FinishDeferral, TypeOK
  <2>5. UNCHANGED <<decl, place, before, waiting, lanes, hand, running, batch, flush, awaited, answer, shutdown, closed>>
    BY <1>10 DEF FinishDeferral, jobVars, counterVars, threadVars, flushVars, stopVars
  <2> QED BY <2>1, <2>2, <2>3, <2>4, <2>5 DEF TypeOK
<1>11. ASSUME NEW t \in Threads, AnnounceZero(t) PROVE TypeOK'
  <2>1. pc' \in [Threads -> Labels]
    BY <1>11 DEF AnnounceZero, TypeOK, NotifyAll, Woken, Goto, Labels, Caller, Idle
  <2>2. zeroed' \in [Threads -> Counters \cup {NoCounter}]
    BY <1>11 DEF AnnounceZero, TypeOK
  <2>3. UNCHANGED <<decl, place, before, value, waiting, lanes, hand, running, batch, deferral, flush, awaited, answer, shutdown, closed>>
    BY <1>11 DEF AnnounceZero, jobVars, counterVars, threadVars, flushVars, stopVars
  <2> QED BY <2>1, <2>2, <2>3 DEF TypeOK
<1>12. ASSUME NEW t \in Threads, DrainWaiting(t) PROVE TypeOK'
  <2>1. place' \in [Jobs -> Places]
    BY <1>12 DEF DrainWaiting, TypeOK, Places
  <2>2. waiting' \in [Counters -> Seq(Jobs)]
    <3>1. waiting \in [Counters -> Seq(Jobs)] /\ zeroed[t] \in Counters
      BY <1>12 DEF TypeOK, DrainWaiting, ThreadsOK, ThreadOK
    <3>2. batch \in [Threads -> Seq(Jobs)]
      BY DEF TypeOK
    <3>3. \/ UNCHANGED <<waiting, batch>>
          \/ /\ waiting' = [waiting EXCEPT ![zeroed[t]] = <<>>]
             /\ batch' = [batch EXCEPT ![t] = waiting[zeroed[t]]]
      BY <1>12 DEF DrainWaiting
    <3>4. waiting[zeroed[t]] \in Seq(Jobs) /\ <<>> \in Seq(Jobs)
      BY <3>1
    <3> QED BY <3>1, <3>2, <3>3, <3>4
  <2>3. pc' \in [Threads -> Labels]
    BY <1>12 DEF DrainWaiting, TypeOK, Goto, Labels, Caller, Idle
  <2>4. batch' \in [Threads -> Seq(Jobs)]
    <3>1. waiting \in [Counters -> Seq(Jobs)] /\ zeroed[t] \in Counters
      BY <1>12 DEF TypeOK, DrainWaiting, ThreadsOK, ThreadOK
    <3>2. batch \in [Threads -> Seq(Jobs)]
      BY DEF TypeOK
    <3>3. \/ UNCHANGED <<waiting, batch>>
          \/ /\ waiting' = [waiting EXCEPT ![zeroed[t]] = <<>>]
             /\ batch' = [batch EXCEPT ![t] = waiting[zeroed[t]]]
      BY <1>12 DEF DrainWaiting
    <3>4. waiting[zeroed[t]] \in Seq(Jobs) /\ <<>> \in Seq(Jobs)
      BY <3>1
    <3> QED BY <3>1, <3>2, <3>3, <3>4
  <2>5. zeroed' \in [Threads -> Counters \cup {NoCounter}]
    BY <1>12 DEF DrainWaiting, TypeOK
  <2>6. UNCHANGED <<decl, before, value, lanes, hand, running, deferral, flush, awaited, answer, shutdown, closed>>
    BY <1>12 DEF DrainWaiting, jobVars, counterVars, threadVars, flushVars, stopVars
  <2> QED BY <2>1, <2>2, <2>3, <2>4, <2>5, <2>6 DEF TypeOK
<1>13. ASSUME NEW t \in Threads, ReleaseOne(t) PROVE TypeOK'
  <2>1. place' \in [Jobs -> Places]
    BY <1>13 DEF ReleaseOne, TypeOK, Enqueue, Places
  <2>2. lanes' \in [Lanes -> Seq(Jobs)]
    <3>1. Last(batch[t]) \in Jobs
      BY <1>13, SeqFacts DEF ReleaseOne, TypeOK
    <3>2. lanes \in [Lanes -> Seq(Jobs)] /\ LaneOf(Last(batch[t])) \in Lanes
      BY <3>1, LaneOfType DEF TypeOK
    <3> QED BY <1>13, <3>1, <3>2, SeqFacts DEF ReleaseOne, Enqueue
  <2>3. pc' \in [Threads -> Labels]
    BY <1>13 DEF ReleaseOne, TypeOK, Goto, Labels, Caller, Idle
  <2>4. batch' \in [Threads -> Seq(Jobs)]
    BY <1>13, SeqFacts DEF ReleaseOne, TypeOK
  <2>5. UNCHANGED <<decl, before, value, waiting, hand, running, zeroed, deferral, flush, awaited, answer, shutdown, closed>>
    BY <1>13 DEF ReleaseOne, jobVars, counterVars, threadVars, flushVars, stopVars
  <2> QED BY <2>1, <2>2, <2>3, <2>4, <2>5 DEF TypeOK
<1>14. ASSUME NEW t \in Threads, ReleaseEnds(t) PROVE TypeOK'
  <2>1. place' \in [Jobs -> Places]
    BY <1>14 DEF ReleaseEnds, TypeOK, Places
  <2>2. pc' \in [Threads -> Labels]
    BY <1>14 DEF ReleaseEnds, TypeOK, Goto, Labels, Caller, Idle
  <2>3. batch' \in [Threads -> Seq(Jobs)]
    BY <1>14 DEF ReleaseEnds, TypeOK
  <2>4. UNCHANGED <<decl, before, value, waiting, lanes, hand, running, zeroed, deferral, flush, awaited, answer, shutdown, closed>>
    BY <1>14 DEF ReleaseEnds, jobVars, counterVars, threadVars, flushVars, stopVars
  <2> QED BY <2>1, <2>2, <2>3, <2>4 DEF TypeOK
<1>15. ASSUME NEW t \in Threads, PopBlocking(t) PROVE TypeOK'
  <2>1. place' \in [Jobs -> Places]
    BY <1>15 DEF PopBlocking, TypeOK, PopTop, Places
  <2>2. lanes' \in [Lanes -> Seq(Jobs)]
    <3>1. lanes \in [Lanes -> Seq(Jobs)]
      BY DEF TypeOK
    <3>2. HasReadyJob => /\ TopLane \in Lanes /\ Head(lanes[TopLane]) \in Jobs
                         /\ Tail(lanes[TopLane]) \in Seq(Jobs)
      BY TopLaneFacts
    <3> QED BY <1>15, <3>1, <3>2 DEF PopBlocking, PopTop
  <2>3. pc' \in [Threads -> Labels]
    BY <1>15 DEF PopBlocking, TypeOK, PopTop, Goto, Labels, Caller, Idle
  <2>4. hand' \in [Threads -> Jobs \cup {NoJob}]
    <3>1. lanes \in [Lanes -> Seq(Jobs)]
      BY DEF TypeOK
    <3>2. HasReadyJob => /\ TopLane \in Lanes /\ Head(lanes[TopLane]) \in Jobs
                         /\ Tail(lanes[TopLane]) \in Seq(Jobs)
      BY TopLaneFacts
    <3> QED BY <1>15, <3>1, <3>2 DEF PopBlocking, PopTop, TypeOK
  <2>5. UNCHANGED <<decl, before, value, waiting, running, batch, zeroed, deferral, flush, awaited, answer, shutdown, closed>>
    BY <1>15 DEF PopBlocking, jobVars, counterVars, threadVars, flushVars, stopVars, PopTop
  <2> QED BY <2>1, <2>2, <2>3, <2>4, <2>5 DEF TypeOK
<1>16. ASSUME NEW t \in Threads, RunPopped(t) PROVE TypeOK'
  <2>1. place' \in [Jobs -> Places]
    BY <1>16 DEF RunPopped, TypeOK, Places
  <2>2. pc' \in [Threads -> Labels]
    BY <1>16 DEF RunPopped, TypeOK, Goto, Labels, Caller, Idle
  <2>3. hand' \in [Threads -> Jobs \cup {NoJob}]
    BY <1>16 DEF RunPopped, TypeOK
  <2>4. running' \in [Threads -> Jobs \cup {NoJob}]
    BY <1>16 DEF RunPopped, TypeOK
  <2>5. UNCHANGED <<decl, before, value, waiting, lanes, batch, zeroed, deferral, flush, awaited, answer, shutdown, closed>>
    BY <1>16 DEF RunPopped, jobVars, counterVars, threadVars, flushVars, stopVars
  <2> QED BY <2>1, <2>2, <2>3, <2>4, <2>5 DEF TypeOK
<1>17. ASSUME NEW t \in Threads, SpuriousWake(t) PROVE TypeOK'
  <2>1. pc' \in [Threads -> Labels]
    BY <1>17 DEF SpuriousWake, TypeOK, Goto, Labels, Caller, Idle
  <2>2. UNCHANGED <<decl, place, before, value, waiting, lanes, hand, running, batch, zeroed, deferral, flush, awaited, answer, shutdown, closed>>
    BY <1>17 DEF SpuriousWake, jobVars, counterVars, threadVars, flushVars, stopVars
  <2> QED BY <2>1, <2>2 DEF TypeOK
<1>18. ASSUME NEW t \in Threads, CloseQueues(t) PROVE TypeOK'
  <2>1. place' \in [Jobs -> Places]
    BY <1>18 DEF CloseQueues, TypeOK, Places
  <2>2. lanes' \in [Lanes -> Seq(Jobs)]
    BY <1>18 DEF CloseQueues, TypeOK
  <2>3. pc' \in [Threads -> Labels]
    BY <1>18 DEF CloseQueues, TypeOK, NotifyAll, Woken, Goto, Labels, Caller, Idle
  <2>4. closed' \in BOOLEAN
    BY <1>18 DEF CloseQueues, TypeOK
  <2>5. UNCHANGED <<decl, before, value, waiting, hand, running, batch, zeroed, deferral, flush, awaited, answer, shutdown>>
    BY <1>18 DEF CloseQueues, jobVars, counterVars, threadVars, flushVars, stopVars
  <2> QED BY <2>1, <2>2, <2>3, <2>4, <2>5 DEF TypeOK
<1>19. ASSUME NEW t \in Threads, JoinWorkers(t) PROVE TypeOK'
  <2>1. pc' \in [Threads -> Labels]
    BY <1>19 DEF JoinWorkers, TypeOK, Goto, Labels, Caller, Idle
  <2>2. UNCHANGED <<decl, place, before, value, waiting, lanes, hand, running, batch, zeroed, deferral, flush, awaited, answer, shutdown, closed>>
    BY <1>19 DEF JoinWorkers, jobVars, counterVars, threadVars, flushVars, stopVars
  <2> QED BY <2>1, <2>2 DEF TypeOK
<1>20. ASSUME NEW t \in Threads, BeginShutdown(t) PROVE TypeOK'
  <2>1. pc' \in [Threads -> Labels]
    BY <1>20 DEF BeginShutdown, TypeOK, Goto, Labels, Caller, Idle
  <2>2. shutdown' \in BOOLEAN
    BY <1>20 DEF BeginShutdown, TypeOK
  <2>3. UNCHANGED <<decl, place, before, value, waiting, lanes, hand, running, batch, zeroed, deferral, flush, awaited, answer, closed>>
    BY <1>20 DEF BeginShutdown, jobVars, counterVars, threadVars, flushVars, stopVars
  <2> QED BY <2>1, <2>2, <2>3 DEF TypeOK
<1>21. ASSUME NEW c \in Counters, NEW kind \in FlushKinds, BeginFlush(c, kind) PROVE TypeOK'
  <2>1. pc' \in [Threads -> Labels]
    BY <1>21 DEF BeginFlush, TypeOK, Goto, Labels, Caller, Idle
  <2>2. flush' \in Flushes
    BY <1>21, CountersAssumption DEF BeginFlush, TypeOK, Flushes, MinPriority, ProcessesLarge, Priority, Lanes, Latent, RenderPath, CriticalPath, Immediate
  <2>3. awaited' \in SUBSET Units
    BY <1>21 DEF BeginFlush, TypeOK, Outstanding, Units
  <2>4. answer' \in {"none", "pending", "true", "false"}
    BY <1>21 DEF BeginFlush, TypeOK
  <2>5. UNCHANGED <<decl, place, before, value, waiting, lanes, hand, running, batch, zeroed, deferral, shutdown, closed>>
    BY <1>21 DEF BeginFlush, jobVars, counterVars, threadVars, flushVars, stopVars
  <2> QED BY <2>1, <2>2, <2>3, <2>4, <2>5 DEF TypeOK
<1>22. ASSUME FlushHead PROVE TypeOK'
  <2>1. pc' \in [Threads -> Labels]
    BY <1>22 DEF FlushHead, TypeOK, FlushReturns, Goto, Labels, Caller, Idle
  <2>2. flush' \in Flushes
    BY <1>22, NoFlushType DEF FlushHead, TypeOK, FlushReturns, flushVars
  <2>3. awaited' \in SUBSET Units
    BY <1>22 DEF FlushHead, TypeOK, FlushReturns, flushVars
  <2>4. answer' \in {"none", "pending", "true", "false"}
    BY <1>22 DEF FlushHead, TypeOK, FlushReturns, flushVars
  <2>5. UNCHANGED <<decl, place, before, value, waiting, lanes, hand, running, batch, zeroed, deferral, shutdown, closed>>
    BY <1>22 DEF FlushHead, jobVars, counterVars, threadVars, flushVars, stopVars
  <2> QED BY <2>1, <2>2, <2>3, <2>4, <2>5 DEF TypeOK
<1>23. ASSUME FlushPop PROVE TypeOK'
  <2>1. place' \in [Jobs -> Places]
    BY <1>23 DEF FlushPop, TypeOK, PopTop, Places
  <2>2. lanes' \in [Lanes -> Seq(Jobs)]
    <3>1. lanes \in [Lanes -> Seq(Jobs)]
      BY DEF TypeOK
    <3>2. HasReadyJob => /\ TopLane \in Lanes /\ Head(lanes[TopLane]) \in Jobs
                         /\ Tail(lanes[TopLane]) \in Seq(Jobs)
      BY TopLaneFacts
    <3> QED BY <1>23, <3>1, <3>2 DEF FlushPop, PopTop
  <2>3. pc' \in [Threads -> Labels]
    BY <1>23 DEF FlushPop, TypeOK, PopTop, Goto, Labels, Caller, Idle
  <2>4. hand' \in [Threads -> Jobs \cup {NoJob}]
    <3>1. lanes \in [Lanes -> Seq(Jobs)]
      BY DEF TypeOK
    <3>2. HasReadyJob => /\ TopLane \in Lanes /\ Head(lanes[TopLane]) \in Jobs
                         /\ Tail(lanes[TopLane]) \in Seq(Jobs)
      BY TopLaneFacts
    <3> QED BY <1>23, <3>1, <3>2 DEF FlushPop, PopTop, TypeOK
  <2>5. running' \in [Threads -> Jobs \cup {NoJob}]
    BY <1>23, SeqFacts, TopLaneFacts DEF FlushPop, TypeOK
  <2>6. UNCHANGED <<decl, before, value, waiting, batch, zeroed, deferral, flush, awaited, answer, shutdown, closed>>
    BY <1>23 DEF FlushPop, jobVars, counterVars, threadVars, flushVars, stopVars, PopTop
  <2> QED BY <2>1, <2>2, <2>3, <2>4, <2>5, <2>6 DEF TypeOK
<1>24. ASSUME FlushSleep PROVE TypeOK'
  <2>1. pc' \in [Threads -> Labels]
    BY <1>24 DEF FlushSleep, TypeOK, Goto, Labels, Caller, Idle
  <2>2. UNCHANGED <<decl, place, before, value, waiting, lanes, hand, running, batch, zeroed, deferral, flush, awaited, answer, shutdown, closed>>
    BY <1>24 DEF FlushSleep, jobVars, counterVars, threadVars, flushVars, stopVars
  <2> QED BY <2>1, <2>2 DEF TypeOK
<1>25. ASSUME FlushWaitExpires PROVE TypeOK'
  <2>1. pc' \in [Threads -> Labels]
    BY <1>25 DEF FlushWaitExpires, TypeOK, Goto, Labels, Caller, Idle
  <2>2. UNCHANGED <<decl, place, before, value, waiting, lanes, hand, running, batch, zeroed, deferral, flush, awaited, answer, shutdown, closed>>
    BY <1>25 DEF FlushWaitExpires, jobVars, counterVars, threadVars, flushVars, stopVars
  <2> QED BY <2>1, <2>2 DEF TypeOK
<1>26. CASE UNCHANGED vars
  BY <1>26 DEF vars, TypeOK
<1> QED
  BY <1>2, <1>3, <1>4, <1>5, <1>6, <1>7, <1>8, <1>9, <1>10, <1>11, <1>12, <1>13, <1>14, <1>15, <1>16, <1>17, <1>18, <1>19, <1>20, <1>21, <1>22, <1>23, <1>24, <1>25, <1>26
  DEF Next, ThreadStep, UserStep, FlushStep, PushPanics, ReleasePanics, JoinPanics

\* The types of the function-valued variables, without TypeOK unfolded.
LEMMA FunctionTypes ==
  ASSUME Inductive
  PROVE  /\ decl \in [Jobs -> Decl]
         /\ place \in [Jobs -> Places]
         /\ value \in [Counters -> Nat]
         /\ waiting \in [Counters -> Seq(Jobs)]
         /\ lanes \in [Lanes -> Seq(Jobs)]
         /\ pc \in [Threads -> Labels]
         /\ hand \in [Threads -> Jobs \cup {NoJob}]
         /\ running \in [Threads -> Jobs \cup {NoJob}]
         /\ batch \in [Threads -> Seq(Jobs)]
         /\ zeroed \in [Threads -> Counters \cup {NoCounter}]
         /\ deferral \in [Deferrals -> {"unused", "held", "finished"}]
BY DeclType DEF Inductive, TypeOK

ThreadsButOneUnchanged(t) == \A u \in Threads \ {t} :
  /\ pc'[u] = pc[u] /\ hand'[u] = hand[u] /\ running'[u] = running[u]
  /\ batch'[u] = batch[u] /\ zeroed'[u] = zeroed[u]
PlacesUnchangedBut(X) == \A j \in Jobs \ X : place'[j] = place[j]

\* The effect of a dispatch; the lemmas like this one say what each action that
\* moves a job does, point by point.
LEMMA DispatchEffect ==
  ASSUME Inductive, NEW t \in Threads, NEW j \in Jobs, Dispatch(t, j)
  PROVE  /\ pc[t] \in {"free", "body"} /\ pc'[t] = "counted"
         /\ place[j] = "new" /\ place'[j] = "counted" /\ PlacesUnchangedBut({j})
         /\ hand[t] = NoJob /\ hand'[t] = j
         /\ running'[t] = running[t] /\ batch'[t] = batch[t] /\ zeroed'[t] = zeroed[t]
         /\ ThreadsButOneUnchanged(t)
         /\ UNCHANGED <<decl, waiting, lanes, deferral>>
<1>1. pc[t] \in {"free", "body"} /\ hand[t] = NoJob
  BY DEF Dispatch, InUserCode, Inductive, ThreadsOK, ThreadOK
<1> QED BY <1>1, FunctionTypes DEF Dispatch, Goto, PlacesUnchangedBut, ThreadsButOneUnchanged, flushVars, stopVars

\* The effect of the look at the wait counter.
LEMMA TestWaitEffect ==
  ASSUME Inductive, NEW t \in Threads, TestWait(t)
  PROVE  /\ pc[t] = "counted" /\ hand[t] \in Jobs /\ place[hand[t]] = "counted"
         /\ \/ pc'[t] = "push" /\ place'[hand[t]] = "cleared"
               /\ (decl[hand[t]].wait = NoCounter \/ value[decl[hand[t]].wait] = 0)
            \/ pc'[t] = "park" /\ place' = place /\ decl[hand[t]].wait \in Counters
         /\ PlacesUnchangedBut({hand[t]})
         /\ hand'[t] = hand[t] /\ running'[t] = running[t] /\ batch'[t] = batch[t]
         /\ zeroed'[t] = zeroed[t]
         /\ ThreadsButOneUnchanged(t)
         /\ UNCHANGED <<decl, before, value, waiting, lanes, deferral, shutdown>>
<1>1. pc[t] = "counted" /\ hand[t] \in Jobs /\ place[hand[t]] = "counted"
  BY DEF TestWait, Inductive, ThreadsOK, ThreadOK
<1>2. decl[hand[t]].wait \in Counters \cup {NoCounter}
  BY <1>1, FunctionTypes DEF Decl
<1>3. \/ pc' = [pc EXCEPT ![t] = "push"] /\ place' = [place EXCEPT ![hand[t]] = "cleared"]
               /\ (decl[hand[t]].wait = NoCounter \/ value[decl[hand[t]].wait] = 0)
      \/ pc' = [pc EXCEPT ![t] = "park"] /\ place' = place /\ decl[hand[t]].wait \in Counters
  BY <1>2 DEF TestWait, Goto, IsZero
<1>4. UNCHANGED <<decl, before, counterVars, lanes, hand, running, batch, zeroed,
                 deferral, flushVars, stopVars>>
  BY DEF TestWait
<1> QED BY <1>1, <1>3, <1>4, FunctionTypes DEF PlacesUnchangedBut, ThreadsButOneUnchanged, counterVars, stopVars

\* The effect of parking.
LEMMA ParkEffect ==
  ASSUME Inductive, NEW t \in Threads, Park(t)
  PROVE  /\ pc[t] = "park" /\ hand[t] \in Jobs /\ place[hand[t]] = "counted"
         /\ decl[hand[t]].wait \in Counters
         /\ \/ /\ pc'[t] = "push" /\ hand'[t] = hand[t] /\ place'[hand[t]] = "cleared"
               /\ value[decl[hand[t]].wait] = 0 /\ waiting' = waiting
            \/ /\ pc'[t] = Caller(t) /\ hand'[t] = NoJob /\ place'[hand[t]] = "parked"
               /\ value[decl[hand[t]].wait] # 0
               /\ waiting' = [waiting EXCEPT ![decl[hand[t]].wait] = Append(@, hand[t])]
         /\ PlacesUnchangedBut({hand[t]})
         /\ running'[t] = running[t] /\ batch'[t] = batch[t] /\ zeroed'[t] = zeroed[t]
         /\ ThreadsButOneUnchanged(t)
         /\ UNCHANGED <<decl, before, value, lanes, deferral, shutdown>>
<1>1. /\ pc[t] = "park" /\ hand[t] \in Jobs /\ place[hand[t]] = "counted"
      /\ decl[hand[t]].wait \in Counters
  BY DEF Park, Inductive, ThreadsOK, ThreadOK
<1>2. \/ /\ pc' = [pc EXCEPT ![t] = "push"] /\ hand' = hand /\ waiting' = waiting
         /\ place' = [place EXCEPT ![hand[t]] = "cleared"]
         /\ value[decl[hand[t]].wait] = 0
      \/ /\ pc' = [pc EXCEPT ![t] = Caller(t)] /\ hand' = [hand EXCEPT ![t] = NoJob]
         /\ place' = [place EXCEPT ![hand[t]] = "parked"]
         /\ value[decl[hand[t]].wait] # 0
         /\ waiting' = [waiting EXCEPT ![decl[hand[t]].wait] = Append(@, hand[t])]
  BY DEF Park, Goto, IsZero
<1>3. UNCHANGED <<decl, before, value, lanes, running, batch, zeroed, deferral, shutdown>>
  BY DEF Park, stopVars
<1> QED BY <1>1, <1>2, <1>3, FunctionTypes DEF PlacesUnchangedBut, ThreadsButOneUnchanged

\* The effect of a push.
LEMMA PushEffect ==
  ASSUME Inductive, NEW t \in Threads, Push(t)
  PROVE  /\ \/ pc[t] = "push" /\ pc'[t] = "signal"
            \/ pc[t] = "requeue" /\ pc'[t] = "signalRequeue"
         /\ hand[t] \in Jobs /\ place[hand[t]] = "cleared"
         /\ hand'[t] = NoJob /\ place'[hand[t]] = "ready"
         /\ LaneOf(hand[t]) \in Lanes
         /\ lanes' = [lanes EXCEPT ![LaneOf(hand[t])] = Append(@, hand[t])]
         /\ PlacesUnchangedBut({hand[t]})
         /\ running'[t] = running[t] /\ batch'[t] = batch[t] /\ zeroed'[t] = zeroed[t]
         /\ ThreadsButOneUnchanged(t)
         /\ UNCHANGED <<decl, before, value, waiting, deferral, shutdown>>
<1>1. /\ pc[t] \in {"push", "requeue"} /\ hand[t] \in Jobs /\ place[hand[t]] = "cleared"
  BY DEF Push, Inductive, ThreadsOK, ThreadOK
<1>2. LaneOf(hand[t]) \in Lanes
  BY <1>1, LaneOfType DEF Inductive
<1>3. /\ hand' = [hand EXCEPT ![t] = NoJob]
      /\ place' = [place EXCEPT ![hand[t]] = "ready"]
      /\ pc' = [pc EXCEPT ![t] = IF pc[t] = "push" THEN "signal" ELSE "signalRequeue"]
      /\ lanes' = [lanes EXCEPT ![LaneOf(hand[t])] = Append(@, hand[t])]
  BY DEF Push, Enqueue, Goto
<1>4. UNCHANGED <<decl, before, value, waiting, running, batch, zeroed, deferral, shutdown>>
  BY DEF Push, stopVars, counterVars
<1> QED BY <1>1, <1>2, <1>3, <1>4, FunctionTypes DEF PlacesUnchangedBut, ThreadsButOneUnchanged

\* The effect of an unwound thread.
LEMMA PanicEffect ==
  ASSUME Inductive, NEW t \in Threads, Panic(t)
  PROVE  /\ pc'[t] = "panicked" /\ hand'[t] = NoJob /\ running'[t] = NoJob
         /\ batch'[t] = <<>> /\ zeroed'[t] = zeroed[t]
         /\ \A j \in Owned(t) \cap Jobs : place'[j] = "dropped"
         /\ PlacesUnchangedBut(Owned(t))
         /\ ThreadsButOneUnchanged(t)
         /\ UNCHANGED <<decl, before, value, waiting, lanes, deferral, shutdown>>
<1>1. /\ pc' = [pc EXCEPT ![t] = "panicked"]
      /\ hand' = [hand EXCEPT ![t] = NoJob]
      /\ running' = [running EXCEPT ![t] = NoJob]
      /\ batch' = [batch EXCEPT ![t] = <<>>]
      /\ place' = [j \in Jobs |-> IF j \in Owned(t) THEN "dropped" ELSE place[j]]
  BY DEF Panic, Goto
<1>2. UNCHANGED <<decl, before, value, waiting, lanes, zeroed, deferral, shutdown>>
  BY DEF Panic, stopVars, counterVars
<1> QED BY <1>1, <1>2, FunctionTypes DEF PlacesUnchangedBut, ThreadsButOneUnchanged

\* The effect of the end of a job body.
LEMMA FinishBodyEffect ==
  ASSUME Inductive, NEW t \in Threads, FinishBody(t)
  PROVE  /\ pc[t] = "body" /\ running[t] \in Jobs /\ place[running[t]] = "running"
         /\ decl[running[t]].accum \in Counters /\ zeroed[t] = NoCounter
         /\ running'[t] = NoJob /\ place'[running[t]] = "done"
         /\ value' = [value EXCEPT ![decl[running[t]].accum] = @ - 1]
         /\ \/ /\ value[decl[running[t]].accum] = 1
               /\ pc'[t] = "zeroed" /\ zeroed'[t] = decl[running[t]].accum
            \/ /\ value[decl[running[t]].accum] # 1
               /\ pc'[t] = Idle(t) /\ zeroed'[t] = NoCounter
         /\ PlacesUnchangedBut({running[t]})
         /\ hand'[t] = hand[t] /\ batch'[t] = batch[t]
         /\ ThreadsButOneUnchanged(t)
         /\ UNCHANGED <<decl, before, waiting, lanes, deferral, shutdown>>
<1>1. /\ pc[t] = "body" /\ running[t] \in Jobs /\ place[running[t]] = "running"
      /\ zeroed[t] = NoCounter
  BY FunctionTypes DEF FinishBody, Inductive, ThreadsOK, ThreadOK
<1>2. decl[running[t]].accum \in Counters
  BY <1>1, FunctionTypes DEF Decl
<1>3. /\ \/ /\ value[decl[running[t]].accum] = 1
            /\ pc' = [pc EXCEPT ![t] = "zeroed"]
            /\ zeroed' = [zeroed EXCEPT ![t] = decl[running[t]].accum]
         \/ /\ value[decl[running[t]].accum] # 1
            /\ pc' = [pc EXCEPT ![t] = Idle(t)] /\ zeroed' = zeroed
      /\ value' = [value EXCEPT ![decl[running[t]].accum] = @ - 1]
      /\ place' = [place EXCEPT ![running[t]] = "done"]
      /\ running' = [running EXCEPT ![t] = NoJob]
  BY DEF FinishBody, Goto, Decrement
<1>4. UNCHANGED <<decl, before, waiting, lanes, hand, batch, deferral, shutdown>>
  BY DEF FinishBody, stopVars
<1> QED BY <1>1, <1>2, <1>3, <1>4, FunctionTypes DEF PlacesUnchangedBut, ThreadsButOneUnchanged

\* The effect of the end of a deferral.
LEMMA FinishDeferralEffect ==
  ASSUME Inductive, NEW t \in Threads, NEW d \in Deferrals, FinishDeferral(t, d)
  PROVE  /\ pc[t] \in {"free", "body"} /\ deferral[d] = "held"
         /\ DeferralCounter[d] \in Counters /\ zeroed[t] = NoCounter
         /\ deferral' = [deferral EXCEPT ![d] = "finished"]
         /\ value' = [value EXCEPT ![DeferralCounter[d]] = @ - 1]
         /\ \/ /\ value[DeferralCounter[d]] = 1
               /\ pc'[t] = "zeroed" /\ zeroed'[t] = DeferralCounter[d]
            \/ /\ value[DeferralCounter[d]] # 1
               /\ pc'[t] = pc[t] /\ zeroed'[t] = NoCounter
         /\ hand'[t] = hand[t] /\ running'[t] = running[t] /\ batch'[t] = batch[t]
         /\ ThreadsButOneUnchanged(t)
         /\ UNCHANGED <<decl, place, before, waiting, lanes, hand, running, batch, shutdown>>
<1>1. /\ pc[t] \in {"free", "body"} /\ deferral[d] = "held"
      /\ DeferralCounter[d] \in Counters /\ zeroed[t] = NoCounter
  <2>1. pc[t] \in {"free", "body"} /\ deferral[d] = "held"
    BY DEF FinishDeferral, InUserCode
  <2>2. zeroed[t] \notin Counters
    BY <2>1 DEF Inductive, ThreadsOK, ThreadOK
  <2> QED BY <2>1, <2>2, FunctionTypes, CountersAssumption
<1>2. /\ \/ /\ value[DeferralCounter[d]] = 1
            /\ pc' = [pc EXCEPT ![t] = "zeroed"]
            /\ zeroed' = [zeroed EXCEPT ![t] = DeferralCounter[d]]
         \/ /\ value[DeferralCounter[d]] # 1
            /\ pc' = [pc EXCEPT ![t] = pc[t]] /\ zeroed' = zeroed
      /\ value' = [value EXCEPT ![DeferralCounter[d]] = @ - 1]
      /\ deferral' = [deferral EXCEPT ![d] = "finished"]
  BY DEF FinishDeferral, Goto, Decrement
<1>3. UNCHANGED <<decl, place, before, waiting, lanes, hand, running, batch, shutdown>>
  BY DEF FinishDeferral, jobVars, stopVars
<1> QED BY <1>1, <1>2, <1>3, FunctionTypes DEF ThreadsButOneUnchanged

\* The effect of taking the waiting list.
LEMMA DrainWaitingEffect ==
  ASSUME Inductive, NEW t \in Threads, DrainWaiting(t)
  PROVE  /\ pc[t] = "drain" /\ pc'[t] = "release"
         /\ zeroed[t] \in Counters /\ zeroed'[t] = NoCounter
         /\ batch[t] = <<>> /\ waiting[zeroed[t]] \in Seq(Jobs)
         /\ \/ /\ value[zeroed[t]] = 0
               /\ batch'[t] = waiting[zeroed[t]]
               /\ waiting' = [waiting EXCEPT ![zeroed[t]] = <<>>]
               /\ \A i \in 1 .. Len(waiting[zeroed[t]]) :
                    place'[waiting[zeroed[t]][i]] = "cleared"
               /\ PlacesUnchangedBut(Range(waiting[zeroed[t]]))
            \/ /\ value[zeroed[t]] # 0
               /\ UNCHANGED <<batch, waiting, place>>
         /\ hand'[t] = hand[t] /\ running'[t] = running[t]
         /\ ThreadsButOneUnchanged(t)
         /\ UNCHANGED <<decl, before, value, lanes, deferral, shutdown>>
<1>1. pc[t] = "drain" /\ zeroed[t] \in Counters /\ batch[t] = <<>>
  BY DEF DrainWaiting, Inductive, ThreadsOK, ThreadOK
<1>2. waiting[zeroed[t]] \in Seq(Jobs)
  BY <1>1, FunctionTypes
<1>3. /\ pc' = [pc EXCEPT ![t] = "release"]
      /\ zeroed' = [zeroed EXCEPT ![t] = NoCounter]
      /\ \/ /\ value[zeroed[t]] = 0
            /\ batch' = [batch EXCEPT ![t] = waiting[zeroed[t]]]
            /\ waiting' = [waiting EXCEPT ![zeroed[t]] = <<>>]
            /\ place' = [j \in Jobs |->
                  IF j \in Range(waiting[zeroed[t]]) THEN "cleared" ELSE place[j]]
         \/ /\ value[zeroed[t]] # 0
            /\ UNCHANGED <<batch, waiting, place>>
  BY DEF DrainWaiting, Goto, IsZero
<1>4. UNCHANGED <<decl, before, value, lanes, hand, running, deferral, shutdown>>
  BY DEF DrainWaiting, stopVars
<1>5. \A i \in 1 .. Len(waiting[zeroed[t]]) :
        waiting[zeroed[t]][i] \in Jobs \cap Range(waiting[zeroed[t]])
  BY <1>2, SeqFacts
<1> QED BY <1>1, <1>2, <1>3, <1>4, <1>5, FunctionTypes
        DEF PlacesUnchangedBut, ThreadsButOneUnchanged

\* The effect of releasing one waiting job.
LEMMA ReleaseOneEffect ==
  ASSUME Inductive, NEW t \in Threads, ReleaseOne(t)
  PROVE  LET j == batch[t][Len(batch[t])]
         IN /\ pc[t] = "release" /\ pc'[t] = "signalRelease"
            /\ batch[t] \in Seq(Jobs) /\ batch[t] # <<>> /\ j \in Jobs
            /\ batch'[t] = Front(batch[t])
            /\ place[j] = "cleared" /\ place'[j] = "ready"
            /\ LaneOf(j) \in Lanes
            /\ lanes' = [lanes EXCEPT ![LaneOf(j)] = Append(@, j)]
            /\ PlacesUnchangedBut({j})
            /\ hand'[t] = hand[t] /\ running'[t] = running[t] /\ zeroed'[t] = zeroed[t]
            /\ ThreadsButOneUnchanged(t)
            /\ UNCHANGED <<decl, before, value, waiting, deferral, shutdown>>
<1> DEFINE j == batch[t][Len(batch[t])]
<1>1. pc[t] = "release" /\ batch[t] # <<>> /\ batch[t] \in Seq(Jobs)
  BY FunctionTypes DEF ReleaseOne
<1>2. j \in Jobs /\ Len(batch[t]) \in 1 .. Len(batch[t]) /\ Last(batch[t]) = j
  BY <1>1 DEF Last
<1>3. place[j] = "cleared"
  BY <1>2 DEF Inductive, OneOwner
<1>4. LaneOf(j) \in Lanes
  BY <1>2, LaneOfType DEF Inductive
<1>5. /\ place' = [place EXCEPT ![j] = "ready"]
      /\ pc' = [pc EXCEPT ![t] = "signalRelease"]
      /\ lanes' = [lanes EXCEPT ![LaneOf(j)] = Append(@, j)]
      /\ batch' = [batch EXCEPT ![t] = Front(@)]
  BY <1>2 DEF ReleaseOne, Enqueue, Goto
<1>6. UNCHANGED <<decl, before, value, waiting, hand, running, zeroed, deferral, shutdown>>
  BY DEF ReleaseOne, counterVars, stopVars
<1> HIDE DEF j
<1>7. /\ pc'[t] = "signalRelease" /\ batch'[t] = Front(batch[t])
      /\ place'[j] = "ready" /\ PlacesUnchangedBut({j})
      /\ ThreadsButOneUnchanged(t)
  BY <1>2, <1>5, <1>6, FunctionTypes DEF PlacesUnchangedBut, ThreadsButOneUnchanged
<1> QED BY <1>1, <1>2, <1>3, <1>4, <1>5, <1>6, <1>7 DEF j

\* The effect of the end of a release.
LEMMA ReleaseEndsEffect ==
  ASSUME Inductive, NEW t \in Threads, ReleaseEnds(t)
  PROVE  /\ pc[t] = "release" /\ pc'[t] = Caller(t)
         /\ batch[t] \in Seq(Jobs) /\ batch'[t] = <<>>
         /\ \A j \in Range(batch[t]) : place'[j] = "dropped"
         /\ PlacesUnchangedBut(Range(batch[t]))
         /\ hand'[t] = hand[t] /\ running'[t] = running[t] /\ zeroed'[t] = zeroed[t]
         /\ ThreadsButOneUnchanged(t)
         /\ UNCHANGED <<decl, before, value, waiting, lanes, deferral, shutdown>>
<1>1. pc[t] = "release" /\ batch[t] \in Seq(Jobs)
  BY FunctionTypes DEF ReleaseEnds
<1>2. Range(batch[t]) \subseteq Jobs
  BY <1>1, SeqFacts
<1>3. /\ pc' = [pc EXCEPT ![t] = Caller(t)]
      /\ batch' = [batch EXCEPT ![t] = <<>>]
      /\ place' = [j \in Jobs |-> IF j \in Range(batch[t]) THEN "dropped" ELSE place[j]]
  BY DEF ReleaseEnds, Goto
<1>4. UNCHANGED <<decl, before, value, waiting, lanes, hand, running, zeroed, deferral, shutdown>>
  BY DEF ReleaseEnds, counterVars, stopVars
<1> QED BY <1>1, <1>2, <1>3, <1>4, FunctionTypes DEF PlacesUnchangedBut, ThreadsButOneUnchanged

TakesFromLane(j) ==
  /\ TopLane \in Lanes /\ j = lanes[TopLane][1] /\ j \in Jobs
  /\ lanes[TopLane] \in Seq(Jobs) /\ lanes[TopLane] # <<>>
  /\ lanes' = [lanes EXCEPT ![TopLane] = Tail(@)]
  /\ place[j] = "ready" /\ PlacesUnchangedBut({j})

\* The job the next pop takes.
LEMMA TopJob ==
  ASSUME Inductive, HasReadyJob
  PROVE  /\ TopLane \in Lanes /\ lanes[TopLane] \in Seq(Jobs) /\ lanes[TopLane] # <<>>
         /\ Head(lanes[TopLane]) \in Jobs /\ Head(lanes[TopLane]) = lanes[TopLane][1]
         /\ place[Head(lanes[TopLane])] = "ready"
<1>1. /\ TopLane \in Lanes /\ lanes[TopLane] \in Seq(Jobs) /\ lanes[TopLane] # <<>>
      /\ Head(lanes[TopLane]) \in Jobs
  BY TopLaneFacts, FunctionTypes DEF Inductive
<1>2. 1 \in 1 .. Len(lanes[TopLane]) /\ Head(lanes[TopLane]) = lanes[TopLane][1]
  BY <1>1
<1>3. place[lanes[TopLane][1]] = "ready"
  BY <1>1, <1>2 DEF Inductive, QueuesOK
<1> QED BY <1>1, <1>2, <1>3

\* The effect of a worker's pop.
LEMMA PopBlockingEffect ==
  ASSUME Inductive, NEW t \in Threads, PopBlocking(t)
  PROVE  /\ pc[t] = "pop" /\ hand[t] = NoJob
         /\ \/ /\ pc'[t] \in {"stopped", "waiting"} /\ hand'[t] = NoJob
               /\ UNCHANGED <<place, lanes>>
            \/ /\ pc'[t] = "popped" /\ TakesFromLane(hand'[t])
               /\ place'[hand'[t]] = "cleared"
         /\ running'[t] = running[t] /\ batch'[t] = batch[t] /\ zeroed'[t] = zeroed[t]
         /\ ThreadsButOneUnchanged(t)
         /\ UNCHANGED <<decl, before, value, waiting, deferral, shutdown>>
<1>1. pc[t] = "pop" /\ hand[t] = NoJob
  BY DEF PopBlocking, Inductive, ThreadsOK, ThreadOK
<1>2. \/ /\ \E label \in {"stopped", "waiting"} : pc' = [pc EXCEPT ![t] = label]
         /\ UNCHANGED <<hand, place, lanes>>
      \/ /\ HasReadyJob
         /\ pc' = [pc EXCEPT ![t] = "popped"]
         /\ hand' = [hand EXCEPT ![t] = Head(lanes[TopLane])]
         /\ place' = [place EXCEPT ![Head(lanes[TopLane])] = "cleared"]
         /\ lanes' = [lanes EXCEPT ![TopLane] = Tail(@)]
  BY DEF PopBlocking, PopTop, Goto
<1>3. UNCHANGED <<decl, before, value, waiting, running, batch, zeroed, deferral, shutdown>>
  BY DEF PopBlocking, counterVars, stopVars
<1> QED BY <1>1, <1>2, <1>3, FunctionTypes, TopJob
        DEF PlacesUnchangedBut, ThreadsButOneUnchanged, TakesFromLane

\* The effect of starting a popped job.
LEMMA RunPoppedEffect ==
  ASSUME Inductive, NEW t \in Threads, RunPopped(t)
  PROVE  /\ pc[t] = "popped" /\ hand[t] \in Jobs /\ place[hand[t]] = "cleared"
         /\ hand'[t] = NoJob
         /\ \/ /\ pc'[t] = "stopped" /\ running'[t] = running[t]
               /\ place'[hand[t]] = "dropped"
            \/ /\ pc'[t] = "body" /\ running'[t] = hand[t]
               /\ place'[hand[t]] = "running"
         /\ batch'[t] = batch[t] /\ zeroed'[t] = zeroed[t]
         /\ PlacesUnchangedBut({hand[t]})
         /\ ThreadsButOneUnchanged(t)
         /\ UNCHANGED <<decl, before, value, waiting, lanes, deferral, shutdown>>
<1>1. pc[t] = "popped" /\ hand[t] \in Jobs /\ place[hand[t]] = "cleared"
  BY DEF RunPopped, Inductive, ThreadsOK, ThreadOK
<1>2. /\ hand' = [hand EXCEPT ![t] = NoJob]
      /\ \/ /\ pc' = [pc EXCEPT ![t] = "stopped"] /\ running' = running
            /\ place' = [place EXCEPT ![hand[t]] = "dropped"]
         \/ /\ pc' = [pc EXCEPT ![t] = "body"]
            /\ running' = [running EXCEPT ![t] = hand[t]]
            /\ place' = [place EXCEPT ![hand[t]] = "running"]
  BY DEF RunPopped, Goto
<1>3. UNCHANGED <<decl, before, value, waiting, lanes, batch, zeroed, deferral, shutdown>>
  BY DEF RunPopped, counterVars, stopVars
<1> QED BY <1>1, <1>2, <1>3, FunctionTypes DEF PlacesUnchangedBut, ThreadsButOneUnchanged

\* The effect of the flush loop's pop.
LEMMA FlushPopEffect ==
  ASSUME Inductive, FlushPop
  PROVE  LET t == FlushThread
         IN /\ pc[t] = "trypop" /\ hand[t] = NoJob /\ t \in Threads
            /\ \/ /\ pc'[t] = "idlewait" /\ hand'[t] = NoJob /\ running'[t] = running[t]
                  /\ UNCHANGED <<place, lanes>>
               \/ /\ pc'[t] = "requeue" /\ TakesFromLane(hand'[t])
                  /\ place'[hand'[t]] = "cleared" /\ running'[t] = running[t]
               \/ /\ pc'[t] = "body" /\ TakesFromLane(running'[t])
                  /\ place'[running'[t]] = "running" /\ hand'[t] = NoJob
            /\ batch'[t] = batch[t] /\ zeroed'[t] = zeroed[t]
            /\ ThreadsButOneUnchanged(t)
            /\ UNCHANGED <<decl, before, value, waiting, deferral, shutdown>>
<1>1. pc[FlushThread] = "trypop" /\ FlushThread \in Threads
  BY ThreadsAssumption DEF FlushPop, Threads
<1>2. hand[FlushThread] = NoJob
  BY <1>1 DEF Inductive, ThreadsOK, ThreadOK
<1>3. \/ /\ pc' = [pc EXCEPT ![FlushThread] = "idlewait"]
         /\ UNCHANGED <<hand, place, lanes, running>>
      \/ /\ HasReadyJob
         /\ pc' = [pc EXCEPT ![FlushThread] = "requeue"]
         /\ hand' = [hand EXCEPT ![FlushThread] = Head(lanes[TopLane])]
         /\ place' = [place EXCEPT ![Head(lanes[TopLane])] = "cleared"]
         /\ lanes' = [lanes EXCEPT ![TopLane] = Tail(@)]
         /\ running' = running
      \/ /\ HasReadyJob
         /\ pc' = [pc EXCEPT ![FlushThread] = "body"]
         /\ running' = [running EXCEPT ![FlushThread] = Head(lanes[TopLane])]
         /\ place' = [place EXCEPT ![Head(lanes[TopLane])] = "running"]
         /\ lanes' = [lanes EXCEPT ![TopLane] = Tail(@)]
         /\ hand' = hand
  BY DEF FlushPop, PopTop, Goto
<1>4. UNCHANGED <<decl, before, value, waiting, batch, zeroed, deferral, shutdown>>
  BY DEF FlushPop, counterVars, stopVars
<1> QED BY <1>1, <1>2, <1>3, <1>4, FunctionTypes, TopJob
        DEF PlacesUnchangedBut, ThreadsButOneUnchanged, TakesFromLane

\* The effect of closing the queues.
LEMMA CloseQueuesEffect ==
  ASSUME Inductive, NEW t \in Threads, CloseQueues(t)
  PROVE  /\ pc[t] = "close" /\ pc'[t] = "join"
         /\ hand'[t] = hand[t] /\ running'[t] = running[t]
         /\ batch'[t] = batch[t] /\ zeroed'[t] = zeroed[t]
         /\ \A u \in Threads \ {t} :
              /\ pc'[u] = IF pc[u] = "waiting" THEN Woken(u) ELSE pc[u]
              /\ hand'[u] = hand[u] /\ running'[u] = running[u]
              /\ batch'[u] = batch[u] /\ zeroed'[u] = zeroed[u]
         /\ lanes' = [l \in Lanes |-> <<>>]
         /\ \A j \in Jobs : \/ place'[j] = place[j] /\ place[j] # "ready"
                            \/ place'[j] = "dropped" /\ place[j] = "ready"
         /\ UNCHANGED <<decl, before, value, waiting, deferral, shutdown>>
<1>1. /\ pc[t] = "close"
      /\ pc' = [u \in Threads |-> IF u = t THEN "join"
                           ELSE IF u \in Sleepers THEN Woken(u) ELSE pc[u]]
      /\ lanes' = [l \in Lanes |-> <<>>]
      /\ place' = [j \in Jobs |-> IF place[j] = "ready" THEN "dropped" ELSE place[j]]
  BY DEF CloseQueues, NotifyAll
<1>2. UNCHANGED <<decl, before, value, waiting, hand, running, batch, zeroed,
                  deferral, shutdown>>
  BY DEF CloseQueues, counterVars
<1> QED BY <1>1, <1>2, FunctionTypes DEF Sleepers

\* The steps that move no job and count nothing.
QuietStep(t) ==
  \/ Signal(t) \/ AnnounceZero(t) \/ SpuriousWake(t) \/ JoinWorkers(t) \/ BeginShutdown(t)
  \/ t = FlushThread /\ (FlushHead \/ FlushSleep \/ FlushWaitExpires)
  \/ t = FlushThread /\ \E c \in Counters, kind \in FlushKinds : BeginFlush(c, kind)

Quiet == UNCHANGED <<decl, place, before, value, waiting, lanes, hand, running, batch, deferral>>

\* Quiet steps indeed leave the jobs alone.
LEMMA QuietEffect ==
  ASSUME NEW t, QuietStep(t)
  PROVE  Quiet
<1>1. CASE Signal(t)
  BY <1>1 DEF Signal, Quiet, jobVars, counterVars
<1>2. CASE AnnounceZero(t)
  BY <1>2 DEF AnnounceZero, Quiet, jobVars, counterVars
<1>3. CASE SpuriousWake(t)
  BY <1>3 DEF SpuriousWake, Quiet, jobVars, counterVars
<1>4. CASE JoinWorkers(t)
  BY <1>4 DEF JoinWorkers, Quiet, jobVars, counterVars
<1>5. CASE BeginShutdown(t)
  BY <1>5 DEF BeginShutdown, Quiet, jobVars, counterVars
<1>6. CASE FlushHead
  BY <1>6 DEF FlushHead, Quiet, jobVars, counterVars
<1>7. CASE FlushSleep
  BY <1>7 DEF FlushSleep, Quiet, jobVars, counterVars
<1>8. CASE FlushWaitExpires
  BY <1>8 DEF FlushWaitExpires, Quiet, jobVars, counterVars
<1>9. ASSUME NEW c, NEW kind, BeginFlush(c, kind) PROVE Quiet
  BY <1>9 DEF BeginFlush, Quiet, jobVars, counterVars
<1> QED BY <1>1, <1>2, <1>3, <1>4, <1>5, <1>6, <1>7, <1>8, <1>9 DEF QuietStep

\* Every step is one of these; the proofs below go through them in this order.
LEMMA StepCases ==
  ASSUME [Next]_vars
  PROVE  \/ \E t \in Threads, j \in Jobs : Dispatch(t, j)
         \/ \E t \in Threads : TestWait(t)
         \/ \E t \in Threads : Park(t)
         \/ \E t \in Threads : Push(t)
         \/ \E t \in Threads :
              /\ Panic(t)
              /\ pc[t] \in {"push", "requeue", "release", "join"}
              /\ pc[t] = "release" => batch[t] # <<>>
         \/ \E t \in Threads : FinishBody(t)
         \/ \E t \in Threads, d \in Deferrals : CreateDeferral(t, d)
         \/ \E t \in Threads, d \in Deferrals : FinishDeferral(t, d)
         \/ \E t \in Threads : DrainWaiting(t)
         \/ \E t \in Threads : ReleaseOne(t)
         \/ \E t \in Threads : ReleaseEnds(t)
         \/ \E t \in Threads : PopBlocking(t)
         \/ \E t \in Threads : RunPopped(t)
         \/ FlushPop
         \/ \E t \in Threads : CloseQueues(t)
         \/ \E t \in Threads : QuietStep(t)
         \/ UNCHANGED vars
<1>1. FlushThread \in Threads
  BY ThreadsAssumption DEF Threads
<1> QED BY <1>1 DEF Next, ThreadStep, UserStep, FlushStep, QuietStep, PushPanics,
                    ReleasePanics, JoinPanics

\* A job that t owns, or that no thread owns.
OthersLack(t, x) ==
  x = hand[t] \/ x = running[t] \/ x \in Range(batch[t]) \/ place[x] \in {"new", "parked", "ready"}

\* The place of a job says which thread variable may hold it.
LEMMA HandPlace ==
  ASSUME Inductive, NEW u \in Threads
  PROVE  /\ hand[u] # NoJob => hand[u] \in Jobs /\ place[hand[u]] \in {"counted", "cleared"}
         /\ running[u] # NoJob => running[u] \in Jobs /\ place[running[u]] = "running"
         /\ \A i \in 1 .. Len(batch[u]) : batch[u][i] \in Jobs /\ place[batch[u][i]] = "cleared"
         /\ \A x \in Range(batch[u]) : x \in Jobs /\ place[x] = "cleared"
<1>1. ThreadOK(u) /\ OneOwner
  BY DEF Inductive, ThreadsOK
<1>2. hand[u] # NoJob => hand[u] \in Jobs /\ place[hand[u]] \in {"counted", "cleared"}
  BY <1>1 DEF ThreadOK
<1>3. running[u] # NoJob => running[u] \in Jobs /\ place[running[u]] = "running"
  BY <1>1, FunctionTypes DEF ThreadOK
<1>4. batch[u] \in Seq(Jobs)
  BY FunctionTypes
<1>5. \A i \in 1 .. Len(batch[u]) : batch[u][i] \in Jobs /\ place[batch[u][i]] = "cleared"
  BY <1>1, <1>4 DEF OneOwner
<1>6. \A x \in Range(batch[u]) : x \in Jobs /\ place[x] = "cleared"
  BY <1>4, <1>5 DEF Range
<1> QED BY <1>2, <1>3, <1>5, <1>6

\* A job that t owns or nobody owns is in no hand of another thread.
LEMMA NotOwned ==
  ASSUME Inductive, NEW t \in Threads, NEW u \in Threads, u # t,
         NEW x \in Jobs, OthersLack(t, x)
  PROVE  x # hand[u] /\ x # running[u] /\ x \notin Range(batch[u])
<1>1. OneOwner /\ NoJob \notin Jobs
  BY NamesAssumption DEF Inductive
<1>2. batch[t] \in Seq(Jobs) /\ batch[u] \in Seq(Jobs)
  BY FunctionTypes
<1>3. x # hand[u]
  <2>1. CASE x = hand[t]
    BY <1>1, <2>1 DEF OneOwner
  <2>2. CASE x \in Range(batch[t])
    BY <1>1, <1>2, <2>2 DEF OneOwner, Range
  <2>3. CASE x = running[t] \/ place[x] \in {"new", "parked", "ready"}
    BY <1>1, <2>3, HandPlace
  <2> QED BY <2>1, <2>2, <2>3 DEF OthersLack
<1>4. x # running[u]
  <2>1. CASE x = running[t]
    BY <1>1, <2>1 DEF OneOwner
  <2>2. CASE x = hand[t] \/ x \in Range(batch[t]) \/ place[x] \in {"new", "parked", "ready"}
    BY <1>1, <2>2, HandPlace
  <2> QED BY <2>1, <2>2 DEF OthersLack
<1>5. x \notin Range(batch[u])
  <2>1. CASE x = hand[t]
    BY <1>1, <1>2, <2>1 DEF OneOwner, Range
  <2>2. CASE x \in Range(batch[t])
    <3>1. \E i \in 1 .. Len(batch[t]) : batch[t][i] = x
      BY <1>2, <2>2, SeqFacts
    <3>2. \A k \in 1 .. Len(batch[u]) : batch[u][k] # x
      BY <1>1, <3>1 DEF OneOwner
    <3> QED BY <1>2, <3>2, SeqFacts
  <2>3. CASE x = running[t] \/ place[x] \in {"new", "parked", "ready"}
    BY <1>1, <2>3, HandPlace
  <2> QED BY <2>1, <2>2, <2>3 DEF OthersLack
<1> QED BY <1>3, <1>4, <1>5

\* The other threads keep their invariant when t moves jobs they do not own.
LEMMA Bystanders ==
  ASSUME Inductive, NEW t \in Threads, NEW X, decl' = decl,
         \A x \in X \cap Jobs : OthersLack(t, x), PlacesUnchangedBut(X),
         \A u \in Threads \ {t} :
           /\ pc'[u] = pc[u] \/ (pc[u] = "waiting" /\ pc'[u] \in {"pop", "head"})
           /\ hand'[u] = hand[u] /\ running'[u] = running[u]
           /\ batch'[u] = batch[u] /\ zeroed'[u] = zeroed[u]
  PROVE  \A u \in Threads \ {t} : ThreadOK(u)'
<1> SUFFICES ASSUME NEW u \in Threads, u # t PROVE ThreadOK(u)'
  OBVIOUS
<1>1. ThreadOK(u)
  BY DEF Inductive, ThreadsOK
<1>2. hand[u] # NoJob => place'[hand[u]] = place[hand[u]]
  BY HandPlace, NotOwned DEF PlacesUnchangedBut
<1>3. running[u] # NoJob => place'[running[u]] = place[running[u]]
  BY HandPlace, NotOwned DEF PlacesUnchangedBut
<1> QED BY <1>1, <1>2, <1>3, NamesAssumption DEF ThreadOK

\* The same for a step that moves one job.
LEMMA BystandersOfOne ==
  ASSUME Inductive, NEW t \in Threads, NEW x \in Jobs, OthersLack(t, x),
         PlacesUnchangedBut({x}), ThreadsButOneUnchanged(t), decl' = decl
  PROVE  \A u \in Threads \ {t} : ThreadOK(u)'
<1>1. \A y \in {x} \cap Jobs : OthersLack(t, y)
  OBVIOUS
<1> QED BY <1>1, Bystanders DEF ThreadsButOneUnchanged

\* The inductive step of ThreadsOK.
LEMMA ThreadsStep ==
  ASSUME Inductive, [Next]_vars
  PROVE  ThreadsOK'
<1> USE NamesAssumption
<1>1. ASSUME NEW t \in Threads
      PROVE  ThreadOK(t) /\ (batch[t] = <<>> => Range(batch[t]) = {})
  BY <1>1 DEF Inductive, ThreadsOK, Range
<1>2. ASSUME NEW t \in Threads, ThreadOK(t)',
             \A u \in Threads \ {t} : ThreadOK(u)'
      PROVE  ThreadsOK'
  BY <1>2 DEF ThreadsOK
<1>3. ASSUME NEW t \in Threads, NEW j \in Jobs, Dispatch(t, j) PROVE ThreadsOK'
  <2>1. ThreadOK(t)'
    BY <1>1, <1>3, DispatchEffect, HandPlace DEF ThreadOK, PlacesUnchangedBut
  <2>2. \A u \in Threads \ {t} : ThreadOK(u)'
    <3>1. j \in Jobs /\ OthersLack(t, j)
      BY <1>3, DispatchEffect DEF OthersLack
    <3>2. PlacesUnchangedBut({j}) /\ ThreadsButOneUnchanged(t) /\ decl' = decl
      BY <1>3, DispatchEffect
    <3> QED BY <3>1, <3>2, BystandersOfOne
  <2> QED BY <1>2, <2>1, <2>2
<1>4. ASSUME NEW t \in Threads, TestWait(t) PROVE ThreadsOK'
  <2>1. ThreadOK(t)'
    BY <1>1, <1>4, TestWaitEffect, HandPlace DEF ThreadOK, PlacesUnchangedBut
  <2>2. \A u \in Threads \ {t} : ThreadOK(u)'
    <3>1. hand[t] \in Jobs /\ OthersLack(t, hand[t])
      BY <1>4, TestWaitEffect DEF OthersLack
    <3>2. PlacesUnchangedBut({hand[t]}) /\ ThreadsButOneUnchanged(t) /\ decl' = decl
      BY <1>4, TestWaitEffect
    <3> QED BY <3>1, <3>2, BystandersOfOne
  <2> QED BY <1>2, <2>1, <2>2
<1>5. ASSUME NEW t \in Threads, Park(t) PROVE ThreadsOK'
  <2>1. ThreadOK(t)'
    BY <1>1, <1>5, ParkEffect, HandPlace DEF ThreadOK, PlacesUnchangedBut, Caller, Idle
  <2>2. \A u \in Threads \ {t} : ThreadOK(u)'
    <3>1. hand[t] \in Jobs /\ OthersLack(t, hand[t])
      BY <1>5, ParkEffect DEF OthersLack
    <3>2. PlacesUnchangedBut({hand[t]}) /\ ThreadsButOneUnchanged(t) /\ decl' = decl
      BY <1>5, ParkEffect
    <3> QED BY <3>1, <3>2, BystandersOfOne
  <2> QED BY <1>2, <2>1, <2>2
<1>6. ASSUME NEW t \in Threads, Push(t) PROVE ThreadsOK'
  <2>1. ThreadOK(t)'
    BY <1>1, <1>6, PushEffect, HandPlace DEF ThreadOK, PlacesUnchangedBut
  <2>2. \A u \in Threads \ {t} : ThreadOK(u)'
    <3>1. hand[t] \in Jobs /\ OthersLack(t, hand[t])
      BY <1>6, PushEffect DEF OthersLack
    <3>2. PlacesUnchangedBut({hand[t]}) /\ ThreadsButOneUnchanged(t) /\ decl' = decl
      BY <1>6, PushEffect
    <3> QED BY <3>1, <3>2, BystandersOfOne
  <2> QED BY <1>2, <2>1, <2>2
<1>7. ASSUME NEW t \in Threads, Panic(t), pc[t] \in {"push", "requeue", "release", "join"}
      PROVE  ThreadsOK'
  <2>1. ThreadOK(t)'
    BY <1>1, <1>7, PanicEffect DEF ThreadOK
  <2>2. \A x \in Owned(t) : OthersLack(t, x)
    BY DEF OthersLack, Owned
  <2>3. \A u \in Threads \ {t} : ThreadOK(u)'
    BY <1>7, <2>2, PanicEffect, Bystanders DEF ThreadsButOneUnchanged
  <2> QED BY <1>2, <2>1, <2>3
<1>8. ASSUME NEW t \in Threads, FinishBody(t) PROVE ThreadsOK'
  <2>1. ThreadOK(t)'
    <3>1. /\ hand'[t] = NoJob /\ running'[t] = NoJob /\ batch'[t] = <<>>
      <4>1. /\ pc[t] = "body" /\ running'[t] = NoJob
            /\ hand'[t] = hand[t] /\ batch'[t] = batch[t]
        BY <1>8, FinishBodyEffect
      <4>2. ThreadOK(t)
        BY <1>1
      <4> QED BY <4>1, <4>2 DEF ThreadOK
    <3>2. \/ pc'[t] = "zeroed" /\ zeroed'[t] \in Counters
          \/ pc'[t] \in {"pop", "head", "free"} /\ zeroed'[t] = NoCounter
      BY <1>8, FinishBodyEffect DEF Idle
    <3> QED BY <3>1, <3>2 DEF ThreadOK
  <2>2. \A u \in Threads \ {t} : ThreadOK(u)'
    <3>1. running[t] \in Jobs /\ OthersLack(t, running[t])
      BY <1>8, FinishBodyEffect DEF OthersLack
    <3>2. PlacesUnchangedBut({running[t]}) /\ ThreadsButOneUnchanged(t) /\ decl' = decl
      BY <1>8, FinishBodyEffect
    <3> QED BY <3>1, <3>2, BystandersOfOne
  <2> QED BY <1>2, <2>1, <2>2
<1>9. ASSUME NEW t \in Threads, NEW d \in Deferrals, CreateDeferral(t, d) PROVE ThreadsOK'
  BY <1>1, <1>9 DEF CreateDeferral, jobVars, threadVars, ThreadsOK, ThreadOK
<1>10. ASSUME NEW t \in Threads, NEW d \in Deferrals, FinishDeferral(t, d) PROVE ThreadsOK'
  <2>1. ThreadOK(t)'
    BY <1>1, <1>10, FinishDeferralEffect DEF ThreadOK
  <2>2. \A u \in Threads \ {t} : ThreadOK(u)'
    BY <1>1, <1>10, FinishDeferralEffect DEF ThreadOK, ThreadsButOneUnchanged
  <2> QED BY <1>2, <2>1, <2>2
<1>11. ASSUME NEW t \in Threads, DrainWaiting(t) PROVE ThreadsOK'
  <2>1. \A x \in Range(waiting[zeroed[t]]) : place[x] = "parked"
    <3>1. zeroed[t] \in Counters /\ waiting[zeroed[t]] \in Seq(Jobs)
      BY <1>11, DrainWaitingEffect
    <3>2. \A i \in 1 .. Len(waiting[zeroed[t]]) : place[waiting[zeroed[t]][i]] = "parked"
      BY <3>1 DEF Inductive, QueuesOK
    <3> QED BY <3>1, <3>2 DEF Range
  <2>2. ThreadOK(t)'
    BY <1>1, <1>11, <2>1, DrainWaitingEffect, HandPlace DEF ThreadOK, PlacesUnchangedBut
  <2>3. \A u \in Threads \ {t} : ThreadOK(u)'
    <3>1. CASE value[zeroed[t]] = 0
      BY <1>11, <2>1, <3>1, DrainWaitingEffect, Bystanders DEF OthersLack, ThreadsButOneUnchanged
    <3>2. CASE value[zeroed[t]] # 0
      BY <1>1, <1>11, <3>2, DrainWaitingEffect DEF ThreadOK, ThreadsButOneUnchanged
    <3> QED BY <3>1, <3>2
  <2> QED BY <1>2, <2>2, <2>3
<1>12. ASSUME NEW t \in Threads, ReleaseOne(t) PROVE ThreadsOK'
  <2> DEFINE j == batch[t][Len(batch[t])]
  <2>1. OthersLack(t, j) /\ j \in Jobs
    <3>1. batch[t] \in Seq(Jobs) /\ batch[t] # <<>>
      BY <1>12, ReleaseOneEffect
    <3>2. j \in Range(batch[t]) /\ j \in Jobs
      BY <3>1 DEF Range
    <3> QED BY <3>2 DEF OthersLack
  <2>2. ThreadOK(t)'
    BY <1>1, <1>12, ReleaseOneEffect, HandPlace DEF ThreadOK, PlacesUnchangedBut
  <2>3. \A u \in Threads \ {t} : ThreadOK(u)'
    <3>1. PlacesUnchangedBut({j}) /\ ThreadsButOneUnchanged(t) /\ decl' = decl
      BY <1>12, ReleaseOneEffect
    <3> QED BY <2>1, <3>1, BystandersOfOne
  <2> QED BY <1>2, <2>2, <2>3
<1>13. ASSUME NEW t \in Threads, ReleaseEnds(t) PROVE ThreadsOK'
  <2>1. ThreadOK(t)'
    BY <1>1, <1>13, ReleaseEndsEffect, HandPlace DEF ThreadOK, PlacesUnchangedBut, Caller, Idle
  <2>2. \A u \in Threads \ {t} : ThreadOK(u)'
    BY <1>13, ReleaseEndsEffect, Bystanders DEF OthersLack, ThreadsButOneUnchanged
  <2> QED BY <1>2, <2>1, <2>2
<1>14. ASSUME NEW t \in Threads, PopBlocking(t) PROVE ThreadsOK'
  <2>1. ThreadOK(t)'
    BY <1>1, <1>14, PopBlockingEffect, HandPlace
    DEF ThreadOK, PlacesUnchangedBut, TakesFromLane
  <2>2. \A u \in Threads \ {t} : ThreadOK(u)'
    <3>1. CASE UNCHANGED place
      BY <1>1, <1>14, <3>1, PopBlockingEffect DEF ThreadOK, ThreadsButOneUnchanged
    <3>2. CASE TakesFromLane(hand'[t])
      BY <1>14, <3>2, PopBlockingEffect, Bystanders
      DEF OthersLack, ThreadsButOneUnchanged, TakesFromLane
    <3> QED BY <1>14, <3>1, <3>2, PopBlockingEffect
  <2> QED BY <1>2, <2>1, <2>2
<1>15. ASSUME NEW t \in Threads, RunPopped(t) PROVE ThreadsOK'
  <2>1. ThreadOK(t)'
    BY <1>1, <1>15, RunPoppedEffect, HandPlace DEF ThreadOK, PlacesUnchangedBut
  <2>2. \A u \in Threads \ {t} : ThreadOK(u)'
    <3>1. hand[t] \in Jobs /\ OthersLack(t, hand[t])
      BY <1>15, RunPoppedEffect DEF OthersLack
    <3>2. PlacesUnchangedBut({hand[t]}) /\ ThreadsButOneUnchanged(t) /\ decl' = decl
      BY <1>15, RunPoppedEffect
    <3> QED BY <3>1, <3>2, BystandersOfOne
  <2> QED BY <1>2, <2>1, <2>2
<1>16. ASSUME FlushPop PROVE ThreadsOK'
  <2> DEFINE t == FlushThread
  <2>0. t \in Threads
    BY <1>16, FlushPopEffect
  <2>1. ThreadOK(t)'
    BY <1>1, <1>16, FlushPopEffect, HandPlace
    DEF ThreadOK, PlacesUnchangedBut, TakesFromLane
  <2>2. \A u \in Threads \ {t} : ThreadOK(u)'
    <3>1. CASE UNCHANGED place
      BY <1>1, <1>16, <3>1, FlushPopEffect DEF ThreadOK, ThreadsButOneUnchanged
    <3>2. CASE TakesFromLane(hand'[t])
      BY <1>16, <3>2, <2>0, FlushPopEffect, Bystanders
      DEF OthersLack, ThreadsButOneUnchanged, TakesFromLane
    <3>3. CASE TakesFromLane(running'[t])
      BY <1>16, <3>3, <2>0, FlushPopEffect, Bystanders
      DEF OthersLack, ThreadsButOneUnchanged, TakesFromLane
    <3> QED BY <1>16, <3>1, <3>2, <3>3, FlushPopEffect
  <2> QED BY <1>2, <2>0, <2>1, <2>2
<1>17. ASSUME NEW t \in Threads, CloseQueues(t) PROVE ThreadsOK'
  <2>1. ThreadOK(t)'
    BY <1>1, <1>17, CloseQueuesEffect, HandPlace DEF ThreadOK
  <2>2. ASSUME NEW u \in Threads \ {t} PROVE ThreadOK(u)'
    BY <1>1, <1>17, <2>2, CloseQueuesEffect, HandPlace DEF ThreadOK, Woken
  <2> QED BY <1>2, <2>1, <2>2
<1>18. ASSUME NEW t \in Threads, QuietStep(t) PROVE ThreadsOK'
  <2>1. UNCHANGED <<decl, place, hand, running, batch>>
    BY <1>18, QuietEffect DEF Quiet
  <2>2. pc \in [Threads -> Labels] /\ zeroed \in [Threads -> Counters \cup {NoCounter}]
    BY FunctionTypes DEF Inductive
  <2>3. CASE Signal(t)
    <3>1. ThreadOK(t)'
      BY <1>1, <2>1, <2>2, <2>3 DEF Signal, ThreadOK, NotifyOne, Goto, Sleepers, Caller, Idle
    <3>2. \A u \in Threads \ {t} : ThreadOK(u)'
      BY <1>1, <2>1, <2>2, <2>3 DEF Signal, ThreadOK, NotifyOne, Goto, Sleepers, Woken
    <3> QED BY <1>2, <3>1, <3>2
  <2>4. CASE AnnounceZero(t)
    <3>1. ThreadOK(t)'
      BY <1>1, <2>1, <2>2, <2>4 DEF AnnounceZero, ThreadOK, NotifyAll, Goto, Caller, Idle
    <3>2. \A u \in Threads \ {t} : ThreadOK(u)'
      BY <1>1, <2>1, <2>2, <2>4 DEF AnnounceZero, ThreadOK, NotifyAll, Goto, Sleepers, Woken
    <3> QED BY <1>2, <3>1, <3>2
  <2>5. CASE SpuriousWake(t) \/ JoinWorkers(t) \/ BeginShutdown(t)
    BY <1>1, <2>1, <2>2, <2>5
    DEF SpuriousWake, JoinWorkers, BeginShutdown, InUserCode, ThreadsOK, ThreadOK, Goto, Caller, Idle
  <2>6. CASE t = FlushThread /\ (FlushHead \/ FlushSleep \/ FlushWaitExpires)
    BY <1>1, <2>1, <2>2, <2>6
    DEF FlushHead, FlushReturns, FlushSleep, FlushWaitExpires, ThreadsOK, ThreadOK, Goto
  <2>7. CASE t = FlushThread /\ \E c \in Counters, kind \in FlushKinds : BeginFlush(c, kind)
    BY <1>1, <2>1, <2>2, <2>7 DEF BeginFlush, ThreadsOK, ThreadOK, Goto
  <2> QED BY <1>18, <2>3, <2>4, <2>5, <2>6, <2>7 DEF QuietStep
<1>19. CASE UNCHANGED vars
  BY <1>19 DEF vars, Inductive, ThreadsOK, ThreadOK
<1> QED
  BY <1>3, <1>4, <1>5, <1>6, <1>7, <1>8, <1>9, <1>10, <1>11, <1>12, <1>13, <1>14, <1>15,
     <1>16, <1>17, <1>18, <1>19, StepCases

\* OneOwner survives a step of t if whatever t owns next nobody else owned.
LEMMA OneOwnerKept ==
  ASSUME Inductive, NEW t \in Threads, NEW X,
         PlacesUnchangedBut(X), \A x \in X \cap Jobs : OthersLack(t, x),
         \A u \in Threads \ {t} :
           hand'[u] = hand[u] /\ running'[u] = running[u] /\ batch'[u] = batch[u],
         hand'[t] # NoJob => hand'[t] \in Jobs /\ OthersLack(t, hand'[t]),
         running'[t] # NoJob => running'[t] \in Jobs /\ OthersLack(t, running'[t]),
         \A i \in 1 .. Len(batch'[t]) :
           /\ batch'[t][i] \in Jobs /\ OthersLack(t, batch'[t][i])
           /\ place'[batch'[t][i]] = "cleared"
           /\ hand'[t] # batch'[t][i]
           /\ \A k \in 1 .. Len(batch'[t]) : batch'[t][i] = batch'[t][k] => i = k
  PROVE  OneOwner'
<1> USE NamesAssumption
<1>1. OneOwner
  BY DEF Inductive
<1>2. \A u \in Threads : batch[u] \in Seq(Jobs)
  BY FunctionTypes
<1>3. ASSUME NEW u \in Threads, NEW v \in Threads
      PROVE  u # v /\ hand'[u] # NoJob => hand'[u] # hand'[v]
  BY <1>1, <1>3, HandPlace, NotOwned DEF OneOwner
<1>4. ASSUME NEW u \in Threads, NEW v \in Threads
      PROVE  u # v /\ running'[u] # NoJob => running'[u] # running'[v]
  BY <1>1, <1>4, HandPlace, NotOwned DEF OneOwner
<1>5. ASSUME NEW u \in Threads, NEW v \in Threads, NEW i \in 1 .. Len(batch'[u])
      PROVE  /\ place'[batch'[u][i]] = "cleared"
             /\ hand'[v] # batch'[u][i]
             /\ \A k \in 1 .. Len(batch'[v]) : batch'[u][i] = batch'[v][k] => u = v /\ i = k
  <2>1. CASE u # t
    <3>1. /\ batch'[u] = batch[u] /\ batch[u][i] \in Jobs
          /\ batch[u][i] \in Range(batch[u])
      BY <1>2, <1>5, <2>1 DEF Range
    <3>2. place'[batch[u][i]] = "cleared"
      BY <1>1, <1>5, <2>1, <3>1, NotOwned DEF OneOwner, PlacesUnchangedBut
    <3>3. \A y \in Jobs : OthersLack(t, y) => batch[u][i] # y
      BY <2>1, <3>1, NotOwned
    <3> QED BY <1>1, <1>5, <2>1, <3>1, <3>2, <3>3 DEF OneOwner
  <2>2. CASE u = t
    <3>1. CASE v = t
      BY <1>5, <2>2, <3>1
    <3>2. CASE v # t
      <4>1. /\ batch'[u][i] # hand[v] /\ batch'[u][i] \notin Range(batch[v])
        BY <1>5, <2>2, <3>2, NotOwned
      <4>2. \A k \in 1 .. Len(batch[v]) : batch[v][k] \in Range(batch[v])
        BY <1>2, <3>2 DEF Range
      <4> QED BY <1>5, <2>2, <3>2, <4>1, <4>2
    <3> QED BY <3>1, <3>2
  <2> QED BY <2>1, <2>2
<1> QED BY <1>3, <1>4, <1>5 DEF OneOwner

\* The same for a step that moves one job into or out of t.
LEMMA OneOwnerKeptForOne ==
  ASSUME Inductive, NEW t \in Threads, NEW x \in Jobs, OthersLack(t, x),
         PlacesUnchangedBut({x}), ThreadsButOneUnchanged(t), batch'[t] = <<>>,
         hand'[t] \in {NoJob, hand[t], x}, running'[t] \in {NoJob, running[t], x}
  PROVE  OneOwner'
<1>1. \A y \in {x} \cap Jobs : OthersLack(t, y)
  OBVIOUS
<1>2. hand'[t] # NoJob => hand'[t] \in Jobs /\ OthersLack(t, hand'[t])
  BY HandPlace DEF OthersLack
<1>3. running'[t] # NoJob => running'[t] \in Jobs /\ OthersLack(t, running'[t])
  BY HandPlace DEF OthersLack
<1> QED BY <1>1, <1>2, <1>3, OneOwnerKept DEF ThreadsButOneUnchanged

\* The inductive step of OneOwner.
LEMMA OwnersStep ==
  ASSUME Inductive, [Next]_vars
  PROVE  OneOwner'
<1>1. ASSUME NEW t \in Threads
      PROVE  /\ pc[t] \notin {"release", "signalRelease"} => batch[t] = <<>>
             /\ pc[t] \notin {"counted", "park", "push", "requeue", "popped"} => hand[t] = NoJob
  BY DEF Inductive, ThreadsOK, ThreadOK
<1>2. CASE UNCHANGED <<place, hand, running, batch>>
  BY <1>2 DEF Inductive, OneOwner
<1>3. ASSUME NEW t \in Threads, NEW j \in Jobs, Dispatch(t, j) PROVE OneOwner'
  <2>1. OthersLack(t, j) /\ batch'[t] = <<>> /\ PlacesUnchangedBut({j}) /\ ThreadsButOneUnchanged(t)
    BY <1>1, <1>3, DispatchEffect DEF OthersLack
  <2>2. hand'[t] = j /\ running'[t] = running[t]
    BY <1>3, DispatchEffect
  <2> QED BY <2>1, <2>2, OneOwnerKeptForOne
<1>4. ASSUME NEW t \in Threads, TestWait(t) PROVE OneOwner'
  <2>1. hand[t] \in Jobs /\ OthersLack(t, hand[t]) /\ batch'[t] = <<>>
    BY <1>1, <1>4, TestWaitEffect DEF OthersLack
  <2>2. /\ PlacesUnchangedBut({hand[t]}) /\ ThreadsButOneUnchanged(t)
        /\ hand'[t] = hand[t] /\ running'[t] = running[t]
    BY <1>4, TestWaitEffect
  <2> QED BY <2>1, <2>2, OneOwnerKeptForOne
<1>5. ASSUME NEW t \in Threads, Park(t) PROVE OneOwner'
  <2>1. hand[t] \in Jobs /\ OthersLack(t, hand[t]) /\ batch'[t] = <<>>
    BY <1>1, <1>5, ParkEffect DEF OthersLack
  <2>2. /\ PlacesUnchangedBut({hand[t]}) /\ ThreadsButOneUnchanged(t)
        /\ hand'[t] \in {NoJob, hand[t]} /\ running'[t] = running[t]
    BY <1>5, ParkEffect
  <2> QED BY <2>1, <2>2, OneOwnerKeptForOne
<1>6. ASSUME NEW t \in Threads, Push(t) PROVE OneOwner'
  <2>1. hand[t] \in Jobs /\ OthersLack(t, hand[t]) /\ batch'[t] = <<>>
    BY <1>1, <1>6, PushEffect DEF OthersLack
  <2>2. /\ PlacesUnchangedBut({hand[t]}) /\ ThreadsButOneUnchanged(t)
        /\ hand'[t] = NoJob /\ running'[t] = running[t]
    BY <1>6, PushEffect
  <2> QED BY <2>1, <2>2, OneOwnerKeptForOne
<1>7. ASSUME NEW t \in Threads, Panic(t) PROVE OneOwner'
  <2>1. \A x \in Owned(t) : OthersLack(t, x)
    BY DEF OthersLack, Owned
  <2>2. /\ PlacesUnchangedBut(Owned(t)) /\ ThreadsButOneUnchanged(t)
        /\ hand'[t] = NoJob /\ running'[t] = NoJob /\ batch'[t] = <<>>
    BY <1>7, PanicEffect
  <2> QED BY <2>1, <2>2, OneOwnerKept DEF ThreadsButOneUnchanged
<1>8. ASSUME NEW t \in Threads, FinishBody(t) PROVE OneOwner'
  <2>1. running[t] \in Jobs /\ OthersLack(t, running[t]) /\ batch'[t] = <<>>
    BY <1>1, <1>8, FinishBodyEffect DEF OthersLack
  <2>2. /\ PlacesUnchangedBut({running[t]}) /\ ThreadsButOneUnchanged(t)
        /\ hand'[t] = hand[t] /\ running'[t] = NoJob
    BY <1>8, FinishBodyEffect
  <2> QED BY <2>1, <2>2, OneOwnerKeptForOne
<1>9. ASSUME NEW t \in Threads, NEW d \in Deferrals, CreateDeferral(t, d) PROVE OneOwner'
  BY <1>2, <1>9 DEF CreateDeferral, jobVars, threadVars
<1>10. ASSUME NEW t \in Threads, NEW d \in Deferrals, FinishDeferral(t, d) PROVE OneOwner'
  BY <1>2, <1>10, FinishDeferralEffect
<1>11. ASSUME NEW t \in Threads, DrainWaiting(t) PROVE OneOwner'
  <2> DEFINE w == waiting[zeroed[t]]
  <2>1. /\ w \in Seq(Jobs) /\ zeroed[t] \in Counters /\ ThreadsButOneUnchanged(t)
        /\ hand'[t] = hand[t] /\ running'[t] = running[t] /\ hand[t] = NoJob
    BY <1>1, <1>11, DrainWaitingEffect
  <2>2. CASE value[zeroed[t]] = 0
    <3>1. \A i \in 1 .. Len(w) :
            /\ w[i] \in Jobs /\ place[w[i]] = "parked"
            /\ \A k \in 1 .. Len(w) : w[i] = w[k] => i = k
      BY <2>1 DEF Inductive, QueuesOK
    <3>2. \A x \in Range(w) : OthersLack(t, x)
      BY <2>1, <3>1 DEF OthersLack, Range
    <3>3. /\ batch'[t] = w /\ PlacesUnchangedBut(Range(w))
          /\ \A i \in 1 .. Len(w) : place'[w[i]] = "cleared"
      BY <1>11, <2>2, DrainWaitingEffect
    <3>4. \A i \in 1 .. Len(w) : OthersLack(t, w[i]) /\ hand'[t] # w[i]
      BY <2>1, <3>1, NamesAssumption DEF OthersLack
    <3>5. running[t] # NoJob => running[t] \in Jobs /\ OthersLack(t, running[t])
      BY HandPlace DEF OthersLack
    <3> HIDE DEF w
    <3> QED BY <2>1, <3>1, <3>2, <3>3, <3>4, <3>5, OneOwnerKept DEF ThreadsButOneUnchanged
  <2>3. CASE value[zeroed[t]] # 0
    <3>1. UNCHANGED <<place, hand, running, batch>>
      BY <1>11, <2>3 DEF DrainWaiting, IsZero
    <3> QED BY <1>2, <3>1
  <2> QED BY <2>2, <2>3
<1>12. ASSUME NEW t \in Threads, ReleaseOne(t) PROVE OneOwner'
  <2> DEFINE b == batch[t]
             j == b[Len(b)]
  <2>1. /\ b \in Seq(Jobs) /\ b # <<>> /\ j \in Jobs /\ PlacesUnchangedBut({j})
        /\ ThreadsButOneUnchanged(t) /\ batch'[t] = Front(b)
        /\ hand'[t] = hand[t] /\ running'[t] = running[t] /\ hand[t] = NoJob
    BY <1>1, <1>12, ReleaseOneEffect
  <2>2. \A i \in 1 .. Len(b) :
          /\ b[i] \in Jobs /\ place[b[i]] = "cleared" /\ b[i] \in Range(b)
          /\ \A k \in 1 .. Len(b) : b[i] = b[k] => i = k
    BY <2>1 DEF Inductive, OneOwner, Range
  <2>3. /\ Len(Front(b)) = Len(b) - 1 /\ Len(b) \in Nat \ {0}
        /\ \A i \in 1 .. Len(Front(b)) : Front(b)[i] = b[i] /\ i \in 1 .. Len(b) /\ i # Len(b)
    BY <2>1 DEF Front
  <2>4. \A x \in {j} : OthersLack(t, x)
    BY <2>2, <2>3 DEF OthersLack
  <2>5. \A i \in 1 .. Len(Front(b)) :
          /\ Front(b)[i] \in Jobs /\ OthersLack(t, Front(b)[i])
          /\ Front(b)[i] # j /\ place[Front(b)[i]] = "cleared" /\ hand'[t] # Front(b)[i]
          /\ \A k \in 1 .. Len(Front(b)) : Front(b)[i] = Front(b)[k] => i = k
    BY <2>1, <2>2, <2>3, NamesAssumption DEF OthersLack
  <2>6. running[t] # NoJob => running[t] \in Jobs /\ OthersLack(t, running[t])
    BY HandPlace DEF OthersLack
  <2> HIDE DEF j, b
  <2>7. \A i \in 1 .. Len(Front(b)) : place'[Front(b)[i]] = "cleared"
    BY <2>1, <2>5 DEF PlacesUnchangedBut
  <2> QED BY <2>1, <2>4, <2>5, <2>6, <2>7, OneOwnerKept DEF ThreadsButOneUnchanged
<1>13. ASSUME NEW t \in Threads, ReleaseEnds(t) PROVE OneOwner'
  <2>1. /\ PlacesUnchangedBut(Range(batch[t])) /\ ThreadsButOneUnchanged(t)
        /\ hand'[t] = NoJob /\ running'[t] = running[t] /\ batch'[t] = <<>>
    BY <1>1, <1>13, ReleaseEndsEffect
  <2>2. \A x \in Range(batch[t]) : OthersLack(t, x)
    BY DEF OthersLack
  <2>3. running[t] # NoJob => running[t] \in Jobs /\ OthersLack(t, running[t])
    BY HandPlace DEF OthersLack
  <2> QED BY <2>1, <2>2, <2>3, OneOwnerKept DEF ThreadsButOneUnchanged
<1>14. ASSUME NEW t \in Threads, PopBlocking(t) PROVE OneOwner'
  <2>1. /\ ThreadsButOneUnchanged(t) /\ hand[t] = NoJob /\ running'[t] = running[t]
        /\ batch'[t] = <<>>
    BY <1>1, <1>14, PopBlockingEffect
  <2>2. CASE UNCHANGED place /\ hand'[t] = NoJob
    <3>1. \A x \in {} : OthersLack(t, x)
      OBVIOUS
    <3>2. PlacesUnchangedBut({})
      BY <2>2 DEF PlacesUnchangedBut
    <3>3. running[t] # NoJob => running[t] \in Jobs /\ OthersLack(t, running[t])
      BY HandPlace DEF OthersLack
    <3> QED BY <2>1, <2>2, <3>1, <3>2, <3>3, OneOwnerKept DEF ThreadsButOneUnchanged
  <2>3. CASE TakesFromLane(hand'[t])
    <3>1. /\ hand'[t] \in Jobs /\ OthersLack(t, hand'[t]) /\ PlacesUnchangedBut({hand'[t]})
      BY <2>3 DEF TakesFromLane, OthersLack
    <3> QED BY <2>1, <3>1, OneOwnerKeptForOne
  <2> QED BY <1>14, <2>2, <2>3, PopBlockingEffect
<1>15. ASSUME NEW t \in Threads, RunPopped(t) PROVE OneOwner'
  <2>1. hand[t] \in Jobs /\ OthersLack(t, hand[t]) /\ batch'[t] = <<>>
    BY <1>1, <1>15, RunPoppedEffect DEF OthersLack
  <2>2. /\ PlacesUnchangedBut({hand[t]}) /\ ThreadsButOneUnchanged(t)
        /\ hand'[t] = NoJob /\ running'[t] \in {running[t], hand[t]}
    BY <1>15, RunPoppedEffect
  <2> QED BY <2>1, <2>2, OneOwnerKeptForOne
<1>16. ASSUME FlushPop PROVE OneOwner'
  <2> DEFINE t == FlushThread
  <2>1. /\ t \in Threads /\ ThreadsButOneUnchanged(t) /\ hand[t] = NoJob /\ batch'[t] = <<>>
    BY <1>1, <1>16, FlushPopEffect
  <2>2. CASE TakesFromLane(hand'[t]) /\ running'[t] = running[t]
    <3>1. /\ hand'[t] \in Jobs /\ OthersLack(t, hand'[t]) /\ PlacesUnchangedBut({hand'[t]})
      BY <2>2 DEF TakesFromLane, OthersLack
    <3> QED BY <2>1, <2>2, <3>1, OneOwnerKeptForOne
  <2>3. CASE TakesFromLane(running'[t]) /\ hand'[t] = NoJob
    <3>1. /\ running'[t] \in Jobs /\ OthersLack(t, running'[t]) /\ PlacesUnchangedBut({running'[t]})
      BY <2>3 DEF TakesFromLane, OthersLack
    <3> QED BY <2>1, <2>3, <3>1, OneOwnerKeptForOne
  <2>4. CASE UNCHANGED place /\ hand'[t] = NoJob /\ running'[t] = running[t]
    <3>1. \A x \in {} : OthersLack(t, x)
      OBVIOUS
    <3>2. PlacesUnchangedBut({})
      BY <2>4 DEF PlacesUnchangedBut
    <3>3. running[t] # NoJob => running[t] \in Jobs /\ OthersLack(t, running[t])
      BY <2>1, HandPlace DEF OthersLack
    <3> QED BY <2>1, <2>4, <3>1, <3>2, <3>3, OneOwnerKept DEF ThreadsButOneUnchanged
  <2> QED BY <1>16, <2>2, <2>3, <2>4, FlushPopEffect
<1>17. ASSUME NEW t \in Threads, CloseQueues(t) PROVE OneOwner'
  <2> DEFINE X == {j \in Jobs : place[j] = "ready"}
  <2>1. /\ pc[t] = "close" /\ hand'[t] = NoJob /\ batch'[t] = <<>> /\ running'[t] = running[t]
        /\ \A u \in Threads \ {t} :
             hand'[u] = hand[u] /\ running'[u] = running[u] /\ batch'[u] = batch[u]
    BY <1>1, <1>17, CloseQueuesEffect
  <2>2. PlacesUnchangedBut(X)
    BY <1>17, CloseQueuesEffect DEF PlacesUnchangedBut
  <2>3. \A x \in X : OthersLack(t, x)
    BY DEF OthersLack
  <2>4. running[t] # NoJob => running[t] \in Jobs /\ OthersLack(t, running[t])
    BY HandPlace DEF OthersLack
  <2> HIDE DEF X
  <2> QED BY <2>1, <2>2, <2>3, <2>4, OneOwnerKept
<1>18. ASSUME NEW t \in Threads, QuietStep(t) PROVE OneOwner'
  BY <1>2, <1>18, QuietEffect DEF Quiet
<1>19. CASE UNCHANGED vars
  BY <1>2, <1>19 DEF vars
<1> QED
  BY <1>3, <1>4, <1>5, <1>6, <1>7, <1>8, <1>9, <1>10, <1>11, <1>12, <1>13, <1>14, <1>15,
     <1>16, <1>17, <1>18, <1>19, StepCases

\* The two halves of QueuesOK, for the queues s and the jobs they may hold.
LaneOK(l) == \A i \in 1 .. Len(lanes[l]) :
  /\ place[lanes[l][i]] = "ready" /\ LaneOf(lanes[l][i]) = l
  /\ \A k \in 1 .. Len(lanes[l]) : lanes[l][i] = lanes[l][k] => i = k
WaitersOK(c) == \A i \in 1 .. Len(waiting[c]) :
  /\ place[waiting[c][i]] = "parked" /\ decl[waiting[c][i]].wait = c
  /\ \A k \in 1 .. Len(waiting[c]) : waiting[c][i] = waiting[c][k] => i = k

\* QueuesOK, queue by queue.
LEMMA QueuesSplit ==
  /\ QueuesOK <=> (\A l \in Lanes : LaneOK(l)) /\ (\A c \in Counters : WaitersOK(c))
  /\ QueuesOK' <=> (\A l \in Lanes : LaneOK(l)') /\ (\A c \in Counters : WaitersOK(c)')
BY DEF QueuesOK, LaneOK, WaitersOK

\* The lane of a job does not change.
LEMMA LaneOfKept ==
  ASSUME decl' = decl
  PROVE  \A j : LaneOf(j)' = LaneOf(j)
BY DEF LaneOf, Priority

\* A lane nobody touches stays in order.
LEMMA LaneKept ==
  ASSUME Inductive, NEW l \in Lanes, lanes'[l] = lanes[l], decl' = decl,
         \A j \in Jobs : place[j] = "ready" => place'[j] = "ready" \/ LaneOf(j) # l
  PROVE  LaneOK(l)'
<1>1. LaneOK(l) /\ lanes[l] \in Seq(Jobs)
  BY QueuesSplit, FunctionTypes DEF Inductive
<1> QED BY <1>1, LaneOfKept DEF LaneOK

\* A waiting list nobody touches stays in order.
LEMMA WaitersKept ==
  ASSUME Inductive, NEW c \in Counters, waiting'[c] = waiting[c], decl' = decl,
         \A j \in Jobs : place[j] = "parked" => place'[j] = "parked" \/ decl[j].wait # c
  PROVE  WaitersOK(c)'
<1>1. WaitersOK(c) /\ waiting[c] \in Seq(Jobs)
  BY QueuesSplit, FunctionTypes DEF Inductive
<1> QED BY <1>1 DEF WaitersOK

\* Pushing a job nobody queued keeps the queues in order.
LEMMA LanesAfterPush ==
  ASSUME Inductive, NEW j \in Jobs, LaneOf(j) \in Lanes, place[j] \notin {"ready", "parked"},
         place'[j] = "ready", PlacesUnchangedBut({j}), UNCHANGED <<decl, waiting>>,
         lanes' = [lanes EXCEPT ![LaneOf(j)] = Append(@, j)]
  PROVE  QueuesOK'
<1>1. \A c \in Counters : WaitersOK(c)'
  BY WaitersKept DEF PlacesUnchangedBut
<1>2. ASSUME NEW l \in Lanes PROVE LaneOK(l)'
  <2>1. LaneOK(l) /\ lanes[l] \in Seq(Jobs) /\ lanes \in [Lanes -> Seq(Jobs)]
    BY QueuesSplit, FunctionTypes DEF Inductive
  <2>2. CASE l # LaneOf(j)
    BY <2>1, <2>2, LaneKept DEF PlacesUnchangedBut
  <2>3. CASE l = LaneOf(j)
    <3>1. lanes'[l] = Append(lanes[l], j)
      BY <2>1, <2>3
    <3>2. \A i \in 1 .. Len(lanes[l]) : /\ lanes[l][i] \in Jobs \ {j}
                                        /\ place'[lanes[l][i]] = "ready"
      BY <2>1 DEF LaneOK, PlacesUnchangedBut
    <3>3. /\ Len(lanes'[l]) = Len(lanes[l]) + 1 /\ Len(lanes[l]) \in Nat
          /\ \A i \in 1 .. Len(lanes[l]) : lanes'[l][i] = lanes[l][i]
          /\ lanes'[l][Len(lanes[l]) + 1] = j
      BY <2>1, <3>1
    <3>4. \A i : LaneOf(i)' = LaneOf(i)
      BY LaneOfKept
    <3>5. ASSUME NEW i \in 1 .. Len(lanes'[l])
          PROVE  \/ i \in 1 .. Len(lanes[l])
                 \/ i = Len(lanes[l]) + 1
      BY <3>3
    <3>6. ASSUME NEW i \in 1 .. Len(lanes'[l])
          PROVE  place'[lanes'[l][i]] = "ready" /\ LaneOf(lanes'[l][i]) = l
      BY <2>1, <2>3, <3>2, <3>3, <3>5 DEF LaneOK
    <3>7. ASSUME NEW i \in 1 .. Len(lanes'[l]), NEW k \in 1 .. Len(lanes'[l]),
                 lanes'[l][i] = lanes'[l][k]
          PROVE  i = k
      BY <2>1, <3>2, <3>3, <3>5, <3>7 DEF LaneOK
    <3> QED BY <3>4, <3>6, <3>7 DEF LaneOK
  <2> QED BY <2>2, <2>3
<1> QED BY <1>1, <1>2, QueuesSplit

\* Popping the top lane keeps the queues in order.
LEMMA LanesAfterPop ==
  ASSUME Inductive, NEW j, TakesFromLane(j), place'[j] \notin {"new", "parked", "ready"},
         UNCHANGED <<decl, waiting>>
  PROVE  QueuesOK'
<1>1. \A c \in Counters : WaitersOK(c)'
  BY WaitersKept DEF PlacesUnchangedBut, TakesFromLane
<1>2. ASSUME NEW l \in Lanes PROVE LaneOK(l)'
  <2>1. LaneOK(l) /\ lanes[l] \in Seq(Jobs) /\ lanes \in [Lanes -> Seq(Jobs)]
    BY QueuesSplit, FunctionTypes DEF Inductive
  <2>2. CASE l # TopLane
    <3>1. LaneOf(j) = TopLane /\ lanes'[l] = lanes[l]
      BY <2>1, <2>2, QueuesSplit DEF TakesFromLane, LaneOK, Inductive
    <3> QED BY <2>2, <3>1, LaneKept DEF PlacesUnchangedBut, TakesFromLane
  <2>3. CASE l = TopLane
    <3>1. /\ lanes[l] # <<>> /\ lanes'[l] = Tail(lanes[l]) /\ j = lanes[l][1]
          /\ PlacesUnchangedBut({j})
      BY <2>1, <2>3 DEF TakesFromLane
    <3>2. /\ Len(lanes'[l]) = Len(lanes[l]) - 1 /\ Len(lanes[l]) \in Nat \ {0}
          /\ \A i \in 1 .. Len(lanes'[l]) : lanes'[l][i] = lanes[l][i + 1]
      BY <2>1, <3>1
    <3>3. \A i \in 1 .. Len(lanes'[l]) : i + 1 \in 1 .. Len(lanes[l]) /\ i + 1 # 1
      BY <3>2
    <3>4. \A i : LaneOf(i)' = LaneOf(i)
      BY LaneOfKept
    <3>5. 1 \in 1 .. Len(lanes[l])
      BY <3>2
    <3>6. ASSUME NEW i \in 1 .. Len(lanes'[l])
          PROVE  lanes'[l][i] \in Jobs \ {j}
      BY <2>1, <3>1, <3>2, <3>3, <3>5 DEF LaneOK
    <3>7. ASSUME NEW i \in 1 .. Len(lanes'[l])
          PROVE  place'[lanes'[l][i]] = "ready" /\ LaneOf(lanes'[l][i]) = l
      <4>1. lanes'[l][i] = lanes[l][i + 1] /\ i + 1 \in 1 .. Len(lanes[l])
        BY <3>2, <3>3
      <4>2. place[lanes[l][i + 1]] = "ready" /\ LaneOf(lanes[l][i + 1]) = l
        BY <2>1, <4>1 DEF LaneOK
      <4> QED BY <3>1, <3>6, <4>1, <4>2 DEF PlacesUnchangedBut
    <3>8. ASSUME NEW i \in 1 .. Len(lanes'[l]), NEW k \in 1 .. Len(lanes'[l]),
                 lanes'[l][i] = lanes'[l][k]
          PROVE  i = k
      <4>1. i + 1 = k + 1
        BY <2>1, <3>2, <3>3, <3>8 DEF LaneOK
      <4> QED BY <4>1
    <3> QED BY <3>4, <3>7, <3>8 DEF LaneOK
  <2> QED BY <2>2, <2>3
<1> QED BY <1>1, <1>2, QueuesSplit

\* So does a step that touches no queue and no queued job.
LEMMA QueuesKept ==
  ASSUME Inductive, UNCHANGED <<lanes, waiting, decl>>,
         \A j \in Jobs : place[j] \in {"ready", "parked"} => place'[j] = place[j]
  PROVE  QueuesOK'
<1>1. \A l \in Lanes : LaneOK(l)'
  BY LaneKept
<1>2. \A c \in Counters : WaitersOK(c)'
  BY WaitersKept
<1> QED BY <1>1, <1>2, QueuesSplit

\* The shared shape of the steps that move one job between two threads' hands.
LEMMA QueuesKeptForOne ==
  ASSUME Inductive, UNCHANGED <<lanes, waiting, decl>>, NEW x,
         place[x] \notin {"ready", "parked"}, PlacesUnchangedBut({x})
  PROVE  QueuesOK'
BY QueuesKept DEF PlacesUnchangedBut

\* Parking a job keeps the queues in order.
LEMMA QueuesAfterPark ==
  ASSUME Inductive, NEW j \in Jobs, NEW w \in Counters, decl[j].wait = w,
         place[j] \notin {"ready", "parked"}, place'[j] = "parked", PlacesUnchangedBut({j}),
         UNCHANGED <<decl, lanes>>, waiting' = [waiting EXCEPT ![w] = Append(@, j)]
  PROVE  QueuesOK'
<1>1. \A l \in Lanes : LaneOK(l)'
  BY LaneKept DEF PlacesUnchangedBut
<1>2. ASSUME NEW c \in Counters PROVE WaitersOK(c)'
  <2>1. WaitersOK(c) /\ waiting[c] \in Seq(Jobs) /\ waiting \in [Counters -> Seq(Jobs)]
    BY QueuesSplit, FunctionTypes DEF Inductive
  <2>2. CASE c # w
    BY <2>1, <2>2, WaitersKept DEF PlacesUnchangedBut
  <2>3. CASE c = w
    <3>1. waiting'[c] = Append(waiting[c], j)
      BY <2>1, <2>3
    <3>2. \A i \in 1 .. Len(waiting[c]) : /\ waiting[c][i] \in Jobs \ {j}
                                          /\ place'[waiting[c][i]] = "parked"
      BY <2>1 DEF WaitersOK, PlacesUnchangedBut
    <3>3. /\ Len(waiting'[c]) = Len(waiting[c]) + 1 /\ Len(waiting[c]) \in Nat
          /\ \A i \in 1 .. Len(waiting[c]) : waiting'[c][i] = waiting[c][i]
          /\ waiting'[c][Len(waiting[c]) + 1] = j
      BY <2>1, <3>1
    <3>4. ASSUME NEW i \in 1 .. Len(waiting'[c])
          PROVE  \/ i \in 1 .. Len(waiting[c])
                 \/ i = Len(waiting[c]) + 1
      BY <3>3
    <3>5. ASSUME NEW i \in 1 .. Len(waiting'[c])
          PROVE  place'[waiting'[c][i]] = "parked" /\ decl[waiting'[c][i]].wait = c
      BY <2>1, <2>3, <3>2, <3>3, <3>4 DEF WaitersOK
    <3>6. ASSUME NEW i \in 1 .. Len(waiting'[c]), NEW k \in 1 .. Len(waiting'[c]),
                 waiting'[c][i] = waiting'[c][k]
          PROVE  i = k
      BY <2>1, <3>2, <3>3, <3>4, <3>6 DEF WaitersOK
    <3> QED BY <3>5, <3>6 DEF WaitersOK
  <2> QED BY <2>2, <2>3
<1> QED BY <1>1, <1>2, QueuesSplit

\* The inductive step of QueuesOK.
LEMMA QueuesStep ==
  ASSUME Inductive, [Next]_vars
  PROVE  QueuesOK'
<1>1. CASE UNCHANGED <<decl, place, lanes, waiting>>
  BY <1>1, QueuesKept
<1>3. ASSUME NEW t \in Threads, NEW j \in Jobs, Dispatch(t, j) PROVE QueuesOK'
  BY <1>3, DispatchEffect, QueuesKeptForOne
<1>4. ASSUME NEW t \in Threads, TestWait(t) PROVE QueuesOK'
  BY <1>4, TestWaitEffect, QueuesKeptForOne
<1>5. ASSUME NEW t \in Threads, Park(t) PROVE QueuesOK'
  <2>1. CASE waiting' = waiting
    BY <1>5, <2>1, ParkEffect, QueuesKeptForOne
  <2>2. CASE waiting' # waiting
    BY <1>5, <2>2, ParkEffect, QueuesAfterPark
  <2> QED BY <2>1, <2>2
<1>6. ASSUME NEW t \in Threads, Push(t) PROVE QueuesOK'
  BY <1>6, PushEffect, LanesAfterPush
<1>7. ASSUME NEW t \in Threads, Panic(t) PROVE QueuesOK'
  <2>1. \A x \in Owned(t) : place[x] \notin {"ready", "parked"}
    BY HandPlace DEF Owned
  <2>2. UNCHANGED <<lanes, waiting, decl>> /\ PlacesUnchangedBut(Owned(t))
    BY <1>7, PanicEffect
  <2> QED BY <2>1, <2>2, QueuesKept DEF PlacesUnchangedBut
<1>8. ASSUME NEW t \in Threads, FinishBody(t) PROVE QueuesOK'
  BY <1>8, FinishBodyEffect, QueuesKeptForOne
<1>9. ASSUME NEW t \in Threads, NEW d \in Deferrals, CreateDeferral(t, d) PROVE QueuesOK'
  BY <1>1, <1>9 DEF CreateDeferral, jobVars
<1>10. ASSUME NEW t \in Threads, NEW d \in Deferrals, FinishDeferral(t, d) PROVE QueuesOK'
  BY <1>1, <1>10, FinishDeferralEffect
<1>11. ASSUME NEW t \in Threads, DrainWaiting(t) PROVE QueuesOK'
  <2> DEFINE z == zeroed[t]
             w == waiting[z]
  <2>1. /\ z \in Counters /\ w \in Seq(Jobs) /\ decl' = decl /\ lanes' = lanes
    BY <1>11, DrainWaitingEffect
  <2>2. CASE value[z] # 0
    BY <1>1, <1>11, <2>1, <2>2, DrainWaitingEffect
  <2>3. CASE value[z] = 0
    <3>1. /\ waiting' = [waiting EXCEPT ![z] = <<>>] /\ PlacesUnchangedBut(Range(w))
      BY <1>11, <2>3, DrainWaitingEffect
    <3>2. \A x \in Range(w) : place[x] = "parked" /\ decl[x].wait = z
      BY <2>1 DEF Inductive, QueuesOK, Range
    <3> HIDE DEF w
    <3>3. \A l \in Lanes : LaneOK(l)'
      BY <2>1, <3>1, <3>2, LaneKept DEF PlacesUnchangedBut
    <3>4. ASSUME NEW c \in Counters PROVE WaitersOK(c)'
      <4>1. CASE c = z
        <5>1. waiting'[c] = <<>>
          BY <3>1, <4>1, FunctionTypes
        <5> QED BY <5>1 DEF WaitersOK
      <4>2. CASE c # z
        <5>1. waiting'[c] = waiting[c]
          BY <3>1, <4>2, FunctionTypes
        <5> QED BY <2>1, <3>1, <3>2, <4>2, <5>1, WaitersKept DEF PlacesUnchangedBut
      <4> QED BY <4>1, <4>2
    <3> QED BY <3>3, <3>4, QueuesSplit
  <2> QED BY <2>2, <2>3
<1>12. ASSUME NEW t \in Threads, ReleaseOne(t) PROVE QueuesOK'
  <2> DEFINE j == batch[t][Len(batch[t])]
  <2>1. /\ j \in Jobs /\ place[j] = "cleared" /\ place'[j] = "ready" /\ LaneOf(j) \in Lanes
        /\ lanes' = [lanes EXCEPT ![LaneOf(j)] = Append(@, j)]
        /\ PlacesUnchangedBut({j}) /\ UNCHANGED <<decl, waiting>>
    BY <1>12, ReleaseOneEffect
  <2> HIDE DEF j
  <2> QED BY <2>1, LanesAfterPush
<1>13. ASSUME NEW t \in Threads, ReleaseEnds(t) PROVE QueuesOK'
  <2>1. \A x \in Range(batch[t]) : place[x] = "cleared"
    BY HandPlace
  <2>2. UNCHANGED <<lanes, waiting, decl>> /\ PlacesUnchangedBut(Range(batch[t]))
    BY <1>13, ReleaseEndsEffect
  <2> QED BY <2>1, <2>2, QueuesKept DEF PlacesUnchangedBut
<1>14. ASSUME NEW t \in Threads, PopBlocking(t) PROVE QueuesOK'
  BY <1>1, <1>14, PopBlockingEffect, LanesAfterPop
<1>15. ASSUME NEW t \in Threads, RunPopped(t) PROVE QueuesOK'
  BY <1>15, RunPoppedEffect, QueuesKeptForOne
<1>16. ASSUME FlushPop PROVE QueuesOK'
  BY <1>1, <1>16, FlushPopEffect, LanesAfterPop
<1>17. ASSUME NEW t \in Threads, CloseQueues(t) PROVE QueuesOK'
  <2>1. \A c \in Counters : WaitersOK(c)'
    BY <1>17, CloseQueuesEffect, WaitersKept
  <2>2. \A l \in Lanes : LaneOK(l)'
    BY <1>17, CloseQueuesEffect DEF LaneOK
  <2> QED BY <2>1, <2>2, QueuesSplit
<1>18. ASSUME NEW t \in Threads, QuietStep(t) PROVE QueuesOK'
  BY <1>1, <1>18, QuietEffect DEF Quiet
<1>19. CASE UNCHANGED vars
  BY <1>1, <1>19 DEF vars
<1> QED
  BY <1>3, <1>4, <1>5, <1>6, <1>7, <1>8, <1>9, <1>10, <1>11, <1>12, <1>13, <1>14, <1>15,
     <1>16, <1>17, <1>18, <1>19, StepCases

Counted(j) == place[j] \notin {"new", "done"}

\* A step that starts and finishes no unit leaves the outstanding ones alone.
LEMMA OutstandingKept ==
  ASSUME UNCHANGED <<decl, deferral>>, \A j \in Jobs : Counted(j)' <=> Counted(j)
  PROVE  \A c : Outstanding(c)' = Outstanding(c)
BY DEF Outstanding, Counted

\* One more unit, one more on the counter.
LEMMA OutstandingGrows ==
  ASSUME CounterConservation, NEW c \in Counters, NEW u, u \notin Outstanding(c),
         Outstanding(c)' = Outstanding(c) \cup {u}, value'[c] = value[c] + 1
  PROVE  value'[c] = Cardinality(Outstanding(c)')
BY OutstandingFinite, FS_AddElement DEF CounterConservation

\* One unit less, one less on the counter.
LEMMA OutstandingShrinks ==
  ASSUME CounterConservation, NEW c \in Counters, NEW u, u \in Outstanding(c),
         Outstanding(c)' = Outstanding(c) \ {u}, value'[c] = value[c] - 1
  PROVE  value'[c] = Cardinality(Outstanding(c)')
BY OutstandingFinite, FS_RemoveElement DEF CounterConservation

\* A step that starts and finishes no unit conserves the counters.
LEMMA ConservationKept ==
  ASSUME Inductive, UNCHANGED <<decl, deferral, value>>,
         \A j \in Jobs : Counted(j)' <=> Counted(j)
  PROVE  CounterConservation'
BY OutstandingKept DEF Inductive, CounterConservation

\* The same for a step that moves one job.
LEMMA ConservationKeptForOne ==
  ASSUME Inductive, UNCHANGED <<decl, deferral, value>>, NEW x, PlacesUnchangedBut({x}),
         place[x] \notin {"new", "done"}, place'[x] \notin {"new", "done"}
  PROVE  CounterConservation'
BY ConservationKept DEF Counted, PlacesUnchangedBut

\* The inductive step of CounterConservation.
LEMMA ConservationStep ==
  ASSUME Inductive, [Next]_vars
  PROVE  CounterConservation'
<1>1. CASE UNCHANGED <<decl, place, value, deferral>>
  BY <1>1, ConservationKept DEF Counted
<1>2. CounterConservation /\ Jobs \cap Deferrals = {}
  BY NamesAssumption DEF Inductive
<1>3. ASSUME NEW t \in Threads, NEW j \in Jobs, Dispatch(t, j) PROVE CounterConservation'
  <2>1. /\ place[j] = "new" /\ place'[j] = "counted" /\ PlacesUnchangedBut({j})
        /\ UNCHANGED <<decl, deferral>>
    BY <1>3, DispatchEffect
  <2>2. /\ decl[j].accum \in Counters /\ value \in [Counters -> Nat]
        /\ value' = [value EXCEPT ![decl[j].accum] = @ + 1]
    BY <1>3, FunctionTypes DEF Dispatch, Decl
  <2>3. ASSUME NEW c \in Counters PROVE value'[c] = Cardinality(Outstanding(c)')
    <3>1. CASE c = decl[j].accum
      <4>1. Outstanding(c)' = Outstanding(c) \cup {j}
        BY <2>1, <3>1 DEF Outstanding, PlacesUnchangedBut
      <4>2. j \notin Outstanding(c)
        BY <1>2, <2>1 DEF Outstanding
      <4> QED BY <1>2, <2>2, <3>1, <4>1, <4>2, OutstandingGrows
    <3>2. CASE c # decl[j].accum
      <4>1. Outstanding(c)' = Outstanding(c)
        BY <2>1, <3>2 DEF Outstanding, PlacesUnchangedBut
      <4> QED BY <1>2, <2>2, <3>2, <4>1 DEF CounterConservation
    <3> QED BY <3>1, <3>2
  <2> QED BY <2>3 DEF CounterConservation
<1>4. ASSUME NEW t \in Threads, TestWait(t) PROVE CounterConservation'
  BY <1>4, TestWaitEffect, ConservationKeptForOne
<1>5. ASSUME NEW t \in Threads, Park(t) PROVE CounterConservation'
  BY <1>5, ParkEffect, ConservationKeptForOne
<1>6. ASSUME NEW t \in Threads, Push(t) PROVE CounterConservation'
  BY <1>6, PushEffect, ConservationKeptForOne
<1>7. ASSUME NEW t \in Threads, Panic(t) PROVE CounterConservation'
  <2>1. \A x \in Owned(t) : place[x] \notin {"new", "done"}
    BY HandPlace DEF Owned
  <2>2. \A x \in Owned(t) \cap Jobs : place'[x] \notin {"new", "done"}
    BY <1>7, PanicEffect
  <2>3. UNCHANGED <<decl, deferral, value>> /\ PlacesUnchangedBut(Owned(t))
    BY <1>7, PanicEffect
  <2> QED BY <2>1, <2>2, <2>3, ConservationKept DEF PlacesUnchangedBut, Counted
<1>8. ASSUME NEW t \in Threads, FinishBody(t) PROVE CounterConservation'
  <2> DEFINE j == running[t]
             a == decl[j].accum
  <2>1. /\ j \in Jobs /\ place[j] = "running" /\ place'[j] = "done"
        /\ PlacesUnchangedBut({j}) /\ UNCHANGED <<decl, deferral>>
        /\ a \in Counters /\ value' = [value EXCEPT ![a] = @ - 1]
    BY <1>8, FinishBodyEffect
  <2> HIDE DEF j
  <2>2. ASSUME NEW c \in Counters PROVE value'[c] = Cardinality(Outstanding(c)')
    <3>1. CASE c = a
      <4>1. Outstanding(c)' = Outstanding(c) \ {j} /\ j \in Outstanding(c)
        BY <1>2, <2>1, <3>1 DEF Outstanding, PlacesUnchangedBut
      <4> QED BY <1>2, <2>1, <3>1, <4>1, OutstandingShrinks, FunctionTypes
    <3>2. CASE c # a
      <4>1. Outstanding(c)' = Outstanding(c)
        BY <2>1, <3>2 DEF Outstanding, PlacesUnchangedBut
      <4> QED BY <1>2, <2>1, <3>2, <4>1, FunctionTypes DEF CounterConservation
    <3> QED BY <3>1, <3>2
  <2> QED BY <2>2 DEF CounterConservation
<1>9. ASSUME NEW t \in Threads, NEW d \in Deferrals, CreateDeferral(t, d)
      PROVE  CounterConservation'
  <2> DEFINE a == DeferralCounter[d]
  <2>1. /\ deferral[d] = "unused" /\ deferral' = [deferral EXCEPT ![d] = "held"]
        /\ UNCHANGED <<decl, place>>
        /\ a \in Counters /\ value' = [value EXCEPT ![a] = @ + 1]
    BY <1>9, CountersAssumption DEF CreateDeferral, jobVars
  <2>2. ASSUME NEW c \in Counters PROVE value'[c] = Cardinality(Outstanding(c)')
    <3>1. CASE c = a
      <4>1. Outstanding(c)' = Outstanding(c) \cup {d} /\ d \notin Outstanding(c)
        BY <1>2, <2>1, <3>1, FunctionTypes DEF Outstanding
      <4> QED BY <1>2, <2>1, <3>1, <4>1, OutstandingGrows, FunctionTypes
    <3>2. CASE c # a
      <4>1. Outstanding(c)' = Outstanding(c)
        BY <2>1, <3>2, FunctionTypes DEF Outstanding
      <4> QED BY <1>2, <2>1, <3>2, <4>1, FunctionTypes DEF CounterConservation
    <3> QED BY <3>1, <3>2
  <2> QED BY <2>2 DEF CounterConservation
<1>10. ASSUME NEW t \in Threads, NEW d \in Deferrals, FinishDeferral(t, d)
       PROVE  CounterConservation'
  <2> DEFINE a == DeferralCounter[d]
  <2>1. /\ deferral[d] = "held" /\ deferral' = [deferral EXCEPT ![d] = "finished"]
        /\ UNCHANGED <<decl, place>>
        /\ a \in Counters /\ value' = [value EXCEPT ![a] = @ - 1]
    BY <1>10, FinishDeferralEffect
  <2>2. ASSUME NEW c \in Counters PROVE value'[c] = Cardinality(Outstanding(c)')
    <3>1. CASE c = a
      <4>1. Outstanding(c)' = Outstanding(c) \ {d} /\ d \in Outstanding(c)
        BY <1>2, <2>1, <3>1, FunctionTypes DEF Outstanding
      <4> QED BY <1>2, <2>1, <3>1, <4>1, OutstandingShrinks, FunctionTypes
    <3>2. CASE c # a
      <4>1. Outstanding(c)' = Outstanding(c)
        BY <2>1, <3>2, FunctionTypes DEF Outstanding
      <4> QED BY <1>2, <2>1, <3>2, <4>1, FunctionTypes DEF CounterConservation
    <3> QED BY <3>1, <3>2
  <2> QED BY <2>2 DEF CounterConservation
<1>11. ASSUME NEW t \in Threads, DrainWaiting(t) PROVE CounterConservation'
  <2> DEFINE w == waiting[zeroed[t]]
  <2>1. /\ zeroed[t] \in Counters /\ w \in Seq(Jobs) /\ UNCHANGED <<decl, deferral, value>>
    BY <1>11, DrainWaitingEffect
  <2>2. CASE value[zeroed[t]] = 0
    <3>1. /\ \A i \in 1 .. Len(w) : place'[w[i]] = "cleared"
          /\ PlacesUnchangedBut(Range(w))
      BY <1>11, <2>2, DrainWaitingEffect
    <3>2. \A i \in 1 .. Len(w) : place[w[i]] = "parked"
      BY <2>1 DEF Inductive, QueuesOK
    <3>3. \A x \in Range(w) : Counted(x) /\ Counted(x)'
      BY <2>1, <3>1, <3>2 DEF Range, Counted
    <3> HIDE DEF w
    <3> QED BY <2>1, <3>1, <3>3, ConservationKept DEF PlacesUnchangedBut, Counted
  <2>3. CASE value[zeroed[t]] # 0
    BY <1>1, <1>11, <2>1, <2>3, DrainWaitingEffect
  <2> QED BY <2>2, <2>3
<1>12. ASSUME NEW t \in Threads, ReleaseOne(t) PROVE CounterConservation'
  <2> DEFINE j == batch[t][Len(batch[t])]
  <2>1. /\ place[j] = "cleared" /\ place'[j] = "ready"
        /\ PlacesUnchangedBut({j}) /\ UNCHANGED <<decl, deferral, value>>
    BY <1>12, ReleaseOneEffect
  <2> HIDE DEF j
  <2> QED BY <2>1, ConservationKeptForOne
<1>13. ASSUME NEW t \in Threads, ReleaseEnds(t) PROVE CounterConservation'
  <2>1. \A x \in Range(batch[t]) : place[x] = "cleared"
    BY HandPlace
  <2>2. /\ \A x \in Range(batch[t]) : place'[x] = "dropped"
        /\ PlacesUnchangedBut(Range(batch[t])) /\ UNCHANGED <<decl, deferral, value>>
    BY <1>13, ReleaseEndsEffect
  <2> QED BY <2>1, <2>2, ConservationKept DEF PlacesUnchangedBut, Counted
<1>14. ASSUME NEW t \in Threads, PopBlocking(t) PROVE CounterConservation'
  BY <1>1, <1>14, PopBlockingEffect, ConservationKeptForOne DEF TakesFromLane
<1>15. ASSUME NEW t \in Threads, RunPopped(t) PROVE CounterConservation'
  BY <1>15, RunPoppedEffect, ConservationKeptForOne
<1>16. ASSUME FlushPop PROVE CounterConservation'
  BY <1>1, <1>16, FlushPopEffect, ConservationKeptForOne DEF TakesFromLane
<1>17. ASSUME NEW t \in Threads, CloseQueues(t) PROVE CounterConservation'
  BY <1>17, CloseQueuesEffect, ConservationKept DEF Counted
<1>18. ASSUME NEW t \in Threads, QuietStep(t) PROVE CounterConservation'
  BY <1>1, <1>18, QuietEffect DEF Quiet
<1>19. CASE UNCHANGED vars
  BY <1>1, <1>19 DEF vars
<1> QED
  BY <1>3, <1>4, <1>5, <1>6, <1>7, <1>8, <1>9, <1>10, <1>11, <1>12, <1>13, <1>14, <1>15,
     <1>16, <1>17, <1>18, <1>19, StepCases

Released == {"cleared", "ready", "running", "done"}
WaitIsZero(j) == decl[j].wait = NoCounter \/ value[decl[j].wait] = 0

\* What any step may do to a job's place: a finished job stays finished, and
\* only a job whose wait counter is zero gets past it.
PlaceMoves(j) ==
  /\ place[j] = "done" => place'[j] = "done"
  /\ place'[j] = "new" => place[j] = "new"
  /\ place'[j] \in Released => place[j] \in Released \/ (place[j] # "new" /\ WaitIsZero(j))

\* It is enough to look at the one job a step moves.
LEMMA PlaceMovesForOne ==
  ASSUME NEW x, PlacesUnchangedBut({x}), PlaceMoves(x)
  PROVE  \A j \in Jobs : PlaceMoves(j)
BY DEF PlacesUnchangedBut, PlaceMoves

\* Every step moves the jobs like that.
LEMMA PlaceStep ==
  ASSUME Inductive, [Next]_vars
  PROVE  \A j \in Jobs : PlaceMoves(j)
<1>1. CASE UNCHANGED place
  BY <1>1 DEF PlaceMoves
<1>2. ASSUME NEW x, PlacesUnchangedBut({x}),
             place[x] \in Released \ {"done"}, place'[x] # "new"
      PROVE  \A j \in Jobs : PlaceMoves(j)
  BY <1>2 DEF PlacesUnchangedBut, PlaceMoves, Released
<1>3. ASSUME NEW t \in Threads, NEW i \in Jobs, Dispatch(t, i)
      PROVE  \A j \in Jobs : PlaceMoves(j)
  BY <1>3, DispatchEffect, PlaceMovesForOne DEF PlaceMoves, Released
<1>4. ASSUME NEW t \in Threads, TestWait(t) PROVE \A j \in Jobs : PlaceMoves(j)
  BY <1>1, <1>4, TestWaitEffect, PlaceMovesForOne DEF PlaceMoves, Released, WaitIsZero
<1>5. ASSUME NEW t \in Threads, Park(t) PROVE \A j \in Jobs : PlaceMoves(j)
  BY <1>5, ParkEffect, PlaceMovesForOne DEF PlaceMoves, Released, WaitIsZero
<1>6. ASSUME NEW t \in Threads, Push(t) PROVE \A j \in Jobs : PlaceMoves(j)
  BY <1>2, <1>6, PushEffect DEF Released
<1>7. ASSUME NEW t \in Threads, Panic(t) PROVE \A j \in Jobs : PlaceMoves(j)
  <2>1. \A x \in Owned(t) : place[x] \notin {"new", "done"}
    BY HandPlace DEF Owned
  <2>2. /\ \A x \in Owned(t) \cap Jobs : place'[x] = "dropped"
        /\ PlacesUnchangedBut(Owned(t))
    BY <1>7, PanicEffect
  <2> QED BY <2>1, <2>2 DEF PlacesUnchangedBut, PlaceMoves, Released
<1>8. ASSUME NEW t \in Threads, FinishBody(t) PROVE \A j \in Jobs : PlaceMoves(j)
  BY <1>2, <1>8, FinishBodyEffect DEF Released
<1>9. ASSUME NEW t \in Threads, NEW d \in Deferrals, CreateDeferral(t, d)
      PROVE  \A j \in Jobs : PlaceMoves(j)
  BY <1>1, <1>9 DEF CreateDeferral, jobVars
<1>10. ASSUME NEW t \in Threads, NEW d \in Deferrals, FinishDeferral(t, d)
       PROVE  \A j \in Jobs : PlaceMoves(j)
  BY <1>1, <1>10, FinishDeferralEffect
<1>11. ASSUME NEW t \in Threads, DrainWaiting(t) PROVE \A j \in Jobs : PlaceMoves(j)
  <2> DEFINE w == waiting[zeroed[t]]
  <2>1. /\ zeroed[t] \in Counters /\ w \in Seq(Jobs)
    BY <1>11, DrainWaitingEffect
  <2>2. CASE value[zeroed[t]] = 0
    <3>1. PlacesUnchangedBut(Range(w)) /\ \A i \in 1 .. Len(w) : place'[w[i]] = "cleared"
      BY <1>11, <2>2, DrainWaitingEffect
    <3>2. \A i \in 1 .. Len(w) : place[w[i]] = "parked" /\ decl[w[i]].wait = zeroed[t]
      BY <2>1 DEF Inductive, QueuesOK
    <3>3. \A x \in Range(w) : place'[x] = "cleared" /\ place[x] = "parked" /\ WaitIsZero(x)
      BY <2>1, <2>2, <3>1, <3>2 DEF Range, WaitIsZero
    <3> HIDE DEF w
    <3> QED BY <3>1, <3>3 DEF PlacesUnchangedBut, PlaceMoves, Released
  <2>3. CASE value[zeroed[t]] # 0
    BY <1>1, <1>11, <2>3, DrainWaitingEffect
  <2> QED BY <2>2, <2>3
<1>12. ASSUME NEW t \in Threads, ReleaseOne(t) PROVE \A j \in Jobs : PlaceMoves(j)
  BY <1>2, <1>12, ReleaseOneEffect DEF Released
<1>13. ASSUME NEW t \in Threads, ReleaseEnds(t) PROVE \A j \in Jobs : PlaceMoves(j)
  <2>1. \A x \in Range(batch[t]) : place[x] = "cleared"
    BY HandPlace
  <2>2. /\ \A x \in Range(batch[t]) : place'[x] = "dropped"
        /\ PlacesUnchangedBut(Range(batch[t]))
    BY <1>13, ReleaseEndsEffect
  <2> QED BY <2>1, <2>2 DEF PlacesUnchangedBut, PlaceMoves, Released
<1>14. ASSUME NEW t \in Threads, PopBlocking(t) PROVE \A j \in Jobs : PlaceMoves(j)
  BY <1>1, <1>2, <1>14, PopBlockingEffect DEF TakesFromLane, Released
<1>15. ASSUME NEW t \in Threads, RunPopped(t) PROVE \A j \in Jobs : PlaceMoves(j)
  BY <1>2, <1>15, RunPoppedEffect DEF Released
<1>16. ASSUME FlushPop PROVE \A j \in Jobs : PlaceMoves(j)
  BY <1>1, <1>2, <1>16, FlushPopEffect DEF TakesFromLane, Released
<1>17. ASSUME NEW t \in Threads, CloseQueues(t) PROVE \A j \in Jobs : PlaceMoves(j)
  BY <1>17, CloseQueuesEffect DEF PlaceMoves, Released
<1>18. ASSUME NEW t \in Threads, QuietStep(t) PROVE \A j \in Jobs : PlaceMoves(j)
  BY <1>1, <1>18, QuietEffect DEF Quiet
<1>19. CASE UNCHANGED vars
  BY <1>1, <1>19 DEF vars
<1> QED
  BY <1>3, <1>4, <1>5, <1>6, <1>7, <1>8, <1>9, <1>10, <1>11, <1>12, <1>13, <1>14, <1>15,
     <1>16, <1>17, <1>18, <1>19, StepCases

WaitedFor(j) == IF decl[j].wait = NoCounter THEN {} ELSE Outstanding(decl[j].wait)

\* No step rewrites the declarations or the history of a dispatched job.
LEMMA HistoryStep ==
  ASSUME Inductive, [Next]_vars
  PROVE  /\ decl' = decl
         /\ \A d \in Deferrals : /\ deferral[d] = "finished" => deferral'[d] = "finished"
                                 /\ deferral[d] = "held" => deferral'[d] \in {"held", "finished"}
         /\ \A j \in Jobs : \/ before'[j] = before[j] /\ (place'[j] = "new" => place[j] = "new")
                            \/ place'[j] = "counted" /\ before'[j] = WaitedFor(j)
<1>1. CASE UNCHANGED <<decl, deferral, before>>
  BY <1>1, PlaceStep DEF PlaceMoves
<1>2. ASSUME NEW t \in Threads, NEW i \in Jobs, Dispatch(t, i)
      PROVE  /\ UNCHANGED <<decl, deferral>>
             /\ \A j \in Jobs : \/ before'[j] = before[j] /\ place'[j] = place[j]
                                \/ place'[j] = "counted" /\ before'[j] = WaitedFor(j)
  <2>1. before' = [before EXCEPT ![i] = WaitedFor(i)] /\ before \in [Jobs -> SUBSET Units]
    BY <1>2 DEF Dispatch, Inductive, TypeOK, WaitedFor
  <2> QED BY <1>2, <2>1, DispatchEffect DEF PlacesUnchangedBut
<1>3. ASSUME NEW t \in Threads, NEW d \in Deferrals, CreateDeferral(t, d)
      PROVE  /\ UNCHANGED <<decl, place, before>> /\ deferral[d] = "unused"
             /\ deferral' = [deferral EXCEPT ![d] = "held"]
  BY <1>3 DEF CreateDeferral, jobVars
<1>4. ASSUME NEW t \in Threads, NEW d \in Deferrals, FinishDeferral(t, d)
      PROVE  /\ UNCHANGED <<decl, place, before>> /\ deferral[d] = "held"
             /\ deferral' = [deferral EXCEPT ![d] = "finished"]
  BY <1>4, FinishDeferralEffect
<1>5. \/ UNCHANGED <<decl, deferral, before>>
      \/ \E t \in Threads, j \in Jobs : Dispatch(t, j)
      \/ \E t \in Threads, d \in Deferrals : CreateDeferral(t, d) \/ FinishDeferral(t, d)
  BY StepCases, TestWaitEffect, ParkEffect, PushEffect, PanicEffect, FinishBodyEffect,
     DrainWaitingEffect, ReleaseOneEffect, ReleaseEndsEffect, PopBlockingEffect,
     RunPoppedEffect, FlushPopEffect, CloseQueuesEffect, QuietEffect DEF Quiet, vars
<1> QED BY <1>1, <1>2, <1>3, <1>4, <1>5, FunctionTypes

\* Finished units stay finished, and an outstanding unit can only finish.
LEMMA FinishedGrows ==
  ASSUME Inductive, [Next]_vars
  PROVE  /\ Finished \subseteq Finished'
         /\ \A c : Outstanding(c) \subseteq Outstanding(c)' \cup Finished'
<1>1. Finished \subseteq Finished'
  BY PlaceStep, HistoryStep DEF PlaceMoves, Finished
<1>2. \A c : Outstanding(c) \subseteq Outstanding(c)' \cup Finished'
  BY PlaceStep, HistoryStep DEF PlaceMoves, Finished, Outstanding
<1> QED BY <1>1, <1>2

\* The inductive step of BeforeOK.
LEMMA BeforeStep ==
  ASSUME Inductive, [Next]_vars
  PROVE  BeforeOK'
<1> SUFFICES ASSUME NEW j \in Jobs
             PROVE  /\ place'[j] = "new" => before'[j] = {}
                    /\ before'[j] \subseteq Finished' \cup WaitedFor(j)'
  BY DEF BeforeOK, WaitedFor
<1>1. /\ place[j] = "new" => before[j] = {}
      /\ before[j] \subseteq Finished \cup WaitedFor(j)
  BY DEF Inductive, BeforeOK, WaitedFor
<1>2. WaitedFor(j) \subseteq WaitedFor(j)' \cup Finished'
  BY HistoryStep, FinishedGrows DEF WaitedFor
<1> QED BY <1>1, <1>2, HistoryStep, FinishedGrows

\* The inductive step of DependencyOrder: a job gets past its wait counter only
\* when that is zero, and by conservation nothing is outstanding on it then.
LEMMA OrderStep ==
  ASSUME Inductive, [Next]_vars
  PROVE  DependencyOrder'
<1> SUFFICES ASSUME NEW j \in Jobs, place'[j] \in Released PROVE before'[j] \subseteq Finished'
  BY DEF DependencyOrder, Released
<1>1. before'[j] = before[j]
  BY HistoryStep DEF Released
<1>2. CASE place[j] \in Released
  BY <1>1, <1>2, FinishedGrows DEF Inductive, DependencyOrder, Released
<1>3. CASE WaitIsZero(j)
  <2>1. WaitedFor(j) = {}
    <3>1. ASSUME decl[j].wait # NoCounter PROVE Outstanding(decl[j].wait) = {}
      <4>1. decl[j].wait \in Counters /\ value[decl[j].wait] = 0
        BY <1>3, <3>1, FunctionTypes DEF WaitIsZero, Decl
      <4>2. Cardinality(Outstanding(decl[j].wait)) = 0
        BY <4>1 DEF Inductive, CounterConservation
      <4> QED BY <4>2, OutstandingFinite, FS_EmptySet
    <3> QED BY <3>1 DEF WaitedFor
  <2>2. before[j] \subseteq Finished
    BY <2>1 DEF Inductive, BeforeOK, WaitedFor
  <2> QED BY <1>1, <2>2, FinishedGrows
<1> QED BY <1>2, <1>3, PlaceStep DEF PlaceMoves

\* Only the releasing thread itself ends a release.
LEMMA ReleaseStaysUnderWay ==
  ASSUME NEW t \in Threads, pc[t] \notin {"zeroed", "drain"},
         \A u \in Threads \ {t} :
           (pc'[u] = pc[u] \/ pc[u] = "waiting") /\ zeroed'[u] = zeroed[u]
  PROVE  \A c : ReleaseUnderWay(c) => ReleaseUnderWay(c)'
BY DEF ReleaseUnderWay

Stranded(c) == waiting[c] # <<>> /\ value[c] = 0 /\ ~ReleaseUnderWay(c)

\* A step that leaves the counter alone strands nobody.
LEMMA StrandedByStep ==
  ASSUME Inductive, ~shutdown, NEW c \in Counters,
         ReleaseUnderWay(c) => ReleaseUnderWay(c)',
         waiting'[c] = waiting[c], value'[c] = value[c]
  PROVE  ~Stranded(c)'
BY DEF Inductive, NoStrandedWaiter, Stranded

\* The inductive step of NoStrandedWaiter.
LEMMA StrandedStep ==
  ASSUME Inductive, [Next]_vars
  PROVE  NoStrandedWaiter'
<1> SUFFICES ASSUME ~shutdown', NEW c \in Counters PROVE ~Stranded(c)'
  BY DEF NoStrandedWaiter, Stranded
<1>1. ASSUME ~shutdown, UNCHANGED <<value, waiting>>, NEW t \in Threads,
             pc[t] \notin {"zeroed", "drain"}, ThreadsButOneUnchanged(t)
      PROVE  ~Stranded(c)'
  BY <1>1, ReleaseStaysUnderWay, StrandedByStep DEF ThreadsButOneUnchanged
<1>2. CASE UNCHANGED <<value, waiting, pc, zeroed, shutdown>>
  BY <1>2, StrandedByStep DEF ReleaseUnderWay
<1>3. ASSUME NEW t \in Threads, NEW j \in Jobs, Dispatch(t, j) PROVE ~Stranded(c)'
  <2>1. /\ pc[t] \notin {"zeroed", "drain"} /\ ThreadsButOneUnchanged(t)
        /\ waiting' = waiting /\ ~shutdown
    BY <1>3, DispatchEffect DEF Dispatch, stopVars
  <2>2. value'[c] = value[c] \/ value'[c] = value[c] + 1
    BY <1>3, FunctionTypes DEF Dispatch
  <2>3. value[c] \in Nat
    BY FunctionTypes
  <2>4. CASE value'[c] = value[c]
    BY <2>1, <2>4, ReleaseStaysUnderWay, StrandedByStep DEF ThreadsButOneUnchanged
  <2>5. CASE value'[c] = value[c] + 1
    BY <2>3, <2>5 DEF Stranded
  <2> QED BY <2>2, <2>4, <2>5
<1>4. ASSUME NEW t \in Threads, TestWait(t) PROVE ~Stranded(c)'
  BY <1>1, <1>4, TestWaitEffect
<1>5. ASSUME NEW t \in Threads, Park(t) PROVE ~Stranded(c)'
  <2>1. CASE waiting' = waiting
    BY <1>1, <1>5, <2>1, ParkEffect
  <2>2. CASE waiting' # waiting
    <3> DEFINE w == decl[hand[t]].wait
    <3>1. /\ pc[t] \notin {"zeroed", "drain"} /\ ThreadsButOneUnchanged(t) /\ ~shutdown
          /\ value' = value /\ w \in Counters /\ value[w] # 0
          /\ waiting' = [waiting EXCEPT ![w] = Append(@, hand[t])]
      BY <1>5, <2>2, ParkEffect
    <3> HIDE DEF w
    <3>2. CASE c = w
      BY <3>1, <3>2 DEF Stranded
    <3>3. CASE c # w
      BY <3>1, <3>3, FunctionTypes, ReleaseStaysUnderWay, StrandedByStep DEF ThreadsButOneUnchanged
    <3> QED BY <3>2, <3>3
  <2> QED BY <2>1, <2>2
<1>6. ASSUME NEW t \in Threads, Push(t) PROVE ~Stranded(c)'
  BY <1>1, <1>6, PushEffect
<1>7. ASSUME NEW t \in Threads, Panic(t), pc[t] \in {"push", "requeue", "release", "join"}
      PROVE  ~Stranded(c)'
  BY <1>1, <1>7, PanicEffect
<1>8. ASSUME NEW t \in Threads, FinishBody(t) PROVE ~Stranded(c)'
  <2> DEFINE a == decl[running[t]].accum
  <2>1. /\ pc[t] \notin {"zeroed", "drain"} /\ ThreadsButOneUnchanged(t)
        /\ waiting' = waiting /\ ~shutdown /\ a \in Counters
        /\ value' = [value EXCEPT ![a] = @ - 1]
        /\ \/ value[a] = 1 /\ pc'[t] = "zeroed" /\ zeroed'[t] = a
           \/ value[a] # 1
    BY <1>8, FinishBodyEffect
  <2> HIDE DEF a
  <2>2. CASE c = a
    BY <2>1, <2>2, FunctionTypes DEF Stranded, ReleaseUnderWay
  <2>3. CASE c # a
    BY <2>1, <2>3, FunctionTypes, ReleaseStaysUnderWay, StrandedByStep DEF ThreadsButOneUnchanged
  <2> QED BY <2>2, <2>3
<1>9. ASSUME NEW t \in Threads, NEW d \in Deferrals, CreateDeferral(t, d)
      PROVE  ~Stranded(c)'
  <2>1. /\ UNCHANGED <<waiting, pc, zeroed, shutdown>> /\ value[c] \in Nat
        /\ value'[c] = value[c] \/ value'[c] = value[c] + 1
    BY <1>9, FunctionTypes DEF CreateDeferral, threadVars, stopVars
  <2>2. CASE value'[c] = value[c]
    BY <2>1, <2>2, StrandedByStep DEF ReleaseUnderWay
  <2>3. CASE value'[c] = value[c] + 1
    BY <2>1, <2>3 DEF Stranded
  <2> QED BY <2>1, <2>2, <2>3
<1>10. ASSUME NEW t \in Threads, NEW d \in Deferrals, FinishDeferral(t, d)
       PROVE  ~Stranded(c)'
  <2> DEFINE a == DeferralCounter[d]
  <2>1. /\ pc[t] \notin {"zeroed", "drain"} /\ ThreadsButOneUnchanged(t)
        /\ waiting' = waiting /\ ~shutdown /\ a \in Counters
        /\ value' = [value EXCEPT ![a] = @ - 1]
        /\ \/ value[a] = 1 /\ pc'[t] = "zeroed" /\ zeroed'[t] = a
           \/ value[a] # 1
    BY <1>10, FinishDeferralEffect
  <2> HIDE DEF a
  <2>2. CASE c = a
    BY <2>1, <2>2, FunctionTypes DEF Stranded, ReleaseUnderWay
  <2>3. CASE c # a
    BY <2>1, <2>3, FunctionTypes, ReleaseStaysUnderWay, StrandedByStep DEF ThreadsButOneUnchanged
  <2> QED BY <2>2, <2>3
<1>11. ASSUME NEW t \in Threads, DrainWaiting(t) PROVE ~Stranded(c)'
  <2> DEFINE z == zeroed[t]
  <2>1. /\ z \in Counters /\ value' = value /\ ThreadsButOneUnchanged(t) /\ ~shutdown
        /\ \/ waiting' = [waiting EXCEPT ![z] = <<>>]
           \/ waiting' = waiting /\ value[z] # 0
    BY <1>11, DrainWaitingEffect
  <2> HIDE DEF z
  <2>2. CASE c = z
    BY <2>1, <2>2, FunctionTypes DEF Stranded
  <2>3. CASE c # z
    <3>1. ReleaseUnderWay(c) => ReleaseUnderWay(c)'
      BY <2>1, <2>3 DEF ReleaseUnderWay, ThreadsButOneUnchanged, z
    <3> QED BY <2>1, <2>3, <3>1, FunctionTypes, StrandedByStep
  <2> QED BY <2>2, <2>3
<1>12. ASSUME NEW t \in Threads, ReleaseOne(t) PROVE ~Stranded(c)'
  BY <1>1, <1>12, ReleaseOneEffect
<1>13. ASSUME NEW t \in Threads, ReleaseEnds(t) PROVE ~Stranded(c)'
  BY <1>1, <1>13, ReleaseEndsEffect
<1>14. ASSUME NEW t \in Threads, PopBlocking(t) PROVE ~Stranded(c)'
  BY <1>1, <1>14, PopBlockingEffect
<1>15. ASSUME NEW t \in Threads, RunPopped(t) PROVE ~Stranded(c)'
  BY <1>1, <1>15, RunPoppedEffect
<1>16. ASSUME FlushPop PROVE ~Stranded(c)'
  BY <1>1, <1>16, FlushPopEffect
<1>17. ASSUME NEW t \in Threads, CloseQueues(t) PROVE ~Stranded(c)'
  <2>1. /\ pc[t] = "close" /\ UNCHANGED <<value, waiting>> /\ ~shutdown
        /\ \A u \in Threads \ {t} :
             (pc'[u] = pc[u] \/ pc[u] = "waiting") /\ zeroed'[u] = zeroed[u]
    BY <1>17, CloseQueuesEffect
  <2> QED BY <2>1, ReleaseStaysUnderWay, StrandedByStep
<1>18. ASSUME NEW t \in Threads, QuietStep(t) PROVE ~Stranded(c)'
  <2>1. UNCHANGED <<value, waiting>>
    BY <1>18, QuietEffect DEF Quiet
  <2>2. pc \in [Threads -> Labels]
    BY FunctionTypes
  <2>3. CASE Signal(t)
    <3>1. /\ pc[t] \notin {"zeroed", "drain"} /\ zeroed' = zeroed /\ ~shutdown
          /\ \A u \in Threads \ {t} : pc'[u] = pc[u] \/ pc[u] = "waiting"
      BY <2>2, <2>3 DEF Signal, NotifyOne, Goto, Sleepers, stopVars
    <3> QED BY <2>1, <3>1, ReleaseStaysUnderWay, StrandedByStep
  <2>4. CASE AnnounceZero(t)
    <3>1. /\ pc'[t] = "drain" /\ zeroed' = zeroed /\ ~shutdown
          /\ \A u \in Threads \ {t} : pc'[u] = pc[u] \/ pc[u] = "waiting"
      BY <2>2, <2>4 DEF AnnounceZero, NotifyAll, Sleepers, stopVars
    <3>2. ReleaseUnderWay(c) => ReleaseUnderWay(c)'
      BY <3>1 DEF ReleaseUnderWay
    <3> QED BY <2>1, <3>1, <3>2, StrandedByStep
  <2>5. CASE SpuriousWake(t) \/ JoinWorkers(t)
    <3>1. /\ pc[t] \notin {"zeroed", "drain"} /\ zeroed' = zeroed /\ ~shutdown
          /\ \A u \in Threads \ {t} : pc'[u] = pc[u]
      BY <2>2, <2>5 DEF SpuriousWake, JoinWorkers, Goto, stopVars
    <3> QED BY <2>1, <3>1, ReleaseStaysUnderWay, StrandedByStep
  <2>6. CASE BeginShutdown(t)
    BY <2>6 DEF BeginShutdown
  <2>7. CASE t = FlushThread /\ (FlushHead \/ FlushSleep \/ FlushWaitExpires)
    <3>1. /\ pc[t] \notin {"zeroed", "drain"} /\ zeroed' = zeroed /\ ~shutdown
          /\ \A u \in Threads \ {t} : pc'[u] = pc[u]
      BY <2>2, <2>7
      DEF FlushHead, FlushReturns, FlushSleep, FlushWaitExpires, Goto, stopVars
    <3> QED BY <2>1, <3>1, ReleaseStaysUnderWay, StrandedByStep
  <2>8. CASE t = FlushThread /\ \E a \in Counters, kind \in FlushKinds : BeginFlush(a, kind)
    <3>1. /\ pc[t] \notin {"zeroed", "drain"} /\ zeroed' = zeroed /\ ~shutdown
          /\ \A u \in Threads \ {t} : pc'[u] = pc[u]
      BY <2>2, <2>8 DEF BeginFlush, Goto, stopVars
    <3> QED BY <2>1, <3>1, ReleaseStaysUnderWay, StrandedByStep
  <2> QED BY <1>18, <2>3, <2>4, <2>5, <2>6, <2>7, <2>8 DEF QuietStep
<1>19. CASE UNCHANGED vars
  BY <1>2, <1>19 DEF vars
<1> QED
  BY <1>3, <1>4, <1>5, <1>6, <1>7, <1>8, <1>9, <1>10, <1>11, <1>12, <1>13, <1>14, <1>15,
     <1>16, <1>17, <1>18, <1>19, StepCases

\* The initial states satisfy the invariant.
LEMMA Initially == Init => Inductive
<1> SUFFICES ASSUME Init PROVE Inductive
  OBVIOUS
<1> USE DEF Init
<1>1. TypeOK
  <2>1. pc \in [Threads -> Labels]
    BY DEF Labels
  <2>2. <<>> \in Seq(Jobs)
    OBVIOUS
  <2> QED BY <2>1, <2>2, NoFlushType DEF TypeOK, Places
<1>2. ThreadsOK
  BY NamesAssumption DEF ThreadsOK, ThreadOK
<1>3. OneOwner
  BY DEF OneOwner
<1>4. QueuesOK
  BY DEF QueuesOK
<1>5. CounterConservation
  <2>1. \A c \in Counters : Outstanding(c) = {}
    BY DEF Outstanding
  <2> QED BY <2>1, FS_EmptySet DEF CounterConservation
<1>6. BeforeOK
  BY DEF BeforeOK
<1>7. DependencyOrder
  BY DEF DependencyOrder
<1>8. NoStrandedWaiter
  BY DEF NoStrandedWaiter
<1> QED BY <1>1, <1>2, <1>3, <1>4, <1>5, <1>6, <1>7, <1>8 DEF Inductive

\* Every reachable state of the runtime satisfies the inductive invariant.
THEOREM InductiveInvariant == Spec => []Inductive
<1>1. Inductive /\ [Next]_vars => Inductive'
  BY TypeStep, ThreadsStep, OwnersStep, QueuesStep, ConservationStep, BeforeStep, OrderStep,
     StrandedStep DEF Inductive
<1> QED BY <1>1, Initially, PTL DEF Spec

\* Every variable keeps its type; in particular no counter is ever decremented
\* below zero, whatever clients dispatch, flush, defer or shut down.
THEOREM TypeCorrect == Spec => []TypeOK
<1>1. Inductive => TypeOK
  BY DEF Inductive
<1> QED BY <1>1, InductiveInvariant, PTL

\* Every counter equals the number of units counted on it and not counted off.
THEOREM CountersAreConserved == Spec => []CounterConservation
<1>1. Inductive => CounterConservation
  BY DEF Inductive
<1> QED BY <1>1, InductiveInvariant, PTL

\* No job is left parked behind a zero counter with nobody about to release it.
THEOREM WaitersAreNotStranded == Spec => []NoStrandedWaiter
<1>1. Inductive => NoStrandedWaiter
  BY DEF Inductive
<1> QED BY <1>1, InductiveInvariant, PTL

\* No job gets past its wait counter before everything it was dispatched behind
\* has finished.
THEOREM DependenciesAreOrdered == Spec => []DependencyOrder
<1>1. Inductive => DependencyOrder
  BY DEF Inductive
<1> QED BY <1>1, InductiveInvariant, PTL

-----------------------------------------------------------------------------
(***************************************************************************)
(* What the runtime guarantees to its callers: it implements JobContract,  *)
(* loses no job silently and no wakeup.                                    *)
(*                                                                         *)
(* Wakeups rests on Inductive.  Its core is a balance: while a worker      *)
(* sleeps, either a zero transition is about to wake everyone, or there    *)
(* are at least as many threads that will still look at the queues, or     *)
(* notify one that will, as there are ready jobs.                          *)
(***************************************************************************)

FlushLabels == {"head", "trypop", "requeue", "signalRequeue", "idlewait", "wakewait"}

\* Which threads a label belongs to, and what it says of the flush.
LabelOK(t) ==
  /\ pc[t] \in FlushLabels => t = FlushThread /\ flush.target \in Counters
  /\ pc[t] \in {"pop", "popped"} => t \in Workers
  /\ pc[t] = "waiting" =>
       t \in Workers \/ (t = FlushThread /\ flush.target \in Counters)
  /\ pc[t] = "close" => shutdown
LabelsOK == \A t \in Threads : LabelOK(t)

\* Only a client that asked for a deadline has one.
TimedOK == flush.timed => "timed" \in FlushKinds

\* The queues close once, after the flag is up, and stay empty.
Ready == {j \in Jobs : place[j] = "ready"}
StopOK ==
  /\ closed => shutdown /\ Ready = {}
  /\ shutdown /\ ~closed => \E t \in Threads : pc[t] = "close"

\* Every ready job is in some lane.
Lined == \A j \in Jobs :
  place[j] = "ready" => \E l \in Lanes : \E i \in 1 .. Len(lanes[l]) : lanes[l][i] = j

\* Who has taken a counter to zero and tells everyone next.
Zeroing == \E t \in Threads : pc[t] = "zeroed"
Asleep == \E w \in Workers : pc[w] = "waiting"

\* A flush asleep over a counter at zero will be woken.
FlushWakes ==
  ~shutdown /\ pc[FlushThread] = "waiting" /\ value[flush.target] = 0 => Zeroing

\* The threads that take a ready job for themselves, hand it to the workers
\* again, or wake a thread that looks.
Looker(t) ==
  \/ pc[t] \in {"signal", "signalRelease", "signalRequeue"}
  \/ t \in Workers /\ pc[t] = "pop"
  \/ t = FlushThread /\ pc[t] \in {"head", "trypop", "idlewait"} /\ value[flush.target] # 0
Lookers == {t \in Threads : Looker(t)}
Balanced == ~shutdown /\ Asleep => Zeroing \/ Cardinality(Ready) <= Cardinality(Lookers)

Wakeups ==
  /\ Inductive /\ NoSilentLoss
  /\ LabelsOK /\ TimedOK /\ StopOK /\ Lined /\ FlushWakes /\ Balanced

-----------------------------------------------------------------------------
(* Labels *)

\* One thread moves and the flush and the shutdown flag stay: its own label
\* decides.
LEMMA LabelsKept ==
  ASSUME LabelsOK, NEW t \in Threads, ThreadsButOneUnchanged(t), LabelOK(t)',
         UNCHANGED <<flush, shutdown>>
  PROVE  LabelsOK'
BY DEF LabelsOK, LabelOK, ThreadsButOneUnchanged

\* Most labels belong to any thread.
LEMMA OpenLabel ==
  ASSUME NEW t, pc'[t] \in Labels \ (FlushLabels \cup {"pop", "popped", "waiting", "close"})
  PROVE  LabelOK(t)'
BY DEF LabelOK

\* A thread that comes back from a call belongs where it returns to.
LEMMA CallerLabel ==
  ASSUME Inductive, NEW t \in Threads, pc'[t] \in {Idle(t), Caller(t)}, flush' = flush
  PROVE  LabelOK(t)'
<1>1. flush.target \in Counters \cup {NoCounter}
  BY DEF Inductive, TypeOK, Flushes
<1> QED BY <1>1 DEF LabelOK, Idle, Caller, FlushLabels

\* So does a thread that a notification wakes.
LEMMA WokenLabels ==
  ASSUME LabelsOK, NEW t \in Threads, LabelOK(t)', UNCHANGED <<flush, shutdown>>,
         \A u \in Threads \ {t} :
           pc'[u] = pc[u] \/ (pc[u] = "waiting" /\ pc'[u] = Woken(u))
  PROVE  LabelsOK'
<1>1. ASSUME NEW u \in Threads \ {t} PROVE LabelOK(u)'
  <2>1. CASE pc'[u] = pc[u]
    BY <2>1 DEF LabelsOK, LabelOK
  <2>2. CASE pc[u] = "waiting" /\ pc'[u] = Woken(u)
    BY <2>2 DEF LabelsOK, LabelOK, Woken, FlushLabels
  <2> QED BY <1>1, <2>1, <2>2
<1> QED BY <1>1 DEF LabelsOK

\* What a notification does to the labels.
LEMMA NotifyOneEffect ==
  ASSUME Inductive, NEW t \in Threads, pc[t] # "waiting", NEW label, NotifyOne(t, label)
  PROVE  /\ pc'[t] = label
         /\ \/ /\ \A u \in Threads \ {t} : pc'[u] = pc[u] /\ pc[u] # "waiting"
            \/ \E s \in Threads \ {t} :
                 /\ pc[s] = "waiting" /\ pc'[s] = Woken(s)
                 /\ \A u \in Threads \ {s, t} : pc'[u] = pc[u]
<1>1. CASE Sleepers = {}
  BY <1>1, FunctionTypes DEF NotifyOne, Sleepers, Goto
<1>2. ASSUME NEW s \in Sleepers, pc' = [pc EXCEPT ![t] = label, ![s] = Woken(s)]
      PROVE  /\ pc'[t] = label
             /\ s \in Threads \ {t} /\ pc[s] = "waiting" /\ pc'[s] = Woken(s)
             /\ \A u \in Threads \ {s, t} : pc'[u] = pc[u]
  <2>1. s \in Threads \ {t} /\ pc[s] = "waiting"
    BY <1>2 DEF Sleepers
  <2> QED BY <1>2, <2>1, FunctionTypes
<1> QED BY <1>1, <1>2 DEF NotifyOne

\* The effect of a notification after a push.
LEMMA SignalEffect ==
  ASSUME Inductive, NEW t \in Threads, Signal(t)
  PROVE  /\ \/ pc[t] = "signal" /\ pc'[t] = Caller(t)
            \/ pc[t] = "signalRelease" /\ pc'[t] = "release"
            \/ pc[t] = "signalRequeue" /\ pc'[t] = "wakewait"
         /\ \/ /\ \A u \in Threads \ {t} : pc'[u] = pc[u] /\ pc[u] # "waiting"
            \/ \E s \in Threads \ {t} :
                 /\ pc[s] = "waiting" /\ pc'[s] = Woken(s)
                 /\ \A u \in Threads \ {s, t} : pc'[u] = pc[u]
         /\ UNCHANGED <<place, value, lanes, flush, shutdown, closed>>
<1>1. PICK label :
        /\ NotifyOne(t, label) /\ pc[t] # "waiting"
        /\ \/ pc[t] = "signal" /\ label = Caller(t)
           \/ pc[t] = "signalRelease" /\ label = "release"
           \/ pc[t] = "signalRequeue" /\ label = "wakewait"
  BY DEF Signal
<1>2. UNCHANGED <<place, value, lanes, flush, shutdown, closed>>
  BY DEF Signal, jobVars, counterVars, flushVars, stopVars
<1> QED BY <1>1, <1>2, NotifyOneEffect

\* The effect of announcing a zero.
LEMMA AnnounceEffect ==
  ASSUME Inductive, NEW t \in Threads, AnnounceZero(t)
  PROVE  /\ pc[t] = "zeroed"
         /\ \/ shutdown /\ pc'[t] = Caller(t) /\ \A u \in Threads \ {t} : pc'[u] = pc[u]
            \/ /\ ~shutdown /\ pc'[t] = "drain"
               /\ \A u \in Threads \ {t} :
                    \/ pc[u] # "waiting" /\ pc'[u] = pc[u]
                    \/ pc[u] = "waiting" /\ pc'[u] = Woken(u)
         /\ UNCHANGED <<place, value, lanes, flush, shutdown, closed>>
<1>1. UNCHANGED <<place, value, lanes, flush, shutdown, closed>> /\ pc[t] = "zeroed"
  BY DEF AnnounceZero, jobVars, counterVars, flushVars, stopVars
<1>2. CASE shutdown
  BY <1>1, <1>2, FunctionTypes DEF AnnounceZero, Goto
<1>3. CASE ~shutdown
  BY <1>1, <1>3, FunctionTypes DEF AnnounceZero, NotifyAll, Sleepers
<1> QED BY <1>1, <1>2, <1>3

\* The inductive step of LabelsOK.
LEMMA LabelsStep ==
  ASSUME Inductive, LabelsOK, [Next]_vars
  PROVE  LabelsOK'
<1> USE DEF flushVars, stopVars
<1>1. \A t \in Threads : pc'[t] \in Labels /\ LabelOK(t)
  BY TypeStep DEF TypeOK, LabelsOK
<1>2. ASSUME NEW t \in Threads,
             pc'[t] \notin FlushLabels \cup {"pop", "popped", "waiting", "close"}
      PROVE  LabelOK(t)'
  BY <1>1, <1>2, OpenLabel
<1>3. ASSUME NEW t \in Threads, NEW j \in Jobs, Dispatch(t, j) PROVE LabelsOK'
  BY <1>2, <1>3, DispatchEffect, LabelsKept DEF Dispatch, FlushLabels
<1>4. ASSUME NEW t \in Threads, TestWait(t) PROVE LabelsOK'
  BY <1>2, <1>4, TestWaitEffect, LabelsKept DEF TestWait, FlushLabels
<1>5. ASSUME NEW t \in Threads, Park(t) PROVE LabelsOK'
  BY <1>2, <1>5, ParkEffect, LabelsKept, CallerLabel DEF Park, FlushLabels
<1>6. ASSUME NEW t \in Threads, Push(t) PROVE LabelsOK'
  <2>1. LabelOK(t)'
    BY <1>1, <1>2, <1>6, PushEffect DEF Push, FlushLabels, LabelOK
  <2> QED BY <1>6, <2>1, PushEffect, LabelsKept DEF Push
<1>7. ASSUME NEW t \in Threads, Panic(t) PROVE LabelsOK'
  <2>1. LabelOK(t)' /\ ThreadsButOneUnchanged(t) /\ shutdown' = shutdown /\ pc'[t] = "panicked"
    BY <1>2, <1>7, PanicEffect DEF FlushLabels
  <2>2. CASE flush' = flush
    BY <2>1, <2>2, LabelsKept
  <2>3. CASE t = FlushThread
    BY <1>1, <2>1, <2>3 DEF LabelsOK, LabelOK, ThreadsButOneUnchanged
  <2> QED BY <1>7, <2>2, <2>3 DEF Panic
<1>8. ASSUME NEW t \in Threads, FinishBody(t) PROVE LabelsOK'
  BY <1>2, <1>8, FinishBodyEffect, LabelsKept, CallerLabel DEF FinishBody, FlushLabels
<1>9. ASSUME NEW t \in Threads, NEW d \in Deferrals, CreateDeferral(t, d) PROVE LabelsOK'
  BY <1>1, <1>9 DEF CreateDeferral, threadVars, LabelsOK, LabelOK
<1>10. ASSUME NEW t \in Threads, NEW d \in Deferrals, FinishDeferral(t, d) PROVE LabelsOK'
  <2>1. LabelOK(t)' /\ UNCHANGED <<flush, shutdown>>
    BY <1>2, <1>10, FinishDeferralEffect DEF FinishDeferral, FlushLabels
  <2> QED BY <1>10, <2>1, FinishDeferralEffect, LabelsKept
<1>11. ASSUME NEW t \in Threads, DrainWaiting(t) PROVE LabelsOK'
  BY <1>2, <1>11, DrainWaitingEffect, LabelsKept DEF DrainWaiting, FlushLabels
<1>12. ASSUME NEW t \in Threads, ReleaseOne(t) PROVE LabelsOK'
  BY <1>2, <1>12, ReleaseOneEffect, LabelsKept DEF ReleaseOne, FlushLabels
<1>13. ASSUME NEW t \in Threads, ReleaseEnds(t) PROVE LabelsOK'
  BY <1>13, ReleaseEndsEffect, LabelsKept, CallerLabel DEF ReleaseEnds
<1>14. ASSUME NEW t \in Threads, PopBlocking(t) PROVE LabelsOK'
  <2>1. LabelOK(t)'
    BY <1>1, <1>14, PopBlockingEffect DEF PopBlocking, FlushLabels, LabelOK
  <2> QED BY <1>14, <2>1, PopBlockingEffect, LabelsKept DEF PopBlocking
<1>15. ASSUME NEW t \in Threads, RunPopped(t) PROVE LabelsOK'
  BY <1>2, <1>15, RunPoppedEffect, LabelsKept DEF RunPopped, FlushLabels
<1>16. ASSUME FlushPop PROVE LabelsOK'
  <2>1. LabelOK(FlushThread)'
    BY <1>1, <1>16, FlushPopEffect DEF FlushPop, FlushLabels, LabelOK
  <2> QED BY <1>16, <2>1, FlushPopEffect, LabelsKept DEF FlushPop
<1>17. ASSUME NEW t \in Threads, CloseQueues(t) PROVE LabelsOK'
  <2>1. LabelOK(t)' /\ UNCHANGED <<flush, shutdown>>
    BY <1>2, <1>17, CloseQueuesEffect DEF CloseQueues, FlushLabels
  <2> QED BY <1>17, <2>1, CloseQueuesEffect, WokenLabels
<1>18. ASSUME NEW t \in Threads, QuietStep(t) PROVE LabelsOK'
  <2>1. CASE Signal(t)
    <3>1. LabelOK(t)'
      BY <1>1, <1>2, <2>1, SignalEffect, CallerLabel DEF LabelOK, FlushLabels
    <3> QED BY <2>1, <3>1, SignalEffect, WokenLabels
  <2>2. CASE AnnounceZero(t)
    <3>1. LabelOK(t)'
      BY <1>2, <2>2, AnnounceEffect, CallerLabel DEF FlushLabels
    <3> QED BY <2>2, <3>1, AnnounceEffect, WokenLabels
  <2>3. CASE SpuriousWake(t)
    BY <1>1, <2>3, FunctionTypes DEF SpuriousWake, Goto, LabelsOK, LabelOK, FlushLabels
  <2>4. CASE JoinWorkers(t)
    <3>1. /\ pc'[t] = Caller(t) /\ UNCHANGED <<flush, shutdown>>
          /\ \A u \in Threads \ {t} : pc'[u] = pc[u]
      BY <2>4, FunctionTypes DEF JoinWorkers, Goto
    <3> QED BY <3>1, CallerLabel, WokenLabels
  <2>5. CASE BeginShutdown(t)
    <3>1. /\ pc'[t] = "close" /\ flush' = flush /\ shutdown'
          /\ \A u \in Threads \ {t} : pc'[u] = pc[u]
      BY <2>5, FunctionTypes DEF BeginShutdown, Goto
    <3> QED BY <1>1, <3>1 DEF LabelsOK, LabelOK, FlushLabels
  <2>6. ASSUME t = FlushThread, \A u \in Threads \ {t} : pc'[u] = pc[u], shutdown' = shutdown,
               \/ /\ pc'[t] \in {"free", "head", "trypop", "waiting"} /\ flush' = flush
                  /\ pc[t] \in {"head", "idlewait", "wakewait", "waiting"}
               \/ pc'[t] = "free"
               \/ pc'[t] = "head" /\ flush'.target \in Counters
        PROVE  LabelsOK'
    <3>1. FlushThread \notin Workers
      BY ThreadsAssumption
    <3>2. LabelOK(t)'
      BY <1>1, <2>6, <3>1 DEF LabelOK, FlushLabels
    <3>3. ASSUME NEW u \in Threads \ {t} PROVE LabelOK(u)'
      BY <1>1, <2>6 DEF LabelOK
    <3> QED BY <3>2, <3>3 DEF LabelsOK
  <2>7. CASE t = FlushThread /\ FlushHead
    BY <2>6, <2>7, FunctionTypes DEF FlushHead, FlushReturns, Goto
  <2>8. CASE t = FlushThread /\ FlushSleep
    BY <2>6, <2>8, FunctionTypes DEF FlushSleep, Goto
  <2>9. CASE t = FlushThread /\ FlushWaitExpires
    BY <2>6, <2>9, FunctionTypes DEF FlushWaitExpires, Goto
  <2>10. ASSUME t = FlushThread, NEW c \in Counters, NEW kind \in FlushKinds, BeginFlush(c, kind)
         PROVE  LabelsOK'
    BY <2>6, <2>10, FunctionTypes DEF BeginFlush, Goto
  <2> QED BY <1>18, <2>1, <2>2, <2>3, <2>4, <2>5, <2>7, <2>8, <2>9, <2>10 DEF QuietStep
<1>19. CASE UNCHANGED vars
  BY <1>1, <1>19 DEF vars, LabelsOK, LabelOK
<1> QED
  BY <1>3, <1>4, <1>5, <1>6, <1>7, <1>8, <1>9, <1>10, <1>11, <1>12, <1>13, <1>14, <1>15,
     <1>16, <1>17, <1>18, <1>19, StepCases

-----------------------------------------------------------------------------
(* Shutdown *)

\* What a step that does not concern the shutdown leaves alone.
Stays ==
  /\ UNCHANGED <<shutdown, closed>>
  /\ \A u \in Threads : pc[u] \in {"close", "panicked"} => pc'[u] = pc[u]
\* How a job comes to be lost, and when one becomes ready.
JobsGoOn == \A j \in Jobs :
  /\ place'[j] = "dropped" =>
       place[j] = "dropped" \/ shutdown' \/ \E t \in Threads : pc'[t] = "panicked"
  /\ place'[j] = "ready" => place[j] = "ready" \/ ~closed

LEMMA StaysForOne ==
  ASSUME NEW t, pc[t] \notin {"close", "panicked"}, ThreadsButOneUnchanged(t),
         UNCHANGED <<shutdown, closed>>
  PROVE  Stays
BY DEF Stays, ThreadsButOneUnchanged

LEMMA JobsGoOnForOne ==
  ASSUME NEW x, PlacesUnchangedBut({x}), place'[x] \notin {"dropped", "ready"}
  PROVE  JobsGoOn
BY DEF JobsGoOn, PlacesUnchangedBut

\* What the steps mean to the shutdown and to the jobs it may drop.
LEMMA StopEffects ==
  ASSUME Inductive, LabelsOK, [Next]_vars
  PROVE  /\ JobsGoOn
         /\ Stays \/ \E t \in Threads : CloseQueues(t) \/ BeginShutdown(t)
<1> USE DEF flushVars, stopVars
<1> DEFINE Goal == JobsGoOn /\ Stays
<1>1. place' = place => JobsGoOn
  BY DEF JobsGoOn
<1>3. ASSUME NEW t \in Threads, NEW j \in Jobs, Dispatch(t, j) PROVE Goal
  BY <1>3, DispatchEffect, StaysForOne, JobsGoOnForOne DEF Dispatch
<1>4. ASSUME NEW t \in Threads, TestWait(t) PROVE Goal
  BY <1>1, <1>4, TestWaitEffect, StaysForOne, JobsGoOnForOne DEF TestWait
<1>5. ASSUME NEW t \in Threads, Park(t) PROVE Goal
  BY <1>5, ParkEffect, StaysForOne, JobsGoOnForOne DEF Park
<1>6. ASSUME NEW t \in Threads, Push(t) PROVE Goal
  <2>1. ~closed
    BY <1>6 DEF Push, Enqueue
  <2> QED BY <1>6, <2>1, PushEffect, StaysForOne DEF Push, JobsGoOn, PlacesUnchangedBut
<1>7. ASSUME NEW t \in Threads, Panic(t), pc[t] \in {"push", "requeue", "release", "join"}
      PROVE  Goal
  <2>1. Stays
    BY <1>7, PanicEffect, StaysForOne DEF Panic
  <2>2. place' = [j \in Jobs |-> IF j \in Owned(t) THEN "dropped" ELSE place[j]]
    BY <1>7 DEF Panic
  <2> QED BY <1>7, <2>1, <2>2, PanicEffect DEF JobsGoOn
<1>8. ASSUME NEW t \in Threads, FinishBody(t) PROVE Goal
  BY <1>8, FinishBodyEffect, StaysForOne, JobsGoOnForOne DEF FinishBody
<1>9. ASSUME NEW t \in Threads, NEW d \in Deferrals, CreateDeferral(t, d) PROVE Goal
  BY <1>1, <1>9 DEF CreateDeferral, threadVars, jobVars, Stays
<1>10. ASSUME NEW t \in Threads, NEW d \in Deferrals, FinishDeferral(t, d) PROVE Goal
  <2>1. UNCHANGED <<shutdown, closed>>
    BY <1>10 DEF FinishDeferral
  <2> QED BY <1>1, <1>10, <2>1, FinishDeferralEffect, StaysForOne
<1>11. ASSUME NEW t \in Threads, DrainWaiting(t) PROVE Goal
  <2>1. \/ place' = place
        \/ place' = [j \in Jobs |->
                       IF j \in Range(waiting[zeroed[t]]) THEN "cleared" ELSE place[j]]
    BY <1>11 DEF DrainWaiting
  <2>2. JobsGoOn
    BY <2>1 DEF JobsGoOn
  <2> QED BY <1>11, <2>2, DrainWaitingEffect, StaysForOne DEF DrainWaiting
<1>12. ASSUME NEW t \in Threads, ReleaseOne(t) PROVE Goal
  <2>1. ~closed /\ UNCHANGED <<shutdown, closed>>
    BY <1>12 DEF ReleaseOne, Enqueue
  <2>2. PICK j : PlacesUnchangedBut({j}) /\ place'[j] = "ready"
    BY <1>12, ReleaseOneEffect
  <2> QED BY <1>12, <2>1, <2>2, ReleaseOneEffect, StaysForOne DEF JobsGoOn, PlacesUnchangedBut
<1>13. ASSUME NEW t \in Threads, ReleaseEnds(t) PROVE Goal
  <2>1. /\ batch[t] = <<>> \/ shutdown
        /\ UNCHANGED <<shutdown, closed>>
        /\ place' = [j \in Jobs |-> IF j \in Range(batch[t]) THEN "dropped" ELSE place[j]]
    BY <1>13 DEF ReleaseEnds
  <2>2. batch[t] = <<>> => Range(batch[t]) = {}
    BY DEF Range
  <2> QED BY <1>13, <2>1, <2>2, ReleaseEndsEffect, StaysForOne DEF JobsGoOn
<1>14. ASSUME NEW t \in Threads, PopBlocking(t) PROVE Goal
  BY <1>1, <1>14, PopBlockingEffect, StaysForOne, JobsGoOnForOne DEF PopBlocking, TakesFromLane
<1>15. ASSUME NEW t \in Threads, RunPopped(t) PROVE Goal
  <2>1. Stays
    BY <1>15, RunPoppedEffect, StaysForOne DEF RunPopped
  <2>2. JobsGoOn
    BY <1>15, RunPoppedEffect, FunctionTypes DEF RunPopped, JobsGoOn, PlacesUnchangedBut
  <2> QED BY <2>1, <2>2
<1>16. ASSUME FlushPop PROVE Goal
  BY <1>1, <1>16, FlushPopEffect, StaysForOne, JobsGoOnForOne DEF FlushPop, TakesFromLane
<1>17. ASSUME NEW t \in Threads, CloseQueues(t) PROVE JobsGoOn
  BY <1>17, CloseQueuesEffect DEF JobsGoOn, CloseQueues, LabelsOK, LabelOK
<1>18. ASSUME NEW t \in Threads, QuietStep(t) PROVE JobsGoOn /\ (Stays \/ BeginShutdown(t))
  <2>1. JobsGoOn
    BY <1>1, <1>18, QuietEffect DEF Quiet
  <2>2. CASE Signal(t)
    BY <2>1, <2>2, SignalEffect DEF Stays
  <2>3. CASE AnnounceZero(t)
    BY <2>1, <2>3, AnnounceEffect DEF Stays
  <2>4. ASSUME pc[t] \notin {"close", "panicked"}, \A u \in Threads \ {t} : pc'[u] = pc[u],
               shutdown' = shutdown /\ closed' = closed
        PROVE  Stays
    BY <2>4 DEF Stays
  <2>5. CASE SpuriousWake(t)
    BY <2>1, <2>4, <2>5, FunctionTypes DEF SpuriousWake, Goto
  <2>6. CASE JoinWorkers(t)
    BY <2>1, <2>4, <2>6, FunctionTypes DEF JoinWorkers, Goto
  <2>7. CASE t = FlushThread /\ FlushHead
    BY <2>1, <2>4, <2>7, FunctionTypes DEF FlushHead, FlushReturns, Goto
  <2>8. CASE t = FlushThread /\ FlushSleep
    BY <2>1, <2>4, <2>8, FunctionTypes DEF FlushSleep, Goto
  <2>9. CASE t = FlushThread /\ FlushWaitExpires
    BY <2>1, <2>4, <2>9, FunctionTypes DEF FlushWaitExpires, Goto
  <2>10. ASSUME t = FlushThread, NEW c \in Counters, NEW kind \in FlushKinds, BeginFlush(c, kind)
         PROVE  Stays
    BY <2>4, <2>10, FunctionTypes DEF BeginFlush, Goto
  <2> QED BY <1>18, <2>1, <2>2, <2>3, <2>5, <2>6, <2>7, <2>8, <2>9, <2>10 DEF QuietStep
<1>19. CASE UNCHANGED vars
  BY <1>1, <1>19 DEF vars, Stays
<1> QED
  BY <1>3, <1>4, <1>5, <1>6, <1>7, <1>8, <1>9, <1>10, <1>11, <1>12, <1>13, <1>14, <1>15,
     <1>16, <1>17, <1>18, <1>19, StepCases

\* The inductive step of NoSilentLoss.
LEMMA LossStep ==
  ASSUME Inductive, LabelsOK, NoSilentLoss, [Next]_vars
  PROVE  NoSilentLoss'
<1>1. ASSUME NEW j \in Jobs, place'[j] = "dropped", place[j] # "dropped"
      PROVE  shutdown' \/ \E t \in Threads : pc'[t] = "panicked"
  BY <1>1, StopEffects DEF JobsGoOn
<1>2. CASE Stays
  BY <1>1, <1>2 DEF Stays, NoSilentLoss
<1>3. ASSUME NEW t \in Threads, CloseQueues(t) PROVE NoSilentLoss'
  BY <1>3, CloseQueuesEffect DEF NoSilentLoss, LabelsOK, LabelOK
<1>4. ASSUME NEW t \in Threads, BeginShutdown(t) PROVE NoSilentLoss'
  BY <1>4 DEF BeginShutdown, NoSilentLoss
<1> QED BY <1>2, <1>3, <1>4, StopEffects

\* The inductive step of StopOK.
LEMMA StopStep ==
  ASSUME Inductive, LabelsOK, StopOK, [Next]_vars
  PROVE  StopOK'
<1>1. CASE Stays
  <2>1. closed => Ready' = {}
    BY StopEffects DEF JobsGoOn, StopOK, Ready
  <2> QED BY <1>1, <2>1 DEF Stays, StopOK
<1>2. ASSUME NEW t \in Threads, CloseQueues(t) PROVE StopOK'
  <2>1. Ready' = {}
    BY <1>2, CloseQueuesEffect DEF Ready
  <2>2. closed' /\ shutdown'
    BY <1>2, CloseQueuesEffect DEF CloseQueues, LabelsOK, LabelOK
  <2> QED BY <2>1, <2>2 DEF StopOK
<1>3. ASSUME NEW t \in Threads, BeginShutdown(t) PROVE StopOK'
  <2>1. pc'[t] = "close" /\ shutdown' /\ ~closed'
    BY <1>3, FunctionTypes DEF BeginShutdown, Goto, StopOK
  <2> QED BY <2>1 DEF StopOK
<1> QED BY <1>1, <1>2, <1>3, StopEffects

\* The inductive step of TimedOK.
LEMMA TimedStep ==
  ASSUME TimedOK, [Next]_vars
  PROVE  TimedOK'
<1> USE DEF flushVars, threadVars
<1>1. CASE flush' \in {flush, NoFlush}
  BY <1>1 DEF TimedOK, NoFlush
<1>2. ASSUME NEW c, NEW kind \in FlushKinds, BeginFlush(c, kind) PROVE TimedOK'
  BY <1>2 DEF BeginFlush, TimedOK
<1>3. ASSUME NEW t, Panic(t) PROVE flush' \in {flush, NoFlush}
  BY <1>3 DEF Panic
<1>4. ASSUME NEW t, ThreadStep(t) PROVE flush' \in {flush, NoFlush}
  BY <1>3, <1>4 DEF ThreadStep, TestWait, Park, Push, PushPanics, Signal, AnnounceZero, DrainWaiting,
     ReleaseOne, ReleaseEnds, ReleasePanics, PopBlocking, RunPopped, CloseQueues, JoinWorkers,
     JoinPanics
<1>5. ASSUME NEW t, UserStep(t) \/ SpuriousWake(t) PROVE flush' \in {flush, NoFlush}
  BY <1>5 DEF UserStep, SpuriousWake, Dispatch, CreateDeferral, FinishDeferral, FinishBody,
     BeginShutdown
<1>6. CASE FlushStep
  BY <1>1, <1>6 DEF FlushStep, FlushHead, FlushReturns, FlushPop, FlushSleep, FlushWaitExpires
<1>7. CASE UNCHANGED vars
  BY <1>1, <1>7 DEF vars
<1> QED BY <1>1, <1>2, <1>4, <1>5, <1>6, <1>7 DEF Next

-----------------------------------------------------------------------------
(* Every ready job is in a lane *)

InLane(j) == \E l \in Lanes : \E i \in 1 .. Len(lanes[l]) : lanes[l][i] = j

LEMMA LinedKept ==
  ASSUME Lined, lanes' = lanes, \A j \in Jobs : place'[j] = "ready" => place[j] = "ready"
  PROVE  Lined'
BY DEF Lined

\* A job at the end of its lane, and every job that was in one, is in one.
LEMMA LinedAfterPush ==
  ASSUME Inductive, Lined, NEW j \in Jobs, NEW k \in Lanes, PlacesUnchangedBut({j}),
         lanes' = [lanes EXCEPT ![k] = Append(@, j)]
  PROVE  Lined'
<1>1. /\ \A l \in Lanes : lanes[l] \in Seq(Jobs)
      /\ lanes'[k] = Append(lanes[k], j) /\ \A l \in Lanes \ {k} : lanes'[l] = lanes[l]
  BY FunctionTypes
<1>2. /\ Len(lanes'[k]) = Len(lanes[k]) + 1 /\ Len(lanes[k]) \in Nat
      /\ \A i \in 1 .. Len(lanes[k]) : lanes'[k][i] = lanes[k][i]
      /\ lanes'[k][Len(lanes[k]) + 1] = j
  BY <1>1
<1>3. InLane(j)'
  <2>1. Len(lanes[k]) + 1 \in 1 .. Len(lanes'[k])
    BY <1>2
  <2> QED BY <1>2, <2>1 DEF InLane
<1>4. ASSUME NEW x \in Jobs, NEW l \in Lanes, NEW i \in 1 .. Len(lanes[l]), lanes[l][i] = x
      PROVE  InLane(x)'
  <2>1. i \in 1 .. Len(lanes'[l]) /\ lanes'[l][i] = x
    BY <1>1, <1>2, <1>4
  <2> QED BY <2>1 DEF InLane
<1> QED BY <1>3, <1>4 DEF Lined, InLane, PlacesUnchangedBut

\* The job that was taken is no longer ready, the others moved up.
LEMMA LinedAfterPop ==
  ASSUME Inductive, Lined, NEW j, TakesFromLane(j), place'[j] # "ready"
  PROVE  Lined'
<1>1. /\ \A l \in Lanes : lanes[l] \in Seq(Jobs)
      /\ TopLane \in Lanes /\ lanes[TopLane] # <<>> /\ j = lanes[TopLane][1]
      /\ lanes'[TopLane] = Tail(lanes[TopLane])
      /\ \A l \in Lanes \ {TopLane} : lanes'[l] = lanes[l]
  BY FunctionTypes DEF TakesFromLane
<1>2. /\ Len(lanes'[TopLane]) = Len(lanes[TopLane]) - 1 /\ Len(lanes[TopLane]) \in Nat \ {0}
      /\ \A i \in 1 .. Len(lanes'[TopLane]) : lanes'[TopLane][i] = lanes[TopLane][i + 1]
  BY <1>1
<1>3. ASSUME NEW x \in Jobs, x # j,
             NEW l \in Lanes, NEW i \in 1 .. Len(lanes[l]), lanes[l][i] = x
      PROVE  InLane(x)'
  <2>1. CASE l # TopLane
    BY <1>1, <1>3, <2>1 DEF InLane
  <2>2. CASE l = TopLane
    <3>1. i # 1 /\ Len(lanes[l]) \in Nat
      BY <1>1, <1>2, <1>3, <2>2
    <3>2. i - 1 \in 1 .. Len(lanes'[l]) /\ lanes'[l][i - 1] = lanes[l][(i - 1) + 1]
      BY <1>2, <2>2, <3>1
    <3>3. (i - 1) + 1 = i
      BY <3>1
    <3> QED BY <1>3, <3>2, <3>3 DEF InLane
  <2> QED BY <2>1, <2>2
<1>4. ASSUME NEW x \in Jobs, place'[x] = "ready" PROVE InLane(x)'
  <2>1. x # j /\ place[x] = "ready"
    BY <1>4 DEF TakesFromLane, PlacesUnchangedBut
  <2>2. PICK l \in Lanes : \E i \in 1 .. Len(lanes[l]) : lanes[l][i] = x
    BY <2>1 DEF Lined
  <2> QED BY <1>3, <2>1, <2>2
<1> QED BY <1>4 DEF Lined, InLane

\* Nothing is ready when no lane holds anything.
LEMMA NothingReady ==
  ASSUME Inductive, Lined, ~HasReadyJob
  PROVE  Ready = {}
<1>1. \A l \in Lanes : Len(lanes[l]) = 0
  BY FunctionTypes DEF HasReadyJob
<1> QED BY <1>1 DEF Lined, Ready

\* The inductive step of Lined.
LEMMA LinedStep ==
  ASSUME Inductive, Lined, [Next]_vars
  PROVE  Lined'
<1>1. CASE UNCHANGED <<place, lanes>>
  BY <1>1, LinedKept
<1>2. ASSUME NEW x, PlacesUnchangedBut({x}), place'[x] # "ready", lanes' = lanes
      PROVE  Lined'
  BY <1>2, LinedKept DEF PlacesUnchangedBut
<1>3. ASSUME NEW t \in Threads, NEW j \in Jobs, Dispatch(t, j) PROVE Lined'
  BY <1>2, <1>3, DispatchEffect
<1>4. ASSUME NEW t \in Threads, TestWait(t) PROVE Lined'
  BY <1>1, <1>2, <1>4, TestWaitEffect
<1>5. ASSUME NEW t \in Threads, Park(t) PROVE Lined'
  BY <1>2, <1>5, ParkEffect
<1>6. ASSUME NEW t \in Threads, Push(t) PROVE Lined'
  BY <1>6, PushEffect, LinedAfterPush
<1>7. ASSUME NEW t \in Threads, Panic(t) PROVE Lined'
  <2>1. \A j \in Jobs : place'[j] = "ready" => place[j] = "ready"
    BY <1>7 DEF Panic
  <2> QED BY <1>7, <2>1, PanicEffect, LinedKept
<1>8. ASSUME NEW t \in Threads, FinishBody(t) PROVE Lined'
  BY <1>2, <1>8, FinishBodyEffect
<1>9. ASSUME NEW t \in Threads, NEW d \in Deferrals, CreateDeferral(t, d) PROVE Lined'
  BY <1>1, <1>9 DEF CreateDeferral, jobVars
<1>10. ASSUME NEW t \in Threads, NEW d \in Deferrals, FinishDeferral(t, d) PROVE Lined'
  BY <1>1, <1>10, FinishDeferralEffect
<1>11. ASSUME NEW t \in Threads, DrainWaiting(t) PROVE Lined'
  <2>1. \A j \in Jobs : place'[j] = "ready" => place[j] = "ready"
    BY <1>11 DEF DrainWaiting
  <2> QED BY <1>11, <2>1, DrainWaitingEffect, LinedKept
<1>12. ASSUME NEW t \in Threads, ReleaseOne(t) PROVE Lined'
  <2> DEFINE j == batch[t][Len(batch[t])]
  <2>1. /\ j \in Jobs /\ LaneOf(j) \in Lanes /\ PlacesUnchangedBut({j})
        /\ lanes' = [lanes EXCEPT ![LaneOf(j)] = Append(@, j)]
    BY <1>12, ReleaseOneEffect
  <2> HIDE DEF j
  <2> QED BY <2>1, LinedAfterPush
<1>13. ASSUME NEW t \in Threads, ReleaseEnds(t) PROVE Lined'
  <2>1. \A j \in Jobs : place'[j] = "ready" => place[j] = "ready"
    BY <1>13 DEF ReleaseEnds
  <2> QED BY <1>13, <2>1, ReleaseEndsEffect, LinedKept
<1>14. ASSUME NEW t \in Threads, PopBlocking(t) PROVE Lined'
  BY <1>1, <1>14, PopBlockingEffect, LinedAfterPop
<1>15. ASSUME NEW t \in Threads, RunPopped(t) PROVE Lined'
  BY <1>2, <1>15, RunPoppedEffect
<1>16. ASSUME FlushPop PROVE Lined'
  BY <1>1, <1>16, FlushPopEffect, LinedAfterPop
<1>17. ASSUME NEW t \in Threads, CloseQueues(t) PROVE Lined'
  BY <1>17, CloseQueuesEffect DEF Lined
<1>18. ASSUME NEW t \in Threads, QuietStep(t) PROVE Lined'
  BY <1>1, <1>18, QuietEffect DEF Quiet
<1>19. CASE UNCHANGED vars
  BY <1>1, <1>19 DEF vars
<1> QED
  BY <1>3, <1>4, <1>5, <1>6, <1>7, <1>8, <1>9, <1>10, <1>11, <1>12, <1>13, <1>14, <1>15,
     <1>16, <1>17, <1>18, <1>19, StepCases

-----------------------------------------------------------------------------
(* The balance of ready jobs and threads that look *)

SameTally == Ready' \subseteq Ready /\ Lookers \subseteq Lookers'
OneMore == \E t \in Threads \ Lookers, j \in Jobs :
  Ready' \subseteq Ready \cup {j} /\ Lookers \cup {t} \subseteq Lookers'
OneLess == \E t \in Threads, j \in Ready :
  Ready' \subseteq Ready \ {j} /\ Lookers \ {t} \subseteq Lookers'
OneForOne == \E t \in Threads, s \in Threads \ Lookers :
  Ready' \subseteq Ready /\ (Lookers \ {t}) \cup {s} \subseteq Lookers'

\* What a step does to the balance.
Tally ==
  \/ ~Asleep' \/ Zeroing' \/ Ready' = {}
  \/ (Asleep' => Asleep) /\ (SameTally \/ OneMore \/ OneLess \/ OneForOne)

\* The sets are finite.
LEMMA FiniteSides ==
  /\ IsFiniteSet(Ready) /\ Cardinality(Ready) \in Nat
  /\ IsFiniteSet(Lookers) /\ Cardinality(Lookers) \in Nat
  /\ IsFiniteSet(Ready') /\ Cardinality(Ready') \in Nat
  /\ IsFiniteSet(Lookers') /\ Cardinality(Lookers') \in Nat
<1>1. /\ Ready \subseteq Jobs /\ Lookers \subseteq Threads
      /\ Ready' \subseteq Jobs /\ Lookers' \subseteq Threads
  BY DEF Ready, Lookers
<1>2. /\ IsFiniteSet(Ready) /\ IsFiniteSet(Lookers)
      /\ IsFiniteSet(Ready') /\ IsFiniteSet(Lookers')
  BY <1>1, FiniteAssumption, FS_Subset
<1> QED BY <1>2, FS_CardinalityType

\* Sizes of sets that differ by an element.
LEMMA Sizes ==
  ASSUME NEW A, NEW B, NEW x, IsFiniteSet(A), IsFiniteSet(B)
  PROVE  /\ A \subseteq B => Cardinality(A) <= Cardinality(B)
         /\ A \subseteq B \cup {x} => Cardinality(A) <= Cardinality(B) + 1
         /\ x \notin A /\ A \cup {x} \subseteq B => Cardinality(A) + 1 <= Cardinality(B)
         /\ x \in B /\ A \subseteq B \ {x} => Cardinality(A) + 1 <= Cardinality(B)
         /\ A \ {x} \subseteq B => Cardinality(A) <= Cardinality(B) + 1
<1>1. /\ IsFiniteSet(A \cup {x}) /\ IsFiniteSet(B \cup {x})
      /\ Cardinality(A) \in Nat /\ Cardinality(B) \in Nat
      /\ Cardinality(A \cup {x}) = IF x \in A THEN Cardinality(A) ELSE Cardinality(A) + 1
      /\ Cardinality(B \cup {x}) = IF x \in B THEN Cardinality(B) ELSE Cardinality(B) + 1
  BY FS_AddElement, FS_CardinalityType
<1>2. \A C, D : IsFiniteSet(D) /\ C \subseteq D => Cardinality(C) <= Cardinality(D)
  BY FS_Subset
<1>3. A \subseteq B => Cardinality(A) <= Cardinality(B)
  BY <1>2
<1>4. A \subseteq B \cup {x} => Cardinality(A) <= Cardinality(B) + 1
  BY <1>1, <1>2
<1>5. x \notin A /\ A \cup {x} \subseteq B => Cardinality(A) + 1 <= Cardinality(B)
  BY <1>1, <1>2
<1>6. x \in B /\ A \subseteq B \ {x} => x \notin A /\ A \cup {x} \subseteq B
  OBVIOUS
<1>7. A \ {x} \subseteq B => A \subseteq B \cup {x}
  OBVIOUS
<1> QED BY <1>3, <1>4, <1>5, <1>6, <1>7

\* A step that keeps the tally keeps the balance.
LEMMA TallyKeepsBalance ==
  ASSUME Balanced, ~shutdown, Tally, Zeroing => Zeroing' \/ ~Asleep'
  PROVE  Balanced'
<1> SUFFICES ASSUME Asleep', ~Zeroing'
             PROVE  Cardinality(Ready') <= Cardinality(Lookers')
  BY DEF Balanced
<1>1. CASE Ready' = {}
  BY <1>1, FiniteSides, FS_EmptySet
<1>2. CASE Asleep /\ (SameTally \/ OneMore \/ OneLess \/ OneForOne)
  <2> DEFINE a == Cardinality(Ready)
             b == Cardinality(Ready')
             m == Cardinality(Lookers)
             n == Cardinality(Lookers')
  <2>1. a <= m /\ {a, b, m, n} \subseteq Nat
    BY <1>2, FiniteSides DEF Balanced
  <2>2. CASE SameTally
    <3>1. b <= a /\ m <= n
      BY <2>2, Sizes, FiniteSides DEF SameTally
    <3> HIDE DEF a, b, m, n
    <3>2. b <= n
      BY <2>1, <3>1
    <3> QED BY <3>2 DEF b, n
  <2>3. CASE OneMore
    <3>1. PICK t \in Threads \ Lookers, j \in Jobs :
            Ready' \subseteq Ready \cup {j} /\ Lookers \cup {t} \subseteq Lookers'
      BY <2>3 DEF OneMore
    <3>2. b <= a + 1
      BY <3>1, Sizes, FiniteSides
    <3>3. m + 1 <= n
      BY <3>1, Sizes, FiniteSides
    <3> HIDE DEF a, b, m, n
    <3>4. b <= n
      BY <2>1, <3>2, <3>3
    <3> QED BY <3>4 DEF b, n
  <2>4. CASE OneLess
    <3>1. PICK t \in Threads, j \in Ready :
            Ready' \subseteq Ready \ {j} /\ Lookers \ {t} \subseteq Lookers'
      BY <2>4 DEF OneLess
    <3>2. b + 1 <= a
      BY <3>1, Sizes, FiniteSides
    <3>3. m <= n + 1
      BY <3>1, Sizes, FiniteSides
    <3> HIDE DEF a, b, m, n
    <3>4. b <= n
      BY <2>1, <3>2, <3>3
    <3> QED BY <3>4 DEF b, n
  <2>5. CASE OneForOne
    <3>1. PICK t \in Threads, s \in Threads \ Lookers :
            Ready' \subseteq Ready /\ (Lookers \ {t}) \cup {s} \subseteq Lookers'
      BY <2>5 DEF OneForOne
    <3>2. b <= a
      BY <3>1, Sizes, FiniteSides
    <3>3. m <= n
      <4> DEFINE L == Lookers \ {t}
                 l == Cardinality(L)
      <4>1. L \subseteq Lookers /\ IsFiniteSet(L) /\ l \in Nat
        BY FiniteSides, FS_Subset, FS_CardinalityType
      <4>2. m <= l + 1
        BY <4>1, Sizes, FiniteSides
      <4>3. l + 1 <= n
        <5>1. s \notin L /\ L \cup {s} \subseteq Lookers'
          BY <3>1
        <5> HIDE DEF L
        <5> QED BY <4>1, <5>1, Sizes, FiniteSides
      <4> HIDE DEF m, n, l
      <4> QED BY <2>1, <4>1, <4>2, <4>3
    <3> HIDE DEF a, b, m, n
    <3>4. b <= n
      BY <2>1, <3>2, <3>3
    <3> QED BY <3>4 DEF b, n
  <2> QED BY <1>2, <2>2, <2>3, <2>4, <2>5
<1> QED BY <1>1, <1>2 DEF Tally

\* What the balance and the sleeping flush need of a step.
Careful == (Zeroing => Zeroing' \/ ~Asleep') /\ Tally /\ FlushWakes'

\* Who looks at the queues keeps looking when another thread moves, unless the
\* flush is about to be told that its counter is at zero.
LEMMA OthersLook ==
  ASSUME LabelsOK, FlushWakes, shutdown => shutdown',
         NEW t \in Threads, ThreadsButOneUnchanged(t), pc[t] # "zeroed", pc'[t] # "waiting",
         Zeroing' \/ \A c \in Counters : value'[c] = 0 => value[c] = 0,
         flush' = flush \/ t = FlushThread
  PROVE  /\ Zeroing => Zeroing'
         /\ Asleep' => Asleep
         /\ FlushWakes'
         /\ Zeroing' \/ Lookers \ {t} \subseteq Lookers'
<1>1. Zeroing => Zeroing'
  BY DEF Zeroing, ThreadsButOneUnchanged
<1>2. Asleep' => Asleep
  BY DEF Asleep, ThreadsButOneUnchanged, Threads
<1>3. FlushWakes'
  <2>1. SUFFICES ASSUME ~shutdown, pc'[FlushThread] = "waiting", value'[flush'.target] = 0
                 PROVE  Zeroing'
    BY DEF FlushWakes
  <2>2. FlushThread \in Threads \ {t} /\ flush' = flush /\ pc[FlushThread] = "waiting"
    BY <2>1, ThreadsAssumption DEF Threads, ThreadsButOneUnchanged
  <2>3. flush.target \in Counters
    BY <2>2, ThreadsAssumption DEF LabelsOK, LabelOK, Threads
  <2> QED BY <1>1, <2>1, <2>2, <2>3 DEF FlushWakes
<1>4. ASSUME ~Zeroing', NEW u \in Lookers, u # t PROVE u \in Lookers'
  <2>1. u \in Threads /\ pc'[u] = pc[u]
    BY <1>4 DEF Lookers, ThreadsButOneUnchanged
  <2>2. CASE u # FlushThread \/ pc[u] \notin {"head", "trypop", "idlewait"}
    BY <1>4, <2>1, <2>2 DEF Lookers, Looker
  <2>3. CASE u = FlushThread /\ pc[u] \in {"head", "trypop", "idlewait"}
    <3>1. flush' = flush /\ flush.target \in Counters
      BY <1>4, <2>1, <2>3 DEF LabelsOK, LabelOK, FlushLabels
    <3>2. value[flush.target] # 0
      BY <1>4, <2>3, ThreadsAssumption DEF Lookers, Looker
    <3> QED BY <1>4, <2>1, <2>3, <3>1, <3>2 DEF Lookers, Looker
  <2> QED BY <2>2, <2>3
<1> QED BY <1>1, <1>2, <1>3, <1>4

\* Three ways a thread moves: away from something that is no look, from one
\* look to another, or with a job it made ready or took.
LEMMA CarefulMove ==
  ASSUME LabelsOK, FlushWakes, shutdown => shutdown',
         NEW t \in Threads, ThreadsButOneUnchanged(t), pc[t] # "zeroed", pc'[t] # "waiting",
         Zeroing' \/ \A c \in Counters : value'[c] = 0 => value[c] = 0,
         flush' = flush \/ t = FlushThread,
         \/ Ready' \subseteq Ready /\ (t \in Lookers => t \in Lookers')
         \/ t \in Lookers' \ Lookers /\ \E j \in Jobs : Ready' \subseteq Ready \cup {j}
         \/ \E j \in Ready : Ready' \subseteq Ready \ {j}
  PROVE  Careful
<1>1. /\ Zeroing => Zeroing'
      /\ Asleep' => Asleep
      /\ FlushWakes'
      /\ Zeroing' \/ Lookers \ {t} \subseteq Lookers'
  BY OthersLook
<1>2. ASSUME Lookers \ {t} \subseteq Lookers' PROVE SameTally \/ OneMore \/ OneLess
  BY <1>2 DEF SameTally, OneMore, OneLess
<1> QED BY <1>1, <1>2 DEF Careful, Tally

\* Which jobs are ready after a step.
LEMMA ReadyAfter ==
  /\ (\A j \in Jobs : place'[j] = "ready" => place[j] = "ready") => Ready' \subseteq Ready
  /\ \A x : PlacesUnchangedBut({x}) =>
       /\ Ready' \subseteq Ready \cup {x}
       /\ place'[x] # "ready" => Ready' \subseteq Ready \ {x}
BY DEF Ready, PlacesUnchangedBut

\* A label that is no look.
LEMMA NoLooker ==
  ASSUME NEW t, pc[t] \notin {"signal", "signalRelease", "signalRequeue", "pop", "head",
                              "trypop", "idlewait"}
  PROVE  t \notin Lookers
BY DEF Lookers, Looker

\* While the system is up and stays up, every step is careful.
LEMMA CarefulStep ==
  ASSUME Inductive, LabelsOK, StopOK, Lined, FlushWakes, ~flush.timed, [Next]_vars, ~shutdown'
  PROVE  Careful
<1> USE DEF flushVars, stopVars
<1>1. ~shutdown /\ ~closed
  BY StopEffects DEF Stays, BeginShutdown, CloseQueues, StopOK, LabelsOK, LabelOK
<1>2. ASSUME NEW t \in Threads, ThreadsButOneUnchanged(t), flush' = flush \/ t = FlushThread,
             pc[t] \notin {"signal", "signalRelease", "signalRequeue", "pop", "head", "trypop",
                           "idlewait", "zeroed"},
             pc'[t] # "waiting",
             Zeroing' \/ \A c \in Counters : value'[c] = 0 => value[c] = 0,
             \A j \in Jobs : place'[j] = "ready" => place[j] = "ready"
      PROVE  Careful
  BY <1>1, <1>2, NoLooker, ReadyAfter, CarefulMove
<1>3. ASSUME NEW t \in Threads, NEW j \in Jobs, Dispatch(t, j) PROVE Careful
  <2>1. \A c \in Counters : value'[c] = 0 => value[c] = 0
    BY <1>3, FunctionTypes DEF Dispatch, Decl
  <2>2. \A i \in Jobs : place'[i] = "ready" => place[i] = "ready"
    BY <1>3, DispatchEffect DEF PlacesUnchangedBut
  <2> QED BY <1>2, <1>3, <2>1, <2>2, DispatchEffect DEF Dispatch
<1>4. ASSUME NEW t \in Threads, TestWait(t) PROVE Careful
  <2>1. \A i \in Jobs : place'[i] = "ready" => place[i] = "ready"
    BY <1>4, TestWaitEffect DEF PlacesUnchangedBut
  <2>2. flush' = flush /\ value' = value
    BY <1>4, TestWaitEffect DEF TestWait
  <2>3. pc[t] = "counted" /\ pc'[t] \in {"push", "park"} /\ ThreadsButOneUnchanged(t)
    BY <1>4, TestWaitEffect
  <2> QED BY <1>2, <2>1, <2>2, <2>3
<1>5. ASSUME NEW t \in Threads, Park(t) PROVE Careful
  <2>1. \A i \in Jobs : place'[i] = "ready" => place[i] = "ready"
    BY <1>5, ParkEffect DEF PlacesUnchangedBut
  <2> QED BY <1>2, <1>5, <2>1, ParkEffect DEF Park, Caller, Idle
<1>6. ASSUME NEW t \in Threads, Push(t) PROVE Careful
  <2>1. t \in Lookers' \ Lookers
    BY <1>6, PushEffect, NoLooker DEF Lookers, Looker
  <2>2. Ready' \subseteq Ready \cup {hand[t]} /\ hand[t] \in Jobs
    BY <1>6, PushEffect, ReadyAfter
  <2>3. flush' = flush /\ value' = value
    BY <1>6, PushEffect DEF Push
  <2>4. pc[t] # "zeroed" /\ pc'[t] # "waiting" /\ ThreadsButOneUnchanged(t)
    BY <1>6, PushEffect
  <2> QED BY <1>1, <2>1, <2>2, <2>3, <2>4, CarefulMove
<1>7. ASSUME NEW t \in Threads, Panic(t), pc[t] \in {"push", "requeue", "release", "join"}
      PROVE  Careful
  <2>1. \A j \in Jobs : place'[j] = "ready" => place[j] = "ready"
    BY <1>7 DEF Panic
  <2>2. flush' = flush \/ t = FlushThread
    BY <1>7 DEF Panic
  <2> QED BY <1>2, <1>7, <2>1, <2>2, PanicEffect
<1>8. ASSUME NEW t \in Threads, NEW c \in Counters, value[c] > 0,
             value' = [value EXCEPT ![c] = @ - 1], value[c] = 1 => pc'[t] = "zeroed"
      PROVE  Zeroing' \/ \A i \in Counters : value'[i] = 0 => value[i] = 0
  BY <1>8, FunctionTypes DEF Zeroing
<1>9. ASSUME NEW t \in Threads, FinishBody(t) PROVE Careful
  <2>1. value[decl[running[t]].accum] > 0
    <3>1. running[t] \in Outstanding(decl[running[t]].accum)
      BY <1>9, FinishBodyEffect DEF Outstanding
    <3> QED BY <1>9, <3>1, FinishBodyEffect, CountedPositive DEF Inductive
  <2>2. \A i \in Jobs : place'[i] = "ready" => place[i] = "ready"
    BY <1>9, FinishBodyEffect DEF PlacesUnchangedBut
  <2>3. Zeroing' \/ \A i \in Counters : value'[i] = 0 => value[i] = 0
    BY <1>8, <1>9, <2>1, FinishBodyEffect
  <2> QED BY <1>2, <1>9, <2>2, <2>3, FinishBodyEffect DEF FinishBody, Idle
<1>10. ASSUME NEW t \in Threads, NEW d \in Deferrals, FinishDeferral(t, d) PROVE Careful
  <2>1. value[DeferralCounter[d]] > 0
    <3>1. d \in Outstanding(DeferralCounter[d])
      BY <1>10, FinishDeferralEffect DEF Outstanding
    <3> QED BY <1>10, <3>1, FinishDeferralEffect, CountedPositive DEF Inductive
  <2>2. Zeroing' \/ \A i \in Counters : value'[i] = 0 => value[i] = 0
    BY <1>8, <1>10, <2>1, FinishDeferralEffect
  <2> QED BY <1>2, <1>10, <2>2, FinishDeferralEffect DEF FinishDeferral
<1>11. ASSUME NEW t \in Threads, NEW d \in Deferrals, CreateDeferral(t, d) PROVE Careful
  <2>1. \A c \in Counters : value'[c] = 0 => value[c] = 0
    BY <1>11, FunctionTypes, CountersAssumption DEF CreateDeferral
  <2>2. pc[t] \in {"free", "body"} /\ UNCHANGED <<pc, hand, running, batch, zeroed, place, flush>>
    BY <1>11 DEF CreateDeferral, InUserCode, threadVars, jobVars
  <2> QED BY <1>2, <2>1, <2>2 DEF ThreadsButOneUnchanged
<1>12. ASSUME NEW t \in Threads, DrainWaiting(t) PROVE Careful
  <2>1. \A j \in Jobs : place'[j] = "ready" => place[j] = "ready"
    BY <1>12 DEF DrainWaiting
  <2> QED BY <1>2, <1>12, <2>1, DrainWaitingEffect DEF DrainWaiting
<1>13. ASSUME NEW t \in Threads, ReleaseOne(t) PROVE Careful
  <2>1. t \in Lookers' \ Lookers
    BY <1>13, ReleaseOneEffect, NoLooker DEF Lookers, Looker
  <2>2. PICK j \in Jobs : Ready' \subseteq Ready \cup {j}
    BY <1>13, ReleaseOneEffect, ReadyAfter
  <2>3. flush' = flush /\ value' = value
    BY <1>13, ReleaseOneEffect DEF ReleaseOne
  <2> QED BY <1>1, <1>13, <2>1, <2>2, <2>3, ReleaseOneEffect, CarefulMove
<1>14. ASSUME NEW t \in Threads, ReleaseEnds(t) PROVE Careful
  <2>1. \A j \in Jobs : place'[j] = "ready" => place[j] = "ready"
    BY <1>14 DEF ReleaseEnds
  <2>2. /\ pc[t] = "release" /\ pc'[t] \in {"body", "free", "pop", "head", "trypop", "join"}
        /\ flush' = flush /\ value' = value
    BY <1>14, ReleaseEndsEffect DEF ReleaseEnds, Caller, Idle, flushVars
  <2>3. ThreadsButOneUnchanged(t)
    BY <1>14, ReleaseEndsEffect
  <2> QED BY <1>2, <2>1, <2>2, <2>3
<1>15. ASSUME NEW t \in Threads, PopBlocking(t) PROVE Careful
  <2>1. flush' = flush /\ value' = value /\ t \in Workers
    BY <1>15, PopBlockingEffect DEF PopBlocking, LabelsOK, LabelOK
  <2>2. CASE pc'[t] = "popped"
    <3>1. TakesFromLane(hand'[t]) /\ place'[hand'[t]] = "cleared"
      BY <1>15, <2>2, PopBlockingEffect
    <3>2. PICK j : j \in Ready /\ Ready' \subseteq Ready \ {j}
      BY <3>1, ReadyAfter DEF TakesFromLane, Ready
    <3> QED BY <1>1, <1>15, <2>1, <2>2, <3>2, PopBlockingEffect, CarefulMove
  <2>3. CASE pc'[t] # "popped"
    <3>1. ~HasReadyJob /\ pc'[t] = "waiting" /\ place' = place
      BY <1>1, <1>15, <2>3, FunctionTypes DEF PopBlocking, PopTop, Goto
    <3>2. Ready' = {}
      BY <3>1, NothingReady DEF Ready
    <3>3. Zeroing => Zeroing'
      BY <1>15, PopBlockingEffect DEF Zeroing, ThreadsButOneUnchanged
    <3>4. FlushWakes'
      <4>1. FlushThread \in Threads \ {t}
        BY <2>1, ThreadsAssumption DEF Threads
      <4>2. pc'[FlushThread] = pc[FlushThread]
        BY <1>15, <4>1, PopBlockingEffect DEF ThreadsButOneUnchanged
      <4> QED BY <1>1, <2>1, <3>3, <4>2 DEF FlushWakes
    <3> QED BY <3>2, <3>3, <3>4 DEF Careful, Tally
  <2> QED BY <2>2, <2>3
<1>16. ASSUME NEW t \in Threads, RunPopped(t) PROVE Careful
  <2>1. \A i \in Jobs : place'[i] = "ready" => place[i] = "ready"
    BY <1>16, RunPoppedEffect DEF PlacesUnchangedBut
  <2>2. flush' = flush /\ value' = value
    BY <1>16, RunPoppedEffect DEF RunPopped
  <2>3. pc[t] = "popped" /\ pc'[t] \in {"stopped", "body"} /\ ThreadsButOneUnchanged(t)
    BY <1>16, RunPoppedEffect
  <2> QED BY <1>2, <2>1, <2>2, <2>3
<1>17. ASSUME FlushPop PROVE Careful
  <2>1. flush' = flush /\ value' = value /\ FlushThread \in Threads
    BY <1>17, FlushPopEffect DEF FlushPop
  <2>2. CASE pc'[FlushThread] = "idlewait"
    <3>1. place' = place
      BY <1>17, <2>2, FlushPopEffect
    <3>2. FlushThread \in Lookers => FlushThread \in Lookers'
      BY <1>17, <2>1, <2>2, FlushPopEffect, ThreadsAssumption DEF Lookers, Looker
    <3> QED BY <1>1, <1>17, <2>1, <2>2, <3>1, <3>2, FlushPopEffect, ReadyAfter, CarefulMove
  <2>3. CASE pc'[FlushThread] # "idlewait"
    <3>1. PICK j : TakesFromLane(j) /\ place'[j] # "ready"
      BY <1>17, <2>3, FlushPopEffect
    <3>2. j \in Ready /\ PlacesUnchangedBut({j})
      BY <3>1 DEF TakesFromLane, Ready
    <3>3. Ready' \subseteq Ready \ {j}
      BY <3>1, <3>2, ReadyAfter
    <3> QED BY <1>1, <1>17, <2>1, <3>2, <3>3, FlushPopEffect, CarefulMove
  <2> QED BY <2>2, <2>3
<1>18. ASSUME NEW t \in Threads, CloseQueues(t) PROVE Careful
  BY <1>1, <1>18, CloseQueuesEffect DEF LabelsOK, LabelOK
<1>19. ASSUME NEW t \in Threads, Signal(t) PROVE Careful
  <2>1. /\ pc[t] \in {"signal", "signalRelease", "signalRequeue"}
        /\ pc'[t] \notin {"waiting", "zeroed"}
        /\ UNCHANGED <<place, value, flush>>
    BY <1>19, SignalEffect DEF Caller, Idle
  <2>2. CASE \A u \in Threads \ {t} : pc'[u] = pc[u] /\ pc[u] # "waiting"
    <3>1. Zeroing => Zeroing'
      BY <2>1, <2>2 DEF Zeroing
    <3>2. ~Asleep'
      BY <2>1, <2>2 DEF Asleep, Threads
    <3>3. FlushWakes'
      BY <2>1, <2>2, ThreadsAssumption DEF FlushWakes, Threads
    <3> QED BY <3>1, <3>2, <3>3 DEF Careful, Tally
  <2>3. ASSUME NEW s \in Threads \ {t}, pc[s] = "waiting", pc'[s] = Woken(s),
               \A u \in Threads \ {s, t} : pc'[u] = pc[u]
        PROVE  Careful
    <3>1. pc'[s] \in {"pop", "head"} /\ s \notin Lookers
      BY <2>3, NoLooker DEF Woken
    <3>2. Zeroing => Zeroing'
      BY <2>1, <2>3 DEF Zeroing
    <3>3. Asleep' => Asleep
      BY <2>1, <2>3, <3>1 DEF Asleep, Threads
    <3>4. FlushWakes'
      <4>1. pc'[FlushThread] = "waiting" => pc[FlushThread] = "waiting"
        BY <2>1, <2>3, <3>1, ThreadsAssumption DEF Threads
      <4> QED BY <1>1, <2>1, <3>2, <4>1 DEF FlushWakes
    <3>5. Ready' \subseteq Ready
      BY <2>1, ReadyAfter
    <3>6. ASSUME NEW u \in Lookers, u # t PROVE u \in Lookers'
      <4>1. u \in Threads /\ pc'[u] = pc[u]
        BY <2>3, <3>1, <3>6 DEF Lookers
      <4> QED BY <2>1, <3>6, <4>1 DEF Lookers, Looker
    <3>7. s \in Lookers' \/ Zeroing'
      <4>1. CASE s \in Workers
        BY <2>3, <4>1 DEF Woken, Lookers, Looker
      <4>2. CASE s \notin Workers
        <5>1. s = FlushThread /\ pc'[s] = "head"
          BY <2>3, <4>2 DEF LabelsOK, LabelOK, Woken
        <5>2. CASE value[flush.target] = 0
          BY <1>1, <2>3, <3>2, <5>1, <5>2 DEF FlushWakes
        <5>3. CASE value[flush.target] # 0
          BY <2>1, <5>1, <5>3 DEF Lookers, Looker
        <5> QED BY <5>2, <5>3
      <4> QED BY <4>1, <4>2
    <3>8. Zeroing' \/ OneForOne
      BY <3>1, <3>5, <3>6, <3>7 DEF OneForOne
    <3> QED BY <3>2, <3>3, <3>4, <3>8 DEF Careful, Tally
  <2> QED BY <1>19, <2>2, <2>3, SignalEffect
<1>20. ASSUME NEW t \in Threads, AnnounceZero(t) PROVE Careful
  <2>1. \A u \in Threads : pc'[u] # "waiting"
    BY <1>1, <1>20, AnnounceEffect DEF Woken
  <2>2. ~Asleep' /\ FlushWakes'
    BY <2>1, ThreadsAssumption DEF Asleep, FlushWakes, Threads
  <2> QED BY <2>2 DEF Careful, Tally
<1>22. ASSUME NEW t \in Threads, SpuriousWake(t) \/ JoinWorkers(t) PROVE Careful
  <2>1. /\ pc[t] \in {"waiting", "join"} /\ pc'[t] # "waiting" /\ ThreadsButOneUnchanged(t)
        /\ UNCHANGED <<place, value, flush>>
    BY <1>22, FunctionTypes DEF SpuriousWake, JoinWorkers, Goto, Caller, Idle, jobVars,
       counterVars, ThreadsButOneUnchanged
  <2> QED BY <1>2, <2>1
<1>23. FlushThread \in Threads /\ FlushThread \notin Workers
  BY ThreadsAssumption DEF Threads
<1>24. CASE FlushHead
  <2>1. /\ pc[FlushThread] = "head" /\ ThreadsButOneUnchanged(FlushThread)
        /\ UNCHANGED <<place, value>>
        /\ \/ value[flush.target] = 0 /\ pc'[FlushThread] = "free"
           \/ value[flush.target] # 0 /\ pc'[FlushThread] = "trypop" /\ flush' = flush
    BY <1>23, <1>24, FunctionTypes DEF FlushHead, FlushReturns, IsZero, Goto, jobVars,
       counterVars, ThreadsButOneUnchanged
  <2>2. FlushThread \in Lookers => FlushThread \in Lookers'
    BY <1>23, <2>1 DEF Lookers, Looker
  <2> QED BY <1>1, <1>23, <2>1, <2>2, ReadyAfter, CarefulMove
<1>25. CASE FlushSleep
  <2>1. /\ pc[FlushThread] \in {"idlewait", "wakewait"} /\ ThreadsButOneUnchanged(FlushThread)
        /\ UNCHANGED <<place, value, flush>>
        /\ \/ pc'[FlushThread] = "head"
           \/ /\ value[flush.target] # 0 /\ pc'[FlushThread] = "waiting"
              /\ pc[FlushThread] = "idlewait" => ~HasReadyJob
    BY <1>23, <1>25, FunctionTypes DEF FlushSleep, IsZero, Goto, jobVars,
       counterVars, ThreadsButOneUnchanged
  <2>2. CASE pc'[FlushThread] = "head"
    <3>1. FlushThread \in Lookers => FlushThread \in Lookers'
      BY <1>23, <2>1, <2>2 DEF Lookers, Looker
    <3> QED BY <1>1, <1>23, <2>1, <2>2, <3>1, ReadyAfter, CarefulMove
  <2>3. CASE pc'[FlushThread] = "waiting"
    <3>1. FlushWakes' /\ (Zeroing => Zeroing') /\ (Asleep' => Asleep)
      BY <1>23, <2>1, <2>3 DEF FlushWakes, Zeroing, Asleep, ThreadsButOneUnchanged, Threads
    <3>2. CASE pc[FlushThread] = "idlewait"
      <4>1. Ready' = {}
        BY <2>1, <2>3, <3>2, NothingReady DEF Ready
      <4> QED BY <3>1, <4>1 DEF Careful, Tally
    <3>3. CASE pc[FlushThread] = "wakewait"
      <4>1. Ready' \subseteq Ready /\ FlushThread \notin Lookers
        BY <2>1, <3>3, ReadyAfter, NoLooker
      <4>2. ASSUME NEW u \in Lookers PROVE u \in Lookers'
        BY <2>1, <4>1, <4>2 DEF Lookers, Looker, ThreadsButOneUnchanged
      <4> QED BY <3>1, <4>1, <4>2 DEF Careful, Tally, SameTally
    <3> QED BY <2>1, <3>2, <3>3
  <2> QED BY <2>1, <2>2, <2>3
<1>26. CASE FlushWaitExpires
  <2>1. /\ pc[FlushThread] = "waiting" /\ pc'[FlushThread] = "head"
        /\ ThreadsButOneUnchanged(FlushThread)
        /\ UNCHANGED <<place, value, flush>>
    BY <1>23, <1>26, FunctionTypes DEF FlushWaitExpires, Goto, jobVars,
       counterVars, ThreadsButOneUnchanged
  <2> QED BY <1>2, <1>23, <2>1
<1>27. ASSUME NEW c, NEW kind, BeginFlush(c, kind) PROVE Careful
  <2>1. /\ pc[FlushThread] = "free" /\ pc'[FlushThread] = "head"
        /\ ThreadsButOneUnchanged(FlushThread)
        /\ UNCHANGED <<place, value>>
    BY <1>23, <1>27, FunctionTypes DEF BeginFlush, Goto, jobVars,
       counterVars, ThreadsButOneUnchanged
  <2> QED BY <1>2, <1>23, <2>1
<1>28. ASSUME NEW t \in Threads, QuietStep(t) PROVE Careful
  <2>1. ~BeginShutdown(t)
    BY DEF BeginShutdown
  <2> QED BY <1>19, <1>20, <1>22, <1>24, <1>25, <1>26, <1>27, <1>28, <2>1 DEF QuietStep
<1>29. CASE UNCHANGED vars
  <2>1. UNCHANGED <<place, value, pc, flush, shutdown>>
    BY <1>29 DEF vars
  <2>2. Ready' \subseteq Ready /\ Lookers \subseteq Lookers'
    BY <2>1 DEF Ready, Lookers, Looker
  <2>3. FlushWakes' /\ (Zeroing => Zeroing') /\ (Asleep' => Asleep)
    BY <2>1 DEF FlushWakes, Zeroing, Asleep
  <2> QED BY <2>2, <2>3 DEF Careful, Tally, SameTally
<1> QED
  BY <1>3, <1>4, <1>5, <1>6, <1>7, <1>9, <1>10, <1>11, <1>12, <1>13, <1>14, <1>15, <1>16,
     <1>17, <1>18, <1>28, <1>29, StepCases

-----------------------------------------------------------------------------
(* The flush that is under way *)

\* A flush is under way exactly while its answer is pending, a client that is
\* not inside it has none, and the units it was called for are finished or
\* still counted on its counter.
FlushOK ==
  /\ answer = "pending" <=> flush.target # NoCounter
  /\ pc[FlushThread] = "free" => flush.target = NoCounter
  /\ pc[FlushThread] \in {"close", "join"} /\ running[FlushThread] = NoJob =>
       flush.target = NoCounter
  /\ flush.target # NoCounter => awaited \subseteq Finished \cup Outstanding(flush.target)

\* What the steps do to the flush.
FlushGoesOn ==
  /\ UNCHANGED flushVars
  /\ pc'[FlushThread] = "free" => pc[FlushThread] = "free" \/ flush.target = NoCounter
  /\ pc'[FlushThread] \in {"close", "join"} =>
       /\ running'[FlushThread] = running[FlushThread]
       /\ \/ pc[FlushThread] \in {"close", "join", "free"}
          \/ running[FlushThread] # NoJob
FlushEnds ==
  /\ flush' = NoFlush /\ awaited' = {} /\ answer' \in {"none", "true", "false"}
  /\ pc'[FlushThread] \in {"free", "panicked"}
FlushBegins == \E c \in Counters :
  /\ flush'.target = c /\ awaited' = Outstanding(c) /\ answer' = "pending"
  /\ UNCHANGED <<place, deferral, decl>>
  /\ pc'[FlushThread] = "head"

LEMMA FlushGoesOnForOne ==
  ASSUME NEW t, ThreadsButOneUnchanged(t), UNCHANGED flushVars,
         \/ t # FlushThread
         \/ pc'[t] \notin {"free", "close", "join"}
         \/ pc'[t] \in {Idle(t), Caller(t)}
         \/ pc'[t] = pc[t] /\ running'[t] = running[t]
         \/ pc[t] = "close" /\ pc'[t] = "join" /\ running'[t] = running[t]
  PROVE  FlushGoesOn
<1>1. FlushThread \in Threads /\ FlushThread \notin Workers
  BY ThreadsAssumption DEF Threads
<1>2. CASE t # FlushThread
  BY <1>1, <1>2 DEF FlushGoesOn, ThreadsButOneUnchanged
<1>3. CASE t = FlushThread
  BY <1>1, <1>3 DEF FlushGoesOn, Idle, Caller
<1> QED BY <1>2, <1>3

\* Whatever a step does, it is one of the three.
LEMMA FlushEffects ==
  ASSUME Inductive, [Next]_vars
  PROVE  FlushGoesOn \/ FlushEnds \/ FlushBegins
<1>3. ASSUME NEW t \in Threads, NEW j \in Jobs, Dispatch(t, j) PROVE FlushGoesOn
  BY <1>3, DispatchEffect, FlushGoesOnForOne DEF Dispatch
<1>4. ASSUME NEW t \in Threads, TestWait(t) PROVE FlushGoesOn
  BY <1>4, TestWaitEffect, FlushGoesOnForOne DEF TestWait
<1>5. ASSUME NEW t \in Threads, Park(t) PROVE FlushGoesOn
  BY <1>5, ParkEffect, FlushGoesOnForOne DEF Park
<1>6. ASSUME NEW t \in Threads, Push(t) PROVE FlushGoesOn
  BY <1>6, PushEffect, FlushGoesOnForOne DEF Push
<1>7. ASSUME NEW t \in Threads, Panic(t) PROVE FlushGoesOn \/ FlushEnds
  <2>1. CASE UNCHANGED flushVars
    BY <1>7, <2>1, PanicEffect, FlushGoesOnForOne
  <2>2. CASE t = FlushThread /\ flush' = NoFlush /\ awaited' = {} /\ answer' = "none"
    BY <1>7, <2>2, PanicEffect DEF FlushEnds
  <2> QED BY <1>7, <2>1, <2>2 DEF Panic
<1>8. ASSUME NEW t \in Threads, FinishBody(t) PROVE FlushGoesOn
  BY <1>8, FinishBodyEffect, FlushGoesOnForOne DEF FinishBody
<1>9. ASSUME NEW t \in Threads, NEW d \in Deferrals, CreateDeferral(t, d) PROVE FlushGoesOn
  BY <1>9 DEF CreateDeferral, threadVars, FlushGoesOn
<1>10. ASSUME NEW t \in Threads, NEW d \in Deferrals, FinishDeferral(t, d) PROVE FlushGoesOn
  BY <1>10, FinishDeferralEffect, FlushGoesOnForOne DEF FinishDeferral
<1>11. ASSUME NEW t \in Threads, DrainWaiting(t) PROVE FlushGoesOn
  BY <1>11, DrainWaitingEffect, FlushGoesOnForOne DEF DrainWaiting
<1>12. ASSUME NEW t \in Threads, ReleaseOne(t) PROVE FlushGoesOn
  BY <1>12, ReleaseOneEffect, FlushGoesOnForOne DEF ReleaseOne
<1>13. ASSUME NEW t \in Threads, ReleaseEnds(t) PROVE FlushGoesOn
  BY <1>13, ReleaseEndsEffect, FlushGoesOnForOne DEF ReleaseEnds
<1>14. ASSUME NEW t \in Threads, PopBlocking(t) PROVE FlushGoesOn
  BY <1>14, PopBlockingEffect, FlushGoesOnForOne DEF PopBlocking
<1>15. ASSUME NEW t \in Threads, RunPopped(t) PROVE FlushGoesOn
  BY <1>15, RunPoppedEffect, FlushGoesOnForOne DEF RunPopped
<1>16. ASSUME FlushPop PROVE FlushGoesOn
  BY <1>16, FlushPopEffect, FlushGoesOnForOne DEF FlushPop
<1>17. FlushThread \in Threads /\ FlushThread \notin Workers
  BY ThreadsAssumption DEF Threads
<1>18. ASSUME NEW t \in Threads, CloseQueues(t) PROVE FlushGoesOn
  <2>1. UNCHANGED flushVars
    BY <1>18 DEF CloseQueues
  <2> QED BY <1>17, <1>18, <2>1, CloseQueuesEffect DEF FlushGoesOn, Woken
<1>19. ASSUME NEW t \in Threads, Signal(t) PROVE FlushGoesOn
  <2>1. UNCHANGED flushVars /\ running' = running
    BY <1>19 DEF Signal
  <2>2. t = FlushThread => pc'[FlushThread] \in {Caller(FlushThread), "release", "wakewait"}
    BY <1>19, SignalEffect
  <2>3. t # FlushThread => pc'[FlushThread] \in {pc[FlushThread], "head"}
    BY <1>17, <1>19, SignalEffect DEF Woken
  <2> QED BY <1>17, <2>1, <2>2, <2>3 DEF FlushGoesOn, Caller, Idle
<1>20. ASSUME NEW t \in Threads, AnnounceZero(t) PROVE FlushGoesOn
  <2>1. UNCHANGED flushVars /\ running' = running
    BY <1>20 DEF AnnounceZero
  <2>2. t = FlushThread => pc'[FlushThread] \in {Caller(FlushThread), "drain"}
    BY <1>20, AnnounceEffect
  <2>3. t # FlushThread => pc'[FlushThread] \in {pc[FlushThread], "head"}
    BY <1>17, <1>20, AnnounceEffect DEF Woken
  <2> QED BY <1>17, <2>1, <2>2, <2>3 DEF FlushGoesOn, Caller, Idle
<1>21. ASSUME NEW t \in Threads, SpuriousWake(t) \/ JoinWorkers(t) PROVE FlushGoesOn
  <2>1. /\ UNCHANGED flushVars /\ running' = running
        /\ t # FlushThread => pc'[FlushThread] = pc[FlushThread]
        /\ t = FlushThread => pc'[FlushThread] = Caller(FlushThread)
    BY <1>17, <1>21, FunctionTypes DEF SpuriousWake, JoinWorkers, Goto
  <2> QED BY <1>17, <2>1 DEF FlushGoesOn, Caller, Idle
<1>22. ASSUME NEW t \in Threads, BeginShutdown(t) PROVE FlushGoesOn
  <2>1. /\ UNCHANGED flushVars /\ running' = running
        /\ t # FlushThread => pc'[FlushThread] = pc[FlushThread]
        /\ t = FlushThread => pc'[FlushThread] = "close" /\ pc[FlushThread] \in {"free", "body"}
    BY <1>17, <1>22, FunctionTypes DEF BeginShutdown, Goto, InUserCode
  <2>2. pc[FlushThread] = "body" => running[FlushThread] # NoJob
    BY <1>17 DEF Inductive, ThreadsOK, ThreadOK
  <2> QED BY <2>1, <2>2 DEF FlushGoesOn
<1>23. CASE FlushHead
  <2>1. CASE UNCHANGED flushVars
    <3>1. pc'[FlushThread] = "trypop" \/ (pc'[FlushThread] = "free" /\ flush = NoFlush)
      BY <1>17, <1>23, <2>1, FunctionTypes DEF FlushHead, FlushReturns, Goto, flushVars
    <3> QED BY <2>1, <3>1 DEF FlushGoesOn, NoFlush
  <2>2. CASE ~UNCHANGED flushVars
    BY <1>17, <1>23, <2>2, FunctionTypes DEF FlushHead, FlushReturns, Goto, FlushEnds
  <2> QED BY <2>1, <2>2
<1>24. CASE FlushSleep \/ FlushWaitExpires
  <2>1. UNCHANGED flushVars /\ pc'[FlushThread] \in {"head", "waiting"}
    BY <1>17, <1>24, FunctionTypes DEF FlushSleep, FlushWaitExpires, Goto
  <2> QED BY <2>1 DEF FlushGoesOn
<1>25. ASSUME NEW c \in Counters, NEW kind \in FlushKinds, BeginFlush(c, kind) PROVE FlushBegins
  BY <1>17, <1>25, FunctionTypes DEF BeginFlush, FlushBegins, Goto, jobVars
<1>26. ASSUME NEW t \in Threads, QuietStep(t) PROVE FlushGoesOn \/ FlushEnds \/ FlushBegins
  BY <1>19, <1>20, <1>21, <1>22, <1>23, <1>24, <1>25, <1>26 DEF QuietStep
<1>27. CASE UNCHANGED vars
  BY <1>27 DEF vars, FlushGoesOn, flushVars
<1> QED
  BY <1>3, <1>4, <1>5, <1>6, <1>7, <1>8, <1>9, <1>10, <1>11, <1>12, <1>13, <1>14, <1>15,
     <1>16, <1>18, <1>26, <1>27, StepCases

\* The inductive step of FlushOK.
LEMMA FlushStepOK ==
  ASSUME Inductive, FlushOK, [Next]_vars
  PROVE  FlushOK'
<1>1. CASE FlushGoesOn
  <2>1. PICK c : c = flush.target
    OBVIOUS
  <2>2. UNCHANGED <<flush, awaited, answer>> /\ flush'.target = c
    BY <1>1, <2>1 DEF FlushGoesOn, flushVars
  <2>3. c # NoCounter => awaited' \subseteq Finished' \cup Outstanding(c)'
    BY <2>1, <2>2, FinishedGrows DEF FlushOK
  <2>4. (Outstanding(flush.target))' = Outstanding(c)'
    BY <2>2 DEF Outstanding
  <2> QED BY <1>1, <2>1, <2>2, <2>3, <2>4 DEF FlushOK, FlushGoesOn
<1>2. CASE FlushEnds
  BY <1>2 DEF FlushEnds, FlushOK, NoFlush
<1>3. CASE FlushBegins
  <2>1. PICK c \in Counters :
          /\ flush'.target = c /\ awaited' = Outstanding(c) /\ answer' = "pending"
          /\ UNCHANGED <<place, deferral, decl>> /\ pc'[FlushThread] = "head"
    BY <1>3 DEF FlushBegins
  <2>2. (Outstanding(flush.target))' = Outstanding(c)
    BY <2>1 DEF Outstanding
  <2> QED BY <2>1, <2>2, NamesAssumption DEF FlushOK
<1> QED BY <1>1, <1>2, <1>3, FlushEffects

-----------------------------------------------------------------------------
(* The contract *)

\* The phase of a unit, and what the contract calls finished and open.
LEMMA PhaseFacts ==
  ASSUME Inductive
  PROVE  /\ \A j \in Jobs : j \in Units /\ UnitPhase[j] = JobPhase(place[j])
         /\ \A d \in Deferrals : /\ d \in Units /\ d \notin Jobs
                                 /\ UnitPhase[d] = DeferralPhase(deferral[d])
         /\ \A j \in Jobs :
              /\ UnitPhase[j] = "new" <=> place[j] = "new"
              /\ UnitPhase[j] = "open" <=> place[j] \in {"counted", "parked", "cleared", "ready"}
              /\ UnitPhase[j] = "running" <=> place[j] = "running"
              /\ UnitPhase[j] = "finished" <=> place[j] = "done"
         /\ \A d \in Deferrals :
              /\ UnitPhase[d] = "new" <=> deferral[d] = "unused"
              /\ UnitPhase[d] = "open" <=> deferral[d] = "held"
              /\ UnitPhase[d] = "finished" <=> deferral[d] = "finished"
<1>1. /\ \A j \in Jobs : j \in Units /\ UnitPhase[j] = JobPhase(place[j])
      /\ \A d \in Deferrals : /\ d \in Units /\ d \notin Jobs
                              /\ UnitPhase[d] = DeferralPhase(deferral[d])
  BY NamesAssumption DEF Units, UnitPhase
<1>2. ASSUME NEW j \in Jobs
      PROVE  /\ UnitPhase[j] = "new" <=> place[j] = "new"
             /\ UnitPhase[j] = "open" <=> place[j] \in {"counted", "parked", "cleared", "ready"}
             /\ UnitPhase[j] = "running" <=> place[j] = "running"
             /\ UnitPhase[j] = "finished" <=> place[j] = "done"
  <2>1. place[j] \in Places
    BY FunctionTypes
  <2> QED BY <1>1, <2>1 DEF Places, JobPhase
<1>3. ASSUME NEW d \in Deferrals
      PROVE  /\ UnitPhase[d] = "new" <=> deferral[d] = "unused"
             /\ UnitPhase[d] = "open" <=> deferral[d] = "held"
             /\ UnitPhase[d] = "finished" <=> deferral[d] = "finished"
  <2>1. deferral[d] \in {"unused", "held", "finished"}
    BY FunctionTypes
  <2> QED BY <1>1, <2>1 DEF DeferralPhase
<1> QED BY <1>1, <1>2, <1>3

LEMMA ContractSets ==
  ASSUME Inductive
  PROVE  /\ Contract!Finished = Finished
         /\ \A c : Outstanding(c) \subseteq Contract!Open
<1>1. \A u : u \in Contract!Finished <=> u \in Finished
  BY PhaseFacts DEF Contract!Finished, Contract!Units, Finished, Units
<1>2. ASSUME NEW j \in Jobs, place[j] \notin {"new", "done"}
      PROVE  UnitPhase[j] \in {"open", "running", "lost"}
  <2>1. place[j] \in Places
    BY FunctionTypes
  <2> QED BY <1>2, <2>1, PhaseFacts DEF Places, JobPhase
<1>3. \A c : Outstanding(c) \subseteq Contract!Open
  BY <1>2, PhaseFacts DEF Contract!Open, Contract!Units, Units, Outstanding
<1> QED BY <1>1, <1>3

\* A step that moves one job, or one deferral, changes one phase.
LEMMA OneJobMoves ==
  ASSUME NEW x \in Jobs, PlacesUnchangedBut({x}), deferral' = deferral
  PROVE  UnitPhase' = [UnitPhase EXCEPT ![x] = JobPhase(place'[x])]
BY DEF UnitPhase, PlacesUnchangedBut, Units

LEMMA PhasesStay ==
  ASSUME deferral' = deferral, \A j \in Jobs : JobPhase(place'[j]) = JobPhase(place[j])
  PROVE  UnitPhase' = UnitPhase
BY DEF UnitPhase

LEMMA OneDeferralMoves ==
  ASSUME Inductive, NEW d \in Deferrals, NEW p, deferral' = [deferral EXCEPT ![d] = p],
         place' = place
  PROVE  UnitPhase' = [UnitPhase EXCEPT ![d] = DeferralPhase(p)]
<1>1. d \notin Jobs /\ d \in Units
  BY NamesAssumption DEF Units
<1>2. \A e \in Units \ Jobs : deferral'[e] = IF e = d THEN p ELSE deferral[e]
  BY FunctionTypes DEF Units
<1>3. ASSUME NEW u \in Units
      PROVE  UnitPhase'[u] = IF u = d THEN DeferralPhase(p) ELSE UnitPhase[u]
  <2>1. /\ UnitPhase'[u] = IF u \in Jobs THEN JobPhase(place'[u]) ELSE DeferralPhase(deferral'[u])
        /\ UnitPhase[u] = IF u \in Jobs THEN JobPhase(place[u]) ELSE DeferralPhase(deferral[u])
    BY DEF UnitPhase
  <2>2. CASE u \in Jobs
    BY <1>1, <2>1, <2>2
  <2>3. CASE u \notin Jobs
    <3>1. deferral'[u] = IF u = d THEN p ELSE deferral[u]
      BY <1>2, <2>3
    <3> QED BY <2>1, <2>3, <3>1
  <2> QED BY <2>2, <2>3
<1>4. /\ UnitPhase = [u \in Units |-> UnitPhase[u]]
      /\ UnitPhase' = [u \in Units |-> UnitPhase'[u]]
  BY DEF UnitPhase
<1> QED BY <1>3, <1>4

\* The jobs of a set are lost together.
LEMMA JobsLost ==
  ASSUME NEW S, S \subseteq Jobs, deferral' = deferral,
         \A j \in S : place[j] \in {"counted", "parked", "cleared", "ready", "running"},
         \A j \in S : place'[j] = "dropped", PlacesUnchangedBut(S),
         UNCHANGED before,
         \/ UNCHANGED <<awaited, answer>>
         \/ awaited' = {} /\ answer' = "none" /\ S # {}
  PROVE  [Contract!Next]_(Contract!vars)
<1>1. CASE S = {}
  <2>1. UnitPhase' = UnitPhase
    BY <1>1, PhasesStay DEF PlacesUnchangedBut
  <2> QED BY <1>1, <2>1 DEF Contract!vars
<1>2. CASE S # {}
  <2>1. \A j \in S : UnitPhase[j] \in {"open", "running"}
    BY DEF UnitPhase, Units, JobPhase
  <2>2. ASSUME NEW u \in Units
        PROVE  UnitPhase'[u] = IF u \in S THEN "lost" ELSE UnitPhase[u]
    <3>1. UnitPhase'[u] = IF u \in Jobs THEN JobPhase(place'[u]) ELSE DeferralPhase(deferral'[u])
      BY DEF UnitPhase
    <3>2. CASE u \in S
      BY <3>1, <3>2 DEF JobPhase
    <3>3. CASE u \notin S
      BY <3>1, <3>3 DEF UnitPhase, PlacesUnchangedBut
    <3> QED BY <3>2, <3>3
  <2>3. UnitPhase' = [u \in Contract!Units |-> IF u \in S THEN "lost" ELSE UnitPhase[u]]
    BY <2>2 DEF UnitPhase, Contract!Units, Units
  <2>4. Contract!Lose(S)
    BY <1>2, <2>1, <2>3 DEF Contract!Lose
  <2> QED BY <2>4 DEF Contract!Next
<1> QED BY <1>1, <1>2

\* A step that only moves jobs between queues and hands is none of the contract.
LEMMA NoPhaseChanges ==
  ASSUME deferral' = deferral, UNCHANGED <<before, awaited, answer>>,
         \A j \in Jobs : JobPhase(place'[j]) = JobPhase(place[j])
  PROVE  [Contract!Next]_(Contract!vars)
BY PhasesStay DEF Contract!vars

LEMMA OneJobStaysOpen ==
  ASSUME NEW x, PlacesUnchangedBut({x}), deferral' = deferral,
         UNCHANGED <<before, awaited, answer>>,
         place[x] \in {"counted", "parked", "cleared", "ready"},
         place'[x] \in {"counted", "parked", "cleared", "ready"}
  PROVE  [Contract!Next]_(Contract!vars)
<1>1. JobPhase(place[x]) = "open" /\ JobPhase(place'[x]) = "open"
  BY DEF JobPhase
<1> QED BY <1>1, NoPhaseChanges DEF PlacesUnchangedBut

LEMMA OneJobStarts ==
  ASSUME Inductive, NEW x \in Jobs, PlacesUnchangedBut({x}), deferral' = deferral,
         UNCHANGED <<before, awaited, answer>>,
         place[x] \in {"cleared", "ready"}, place'[x] = "running"
  PROVE  [Contract!Next]_(Contract!vars)
<1>1. UnitPhase[x] = "open" /\ JobPhase(place'[x]) = "running"
  BY PhaseFacts DEF JobPhase
<1>2. before[x] \subseteq Contract!Finished
  BY ContractSets DEF Inductive, DependencyOrder
<1>3. UnitPhase' = [UnitPhase EXCEPT ![x] = "running"]
  BY <1>1, OneJobMoves
<1>4. Contract!Start(x)
  BY <1>1, <1>2, <1>3 DEF Contract!Start
<1> QED BY <1>4 DEF Contract!Next

\* Every step of the runtime is a step of the contract or none of its business.
LEMMA ContractStep ==
  ASSUME Inductive, LabelsOK, FlushOK, [Next]_vars
  PROVE  [Contract!Next]_(Contract!vars)
<1> USE DEF flushVars
<1> DEFINE Goal == [Contract!Next]_(Contract!vars)
<1>3. ASSUME NEW t \in Threads, NEW j \in Jobs, Dispatch(t, j) PROVE Goal
  <2> DEFINE B == IF decl[j].wait = NoCounter THEN {} ELSE Outstanding(decl[j].wait)
  <2>1. B \in SUBSET Contract!Open /\ before' = [before EXCEPT ![j] = B]
    BY <1>3, ContractSets DEF Dispatch
  <2>2. UnitPhase[j] = "new" /\ UnitPhase' = [UnitPhase EXCEPT ![j] = "open"]
    <3>1. /\ place[j] = "new" /\ place'[j] = "counted"
          /\ PlacesUnchangedBut({j}) /\ deferral' = deferral
      BY <1>3, DispatchEffect
    <3>2. JobPhase("counted") = "open" /\ UnitPhase[j] = "new"
      BY <3>1, PhaseFacts DEF JobPhase
    <3> QED BY <3>1, <3>2, OneJobMoves
  <2>3. UNCHANGED <<awaited, answer>>
    BY <1>3 DEF Dispatch
  <2> HIDE DEF B
  <2>4. Contract!DispatchJob(j)
    BY <2>1, <2>2, <2>3 DEF Contract!DispatchJob
  <2> QED BY <2>4 DEF Contract!Next
<1>4. ASSUME NEW t \in Threads, TestWait(t) PROVE Goal
  <2>1. UNCHANGED <<before, awaited, answer, deferral>>
    BY <1>4 DEF TestWait
  <2>2. PlacesUnchangedBut({hand[t]}) /\ place[hand[t]] = "counted"
    BY <1>4, TestWaitEffect
  <2>3. place'[hand[t]] \in {"counted", "cleared"}
    BY <1>4, TestWaitEffect
  <2> QED BY <2>1, <2>2, <2>3, OneJobStaysOpen
<1>5. ASSUME NEW t \in Threads, Park(t) PROVE Goal
  <2>1. UNCHANGED <<before, awaited, answer, deferral>>
    BY <1>5 DEF Park
  <2> QED BY <1>5, <2>1, ParkEffect, OneJobStaysOpen
<1>6. ASSUME NEW t \in Threads, Push(t) PROVE Goal
  <2>1. UNCHANGED <<before, awaited, answer, deferral>>
    BY <1>6 DEF Push
  <2> QED BY <1>6, <2>1, PushEffect, OneJobStaysOpen
<1>7. ASSUME NEW t \in Threads, Panic(t), pc[t] \in {"push", "requeue", "release", "join"},
             pc[t] = "release" => batch[t] # <<>>
      PROVE  Goal
  <2> DEFINE S == Owned(t)
  <2>1. \A x \in S : x \in Jobs /\ place[x] \in {"counted", "cleared", "running"}
    BY HandPlace DEF Owned
  <2>2. /\ \A x \in S : place'[x] = "dropped"
        /\ PlacesUnchangedBut(S) /\ deferral' = deferral /\ before' = before
    BY <1>7, <2>1, PanicEffect
  <2>3. \/ UNCHANGED <<awaited, answer>>
        \/ awaited' = {} /\ answer' = "none" /\ t = FlushThread /\ flush.target # NoCounter
    BY <1>7 DEF Panic
  <2>4. t = FlushThread /\ flush.target # NoCounter => S # {}
    <3>1. SUFFICES ASSUME t = FlushThread, flush.target # NoCounter PROVE S # {}
      OBVIOUS
    <3>2. CASE pc[t] = "join"
      BY <3>1, <3>2 DEF FlushOK, Owned
    <3>3. CASE pc[t] \in {"push", "requeue"}
      BY <3>3, NamesAssumption DEF Owned, Inductive, ThreadsOK, ThreadOK
    <3>4. CASE pc[t] = "release"
      <4>1. batch[t] \in Seq(Jobs) /\ batch[t] # <<>>
        BY <1>7, <3>4, FunctionTypes
      <4>2. Head(batch[t]) \in Jobs /\ batch[t][1] = Head(batch[t]) /\ 1 \in 1 .. Len(batch[t])
        BY <4>1
      <4>3. Head(batch[t]) \in Range(batch[t])
        BY <4>1, <4>2, SeqFacts
      <4> QED BY <4>2, <4>3, NamesAssumption DEF Owned
    <3> QED BY <1>7, <3>2, <3>3, <3>4
  <2> HIDE DEF S
  <2> QED BY <2>1, <2>2, <2>3, <2>4, JobsLost
<1>8. ASSUME NEW t \in Threads, FinishBody(t) PROVE Goal
  <2>1. PICK x : x = running[t]
    OBVIOUS
  <2>2. /\ x \in Jobs /\ place[x] = "running" /\ place'[x] = "done" /\ PlacesUnchangedBut({x})
        /\ UNCHANGED <<before, awaited, answer, deferral>>
    <3>1. UNCHANGED <<before, awaited, answer, deferral>>
      BY <1>8 DEF FinishBody
    <3>2. /\ x \in Jobs /\ place[x] = "running" /\ place'[x] = "done"
          /\ PlacesUnchangedBut({x})
      BY <1>8, <2>1, FinishBodyEffect
    <3> QED BY <3>1, <3>2
  <2>3. UnitPhase[x] = "running" /\ UnitPhase' = [UnitPhase EXCEPT ![x] = "finished"]
    BY <2>2, PhaseFacts, OneJobMoves DEF JobPhase
  <2>4. Contract!Finish(x) /\ x \in Contract!Units
    BY <2>2, <2>3 DEF Contract!Finish, Contract!Units
  <2> QED BY <2>4 DEF Contract!Next
<1>9. ASSUME NEW t \in Threads, NEW d \in Deferrals, CreateDeferral(t, d) PROVE Goal
  <2>1. /\ deferral[d] = "unused" /\ deferral' = [deferral EXCEPT ![d] = "held"]
        /\ UNCHANGED <<place, before, awaited, answer>>
    BY <1>9 DEF CreateDeferral, jobVars
  <2>2. UnitPhase[d] = "new" /\ UnitPhase' = [UnitPhase EXCEPT ![d] = "open"]
    BY <2>1, PhaseFacts, OneDeferralMoves DEF DeferralPhase
  <2>3. Contract!OpenDeferral(d)
    BY <2>1, <2>2 DEF Contract!OpenDeferral
  <2> QED BY <2>3 DEF Contract!Next
<1>10. ASSUME NEW t \in Threads, NEW d \in Deferrals, FinishDeferral(t, d) PROVE Goal
  <2>1. /\ deferral[d] = "held" /\ deferral' = [deferral EXCEPT ![d] = "finished"]
        /\ UNCHANGED <<place, before, awaited, answer>>
    BY <1>10 DEF FinishDeferral, jobVars
  <2>2. UnitPhase[d] = "open" /\ UnitPhase' = [UnitPhase EXCEPT ![d] = "finished"]
    BY <2>1, PhaseFacts, OneDeferralMoves DEF DeferralPhase
  <2>3. Contract!Finish(d) /\ d \in Contract!Units
    BY <2>1, <2>2, NamesAssumption DEF Contract!Finish, Contract!Units
  <2> QED BY <2>3 DEF Contract!Next
<1>11. ASSUME NEW t \in Threads, DrainWaiting(t) PROVE Goal
  <2> DEFINE w == waiting[zeroed[t]]
  <2>1. UNCHANGED <<before, awaited, answer, deferral>>
    BY <1>11 DEF DrainWaiting
  <2>2. /\ zeroed[t] \in Counters /\ w \in Seq(Jobs)
    BY <1>11, DrainWaitingEffect
  <2>3. \A x \in Range(w) : place[x] = "parked"
    BY <2>2 DEF Inductive, QueuesOK, Range
  <2>4. \/ place' = place
        \/ place' = [j \in Jobs |-> IF j \in Range(w) THEN "cleared" ELSE place[j]]
    BY <1>11 DEF DrainWaiting
  <2> HIDE DEF w
  <2>5. \A j \in Jobs : JobPhase(place'[j]) = JobPhase(place[j])
    BY <2>3, <2>4 DEF JobPhase
  <2> QED BY <2>1, <2>5, NoPhaseChanges
<1>12. ASSUME NEW t \in Threads, ReleaseOne(t) PROVE Goal
  <2>1. PICK j : j = batch[t][Len(batch[t])]
    OBVIOUS
  <2>2. place[j] = "cleared" /\ place'[j] = "ready" /\ PlacesUnchangedBut({j})
    BY <1>12, <2>1, ReleaseOneEffect
  <2>3. UNCHANGED <<before, awaited, answer, deferral>>
    BY <1>12 DEF ReleaseOne
  <2> QED BY <2>2, <2>3, OneJobStaysOpen
<1>13. ASSUME NEW t \in Threads, ReleaseEnds(t) PROVE Goal
  <2>1. \A x \in Range(batch[t]) : x \in Jobs /\ place[x] = "cleared"
    BY HandPlace
  <2>2. /\ \A x \in Range(batch[t]) : place'[x] = "dropped"
        /\ PlacesUnchangedBut(Range(batch[t]))
    BY <1>13, ReleaseEndsEffect
  <2>3. UNCHANGED <<before, awaited, answer, deferral>>
    BY <1>13 DEF ReleaseEnds
  <2> QED BY <2>1, <2>2, <2>3, JobsLost
<1>14. ASSUME NEW t \in Threads, PopBlocking(t) PROVE Goal
  <2>1. UNCHANGED <<before, awaited, answer, deferral>>
    BY <1>14 DEF PopBlocking
  <2> QED BY <1>14, <2>1, PopBlockingEffect, OneJobStaysOpen, NoPhaseChanges DEF TakesFromLane
<1>15. ASSUME NEW t \in Threads, RunPopped(t) PROVE Goal
  <2>1. UNCHANGED <<before, awaited, answer, deferral>>
    BY <1>15 DEF RunPopped
  <2>2. hand[t] \in Jobs /\ place[hand[t]] = "cleared" /\ PlacesUnchangedBut({hand[t]})
    BY <1>15, RunPoppedEffect
  <2>3. CASE place'[hand[t]] = "running"
    BY <2>1, <2>2, <2>3, OneJobStarts
  <2>4. CASE place'[hand[t]] = "dropped"
    BY <2>1, <2>2, <2>4, JobsLost
  <2> QED BY <1>15, <2>3, <2>4, RunPoppedEffect
<1>16. ASSUME FlushPop PROVE Goal
  <2>1. UNCHANGED <<before, awaited, answer, deferral>>
    BY <1>16 DEF FlushPop
  <2> QED BY <1>16, <2>1, FlushPopEffect, OneJobStaysOpen, OneJobStarts, NoPhaseChanges
          DEF TakesFromLane
<1>17. ASSUME NEW t \in Threads, CloseQueues(t) PROVE Goal
  <2> DEFINE S == {j \in Jobs : place[j] = "ready"}
  <2>1. UNCHANGED <<before, awaited, answer, deferral>>
    BY <1>17 DEF CloseQueues
  <2>2. /\ \A j \in S : j \in Jobs /\ place[j] = "ready" /\ place'[j] = "dropped"
        /\ PlacesUnchangedBut(S)
    BY <1>17, CloseQueuesEffect DEF PlacesUnchangedBut
  <2> HIDE DEF S
  <2> QED BY <2>1, <2>2, JobsLost
<1>18. ASSUME NEW t \in Threads, QuietStep(t) PROVE Goal
  <2>1. UNCHANGED <<place, before, deferral>>
    BY <1>18, QuietEffect DEF Quiet
  <2>2. UnitPhase' = UnitPhase
    BY <2>1, PhasesStay
  <2>3. CASE UNCHANGED <<awaited, answer>>
    BY <2>1, <2>2, <2>3 DEF Contract!vars
  <2>4. CASE FlushHead
    <3>1. pc[FlushThread] = "head" /\ FlushThread \in Threads
      BY <2>4, ThreadsAssumption DEF FlushHead, Threads
    <3>2. flush.target \in Counters /\ answer = "pending"
      BY <3>1, NamesAssumption DEF LabelsOK, LabelOK, FlushLabels, FlushOK
    <3>3. CASE IsZero(flush.target) /\ FlushReturns("true")
      <4>1. Cardinality(Outstanding(flush.target)) = 0
        BY <3>2, <3>3 DEF IsZero, Inductive, CounterConservation
      <4>2. Outstanding(flush.target) = {}
        BY <4>1, OutstandingFinite, FS_EmptySet
      <4>3. awaited \subseteq Contract!Finished
        BY <3>2, <4>2, ContractSets, NamesAssumption DEF FlushOK
      <4>4. Contract!FlushResolved
        BY <2>1, <2>2, <3>2, <3>3, <4>3 DEF Contract!FlushResolved, FlushReturns
      <4> QED BY <4>4 DEF Contract!Next
    <3>4. CASE FlushReturns("false")
      <4>1. Contract!FlushTimedOut
        BY <2>1, <2>2, <3>2, <3>4 DEF Contract!FlushTimedOut, FlushReturns
      <4> QED BY <4>1 DEF Contract!Next
    <3> QED BY <2>3, <2>4, <3>3, <3>4 DEF FlushHead
  <2>5. ASSUME NEW c \in Counters, NEW kind \in FlushKinds, BeginFlush(c, kind) PROVE Goal
    <3>1. answer # "pending"
      BY <2>5 DEF BeginFlush, FlushOK
    <3>2. Outstanding(c) \in SUBSET Contract!Open
      BY ContractSets
    <3>3. Contract!BeginFlush(Outstanding(c))
      BY <2>1, <2>2, <2>5, <3>1 DEF Contract!BeginFlush, BeginFlush
    <3> QED BY <3>2, <3>3 DEF Contract!Next
  <2>6. \/ UNCHANGED <<awaited, answer>> \/ FlushHead
        \/ \E c \in Counters, kind \in FlushKinds : BeginFlush(c, kind)
    BY <1>18 DEF QuietStep, Signal, AnnounceZero, SpuriousWake, JoinWorkers, BeginShutdown,
       FlushSleep, FlushWaitExpires
  <2> QED BY <2>3, <2>4, <2>5, <2>6
<1>19. CASE UNCHANGED vars
  <2>1. UNCHANGED <<place, before, deferral, awaited, answer>>
    BY <1>19 DEF vars
  <2> QED BY <2>1, NoPhaseChanges
<1> QED
  BY <1>3, <1>4, <1>5, <1>6, <1>7, <1>8, <1>9, <1>10, <1>11, <1>12, <1>13, <1>14, <1>15,
     <1>16, <1>17, <1>18, <1>19, StepCases

-----------------------------------------------------------------------------
(* The theorems *)

LEMMA WakeupsInitially == Init => Wakeups
<1> SUFFICES ASSUME Init PROVE Wakeups
  OBVIOUS
<1>1. \A t \in Threads : pc[t] = IF t \in Workers THEN "pop" ELSE "free"
  BY DEF Init
<1>2. LabelsOK
  BY <1>1 DEF LabelsOK, LabelOK, FlushLabels
<1>3. NoSilentLoss /\ StopOK /\ Lined
  BY DEF Init, NoSilentLoss, StopOK, Lined, Ready
<1>4. TimedOK
  BY DEF Init, TimedOK, NoFlush
<1>5. FlushWakes
  BY <1>1, ThreadsAssumption DEF FlushWakes, Threads
<1>6. Balanced
  BY <1>1 DEF Balanced, Asleep, Threads
<1> QED BY Initially, <1>2, <1>3, <1>4, <1>5, <1>6 DEF Wakeups

\* The invariant, as long as no flush has a deadline: one that was notified of
\* a job leaves without looking when its time is up.
LEMMA WakeupsInvariant == "timed" \notin FlushKinds /\ Spec => []Wakeups
<1> DEFINE I == Wakeups /\ "timed" \notin FlushKinds
<1>1. ASSUME I, [Next]_vars PROVE I'
  <2> USE <1>1 DEF Wakeups
  <2>1. Inductive'
    BY TypeStep, ThreadsStep, OwnersStep, QueuesStep, ConservationStep, BeforeStep, OrderStep,
       StrandedStep DEF Inductive
  <2>2. LabelsOK' /\ NoSilentLoss' /\ TimedOK' /\ StopOK' /\ Lined'
    BY LabelsStep, LossStep, TimedStep, StopStep, LinedStep
  <2>3. CASE shutdown'
    BY <2>1, <2>2, <2>3 DEF FlushWakes, Balanced
  <2>4. CASE ~shutdown'
    <3>1. Careful
      BY <2>4, CarefulStep DEF TimedOK
    <3>2. ~shutdown
      BY <2>4, StopEffects DEF Stays, BeginShutdown, CloseQueues
    <3>3. Balanced'
      BY <3>1, <3>2, TallyKeepsBalance DEF Careful
    <3> QED BY <2>1, <2>2, <3>1, <3>3 DEF Careful
  <2> QED BY <2>3, <2>4
<1>2. "timed" \notin FlushKinds /\ Init => I
  BY WakeupsInitially
<1>3. I => Wakeups
  OBVIOUS
<1> HIDE DEF I
<1> QED BY <1>1, <1>2, <1>3, PTL DEF Spec

\* A job is only ever dropped by the shutdown or by a panic that unwinds the
\* thread that owns it (dispatcher.rs, worker.rs); the queues, the waiting lists
\* and the flush loop never let one go.
THEOREM NoJobIsLostSilently == Spec => []NoSilentLoss
<1> DEFINE I == Inductive /\ LabelsOK /\ NoSilentLoss
<1>1. Init => I
  BY WakeupsInitially DEF Wakeups
<1>2. I /\ [Next]_vars => I'
  BY TypeStep, ThreadsStep, OwnersStep, QueuesStep, ConservationStep, BeforeStep, OrderStep,
     StrandedStep, LabelsStep, LossStep DEF Inductive
<1> QED BY <1>1, <1>2, PTL DEF Spec

\* With workers and the flush thread on one condition variable, no ready job
\* sits beside a sleeping worker with nobody left to look at the queues or to
\* notify someone who will (queue.rs, flush_counter_with_policy), as long as no
\* flush has a deadline.
THEOREM NoWakeupIsLost == "timed" \notin FlushKinds /\ Spec => []NoLostWakeup
<1>1. ASSUME Wakeups PROVE NoLostWakeup
  <2>1. SUFFICES ASSUME HasReadyJob, Asleep PROVE \E t \in Threads : LooksAtQueues(t)
    BY DEF NoLostWakeup, Asleep
  <2>2. Ready # {}
    <3>1. TopLane \in Lanes /\ Head(lanes[TopLane]) \in Jobs /\ place[Head(lanes[TopLane])] = "ready"
      BY <1>1, <2>1, TopJob DEF Wakeups
    <3> QED BY <3>1 DEF Ready
  <2>3. CASE shutdown
    BY <1>1, <2>2, <2>3 DEF Wakeups, StopOK, LooksAtQueues
  <2>4. CASE ~shutdown
    <3>1. CASE Zeroing
      BY <3>1 DEF Zeroing, LooksAtQueues
    <3>2. CASE Cardinality(Ready) <= Cardinality(Lookers)
      <4>1. Cardinality(Ready) # 0
        BY <2>2, FiniteSides, FS_EmptySet
      <4>2. Lookers # {}
        BY <3>2, <4>1, FiniteSides, FS_EmptySet
      <4> QED BY <4>2 DEF Lookers, Looker, LooksAtQueues
    <3> QED BY <1>1, <2>1, <2>4, <3>1, <3>2 DEF Wakeups, Balanced
  <2> QED BY <2>3, <2>4
<1> QED BY <1>1, WakeupsInvariant, PTL


\* The runtime keeps what it promises its callers: with the queues, the waiting
\* lists, the hands of the threads and the condition variable hidden, each of
\* its steps is one the contract allows, or none of the contract's business.
THEOREM RuntimeImplementsContract == Spec => ImplementsContract
<1> DEFINE I == Inductive /\ LabelsOK /\ FlushOK
           Step == [Contract!Next]_(Contract!vars)
<1>1. ASSUME Init PROVE I /\ Contract!Init
  <2>1. pc[FlushThread] = "free"
    BY <1>1, ThreadsAssumption DEF Init, Threads
  <2>2. flush.target = NoCounter /\ awaited = {} /\ answer = "none"
    BY <1>1 DEF Init, NoFlush
  <2>3. FlushOK
    BY <2>1, <2>2 DEF FlushOK
  <2>4. \A u \in Units : IF u \in Jobs THEN place[u] = "new" ELSE deferral[u] = "unused"
    BY <1>1 DEF Init, Units
  <2>5. UnitPhase = [u \in Contract!Units |-> "new"]
    BY <2>4 DEF UnitPhase, JobPhase, DeferralPhase, Contract!Units, Units
  <2>6. before = [j \in Jobs |-> {}]
    BY <1>1 DEF Init
  <2>7. Contract!Init
    BY <2>2, <2>5, <2>6 DEF Contract!Init
  <2> QED BY <1>1, <2>3, <2>7, Initially, WakeupsInitially DEF Wakeups
<1>2. I /\ [Next]_vars => I'
  BY TypeStep, ThreadsStep, OwnersStep, QueuesStep, ConservationStep, BeforeStep, OrderStep,
     StrandedStep, LabelsStep, FlushStepOK DEF Inductive
<1>3. I /\ [Next]_vars => Step
  BY ContractStep
<1> QED BY <1>1, <1>2, <1>3, PTL DEF Spec, ImplementsContract, Contract!Spec

=============================================================================
