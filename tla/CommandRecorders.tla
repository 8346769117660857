-------------------------- MODULE CommandRecorders --------------------------
(***************************************************************************)
(* The command recorders of a frame (command_recorder.rs): a slot for each *)
(* GPU flow group, what may be called on it in which state, and the        *)
(* submission in GPU order.  A refused call returns an error and leaves    *)
(* the slot alone; labels, debug markers and queue syncs are data no call  *)
(* reads.  The copy queue, which a recorder refuses, is refused by the     *)
(* factory before (factory.rs validate_command_list_group_queue).          *)
(***************************************************************************)
EXTENDS Integers, FiniteSets, SequencesExt

Slots == [state : {"empty", "recording", "finished", "submitted"},
          active_pass : {"none", "Render", "Compute"},
          viewport : BOOLEAN]

EmptySlot == [state |-> "empty", active_pass |-> "none", viewport |-> FALSE]
prepare(keys) == [k \in keys |-> EmptySlot]

CanCreate(s) == s.state = "empty"
create_own_recorder(s) == [s EXCEPT !.state = "recording"]
require_recorder(s) == s.state = "recording"
has_command_recorder(s) == s.state \in {"recording", "finished"}

CanBegin(s) == require_recorder(s) /\ s.active_pass = "none"
begin_pass(s, pass) == [s EXCEPT !.active_pass = pass]
CanEnd(s) == s.active_pass # "none"
end_pass(s) == [s EXCEPT !.active_pass = "none"]
set_viewport(s) == [s EXCEPT !.viewport = TRUE]

CanFinish(s) == require_recorder(s) /\ s.active_pass = "none"
finish_recorder(s) == [s EXCEPT !.state = "finished"]

\* What one more call by whoever holds the recorders makes of a slot.
Recorded(s) ==
  {begin_pass(s, p) : p \in IF CanBegin(s) THEN {"Render", "Compute"} ELSE {}}
    \cup (IF CanEnd(s) THEN {end_pass(s)} ELSE {})
    \cup (IF s.active_pass = "Render" THEN {set_viewport(s)} ELSE {})
    \cup (IF CanFinish(s) THEN {finish_recorder(s)} ELSE {})

\* Mutant of Submittable: the list is walked from the back.
SubmittableBackwards(slots, order) ==
  SelectSeq(Reverse(order), LAMBDA k : slots[k].state = "finished")

\* submit_finished_in_gpu_order passes over what was never opened or submitted
\* before and stops at the first recorder still recording.
FinishedPlaces(slots, order) ==
  {i \in DOMAIN order :
     /\ slots[order[i]].state = "finished"
     /\ \A j \in DOMAIN order : j < i => slots[order[j]].state # "recording"}

\* The k-th of a set of places.
Nth(places, k) == CHOOSE i \in places : Cardinality({j \in places : j <= i}) = k

Submittable(slots, order) ==
  LET places == FinishedPlaces(slots, order)
  IN  [k \in 1 .. Cardinality(places) |-> order[Nth(places, k)]]

Submitted(slots, order) ==
  [k \in DOMAIN slots |-> IF \E i \in FinishedPlaces(slots, order) : order[i] = k
                          THEN [slots[k] EXCEPT !.state = "submitted"] ELSE slots[k]]
=============================================================================
