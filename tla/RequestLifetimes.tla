-------------------------- MODULE RequestLifetimes --------------------------
(***************************************************************************)
(* How the resource requests of a frame become allocation requests: the    *)
(* lifetime solver (lifetime.rs) over the request streams of the flow      *)
(* groups (request.rs).                                                    *)
(*                                                                         *)
(* A request time is a flow group and an index in it, ordered by group     *)
(* first; here it is the position in the streams laid end to end.  An      *)
(* instance is a resource some request brings into the frame, a tag a name *)
(* that stands for one instance at a time.  Requests are records with a    *)
(* kind and the tag they are about.  Descriptors are valid.                *)
(***************************************************************************)
EXTENDS Integers, FiniteSets, SequencesExt

Timeline(streams) == FlattenSeq(streams)

----------------------------------------------------------------------------
(* The solver: which instance each live tag names, the instances so far,   *)
(* what happened to which tag when, and whether no request was refused.    *)

NoInstance == 0

Unsolved == [names |-> [t \in {} |-> NoInstance], instances |-> <<>>, events |-> <<>>, ok |-> TRUE]

Alive(s, tag) == tag \in DOMAIN s.names
Current(s, tag) == s.instances[s.names[tag]]
InUse(s, tag) == Alive(s, tag) /\ Current(s, tag).open # 0

Instance(desc, at, source) ==
  [desc |-> desc, start |-> at, end |-> at, source |-> source,
   touched |-> source # "owned", shared |-> source = "owned", open |-> 0]

Refuses(s, q) ==
  \/ q.kind \in {"declare", "declareLike", "import"} /\ Alive(s, q.tag)
  \/ q.kind \in {"useBegin", "useEnd", "free", "swap", "swapExternal"} /\ ~Alive(s, q.tag)
  \/ q.kind \in {"declareLike", "swap"} /\ ~Alive(s, q.other)
  \/ q.kind = "useEnd" /\ ~InUse(s, q.tag)
  \/ q.kind \in {"free", "swap", "swapExternal"} /\ InUse(s, q.tag)
  \/ q.kind = "swap" /\ \/ InUse(s, q.other)
                        \/ Current(s, q.tag).desc # Current(s, q.other).desc

Renamed(s, tag, i, at) ==
  [s EXCEPT !.names = [t \in DOMAIN @ \cup {tag} |-> IF t = tag THEN i ELSE @[t]],
            !.events = Append(@, [tag |-> tag, at |-> at, instance |-> i])]

Declared(s, tag, instance) ==
  Renamed([s EXCEPT !.instances = Append(@, instance)], tag, Len(s.instances) + 1, instance.start)

Extended(s, tag, at) == [s EXCEPT !.instances[s.names[tag]].end = at]

Used(s, tag, at, change) ==
  [s EXCEPT !.instances[s.names[tag]] =
     [@ EXCEPT !.touched = TRUE, !.end = at, !.open = Current(s, tag).open + change]]

Freed(s, tag, at) ==
  [Extended(s, tag, at) EXCEPT
     !.names = [t \in DOMAIN @ \ {tag} |-> @[t]],
     !.events = Append(@, [tag |-> tag, at |-> at, instance |-> NoInstance])]

\* Mutant of Swapped: the second tag keeps its instance.
SwappedHalf(s, a, b, at) == Renamed(Extended(Extended(s, a, at), b, at), a, s.names[b], at)
Swapped(s, a, b, at) ==
  Renamed(Renamed(Extended(Extended(s, a, at), b, at), a, s.names[b], at), b, s.names[a], at)

\* The instance that is swapped out leaves with whoever holds the external one.
SwappedOut(s, tag, at) ==
  [Extended(s, tag, at) EXCEPT !.instances[s.names[tag]].shared = FALSE]

\* Queue scopes and synchronisation points lie inside every open use.
OpenUsesExtended(s, at) ==
  [s EXCEPT !.instances = [i \in DOMAIN @ |-> IF @[i].open # 0 THEN [@[i] EXCEPT !.end = at] ELSE @[i]]]

Handled(s, q, at) ==
  CASE q.kind = "declare"      -> Declared(s, q.tag, Instance(q.desc, at, "owned"))
    [] q.kind = "declareLike"  -> Declared(s, q.tag, Instance(Current(s, q.other).desc, at, "owned"))
    [] q.kind = "import"       -> Declared(s, q.tag, Instance(q.desc, at, q.external))
    [] q.kind = "useBegin"     -> Used(s, q.tag, at, 1)
    [] q.kind = "useEnd"       -> Used(s, q.tag, at, -1)
    [] q.kind = "free"         -> Freed(s, q.tag, at)
    [] q.kind = "swap"         -> Swapped(s, q.tag, q.other, at)
    [] q.kind = "swapExternal" -> Declared(SwappedOut(s, q.tag, at), q.tag,
                                           Instance(q.desc, at, q.external))
    [] q.kind = "queue"        -> OpenUsesExtended(s, at)
    [] q.kind \in {"isDeclared", "decision"} -> s

\* The first request that is refused ends the solving.
Solve(timeline) ==
  LET Step(s, at) ==
        IF ~s.ok \/ Refuses(s, timeline[at]) THEN [s EXCEPT !.ok = FALSE]
        ELSE Handled(s, timeline[at], at)
  IN  FoldLeftDomain(Step, Unsolved, timeline)

Solved(s) == s.ok /\ \A i \in DOMAIN s.instances : s.instances[i].open = 0

\* Only what is used or external gets an allocation request.  The requests keep
\* the numbers of their instances: the code numbers them anew in this order.
Allocations(s) ==
  [i \in {j \in DOMAIN s.instances : s.instances[j].touched} |->
     [desc |-> s.instances[i].desc, start |-> s.instances[i].start, end |-> s.instances[i].end,
      source |-> s.instances[i].source, shared |-> s.instances[i].shared]]

\* The instance a tag names at a time: what the last event up to it says.
Lookup(s, tag, at) ==
  LET e == {i \in DOMAIN s.events : s.events[i].tag = tag /\ s.events[i].at <= at}
  IN  IF e = {} THEN NoInstance ELSE s.events[Max(e)].instance

=============================================================================
