--------------------------- MODULE FrameResources ---------------------------
(***************************************************************************)
(* The resource allocator as the nodes of a frame see it: the request      *)
(* streams they record in the preconsume walk and repeat in the consume    *)
(* walk (request.rs, allocator.rs), the solver between the walks           *)
(* (RequestLifetimes) and the pool behind it (ResourcePool).               *)
(*                                                                         *)
(* A node has a flow group of its own, numbered by its GPU order.  Nodes   *)
(* are walked one at a time: in GPU order when they record, in any order   *)
(* the CPU dependencies may give when they repeat.  A node is what it asks *)
(* for: a sequence of steps, each a request and the last answer "when" it  *)
(* is made (NoAnswer: always).  A node may lose its place once in a frame  *)
(* (MaySway) and leave a request out.                                      *)
(***************************************************************************)
EXTENDS ResourcePool, RequestLifetimes

CONSTANTS
  Tags,
  Programs,  \* the graphs: for each group the steps of its node
  MaySway

NoNode == 0
NoAnswer == "none"
Said == {NoAnswer, "yes", "no"}

\* What a node may ask for, with the fields its kind has.
Asks(answers) ==
  [kind : {"useBegin", "useEnd", "free", "queue", "isDeclared", "decision"},
   tag : Tags, answer : answers]
  \cup [kind : {"declare"}, tag : Tags, desc : Desc, answer : answers]
  \cup [kind : {"declareLike", "swap"}, tag : Tags, other : Tags, answer : answers]
  \cup [kind : {"import", "swapExternal"}, tag : Tags, desc : Desc, external : Externals,
        answer : answers]
Step == [when : Said, request : Asks({NoAnswer})]

ASSUME ProgramsAssumption == Programs \subseteq Seq(Seq(Step))

VARIABLES
  program,
  streams,   \* of each group: the requests recorded, with the answers given
  cursor,    \* of each group: how many of them were repeated
  solution,  \* the lifetimes they solved to
  node,      \* the group of the node that runs, NoNode between nodes
  passed,    \* how many of its requests the node is through with
  answer,    \* the last answer it got
  walked,    \* the groups of this walk that are done
  swayed,    \* history: some node left a request out in this frame
  refused    \* history: some request of this frame was refused

streamVars == <<program, streams, cursor, solution, node, passed, answer, walked, swayed, refused>>
allVars == <<vars, streamVars>>

AllGroups == DOMAIN program

FrameInit ==
  /\ Init
  /\ program = <<>> /\ streams = <<>> /\ cursor = <<>> /\ solution = Unsolved
  /\ node = NoNode /\ passed = 0 /\ answer = NoAnswer /\ walked = {}
  /\ swayed = FALSE /\ refused = FALSE

ClearedStreams ==
  /\ program' = <<>> /\ streams' = <<>> /\ cursor' = <<>> /\ solution' = Unsolved
  /\ node' = NoNode /\ passed' = 0 /\ answer' = NoAnswer /\ walked' = {}
  /\ swayed' = FALSE /\ refused' = FALSE

----------------------------------------------------------------------------
(* Nodes *)

\* Whether the last of the requests that declare or free the tag declares it.
DeclaredIn(requests, tag) ==
  LET about == {k \in DOMAIN requests :
                 /\ requests[k].kind \in {"declare", "declareLike", "import", "swapExternal", "free"}
                 /\ requests[k].tag = tag}
  IN  IF about # {} /\ requests[Max(about)].kind # "free" THEN "yes" ELSE "no"

Position(g) == IF phase = "consume" THEN cursor[g] ELSE Len(streams[g])

\* What the node supplies along with a request: a decision is its own to make.
Supplied(q) ==
  CASE q.kind = "decision"   -> {"yes", "no"}
    [] q.kind = "isDeclared" -> {DeclaredIn(SubSeq(streams[node], 1, Position(node)), q.tag)}
    [] OTHER                 -> {NoAnswer}

Answers(q) == q.kind \in {"decision", "isDeclared"}

Pending ==
  {k \in DOMAIN program[node] : k > passed /\ program[node][k].when \in {NoAnswer, answer}}
Due == Min(Pending)

EnterNode(g) ==
  /\ phase \in {"preconsume", "consume"} /\ node = NoNode /\ g \notin walked
  /\ phase = "preconsume" => walked = 1 .. g - 1
  /\ node' = g /\ passed' = 0 /\ answer' = NoAnswer
  /\ UNCHANGED <<vars, program, streams, cursor, solution, walked, swayed, refused>>

\* record_preconsume
Record ==
  /\ phase = "preconsume" /\ node # NoNode /\ Pending # {}
  /\ LET q == program[node][Due].request
     IN  \E a \in Supplied(q) :
           /\ streams' = [streams EXCEPT ![node] = Append(@, [q EXCEPT !.answer = a])]
           /\ answer' = IF Answers(q) THEN a ELSE answer
  /\ passed' = Due
  /\ UNCHANGED <<vars, program, cursor, solution, node, walked, swayed, refused>>

\* Mutant of MatchesReplay: a decision must be made as it was.
MatchesExactly(q, recorded) == q = recorded
MatchesReplay(q, recorded) ==
  q = recorded \/ (q.kind = "decision" /\ recorded.kind = "decision")

\* replay_consume: the decision that was recorded is the one that counts.
Replay ==
  /\ phase = "consume" /\ node # NoNode /\ Pending # {}
  /\ \E a \in Supplied(program[node][Due].request) :
       LET q == [program[node][Due].request EXCEPT !.answer = a]
           matches == /\ cursor[node] < Len(streams[node])
                      /\ MatchesReplay(q, streams[node][cursor[node] + 1])
       IN  /\ cursor' = IF matches THEN [cursor EXCEPT ![node] = @ + 1] ELSE cursor
           /\ answer' = IF matches /\ Answers(q) THEN streams[node][cursor[node] + 1].answer
                        ELSE answer
           /\ refused' = (refused \/ ~matches)
  /\ passed' = Due
  /\ UNCHANGED <<vars, program, streams, solution, node, walked, swayed>>

Sway ==
  /\ MaySway /\ ~swayed
  /\ phase = "consume" /\ node # NoNode /\ Pending # {}
  /\ swayed' = TRUE /\ passed' = Due
  /\ UNCHANGED <<vars, program, streams, cursor, solution, node, answer, walked, refused>>

LeaveNode ==
  /\ node # NoNode /\ Pending = {}
  /\ node' = NoNode /\ passed' = 0 /\ answer' = NoAnswer /\ walked' = walked \cup {node}
  /\ UNCHANGED <<vars, program, streams, cursor, solution, swayed, refused>>

----------------------------------------------------------------------------
(* Phases.  Between walks the allocator belongs to the owner of the frame. *)

BetweenWalks == node = NoNode /\ walked \in {{}, AllGroups}

\* set_phase(PreConsume) and prepare_preconsume_groups.
BeginRecording(p) ==
  /\ BeginPreConsume
  /\ program' = p /\ streams' = [g \in DOMAIN p |-> <<>>] /\ cursor' = [g \in DOMAIN p |-> 0]
  /\ solution' = Unsolved
  /\ node' = NoNode /\ passed' = 0 /\ answer' = NoAnswer /\ walked' = {}
  /\ swayed' = FALSE /\ refused' = FALSE

\* set_phase(Resolve), after a whole walk; a frame that cannot be solved stays
\* where it is and is reset.
SolveRequests ==
  /\ node = NoNode /\ walked = AllGroups
  /\ LET s == Solve(Timeline(streams))
     IN  Solved(s) /\ EnterResolve(Allocations(s)) /\ solution' = s
  /\ UNCHANGED <<program, streams, cursor, node, passed, answer, walked, swayed, refused>>

BeginReplaying ==
  /\ EnterConsume
  /\ cursor' = [g \in AllGroups |-> 0] /\ walked' = {}
  /\ UNCHANGED <<program, streams, solution, node, passed, answer, swayed, refused>>

CleanupFrame ==
  /\ node = NoNode
  /\ \A g \in AllGroups : cursor[g] = Len(streams[g])
  /\ Cleanup
  /\ ClearedStreams

\* A frame may be given up at any point, in the middle of a node too.
GiveUp == ResetForFrame /\ ClearedStreams

Own(action) == BetweenWalks /\ action /\ UNCHANGED streamVars

FrameNext ==
  \/ \E p \in Programs : BeginRecording(p)
  \/ \E g \in AllGroups : EnterNode(g)
  \/ Record \/ Replay \/ Sway \/ LeaveNode
  \/ SolveRequests \/ BeginReplaying \/ CleanupFrame \/ GiveUp
  \/ \E e \in Externals : Own(RegisterExternal(e))
  \/ \E b \in BOOLEAN : Own(SetProcessEviction(b))
  \/ Own(ClearAllCaches) \/ Own(EnterStartup)
  \/ Own(BeginResolve) \/ Own(Publish)
  \/ \E r \in todo : Own(Reuse(r)) \/ Own(Create(r)) \/ Own(Refuse(r))

FrameSpec == FrameInit /\ [][FrameNext]_allVars

----------------------------------------------------------------------------
(* What a node retrieves *)

Offset(g) == Len(Timeline(SubSeq(streams, 1, g - 1)))

NoResource == -1

\* resolved_allocation_id_at
ResolvedAt(tag, at) ==
  LET i == Lookup(solution, tag, at)
  IN  IF i \in DOMAIN resolution THEN resolution[i].id ELSE NoResource

\* resolution_for_consume: an error unless the walk is the second and the
\* resources were materialised.
CanRetrieve == phase = "consume" /\ resolution # NoResolution

\* Mutant of current_consume_time: the request to come decides.
NextConsumeTime(g) == Offset(g) + cursor[g] + 1

\* The last request the node repeated; an error before the first.
current_consume_time(g) == Offset(g) + cursor[g]

Retrieved(tag, g) == ResolvedAt(tag, current_consume_time(g))

----------------------------------------------------------------------------
(* Properties.  They speak of tags in their own way: a tag stands for the   *)
(* request that made what it names, found by going back in time.            *)

Makes(q, tag) ==
  q.kind \in {"declare", "declareLike", "import", "swapExternal"} /\ q.tag = tag

Maker ==
  LET timeline == Timeline(streams)
      made[n \in 0 .. Len(timeline)] ==
        [tag \in Tags |->
           IF n = 0 THEN 0
           ELSE LET q == timeline[n]
                IN  IF Makes(q, tag) THEN n
                    ELSE IF q.kind = "free" /\ q.tag = tag THEN 0
                    ELSE IF q.kind = "swap" /\ q.tag = tag THEN made[n - 1][q.other]
                    ELSE IF q.kind = "swap" /\ q.other = tag THEN made[n - 1][q.tag]
                    ELSE made[n - 1][tag]]
  IN  made

Resolved == phase = "resolve" /\ ~Calling /\ resolution # NoResolution

\* From its first use to its last a resource keeps what was written to it: in
\* all that time every use of it retrieves the same pooled resource, and no use
\* of another retrieves that one, whatever tags were swapped, freed or declared
\* anew in between (lifetime.rs, pool.rs, resolved_allocation_id_at).
UsesKeepTheirContents ==
  Resolved =>
    LET timeline == Timeline(streams)
        uses == {x \in DOMAIN timeline : timeline[x].kind \in {"useBegin", "useEnd"}}
        maker == Maker
        made == [x \in uses |-> maker[x][timeline[x].tag]]
        got == [x \in uses |-> ResolvedAt(timeline[x].tag, x)]
    IN  \A x, y, z \in uses :
          x <= z /\ z <= y /\ made[x] = made[y] => (made[z] = made[x] <=> got[z] = got[x])

\* At every point of the consume walk, in whatever order the nodes come, a node
\* retrieves under a tag the resource of the request that made what the tag
\* names at that point of GPU order, and nothing under a tag that names nothing
\* (current_consume_time, TagLifetime::lookup).
GettersFollowTheTimeline ==
  CanRetrieve /\ node # NoNode /\ cursor[node] > 0 =>
    LET maker == Maker
        instances == solution.instances
    IN  \A tag \in Tags :
          LET made == maker[Offset(node) + cursor[node]][tag]
          IN  Retrieved(tag, node) =
                IF \E i \in DOMAIN resolution : instances[i].start = made
                THEN resolution[CHOOSE i \in DOMAIN resolution : instances[i].start = made].id
                ELSE NoResource

\* No step puts a question again that was put under the answer the step needs:
\* a node that leaves such a question out, and is told so by the other, asks
\* the other in its place, and nothing is missing at the end of the walk.
SameQuestion(p, q) == p.kind = q.kind /\ (p.kind = "isDeclared" => p.tag = q.tag)
AsksAfresh(steps) ==
  \A l, i, j \in DOMAIN steps :
    /\ l < i /\ i < j
    /\ Answers(steps[l].request) /\ Answers(steps[i].request) /\ Answers(steps[j].request)
    /\ steps[j].when # NoAnswer /\ steps[i].when \in {NoAnswer, steps[j].when}
    => ~SameQuestion(steps[i].request, steps[j].request)

\* Nodes that ask as their answers tell them to are never refused, though they
\* may decide anew in the consume walk; and the check at the end of that walk
\* finds every frame in which a node left a request out, and no other
\* (replay_consume, validate_consume_finished).  It finds them all because the
\* nodes ask afresh.
ReplayTellsDivergence ==
  /\ refused => swayed
  /\ phase = "consume" /\ node = NoNode /\ walked = AllGroups =>
       (swayed <=> \E g \in AllGroups : cursor[g] # Len(streams[g]))

=============================================================================
