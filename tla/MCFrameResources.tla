-------------------------- MODULE MCFrameResources --------------------------
EXTENDS FrameResources

CONSTANTS ta, tb, x1

Ask(kind, tag) == [when |-> NoAnswer, request |-> [kind |-> kind, tag |-> tag, answer |-> NoAnswer]]
About(kind, tag, other) ==
  [when |-> NoAnswer,
   request |-> [kind |-> kind, tag |-> tag, other |-> other, answer |-> NoAnswer]]
Of(size) == [form |-> "texture", size |-> size]
Declare(tag, size) ==
  [when |-> NoAnswer,
   request |-> [kind |-> "declare", tag |-> tag, desc |-> Of(size), answer |-> NoAnswer]]
Bring(kind, tag, size) ==
  [when |-> NoAnswer,
   request |-> [kind |-> kind, tag |-> tag, desc |-> Of(size), external |-> x1,
                answer |-> NoAnswer]]
Begin(tag) == Ask("useBegin", tag)
End(tag) == Ask("useEnd", tag)
Touch(tag) == <<Begin(tag), End(tag)>>
If(answered, steps) == [i \in DOMAIN steps |-> [steps[i] EXCEPT !.when = answered]]

\* Two nodes: resources that follow each other and that overlap, ranges that
\* only a queue scope or a swap prolongs, tags that are freed and declared
\* again, external resources, and branches on a decision and on is_declared.
AllPrograms ==
  {<<<<Declare(ta, 2)>> \o Touch(ta) \o <<Ask("free", ta)>>, <<Declare(tb, 1)>> \o Touch(tb)>>,
   <<<<Declare(ta, 1), Declare(tb, 1)>> \o Touch(ta), Touch(tb) \o <<About("swap", ta, tb)>> \o Touch(tb)>>,
   <<<<Declare(ta, 1), Begin(ta)>>, <<Ask("queue", tb), Declare(tb, 1), Begin(tb), End(ta), End(tb)>>>>,
   <<<<Declare(ta, 1)>> \o Touch(ta) \o <<Bring("swapExternal", ta, 2)>>,
     Touch(ta) \o <<About("declareLike", tb, ta)>> \o Touch(tb)>>,
   <<<<Ask("decision", ta)>> \o If("yes", <<Declare(ta, 1)>> \o Touch(ta) \o <<Ask("free", ta)>>)
       \o If("no", <<Declare(tb, 2)>>),
     <<Ask("isDeclared", ta)>> \o If("no", <<Bring("import", ta, 1), Ask("isDeclared", ta)>>)
       \o If("yes", Touch(ta))>>,
   <<<<Declare(ta, 1)>>, <<Ask("isDeclared", ta)>> \o If("yes", Touch(ta))>>}

ASSUME AsksAfreshAssumption == \A p \in AllPrograms : \A g \in DOMAIN p : AsksAfresh(p[g])

Solves(size, start, end, source, shared) ==
  [desc |-> Of(size), start |-> start, end |-> end, source |-> source, shared |-> shared]
Pooled(size, start, end) == Solves(size, start, end, "owned", TRUE)

\* What the programs solve to, worked out by hand.
SolvedFrames ==
  {<<Pooled(2, 1, 4), Pooled(1, 5, 7)>>,
   <<Pooled(1, 1, 9), Pooled(1, 2, 7)>>,
   <<Pooled(1, 1, 6), Pooled(1, 4, 7)>>,
   <<Solves(1, 1, 4, "owned", FALSE), Solves(2, 4, 6, x1, FALSE), Pooled(2, 7, 9)>>,
   <<Pooled(1, 2, 5), Solves(1, 7, 10, x1, FALSE)>>,
   2 :> Solves(1, 4, 7, x1, FALSE),
   Empty}
=============================================================================
