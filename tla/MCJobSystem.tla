---------------------------- MODULE MCJobSystem ----------------------------
(***************************************************************************)
(* Instances of JobSystem for TLC.                                         *)
(***************************************************************************)
EXTENDS JobSystem

CONSTANTS w1, w2, w3, main, ext, j1, j2, j3, c1, c2, d1

D(a, w, h) == [accum |-> a, wait |-> w, hint |-> h]

\* Two jobs behind c1, or one behind it and one that puts c1 back in use after
\* it was zero; the deferral keeps c1 busy too.
ChainPrograms ==
  { j1 :> D(c1, NoCounter, "none") @@ j2 :> second @@ j3 :> D(c2, c1, "none")
      : second \in {D(c1, NoCounter, "none"), D(c2, c1, "none")} }

\* One job behind another, or two independent ones.
PairPrograms ==
  { j1 :> D(c1, NoCounter, "none") @@ j2 :> D(c2, w, "none") : w \in {c1, NoCounter} }

LonePrograms == {j1 :> D(c1, NoCounter, "none")}

\* Two jobs, dependent or not, the first of them with any hint.
LivePrograms ==
  { j1 :> D(c1, NoCounter, h) @@ j2 :> D(c2, w, "none")
      : h \in Hints, w \in {c1, NoCounter} }

OneDeferral == d1 :> c1
NoDeferral == <<>>
AllCritical == c1 :> CriticalPath @@ c2 :> CriticalPath
TwoLanes == c1 :> Latent @@ c2 :> CriticalPath
Symmetry == Permutations(Workers)
=============================================================================
