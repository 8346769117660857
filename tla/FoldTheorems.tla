---------------------------- MODULE FoldTheorems ----------------------------
(***************************************************************************)
(* Induction over numbers, and what it gives: that a recursion over        *)
(* numbers defines a function, that the recursion by which a fold over the *)
(* indices of a sequence is defined has its function, and that what every  *)
(* step of a fold preserves holds of the fold.  The library's theorems on  *)
(* these take operators as parameters; these take sets and functions.      *)
(***************************************************************************)
EXTENDS Integers, SequencesExt, WellFoundedInduction, TLAPS

\* A non-empty set of natural numbers has a least element.
LEMMA LeastExists ==
  ASSUME NEW T, T \subseteq Nat, T # {}
  PROVE  \E x \in T : \A y \in T : x <= y
<1> DEFINE R == OpToRel(<, Nat)
<1>1. PICK x \in T : \A y \in T : ~ (<<y, x>> \in R)
  BY NatLessThanWellFounded, WFMin, Zenon
<1>2. R = {p \in Nat \X Nat : p[1] < p[2]}
  BY DEF OpToRel
<1>3. ASSUME NEW y \in T PROVE x <= y
  <2>1. x \in Nat /\ y \in Nat
    BY <1>1
  <2>2. y < x => <<y, x>> \in {p \in Nat \X Nat : p[1] < p[2]}
    BY <2>1
  <2> HIDE DEF R
  <2>3. ~(y < x)
    BY <1>1, <1>2, <2>2
  <2> QED BY <2>1, <2>3
<1> QED BY <1>1, <1>3

\* And a greatest one when it is bounded.
LEMMA GreatestExists ==
  ASSUME NEW T, T \subseteq Nat, T # {}, NEW n \in Nat, \A i \in T : i <= n
  PROVE  \E x \in T : \A y \in T : y <= x
<1> DEFINE S == {n - i : i \in T}
<1>1. S \subseteq Nat /\ S # {}
  <2>1. ASSUME NEW i \in T PROVE n - i \in Nat
    BY i \in Nat
  <2>2. PICK i \in T : TRUE
    OBVIOUS
  <2>3. n - i \in S
    BY <2>2
  <2> QED BY <2>1, <2>3
<1>2. PICK d \in S : \A e \in S : d <= e
  BY <1>1, LeastExists
<1>3. PICK x \in T : d = n - x
  BY <1>2
<1>4. ASSUME NEW y \in T PROVE y <= x
  BY <1>2, <1>3
<1> QED BY <1>3, <1>4

\* What holds of 0, and of each number after one it holds of, holds of all.
LEMMA Reached ==
  ASSUME NEW T, T \subseteq Nat, 0 \in T, \A k \in T : k + 1 \in T
  PROVE  T = Nat
<1>1. SUFFICES ASSUME Nat \ T # {} PROVE FALSE
  OBVIOUS
<1>2. PICK n \in Nat \ T : \A m \in Nat \ T : n <= m
  BY <1>1, LeastExists
<1>3. n - 1 \in Nat /\ n - 1 \in T
  BY <1>2
<1>4. (n - 1) + 1 = n
  BY <1>2
<1> QED BY <1>2, <1>3, <1>4

\* The first n steps of a recursion.
FirstSteps(V, a, h, n, f) ==
  /\ f \in [0..n -> V] /\ f[0] = a
  /\ \A k \in 0..n-1 : f[k + 1] = h[k][f[k]]

\* There are first steps, as many as one likes.
LEMMA StepsExist ==
  ASSUME NEW V, NEW a \in V, NEW h \in [Nat -> [V -> V]], NEW n \in Nat
  PROVE  \E f : FirstSteps(V, a, h, n, f)
<1> DEFINE T == {m \in Nat : \E f : FirstSteps(V, a, h, m, f)}
<1>1. 0 \in T
  <2>1. FirstSteps(V, a, h, 0, [k \in 0..0 |-> a])
    BY DEF FirstSteps
  <2> QED BY <2>1
<1>2. ASSUME NEW k \in T PROVE k + 1 \in T
  <2>1. PICK f : FirstSteps(V, a, h, k, f)
    BY <1>2
  <2>2. /\ k \in Nat /\ f \in [0..k -> V] /\ f[0] = a /\ f[k] \in V
        /\ \A i \in 0..k-1 : f[i + 1] = h[i][f[i]]
    BY <2>1 DEF FirstSteps
  <2>3. PICK x \in V : x = h[k][f[k]]
    BY <2>2
  <2> DEFINE g == [i \in 0..k+1 |-> IF i = k + 1 THEN x ELSE f[i]]
  <2>4. g \in [0..k+1 -> V] /\ g[0] = a
    BY <2>2, <2>3
  <2>5. ASSUME NEW i \in 0..k PROVE g[i + 1] = h[i][g[i]]
    <3>1. g[i] = f[i]
      BY <2>2
    <3>2. CASE i = k
      BY <2>2, <2>3, <3>1, <3>2
    <3>3. CASE i # k
      <4>1. i \in 0..k-1 /\ i + 1 \in 0..k /\ g[i + 1] = f[i + 1]
        BY <2>2, <3>3
      <4> QED BY <2>2, <3>1, <4>1
    <3> QED BY <3>2, <3>3
  <2> HIDE DEF g
  <2>6. FirstSteps(V, a, h, k + 1, g)
    BY <2>2, <2>4, <2>5 DEF FirstSteps
  <2> QED BY <2>2, <2>6
<1> HIDE DEF T
<1>3. T = Nat
  <2>1. T \subseteq Nat
    BY DEF T
  <2> QED BY <1>1, <1>2, <2>1, Reached
<1> QED BY <1>3 DEF T

\* And they do not depend on how many.
LEMMA StepsAgree ==
  ASSUME NEW V, NEW a, NEW h, NEW m \in Nat, NEW n \in Nat, m <= n,
         NEW f, NEW g, FirstSteps(V, a, h, m, f), FirstSteps(V, a, h, n, g)
  PROVE  \A k \in 0..m : f[k] = g[k]
<1> DEFINE T == {k \in Nat : k <= m => f[k] = g[k]}
<1>1. 0 \in T
  BY DEF FirstSteps
<1>2. ASSUME NEW k \in T PROVE k + 1 \in T
  <2>1. SUFFICES ASSUME k + 1 <= m PROVE f[k + 1] = g[k + 1]
    BY <1>2
  <2>2. f[k] = g[k] /\ k \in 0..m-1 /\ k \in 0..n-1
    BY <1>2, <2>1
  <2>3. f[k + 1] = h[k][f[k]] /\ g[k + 1] = h[k][g[k]]
    BY <2>2 DEF FirstSteps
  <2> QED BY <2>2, <2>3
<1> HIDE DEF T
<1>3. T = Nat
  <2>1. T \subseteq Nat
    BY DEF T
  <2> QED BY <1>1, <1>2, <2>1, Reached
<1> QED BY <1>3 DEF T

Recursive(V, a, h, f) ==
  f \in [Nat -> V] /\ f[0] = a /\ \A n \in Nat : f[n + 1] = h[n][f[n]]

\* A recursion whose steps stay in V defines a function.
LEMMA Recursion ==
  ASSUME NEW V, NEW a \in V, NEW h \in [Nat -> [V -> V]]
  PROVE  \E f : Recursive(V, a, h, f)
<1> DEFINE F(n) == CHOOSE f : FirstSteps(V, a, h, n, f)
           G == [n \in Nat |-> F(n)[n]]
<1>1. \A n \in Nat : FirstSteps(V, a, h, n, F(n))
  BY StepsExist
<1> HIDE DEF F
<1>2. \A n \in Nat : G[n] \in V
  BY <1>1 DEF FirstSteps
<1>3. G[0] = a
  BY <1>1 DEF FirstSteps
<1>4. ASSUME NEW n \in Nat PROVE G[n + 1] = h[n][G[n]]
  <2>1. n + 1 \in Nat /\ n <= n + 1 /\ n \in 0..n /\ n \in 0..(n+1)-1
    OBVIOUS
  <2>2. F(n + 1)[n + 1] = h[n][F(n + 1)[n]]
    BY <1>1, <2>1 DEF FirstSteps
  <2>3. F(n)[n] = F(n + 1)[n]
    <3>1. FirstSteps(V, a, h, n, F(n)) /\ FirstSteps(V, a, h, n + 1, F(n + 1))
      BY <1>1, <2>1
    <3> QED BY <2>1, <3>1, StepsAgree
  <2> QED BY <2>1, <2>2, <2>3
<1>5. G \in [Nat -> V]
  BY <1>2
<1> HIDE DEF G
<1>6. Recursive(V, a, h, G)
  BY <1>3, <1>4, <1>5 DEF Recursive
<1> QED BY <1>6

\* The greatest of some numbers up to n.
LEMMA MaxBounds ==
  ASSUME NEW n \in Nat, NEW s \in SUBSET (0..n), s # {}
  PROVE  Max(s) \in s /\ \A k \in s : k <= Max(s)
<1> DEFINE T == {n - k : k \in s}
<1>1. T \subseteq Nat /\ T # {}
  <2>1. \A k \in s : n - k \in Nat
    OBVIOUS
  <2>2. PICK k \in s : TRUE
    OBVIOUS
  <2> QED BY <2>1, <2>2
<1> HIDE DEF T
<1>2. PICK t \in T : \A u \in T : t <= u
  BY <1>1, LeastExists
<1>3. PICK x \in s : t = n - x
  BY <1>2 DEF T
<1>4. \A k \in s : x >= k
  <2>1. ASSUME NEW k \in s PROVE x >= k
    <3>1. n - k \in T
      BY DEF T
    <3> QED BY <1>2, <1>3, <3>1
  <2> QED BY <2>1
<1>5. \A k \in s : Max(s) >= k /\ Max(s) \in s
  BY <1>3, <1>4 DEF Max
<1> QED BY <1>5

\* The same when they start at 1.
LEMMA MaxFacts ==
  ASSUME NEW n \in Nat, NEW s \in SUBSET (1..n), s # {}
  PROVE  Max(s) \in s /\ \A k \in s : k <= Max(s)
<1>1. s \in SUBSET (0..n)
  OBVIOUS
<1> QED BY <1>1, MaxBounds

\* The equation of a fold over 1..n from the left.
FoldEquation(V, a, h, n, g) ==
  /\ g \in [SUBSET (1..n) -> V] /\ g[{}] = a
  /\ \A s \in SUBSET (1..n) : s # {} => g[s] = h[Max(s)][g[s \ {Max(s)}]]

\* The recursion that defines a fold has its function.
LEMMA FoldExists ==
  ASSUME NEW V, NEW a \in V, NEW n \in Nat, NEW h \in [1..n -> [V -> V]]
  PROVE  \E g : FoldEquation(V, a, h, n, g)
<1> DEFINE P == SUBSET (1..n)
           W == [P -> V]
           more(k, F) == [s \in P |-> IF k + 1 \in s /\ s \subseteq 1..k+1
                                      THEN h[k + 1][F[s \ {k + 1}]] ELSE F[s]]
           step == [k \in Nat |-> [F \in W |-> more(k, F)]]
           start == [s \in P |-> a]
<1>1. start \in W
  OBVIOUS
<1>2. \A k \in Nat, F \in W : more(k, F) \in W
  <2>1. SUFFICES ASSUME NEW k \in Nat, NEW F \in W, NEW s \in P,
                        k + 1 \in s, s \subseteq 1..k+1
                 PROVE  h[k + 1][F[s \ {k + 1}]] \in V
    OBVIOUS
  <2>2. s \ {k + 1} \in P /\ k + 1 \in 1..n
    BY <2>1
  <2> QED BY <2>1, <2>2
<1>3. step \in [Nat -> [W -> W]]
  BY <1>2
<1> HIDE DEF step, W, start
<1>4. PICK f : Recursive(W, start, step, f)
  BY <1>1, <1>3, Recursion
<1>5. \A k \in Nat : f[k] \in [P -> V]
  BY <1>4 DEF W, Recursive
<1>6. \A k \in Nat : f[k + 1] = more(k, f[k])
  <2>1. \A k \in Nat : f[k] \in W /\ f[k + 1] = step[k][f[k]]
    BY <1>4 DEF Recursive
  <2>2. \A k \in Nat : \A F \in W : step[k][F] = more(k, F)
    BY DEF step
  <2> HIDE DEF more
  <2> QED BY <2>1, <2>2
<1> DEFINE Right(k) == \A s \in P : s \subseteq 1..k =>
                         f[k][s] = IF s = {} THEN a ELSE h[Max(s)][f[k][s \ {Max(s)}]]
           T == {k \in Nat : Right(k)}
<1>7. 0 \in T
  <2>1. \A s : s \subseteq 1..0 => s = {}
    OBVIOUS
  <2> QED BY <1>4, <2>1 DEF start, Right, T, Recursive
<1> HIDE DEF Right
<1>8. ASSUME NEW k \in T PROVE k + 1 \in T
  <2>1. k \in Nat /\ Right(k)
    BY <1>8 DEF T
  <2>2. SUFFICES ASSUME NEW s \in P, s \subseteq 1..k+1
                 PROVE  f[k + 1][s] = IF s = {} THEN a ELSE h[Max(s)][f[k + 1][s \ {Max(s)}]]
    <3>1. k + 1 \in Nat
      BY <2>1
    <3> HIDE DEF P
    <3> QED BY <3>1 DEF T, Right
  <2>3. \A r \in P : k + 1 \notin r => f[k + 1][r] = f[k][r]
    BY <1>6, <2>1
  <2>4. CASE k + 1 \notin s
    <3>1. s \subseteq 1..k /\ f[k + 1][s] = f[k][s]
      BY <2>1, <2>2, <2>3, <2>4
    <3>2. f[k + 1][s \ {Max(s)}] = f[k][s \ {Max(s)}]
      BY <2>2, <2>3, <2>4
    <3>3. f[k][s] = IF s = {} THEN a ELSE h[Max(s)][f[k][s \ {Max(s)}]]
      BY <2>1, <3>1 DEF Right
    <3> QED BY <3>1, <3>2, <3>3
  <2>5. CASE k + 1 \in s
    <3>1. Max(s) = k + 1
      <4>1. Max(s) \in s /\ k + 1 <= Max(s)
        BY <2>2, <2>5, MaxFacts
      <4>2. Max(s) \in 1..k+1
        BY <2>2, <4>1
      <4> QED BY <2>1, <4>1, <4>2
    <3>2. f[k + 1][s] = h[k + 1][f[k][s \ {k + 1}]]
      BY <1>6, <2>1, <2>2, <2>5
    <3>3. f[k + 1][s \ {k + 1}] = f[k][s \ {k + 1}]
      BY <2>2, <2>3
    <3> QED BY <2>5, <3>1, <3>2, <3>3
  <2> QED BY <2>4, <2>5
<1> HIDE DEF T
<1>9. T = Nat
  <2>1. T \subseteq Nat
    BY DEF T
  <2> QED BY <1>7, <1>8, <2>1, Reached
<1>10. Right(n)
  BY <1>9 DEF T
<1>11. f[n] \in [P -> V] /\ \A s \in P : s \subseteq 1..n
  BY <1>5
<1> HIDE DEF P
<1>12. {} \in P /\ f[n][{}] = a
  <2>1. {} \in P
    BY DEF P
  <2> QED BY <1>10, <1>11, <2>1 DEF Right
<1>13. \A s \in P : s # {} => f[n][s] = h[Max(s)][f[n][s \ {Max(s)}]]
  BY <1>10, <1>11 DEF Right
<1> QED BY <1>11, <1>12, <1>13 DEF FoldEquation, P

\* The last index of a prefix, and the prefix before it.
LEMMA PrefixSets ==
  ASSUME NEW n \in Nat, NEW k \in 1..n
  PROVE  1..k \in SUBSET (1..n) /\ Max(1..k) = k /\ (1..k) \ {k} = 1..k-1
<1>1. k \in Nat /\ k \in 1..k /\ 1..k \in SUBSET (1..n)
  OBVIOUS
<1>2. Max(1..k) \in 1..k /\ k <= Max(1..k)
  <2>1. 1..k # {}
    BY <1>1
  <2> QED BY <1>1, <2>1, MaxFacts
<1>3. Max(1..k) = k
  BY <1>1, <1>2
<1>4. (1..k) \ {k} = 1..k-1
  BY <1>1
<1> QED BY <1>1, <1>3, <1>4

\* A fold of which each prefix keeps within its bounds.
KeepsWithin(it, W, n) ==
  it[{}] \in W[0] /\ \A k \in 1..n : it[1..k-1] \in W[k - 1] => it[1..k] \in W[k]

\* So does the whole.
LEMMA FoldWithin ==
  ASSUME NEW n \in Nat, NEW W, NEW it, KeepsWithin(it, W, n)
  PROVE  it[1..n] \in W[n]
<1> DEFINE T == {k \in Nat : k <= n => it[1..k] \in W[k]}
<1>1. 0 \in T
  <2>1. 1..0 = {}
    OBVIOUS
  <2> QED BY <2>1 DEF KeepsWithin
<1>2. ASSUME NEW k \in T PROVE k + 1 \in T
  <2>1. SUFFICES ASSUME k + 1 <= n PROVE it[1..k+1] \in W[k + 1]
    BY <1>2
  <2>2. k \in Nat /\ it[1..k] \in W[k] /\ k + 1 \in 1..n /\ (k + 1) - 1 = k
    BY <1>2, <2>1
  <2> QED BY <2>2 DEF KeepsWithin
<1> HIDE DEF T
<1>3. T = Nat
  <2>1. T \subseteq Nat
    BY DEF T
  <2> QED BY <1>1, <1>2, <2>1, Reached
<1> QED BY <1>3 DEF T

\* The first sequences of some, end to end.
Leading(R, seqs, F) ==
  /\ F \in [0 .. Len(seqs) -> Seq(R)] /\ F[0] = <<>>
  /\ \A k \in 1 .. Len(seqs) : F[k] = F[k - 1] \o seqs[k]

LEMMA LeadingExist ==
  ASSUME NEW R, NEW seqs \in Seq(Seq(R))
  PROVE  \E F : Leading(R, seqs, F)
<1> DEFINE n == Len(seqs)
           V == Seq(R)
           h == [k \in Nat |-> [v \in V |-> IF k + 1 <= n THEN v \o seqs[k + 1] ELSE v]]
<1>1. n \in Nat /\ <<>> \in V /\ \A k \in 1 .. n : seqs[k] \in V
  OBVIOUS
<1>2. h \in [Nat -> [V -> V]]
  <2>1. SUFFICES ASSUME NEW k \in Nat, NEW v \in V, k + 1 <= n PROVE v \o seqs[k + 1] \in V
    OBVIOUS
  <2>2. k + 1 \in 1 .. n
    BY <1>1, <2>1
  <2>3. seqs[k + 1] \in V
    BY <1>1, <2>2
  <2> QED BY <2>3
<1>3. \A k \in Nat, v \in V : k + 1 <= n => h[k][v] = v \o seqs[k + 1]
  OBVIOUS
<1> HIDE DEF h, V, n
<1>4. PICK f : Recursive(V, <<>>, h, f)
  BY <1>1, <1>2, Recursion
<1>5. f \in [Nat -> V] /\ f[0] = <<>> /\ \A k \in Nat : f[k + 1] = h[k][f[k]]
  BY <1>4 DEF Recursive
<1> DEFINE F == [k \in 0 .. n |-> f[k]]
<1>6. F \in [0 .. n -> V] /\ F[0] = <<>>
  BY <1>1, <1>5
<1>7. ASSUME NEW k \in 1 .. n PROVE F[k] = F[k - 1] \o seqs[k]
  <2>1. k - 1 \in Nat /\ (k - 1) + 1 = k /\ k <= n /\ k \in 0 .. n /\ k - 1 \in 0 .. n
    BY <1>1
  <2>2. f[k] = h[k - 1][f[k - 1]] /\ f[k - 1] \in V
    BY <1>5, <2>1
  <2>3. h[k - 1][f[k - 1]] = f[k - 1] \o seqs[k]
    BY <1>3, <2>1, <2>2
  <2> QED BY <2>1, <2>2, <2>3
<1> HIDE DEF F
<1> QED BY <1>6, <1>7 DEF Leading, V, n

\* What end to end means of all of them.
LEMMA FlattenFacts ==
  ASSUME NEW R, NEW seqs \in Seq(Seq(R)), NEW F, Leading(R, seqs, F)
  PROVE  FlattenSeq(seqs) = F[Len(seqs)]
<1> DEFINE n == Len(seqs)
           row(f, i) == IF i = 1 THEN seqs[i] ELSE f[i - 1] \o seqs[i]
           It == CHOOSE f : f = [i \in 1 .. n |-> row(f, i)]
           G == [i \in 1 .. n |-> F[i]]
<1>1. n \in Nat /\ \A k \in 1 .. n : seqs[k] \in Seq(R)
  OBVIOUS
<1>2. CASE n = 0
  <2>1. seqs = <<>>
    BY <1>2
  <2> QED BY <1>2, <2>1 DEF FlattenSeq, Leading
<1>3. CASE n # 0
  <2>1. FlattenSeq(seqs) = It[n]
    BY <1>3 DEF FlattenSeq
  <2> HIDE DEF n
  <2>2. /\ F \in [0 .. n -> Seq(R)] /\ F[0] = <<>>
        /\ \A k \in 1 .. n : F[k] = F[k - 1] \o seqs[k]
    BY DEF Leading, n
  <2>3. ASSUME NEW i \in 1 .. n PROVE G[i] = row(G, i)
    <3>1. i \in 0 .. n /\ i - 1 \in 0 .. n /\ (i # 1 => i - 1 \in 1 .. n)
      BY <1>1
    <3>2. CASE i = 1
      <4>1. F[1] = <<>> \o seqs[1]
        <5>1. 1 \in 1 .. n /\ 1 - 1 = 0
          BY <3>2
        <5>2. F[1] = F[1 - 1] \o seqs[1]
          BY <2>2, <5>1
        <5> QED BY <2>2, <5>1, <5>2
      <4>2. seqs[1] \in Seq(R)
        BY <1>1, <3>2
      <4>3. <<>> \o seqs[1] = seqs[1]
        BY <4>2
      <4> QED BY <3>2, <4>1, <4>3
    <3>3. CASE i # 1
      BY <2>2, <3>1, <3>3
    <3> QED BY <3>2, <3>3
  <2> HIDE DEF row
  <2>4. G = [i \in 1 .. n |-> row(G, i)]
    <3>1. G = [i \in 1 .. n |-> G[i]]
      OBVIOUS
    <3> HIDE DEF G
    <3> QED BY <2>3, <3>1
  <2>5. It = [i \in 1 .. n |-> row(It, i)]
    BY <2>4, Zenon
  <2> HIDE DEF It, G
  <2> DEFINE D == {k \in Nat : k + 1 <= n => It[k + 1] = G[k + 1]}
  <2>6. 0 \in D
    <3>1. SUFFICES ASSUME 1 <= n PROVE It[1] = G[1]
      OBVIOUS
    <3>2. 1 \in 1 .. n
      BY <1>1, <3>1
    <3> QED BY <2>4, <2>5, <3>2 DEF row
  <2>7. ASSUME NEW k \in D PROVE k + 1 \in D
    <3>1. SUFFICES ASSUME k + 2 <= n PROVE It[k + 2] = G[k + 2]
      BY <2>7
    <3>2. /\ k + 1 \in 1 .. n /\ k + 2 \in 1 .. n /\ (k + 2) - 1 = k + 1 /\ k + 2 # 1
          /\ It[k + 1] = G[k + 1]
      BY <1>1, <2>7, <3>1
    <3>3. It[k + 2] = row(It, k + 2) /\ G[k + 2] = row(G, k + 2)
      BY <2>4, <2>5, <3>2
    <3> QED BY <3>2, <3>3 DEF row
  <2> HIDE DEF D
  <2>8. D \subseteq Nat
    BY DEF D
  <2>9. D = Nat
    BY <2>6, <2>7, <2>8, Reached
  <2>10. n - 1 \in Nat /\ (n - 1) + 1 = n /\ n \in 1 .. n
    BY <1>1, <1>3
  <2>11. It[n] = G[n]
    BY <2>9, <2>10 DEF D
  <2> QED BY <2>1, <2>10, <2>11 DEF G, n
<1> QED BY <1>2, <1>3

=============================================================================
