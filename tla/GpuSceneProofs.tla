-------------------------- MODULE GpuSceneProofs --------------------------
(***************************************************************************)
(* Proofs about GpuScene for every number of slots, every set of assets    *)
(* and descriptors and every page size, threshold and growth: that the     *)
(* scene is the map from ids to inputs its callers see, and that a changed *)
(* value is in the GPU buffer or on its way there.                         *)
(*                                                                         *)
(* The first rests on what a slot is: allocated exactly while it holds the *)
(* proxy of its present generation, and never seen again under an id that  *)
(* was released (SlotsHold, IssuedOK).  The second rests on what a table   *)
(* is between calls: clean pages hold what the buffer holds, nothing but   *)
(* zeros lies beyond the values, and what a job carries is the present     *)
(* contents of its page (TableOK, Uploaded).                               *)
(***************************************************************************)
EXTENDS GpuScene, FiniteSetTheorems, FoldTheorems, TLAPS

\* No generation comes round again: a slot is released less often than there
\* are generations.
GenerationsFit == MaxChanges < Generations

-----------------------------------------------------------------------------
(* The invariant: slots and proxies.                                       *)

Slots == [generations: Seq(0..Generations-1), allocated: Seq(BOOLEAN),
          free: Seq(0..MaxSlots-1)]

SlotsOK ==
    /\ changes \in 0..MaxChanges
    /\ slots \in Slots
    /\ Len(slots.allocated) = Len(slots.generations)
    /\ Len(slots.generations) <= MaxSlots
    /\ \A i \in 1..Len(slots.generations): slots.generations[i] <= changes
    /\ \A k \in 1..Len(slots.free):
          /\ slots.free[k] + 1 \in 1..Len(slots.generations)
          /\ ~slots.allocated[slots.free[k] + 1]
    /\ \A k, l \in 1..Len(slots.free): slots.free[k] = slots.free[l] => k = l

\* The id of what slot i holds, or of what held it last.
IdAt(i) == [slot |-> i - 1, generation |-> slots.generations[i]]

SlotsHold ==
    /\ proxies \in Seq(Proxies \cup {NoProxy})
    /\ Len(proxies) = Len(slots.generations)
    /\ \A i \in 1..Len(proxies):
          IF slots.allocated[i]
          THEN /\ IdAt(i) \in DOMAIN held
               /\ proxies[i] = [id |-> IdAt(i), asset |-> held[IdAt(i)].asset]
               /\ current.values[i] = held[IdAt(i)]
          ELSE proxies[i] = NoProxy /\ current.values[i] = Zero

HeldOK ==
    /\ held \in [DOMAIN held -> Inputs] /\ IsFiniteSet(DOMAIN held)
    /\ live_proxy_count = Cardinality(DOMAIN held)
    /\ \A id \in DOMAIN held:
          /\ id \in Range(issued)
          /\ id.slot + 1 \in 1..Len(proxies) /\ slots.allocated[id.slot + 1]
          /\ id = IdAt(id.slot + 1)

\* An id that was released is older than its slot.
IssuedOK ==
    /\ issued \in Seq(Ids) /\ IsInjective(issued)
    /\ \A id \in Range(issued):
          /\ id.slot + 1 \in 1..Len(slots.generations)
          /\ \/ id.generation < slots.generations[id.slot + 1]
             \/ /\ id.generation = slots.generations[id.slot + 1]
                /\ slots.allocated[id.slot + 1]

-----------------------------------------------------------------------------
(* The invariant: tables.                                                  *)

Words(len) == DivCeil(DivCeil(len, PageSize), PagesPerDirtyWord)

\* Page q has its bit set.
Marked(t, q) ==
    /\ q \div PagesPerDirtyWord + 1 \in 1..Len(t.dirty)
    /\ q % PagesPerDirtyWord \in t.dirty[q \div PagesPerDirtyWord + 1]

TableOK(t) ==
    /\ t \in Table(Inputs) /\ ~t.full /\ t.staged = {}
    /\ Len(t.dirty) = Words(Len(t.values))
    /\ \A i \in Len(t.values)+1..Len(t.gpu): t.gpu[i] = Zero

\* The buffer is as the table but for marked pages and those in `pages`, which
\* are as the table.
Uploaded(t, pages) ==
    /\ \A i \in 1..Len(t.values):
          \/ i > Len(t.gpu) \/ t.gpu[i] = t.values[i]
          \/ Marked(t, index_to_page(i - 1))
          \/ \E s \in pages: s.page = index_to_page(i - 1)
    /\ \A s \in pages: s.page \in Nat /\ s.values = PageContents(t, s.page)

\* An upload was written and its jobs have not run.
Written(t) ==
    /\ Len(t.gpu) >= Len(t.values)
    /\ \A w \in 1..Len(t.dirty): t.dirty[w] = {}

TablesOK ==
    /\ Len(current.values) = Len(proxies) /\ Len(previous.values) = Len(proxies)
    /\ TableOK(current) /\ TableOK(previous)
    /\ Uploaded(current, PagesOf("current")) /\ Uploaded(previous, PagesOf("previous"))
    /\ stage \in {"upload", "dispatch"} /\ supported \in BOOLEAN
    /\ stage = "upload" => jobs = <<>>
    /\ stage = "dispatch" => Written(current) /\ Written(previous)
    /\ ~supported => PagesOf("current") = {} /\ PagesOf("previous") = {}

Inductive == GenerationsFit /\ SlotsOK /\ SlotsHold /\ HeldOK /\ IssuedOK /\ TablesOK

-----------------------------------------------------------------------------
(* Arithmetic.                                                             *)

LEMMA Division ==
  ASSUME NEW a \in Nat, NEW b \in Nat \ {0}
  PROVE  /\ a \div b \in Nat /\ a % b \in 0..b-1
         /\ a = b * (a \div b) + (a % b)
OBVIOUS

LEMMA DivisionIsUnique ==
  ASSUME NEW b \in Nat \ {0}, NEW q \in Nat, NEW r \in 0..b-1
  PROVE  (q * b + r) \div b = q /\ (q * b + r) % b = r
<1> DEFINE a == q * b + r
           d == a \div b
           m == a % b
<1>1. q * b \in Nat /\ b * q = q * b
  OBVIOUS
<1>2. a \in Nat /\ a = q * b + r /\ d \in Nat /\ m \in 0..b-1 /\ a = b * d + m
  <2>1. a \in Nat /\ a = q * b + r
    BY <1>1
  <2> HIDE DEF a
  <2> QED BY <2>1, Division
<1> HIDE DEF a, d, m
<1>3. b * d \in Nat
  BY <1>2
<1>4. d = q
  <2>1. d <= q
    <3>1. SUFFICES ASSUME d >= q + 1 PROVE FALSE
      BY <1>2
    <3>2. b * d >= b * (q + 1)
      BY <1>2, <3>1
    <3>3. b * (q + 1) = b * q + b
      OBVIOUS
    <3> QED BY <1>1, <1>2, <1>3, <3>2, <3>3
  <2>2. d >= q
    <3>1. SUFFICES ASSUME d + 1 <= q PROVE FALSE
      BY <1>2
    <3>2. b * q >= b * (d + 1)
      BY <1>2, <3>1
    <3>3. b * (d + 1) = b * d + b
      BY <1>2
    <3> QED BY <1>1, <1>2, <1>3, <3>2, <3>3
  <2> QED BY <1>2, <2>1, <2>2
<1>5. m = r
  BY <1>1, <1>2, <1>3, <1>4
<1> QED BY <1>4, <1>5 DEF a, d, m

\* The smallest number of b-sized pieces that hold a.
LEMMA DivCeilBounds ==
  ASSUME NEW a \in Nat, NEW b \in Nat \ {0}
  PROVE  DivCeil(a, b) \in Nat /\ b * DivCeil(a, b) >= a
<1> DEFINE d == (a + b - 1) \div b
<1>1. a + b - 1 \in Nat
  OBVIOUS
<1>2. d \in Nat /\ (a + b - 1) % b \in 0..b-1 /\ a + b - 1 = b * d + ((a + b - 1) % b)
  BY <1>1, Division
<1>3. b * d \in Nat
  BY <1>2
<1> HIDE DEF d
<1>4. b * d >= a
  BY <1>2, <1>3
<1> QED BY <1>2, <1>4 DEF DivCeil, d

\* Item i is in one of the pieces.
LEMMA InAPiece ==
  ASSUME NEW a \in Nat, NEW b \in Nat \ {0}, NEW i \in Nat, i < a
  PROVE  i \div b < DivCeil(a, b)
<1> DEFINE d == DivCeil(a, b)
           e == i \div b
<1>0. PICK m \in 0..b-1 : e \in Nat /\ i = b * e + m
  BY Division
<1>1. d \in Nat /\ b * d >= a
  BY DivCeilBounds
<1> HIDE DEF d, e
<1>3. b * e \in Nat /\ i >= b * e
  BY <1>0
<1>2. e < d
  <2>1. SUFFICES ASSUME e >= d PROVE FALSE
    BY <1>0, <1>1
  <2>2. b * e >= b * d
    BY <1>0, <1>1, <2>1
  <2>3. b * d \in Nat
    BY <1>1
  <2> QED BY <1>1, <1>3, <2>2, <2>3
<1> QED BY <1>2 DEF d, e

-----------------------------------------------------------------------------
(* One table.                                                              *)

LEMMA Sizes ==
  /\ PageSize \in Nat \ {0} /\ PagesPerDirtyWord \in Nat \ {0}
  /\ ReallocationMultiple \in Nat \ {0} /\ MaxSlots \in Nat
BY PagesAssumption, SceneAssumption

LEMMA ZeroIsInput == Zero \in Inputs
BY SceneAssumption DEF Inputs, Kinds

LEMMA TableFields ==
  ASSUME NEW t \in Table(Inputs)
  PROVE  /\ t.values \in Seq(Inputs) /\ t.gpu \in Seq(Inputs)
         /\ t.dirty \in Seq(SUBSET EveryPage) /\ t.full \in BOOLEAN
         /\ Len(t.values) \in Nat /\ Len(t.gpu) \in Nat /\ Len(t.dirty) \in Nat
         /\ t.staged \in SUBSET [page: Nat, values: Seq(Inputs)]
BY DEF Table, EveryPage

LEMMA ResizedFacts ==
  ASSUME NEW V, NEW s \in Seq(V), NEW n \in Nat, NEW x \in V
  PROVE  /\ Resized(s, n, x) \in Seq(V) /\ Len(Resized(s, n, x)) = n
         /\ \A j \in 1..n: Resized(s, n, x)[j] = IF j <= Len(s) THEN s[j] ELSE x
<1>1. \A j \in 1..n: (IF j <= Len(s) THEN s[j] ELSE x) \in V
  OBVIOUS
<1> QED BY <1>1 DEF Resized

LEMMA GrownValues ==
  ASSUME NEW s \in Seq(Inputs), NEW n \in Nat
  PROVE  /\ Resized(s, n, Zero) \in Seq(Inputs) /\ Len(Resized(s, n, Zero)) = n
         /\ \A j \in 1..n: Resized(s, n, Zero)[j] = IF j <= Len(s) THEN s[j] ELSE Zero
BY ResizedFacts, ZeroIsInput

LEMMA GrownWords ==
  ASSUME NEW s \in Seq(SUBSET EveryPage), NEW n \in Nat
  PROVE  /\ Resized(s, n, EveryPage) \in Seq(SUBSET EveryPage)
         /\ Len(Resized(s, n, EveryPage)) = n
         /\ \A j \in 1..n: Resized(s, n, EveryPage)[j] = IF j <= Len(s) THEN s[j] ELSE EveryPage
<1>1. PICK V : V = SUBSET EveryPage
  OBVIOUS
<1>2. s \in Seq(V) /\ EveryPage \in V
  BY <1>1
<1>3. /\ Resized(s, n, EveryPage) \in Seq(V)
      /\ Len(Resized(s, n, EveryPage)) = n
      /\ \A j \in 1..n: Resized(s, n, EveryPage)[j] = IF j <= Len(s) THEN s[j] ELSE EveryPage
  BY <1>2, ResizedFacts
<1> QED BY <1>1, <1>3

\* The page of an index has its bit.
LEMMA HasItsWord ==
  ASSUME NEW len \in Nat, NEW i \in Nat, i < len
  PROVE  /\ index_to_page(i) \in Nat
         /\ index_to_page(i) \div PagesPerDirtyWord + 1 \in 1..Words(len)
         /\ index_to_page(i) % PagesPerDirtyWord \in EveryPage
<1> DEFINE q == index_to_page(i)
           pages == DivCeil(len, PageSize)
<1>1. q \in Nat /\ pages \in Nat /\ q < pages
  BY Sizes, Division, DivCeilBounds, InAPiece DEF index_to_page
<1> HIDE DEF q, pages
<1>2. /\ q \div PagesPerDirtyWord \in Nat /\ q % PagesPerDirtyWord \in 0..PagesPerDirtyWord-1
      /\ q \div PagesPerDirtyWord < DivCeil(pages, PagesPerDirtyWord)
      /\ DivCeil(pages, PagesPerDirtyWord) \in Nat
  BY <1>1, Sizes, Division, DivCeilBounds, InAPiece
<1>3. q \div PagesPerDirtyWord + 1 \in 1..DivCeil(pages, PagesPerDirtyWord)
  BY <1>2
<1> QED BY <1>1, <1>2, <1>3 DEF q, pages, Words, EveryPage

\* The values of a table change, and at most more pages are marked.
LEMMA UploadGoesOn ==
  ASSUME NEW t, NEW u, TableOK(t), Uploaded(t, {}), u.gpu = t.gpu,
         \A q: Marked(t, q) => Marked(u, q),
         \A i \in 1..Len(u.values):
            \/ i \in 1..Len(t.values) /\ u.values[i] = t.values[i]
            \/ i > Len(t.gpu) \/ t.gpu[i] = u.values[i]
            \/ Marked(u, index_to_page(i - 1))
  PROVE  Uploaded(u, {})
BY DEF Uploaded

\* A word gets one more mark.
LEMMA MarkWord ==
  ASSUME NEW d \in Seq(SUBSET EveryPage), NEW w \in 1..Len(d), NEW p \in EveryPage
  PROVE  LET e == [d EXCEPT ![w] = @ \cup {p}]
         IN  /\ e \in Seq(SUBSET EveryPage) /\ Len(e) = Len(d)
             /\ p \in e[w] /\ \A v \in 1..Len(d): d[v] \subseteq e[v]
OBVIOUS

LEMMA SetFacts ==
  ASSUME NEW t, TableOK(t), NEW i \in Nat, i < Len(t.values), NEW v \in Inputs
  PROVE  /\ TableOK(set(t, i, v))
         /\ set(t, i, v).values = [t.values EXCEPT ![i + 1] = v]
         /\ Len(set(t, i, v).values) = Len(t.values)
         /\ Uploaded(t, {}) => Uploaded(set(t, i, v), {})
<1> DEFINE w == index_to_page(i) \div PagesPerDirtyWord + 1
           p == index_to_page(i) % PagesPerDirtyWord
           u == set(t, i, v)
<1>1. /\ t \in Table(Inputs) /\ Len(t.values) \in Nat /\ Len(t.dirty) = Words(Len(t.values))
      /\ t.values \in Seq(Inputs) /\ t.gpu \in Seq(Inputs) /\ t.dirty \in Seq(SUBSET EveryPage)
  BY TableFields DEF TableOK
<1>2. index_to_page(i) \in Nat /\ w \in 1..Len(t.dirty) /\ p \in EveryPage
  BY <1>1, HasItsWord
<1>3. u = [[t EXCEPT !.values[i + 1] = v] EXCEPT !.dirty[w] = @ \cup {p}]
  BY DEF set, note_changed_index
<1> HIDE DEF w, p, u
<1>4. PICK d : d = [t.dirty EXCEPT ![w] = @ \cup {p}]
  OBVIOUS
<1>5. PICK s : s = [t.values EXCEPT ![i + 1] = v]
  OBVIOUS
<1>6. /\ d \in Seq(SUBSET EveryPage) /\ Len(d) = Len(t.dirty)
      /\ p \in d[w] /\ \A x \in 1..Len(t.dirty): t.dirty[x] \subseteq d[x]
  BY <1>1, <1>2, <1>4, MarkWord
<1>7. /\ s \in Seq(Inputs) /\ Len(s) = Len(t.values)
      /\ \A j \in 1..Len(s): s[j] = IF j = i + 1 THEN v ELSE t.values[j]
  BY <1>1, <1>5
<1>8. u = [t EXCEPT !.values = s, !.dirty = d]
  BY <1>1, <1>3, <1>4, <1>5 DEF Table
<1>9. /\ u \in Table(Inputs) /\ u.values = s /\ u.dirty = d /\ u.gpu = t.gpu
      /\ u.full = t.full /\ u.staged = t.staged
  BY <1>1, <1>6, <1>7, <1>8 DEF Table, EveryPage
<1>10. TableOK(u)
  BY <1>1, <1>6, <1>7, <1>9 DEF TableOK
<1>11. Marked(u, index_to_page(i)) /\ \A q: Marked(t, q) => Marked(u, q)
  BY <1>2, <1>6, <1>9 DEF Marked, w, p
<1>12. Uploaded(t, {}) => Uploaded(u, {})
  <2>1. ASSUME NEW j \in 1..Len(s)
        PROVE  (j \in 1..Len(t.values) /\ s[j] = t.values[j]) \/ Marked(u, index_to_page(j - 1))
    <3>1. CASE j = i + 1
      <4>1. j - 1 = i
        BY <3>1
      <4> QED BY <1>11, <4>1
    <3>2. CASE j # i + 1
      BY <1>7, <3>2
    <3> QED BY <3>1, <3>2
  <2> QED BY <1>9, <1>11, <2>1, UploadGoesOn
<1> QED BY <1>5, <1>7, <1>9, <1>10, <1>12 DEF u

LEMMA DivCeilGrows ==
  ASSUME NEW a \in Nat, NEW c \in Nat, a <= c, NEW b \in Nat \ {0}
  PROVE  DivCeil(a, b) <= DivCeil(c, b)
<1> DEFINE d == DivCeil(a, b)
           e == DivCeil(c, b)
<1>1. d \in Nat /\ e \in Nat /\ b * e >= c
  BY DivCeilBounds
<1>2. b * d <= a + b - 1
  <2>1. a + b - 1 \in Nat
    OBVIOUS
  <2>2. PICK n \in Nat : n = a + b - 1
    BY <2>1
  <2>3. PICK m \in 0..b-1 : n \div b \in Nat /\ n = b * (n \div b) + m
    BY Division
  <2>4. d = n \div b
    BY <2>2 DEF DivCeil
  <2> HIDE DEF d
  <2>5. b * d \in Nat /\ n = b * d + m
    BY <1>1, <2>3, <2>4
  <2> QED BY <2>2, <2>5
<1> HIDE DEF d, e
<1>3. SUFFICES ASSUME d >= e + 1 PROVE FALSE
  BY <1>1 DEF d, e
<1>4. b * d >= b * (e + 1) /\ b * (e + 1) = b * e + b /\ b * e \in Nat /\ b * d \in Nat
  BY <1>1, <1>3
<1> QED BY <1>1, <1>2, <1>4

LEMMA WordsGrow ==
  ASSUME NEW m \in Nat, NEW n \in Nat, m <= n
  PROVE  Words(m) \in Nat /\ Words(n) \in Nat /\ Words(m) <= Words(n)
<1>1. /\ DivCeil(m, PageSize) \in Nat /\ DivCeil(n, PageSize) \in Nat
      /\ DivCeil(m, PageSize) <= DivCeil(n, PageSize)
  BY Sizes, DivCeilBounds, DivCeilGrows
<1> QED BY <1>1, Sizes, DivCeilBounds, DivCeilGrows DEF Words

LEMMA GrowFacts ==
  ASSUME NEW t, TableOK(t), NEW len \in Nat
  PROVE  /\ TableOK(grow(t, len))
         /\ Len(grow(t, len).values) = IF Len(t.values) >= len THEN Len(t.values) ELSE len
         /\ \A j \in 1..Len(grow(t, len).values):
               grow(t, len).values[j] = IF j <= Len(t.values) THEN t.values[j] ELSE Zero
         /\ Uploaded(t, {}) => Uploaded(grow(t, len), {})
<1>1. /\ t \in Table(Inputs) /\ Len(t.values) \in Nat /\ Len(t.dirty) = Words(Len(t.values))
      /\ t.values \in Seq(Inputs) /\ t.gpu \in Seq(Inputs) /\ t.dirty \in Seq(SUBSET EveryPage)
      /\ Len(t.dirty) \in Nat /\ Len(t.gpu) \in Nat
  BY TableFields DEF TableOK
<1>2. CASE Len(t.values) >= len
  <2>1. grow(t, len) = t
    BY <1>2 DEF grow
  <2> QED BY <1>1, <1>2, <2>1
<1>3. CASE Len(t.values) < len
  <2> DEFINE end == index_to_page(Len(t.values))
             word == end \div PagesPerDirtyWord + 1
             rest == (end % PagesPerDirtyWord)..PagesPerDirtyWord-1
             marked == IF end % PagesPerDirtyWord # 0 /\ word \in DOMAIN t.dirty
                       THEN [t.dirty EXCEPT ![word] = @ \cup rest]
                       ELSE t.dirty
             u == grow(t, len)
  <2>1. u = [t EXCEPT !.values = Resized(@, len, Zero),
                      !.dirty = Resized(marked, Words(len), EveryPage)]
    BY <1>1, <1>3 DEF grow, Words
  <2>2. rest \subseteq EveryPage
    <3>1. end \in Nat
      BY <1>1, Sizes, Division DEF index_to_page
    <3> HIDE DEF end
    <3>2. end % PagesPerDirtyWord \in Nat
      BY <3>1, Sizes, Division
    <3> QED BY <3>2 DEF EveryPage
  <2> HIDE DEF rest, word, end
  <2>3. /\ marked \in Seq(SUBSET EveryPage) /\ Len(marked) = Len(t.dirty)
        /\ \A x \in 1..Len(t.dirty): t.dirty[x] \subseteq marked[x]
    BY <1>1, <2>2
  <2> HIDE DEF marked, u
  <2>4. PICK s : s = Resized(t.values, len, Zero)
    OBVIOUS
  <2>5. PICK d : d = Resized(marked, Words(len), EveryPage)
    OBVIOUS
  <2>6. /\ s \in Seq(Inputs) /\ Len(s) = len
        /\ \A j \in 1..len: s[j] = IF j <= Len(t.values) THEN t.values[j] ELSE Zero
    BY <1>1, <2>4, GrownValues
  <2>7. Words(len) \in Nat /\ Len(t.dirty) <= Words(len)
    BY <1>1, <1>3, WordsGrow
  <2>8. /\ d \in Seq(SUBSET EveryPage) /\ Len(d) = Words(len)
        /\ \A x \in 1..Len(t.dirty): t.dirty[x] \subseteq d[x]
    <3>1. /\ d \in Seq(SUBSET EveryPage) /\ Len(d) = Words(len)
          /\ \A x \in 1..Words(len): d[x] = IF x <= Len(marked) THEN marked[x] ELSE EveryPage
      BY <2>3, <2>5, <2>7, GrownWords
    <3> QED BY <1>1, <2>3, <2>7, <3>1
  <2>9. u = [t EXCEPT !.values = s, !.dirty = d]
    BY <2>1, <2>4, <2>5
  <2>10. /\ u \in Table(Inputs) /\ u.values = s /\ u.dirty = d /\ u.gpu = t.gpu
         /\ u.full = t.full /\ u.staged = t.staged
    BY <1>1, <2>6, <2>8, <2>9 DEF Table, EveryPage
  <2>11. TableOK(u)
    <3>1. \A i \in Len(s)+1..Len(t.gpu): i \in Len(t.values)+1..Len(t.gpu)
      BY <1>1, <1>3, <2>6
    <3> QED BY <2>6, <2>8, <2>10, <3>1 DEF TableOK
  <2>12. \A q: Marked(t, q) => Marked(u, q)
    <3>1. \A x \in 1..Len(t.dirty): x \in 1..Len(d)
      BY <1>1, <2>7, <2>8
    <3> QED BY <2>8, <2>10, <3>1 DEF Marked
  <2>13. ASSUME NEW j \in 1..Len(s), j \notin 1..Len(t.values)
         PROVE  j > Len(t.gpu) \/ t.gpu[j] = s[j]
    <3>1. s[j] = Zero /\ j > Len(t.values)
      BY <1>1, <2>6, <2>13
    <3>2. j <= Len(t.gpu) => t.gpu[j] = Zero
      BY <1>1, <2>6, <3>1 DEF TableOK
    <3> QED BY <1>1, <2>6, <3>1, <3>2
  <2>14. \A j \in 1..Len(t.values): j \in 1..Len(s) => s[j] = t.values[j]
    BY <1>1, <2>6
  <2>15. Uploaded(t, {}) => Uploaded(u, {})
    BY <2>10, <2>12, <2>13, <2>14, UploadGoesOn
  <2> QED BY <1>1, <1>3, <2>6, <2>10, <2>11, <2>15 DEF u
<1> QED BY <1>1, <1>2, <1>3

\* Cut to its own length a table is the same.
LEMMA TruncateFacts ==
  ASSUME NEW t, TableOK(t)
  PROVE  truncate(t, Len(t.values)) = t
<1>1. /\ t \in Table(Inputs) /\ Len(t.dirty) = Words(Len(t.values))
      /\ t.values \in Seq(Inputs) /\ t.dirty \in Seq(SUBSET EveryPage)
      /\ Len(t.values) \in Nat /\ Len(t.dirty) \in Nat
  BY TableFields DEF TableOK
<1>2. \A n \in Nat: Min({n, n}) = n
  BY DEF Min
<1>3. /\ SubSeq(t.values, 1, Len(t.values)) = t.values
      /\ SubSeq(t.dirty, 1, Len(t.dirty)) = t.dirty
  BY <1>1
<1>4. truncate(t, Len(t.values)) = [t EXCEPT !.values = t.values, !.dirty = t.dirty]
  BY <1>1, <1>2, <1>3 DEF truncate, Words
<1> QED BY <1>1, <1>4 DEF Table

LEMMA SetAllFacts ==
  ASSUME NEW t, TableOK(t), NEW contents \in Seq(Inputs), Len(contents) = Len(t.values)
  PROVE  /\ TableOK(set_all(t, contents)) /\ set_all(t, contents).values = contents
         /\ Uploaded(set_all(t, contents), {})
<1>1. /\ t \in Table(Inputs) /\ Len(t.values) \in Nat /\ Len(t.dirty) = Words(Len(t.values))
      /\ t.gpu \in Seq(Inputs) /\ t.dirty \in Seq(SUBSET EveryPage) /\ Len(t.dirty) \in Nat
  BY TableFields DEF TableOK
<1> DEFINE new(w) == {p \in EveryPage: (w - 1) * PagesPerDirtyWord + p
                                        < DivCeil(Len(contents), PageSize)}
           u == set_all(t, contents)
<1>2. PICK d : d = [w \in DOMAIN t.dirty |-> t.dirty[w] \cup new(w)]
  OBVIOUS
<1>3. u = [t EXCEPT !.values = contents, !.dirty = d]
  BY <1>1, <1>2 DEF set_all, Table
<1>4. \A w: new(w) \subseteq EveryPage
  OBVIOUS
<1> HIDE DEF new, u
<1>5. /\ d \in Seq(SUBSET EveryPage) /\ Len(d) = Len(t.dirty)
      /\ \A w \in 1..Len(d): d[w] = t.dirty[w] \cup new(w)
  <2>1. \A w \in 1..Len(t.dirty): t.dirty[w] \cup new(w) \in SUBSET EveryPage
    BY <1>1, <1>4
  <2>2. d = [w \in 1..Len(t.dirty) |-> t.dirty[w] \cup new(w)]
    BY <1>1, <1>2
  <2> QED BY <1>1, <2>1, <2>2
<1>6. /\ u \in Table(Inputs) /\ u.values = contents /\ u.dirty = d /\ u.gpu = t.gpu
      /\ u.full = t.full /\ u.staged = t.staged
  BY <1>1, <1>3, <1>5 DEF Table, EveryPage
<1>7. TableOK(u)
  BY <1>1, <1>5, <1>6 DEF TableOK
<1>8. ASSUME NEW i \in 1..Len(contents) PROVE Marked(u, index_to_page(i - 1))
  <2>1. PICK k \in Nat : k = i - 1 /\ k < Len(contents)
    BY <1>1
  <2>2. PICK q : q = index_to_page(k)
    OBVIOUS
  <2>3. /\ q \in Nat /\ q \div PagesPerDirtyWord + 1 \in 1..Len(d)
        /\ q % PagesPerDirtyWord \in EveryPage
    BY <1>1, <1>5, <2>1, <2>2, HasItsWord
  <2>4. q < DivCeil(Len(contents), PageSize)
    BY <1>1, <2>1, <2>2, Sizes, InAPiece DEF index_to_page
  <2>5. PICK x \in Nat : x = q \div PagesPerDirtyWord
    BY <2>3, Sizes, Division
  <2>6. PICK p \in EveryPage : p = q % PagesPerDirtyWord /\ q = PagesPerDirtyWord * x + p
    BY <2>3, <2>5, Sizes, Division
  <2>7. q = ((x + 1) - 1) * PagesPerDirtyWord + p
    BY <2>6, Sizes DEF EveryPage
  <2>8. p \in new(x + 1)
    BY <2>4, <2>7 DEF new
  <2>9. p \in d[x + 1]
    BY <1>5, <2>3, <2>5, <2>8
  <2> QED BY <1>6, <2>1, <2>2, <2>3, <2>5, <2>6, <2>9 DEF Marked
<1>9. Uploaded(u, {})
  BY <1>6, <1>8 DEF Uploaded
<1> QED BY <1>6, <1>7, <1>9 DEF u

-----------------------------------------------------------------------------
(* The size of a buffer.                                                   *)

\* The first n powers of b.
Powers(b, n, f) ==
    /\ f \in [0..n -> Nat] /\ f[0] = 1
    /\ \A k \in 0..n: k # 0 => f[k] = b * f[k - 1]

LEMMA PowersExist ==
  ASSUME NEW b \in Nat, NEW n \in Nat
  PROVE  \E f: Powers(b, n, f)
<1> DEFINE T == {m \in Nat: \E f: Powers(b, m, f)}
<1>1. 0 \in T
  <2>1. Powers(b, 0, [k \in 0..0 |-> 1])
    BY DEF Powers
  <2> QED BY <2>1
<1>2. ASSUME NEW k \in T PROVE k + 1 \in T
  <2>1. PICK f: Powers(b, k, f)
    BY <1>2
  <2>2. k \in Nat /\ f \in [0..k -> Nat] /\ f[0] = 1 /\ f[k] \in Nat
        /\ \A i \in 0..k: i # 0 => f[i] = b * f[i - 1]
    BY <2>1 DEF Powers
  <2>3. PICK x \in Nat : x = b * f[k]
    BY <2>2
  <2> DEFINE g == [i \in 0..k+1 |-> IF i = k + 1 THEN x ELSE f[i]]
  <2>4. g \in [0..k+1 -> Nat] /\ g[0] = 1
    BY <2>2, <2>3
  <2>5. ASSUME NEW i \in 0..k+1, i # 0 PROVE g[i] = b * g[i - 1]
    <3>1. i - 1 \in 0..k /\ g[i - 1] = f[i - 1]
      BY <2>2, <2>5
    <3>2. CASE i = k + 1
      <4>1. i - 1 = k /\ g[i] = x
        BY <2>2, <3>2
      <4> QED BY <2>3, <3>1, <4>1
    <3>3. CASE i # k + 1
      <4>1. i \in 0..k /\ g[i] = f[i]
        BY <2>2, <3>3
      <4> QED BY <2>2, <2>5, <3>1, <4>1
    <3> QED BY <3>2, <3>3
  <2> HIDE DEF g
  <2>6. Powers(b, k + 1, g)
    BY <2>4, <2>5 DEF Powers
  <2> QED BY <2>2, <2>6
<1> HIDE DEF T
<1>3. T = Nat
  <2>1. T \subseteq Nat
    BY DEF T
  <2> QED BY <1>1, <1>2, <2>1, Reached
<1> QED BY <1>3 DEF T

LEMMA PowersAgree ==
  ASSUME NEW b \in Nat, NEW m \in Nat, NEW n \in Nat, m <= n,
         NEW f, NEW g, Powers(b, m, f), Powers(b, n, g)
  PROVE  \A k \in 0..m: f[k] = g[k]
<1> DEFINE T == {k \in Nat: k <= m => f[k] = g[k]}
<1>1. 0 \in T
  BY DEF Powers
<1>2. ASSUME NEW k \in T PROVE k + 1 \in T
  <2>1. SUFFICES ASSUME k + 1 <= m PROVE f[k + 1] = g[k + 1]
    BY <1>2
  <2>2. f[k] = g[k] /\ k + 1 \in 0..m /\ k + 1 \in 0..n /\ k + 1 # 0 /\ (k + 1) - 1 = k
    BY <1>2, <2>1
  <2>3. f[k + 1] = b * f[k] /\ g[k + 1] = b * g[k]
    BY <2>2 DEF Powers
  <2> QED BY <2>2, <2>3
<1> HIDE DEF T
<1>3. T = Nat
  <2>1. T \subseteq Nat
    BY DEF T
  <2> QED BY <1>1, <1>2, <2>1, Reached
<1> QED BY <1>3 DEF T

\* The function that a recursive definition of the powers stands for.
AllPowers(b) == CHOOSE f: f = [k \in Nat |-> IF k = 0 THEN 1 ELSE b * f[k - 1]]

LEMMA PowersDefined ==
  ASSUME NEW b \in Nat, NEW P, P = AllPowers(b)
  PROVE  P[0] = 1 /\ \A k \in Nat: P[k] \in Nat /\ P[k + 1] = b * P[k]
<1> DEFINE F(n) == CHOOSE f: Powers(b, n, f)
           G == [n \in Nat |-> F(n)[n]]
<1>1. \A n \in Nat: Powers(b, n, F(n))
  BY PowersExist
<1> HIDE DEF F
<1>2. \A n \in Nat: G[n] \in Nat
  BY <1>1 DEF Powers
<1>3. G[0] = 1
  BY <1>1 DEF Powers
<1>4. ASSUME NEW n \in Nat, n # 0 PROVE G[n] = b * G[n - 1]
  <2>1. n - 1 \in Nat /\ n - 1 <= n /\ n \in 0..n /\ n - 1 \in 0..n-1
    BY <1>4
  <2>2. F(n)[n] = b * F(n)[n - 1]
    BY <1>1, <1>4, <2>1 DEF Powers
  <2>3. F(n - 1)[n - 1] = F(n)[n - 1]
    BY <1>1, <2>1, PowersAgree
  <2> QED BY <2>1, <2>2, <2>3
<1> HIDE DEF G
<1>5. G = [k \in Nat |-> IF k = 0 THEN 1 ELSE b * G[k - 1]]
  <2>1. G = [k \in Nat |-> G[k]]
    BY DEF G
  <2> QED BY <1>3, <1>4, <2>1
<1>6. P = [k \in Nat |-> IF k = 0 THEN 1 ELSE b * P[k - 1]]
  <2>1. AllPowers(b) = [k \in Nat |-> IF k = 0 THEN 1 ELSE b * AllPowers(b)[k - 1]]
    BY <1>5, Zenon DEF AllPowers
  <2> QED BY <2>1, Zenon
<1>7. P[0] = 1
  BY <1>6
<1>8. ASSUME NEW k \in Nat PROVE P[k + 1] = b * P[k]
  <2>1. k + 1 \in Nat /\ k + 1 # 0 /\ (k + 1) - 1 = k
    OBVIOUS
  <2>2. P[k + 1] = b * P[(k + 1) - 1]
    BY <1>6, <2>1
  <2> QED BY <2>1, <2>2
<1> DEFINE T == {k \in Nat: P[k] \in Nat}
<1>9. T = Nat
  <2>1. T \subseteq Nat /\ 0 \in T
    BY <1>7
  <2>2. ASSUME NEW k \in T PROVE k + 1 \in T
    BY <1>8, <2>2
  <2> HIDE DEF T
  <2> QED BY <2>1, <2>2, Reached
<1> QED BY <1>7, <1>8, <1>9

LEMMA GrowthPowers ==
  /\ ThreeTo[0] = 1 /\ \A k \in Nat: ThreeTo[k] \in Nat /\ ThreeTo[k + 1] = 3 * ThreeTo[k]
  /\ TwoTo[0] = 1 /\ \A k \in Nat: TwoTo[k] \in Nat /\ TwoTo[k + 1] = 2 * TwoTo[k]
<1>1. ThreeTo = AllPowers(3)
  BY Zenon DEF ThreeTo, AllPowers
<1>2. TwoTo = AllPowers(2)
  BY Zenon DEF TwoTo, AllPowers
<1> QED BY <1>1, <1>2, PowersDefined

\* The n-th power is not below n.
LEMMA PowersReach ==
  ASSUME NEW n \in Nat
  PROVE  Reaches(n, n) /\ TwoTo[n] > 0
<1> DEFINE T == {k \in Nat: /\ TwoTo[k] > 0 /\ ThreeTo[k] >= TwoTo[k]
                            /\ k = 0 \/ 2 * ThreeTo[k] >= 3 * TwoTo[k]
                            /\ ThreeTo[k] >= k * TwoTo[k]}
<1>1. 0 \in T
  BY GrowthPowers
<1>2. ASSUME NEW k \in T PROVE k + 1 \in T
  <2>1. PICK x \in Nat : x = TwoTo[k]
    BY GrowthPowers
  <2>2. PICK y \in Nat : y = ThreeTo[k]
    BY GrowthPowers
  <2>3. k \in Nat /\ x > 0 /\ y >= x /\ (k = 0 \/ 2 * y >= 3 * x) /\ y >= k * x
    BY <2>1, <2>2
  <2>4. TwoTo[k + 1] = 2 * x /\ ThreeTo[k + 1] = 3 * y
    BY <2>1, <2>2, <2>3, GrowthPowers
  <2>5. (k + 1) * (2 * x) = 2 * (k * x) + 2 * x /\ k * x \in Nat
    BY <2>3
  <2>6. 3 * y >= 2 * (k * x) + 2 * x
    <3>1. CASE k = 0
      BY <2>3, <3>1
    <3>2. CASE k = 1
      BY <2>3, <3>2
    <3>3. CASE k >= 2
      <4>1. k * x >= 2 * x
        BY <2>3, <3>3
      <4> QED BY <2>3, <2>5, <4>1
    <3> QED BY <2>3, <3>1, <3>2, <3>3
  <2>7. 2 * x > 0 /\ 3 * y >= 2 * x /\ 2 * (3 * y) >= 3 * (2 * x)
    BY <2>3
  <2> QED BY <2>3, <2>4, <2>5, <2>6, <2>7
<1> HIDE DEF T
<1>3. T = Nat
  <2>1. T \subseteq Nat
    BY DEF T
  <2> QED BY <1>1, <1>2, <2>1, Reached
<1> QED BY <1>3 DEF T, Reaches

\* A buffer of that size holds the values.
LEMMA AllocationFits ==
  ASSUME NEW len \in Nat
  PROVE  /\ calculate_allocation_size(len) \in Nat
         /\ calculate_allocation_size(len) >= len
<1> DEFINE Right(k) == Reaches(k, len) /\ \A j \in 0..k-1: ~Reaches(j, len)
           exponent == CHOOSE k \in 0..len: Right(k)
           size == ThreeTo[exponent] \div TwoTo[exponent]
<1>1. \E k \in 0..len: Right(k)
  <2> DEFINE T == {k \in Nat: k <= len /\ Reaches(k, len)}
  <2>1. len \in T
    BY PowersReach
  <2>2. PICK k \in T : \A j \in T : k <= j
    <3>1. T \subseteq Nat /\ T # {}
      BY <2>1
    <3> HIDE DEF T
    <3> QED BY <3>1, LeastExists
  <2>3. ASSUME NEW j \in 0..k-1 PROVE ~Reaches(j, len)
    BY <2>2
  <2> QED BY <2>2, <2>3
<1>2. exponent \in 0..len /\ Reaches(exponent, len)
  BY <1>1
<1> HIDE DEF exponent
<1>3. PICK x \in Nat : x = TwoTo[exponent] /\ x > 0
  BY <1>2, GrowthPowers, PowersReach
<1>4. PICK y \in Nat : y = ThreeTo[exponent] /\ y >= len * x
  BY <1>2, <1>3, GrowthPowers DEF Reaches
<1>5. size \in Nat /\ size >= len
  <2>6. x \in Nat \ {0}
    BY <1>3
  <2>0. /\ y \div x \in Nat /\ y % x \in 0..x-1
        /\ y = x * (y \div x) + (y % x)
    BY <2>6, Division
  <2>1. PICK m \in 0..x-1 : y \div x \in Nat /\ y = x * (y \div x) + m
    BY <2>0
  <2>2. PICK d \in Nat : d = y \div x
    BY <2>1
  <2>3. SUFFICES ASSUME d + 1 <= len PROVE FALSE
    BY <1>3, <1>4, <2>2
  <2>4. x * (d + 1) <= x * len /\ x * (d + 1) = x * d + x /\ x * len = len * x
    BY <1>3, <2>2, <2>3
  <2>5. y < x * d + x /\ x * d \in Nat /\ x * len \in Nat
    BY <1>3, <2>1, <2>2
  <2> QED BY <1>4, <2>4, <2>5
<1> HIDE DEF size
<1>6. PICK c \in Nat : c = DivCeil(size, ReallocationMultiple) /\ ReallocationMultiple * c >= size
  BY <1>5, Sizes, DivCeilBounds
<1>7. calculate_allocation_size(len) = ReallocationMultiple * c
  BY <1>6 DEF calculate_allocation_size, exponent, size
<1>8. ReallocationMultiple * c \in Nat
  BY <1>6, Sizes
<1> QED BY <1>5, <1>6, <1>7, <1>8

-----------------------------------------------------------------------------
(* An upload.                                                              *)

LEMMA NothingHasNoWords == Words(0) = 0
<1>1. \A b \in Nat \ {0}: DivCeil(0, b) = 0
  <2>1. TAKE b \in Nat \ {0}
  <2>2. (0 * b + (b - 1)) \div b = 0
    BY DivisionIsUnique
  <2>3. 0 + b - 1 = 0 * b + (b - 1)
    OBVIOUS
  <2> QED BY <2>2, <2>3 DEF DivCeil
<1> QED BY <1>1, Sizes DEF Words

LEMMA DirtyPagesFacts ==
  ASSUME NEW t, t.dirty \in Seq(SUBSET EveryPage)
  PROVE  /\ DirtyPages(t) \subseteq Nat
         /\ \A q \in Nat: Marked(t, q) => q \in DirtyPages(t)
         /\ DirtyPages(t) = {} <=> \A w \in 1..Len(t.dirty): t.dirty[w] = {}
<1> DEFINE InWord(w) == {(w - 1) * PagesPerDirtyWord + p: p \in t.dirty[w]}
<1>1. DirtyPages(t) = UNION {InWord(w): w \in 1..Len(t.dirty)}
  BY DEF DirtyPages
<1>2. ASSUME NEW w \in 1..Len(t.dirty), NEW p \in t.dirty[w]
      PROVE  (w - 1) * PagesPerDirtyWord + p \in Nat
  <2>1. w - 1 \in Nat /\ p \in Nat
    BY DEF EveryPage
  <2> QED BY <2>1, Sizes
<1>3. ASSUME NEW q \in Nat, Marked(t, q) PROVE q \in DirtyPages(t)
  <2>1. PICK x \in Nat : x = q \div PagesPerDirtyWord
    BY Sizes, Division
  <2>2. PICK p \in EveryPage : p = q % PagesPerDirtyWord /\ q = PagesPerDirtyWord * x + p
    BY <2>1, Sizes, Division DEF EveryPage
  <2>3. x + 1 \in 1..Len(t.dirty) /\ p \in t.dirty[x + 1]
    BY <1>3, <2>1, <2>2 DEF Marked
  <2>4. q = ((x + 1) - 1) * PagesPerDirtyWord + p
    BY <2>2, Sizes DEF EveryPage
  <2>5. q \in InWord(x + 1)
    BY <2>3, <2>4
  <2> HIDE DEF InWord
  <2> QED BY <1>1, <2>3, <2>5
<1>4. ASSUME NEW w \in 1..Len(t.dirty), NEW p \in t.dirty[w] PROVE DirtyPages(t) # {}
  <2>1. (w - 1) * PagesPerDirtyWord + p \in InWord(w)
    OBVIOUS
  <2> HIDE DEF InWord
  <2> QED BY <1>1, <2>1
<1>5. (\A w \in 1..Len(t.dirty): t.dirty[w] = {}) => DirtyPages(t) = {}
  BY <1>1
<1>6. DirtyPages(t) \subseteq Nat
  BY <1>1, <1>2
<1> QED BY <1>3, <1>4, <1>5, <1>6

LEMMA CleanFacts ==
  ASSUME NEW t \in Table(Inputs)
  PROVE  /\ Clean(t) \in Table(Inputs) /\ Len(Clean(t).dirty) = Len(t.dirty)
         /\ \A w \in 1..Len(t.dirty): Clean(t).dirty[w] = {}
         /\ \A q: ~Marked(Clean(t), q)
         /\ Clean(t).values = t.values /\ Clean(t).gpu = t.gpu
         /\ Clean(t).full = t.full /\ Clean(t).staged = t.staged
<1>1. t.dirty \in Seq(SUBSET EveryPage)
  BY TableFields
<1>2. PICK d : d = [w \in DOMAIN t.dirty |-> {}]
  OBVIOUS
<1>3. d \in Seq(SUBSET EveryPage) /\ Len(d) = Len(t.dirty) /\ \A w \in 1..Len(t.dirty): d[w] = {}
  <2>1. d = [w \in 1..Len(t.dirty) |-> {}]
    BY <1>1, <1>2
  <2> QED BY <1>1, <2>1
<1>4. Clean(t) = [t EXCEPT !.dirty = d]
  BY <1>2 DEF Clean, Table
<1>5. /\ Clean(t) \in Table(Inputs) /\ Clean(t).dirty = d
      /\ Clean(t).values = t.values /\ Clean(t).gpu = t.gpu
      /\ Clean(t).full = t.full /\ Clean(t).staged = t.staged
  BY <1>3, <1>4 DEF Table, EveryPage
<1>6. \A q: ~Marked(Clean(t), q)
  BY <1>3, <1>5 DEF Marked
<1> QED BY <1>3, <1>5, <1>6

\* Nothing staged and nothing to upload whole: the flags are as before.
LEMMA FlagsAsBefore ==
  ASSUME NEW A, NEW B, NEW C, NEW D, NEW E, NEW x,
         NEW c \in [values: A, dirty: B, gpu: C, full: D, staged: E],
         c.full = FALSE, c.staged = {}
  PROVE  /\ [c EXCEPT !.full = FALSE, !.staged = {}] = c
         /\ [[c EXCEPT !.staged = x] EXCEPT !.staged = {}, !.full = FALSE] = c
OBVIOUS

\* What a Prepare stage leaves of a table.
Prepared(t, u, v) ==
    /\ TableOK(v) /\ v.values = t.values /\ Written(v) /\ Uploaded(v, u.staged)

LEMMA FullUpload ==
  ASSUME NEW t \in Table(Inputs), t.staged = {}, Len(t.dirty) = Words(Len(t.values)),
         Len(t.gpu) >= Len(t.values), \A i \in Len(t.values)+1..Len(t.gpu): t.gpu[i] = Zero
  PROVE  /\ Prepared(t, write_entire_buffer(t), write_entire_buffer(t))
         /\ write_entire_buffer(t).staged = {}
<1> DEFINE g == [j \in DOMAIN t.gpu |-> IF j <= Len(t.values) THEN t.values[j] ELSE t.gpu[j]]
           a == [t EXCEPT !.gpu = g]
           u == write_entire_buffer(t)
<1>1. /\ t.values \in Seq(Inputs) /\ t.gpu \in Seq(Inputs) /\ t.dirty \in Seq(SUBSET EveryPage)
      /\ Len(t.values) \in Nat /\ Len(t.gpu) \in Nat /\ Len(t.dirty) \in Nat
  BY TableFields
<1>2. /\ g \in Seq(Inputs) /\ Len(g) = Len(t.gpu)
      /\ \A j \in 1..Len(t.values): g[j] = t.values[j]
      /\ \A j \in Len(t.values)+1..Len(g): g[j] = Zero
  <2>1. g = [j \in 1..Len(t.gpu) |-> IF j <= Len(t.values) THEN t.values[j] ELSE t.gpu[j]]
    BY <1>1
  <2>2. \A j \in 1..Len(t.gpu): (IF j <= Len(t.values) THEN t.values[j] ELSE t.gpu[j]) \in Inputs
    BY <1>1
  <2> HIDE DEF g
  <2>3. g \in Seq(Inputs) /\ Len(g) = Len(t.gpu)
    BY <1>1, <2>1, <2>2
  <2> QED BY <1>1, <2>1, <2>3
<1>3. u = [Clean(a) EXCEPT !.full = FALSE, !.staged = {}]
  BY DEF write_entire_buffer, finish_full_reupload, Table
<1> HIDE DEF g
<1>4. /\ a \in Table(Inputs) /\ a.values = t.values /\ a.dirty = t.dirty /\ a.gpu = g
  BY <1>1, <1>2 DEF Table
<1> HIDE DEF a, u
<1>5. PICK c \in Table(Inputs) : c = Clean(a)
  BY <1>4, CleanFacts
<1>6. /\ Len(c.dirty) = Len(t.dirty) /\ \A w \in 1..Len(t.dirty): c.dirty[w] = {}
      /\ c.values = t.values /\ c.gpu = g
  BY <1>4, <1>5, CleanFacts
<1>7. /\ u \in Table(Inputs) /\ u.values = c.values /\ u.gpu = c.gpu /\ u.dirty = c.dirty
      /\ ~u.full /\ u.staged = {}
  BY <1>3, <1>5 DEF Table
<1>8. TableOK(u)
  BY <1>2, <1>6, <1>7 DEF TableOK
<1>9. Written(u) /\ Uploaded(u, {})
  BY <1>1, <1>2, <1>6, <1>7 DEF Written, Uploaded
<1> QED BY <1>6, <1>7, <1>8, <1>9 DEF Prepared, u

LEMMA SparseUpload ==
  ASSUME NEW t, TableOK(t), Uploaded(t, {}), Len(t.gpu) >= Len(t.values)
  PROVE  Prepared(t, prepare_sparse_upload(t),
                  finish_sparse_job_preparation(prepare_sparse_upload(t)))
<1>1. /\ t \in Table(Inputs) /\ ~t.full /\ t.staged = {}
      /\ t.values \in Seq(Inputs) /\ t.gpu \in Seq(Inputs) /\ t.dirty \in Seq(SUBSET EveryPage)
      /\ Len(t.values) \in Nat /\ Len(t.gpu) \in Nat /\ Len(t.dirty) \in Nat
  BY TableFields DEF TableOK
<1>2. PICK c \in Table(Inputs) : c = Clean(t)
  BY <1>1, CleanFacts
<1>3. /\ Len(c.dirty) = Len(t.dirty) /\ \A w \in 1..Len(t.dirty): c.dirty[w] = {}
      /\ c.values = t.values /\ c.gpu = t.gpu /\ c.full = FALSE /\ c.staged = {}
  BY <1>1, <1>2, CleanFacts, TableFields
<1>4. TableOK(c) /\ Written(c)
  BY <1>2, <1>3 DEF TableOK, Written
<1> DEFINE pages == {[page |-> p, values |-> PageContents(t, p)]: p \in DirtyPages(t)}
           u == prepare_sparse_upload(t)
           v == finish_sparse_job_preparation(u)
<1>5. ASSUME NEW i \in 1..Len(t.values)
      PROVE  \/ t.gpu[i] = t.values[i]
             \/ index_to_page(i - 1) \in DirtyPages(t)
  <2>1. i <= Len(t.gpu)
    BY <1>1
  <2>4. PICK k \in Nat : k = i - 1
    BY <1>1
  <2>2. index_to_page(i - 1) \in Nat
    BY <2>4, Sizes, Division DEF index_to_page
  <2>3. t.gpu[i] = t.values[i] \/ Marked(t, index_to_page(i - 1))
    BY <1>1, <2>1 DEF Uploaded
  <2> QED BY <1>1, <2>2, <2>3, DirtyPagesFacts
<1>6. CASE DirtyPages(t) = {}
  <2>1. u = [c EXCEPT !.full = FALSE, !.staged = {}]
    BY <1>2, <1>6 DEF prepare_sparse_upload, finish_full_reupload
  <2>2. u = c
    BY <1>2, <1>3, <2>1, FlagsAsBefore DEF Table
  <2>3. v = c
    BY <1>3, <2>2 DEF finish_sparse_job_preparation
  <2>4. Uploaded(c, {})
    BY <1>3, <1>5, <1>6 DEF Uploaded
  <2> QED BY <1>3, <1>4, <2>2, <2>3, <2>4 DEF Prepared
<1>7. CASE DirtyPages(t) # {}
  <2>1. u = [c EXCEPT !.staged = pages]
    BY <1>2, <1>7 DEF prepare_sparse_upload
  <2>a. \A s \in pages: s.page \in DirtyPages(t) /\ s.values = PageContents(t, s.page)
    OBVIOUS
  <2>3. ASSUME NEW p \in DirtyPages(t) PROVE \E s \in pages: s.page = p
    <3>1. [page |-> p, values |-> PageContents(t, p)] \in pages
      OBVIOUS
    <3> HIDE DEF pages
    <3> QED BY <3>1
  <2>2. pages # {} /\ \A s \in pages: s.page \in Nat /\ s.values = PageContents(t, s.page)
    <3> HIDE DEF pages
    <3> QED BY <1>1, <1>7, <2>a, <2>3, DirtyPagesFacts
  <2> HIDE DEF pages, u
  <2>4. /\ u.staged = pages /\ v = [u EXCEPT !.staged = {}, !.full = FALSE]
    BY <1>2, <2>1, <2>2 DEF Table, finish_sparse_job_preparation
  <2>5. v = c
    <3>1. [[c EXCEPT !.staged = pages] EXCEPT !.staged = {}, !.full = FALSE] = c
      BY <1>2, <1>3, FlagsAsBefore DEF Table
    <3> QED BY <2>1, <2>4, <3>1, Zenon
  <2>6. \A p: PageContents(c, p) = PageContents(t, p)
    BY <1>3 DEF PageContents
  <2>7. Uploaded(c, pages)
    BY <1>3, <1>5, <2>2, <2>3, <2>6 DEF Uploaded
  <2> QED BY <1>3, <1>4, <2>4, <2>5, <2>7 DEF Prepared, u
<1> QED BY <1>6, <1>7

LEMMA UploadFacts ==
  ASSUME NEW t, TableOK(t), Uploaded(t, {}), NEW able \in BOOLEAN
  PROVE  /\ Prepared(t, write_buffers(t, able),
                     finish_sparse_job_preparation(write_buffers(t, able)))
         /\ ~able => write_buffers(t, able).staged = {}
<1>1. /\ t \in Table(Inputs) /\ ~t.full /\ t.staged = {} /\ Len(t.dirty) = Words(Len(t.values))
      /\ t.values \in Seq(Inputs) /\ t.gpu \in Seq(Inputs) /\ t.dirty \in Seq(SUBSET EveryPage)
      /\ Len(t.values) \in Nat /\ Len(t.gpu) \in Nat /\ Len(t.dirty) \in Nat
  BY TableFields DEF TableOK
<1>2. PICK capacity \in Nat : /\ capacity = calculate_allocation_size(Len(t.values))
                              /\ capacity >= Len(t.values)
  BY <1>1, AllocationFits
<1> DEFINE new == reserve(t, capacity)
           u == write_buffers(t, able)
           full == should_perform_full_reupload(new, Cardinality(DirtyPages(new)), able)
<1>3. u = IF t.values = <<>> THEN t
          ELSE IF full THEN write_entire_buffer(new) ELSE prepare_sparse_upload(new)
  BY <1>2 DEF write_buffers
<1>4. \A x: x.staged = {} => finish_sparse_job_preparation(x) = x
  BY DEF finish_sparse_job_preparation
<1>5. CASE t.values = <<>>
  <2>1. u = t /\ Len(t.values) = 0 /\ Len(t.dirty) = 0
    BY <1>1, <1>3, <1>5, NothingHasNoWords
  <2> HIDE DEF u
  <2>2. finish_sparse_job_preparation(u) = t
    BY <1>1, <1>4, <2>1
  <2>3. Written(t)
    BY <1>1, <2>1 DEF Written
  <2>4. Prepared(t, t, t)
    BY <1>1, <2>3 DEF Prepared
  <2>5. u.staged = {}
    BY <1>1, <2>1
  <2> QED BY <2>1, <2>2, <2>4, <2>5 DEF u
<1>6. CASE t.values # <<>> /\ full
  <2>1. u = write_entire_buffer(new)
    BY <1>3, <1>6
  <2> HIDE DEF u, full
  <2>2. /\ new \in Table(Inputs) /\ new.staged = {} /\ new.dirty = t.dirty
        /\ new.values = t.values /\ Len(new.gpu) >= Len(t.values)
        /\ \A i \in Len(t.values)+1..Len(new.gpu): new.gpu[i] = Zero
    <3>1. CASE capacity <= Len(t.gpu)
      <4>1. new = t
        BY <3>1 DEF reserve
      <4> QED BY <1>1, <1>2, <3>1, <4>1 DEF TableOK
    <3>2. CASE ~(capacity <= Len(t.gpu))
      <4>1. PICK g : g = Resized(<<>>, capacity, Zero)
        OBVIOUS
      <4>2. g \in Seq(Inputs) /\ Len(g) = capacity /\ \A i \in 1..capacity: g[i] = Zero
        <5>1. <<>> \in Seq(Inputs) /\ Len(<<>>) = 0
          OBVIOUS
        <5>2. /\ g \in Seq(Inputs) /\ Len(g) = capacity
              /\ \A i \in 1..capacity: g[i] = IF i <= Len(<<>>) THEN <<>>[i] ELSE Zero
          BY <4>1, <5>1, GrownValues
        <5> QED BY <5>1, <5>2
      <4>3. new = [t EXCEPT !.gpu = g, !.full = TRUE]
        BY <3>2, <4>1 DEF reserve
      <4> HIDE DEF new
      <4>4. /\ new.gpu = g /\ new.values = t.values /\ new.dirty = t.dirty
            /\ new.staged = t.staged /\ new \in Table(Inputs)
        BY <1>1, <4>2, <4>3 DEF Table
      <4>5. \A i \in Len(t.values)+1..Len(new.gpu): new.gpu[i] = Zero
        <5>1. ASSUME NEW i \in Len(t.values)+1..Len(g) PROVE i \in 1..capacity
          BY <1>1, <1>2, <4>2
        <5> QED BY <4>2, <4>4, <5>1
      <4> QED BY <1>1, <1>2, <4>2, <4>4, <4>5
    <3> QED BY <3>1, <3>2
  <2> HIDE DEF new
  <2>3. Prepared(new, u, u) /\ u.staged = {}
    BY <1>1, <2>1, <2>2, FullUpload
  <2>4. Prepared(t, u, u)
    BY <2>2, <2>3 DEF Prepared
  <2> QED BY <1>4, <2>3, <2>4 DEF u
<1>7. CASE t.values # <<>> /\ ~full
  <2>1. u = prepare_sparse_upload(new) /\ able /\ ~new.full
    BY <1>3, <1>7 DEF should_perform_full_reupload
  <2>2. new = t /\ Len(t.gpu) >= Len(t.values)
    <3>1. CASE capacity <= Len(t.gpu)
      BY <1>1, <1>2, <3>1 DEF reserve
    <3>2. CASE ~(capacity <= Len(t.gpu))
      <4>1. new = [t EXCEPT !.gpu = Resized(<<>>, capacity, Zero), !.full = TRUE]
        BY <3>2 DEF reserve
      <4>2. new.full
        BY <1>1, <4>1 DEF Table
      <4> QED BY <2>1, <4>2
    <3> QED BY <3>1, <3>2
  <2> HIDE DEF u, new, full
  <2>3. Prepared(t, u, finish_sparse_job_preparation(u))
    BY <2>1, <2>2, SparseUpload
  <2> QED BY <2>1, <2>3 DEF u
<1> QED BY <1>5, <1>6, <1>7

\* The place of an index in its page.
LEMMA PlaceInPage ==
  ASSUME NEW i \in Nat \ {0}
  PROVE  /\ index_to_page(i - 1) \in Nat /\ ((i - 1) % PageSize) + 1 \in 1..PageSize
         /\ index_to_page(i - 1) * PageSize + (((i - 1) % PageSize) + 1) = i
<1>1. PICK k \in Nat : k = i - 1
  OBVIOUS
<1>2. PICK q \in Nat : q = index_to_page(k)
  BY Sizes, Division DEF index_to_page
<1>3. PICK m \in 0..PageSize-1 : m = k % PageSize /\ k = PageSize * q + m
  BY <1>2, Sizes, Division DEF index_to_page
<1>4. m + 1 \in 1..PageSize /\ q * PageSize + (m + 1) = i
  BY <1>1, <1>2, <1>3, Sizes
<1> QED BY <1>1, <1>2, <1>3, <1>4

LEMMA ContentsAreValues ==
  ASSUME NEW t \in Table(Inputs), NEW i \in 1..Len(t.values)
  PROVE  PageContents(t, index_to_page(i - 1))[((i - 1) % PageSize) + 1] = t.values[i]
<1>1. i \in Nat \ {0} /\ Len(t.values) \in Nat /\ i <= Len(t.values)
  BY TableFields
<1>2. PICK q \in Nat, n \in 1..PageSize :
        q = index_to_page(i - 1) /\ n = ((i - 1) % PageSize) + 1 /\ q * PageSize + n = i
  BY <1>1, PlaceInPage
<1>3. PageContents(t, q)[n] = t.values[i]
  BY <1>1, <1>2 DEF PageContents
<1> QED BY <1>2, <1>3

\* The jobs make the buffer as the table.
LEMMA ScatterFacts ==
  ASSUME NEW t, TableOK(t), Written(t), NEW pages, Uploaded(t, pages)
  PROVE  LET u == [t EXCEPT !.gpu = Scattered(@, pages)]
         IN  TableOK(u) /\ u.values = t.values /\ Uploaded(u, {})
<1>1. /\ t \in Table(Inputs) /\ t.values \in Seq(Inputs) /\ t.gpu \in Seq(Inputs)
      /\ Len(t.values) \in Nat /\ Len(t.gpu) \in Nat /\ t.dirty \in Seq(SUBSET EveryPage)
  BY TableFields DEF TableOK
<1> DEFINE Here(j) == {s \in pages: s.page = index_to_page(j - 1)}
           At(j) == IF Here(j) = {} THEN t.gpu[j]
                    ELSE (CHOOSE s \in Here(j): TRUE).values[((j - 1) % PageSize) + 1]
           g == Scattered(t.gpu, pages)
<1>2. g = [j \in 1..Len(t.gpu) |-> At(j)]
  BY <1>1 DEF Scattered
<1>3. ASSUME NEW j \in 1..Len(t.gpu)
      PROVE  At(j) = IF j <= Len(t.values) THEN t.values[j] ELSE Zero
  <2>1. j \in Nat \ {0}
    BY <1>1
  <2>2. CASE Here(j) = {}
    <3>1. At(j) = t.gpu[j]
      BY <2>2
    <3>2. CASE j <= Len(t.values)
      <4>1. j \in 1..Len(t.values) /\ ~(j > Len(t.gpu))
        BY <1>1, <3>2
      <4>2. ~Marked(t, index_to_page(j - 1))
        BY DEF Marked, Written
      <4>3. ~ \E s \in pages: s.page = index_to_page(j - 1)
        BY <2>2
      <4>4. t.gpu[j] = t.values[j]
        BY <4>1, <4>2, <4>3 DEF Uploaded
      <4> QED BY <3>1, <3>2, <4>4
    <3>3. CASE ~(j <= Len(t.values))
      <4>1. j \in Len(t.values)+1..Len(t.gpu)
        BY <1>1, <3>3
      <4> QED BY <3>1, <3>3, <4>1 DEF TableOK
    <3> QED BY <3>2, <3>3
  <2>3. CASE Here(j) # {}
    <3>1. PICK s \in Here(j) : At(j) = s.values[((j - 1) % PageSize) + 1]
      <4>1. (CHOOSE s \in Here(j): TRUE) \in Here(j)
        BY <2>3
      <4> QED BY <2>3, <4>1
    <3>2. s.values = PageContents(t, index_to_page(j - 1))
      BY <3>1 DEF Uploaded
    <3>3. CASE j <= Len(t.values)
      <4>1. j \in 1..Len(t.values)
        BY <1>1, <3>3
      <4> QED BY <1>1, <3>1, <3>2, <3>3, <4>1, ContentsAreValues
    <3>4. CASE ~(j <= Len(t.values))
      <4>1. PICK q \in Nat, n \in 1..PageSize :
              q = index_to_page(j - 1) /\ n = ((j - 1) % PageSize) + 1 /\ q * PageSize + n = j
        BY <2>1, PlaceInPage
      <4>2. PageContents(t, q)[n] = Zero
        BY <3>4, <4>1 DEF PageContents
      <4> QED BY <3>1, <3>2, <3>4, <4>1, <4>2
    <3> QED BY <3>3, <3>4
  <2> QED BY <2>2, <2>3
<1> HIDE DEF At, g
<1>4. \A j \in 1..Len(t.gpu): At(j) \in Inputs
  BY <1>1, <1>3, ZeroIsInput
<1>5. /\ g \in Seq(Inputs) /\ Len(g) = Len(t.gpu)
      /\ \A j \in 1..Len(g): g[j] = IF j <= Len(t.values) THEN t.values[j] ELSE Zero
  BY <1>1, <1>2, <1>3, <1>4
<1> DEFINE u == [t EXCEPT !.gpu = g]
<1>6. /\ u \in Table(Inputs) /\ u.values = t.values /\ u.gpu = g /\ u.dirty = t.dirty
      /\ u.full = t.full /\ u.staged = t.staged
  BY <1>1, <1>5 DEF Table
<1> HIDE DEF u
<1>7. TableOK(u)
  BY <1>1, <1>5, <1>6 DEF TableOK
<1>8. Uploaded(u, {})
  BY <1>1, <1>5, <1>6 DEF Uploaded
<1>9. u = [t EXCEPT !.gpu = Scattered(@, pages)]
  BY DEF u, g
<1> QED BY <1>6, <1>7, <1>8, <1>9

-----------------------------------------------------------------------------
(* Slots.                                                                  *)

LEMMA SlotFields ==
  ASSUME SlotsOK
  PROVE  /\ slots \in Slots /\ changes \in Nat /\ changes <= MaxChanges
         /\ slots.generations \in Seq(0..Generations-1) /\ slots.allocated \in Seq(BOOLEAN)
         /\ slots.free \in Seq(0..MaxSlots-1)
         /\ Len(slots.generations) \in Nat /\ Len(slots.free) \in Nat
         /\ Len(slots.allocated) = Len(slots.generations)
         /\ Len(slots.generations) <= MaxSlots
         /\ MaxSlots \in Nat /\ MaxChanges \in Nat /\ Generations \in Nat \ {0}
BY SceneAssumption DEF SlotsOK, Slots

LEMMA FrontFacts ==
  ASSUME NEW V, NEW s \in Seq(V), Len(s) # 0
  PROVE  LET f == SubSeq(s, 1, Len(s) - 1)
         IN  /\ f \in Seq(V) /\ Len(f) = Len(s) - 1
             /\ \A k \in 1..Len(f): f[k] = s[k]
<1>0. Len(s) \in Nat /\ Len(s) - 1 \in Nat
  OBVIOUS
<1>a. PICK n : n = Len(s) - 1
  OBVIOUS
<1>1. n \in Nat /\ n = Len(s) - 1 /\ n <= Len(s)
  BY <1>0, <1>a
<1>2. SubSeq(s, 1, n) \in Seq(V)
  BY <1>1
<1>3. Len(SubSeq(s, 1, n)) = n
  BY <1>1
<1>4. \A k \in 1..n: SubSeq(s, 1, n)[k] = s[k]
  BY <1>1
<1> QED BY <1>1, <1>2, <1>3, <1>4

LEMMA ItemFacts ==
  ASSUME NEW V, NEW s \in Seq(V), NEW k \in 1..Len(s)
  PROVE  s[k] \in V
OBVIOUS

LEMMA AppendFacts ==
  ASSUME NEW V, NEW s \in Seq(V), NEW x \in V
  PROVE  /\ Append(s, x) \in Seq(V) /\ Len(Append(s, x)) = Len(s) + 1
         /\ Append(s, x)[Len(s) + 1] = x
         /\ \A k \in 1..Len(s): Append(s, x)[k] = s[k]
OBVIOUS

LEMMA PutFacts ==
  ASSUME NEW V, NEW s \in Seq(V), NEW i \in 1..Len(s), NEW x \in V
  PROVE  LET p == [s EXCEPT ![i] = x]
         IN  /\ p \in Seq(V) /\ Len(p) = Len(s) /\ p[i] = x
             /\ \A k \in 1..Len(s): k # i => p[k] = s[k]
OBVIOUS

\* The slot that is handed out next is free, and its id was never issued.
LEMMA NextIdFacts ==
  ASSUME SlotsOK, IssuedOK, NextId.slot < MaxSlots
  PROVE  /\ NextId \in Ids /\ NextId \notin Range(issued)
         /\ NextId.slot + 1 \in 1..Len(slots.generations) =>
               ~slots.allocated[NextId.slot + 1] /\ NextId = IdAt(NextId.slot + 1)
         /\ slots.free = <<>> =>
               NextId.slot = Len(slots.generations) /\ NextId.generation = 0
         /\ slots.free # <<>> =>
               /\ NextId.slot = slots.free[Len(slots.free)]
               /\ NextId.slot + 1 \in 1..Len(slots.generations)
<1>0. /\ slots \in Slots /\ changes \in Nat /\ changes <= MaxChanges
      /\ slots.generations \in Seq(0..Generations-1) /\ slots.allocated \in Seq(BOOLEAN)
      /\ slots.free \in Seq(0..MaxSlots-1)
      /\ Len(slots.generations) \in Nat /\ Len(slots.free) \in Nat
      /\ Len(slots.allocated) = Len(slots.generations) /\ Len(slots.generations) <= MaxSlots
      /\ MaxSlots \in Nat /\ MaxChanges \in Nat /\ Generations \in Nat \ {0}
  BY SlotFields
<1>1. CASE slots.free # <<>>
  <2>1. PICK k \in 1..Len(slots.free) : k = Len(slots.free)
    BY <1>1, <1>0
  <2>2. PICK s \in 0..MaxSlots-1 : s = slots.free[k]
    BY <2>1, <1>0
  <2>3. s + 1 \in 1..Len(slots.generations) /\ ~slots.allocated[s + 1]
    BY <2>1, <2>2 DEF SlotsOK
  <2>4. PICK g \in 0..Generations-1 : g = slots.generations[s + 1]
    BY <2>3, <1>0
  <2>5. NextId = [slot |-> s, generation |-> g]
    BY <1>1, <2>1, <2>2, <2>4 DEF NextId
  <2>6. NextId \in Ids /\ NextId.slot = s /\ NextId.generation = g
    BY <2>5 DEF Ids
  <2>7. NextId = IdAt(s + 1)
    BY <2>2, <2>4, <2>5 DEF IdAt
  <2>8. NextId \notin Range(issued)
    BY <2>3, <2>4, <2>6 DEF IssuedOK
  <2> QED BY <1>1, <2>1, <2>2, <2>3, <2>6, <2>7, <2>8
<1>2. CASE slots.free = <<>>
  <2>1. NextId = [slot |-> Len(slots.generations), generation |-> 0]
    BY <1>2 DEF NextId
  <2>2. NextId.slot = Len(slots.generations) /\ NextId.generation = 0 /\ NextId \in Ids
    BY <2>1, <1>0 DEF Ids
  <2>3. NextId.slot + 1 \notin 1..Len(slots.generations)
    BY <2>2, <1>0
  <2> QED BY <1>2, <2>2, <2>3 DEF IssuedOK
<1> QED BY <1>1, <1>2

LEMMA AllocateFacts ==
  ASSUME SlotsOK, IssuedOK, NextId.slot < MaxSlots, NEW at, at = NextId.slot + 1
  PROVE  LET a == allocate
         IN  /\ a \in Slots /\ Len(a.allocated) = Len(a.generations)
             /\ at \in 1..Len(a.generations) /\ Len(a.generations) <= MaxSlots
             /\ Len(slots.generations) <= Len(a.generations)
             /\ at <= Len(slots.generations) => Len(a.generations) = Len(slots.generations)
             /\ at > Len(slots.generations) => Len(a.generations) = at
             /\ \A i \in 1..Len(a.generations):
                   /\ i # at => i \in 1..Len(slots.generations)
                   /\ a.generations[i] = IF i = at THEN NextId.generation
                                         ELSE slots.generations[i]
                   /\ a.allocated[i] = IF i = at THEN TRUE ELSE slots.allocated[i]
             /\ \A k \in 1..Len(a.free):
                   /\ a.free[k] + 1 \in 1..Len(a.generations)
                   /\ ~a.allocated[a.free[k] + 1]
             /\ \A k, l \in 1..Len(a.free): a.free[k] = a.free[l] => k = l
<1>0. /\ slots \in Slots /\ changes \in Nat /\ changes <= MaxChanges
      /\ slots.generations \in Seq(0..Generations-1) /\ slots.allocated \in Seq(BOOLEAN)
      /\ slots.free \in Seq(0..MaxSlots-1)
      /\ Len(slots.generations) \in Nat /\ Len(slots.free) \in Nat
      /\ Len(slots.allocated) = Len(slots.generations) /\ Len(slots.generations) <= MaxSlots
      /\ MaxSlots \in Nat /\ MaxChanges \in Nat /\ Generations \in Nat \ {0}
  BY SlotFields
<1> DEFINE a == allocate
<1>1. CASE slots.free # <<>>
  <2>1. /\ at \in 1..Len(slots.generations) /\ at - 1 = slots.free[Len(slots.free)]
        /\ NextId.generation = slots.generations[at]
    <3>1. /\ NextId.slot = slots.free[Len(slots.free)] /\ at \in 1..Len(slots.generations)
          /\ NextId = IdAt(at)
      BY <1>1, NextIdFacts
    <3>2. NextId.generation = slots.generations[at]
      BY <3>1 DEF IdAt
    <3>3. NextId.slot \in Nat
      BY NextIdFacts DEF Ids
    <3> QED BY <3>1, <3>2, <3>3
  <2>2. PICK f : f = SubSeq(slots.free, 1, Len(slots.free) - 1)
    OBVIOUS
  <2>3. /\ f \in Seq(0..MaxSlots-1) /\ Len(f) = Len(slots.free) - 1
        /\ \A k \in 1..Len(f): f[k] = slots.free[k]
    <3>1. Len(slots.free) # 0
      BY <1>0, <1>1
    <3> QED BY <1>0, <2>2, <3>1, FrontFacts
  <2>4. a = [slots EXCEPT !.free = f, !.allocated[at] = TRUE]
    BY <1>1, <2>2 DEF allocate
  <2> HIDE DEF a
  <2>c. PICK b : b = [slots.allocated EXCEPT ![at] = TRUE]
    OBVIOUS
  <2>6. /\ b \in Seq(BOOLEAN) /\ Len(b) = Len(slots.allocated) /\ b[at] = TRUE
        /\ \A i \in 1..Len(slots.generations): i # at => b[i] = slots.allocated[i]
    <3>a. TRUE \in BOOLEAN
      OBVIOUS
    <3>1. PICK V : V = BOOLEAN /\ TRUE \in V
      BY <3>a, Zenon
    <3>2. slots.allocated \in Seq(V) /\ at \in 1..Len(slots.allocated)
      BY <1>0, <2>1, <3>1
    <3> QED BY <1>0, <2>c, <3>1, <3>2, PutFacts
  <2>5. /\ a \in Slots /\ a.generations = slots.generations /\ a.free = f
        /\ a.allocated = b
    BY <2>1, <2>3, <2>4, <2>c, <2>6, <1>0 DEF Slots
  <2>7. ASSUME NEW k \in 1..Len(f)
        PROVE  f[k] + 1 \in 1..Len(slots.generations) /\ f[k] + 1 # at /\ ~slots.allocated[f[k] + 1]
    <3>1. k \in 1..Len(slots.free) /\ Len(slots.free) \in 1..Len(slots.free) /\ k # Len(slots.free)
      BY <1>1, <2>3, <1>0
    <3>2. f[k] + 1 \in 1..Len(slots.generations) /\ ~slots.allocated[f[k] + 1]
      BY <2>3, <3>1 DEF SlotsOK
    <3>3. slots.free[k] # slots.free[Len(slots.free)]
      BY <3>1 DEF SlotsOK
    <3>4. f[k] \in 0..MaxSlots-1
      BY <2>3, ItemFacts
    <3> QED BY <2>1, <2>3, <3>2, <3>3, <3>4
  <2>8. \A k, l \in 1..Len(f): f[k] = f[l] => k = l
    <3>1. \A k \in 1..Len(f): k \in 1..Len(slots.free)
      BY <2>3, <1>0
    <3> QED BY <2>3, <3>1 DEF SlotsOK
  <2>9. \A k \in 1..Len(f): f[k] + 1 \in 1..Len(slots.generations) /\ ~a.allocated[f[k] + 1]
    BY <2>5, <2>6, <2>7
  <2>10. \A i \in 1..Len(slots.generations):
           a.allocated[i] = IF i = at THEN TRUE ELSE slots.allocated[i]
    BY <2>5, <2>6
  <2> HIDE DEF a
  <2>12. at <= Len(slots.generations)
    BY <1>0, <2>1
  <2>11. \A i \in 1..Len(slots.generations):
           a.generations[i] = IF i = at THEN NextId.generation ELSE slots.generations[i]
    BY <2>1, <2>5
  <2>13. Len(a.generations) = Len(slots.generations) /\ Len(a.allocated) = Len(a.generations)
    BY <1>0, <2>5, <2>6
  <2>14. \A i \in 1..Len(a.generations):
            /\ i # at => i \in 1..Len(slots.generations)
            /\ a.generations[i] = IF i = at THEN NextId.generation ELSE slots.generations[i]
            /\ a.allocated[i] = IF i = at THEN TRUE ELSE slots.allocated[i]
    BY <2>10, <2>11, <2>13
  <2>15. \A k \in 1..Len(a.free):
            a.free[k] + 1 \in 1..Len(a.generations) /\ ~a.allocated[a.free[k] + 1]
    BY <2>5, <2>9, <2>13
  <2>16. \A k, l \in 1..Len(a.free): a.free[k] = a.free[l] => k = l
    BY <2>5, <2>8
  <2>17. /\ at \in 1..Len(a.generations) /\ Len(a.generations) <= MaxSlots
         /\ Len(slots.generations) <= Len(a.generations) /\ ~(at > Len(slots.generations))
    BY <1>0, <2>1, <2>12, <2>13
  <2> QED BY <2>5, <2>13, <2>14, <2>15, <2>16, <2>17 DEF a
<1>2. CASE slots.free = <<>>
  <2>1. at = Len(slots.generations) + 1 /\ NextId.generation = 0
    BY <1>2, NextIdFacts
  <2>2. a = [slots EXCEPT !.generations = Append(@, 0), !.allocated = Append(@, TRUE)]
    BY <1>2 DEF allocate
  <2>3. PICK g : g = Append(slots.generations, 0)
    OBVIOUS
  <2>4. PICK b : b = Append(slots.allocated, TRUE)
    OBVIOUS
  <2>a. 0 \in 0..Generations-1
    BY <1>0
  <2>5. /\ g \in Seq(0..Generations-1) /\ Len(g) = at
        /\ \A i \in 1..at: g[i] = IF i = at THEN 0 ELSE slots.generations[i]
    BY <2>1, <2>3, <1>0
  <2>6. /\ b \in Seq(BOOLEAN) /\ Len(b) = at
        /\ \A i \in 1..at: b[i] = IF i = at THEN TRUE ELSE slots.allocated[i]
    <3>a. TRUE \in BOOLEAN
      OBVIOUS
    <3>1. PICK V : V = BOOLEAN /\ TRUE \in V
      BY <3>a, Zenon
    <3>2. slots.allocated \in Seq(V)
      BY <1>0, <3>1
    <3>3. /\ b \in Seq(V) /\ Len(b) = Len(slots.allocated) + 1
          /\ b[Len(slots.allocated) + 1] = TRUE
          /\ \A i \in 1..Len(slots.allocated): b[i] = slots.allocated[i]
      <4>1. PICK x \in V : x = TRUE
        BY <3>1
      <4>2. b = Append(slots.allocated, x)
        BY <2>4, <4>1
      <4>3. /\ b \in Seq(V) /\ Len(b) = Len(slots.allocated) + 1
            /\ b[Len(slots.allocated) + 1] = x
            /\ \A i \in 1..Len(slots.allocated): b[i] = slots.allocated[i]
        BY <3>2, <4>2, AppendFacts
      <4> QED BY <4>1, <4>3
    <3>4. Len(b) = at /\ b[at] = TRUE
      BY <1>0, <2>1, <3>3
    <3>5. \A i \in 1..at: i # at => i \in 1..Len(slots.allocated)
      BY <1>0, <2>1
    <3>6. \A i \in 1..at: b[i] = IF i = at THEN TRUE ELSE slots.allocated[i]
      BY <3>3, <3>4, <3>5
    <3>7. b \in Seq(BOOLEAN)
      BY <3>1, <3>3
    <3> QED BY <3>4, <3>6, <3>7
  <2> HIDE DEF a
  <2>7. a \in Slots /\ a.generations = g /\ a.allocated = b /\ a.free = <<>>
    BY <1>2, <2>2, <2>3, <2>4, <2>5, <2>6, <1>0 DEF Slots
  <2>8. at <= MaxSlots /\ at \in 1..at
    <3>1. NextId \in Ids
      BY NextIdFacts
    <3> QED BY <1>0, <2>1, <3>1 DEF Ids
  <2>9. 1..Len(a.free) = {}
    BY <2>7
  <2>11. at > Len(slots.generations)
    BY <1>0, <2>1
  <2>10. \A i \in 1..at: i # at => i \in 1..Len(slots.generations)
    BY <2>1, <1>0
  <2>13. Len(a.generations) = at /\ Len(a.allocated) = Len(a.generations)
    BY <2>5, <2>6, <2>7
  <2>14. \A i \in 1..Len(a.generations):
            /\ i # at => i \in 1..Len(slots.generations)
            /\ a.generations[i] = IF i = at THEN NextId.generation ELSE slots.generations[i]
            /\ a.allocated[i] = IF i = at THEN TRUE ELSE slots.allocated[i]
    BY <2>1, <2>5, <2>6, <2>7, <2>10, <2>13
  <2>17. /\ at \in 1..Len(a.generations) /\ Len(a.generations) <= MaxSlots
         /\ Len(slots.generations) <= Len(a.generations) /\ ~(at <= Len(slots.generations))
    BY <1>0, <2>1, <2>8, <2>11, <2>13
  <2> QED BY <2>7, <2>9, <2>13, <2>14, <2>17 DEF a
<1> QED BY <1>1, <1>2

\* An issued id names a proxy exactly while it is live.
LEMMA HeldFacts ==
  ASSUME SlotsOK, SlotsHold, HeldOK, NEW id \in Ids
  PROVE  /\ contains_proxy(id) <=> id \in DOMAIN held
         /\ id \in DOMAIN held =>
               /\ id.slot + 1 \in 1..Len(proxies) /\ slots.allocated[id.slot + 1]
               /\ id = IdAt(id.slot + 1) /\ held[id] \in Inputs
               /\ proxies[id.slot + 1] = [id |-> id, asset |-> held[id].asset]
               /\ current.values[id.slot + 1] = held[id]
<1>0. /\ slots \in Slots /\ changes \in Nat /\ changes <= MaxChanges
      /\ slots.generations \in Seq(0..Generations-1) /\ slots.allocated \in Seq(BOOLEAN)
      /\ slots.free \in Seq(0..MaxSlots-1)
      /\ Len(slots.generations) \in Nat /\ Len(slots.free) \in Nat
      /\ Len(slots.allocated) = Len(slots.generations) /\ Len(slots.generations) <= MaxSlots
      /\ MaxSlots \in Nat /\ MaxChanges \in Nat /\ Generations \in Nat \ {0}
  BY SlotFields
<1>1. id \in DOMAIN held =>
               /\ id.slot + 1 \in 1..Len(proxies) /\ slots.allocated[id.slot + 1]
               /\ id = IdAt(id.slot + 1) /\ held[id] \in Inputs
               /\ proxies[id.slot + 1] = [id |-> id, asset |-> held[id].asset]
               /\ current.values[id.slot + 1] = held[id]
  BY DEF HeldOK, SlotsHold
<1>2. id \in DOMAIN held => contains_proxy(id)
  BY <1>1 DEF contains_proxy
<1>3. ASSUME contains_proxy(id) PROVE id \in DOMAIN held
  <2>1. id.slot + 1 \in 1..Len(proxies) /\ proxies[id.slot + 1].id = id
    <3>1. DOMAIN proxies = 1..Len(proxies)
      BY DEF SlotsHold
    <3> QED BY <1>3, <3>1 DEF contains_proxy
  <2>2. id.slot \in 0..MaxSlots-1
    BY DEF Ids
  <2>3. slots.allocated[id.slot + 1]
    <3>1. SUFFICES ASSUME ~slots.allocated[id.slot + 1] PROVE FALSE
      OBVIOUS
    <3>a. PICK i \in 1..Len(proxies) : i = id.slot + 1
      BY <2>1
    <3>b. ~slots.allocated[i] => proxies[i] = NoProxy
      BY DEF SlotsHold
    <3>c. proxies[i] = NoProxy
      BY <3>a, <3>b, <3>1
    <3>d. NoProxy.id.slot = MaxSlots
      BY DEF NoProxy
    <3>2. proxies[id.slot + 1].id.slot = MaxSlots
      BY <3>a, <3>c, <3>d
    <3> QED BY <2>1, <2>2, <3>2, <1>0
  <2>4. PICK i \in 1..Len(proxies) : i = id.slot + 1
    BY <2>1
  <2>5. IdAt(i) \in DOMAIN held /\ proxies[i] = [id |-> IdAt(i), asset |-> held[IdAt(i)].asset]
    BY <2>3, <2>4 DEF SlotsHold
  <2>6. proxies[i].id = IdAt(i)
    BY <2>5
  <2> QED BY <2>1, <2>4, <2>5, <2>6
<1> QED BY <1>1, <1>2, <1>3

LEMMA ReleaseFacts ==
  ASSUME GenerationsFit, SlotsOK, NEW id \in Ids, NEW at, at = id.slot + 1,
         at \in 1..Len(slots.generations),
         slots.allocated[at], id = IdAt(at), changes < MaxChanges
  PROVE  LET r == release(id)
         IN  /\ r \in Slots /\ Len(r.allocated) = Len(r.generations)
             /\ Len(r.generations) = Len(slots.generations)
             /\ ~r.allocated[at] /\ r.generations[at] = id.generation + 1
             /\ \A i \in 1..Len(slots.generations): i # at =>
                   /\ r.generations[i] = slots.generations[i]
                   /\ r.allocated[i] = slots.allocated[i]
             /\ \A k \in 1..Len(r.free):
                   /\ r.free[k] + 1 \in 1..Len(slots.generations)
                   /\ ~r.allocated[r.free[k] + 1]
             /\ \A k, l \in 1..Len(r.free): r.free[k] = r.free[l] => k = l
             /\ id.generation = slots.generations[at] /\ id.generation <= changes
<1>0. /\ slots \in Slots /\ changes \in Nat /\ changes <= MaxChanges
      /\ slots.generations \in Seq(0..Generations-1) /\ slots.allocated \in Seq(BOOLEAN)
      /\ slots.free \in Seq(0..MaxSlots-1)
      /\ Len(slots.generations) \in Nat /\ Len(slots.free) \in Nat
      /\ Len(slots.allocated) = Len(slots.generations) /\ Len(slots.generations) <= MaxSlots
      /\ MaxSlots \in Nat /\ MaxChanges \in Nat /\ Generations \in Nat \ {0}
  BY SlotFields
<1> DEFINE r == release(id)
<1>1. /\ id.generation = slots.generations[at] /\ id.generation \in Nat
      /\ id.slot \in 0..MaxSlots-1 /\ id.generation <= changes
  <2>1. id.generation \in 0..Generations-1 /\ id.slot \in 0..MaxSlots-1
    BY DEF Ids
  <2>2. IdAt(at).generation = slots.generations[at]
    BY DEF IdAt
  <2>3. slots.generations[at] <= changes
    BY DEF SlotsOK
  <2>4. id.generation = slots.generations[at]
    BY <2>2
  <2> QED BY <1>0, <2>1, <2>3, <2>4
<1>2. id.generation + 1 \in 0..Generations-1
  <2>1. MaxChanges < Generations
    BY DEF GenerationsFit
  <2>2. PICK n \in Nat : n = id.generation /\ n < MaxChanges
    BY <1>0, <1>1
  <2> QED BY <1>0, <2>1, <2>2
<1>3. (slots.generations[at] + 1) % Generations = id.generation + 1
  <2>1. PICK g \in Nat : g = id.generation + 1 /\ g < Generations
    BY <1>0, <1>2
  <2>2. g % Generations = g
    <3>1. g \in 0..Generations-1 /\ 0 * Generations + g = g
      BY <1>0, <2>1
    <3>2. (0 * Generations + g) % Generations = g
      BY <1>0, <3>1, DivisionIsUnique
    <3> QED BY <3>1, <3>2
  <2> QED BY <1>1, <2>1, <2>2
<1>5. PICK g : g = [slots.generations EXCEPT ![at] = id.generation + 1]
  OBVIOUS
<1>6. PICK b : b = [slots.allocated EXCEPT ![at] = FALSE]
  OBVIOUS
<1>7. PICK f : f = Append(slots.free, id.slot)
  OBVIOUS
<1>4. r = [slots EXCEPT !.generations = g, !.allocated = b, !.free = f]
  <2>1. DOMAIN slots.generations = 1..Len(slots.generations)
    BY <1>0
  <2>2. /\ at \in DOMAIN slots.generations /\ slots.allocated[at]
        /\ slots.generations[at] = id.generation
    BY <1>1, <2>1
  <2>3. r = [slots EXCEPT !.allocated[at] = FALSE,
                          !.generations[at] = (@ + 1) % Generations,
                          !.free = Append(@, id.slot)]
    BY <2>2 DEF release
  <2>4. PICK h : h = [slots.generations EXCEPT ![at] = (@ + 1) % Generations]
    OBVIOUS
  <2>5. h = g
    BY <1>3, <1>5, <2>4
  <2>6. r = [slots EXCEPT !.generations = h, !.allocated = b, !.free = f]
    BY <1>0, <1>6, <1>7, <2>3, <2>4 DEF Slots
  <2> QED BY <2>5, <2>6
<1> HIDE DEF r
<1>8. /\ g \in Seq(0..Generations-1) /\ Len(g) = Len(slots.generations)
      /\ g[at] = id.generation + 1
      /\ \A i \in 1..Len(slots.generations): i # at => g[i] = slots.generations[i]
  <2>0. PICK V : V = 0..Generations-1
    OBVIOUS
  <2>1. PICK x \in V : x = id.generation + 1
    BY <1>2, <2>0
  <2>2. slots.generations \in Seq(V)
    BY <1>0, <2>0
  <2>3. /\ g \in Seq(V) /\ Len(g) = Len(slots.generations) /\ g[at] = x
        /\ \A i \in 1..Len(slots.generations): i # at => g[i] = slots.generations[i]
    <3>1. PICK w \in 1..Len(slots.generations) : w = at
      OBVIOUS
    <3>2. g = [slots.generations EXCEPT ![w] = x]
      BY <1>5, <2>1, <3>1
    <3>3. /\ g \in Seq(V) /\ Len(g) = Len(slots.generations) /\ g[w] = x
          /\ \A i \in 1..Len(slots.generations): i # w => g[i] = slots.generations[i]
      BY <2>1, <2>2, <3>2, PutFacts
    <3> QED BY <3>1, <3>3
  <2> QED BY <2>0, <2>1, <2>3
<1>9. /\ b \in Seq(BOOLEAN) /\ Len(b) = Len(slots.generations) /\ b[at] = FALSE
      /\ \A i \in 1..Len(slots.generations): i # at => b[i] = slots.allocated[i]
  <2>a. FALSE \in BOOLEAN
    OBVIOUS
  <2>1. PICK V : V = BOOLEAN /\ FALSE \in V
    BY <2>a, Zenon
  <2>2. slots.allocated \in Seq(V) /\ at \in 1..Len(slots.allocated)
    BY <1>0, <2>1
  <2>3. PICK x \in V : x = FALSE
    BY <2>1
  <2>4. b = [slots.allocated EXCEPT ![at] = x]
    BY <1>6, <2>3
  <2>5. /\ b \in Seq(V) /\ Len(b) = Len(slots.allocated) /\ b[at] = x
        /\ \A i \in 1..Len(slots.allocated): i # at => b[i] = slots.allocated[i]
    <3>1. PICK w \in 1..Len(slots.allocated) : w = at
      BY <2>2
    <3>2. b = [slots.allocated EXCEPT ![w] = x]
      BY <2>4, <3>1
    <3>3. /\ b \in Seq(V) /\ Len(b) = Len(slots.allocated) /\ b[w] = x
          /\ \A i \in 1..Len(slots.allocated): i # w => b[i] = slots.allocated[i]
      BY <2>2, <2>3, <3>2, PutFacts
    <3> QED BY <3>1, <3>3
  <2> QED BY <1>0, <2>1, <2>3, <2>5
<1>10. /\ f \in Seq(0..MaxSlots-1) /\ Len(f) = Len(slots.free) + 1
       /\ f[Len(f)] = id.slot /\ \A k \in 1..Len(slots.free): f[k] = slots.free[k]
  <2>1. PICK V : V = 0..MaxSlots-1 /\ id.slot \in V
    BY <1>1
  <2>2. slots.free \in Seq(V)
    BY <1>0, <2>1
  <2>3. /\ f \in Seq(V) /\ Len(f) = Len(slots.free) + 1 /\ f[Len(slots.free) + 1] = id.slot
        /\ \A k \in 1..Len(slots.free): f[k] = slots.free[k]
    BY <1>7, <2>1, <2>2, AppendFacts
  <2> QED BY <2>1, <2>3
<1>11. r \in Slots /\ r.generations = g /\ r.allocated = b /\ r.free = f
  BY <1>4, <1>8, <1>9, <1>10, <1>0 DEF Slots
<1>12. ASSUME NEW k \in 1..Len(slots.free)
       PROVE  /\ f[k] + 1 \in 1..Len(slots.generations) /\ f[k] + 1 # at
              /\ ~slots.allocated[f[k] + 1]
  BY <1>10 DEF SlotsOK
<1>13. \A k \in 1..Len(f): k \in 1..Len(slots.free) \/ k = Len(f)
  BY <1>0, <1>10
<1>14. \A k \in 1..Len(slots.free): f[k] # id.slot
  BY <1>12
<1>15. ASSUME NEW k \in 1..Len(f)
       PROVE  f[k] + 1 \in 1..Len(slots.generations) /\ ~b[f[k] + 1]
  <2>1. CASE k \in 1..Len(slots.free)
    BY <1>9, <1>12, <2>1
  <2>2. CASE k = Len(f)
    <3>1. f[k] + 1 = at /\ ~b[at]
      BY <1>9, <1>10, <2>2
    <3> QED BY <3>1
  <2> QED BY <1>13, <2>1, <2>2
<1>16. ASSUME NEW k \in 1..Len(f), NEW l \in 1..Len(f), f[k] = f[l] PROVE k = l
  <2>1. CASE k \in 1..Len(slots.free) /\ l \in 1..Len(slots.free)
    BY <1>10, <1>16, <2>1 DEF SlotsOK
  <2>2. CASE k = Len(f) /\ l = Len(f)
    BY <2>2
  <2>3. CASE k = Len(f) /\ l \in 1..Len(slots.free)
    BY <1>10, <1>14, <1>16, <2>3
  <2>4. CASE k \in 1..Len(slots.free) /\ l = Len(f)
    BY <1>10, <1>14, <1>16, <2>4
  <2> QED BY <1>13, <2>1, <2>2, <2>3, <2>4
<1>17. /\ ~r.allocated[at] /\ r.generations[at] = id.generation + 1
       /\ \A i \in 1..Len(slots.generations): i # at =>
             r.generations[i] = slots.generations[i] /\ r.allocated[i] = slots.allocated[i]
  BY <1>8, <1>9, <1>11
<1>18. \A k \in 1..Len(r.free):
          r.free[k] + 1 \in 1..Len(slots.generations) /\ ~r.allocated[r.free[k] + 1]
  BY <1>11, <1>15
<1>19. \A k, l \in 1..Len(r.free): r.free[k] = r.free[l] => k = l
  BY <1>11, <1>16
<1>20. Len(r.generations) = Len(slots.generations) /\ Len(r.allocated) = Len(r.generations)
  BY <1>8, <1>9, <1>11
<1> QED BY <1>1, <1>11, <1>17, <1>18, <1>19, <1>20 DEF r

-----------------------------------------------------------------------------
(* What every call of the scene does to the tables.                        *)

LEMMA NoPagesCarried ==
  ASSUME jobs = <<>>
  PROVE  \A name: PagesOf(name) = {}
BY DEF PagesOf

\* A call changes the tables and leaves them good.
LEMMA CallKeepsTables ==
  ASSUME TablesOK, Change,
         Len(current'.values) = Len(proxies'), Len(previous'.values) = Len(proxies'),
         TableOK(current'), TableOK(previous'),
         Uploaded(current', {}), Uploaded(previous', {})
  PROVE  TablesOK'
<1>1. /\ stage = "upload" /\ stage' = stage /\ jobs' = jobs /\ jobs = <<>>
      /\ supported' = supported /\ supported \in BOOLEAN
  BY DEF TablesOK, Change
<1>2. \A name: PagesOf(name)' = {}
  BY <1>1 DEF PagesOf
<1> QED BY <1>1, <1>2 DEF TablesOK

\* Before a call no job carries a page.
LEMMA BeforeACall ==
  ASSUME TablesOK, stage = "upload"
  PROVE  /\ TableOK(current) /\ TableOK(previous)
         /\ Uploaded(current, {}) /\ Uploaded(previous, {})
         /\ Len(current.values) = Len(proxies) /\ Len(previous.values) = Len(proxies)
         /\ current.values \in Seq(Inputs) /\ previous.values \in Seq(Inputs)
<1>1. jobs = <<>>
  BY DEF TablesOK
<1>2. \A name: PagesOf(name) = {}
  BY <1>1, NoPagesCarried
<1>3. /\ TableOK(current) /\ TableOK(previous)
      /\ Uploaded(current, {}) /\ Uploaded(previous, {})
      /\ Len(current.values) = Len(proxies) /\ Len(previous.values) = Len(proxies)
  BY <1>2 DEF TablesOK
<1> QED BY <1>3, TableFields DEF TableOK

-----------------------------------------------------------------------------
(* A new proxy.                                                            *)

LEMMA LargerOfTwo ==
  ASSUME NEW a \in Nat, NEW b \in Nat
  PROVE  Max({a, b}) = IF a >= b THEN a ELSE b
BY DEF Max

\* The id handed out was not, and those before it stay.
LEMMA IssuedGrows ==
  ASSUME NEW s \in Seq(Ids), IsInjective(s), NEW id \in Ids, id \notin Range(s)
  PROVE  /\ Append(s, id) \in Seq(Ids) /\ IsInjective(Append(s, id))
         /\ Range(Append(s, id)) = Range(s) \cup {id}
<1>1. /\ Len(s) \in Nat /\ Append(s, id) \in Seq(Ids)
      /\ DOMAIN s = 1..Len(s) /\ DOMAIN Append(s, id) = 1..Len(s)+1
      /\ Append(s, id)[Len(s) + 1] = id
      /\ \A k \in 1..Len(s): Append(s, id)[k] = s[k]
  OBVIOUS
<1>2. \A k \in 1..Len(s)+1: k \in 1..Len(s) \/ k = Len(s) + 1
  BY <1>1
<1>3. \A k \in 1..Len(s): k \in 1..Len(s)+1 /\ s[k] # id
  BY <1>1 DEF Range
<1>4. Len(s) + 1 \in 1..Len(s)+1
  BY <1>1
<1>5. IsInjective(Append(s, id))
  BY <1>1, <1>2, <1>3 DEF IsInjective
<1>6. Range(Append(s, id)) = Range(s) \cup {id}
  BY <1>1, <1>2, <1>3, <1>4 DEF Range
<1> QED BY <1>1, <1>5, <1>6

\* What allocate_proxy does to each table, of one slot more or as many.
LEMMA NewProxyFacts ==
  ASSUME Inductive, NEW input \in Inputs, allocate_proxy(input)
  PROVE  LET at == NextId.slot + 1
         IN  /\ NextId \in Ids /\ NextId \notin Range(issued) /\ at \in 1..Len(proxies')
             /\ Len(proxies') = Len(slots'.generations) /\ at \in Nat
             /\ at \in 1..Len(proxies) => ~slots.allocated[at] /\ NextId = IdAt(at)
             /\ live_proxy_count' = live_proxy_count + 1
             /\ proxies' \in Seq(Proxies \cup {NoProxy})
             /\ proxies'[at] = [id |-> NextId, asset |-> input.asset]
             /\ Len(proxies) <= Len(proxies')
             /\ \A i \in 1..Len(proxies'): i # at =>
                   i \in 1..Len(proxies) /\ proxies'[i] = proxies[i]
<1> DEFINE id == NextId
           at == NextId.slot + 1
           n == Len(proxies)
           m == Len(slots'.generations)
<1>1. /\ SlotsOK /\ SlotsHold /\ IssuedOK /\ id.slot < MaxSlots /\ slots' = allocate
  BY DEF Inductive, allocate_proxy
<1>2. /\ id \in Ids /\ id \notin Range(issued)
      /\ at \in 1..Len(slots.generations) => ~slots.allocated[at] /\ id = IdAt(at)
  BY <1>1, NextIdFacts
<1>3. /\ at \in 1..m /\ m \in Nat /\ Len(slots.generations) <= m
      /\ at <= Len(slots.generations) => m = Len(slots.generations)
      /\ at > Len(slots.generations) => m = at
      /\ \A i \in 1..m: i # at => i \in 1..Len(slots.generations)
  <2>1. slots' \in Slots
    BY <1>1, AllocateFacts
  <2>2. m \in Nat
    BY <2>1 DEF Slots
  <2> QED BY <1>1, <2>2, AllocateFacts
<1>4. /\ proxies \in Seq(Proxies \cup {NoProxy}) /\ n = Len(slots.generations) /\ n \in Nat
      /\ \A i \in 1..n: ~slots.allocated[i] => proxies[i] = NoProxy
  <2>1. proxies \in Seq(Proxies \cup {NoProxy}) /\ n = Len(slots.generations)
    BY <1>1 DEF SlotsHold
  <2>2. \A i \in 1..n: ~slots.allocated[i] => proxies[i] = NoProxy
    BY <1>1 DEF SlotsHold
  <2>3. n \in Nat
    BY <2>1
  <2> QED BY <2>1, <2>2, <2>3
<1>5. at \in Nat /\ at \in 1..MaxSlots
  BY <1>2, Sizes DEF Ids
<1> HIDE DEF at, m, n
<1>6. Max({n, at}) = m
  BY <1>3, <1>4, <1>5, LargerOfTwo
<1>7. PICK e : e = Resized(proxies, m, NoProxy)
  OBVIOUS
<1>8. /\ e \in Seq(Proxies \cup {NoProxy}) /\ Len(e) = m
      /\ \A i \in 1..m: e[i] = IF i <= n THEN proxies[i] ELSE NoProxy
  <2>0. PICK V : V = Proxies \cup {NoProxy}
    OBVIOUS
  <2>1. PICK x \in V : x = NoProxy
    BY <2>0
  <2>2. proxies \in Seq(V) /\ e = Resized(proxies, m, x)
    BY <1>4, <1>7, <2>0, <2>1
  <2>3. /\ e \in Seq(V) /\ Len(e) = m
        /\ \A i \in 1..m: e[i] = IF i <= Len(proxies) THEN proxies[i] ELSE x
    <3>1. PICK s \in Seq(V), k \in Nat : s = proxies /\ k = m
      BY <1>3, <2>2
    <3>2. /\ Resized(s, k, x) \in Seq(V) /\ Len(Resized(s, k, x)) = k
          /\ \A i \in 1..k: Resized(s, k, x)[i] = IF i <= Len(s) THEN s[i] ELSE x
      BY <2>1, <3>1, ResizedFacts
    <3> QED BY <2>2, <3>1, <3>2
  <2> QED BY <2>0, <2>1, <2>3 DEF n
<1>9. e[at] = NoProxy
  <2>1. CASE at <= n
    <3>1. at \in 1..n
      BY <1>4, <1>5, <2>1
    <3> QED BY <1>2, <1>3, <1>4, <1>8, <2>1, <3>1 DEF at
  <2>2. CASE ~(at <= n)
    BY <1>3, <1>8, <2>2
  <2> QED BY <2>1, <2>2
<1>10. PICK p : p = [id |-> id, asset |-> input.asset]
  OBVIOUS
<1>11. p \in Proxies \cup {NoProxy} /\ p.id.slot + 1 = at /\ p.id.slot = id.slot
  BY <1>2, <1>10 DEF Inputs, Proxies, at
<1>12. ensure_slot(p.id.slot) = e
  BY <1>6, <1>7, <1>11 DEF ensure_slot, n, at
<1>13. upsert_proxy(p)
  BY <1>10 DEF allocate_proxy
<1>14. proxies' = [e EXCEPT ![at] = p] /\ live_proxy_count' = live_proxy_count + 1
  BY <1>9, <1>11, <1>12, <1>13 DEF upsert_proxy
<1>15. /\ proxies' \in Seq(Proxies \cup {NoProxy}) /\ Len(proxies') = m /\ proxies'[at] = p
       /\ \A i \in 1..m: i # at => proxies'[i] = e[i]
  <2>1. PICK V : V = Proxies \cup {NoProxy} /\ p \in V
    BY <1>11
  <2>2. e \in Seq(V) /\ at \in 1..Len(e)
    BY <1>3, <1>8, <2>1
  <2>3. PICK q : q = [e EXCEPT ![at] = p]
    OBVIOUS
  <2>4. q \in Seq(V) /\ Len(q) = Len(e) /\ q[at] = p /\ \A i \in 1..Len(e): i # at => q[i] = e[i]
    BY <2>1, <2>2, <2>3, PutFacts
  <2> QED BY <1>8, <1>14, <2>1, <2>3, <2>4
<1>16. \A i \in 1..m: i # at => i \in 1..n /\ proxies'[i] = proxies[i]
  BY <1>3, <1>4, <1>8, <1>15
<1> QED BY <1>2, <1>3, <1>4, <1>5, <1>10, <1>14, <1>15, <1>16 DEF at, m, n

LEMMA NewProxySlots ==
  ASSUME Inductive, NEW input \in Inputs, allocate_proxy(input),
         NEW id, id = NextId, NEW at, at = id.slot + 1
  PROVE  /\ SlotsOK' /\ slots'.allocated[at] /\ IdAt(at)' = id
         /\ Len(slots.generations) <= Len(slots'.generations)
         /\ \A i \in 1..Len(slots'.generations): i # at =>
               /\ i \in 1..Len(slots.generations)
               /\ slots'.allocated[i] = slots.allocated[i]
               /\ slots'.generations[i] = slots.generations[i]
               /\ IdAt(i)' = IdAt(i)
<1>1. /\ SlotsOK /\ IssuedOK /\ id.slot < MaxSlots /\ slots' = allocate
      /\ changes < MaxChanges /\ changes' = changes + 1
  BY DEF Inductive, allocate_proxy, Change
<1>2. id \in Ids /\ (slots.free = <<>> => id.generation = 0)
      /\ (at \in 1..Len(slots.generations) => id = IdAt(at))
      /\ (slots.free # <<>> => at \in 1..Len(slots.generations))
  BY <1>1, NextIdFacts
<1>3. changes \in Nat /\ MaxChanges \in Nat
  BY <1>1, SlotFields
<1>4. id.generation \in Nat /\ id.generation <= changes /\ id.slot \in Nat
  <2>1. id.generation \in 0..Generations-1 /\ id.slot \in 0..MaxSlots-1
    BY <1>2 DEF Ids
  <2>2. CASE slots.free = <<>>
    BY <1>2, <1>3, <2>1, <2>2
  <2>3. CASE slots.free # <<>>
    <3>1. id.generation = slots.generations[at] /\ at \in 1..Len(slots.generations)
      BY <1>2, <2>3 DEF IdAt
    <3>2. slots.generations[at] <= changes
      BY <1>1, <3>1 DEF SlotsOK
    <3> QED BY <2>1, <3>1, <3>2
  <2> QED BY <2>2, <2>3
<1>5. PICK a : a = allocate
  OBVIOUS
<1>6. /\ a \in Slots /\ Len(a.allocated) = Len(a.generations)
      /\ at \in 1..Len(a.generations) /\ Len(a.generations) <= MaxSlots
      /\ Len(slots.generations) <= Len(a.generations)
      /\ \A i \in 1..Len(a.generations):
            /\ i # at => i \in 1..Len(slots.generations)
            /\ a.generations[i] = IF i = at THEN id.generation ELSE slots.generations[i]
            /\ a.allocated[i] = IF i = at THEN TRUE ELSE slots.allocated[i]
      /\ \A k \in 1..Len(a.free):
            a.free[k] + 1 \in 1..Len(a.generations) /\ ~a.allocated[a.free[k] + 1]
      /\ \A k, l \in 1..Len(a.free): a.free[k] = a.free[l] => k = l
  BY <1>1, <1>5, AllocateFacts
<1>7. ASSUME NEW i \in 1..Len(a.generations) PROVE a.generations[i] <= changes + 1
  <2>1. CASE i = at
    <3>1. a.generations[i] = id.generation
      BY <1>6, <2>1
    <3>2. PICK n \in Nat : n = id.generation /\ n <= changes
      BY <1>4
    <3> QED BY <1>3, <3>1, <3>2
  <2>2. CASE i # at
    <3>1. i \in 1..Len(slots.generations) /\ a.generations[i] = slots.generations[i]
      BY <1>6, <2>2
    <3>2. slots.generations[i] <= changes
      BY <1>1, <3>1 DEF SlotsOK
    <3>3. slots.generations \in Seq(0..Generations-1)
      BY <1>1, SlotFields
    <3>4. slots.generations[i] \in 0..Generations-1
      BY <3>1, <3>3, ItemFacts
    <3> QED BY <1>3, <3>1, <3>2, <3>4
  <2> QED BY <2>1, <2>2
<1>8. changes' \in 0..MaxChanges
  BY <1>1, <1>3
<1>9. SlotsOK'
  BY <1>1, <1>5, <1>6, <1>7, <1>8 DEF SlotsOK, Slots
<1>10. slots'.allocated[at] /\ slots'.generations[at] = id.generation
  BY <1>1, <1>5, <1>6
<1>11. IdAt(at)' = id
  <2>0. IdAt(at)' = [slot |-> at - 1, generation |-> slots'.generations[at]]
    BY DEF IdAt
  <2>1. IdAt(at)' = [slot |-> at - 1, generation |-> id.generation]
    BY <1>10, <2>0
  <2>2. at - 1 = id.slot
    BY <1>4
  <2>3. id = [slot |-> id.slot, generation |-> id.generation]
    BY <1>2 DEF Ids
  <2> QED BY <2>1, <2>2, <2>3
<1>12. ASSUME NEW i \in 1..Len(slots'.generations), i # at
       PROVE  /\ i \in 1..Len(slots.generations)
              /\ slots'.allocated[i] = slots.allocated[i]
              /\ slots'.generations[i] = slots.generations[i]
              /\ IdAt(i)' = IdAt(i)
  BY <1>1, <1>5, <1>6, <1>12 DEF IdAt
<1> QED BY <1>1, <1>5, <1>6, <1>9, <1>10, <1>11, <1>12

LEMMA NewProxyTables ==
  ASSUME Inductive, NEW input \in Inputs, allocate_proxy(input)
  PROVE  LET at == NextId.slot + 1
         IN  /\ TablesOK' /\ current'.values[at] = input
             /\ \A i \in 1..Len(proxies): i # at => current'.values[i] = current.values[i]
<1> DEFINE at == NextId.slot + 1
<1>1. /\ NextId \in Ids /\ at \in 1..Len(proxies') /\ Len(proxies) <= Len(proxies')
      /\ \A i \in 1..Len(proxies'): i # at => i \in 1..Len(proxies)
      /\ proxies' \in Seq(Proxies \cup {NoProxy})
  BY NewProxyFacts
<1>2. /\ current' = set(grow(current, at), NextId.slot, input)
      /\ previous' = grow(previous, at) /\ Change /\ stage = "upload"
  BY DEF allocate_proxy, Change
<1>3. PICK s \in Nat, k \in Nat \ {0} : s = NextId.slot /\ k = at /\ k = s + 1
  BY <1>1 DEF Ids
<1> HIDE DEF at
<1>4. /\ TablesOK /\ TableOK(current) /\ TableOK(previous)
      /\ Uploaded(current, {}) /\ Uploaded(previous, {})
      /\ Len(current.values) = Len(proxies) /\ Len(previous.values) = Len(proxies)
      /\ proxies \in Seq(Proxies \cup {NoProxy})
  BY <1>2, BeforeACall DEF Inductive, SlotsHold
<1>5. Len(proxies) \in Nat /\ Len(proxies') \in Nat
  BY <1>1, <1>4
<1>6. Len(proxies') = IF Len(proxies) >= k THEN Len(proxies) ELSE k
  <2>1. CASE Len(proxies') # k
    <3>1. Len(proxies') \in 1..Len(proxies)
      BY <1>1, <1>3, <1>5, <2>1
    <3> QED BY <1>1, <1>3, <1>5, <3>1
  <2>2. CASE Len(proxies') = k
    BY <1>1, <1>5, <2>2
  <2> QED BY <2>1, <2>2
<1>7. PICK g : g = grow(current, k)
  OBVIOUS
<1>8. /\ TableOK(g) /\ Uploaded(g, {}) /\ Len(g.values) = Len(proxies')
      /\ \A j \in 1..Len(g.values):
            g.values[j] = IF j <= Len(current.values) THEN current.values[j] ELSE Zero
  BY <1>4, <1>6, <1>7, GrowFacts
<1>9. PICK p : p = grow(previous, k)
  OBVIOUS
<1>10. TableOK(p) /\ Uploaded(p, {}) /\ Len(p.values) = Len(proxies')
  BY <1>4, <1>6, <1>9, GrowFacts
<1>11. s < Len(g.values) /\ g.values \in Seq(Inputs)
  BY <1>1, <1>3, <1>5, <1>8, TableFields DEF TableOK
<1>12. PICK c : c = set(g, s, input)
  OBVIOUS
<1>13. /\ TableOK(c) /\ Uploaded(c, {}) /\ c.values = [g.values EXCEPT ![s + 1] = input]
       /\ Len(c.values) = Len(proxies')
  BY <1>8, <1>11, <1>12, SetFacts
<1>14. current' = c /\ previous' = p
  BY <1>2, <1>3, <1>7, <1>9, <1>12
<1>15. TablesOK'
  BY <1>2, <1>4, <1>10, <1>13, <1>14, CallKeepsTables
<1>16. c.values[k] = input
  BY <1>1, <1>3, <1>8, <1>11, <1>13
<1>17. ASSUME NEW i \in 1..Len(proxies), i # k PROVE c.values[i] = current.values[i]
  <2>1. i \in 1..Len(g.values) /\ i <= Len(current.values)
    BY <1>1, <1>4, <1>5, <1>8
  <2>2. c.values[i] = g.values[i]
    BY <1>3, <1>11, <1>13, <1>17, <2>1
  <2> QED BY <1>8, <2>1, <2>2
<1> QED BY <1>3, <1>14, <1>15, <1>16, <1>17 DEF at

LEMMA NewProxyHolds ==
  ASSUME Inductive, NEW input \in Inputs, allocate_proxy(input),
         NEW id, id = NextId, NEW at, at = id.slot + 1
  PROVE  SlotsHold' /\ HeldOK' /\ IssuedOK'
<1>1. /\ id \in Ids /\ id \notin Range(issued) /\ at \in 1..Len(proxies')
      /\ Len(proxies') = Len(slots'.generations) /\ at \in Nat
      /\ at \in 1..Len(proxies) => ~slots.allocated[at] /\ id = IdAt(at)
      /\ live_proxy_count' = live_proxy_count + 1
      /\ proxies' \in Seq(Proxies \cup {NoProxy})
      /\ proxies'[at] = [id |-> id, asset |-> input.asset]
      /\ Len(proxies) <= Len(proxies')
      /\ \A i \in 1..Len(proxies'): i # at => i \in 1..Len(proxies) /\ proxies'[i] = proxies[i]
  BY NewProxyFacts
<1>2. /\ slots'.allocated[at] /\ IdAt(at)' = id
      /\ \A i \in 1..Len(slots'.generations): i # at =>
            /\ slots'.allocated[i] = slots.allocated[i]
            /\ slots'.generations[i] = slots.generations[i]
            /\ IdAt(i)' = IdAt(i)
  BY NewProxySlots
<1>3. /\ current'.values[at] = input
      /\ \A i \in 1..Len(proxies): i # at => current'.values[i] = current.values[i]
  BY NewProxyTables
<1>4. /\ issued' = Append(issued, id)
      /\ held' = [i \in DOMAIN held \cup {id} |-> IF i = id THEN input ELSE held[i]]
  BY DEF allocate_proxy
<1>5. SlotsHold /\ HeldOK /\ IssuedOK
  BY DEF Inductive
<1>6. Len(proxies) = Len(slots.generations) /\ Len(proxies) \in Nat /\ Len(proxies') \in Nat
  BY <1>1, <1>5 DEF SlotsHold
<1>7. id \notin DOMAIN held
  BY <1>1, <1>5 DEF HeldOK
<1>8. held'[id] = input /\ \A i \in DOMAIN held: held'[i] = held[i] /\ i \in DOMAIN held'
  BY <1>4, <1>7
<1>9. DOMAIN held' = DOMAIN held \cup {id}
  BY <1>4
<1>10. SlotsHold'
  <2>1. ASSUME NEW i \in 1..Len(proxies'), i = at
        PROVE  /\ slots'.allocated[i] /\ IdAt(i)' \in DOMAIN held'
               /\ proxies'[i] = [id |-> IdAt(i)', asset |-> held'[IdAt(i)'].asset]
               /\ current'.values[i] = held'[IdAt(i)']
    BY <1>1, <1>2, <1>3, <1>8, <1>9, <2>1
  <2>2. ASSUME NEW i \in 1..Len(proxies'), i # at
        PROVE  /\ i \in 1..Len(proxies) /\ proxies'[i] = proxies[i]
               /\ current'.values[i] = current.values[i] /\ IdAt(i)' = IdAt(i)
               /\ slots'.allocated[i] = slots.allocated[i]
    BY <1>1, <1>2, <1>3, <2>2
  <2>3. ASSUME NEW i \in 1..Len(proxies'), i # at
        PROVE  IF slots'.allocated[i]
               THEN /\ IdAt(i)' \in DOMAIN held'
                    /\ proxies'[i] = [id |-> IdAt(i)', asset |-> held'[IdAt(i)'].asset]
                    /\ current'.values[i] = held'[IdAt(i)']
               ELSE proxies'[i] = NoProxy /\ current'.values[i] = Zero
    <3>1. CASE slots.allocated[i]
      <4>1. /\ IdAt(i) \in DOMAIN held
            /\ proxies[i] = [id |-> IdAt(i), asset |-> held[IdAt(i)].asset]
            /\ current.values[i] = held[IdAt(i)]
        BY <1>5, <2>2, <2>3, <3>1 DEF SlotsHold
      <4> QED BY <1>8, <2>2, <2>3, <3>1, <4>1
    <3>2. CASE ~slots.allocated[i]
      <4>1. proxies[i] = NoProxy /\ current.values[i] = Zero
        BY <1>5, <2>2, <2>3, <3>2 DEF SlotsHold
      <4> QED BY <2>2, <2>3, <3>2, <4>1
    <3> QED BY <3>1, <3>2
  <2> QED BY <1>1, <2>1, <2>3 DEF SlotsHold
<1>11. issued' \in Seq(Ids) /\ IsInjective(issued') /\ Range(issued') = Range(issued) \cup {id}
  BY <1>1, <1>4, <1>5, IssuedGrows DEF IssuedOK
<1>12. HeldOK'
  <2>1. held' \in [DOMAIN held' -> Inputs]
    BY <1>4, <1>5 DEF HeldOK
  <2>2. /\ IsFiniteSet(DOMAIN held')
        /\ live_proxy_count' = Cardinality(DOMAIN held')
    BY <1>1, <1>5, <1>7, <1>9, FS_AddElement DEF HeldOK
  <2>3. ASSUME NEW j \in DOMAIN held'
        PROVE  /\ j \in Range(issued') /\ j.slot + 1 \in 1..Len(proxies')
               /\ slots'.allocated[j.slot + 1] /\ j = IdAt(j.slot + 1)'
    <3>1. CASE j = id
      <4>1. j.slot + 1 = at
        BY <3>1
      <4> QED BY <1>1, <1>2, <1>11, <3>1, <4>1
    <3>2. CASE j \in DOMAIN held
      <4>1. PICK k \in 1..Len(proxies) : k = j.slot + 1
        BY <1>5, <3>2 DEF HeldOK
      <4>2. j \in Range(issued) /\ slots.allocated[k] /\ j = IdAt(k)
        BY <1>5, <3>2, <4>1 DEF HeldOK
      <4>3. k # at /\ k \in 1..Len(proxies')
        BY <1>1, <1>6, <4>2
      <4>4. slots'.allocated[k] /\ IdAt(k)' = IdAt(k)
        BY <1>1, <1>2, <4>2, <4>3
      <4> QED BY <1>11, <4>1, <4>2, <4>3, <4>4
    <3> QED BY <1>9, <3>1, <3>2
  <2> QED BY <2>1, <2>2, <2>3 DEF HeldOK
<1>13. IssuedOK'
  <2>1. ASSUME NEW j \in Range(issued')
        PROVE  /\ j.slot + 1 \in 1..Len(slots'.generations)
               /\ \/ j.generation < slots'.generations[j.slot + 1]
                  \/ /\ j.generation = slots'.generations[j.slot + 1]
                     /\ slots'.allocated[j.slot + 1]
    <3>1. CASE j = id
      <4>1. j.slot + 1 = at
        BY <3>1
      <4>2. j.generation = slots'.generations[at]
        BY <1>2, <3>1 DEF IdAt
      <4> QED BY <1>1, <1>2, <4>1, <4>2
    <3>2. CASE j \in Range(issued)
      <4>1. PICK k \in 1..Len(slots.generations) : k = j.slot + 1
        BY <1>5, <3>2 DEF IssuedOK
      <4>2. \/ j.generation < slots.generations[k]
            \/ j.generation = slots.generations[k] /\ slots.allocated[k]
        BY <1>5, <3>2, <4>1 DEF IssuedOK
      <4>3. k \in 1..Len(slots'.generations)
        BY <1>1, <1>6
      <4>4. CASE k = at
        <5>1. ~slots.allocated[at] /\ id = IdAt(at)
          BY <1>1, <1>6, <4>4
        <5>2. slots'.generations[at] = slots.generations[at]
          BY <1>2, <5>1 DEF IdAt
        <5> QED BY <4>1, <4>2, <4>3, <4>4, <5>1, <5>2
      <4>5. CASE k # at
        BY <1>2, <4>1, <4>2, <4>3, <4>5
      <4> QED BY <4>4, <4>5
    <3> QED BY <1>11, <3>1, <3>2
  <2> QED BY <1>11, <2>1 DEF IssuedOK
<1> QED BY <1>10, <1>12, <1>13

-----------------------------------------------------------------------------
(* A proxy goes.                                                           *)

\* A call that leaves the slots as they are.
LEMMA SlotsStay ==
  ASSUME SlotsOK, Change, slots' = slots
  PROVE  SlotsOK'
<1>1. /\ changes' = changes + 1 /\ changes < MaxChanges /\ changes \in Nat
      /\ MaxChanges \in Nat /\ slots.generations \in Seq(0..Generations-1)
  BY SlotFields DEF Change
<1>2. ASSUME NEW i \in 1..Len(slots.generations) PROVE slots.generations[i] <= changes'
  <2>1. slots.generations[i] \in 0..Generations-1
    BY <1>1, ItemFacts
  <2>2. slots.generations[i] <= changes
    BY DEF SlotsOK
  <2> QED BY <1>1, <2>1, <2>2
<1>3. changes' \in 0..MaxChanges
  BY <1>1
<1> QED BY <1>2, <1>3 DEF SlotsOK, Slots

LEMMA NothingRemoved ==
  ASSUME Inductive, NEW id \in Ids, ~contains_proxy(id), remove_proxy(id)
  PROVE  Inductive'
<1>1. id \notin DOMAIN held
  BY HeldFacts DEF Inductive
<1>2. /\ Change /\ proxies' = proxies /\ live_proxy_count' = live_proxy_count
      /\ slots' = slots /\ current' = current /\ previous' = previous /\ issued' = issued
      /\ held' = [i \in DOMAIN held \ {id} |-> held[i]]
  BY DEF remove_proxy
<1>3. held' = held
  BY <1>1, <1>2 DEF Inductive, HeldOK
<1>4. SlotsOK'
  BY <1>2, SlotsStay DEF Inductive
<1>5. SlotsHold' /\ HeldOK' /\ IssuedOK'
  BY <1>2, <1>3 DEF Inductive, SlotsHold, HeldOK, IssuedOK, IdAt
<1>6. TablesOK'
  <2>1. TablesOK /\ stage = "upload"
    BY <1>2 DEF Inductive, Change
  <2> QED BY <1>2, <2>1, BeforeACall, CallKeepsTables
<1> QED BY <1>4, <1>5, <1>6 DEF Inductive, GenerationsFit

LEMMA RemovedSlots ==
  ASSUME Inductive, NEW id \in Ids, contains_proxy(id), remove_proxy(id),
         NEW at, at = id.slot + 1
  PROVE  /\ SlotsOK' /\ ~slots'.allocated[at] /\ id = IdAt(at) /\ at \in 1..Len(proxies)
         /\ id.generation = slots.generations[at] /\ id.generation \in Nat
         /\ slots'.generations[at] = id.generation + 1
         /\ Len(slots'.generations) = Len(slots.generations)
         /\ \A i \in 1..Len(slots.generations): i # at =>
               /\ slots'.allocated[i] = slots.allocated[i]
               /\ slots'.generations[i] = slots.generations[i]
               /\ IdAt(i)' = IdAt(i)
<1>1. /\ GenerationsFit /\ SlotsOK /\ SlotsHold /\ HeldOK
      /\ Len(proxies) = Len(slots.generations)
  BY DEF Inductive, SlotsHold
<1>2. /\ Change /\ changes < MaxChanges /\ changes' = changes + 1 /\ slots' = release(id)
  BY DEF remove_proxy, Change
<1>3. at \in 1..Len(slots.generations) /\ slots.allocated[at] /\ id = IdAt(at)
  BY <1>1, HeldFacts
<1> DEFINE r == release(id)
<1>4. r = release(id)
  OBVIOUS
<1>5. /\ r \in Slots /\ Len(r.allocated) = Len(r.generations)
      /\ Len(r.generations) = Len(slots.generations)
      /\ ~r.allocated[at] /\ r.generations[at] = id.generation + 1
      /\ \A i \in 1..Len(slots.generations): i # at =>
            r.generations[i] = slots.generations[i] /\ r.allocated[i] = slots.allocated[i]
      /\ \A k \in 1..Len(r.free):
            r.free[k] + 1 \in 1..Len(slots.generations) /\ ~r.allocated[r.free[k] + 1]
      /\ \A k, l \in 1..Len(r.free): r.free[k] = r.free[l] => k = l
      /\ id.generation = slots.generations[at] /\ id.generation <= changes
  <2>1. changes < MaxChanges
    BY <1>2
  <2> QED BY <1>1, <1>3, <2>1, ReleaseFacts
<1> HIDE DEF r
<1>6. /\ changes \in Nat /\ MaxChanges \in Nat /\ Len(slots.generations) <= MaxSlots
      /\ slots.generations \in Seq(0..Generations-1)
  <2>1. changes \in 0..MaxChanges /\ slots \in Slots /\ Len(slots.generations) <= MaxSlots
    BY <1>1 DEF SlotsOK
  <2>2. slots.generations \in Seq(0..Generations-1)
    BY <2>1 DEF Slots
  <2> QED BY <2>1, <2>2, SceneAssumption
<1>7. id.generation \in Nat
  BY SceneAssumption DEF Ids
<1>8. ASSUME NEW i \in 1..Len(slots.generations) PROVE r.generations[i] <= changes + 1
  <2>1. CASE i = at
    <3>1. r.generations[i] = id.generation + 1
      BY <1>5, <2>1
    <3>2. PICK n \in Nat : n = id.generation /\ n <= changes
      BY <1>5, <1>7
    <3> QED BY <1>6, <3>1, <3>2
  <2>2. CASE i # at
    <3>1. r.generations[i] = slots.generations[i]
      BY <1>5, <2>2
    <3>2. slots.generations[i] \in 0..Generations-1
      BY <1>6, ItemFacts
    <3>3. slots.generations[i] <= changes
      BY <1>1 DEF SlotsOK
    <3> QED BY <1>6, <3>1, <3>2, <3>3
  <2> QED BY <2>1, <2>2
<1>9. changes' \in 0..MaxChanges
  BY <1>2, <1>6
<1>10. SlotsOK'
  BY <1>2, <1>4, <1>5, <1>6, <1>8, <1>9 DEF SlotsOK, Slots
<1>11. ~slots'.allocated[at] /\ slots'.generations[at] = id.generation + 1
  BY <1>2, <1>3, <1>4, <1>5
<1>12. ASSUME NEW i \in 1..Len(slots.generations), i # at
       PROVE  /\ slots'.allocated[i] = slots.allocated[i]
              /\ slots'.generations[i] = slots.generations[i]
              /\ IdAt(i)' = IdAt(i)
  BY <1>2, <1>4, <1>5, <1>12 DEF IdAt
<1> QED BY <1>1, <1>2, <1>3, <1>4, <1>5, <1>7, <1>10, <1>11, <1>12

LEMMA ProxyRemoved ==
  ASSUME Inductive, NEW id \in Ids, contains_proxy(id), remove_proxy(id)
  PROVE  Inductive'
<1>1. PICK at : at = id.slot + 1
  OBVIOUS
<1>2. /\ SlotsOK' /\ ~slots'.allocated[at] /\ id = IdAt(at) /\ at \in 1..Len(proxies)
      /\ id.generation = slots.generations[at] /\ id.generation \in Nat
      /\ slots'.generations[at] = id.generation + 1
      /\ Len(slots'.generations) = Len(slots.generations)
      /\ \A i \in 1..Len(slots.generations): i # at =>
            /\ slots'.allocated[i] = slots.allocated[i]
            /\ slots'.generations[i] = slots.generations[i]
            /\ IdAt(i)' = IdAt(i)
  BY <1>1, RemovedSlots
<1>3. /\ Change /\ stage = "upload" /\ proxies' = [proxies EXCEPT ![at] = NoProxy]
      /\ live_proxy_count' = live_proxy_count - 1
      /\ current' = set(current, id.slot, Zero) /\ previous' = previous
      /\ held' = [i \in DOMAIN held \ {id} |-> held[i]] /\ issued' = issued
  BY <1>1 DEF remove_proxy, clear_current_input_slot, Change
<1>4. SlotsHold /\ HeldOK /\ IssuedOK /\ TablesOK /\ id \in DOMAIN held
  BY HeldFacts DEF Inductive
<1>5. Len(proxies) = Len(slots.generations) /\ proxies \in Seq(Proxies \cup {NoProxy})
  BY <1>4 DEF SlotsHold
<1>6. /\ proxies' \in Seq(Proxies \cup {NoProxy}) /\ Len(proxies') = Len(proxies)
      /\ proxies'[at] = NoProxy /\ \A i \in 1..Len(proxies): i # at => proxies'[i] = proxies[i]
  <2>1. PICK V : V = Proxies \cup {NoProxy}
    OBVIOUS
  <2>2. PICK x \in V : x = NoProxy
    BY <2>1
  <2>3. PICK s \in Seq(V) : s = proxies /\ at \in 1..Len(s)
    BY <1>2, <1>5, <2>1
  <2>4. PICK p : p = [s EXCEPT ![at] = x]
    OBVIOUS
  <2>5. p \in Seq(V) /\ Len(p) = Len(s) /\ p[at] = x /\ \A i \in 1..Len(s): i # at => p[i] = s[i]
    BY <2>3, <2>4, PutFacts
  <2>6. p = proxies'
    BY <1>3, <2>2, <2>3, <2>4
  <2> QED BY <2>1, <2>2, <2>3, <2>5, <2>6
<1>7. /\ TableOK(current) /\ TableOK(previous)
      /\ Uploaded(current, {}) /\ Uploaded(previous, {})
      /\ Len(current.values) = Len(proxies) /\ Len(previous.values) = Len(proxies)
      /\ current.values \in Seq(Inputs)
  BY <1>3, <1>4, BeforeACall
<1>8. /\ TableOK(current') /\ Uploaded(current', {}) /\ Len(current'.values) = Len(proxies)
      /\ current'.values[at] = Zero
      /\ \A i \in 1..Len(proxies): i # at => current'.values[i] = current.values[i]
  <2>1. PICK s \in Nat : s = id.slot /\ s + 1 = at
    BY <1>1, Sizes DEF Ids
  <2>2. s < Len(current.values)
    BY <1>2, <1>7, <2>1
  <2>3. PICK c : c = set(current, s, Zero)
    OBVIOUS
  <2>4. /\ TableOK(c) /\ Uploaded(c, {}) /\ Len(c.values) = Len(current.values)
        /\ c.values = [current.values EXCEPT ![s + 1] = Zero]
    BY <1>7, <2>2, <2>3, SetFacts, ZeroIsInput
  <2>5. /\ c.values[at] = Zero
        /\ \A i \in 1..Len(proxies): i # at => c.values[i] = current.values[i]
    BY <1>2, <1>7, <2>1, <2>4
  <2>6. c = current'
    BY <1>3, <2>1, <2>3
  <2> QED BY <1>7, <2>4, <2>5, <2>6
<1>9. TablesOK'
  BY <1>3, <1>4, <1>6, <1>7, <1>8, CallKeepsTables
<1>10. \A i \in DOMAIN held: i # id => i \in DOMAIN held' /\ held'[i] = held[i]
  BY <1>3
<1>11. DOMAIN held' = DOMAIN held \ {id}
  BY <1>3
<1>12. SlotsHold'
  <2>1. ASSUME NEW i \in 1..Len(proxies), i # at
        PROVE  IF slots'.allocated[i]
               THEN /\ IdAt(i)' \in DOMAIN held'
                    /\ proxies'[i] = [id |-> IdAt(i)', asset |-> held'[IdAt(i)'].asset]
                    /\ current'.values[i] = held'[IdAt(i)']
               ELSE proxies'[i] = NoProxy /\ current'.values[i] = Zero
    <3>1. /\ slots'.allocated[i] = slots.allocated[i] /\ IdAt(i)' = IdAt(i)
          /\ proxies'[i] = proxies[i] /\ current'.values[i] = current.values[i]
      BY <1>2, <1>5, <1>6, <1>8, <2>1
    <3>2. CASE slots.allocated[i]
      <4>1. /\ IdAt(i) \in DOMAIN held
            /\ proxies[i] = [id |-> IdAt(i), asset |-> held[IdAt(i)].asset]
            /\ current.values[i] = held[IdAt(i)]
        BY <1>4, <3>2 DEF SlotsHold
      <4>2. IdAt(i) # id
        <5>1. IdAt(i).slot = i - 1 /\ IdAt(at).slot = at - 1
          BY DEF IdAt
        <5>2. i \in Int /\ at \in Int
          BY <1>2
        <5> QED BY <1>2, <2>1, <5>1, <5>2
      <4> QED BY <1>10, <3>1, <3>2, <4>1, <4>2
    <3>3. CASE ~slots.allocated[i]
      <4>1. proxies[i] = NoProxy /\ current.values[i] = Zero
        BY <1>4, <3>3 DEF SlotsHold
      <4> QED BY <3>1, <3>3, <4>1
    <3> QED BY <3>2, <3>3
  <2> QED BY <1>2, <1>5, <1>6, <1>8, <2>1 DEF SlotsHold
<1>13. HeldOK'
  <2>1. held' \in [DOMAIN held' -> Inputs]
    BY <1>3, <1>4 DEF HeldOK
  <2>2. IsFiniteSet(DOMAIN held') /\ live_proxy_count' = Cardinality(DOMAIN held')
    BY <1>3, <1>4, <1>11, FS_RemoveElement DEF HeldOK
  <2>3. ASSUME NEW j \in DOMAIN held'
        PROVE  /\ j \in Range(issued') /\ j.slot + 1 \in 1..Len(proxies')
               /\ slots'.allocated[j.slot + 1] /\ j = IdAt(j.slot + 1)'
    <3>1. PICK k \in 1..Len(proxies) : k = j.slot + 1
      BY <1>4, <1>11 DEF HeldOK
    <3>2. j \in Range(issued) /\ slots.allocated[k] /\ j = IdAt(k) /\ j # id
      BY <1>4, <1>11, <3>1 DEF HeldOK
    <3>3. k # at
      BY <1>2, <3>2
    <3> QED BY <1>2, <1>3, <1>5, <1>6, <3>1, <3>2, <3>3
  <2> QED BY <2>1, <2>2, <2>3 DEF HeldOK
<1>14. IssuedOK'
  <2>1. ASSUME NEW j \in Range(issued)
        PROVE  /\ j.slot + 1 \in 1..Len(slots'.generations)
               /\ \/ j.generation < slots'.generations[j.slot + 1]
                  \/ /\ j.generation = slots'.generations[j.slot + 1]
                     /\ slots'.allocated[j.slot + 1]
    <3>1. PICK k \in 1..Len(slots.generations) : k = j.slot + 1
      BY <1>4 DEF IssuedOK
    <3>2. \/ j.generation < slots.generations[k]
          \/ j.generation = slots.generations[k] /\ slots.allocated[k]
      BY <1>4, <3>1 DEF IssuedOK
    <3>3. CASE k = at
      <4>1. j \in Ids
        BY <1>4, ItemFacts DEF IssuedOK, Range
      <4>2. PICK n \in Nat, g \in Nat : n = j.generation /\ g = id.generation
        BY <1>2, <4>1, SceneAssumption DEF Ids
      <4>3. n <= g
        BY <1>2, <3>2, <3>3, <4>2
      <4>4. n < g + 1
        BY <4>3
      <4> QED BY <1>2, <3>1, <3>3, <4>2, <4>4
    <3>4. CASE k # at
      BY <1>2, <3>1, <3>2, <3>4
    <3> QED BY <3>3, <3>4
  <2> QED BY <1>3, <1>4, <2>1 DEF IssuedOK
<1> QED BY <1>2, <1>9, <1>12, <1>13, <1>14 DEF Inductive, GenerationsFit

-----------------------------------------------------------------------------
(* An input is changed.                                                    *)

\* What every setter does: the input and its asset are of the proxy, if the id
\* still names one.
InputSet(id, input) ==
    /\ Change
    /\ proxies' = IF id \in DOMAIN held
                  THEN [proxies EXCEPT ![id.slot + 1] = [id |-> id, asset |-> input.asset]]
                  ELSE proxies
    /\ current' = IF id \in DOMAIN held THEN set(current, id.slot, input) ELSE current
    /\ held' = IF id \in DOMAIN held THEN [held EXCEPT ![id] = input] ELSE held
    /\ UNCHANGED <<live_proxy_count, slots, previous, issued>>

LEMMA InputSetStep ==
  ASSUME Inductive, NEW id \in Ids, NEW input \in Inputs, InputSet(id, input)
  PROVE  Inductive'
<1>1. /\ Change /\ stage = "upload" /\ slots' = slots /\ previous' = previous
      /\ issued' = issued /\ live_proxy_count' = live_proxy_count
  BY DEF InputSet, Change
<1>2. SlotsOK' /\ SlotsHold /\ HeldOK /\ IssuedOK /\ TablesOK
  BY <1>1, SlotsStay DEF Inductive
<1>3. IssuedOK'
  BY <1>1, <1>2 DEF IssuedOK
<1>4. /\ TableOK(current) /\ TableOK(previous)
      /\ Uploaded(current, {}) /\ Uploaded(previous, {})
      /\ Len(current.values) = Len(proxies) /\ Len(previous.values) = Len(proxies)
      /\ current.values \in Seq(Inputs)
  BY <1>1, <1>2, BeforeACall
<1>5. CASE id \notin DOMAIN held
  <2>1. proxies' = proxies /\ current' = current /\ held' = held
    BY <1>5 DEF InputSet
  <2>2. SlotsHold' /\ HeldOK'
    BY <1>1, <1>2, <2>1 DEF SlotsHold, HeldOK, IdAt
  <2>3. TablesOK'
    BY <1>1, <1>2, <1>4, <2>1, CallKeepsTables
  <2> QED BY <1>2, <1>3, <2>2, <2>3 DEF Inductive, GenerationsFit
<1>6. CASE id \in DOMAIN held
  <2>1. PICK at \in 1..Len(proxies) : at = id.slot + 1
    BY <1>2, <1>6 DEF HeldOK
  <2>2. slots.allocated[at] /\ id = IdAt(at)
    BY <1>2, <1>6, <2>1 DEF HeldOK
  <2>3. /\ proxies' = [proxies EXCEPT ![at] = [id |-> id, asset |-> input.asset]]
        /\ current' = set(current, id.slot, input)
        /\ held' = [held EXCEPT ![id] = input]
    BY <1>6, <2>1 DEF InputSet
  <2>4. /\ proxies' \in Seq(Proxies \cup {NoProxy}) /\ Len(proxies') = Len(proxies)
        /\ proxies'[at] = [id |-> id, asset |-> input.asset]
        /\ \A i \in 1..Len(proxies): i # at => proxies'[i] = proxies[i]
    <3>1. PICK V : V = Proxies \cup {NoProxy}
      OBVIOUS
    <3>2. [id |-> id, asset |-> input.asset] \in Proxies
      BY DEF Proxies, Inputs
    <3>3. PICK x \in V : x = [id |-> id, asset |-> input.asset]
      BY <3>1, <3>2
    <3>4. PICK s \in Seq(V) : s = proxies /\ at \in 1..Len(s)
      BY <1>2, <3>1 DEF SlotsHold
    <3>5. PICK p : p = [s EXCEPT ![at] = x]
      OBVIOUS
    <3>6. p \in Seq(V) /\ Len(p) = Len(s) /\ p[at] = x /\ \A i \in 1..Len(s): i # at => p[i] = s[i]
      BY <3>4, <3>5, PutFacts
    <3>7. p = proxies'
      BY <2>3, <3>3, <3>4, <3>5
    <3> QED BY <3>1, <3>3, <3>4, <3>6, <3>7
  <2>5. /\ TableOK(current') /\ Uploaded(current', {}) /\ Len(current'.values) = Len(proxies)
        /\ current'.values[at] = input
        /\ \A i \in 1..Len(proxies): i # at => current'.values[i] = current.values[i]
    <3>1. PICK s \in Nat : s = id.slot /\ s + 1 = at
      BY <2>1, Sizes DEF Ids
    <3>2. s < Len(current.values)
      BY <1>4, <2>1, <3>1
    <3>3. PICK c : c = set(current, s, input)
      OBVIOUS
    <3>4. /\ TableOK(c) /\ Uploaded(c, {}) /\ Len(c.values) = Len(current.values)
          /\ c.values = [current.values EXCEPT ![s + 1] = input]
      BY <1>4, <3>2, <3>3, SetFacts
    <3>5. /\ c.values[at] = input
          /\ \A i \in 1..Len(proxies): i # at => c.values[i] = current.values[i]
      BY <1>4, <2>1, <3>1, <3>4
    <3>6. c = current'
      BY <2>3, <3>1, <3>3
    <3> QED BY <1>4, <3>4, <3>5, <3>6
  <2>6. TablesOK'
    BY <1>1, <1>2, <1>4, <2>4, <2>5, CallKeepsTables
  <2>7. /\ DOMAIN held' = DOMAIN held /\ held'[id] = input
        /\ \A i \in DOMAIN held: i # id => held'[i] = held[i]
    BY <1>6, <2>3
  <2>8. SlotsHold'
    <3>1. ASSUME NEW i \in 1..Len(proxies), i # at
          PROVE  IF slots.allocated[i]
                 THEN /\ IdAt(i) \in DOMAIN held'
                      /\ proxies'[i] = [id |-> IdAt(i), asset |-> held'[IdAt(i)].asset]
                      /\ current'.values[i] = held'[IdAt(i)]
                 ELSE proxies'[i] = NoProxy /\ current'.values[i] = Zero
      <4>1. proxies'[i] = proxies[i] /\ current'.values[i] = current.values[i]
        BY <2>4, <2>5, <3>1
      <4>2. CASE slots.allocated[i]
        <5>1. /\ IdAt(i) \in DOMAIN held
              /\ proxies[i] = [id |-> IdAt(i), asset |-> held[IdAt(i)].asset]
              /\ current.values[i] = held[IdAt(i)]
          BY <1>2, <4>2 DEF SlotsHold
        <5>2. IdAt(i) # id
          <6>1. IdAt(i).slot = i - 1 /\ IdAt(at).slot = at - 1
            BY DEF IdAt
          <6>2. i \in Int /\ at \in Int
            OBVIOUS
          <6> QED BY <2>2, <3>1, <6>1, <6>2
        <5> QED BY <2>7, <4>1, <4>2, <5>1, <5>2
      <4>3. CASE ~slots.allocated[i]
        <5>1. proxies[i] = NoProxy /\ current.values[i] = Zero
          BY <1>2, <4>3 DEF SlotsHold
        <5> QED BY <4>1, <4>3, <5>1
      <4> QED BY <4>2, <4>3
    <3>2. /\ slots.allocated[at] /\ IdAt(at) \in DOMAIN held'
          /\ proxies'[at] = [id |-> IdAt(at), asset |-> held'[IdAt(at)].asset]
          /\ current'.values[at] = held'[IdAt(at)]
      BY <1>6, <2>2, <2>4, <2>5, <2>7
    <3>3. Len(proxies) = Len(slots.generations) /\ \A i: IdAt(i)' = IdAt(i)
      BY <1>1, <1>2 DEF SlotsHold, IdAt
    <3> QED BY <1>1, <2>4, <3>1, <3>2, <3>3 DEF SlotsHold
  <2>9. HeldOK'
    <3>1. held' \in [DOMAIN held' -> Inputs]
      BY <1>2, <2>3 DEF HeldOK
    <3>2. \A i: IdAt(i)' = IdAt(i)
      BY <1>1 DEF IdAt
    <3> QED BY <1>1, <1>2, <2>4, <2>7, <3>1, <3>2 DEF HeldOK
  <2> QED BY <1>2, <1>3, <2>6, <2>8, <2>9 DEF Inductive, GenerationsFit
<1> QED BY <1>5, <1>6

\* A proxy with the asset it has is the proxy.
LEMMA SetInputIsInputSet ==
  ASSUME Inductive, NEW id \in Ids, SetInput(id)
  PROVE  \E input \in Inputs: InputSet(id, input)
<1>1. SlotsOK /\ SlotsHold /\ HeldOK /\ TablesOK /\ Change /\ stage = "upload"
  BY DEF Inductive, SetInput, Change
<1>2. id.slot + 1 \in DOMAIN current.values /\ current.values \in Seq(Inputs)
  BY <1>1, BeforeACall DEF SetInput
<1>3. PICK old \in Inputs : old = current.values[id.slot + 1]
  BY <1>2
<1>4. PICK input \in set_visibility(old) \cup set_casts_shadows(old) \cup set_kind(old) :
        current' = update_current_input_slot(id, input) /\ Told(id, input)
  BY <1>3 DEF SetInput
<1>5. input \in Inputs /\ input.asset = old.asset
  BY <1>3, <1>4 DEF set_visibility, set_casts_shadows, set_kind, Inputs
<1>6. /\ contains_proxy(id) <=> id \in DOMAIN held
      /\ id \in DOMAIN held =>
            /\ id.slot + 1 \in 1..Len(proxies)
            /\ proxies[id.slot + 1] = [id |-> id, asset |-> held[id].asset]
            /\ current.values[id.slot + 1] = held[id]
  BY <1>1, HeldFacts
<1>7. /\ proxies' = proxies /\ UNCHANGED <<live_proxy_count, slots, previous, issued>>
  BY DEF SetInput
<1>8. id \in DOMAIN held =>
        proxies = [proxies EXCEPT ![id.slot + 1] = [id |-> id, asset |-> input.asset]]
  <2>1. SUFFICES ASSUME id \in DOMAIN held
                 PROVE  proxies = [proxies EXCEPT ![id.slot + 1] = [id |-> id, asset |-> input.asset]]
    OBVIOUS
  <2>2. proxies[id.slot + 1] = [id |-> id, asset |-> input.asset]
    BY <1>3, <1>5, <1>6, <2>1
  <2>3. proxies \in Seq(Proxies \cup {NoProxy})
    BY <1>1 DEF SlotsHold
  <2>4. \A x, k: x = proxies[k] => [proxies EXCEPT ![k] = x] = proxies
    BY <2>3
  <2> QED BY <2>2, <2>4
<1>9. InputSet(id, input)
  BY <1>1, <1>4, <1>6, <1>7, <1>8 DEF InputSet, update_current_input_slot, Told
<1> QED BY <1>5, <1>9

LEMMA SetAssetIsInputSet ==
  ASSUME Inductive, NEW id \in Ids, NEW asset \in Assets \cup {0}, set_asset_id(id, asset)
  PROVE  \E input \in Inputs: InputSet(id, input)
<1>1. SlotsOK /\ SlotsHold /\ HeldOK /\ TablesOK /\ Change /\ stage = "upload"
  BY DEF Inductive, set_asset_id, Change
<1>2. id.slot + 1 \in DOMAIN current.values /\ current.values \in Seq(Inputs)
  BY <1>1, BeforeACall DEF set_asset_id
<1>3. PICK old \in Inputs : old = current.values[id.slot + 1]
  BY <1>2
<1>4. PICK input : input = [old EXCEPT !.asset = asset]
  OBVIOUS
<1>5. input \in Inputs /\ input.asset = asset
  BY <1>4 DEF Inputs
<1>6. /\ contains_proxy(id) <=> id \in DOMAIN held
      /\ id \in DOMAIN held => proxies[id.slot + 1] = [id |-> id, asset |-> held[id].asset]
  BY <1>1, HeldFacts
<1>7. /\ proxies' = IF contains_proxy(id) THEN [proxies EXCEPT ![id.slot + 1].asset = asset]
                    ELSE proxies
      /\ current' = update_current_input_slot(id, input) /\ Told(id, input)
      /\ UNCHANGED <<live_proxy_count, slots, previous, issued>>
  BY <1>3, <1>4 DEF set_asset_id
<1>8. id \in DOMAIN held =>
        [proxies EXCEPT ![id.slot + 1].asset = asset]
          = [proxies EXCEPT ![id.slot + 1] = [id |-> id, asset |-> asset]]
  <2>1. \A x: [[id |-> id, asset |-> x] EXCEPT !.asset = asset] = [id |-> id, asset |-> asset]
    OBVIOUS
  <2> QED BY <1>6, <2>1
<1>9. InputSet(id, input)
  BY <1>1, <1>5, <1>6, <1>7, <1>8 DEF InputSet, update_current_input_slot, Told
<1> QED BY <1>5, <1>9

-----------------------------------------------------------------------------
(* The snapshot, and the Prepare stage.                                    *)

LEMMA SnapshotStep ==
  ASSUME Inductive, snapshot_previous_inputs
  PROVE  Inductive'
<1>1. /\ Change /\ stage = "upload" /\ slots' = slots /\ current' = current
      /\ proxies' = proxies /\ held' = held /\ issued' = issued
      /\ live_proxy_count' = live_proxy_count
  BY DEF snapshot_previous_inputs, Change
<1>2. SlotsOK' /\ SlotsOK /\ SlotsHold /\ HeldOK /\ IssuedOK /\ TablesOK
  BY <1>1, SlotsStay DEF Inductive
<1>3. SlotsHold' /\ HeldOK' /\ IssuedOK'
  BY <1>1, <1>2 DEF SlotsHold, HeldOK, IssuedOK, IdAt
<1>4. /\ TableOK(current) /\ TableOK(previous)
      /\ Uploaded(current, {}) /\ Uploaded(previous, {})
      /\ Len(current.values) = Len(proxies) /\ Len(previous.values) = Len(proxies)
      /\ current.values \in Seq(Inputs)
  BY <1>1, <1>2, BeforeACall
<1>5. PICK n \in 0..MaxSlots : n = Len(proxies)
  <2>1. Len(proxies) = Len(slots.generations)
    BY <1>2 DEF SlotsHold
  <2> QED BY <1>2, <2>1, SlotFields
<1>6. PICK contents : contents = [i \in 1..n |-> Snapshot(i)]
  OBVIOUS
<1>7. contents \in Seq(Inputs) /\ Len(contents) = n
  <2>1. ASSUME NEW i \in 1..n PROVE Snapshot(i) \in Inputs
    <3>1. current.values[i] \in Inputs /\ i \in 0..MaxSlots
      BY <1>4, <1>5, Sizes
    <3>2. [current.values[i] EXCEPT !.previous = i] \in Inputs
      BY <3>1 DEF Inputs
    <3> QED BY <3>2, ZeroIsInput DEF Snapshot
  <2> HIDE DEF Snapshot
  <2> QED BY <1>5, <1>6, <2>1
<1>8. previous' = set_all(previous, contents)
  <2>1. truncate(previous, n) = previous
    BY <1>4, <1>5, TruncateFacts
  <2>2. n = Len(current.values) /\ ~(Len(previous.values) < n)
    BY <1>4, <1>5, Sizes
  <2> QED BY <1>6, <2>1, <2>2 DEF snapshot_previous_inputs
<1>9. PICK p : p = set_all(previous, contents)
  OBVIOUS
<1>10. TableOK(p) /\ p.values = contents /\ Uploaded(p, {})
  BY <1>4, <1>5, <1>7, <1>9, SetAllFacts
<1>11. TablesOK'
  BY <1>1, <1>2, <1>4, <1>5, <1>7, <1>8, <1>9, <1>10, CallKeepsTables
<1> QED BY <1>2, <1>3, <1>11 DEF Inductive, GenerationsFit

LEMMA OneItem ==
  ASSUME NEW x, NEW s, s = <<x>>
  PROVE  DOMAIN s = {1} /\ s[1] = x
<1>1. DOMAIN <<x>> = 1..1 /\ <<x>>[1] = x
  OBVIOUS
<1>2. 1..1 = {1}
  OBVIOUS
<1> QED BY <1>1, <1>2, Zenon

LEMMA TwoItems ==
  ASSUME NEW x, NEW y, NEW s, s = <<x>> \o <<y>>
  PROVE  DOMAIN s = {1, 2} /\ s[1] = x /\ s[2] = y
<1>1. PICK V : V = {x, y}
  OBVIOUS
<1>2. x \in V /\ y \in V
  BY <1>1
<1>3. /\ (<<x>> \o <<y>>) \in Seq(V) /\ Len(<<x>> \o <<y>>) = 2
      /\ (<<x>> \o <<y>>)[1] = x /\ (<<x>> \o <<y>>)[2] = y
  BY <1>2
<1>4. s \in Seq(V) /\ Len(s) = 2 /\ s[1] = x /\ s[2] = y
  BY <1>3, Zenon
<1>5. 1..2 = {1, 2}
  OBVIOUS
<1>6. DOMAIN s = 1..2
  BY <1>4
<1> QED BY <1>4, <1>5, <1>6

\* What the jobs of one upload carry of each table.
LEMMA JobsCarry ==
  ASSUME NEW c, NEW p, jobs' = Job("current", c) \o Job("previous", p)
  PROVE  PagesOf("current")' = c /\ PagesOf("previous")' = p
<1> DEFINE a == [table |-> "current", pages |-> c]
           b == [table |-> "previous", pages |-> p]
<1>1. a.table = "current" /\ a.pages = c /\ b.table = "previous" /\ b.pages = p
  OBVIOUS
<1>2. CASE c = {} /\ p = {}
  <2>1. jobs' = <<>>
    BY <1>2 DEF Job
  <2> QED BY <1>2, <2>1 DEF PagesOf
<1> HIDE DEF a, b
<1>3. CASE c # {} /\ p = {}
  <2>1. jobs' = <<a>>
    BY <1>3 DEF Job, a
  <2>2. DOMAIN jobs' = {1} /\ jobs'[1] = a
    BY <2>1, OneItem
  <2>3. /\ {j \in DOMAIN jobs': jobs'[j].table = "current"} = {1}
        /\ {j \in DOMAIN jobs': jobs'[j].table = "previous"} = {}
    BY <1>1, <2>2
  <2> QED BY <1>1, <1>3, <2>2, <2>3 DEF PagesOf
<1>4. CASE c = {} /\ p # {}
  <2>1. jobs' = <<b>>
    BY <1>4 DEF Job, b
  <2>2. DOMAIN jobs' = {1} /\ jobs'[1] = b
    BY <2>1, OneItem
  <2>3. /\ {j \in DOMAIN jobs': jobs'[j].table = "current"} = {}
        /\ {j \in DOMAIN jobs': jobs'[j].table = "previous"} = {1}
    BY <1>1, <2>2
  <2> QED BY <1>1, <1>4, <2>2, <2>3 DEF PagesOf
<1>5. CASE c # {} /\ p # {}
  <2>1. Job("current", c) = <<a>> /\ Job("previous", p) = <<b>>
    BY <1>5 DEF Job, a, b
  <2>2. jobs' = <<a>> \o <<b>>
    BY <2>1
  <2>4. DOMAIN jobs' = {1, 2} /\ jobs'[1] = a /\ jobs'[2] = b
    BY <2>2, TwoItems
  <2>5. /\ {j \in DOMAIN jobs': jobs'[j].table = "current"} = {1}
        /\ {j \in DOMAIN jobs': jobs'[j].table = "previous"} = {2}
    BY <1>1, <2>4
  <2> QED BY <1>1, <2>4, <2>5 DEF PagesOf
<1> QED BY <1>2, <1>3, <1>4, <1>5

LEMMA UploadStep ==
  ASSUME Inductive, write_and_prepare_input_buffers
  PROVE  Inductive'
<1>1. /\ TableOK(current) /\ TableOK(previous)
      /\ Uploaded(current, {}) /\ Uploaded(previous, {})
      /\ Len(current.values) = Len(proxies) /\ Len(previous.values) = Len(proxies)
      /\ supported \in BOOLEAN /\ jobs = <<>>
  BY BeforeACall DEF write_and_prepare_input_buffers, Inductive, TablesOK
<1>2. PICK c : c = write_buffers(current, supported)
  OBVIOUS
<1>3. PICK p : p = write_buffers(previous, supported)
  OBVIOUS
<1>4. PICK d : d = finish_sparse_job_preparation(c)
  OBVIOUS
<1>5. PICK q : q = finish_sparse_job_preparation(p)
  OBVIOUS
<1>6. /\ jobs' = jobs \o Job("current", c.staged) \o Job("previous", p.staged)
      /\ current' = d /\ previous' = q /\ stage' = "dispatch" /\ supported' = supported
      /\ proxies' = proxies /\ live_proxy_count' = live_proxy_count /\ slots' = slots
      /\ held' = held /\ issued' = issued /\ changes' = changes
  BY <1>2, <1>3, <1>4, <1>5 DEF write_and_prepare_input_buffers, sceneVars
<1>7. Prepared(current, c, d) /\ (~supported => c.staged = {})
  BY <1>1, <1>2, <1>4, UploadFacts
<1>8. Prepared(previous, p, q) /\ (~supported => p.staged = {})
  BY <1>1, <1>3, <1>5, UploadFacts
<1>9. jobs' = Job("current", c.staged) \o Job("previous", p.staged)
  BY <1>1, <1>6 DEF Job
<1>10. PagesOf("current")' = c.staged /\ PagesOf("previous")' = p.staged
  BY <1>9, JobsCarry
<1>11. TablesOK'
  BY <1>1, <1>6, <1>7, <1>8, <1>10 DEF TablesOK, Prepared
<1>12. SlotsHold /\ SlotsOK /\ HeldOK /\ IssuedOK
  BY DEF Inductive
<1>13. SlotsHold' /\ SlotsOK' /\ HeldOK' /\ IssuedOK'
  BY <1>6, <1>7, <1>12 DEF SlotsHold, SlotsOK, HeldOK, IssuedOK, IdAt, Prepared, Slots
<1> QED BY <1>11, <1>13 DEF Inductive, GenerationsFit

LEMMA ScatterStep ==
  ASSUME Inductive, run_sparse_buffer_update_jobs
  PROVE  Inductive'
<1>1. /\ stage = "dispatch" /\ jobs' = <<>> /\ stage' = "upload" /\ supported' = supported
      /\ proxies' = proxies /\ live_proxy_count' = live_proxy_count /\ slots' = slots
      /\ held' = held /\ issued' = issued /\ changes' = changes
  BY DEF run_sparse_buffer_update_jobs, sceneVars
<1>2. /\ TableOK(current) /\ TableOK(previous) /\ Written(current) /\ Written(previous)
      /\ Uploaded(current, PagesOf("current")) /\ Uploaded(previous, PagesOf("previous"))
      /\ Len(current.values) = Len(proxies) /\ Len(previous.values) = Len(proxies)
      /\ supported \in BOOLEAN
      /\ ~supported => PagesOf("current") = {} /\ PagesOf("previous") = {}
  BY <1>1 DEF Inductive, TablesOK
<1>3. /\ TableOK(current') /\ Uploaded(current', {}) /\ current'.values = current.values
      /\ TableOK(previous') /\ Uploaded(previous', {}) /\ previous'.values = previous.values
  <2>1. CASE supported
    <3>1. /\ current' = [current EXCEPT !.gpu = Scattered(@, PagesOf("current"))]
          /\ previous' = [previous EXCEPT !.gpu = Scattered(@, PagesOf("previous"))]
      BY <2>1 DEF run_sparse_buffer_update_jobs
    <3>2. PICK c : c = [current EXCEPT !.gpu = Scattered(@, PagesOf("current"))]
      OBVIOUS
    <3>3. PICK p : p = [previous EXCEPT !.gpu = Scattered(@, PagesOf("previous"))]
      OBVIOUS
    <3>4. TableOK(c) /\ c.values = current.values /\ Uploaded(c, {})
      BY <1>2, <3>2, ScatterFacts
    <3>5. TableOK(p) /\ p.values = previous.values /\ Uploaded(p, {})
      BY <1>2, <3>3, ScatterFacts
    <3> QED BY <3>1, <3>2, <3>3, <3>4, <3>5
  <2>2. CASE ~supported
    <3>1. current' = current /\ previous' = previous
      BY <2>2 DEF run_sparse_buffer_update_jobs
    <3>2. PagesOf("current") = {} /\ PagesOf("previous") = {}
      BY <1>2, <2>2
    <3> QED BY <1>2, <3>1, <3>2
  <2> QED BY <2>1, <2>2
<1>4. \A name: PagesOf(name)' = {}
  BY <1>1 DEF PagesOf
<1>5. TablesOK'
  BY <1>1, <1>2, <1>3, <1>4 DEF TablesOK
<1>6. SlotsHold /\ SlotsOK /\ HeldOK /\ IssuedOK
  BY DEF Inductive
<1>7. SlotsHold' /\ SlotsOK' /\ HeldOK' /\ IssuedOK'
  BY <1>1, <1>3, <1>6 DEF SlotsHold, SlotsOK, HeldOK, IssuedOK, IdAt, Slots
<1> QED BY <1>5, <1>7 DEF Inductive, GenerationsFit

-----------------------------------------------------------------------------
(* The invariant is inductive.                                             *)

LEMMA IssuedIds ==
  ASSUME IssuedOK
  PROVE  Range(issued) \subseteq Ids
BY ItemFacts DEF IssuedOK, Range

LEMMA EmptyTable == TableOK(NewTable) /\ Uploaded(NewTable, {}) /\ Len(NewTable.values) = 0
<1>1. /\ NewTable.values = <<>> /\ NewTable.dirty = <<>> /\ NewTable.gpu = <<>>
      /\ ~NewTable.full /\ NewTable.staged = {}
  BY DEF NewTable
<1>2. NewTable \in Table(Inputs)
  BY DEF NewTable, Table
<1>3. Words(0) = 0
  BY NothingHasNoWords
<1> QED BY <1>1, <1>2, <1>3 DEF TableOK, Uploaded

LEMMA InitEstablishes ==
  ASSUME GenerationsFit, Init
  PROVE  Inductive
<1>1. /\ proxies = <<>> /\ live_proxy_count = 0
      /\ slots = [generations |-> <<>>, allocated |-> <<>>, free |-> <<>>]
      /\ current = NewTable /\ previous = NewTable
      /\ jobs = <<>> /\ supported \in BOOLEAN /\ stage = "upload"
      /\ held = <<>> /\ issued = <<>> /\ changes = 0
  BY DEF Init
<1>2. slots.generations = <<>> /\ slots.allocated = <<>> /\ slots.free = <<>> /\ slots \in Slots
  BY <1>1 DEF Slots
<1>3. SlotsOK
  BY <1>1, <1>2, SceneAssumption DEF SlotsOK
<1>4. SlotsHold
  BY <1>1, <1>2 DEF SlotsHold
<1>5. DOMAIN held = {}
  BY <1>1
<1>6. HeldOK
  <2>1. held \in [DOMAIN held -> Inputs]
    BY <1>1
  <2> QED BY <1>1, <1>5, <2>1, FS_EmptySet DEF HeldOK
<1>7. IssuedOK
  BY <1>1 DEF IssuedOK, Range, IsInjective
<1>8. TablesOK
  <2>1. PagesOf("current") = {} /\ PagesOf("previous") = {}
    BY <1>1, NoPagesCarried
  <2> QED BY <1>1, <2>1, EmptyTable DEF TablesOK
<1> QED BY <1>3, <1>4, <1>6, <1>7, <1>8 DEF Inductive

LEMMA AllocateProxyStep ==
  ASSUME Inductive, AllocateProxy
  PROVE  Inductive'
<1>1. PICK d \in Descriptors : allocate_proxy(from_descriptor(d))
  BY DEF AllocateProxy
<1>2. PICK input : input = from_descriptor(d)
  OBVIOUS
<1>3. input \in Inputs
  BY <1>2, SceneAssumption DEF from_descriptor, Inputs
<1>4. allocate_proxy(input)
  BY <1>1, <1>2
<1>5. PICK id, at : id = NextId /\ at = id.slot + 1
  OBVIOUS
<1>6. SlotsOK'
  BY <1>3, <1>4, <1>5, NewProxySlots
<1>7. SlotsHold' /\ HeldOK' /\ IssuedOK'
  BY <1>3, <1>4, <1>5, NewProxyHolds
<1>8. TablesOK'
  BY <1>3, <1>4, NewProxyTables
<1> QED BY <1>6, <1>7, <1>8 DEF Inductive, GenerationsFit

LEMMA NextKeeps ==
  ASSUME Inductive, [Next]_vars
  PROVE  Inductive'
<1>1. CASE UNCHANGED vars
  BY <1>1 DEF vars, sceneVars, Inductive, GenerationsFit, SlotsOK, SlotsHold, HeldOK, IssuedOK,
              TablesOK, PagesOf, IdAt, Slots
<1>2. CASE AllocateProxy
  BY <1>2, AllocateProxyStep
<1>3. ASSUME NEW id \in Range(issued), remove_proxy(id) PROVE Inductive'
  <2>1. id \in Ids
    BY IssuedIds DEF Inductive
  <2>2. CASE contains_proxy(id)
    BY <1>3, <2>1, <2>2, ProxyRemoved
  <2>3. CASE ~contains_proxy(id)
    BY <1>3, <2>1, <2>3, NothingRemoved
  <2> QED BY <2>2, <2>3
<1>4. ASSUME NEW id \in Range(issued), SetInput(id) PROVE Inductive'
  <2>1. id \in Ids
    BY IssuedIds DEF Inductive
  <2> QED BY <1>4, <2>1, SetInputIsInputSet, InputSetStep
<1>5. ASSUME NEW id \in Range(issued), NEW asset \in Assets \cup {0}, set_asset_id(id, asset)
      PROVE  Inductive'
  <2>1. id \in Ids
    BY IssuedIds DEF Inductive
  <2> QED BY <1>5, <2>1, SetAssetIsInputSet, InputSetStep
<1>6. CASE snapshot_previous_inputs
  BY <1>6, SnapshotStep
<1>7. CASE write_and_prepare_input_buffers
  BY <1>7, UploadStep
<1>8. CASE run_sparse_buffer_update_jobs
  BY <1>8, ScatterStep
<1> QED BY <1>1, <1>2, <1>3, <1>4, <1>5, <1>6, <1>7, <1>8 DEF Next

\* In every reachable state: a slot is allocated while it holds the proxy of
\* its generation, no id comes twice, and a table differs from its buffer in
\* marked or carried pages only.
THEOREM SceneInvariant == GenerationsFit /\ Spec => []Inductive
<1>1. GenerationsFit /\ Init => Inductive
  BY InitEstablishes
<1>2. Inductive /\ [Next]_vars => Inductive'
  BY NextKeeps
<1> QED BY <1>1, <1>2, PTL DEF Spec

-----------------------------------------------------------------------------
(* The scene is its proxies.                                               *)

LEMMA LiveSlots ==
  ASSUME Inductive
  PROVE  /\ \A id \in DOMAIN held: id \in Ids /\ id.slot + 1 \in 1..Len(proxies)
         /\ \A a, b \in DOMAIN held: a.slot = b.slot => a = b
         /\ live_proxy_count \in 0..MaxSlots
<1>1. SlotsOK /\ SlotsHold /\ HeldOK /\ IssuedOK
  BY DEF Inductive
<1>2. \A id \in DOMAIN held: id \in Ids /\ id.slot + 1 \in 1..Len(proxies) /\ id = IdAt(id.slot + 1)
  BY <1>1, IssuedIds DEF HeldOK
<1>3. \A a, b \in DOMAIN held: a.slot = b.slot => a = b
  BY <1>2
<1>4. Len(proxies) \in Nat /\ Len(proxies) <= MaxSlots
  <2>1. Len(proxies) = Len(slots.generations)
    BY <1>1 DEF SlotsHold
  <2> QED BY <1>1, <2>1, SlotFields
<1>5. live_proxy_count = Cardinality(DOMAIN held) /\ live_proxy_count \in Nat
  BY <1>1, FS_CardinalityType DEF HeldOK
<1> DEFINE f == [id \in DOMAIN held |-> id.slot + 1]
<1>6. f \in Injection(DOMAIN held, 1..Len(proxies))
  <2>1. f \in [DOMAIN held -> 1..Len(proxies)]
    BY <1>2
  <2>2. ASSUME NEW a \in DOMAIN held, NEW b \in DOMAIN held, f[a] = f[b] PROVE a = b
    <3>1. a.slot + 1 = b.slot + 1 /\ a.slot \in Nat /\ b.slot \in Nat
      BY <1>2, <2>2, Sizes DEF Ids
    <3> QED BY <1>3, <3>1
  <2>3. DOMAIN f = DOMAIN held
    OBVIOUS
  <2> HIDE DEF f
  <2>4. IsInjective(f)
    BY <2>2, <2>3 DEF IsInjective
  <2> QED BY <2>1, <2>4 DEF Injection
<1> HIDE DEF f
<1>7. IsFiniteSet(1..Len(proxies)) /\ Cardinality(1..Len(proxies)) = Len(proxies)
  <2>1. PICK n \in Nat : n = Len(proxies)
    BY <1>4
  <2>2. IsFiniteSet(1..n) /\ Cardinality(1..n) = IF 1 > n THEN 0 ELSE n - 1 + 1
    BY FS_Interval
  <2>3. Cardinality(1..n) = n
    BY <2>2
  <2> QED BY <2>1, <2>2, <2>3
<1>8. Cardinality(DOMAIN held) <= Len(proxies)
  BY <1>6, <1>7, FS_Injection
<1>9. live_proxy_count \in 0..MaxSlots
  BY <1>4, <1>5, <1>8, Sizes
<1> QED BY <1>2, <1>3, <1>9

\* The phases show the live proxies that take part, each once.
LEMMA PhasesShowTheLive ==
  ASSUME Inductive, NEW phase
  PROVE  LET shown == {id \in DOMAIN held: proxy_participates_in_phase(phase, held[id])}
         IN  /\ build_phase_instance_indices(phase) = {id.slot: id \in shown}
             /\ Cardinality(build_phase_instance_indices(phase)) = Cardinality(shown)
<1> DEFINE Takes(input) == proxy_participates_in_phase(phase, input)
           shown == {id \in DOMAIN held: Takes(held[id])}
           seen == build_phase_instance_indices(phase)
<1>1. SlotsOK /\ SlotsHold /\ HeldOK /\ TablesOK
  BY DEF Inductive
<1>2. /\ \A id \in DOMAIN held: id \in Ids /\ id.slot + 1 \in 1..Len(proxies)
      /\ \A a, b \in DOMAIN held: a.slot = b.slot => a = b
  BY LiveSlots
<1>3. ~Takes(Zero)
  <2>1. ~Zero.visible
    BY SceneAssumption
  <2> QED BY <2>1 DEF proxy_participates_in_phase
<1>4. Len(current.values) = Len(proxies) /\ Len(proxies) \in Nat
  BY <1>1 DEF TablesOK, SlotsHold
<1>5. seen = {i \in 0..Len(proxies)-1: Takes(current.values[i + 1])}
  BY <1>4 DEF build_phase_instance_indices
<1> HIDE DEF Takes, seen
<1>6. ASSUME NEW i \in seen PROVE \E id \in shown: i = id.slot
  <2>1. i \in 0..Len(proxies)-1 /\ Takes(current.values[i + 1])
    BY <1>5
  <2>2. PICK k \in 1..Len(proxies) : k = i + 1
    BY <1>4, <2>1
  <2>3. slots.allocated[k]
    <3>1. ~slots.allocated[k] => current.values[k] = Zero
      BY <1>1 DEF SlotsHold
    <3> QED BY <1>3, <2>1, <2>2, <3>1
  <2>4. IdAt(k) \in DOMAIN held /\ current.values[k] = held[IdAt(k)]
    BY <1>1, <2>3 DEF SlotsHold
  <2>5. IdAt(k).slot = i
    BY <1>4, <2>1, <2>2 DEF IdAt
  <2> QED BY <2>1, <2>2, <2>4, <2>5
<1>7. ASSUME NEW id \in shown PROVE id.slot \in seen
  <2>1. id \in DOMAIN held /\ Takes(held[id]) /\ id \in Ids /\ id.slot + 1 \in 1..Len(proxies)
    BY <1>2
  <2>2. current.values[id.slot + 1] = held[id]
    BY <1>1, <2>1, HeldFacts
  <2>3. id.slot \in Nat
    BY <2>1, Sizes DEF Ids
  <2>4. id.slot \in 0..Len(proxies)-1
    BY <1>4, <2>1, <2>3
  <2> QED BY <1>5, <2>1, <2>2, <2>4
<1>8. seen = {id.slot: id \in shown}
  BY <1>6, <1>7
<1>9. IsFiniteSet(shown)
  BY <1>1, FS_Subset DEF HeldOK
<1> DEFINE f == [id \in shown |-> id.slot]
<1>10. f \in [shown -> seen] /\ DOMAIN f = shown /\ \A id \in shown: f[id] = id.slot
  BY <1>7
<1>11. \A a, b \in shown: f[a] = f[b] => a = b
  BY <1>2, <1>10
<1> HIDE DEF f
<1>12. f \in Surjection(shown, seen)
  BY <1>6, <1>10 DEF Surjection
<1>13. f \in Injection(shown, seen)
  BY <1>10, <1>11 DEF Injection, IsInjective
<1>14. Cardinality(seen) = Cardinality(shown)
  BY <1>9, <1>12, <1>13, FS_Surjection
<1> QED BY <1>8, <1>14 DEF seen, Takes

LEMMA SceneFollows ==
  ASSUME Inductive
  PROVE  SceneIsItsProxies
<1>1. SlotsOK /\ SlotsHold /\ HeldOK /\ IssuedOK /\ TablesOK
  BY DEF Inductive
<1>2. /\ Len(proxies) = Len(slots.generations) /\ proxies \in Seq(Proxies \cup {NoProxy})
      /\ DOMAIN proxies = 1..Len(proxies)
  BY <1>1 DEF SlotsHold
<1>3. /\ slots.free \in Seq(0..MaxSlots-1) /\ DOMAIN slots.generations = DOMAIN slots.allocated
      /\ Len(slots.generations) \in Nat /\ Len(slots.generations) <= MaxSlots /\ MaxSlots \in Nat
  <2>1. /\ slots.free \in Seq(0..MaxSlots-1)
        /\ slots.generations \in Seq(0..Generations-1) /\ slots.allocated \in Seq(BOOLEAN)
        /\ Len(slots.allocated) = Len(slots.generations)
        /\ Len(slots.generations) \in Nat /\ Len(slots.generations) <= MaxSlots /\ MaxSlots \in Nat
    BY <1>1, SlotFields
  <2>2. /\ DOMAIN slots.generations = 1..Len(slots.generations)
        /\ DOMAIN slots.allocated = 1..Len(slots.allocated)
    BY <2>1
  <2> QED BY <2>1, <2>2
<1>4. TypeOK
  <2>1. current \in Table(Inputs) /\ previous \in Table(Inputs)
    BY <1>1 DEF TablesOK, TableOK
  <2>2. issued \in Seq(Ids) /\ DOMAIN held \subseteq Range(issued)
    BY <1>1 DEF IssuedOK, HeldOK
  <2> QED BY <1>2, <1>3, <2>1, <2>2, LiveSlots DEF TypeOK
<1>5. IsInjective(issued)
  BY <1>1 DEF IssuedOK
<1>6. \A id \in Range(issued): contains_proxy(id) <=> id \in DOMAIN held
  BY <1>1, IssuedIds, HeldFacts
<1>7. ASSUME NEW id \in DOMAIN held
      PROVE  /\ current.values[id.slot + 1] = held[id]
             /\ proxies[id.slot + 1].asset = held[id].asset
  <2>1. id \in Ids
    BY LiveSlots
  <2>2. /\ proxies[id.slot + 1] = [id |-> id, asset |-> held[id].asset]
        /\ current.values[id.slot + 1] = held[id]
    BY <1>1, <2>1, HeldFacts
  <2> QED BY <2>2
<1>8. NextId.slot + 1 \in DOMAIN proxies => proxies[NextId.slot + 1] = NoProxy
  <2>1. SUFFICES ASSUME NextId.slot + 1 \in 1..Len(slots.generations)
                 PROVE  proxies[NextId.slot + 1] = NoProxy
    BY <1>2
  <2>2. NextId.slot \in Nat
    <3>1. CASE slots.free # <<>>
      <4>1. Len(slots.free) \in 1..Len(slots.free)
        BY <1>3, <3>1
      <4>2. slots.free[Len(slots.free)] \in 0..MaxSlots-1
        BY <1>3, <4>1, ItemFacts
      <4> QED BY <1>3, <3>1, <4>2 DEF NextId
    <3>2. CASE slots.free = <<>>
      BY <1>3, <3>2 DEF NextId
    <3> QED BY <3>1, <3>2
  <2>3. NextId.slot < MaxSlots
    BY <1>3, <2>1, <2>2
  <2>4. ~slots.allocated[NextId.slot + 1]
    BY <1>1, <2>1, <2>3, NextIdFacts
  <2>5. PICK k \in 1..Len(proxies) : k = NextId.slot + 1
    BY <1>2, <2>1
  <2> QED BY <1>1, <2>4, <2>5 DEF SlotsHold
<1>9. LET frame == from_gpu_scene
      IN  /\ frame.live_proxy_count = Cardinality(DOMAIN held)
          /\ {frame.current_input_count, frame.previous_input_count} = {frame.slot_capacity}
  BY <1>1 DEF from_gpu_scene, HeldOK, TablesOK
<1>10. ASSUME NEW i \in DOMAIN current.values, \A id \in DOMAIN held: id.slot + 1 # i
       PROVE  current.values[i] = Zero
  <2>1. i \in 1..Len(proxies)
    <3>1. current.values \in Seq(Inputs) /\ Len(current.values) = Len(proxies)
      BY <1>1, TableFields DEF TablesOK, TableOK
    <3> QED BY <3>1
  <2>2. ~slots.allocated[i]
    <3>1. slots.allocated[i] => IdAt(i) \in DOMAIN held
      BY <1>1, <2>1 DEF SlotsHold
    <3>2. IdAt(i).slot + 1 = i
      BY <2>1 DEF IdAt
    <3> QED BY <1>10, <3>1, <3>2
  <2> QED BY <1>1, <2>1, <2>2 DEF SlotsHold
<1>11. \A phase \in Phases:
          LET shown == {id \in DOMAIN held: proxy_participates_in_phase(phase, held[id])}
          IN  /\ build_phase_instance_indices(phase) = {id.slot: id \in shown}
              /\ Cardinality(build_phase_instance_indices(phase)) = Cardinality(shown)
  BY PhasesShowTheLive
<1> QED BY <1>4, <1>5, <1>6, <1>7, <1>8, <1>9, <1>10, <1>11, Zenon DEF SceneIsItsProxies

\* The scene is the map from ids to inputs its callers see, whatever is
\* allocated, removed and set: an id names its proxy and no other ever, and the
\* phases show the live proxies.
THEOREM SceneIsTheProxiesOfItsCallers == GenerationsFit /\ Spec => []SceneIsItsProxies
<1>1. Inductive => SceneIsItsProxies
  BY SceneFollows
<1> QED BY <1>1, SceneInvariant, PTL

-----------------------------------------------------------------------------
(* Changes reach the GPU.                                                  *)

\* A marked page is dirty, a carried one has the present contents.
LEMMA UploadedIsOnItsWay ==
  ASSUME NEW t, TableOK(t), NEW name, Uploaded(t, PagesOf(name))
  PROVE  OnItsWay(t, name)
<1>1. /\ t \in Table(Inputs) /\ Len(t.values) \in Nat /\ Len(t.gpu) \in Nat
      /\ t.dirty \in Seq(SUBSET EveryPage)
  BY TableFields DEF TableOK
<1>2. PICK m \in Nat : /\ m = Min({Len(t.values), Len(t.gpu)})
                       /\ m <= Len(t.values) /\ m <= Len(t.gpu)
  BY <1>1 DEF Min
<1>3. ASSUME NEW i \in 1..m
      PROVE  \/ t.gpu[i] = t.values[i]
             \/ index_to_page(i - 1) \in DirtyPages(t)
             \/ \E s \in PagesOf(name):
                   /\ s.page = index_to_page(i - 1)
                   /\ s.values[((i - 1) % PageSize) + 1] = t.values[i]
  <2>1. i \in 1..Len(t.values) /\ ~(i > Len(t.gpu)) /\ i \in Nat \ {0}
    BY <1>1, <1>2
  <2>2. index_to_page(i - 1) \in Nat
    BY <2>1, PlaceInPage
  <2>3. CASE Marked(t, index_to_page(i - 1))
    BY <1>1, <2>2, <2>3, DirtyPagesFacts
  <2>4. CASE \E s \in PagesOf(name): s.page = index_to_page(i - 1)
    <3>1. PICK s \in PagesOf(name) : s.page = index_to_page(i - 1)
      BY <2>4
    <3>2. s.values = PageContents(t, index_to_page(i - 1))
      BY <3>1 DEF Uploaded
    <3>3. s.values[((i - 1) % PageSize) + 1] = t.values[i]
      BY <1>1, <2>1, <3>2, ContentsAreValues
    <3> QED BY <3>1, <3>3
  <2>5. CASE t.gpu[i] = t.values[i]
    BY <2>5
  <2> QED BY <2>1, <2>3, <2>4, <2>5 DEF Uploaded
<1> QED BY <1>2, <1>3 DEF OnItsWay

LEMMA ChangesFollow ==
  ASSUME Inductive
  PROVE  ChangesReachTheGpu
<1>1. /\ TableOK(current) /\ TableOK(previous)
      /\ Uploaded(current, PagesOf("current")) /\ Uploaded(previous, PagesOf("previous"))
      /\ stage = "dispatch" => Written(current) /\ Written(previous)
  BY DEF Inductive, TablesOK
<1>2. OnItsWay(current, "current") /\ OnItsWay(previous, "previous")
  BY <1>1, UploadedIsOnItsWay
<1>3. ASSUME NEW t, TableOK(t), Written(t)
      PROVE  Len(t.gpu) >= Len(t.values) /\ DirtyPages(t) = {}
  <2>1. t \in Table(Inputs) /\ \A w \in 1..Len(t.dirty): t.dirty[w] = {}
    BY <1>3 DEF TableOK, Written
  <2>2. DirtyPages(t) = {}
    BY <2>1, TableFields, DirtyPagesFacts
  <2> QED BY <1>3, <2>2 DEF Written
<1> QED BY <1>1, <1>2, <1>3 DEF ChangesReachTheGpu

\* A changed value is in the GPU buffer or on its way there, in its latest
\* state, for every page size, threshold and growth of the buffers.
THEOREM ChangesArrive == GenerationsFit /\ Spec => []ChangesReachTheGpu
<1>1. Inductive => ChangesReachTheGpu
  BY ChangesFollow
<1> QED BY <1>1, SceneInvariant, PTL

=============================================================================
