---------------------------- MODULE SparseUploads ----------------------------
(***************************************************************************)
(* The table a BufferUploader keeps on both sides                          *)
(* (rendering/buffer_uploaders.rs): values on the CPU, a copy in a GPU     *)
(* buffer, and one bit for each page of values that changed, packed into   *)
(* words.  An upload writes the whole table, or stages the dirty pages for *)
(* a compute job that scatters them.  Operators on one table; GpuScene has *)
(* two.  Indices and pages count from 0, the sequences from 1.             *)
(***************************************************************************)
EXTENDS Naturals, Sequences, FiniteSets, FiniteSetsExt

CONSTANTS
    Zero,               \* T::default(), and what a new buffer holds
    PageSize,           \* 1 << page_size_log2
    PagesPerDirtyWord,  \* PAGES_PER_DIRTY_WORD
    ReallocationMultiple,   \* REALLOCATION_SIZE_MULTIPLE
    ThresholdPercent,   \* SPARSE_UPLOAD_THRESHOLD, in percent
    MaxSparsePages      \* the pages MAX_WORKGROUPS workgroups can scatter

ASSUME PagesAssumption ==
    /\ {PageSize, PagesPerDirtyWord, ReallocationMultiple} \subseteq Nat \ {0}
    /\ ThresholdPercent \in 0..100 /\ MaxSparsePages \in Nat

DivCeil(a, b) == (a + b - 1) \div b

(* needs_full_reupload is .full, the pages in the staging buffers .staged. *)
NewTable == [values |-> <<>>, dirty |-> <<>>, gpu |-> <<>>, full |-> FALSE,
             staged |-> {}]

Table(Value) ==
    [values: Seq(Value), dirty: Seq(SUBSET (0..PagesPerDirtyWord-1)),
     gpu: Seq(Value), full: BOOLEAN,
     staged: SUBSET [page: Nat, values: Seq(Value)]]

index_to_page(i) == i \div PageSize
EveryPage == 0..PagesPerDirtyWord-1

\* Mutant of note_changed_index: the bit of the page, in the first word.
NoteInFirstWord(t, i) ==
    [t EXCEPT !.dirty[1] = @ \cup {index_to_page(i) % PagesPerDirtyWord}]

note_changed_index(t, i) ==
    [t EXCEPT !.dirty[index_to_page(i) \div PagesPerDirtyWord + 1] =
        @ \cup {index_to_page(i) % PagesPerDirtyWord}]

set(t, i, value) == note_changed_index([t EXCEPT !.values[i + 1] = value], i)

(* set at every index.                                                     *)
set_all(t, contents) ==
    [t EXCEPT !.values = contents,
              !.dirty = [w \in DOMAIN @ |-> @[w] \cup
                  {p \in EveryPage: (w - 1) * PagesPerDirtyWord + p
                                      < DivCeil(Len(contents), PageSize)}]]

Resized(s, n, x) == [j \in 1..n |-> IF j <= Len(s) THEN s[j] ELSE x]

(* Marks the rest of the word the old end is in unless the end is in its   *)
(* first page, and every page of a new word.                               *)
grow(t, len) ==
    LET end == index_to_page(Len(t.values))
        word == end \div PagesPerDirtyWord + 1
        rest == (end % PagesPerDirtyWord)..PagesPerDirtyWord-1
        marked == IF end % PagesPerDirtyWord # 0 /\ word \in DOMAIN t.dirty
                  THEN [t.dirty EXCEPT ![word] = @ \cup rest]
                  ELSE t.dirty
        words == DivCeil(DivCeil(len, PageSize), PagesPerDirtyWord)
    IN  IF Len(t.values) >= len THEN t
        ELSE [t EXCEPT !.values = Resized(@, len, Zero),
                       !.dirty = Resized(marked, words, EveryPage)]

truncate(t, len) ==
    LET words == DivCeil(DivCeil(len, PageSize), PagesPerDirtyWord)
    IN  [t EXCEPT !.values = SubSeq(@, 1, Min({len, Len(@)})),
                  !.dirty = SubSeq(@, 1, Min({words, Len(@)}))]

(* Powers of REALLOCATION_FACTOR, 3/2, above and below the line.           *)
ThreeTo[k \in Nat] == IF k = 0 THEN 1 ELSE 3 * ThreeTo[k - 1]
TwoTo[k \in Nat] == IF k = 0 THEN 1 ELSE 2 * TwoTo[k - 1]
Reaches(k, len) == ThreeTo[k] >= len * TwoTo[k]

(* The smallest power that is not below the length, rounded up to a        *)
(* multiple.                                                               *)
calculate_allocation_size(len) ==
    LET exponent == CHOOSE k \in 0..len: /\ Reaches(k, len)
                                         /\ \A j \in 0..k-1: ~Reaches(j, len)
    IN  ReallocationMultiple *
            DivCeil(ThreeTo[exponent] \div TwoTo[exponent], ReallocationMultiple)

reserve(t, capacity) ==
    IF capacity <= Len(t.gpu) THEN t
    ELSE [t EXCEPT !.gpu = Resized(<<>>, capacity, Zero), !.full = TRUE]

DirtyPages(t) ==
    UNION {{(w - 1) * PagesPerDirtyWord + p: p \in t.dirty[w]}:
             w \in DOMAIN t.dirty}

Clean(t) == [t EXCEPT !.dirty = [w \in DOMAIN @ |-> {}]]

should_perform_full_reupload(t, changed, supported) ==
    \/ t.full \/ ~supported
    \/ changed > MaxSparsePages
    \/ changed * 100 > ThresholdPercent * DivCeil(Len(t.values), PageSize)

finish_full_reupload(t) == [t EXCEPT !.full = FALSE, !.staged = {}]

write_entire_buffer(t) ==
    finish_full_reupload(Clean(
        [t EXCEPT !.gpu = [j \in DOMAIN @ |->
            IF j <= Len(t.values) THEN t.values[j] ELSE @[j]]]))

(* A page may reach past the values; there it is zero.                     *)
PageContents(t, page) ==
    [j \in 1..PageSize |-> LET at == page * PageSize + j
                           IN  IF at <= Len(t.values) THEN t.values[at] ELSE Zero]

prepare_sparse_upload(t) ==
    LET pages == {[page |-> p, values |-> PageContents(t, p)]: p \in DirtyPages(t)}
    IN  IF DirtyPages(t) = {} THEN finish_full_reupload(Clean(t))
        ELSE [Clean(t) EXCEPT !.staged = pages]

write_buffers(t, supported) ==
    LET reserved == reserve(t, calculate_allocation_size(Len(t.values)))
    IN  IF t.values = <<>> THEN t
        ELSE IF should_perform_full_reupload(reserved,
                    Cardinality(DirtyPages(reserved)), supported)
             THEN write_entire_buffer(reserved)
             ELSE prepare_sparse_upload(reserved)

(* prepare_sparse_update_job leaves the table with nothing staged and      *)
(* nothing to reupload, if it was staged for.                              *)
finish_sparse_job_preparation(t) ==
    IF t.staged = {} THEN t ELSE [t EXCEPT !.staged = {}, !.full = FALSE]

(* The shader: every staged word that is inside the buffer.                *)
Scattered(gpu, pages) ==
    [j \in DOMAIN gpu |->
       LET here == {s \in pages: s.page = index_to_page(j - 1)}
       IN  IF here = {} THEN gpu[j]
           ELSE (CHOOSE s \in here: TRUE).values[((j - 1) % PageSize) + 1]]
=============================================================================
