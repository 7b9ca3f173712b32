----------------------------- MODULE BuddyAlloc -----------------------------
(***************************************************************************)
(* The buddy page allocator of lib/buddy_alloc, at the level of its        *)
(* pointers: the free lists are the next/prev fields that the code writes  *)
(* into the first page of every free block, state_table is an array of     *)
(* bytes, and the loops of init_lists, buddy_devide and add_free_block     *)
(* take one step per iteration.  The kernel calls every operation with     *)
(* buddy_mem.lock held, so one operation runs at a time; pc says which     *)
(* loop it is in.                                                          *)
(*                                                                         *)
(* A node is a page number or the head of a list: HeadOf(l) stands for       *)
(* &lists[l].head.  The fields list and level of a node are always written *)
(* together and agree, so level stands for both.                           *)
(***************************************************************************)
EXTENDS Integers, FiniteSets, FiniteSetsExt

CONSTANTS
    Levels,      \* mem->levels
    Pages,       \* mem->pages, the working pages
    Shl,         \* Shl[l] is 1 << l
    CharSigned   \* is plain char signed?  TRUE: the host build of the tests;
                 \* FALSE: the RISC-V build of the kernel

ASSUME LevelsAssumption == Levels \in 1..31 /\ Pages \in Nat
ASSUME ShlAssumption == /\ Shl \in [0..Levels -> Nat \ {0}]
                        /\ Shl[0] = 1
                        /\ \A l \in 0..(Levels - 1) : Shl[l + 1] = 2 * Shl[l]
ASSUME CharAssumption == CharSigned \in BOOLEAN

VARIABLES
    state_table, \* one byte per page
    next, prev,  \* the list pointers of every node
    level,       \* the level (and list) of every node
    len,         \* lists[l].len
    held,        \* the blocks <<first page, level>> that clients hold
    pc,          \* the loop in progress
    pn, lvl,     \* the block in hand: curr_page, free_block or pn, and its level
    want,        \* final_lvl of buddy_devide
    left         \* pages of init_lists

table == <<state_table, held>>
lists == <<next, prev, level, len>>
vars == <<state_table, next, prev, level, len, held, pc, pn, lvl, want, left>>

Page == 0..(Pages - 1)
Level == 0..(Levels - 1)
HeadOf(l) == Pages + l
Node == 0..(Pages + Levels - 1)
Block == Page \X Level
Span(p, l) == p..(p + Shl[l] - 1)

NULL == -1       \* a null pointer
Garbage == -2    \* bytes the allocator did not write: a client's, or uninitialised
BUDDY_NOTHING == -1
Byte == 0..255

\* Storing an int (-1 or a level) in a char keeps its low 8 bits; reading it back
\* sign-extends where char is signed.
StoreChar(i) == (i + 256) % 256
ReadChar(b) == IF CharSigned /\ b >= 128 THEN b - 256 ELSE b

(***************************************************************************)
(* Lists                                                                   *)
(***************************************************************************)

\* list_add, that is insert_block after the head.  The old first block keeps
\* its prev.
list_add(l, p) ==
    /\ level' = [level EXCEPT ![p] = l]
    /\ prev' = [prev EXCEPT ![p] = HeadOf(l)]
    /\ next' = [next EXCEPT ![p] = next[HeadOf(l)], ![HeadOf(l)] = p]
    /\ len' = [len EXCEPT ![l] = @ + 1]

\* The ASSERTs of remove_block, and what it writes.
RemoveAsserts(b) == prev[b] # NULL /\ len[level[b]] > 0

\* Mutant: next and prev swapped in the first write.
remove_block_to_head(b) ==
    /\ next' = [next EXCEPT ![prev[b]] = prev[b]]
    /\ prev' = IF next[b] # NULL THEN [prev EXCEPT ![next[b]] = prev[b]] ELSE prev
    /\ len' = [len EXCEPT ![level[b]] = @ - 1]
    /\ UNCHANGED level

\* Mutant: remove_block forgets len -= 1.
remove_block_keeps_len(b) ==
    /\ next' = [next EXCEPT ![prev[b]] = next[b]]
    /\ prev' = IF next[b] # NULL THEN [prev EXCEPT ![next[b]] = prev[b]] ELSE prev
    /\ UNCHANGED <<level, len>>

remove_block(b) ==
    /\ next' = [next EXCEPT ![prev[b]] = next[b]]
    /\ prev' = IF next[b] # NULL THEN [prev EXCEPT ![next[b]] = prev[b]] ELSE prev
    /\ len' = [len EXCEPT ![level[b]] = @ - 1]
    /\ UNCHANGED level

\* The operation returns; its locals die.
Return == pc' = "idle" /\ pn' = 0 /\ lvl' = 0 /\ want' = 0

\* A failed ASSERT or my_assert panics: the kernel stops in panic's loop.
Panic == pc' = "panic" /\ UNCHANGED <<table, lists, pn, lvl, want, left>>

\* The code dereferences bytes that are not a list node, or an array element
\* past the end: anything may happen from here on.
Wild == pc' = "wild" /\ UNCHANGED <<table, lists, pn, lvl, want, left>>

Assert(cond, A) == IF cond THEN A ELSE Panic
Deref(b, A) == IF level[b] # Garbage THEN A ELSE Wild

\* Mutant: < for <= at the upper bound.
block_exists_strict(p, l) ==
    l \in Level /\ p % Shl[l] = 0 /\ 0 <= p /\ p + Shl[l] < Pages

block_exists(p, l) ==
    /\ l \in Level
    /\ p % Shl[l] = 0
    /\ 0 <= p /\ p + Shl[l] <= Pages

(***************************************************************************)
(* lib_buddy_init                                                          *)
(***************************************************************************)

\* After init_state_table and the list_init of every list.
Init ==
    /\ state_table = [p \in Page |-> StoreChar(BUDDY_NOTHING)]
    /\ next = [n \in Node |-> IF n < Pages THEN Garbage ELSE NULL]
    /\ prev = [n \in Node |-> IF n < Pages THEN Garbage ELSE NULL]
    /\ level = [n \in Node |-> IF n < Pages THEN Garbage ELSE n - Pages]
    /\ len = [l \in Level |-> 0]
    /\ held = {}
    /\ pc = "init_top" /\ pn = 0 /\ lvl = Levels - 1 /\ left = Pages
    /\ want = 0

\* One top-level block.  i < top_lvl_count says that a whole block is left.
InitTop ==
    /\ pc = "init_top" /\ left >= Shl[lvl]
    /\ list_add(lvl, pn)
    /\ pn' = pn + Shl[lvl] /\ left' = left - Shl[lvl]
    /\ UNCHANGED <<table, pc, lvl, want>>

InitTopDone ==
    /\ pc = "init_top" /\ left < Shl[lvl]
    /\ pc' = "init_low"
    /\ UNCHANGED <<table, lists, pn, lvl, want, left>>

\* At most one block on each of the lower levels; the ASSERT closes the body.
InitLow ==
    /\ pc = "init_low" /\ lvl > 0
    /\ lvl' = lvl - 1
    /\ IF left >= Shl[lvl - 1]
       THEN /\ list_add(lvl - 1, pn)
            /\ pn' = pn + Shl[lvl - 1] /\ left' = left - Shl[lvl - 1]
       ELSE UNCHANGED <<lists, pn, left>>
    /\ pc' = IF left' < Shl[lvl - 1] THEN pc ELSE "panic"
    /\ UNCHANGED <<table, want>>

InitDone ==
    /\ pc = "init_low" /\ lvl = 0
    /\ Return
    /\ UNCHANGED <<table, lists, left>>

(***************************************************************************)
(* lib_buddy_alloc                                                         *)
(***************************************************************************)

\* -1 when n is not a power of two.  Requests stop at Shl[Levels], the first
\* power of two that is too large.
Request == 0..Shl[Levels]
buddy_log2(n) == IF \E l \in 0..Levels : Shl[l] = n
                 THEN CHOOSE l \in 0..Levels : Shl[l] = n
                 ELSE -1

\* The first list of level l or more with len > 0 gives its first block.
IsFirstNonEmpty(l, k) ==
    /\ k \in Level /\ k >= l /\ len[k] > 0
    /\ \A j \in l..(k - 1) : len[j] = 0

AllocNull(n) ==
    LET l == buddy_log2(n) IN
    /\ pc = "idle"
    /\ l \in Level => ~ \E k \in Level : IsFirstNonEmpty(l, k) /\ next[HeadOf(k)] # NULL
    /\ UNCHANGED vars

\* find_free_block succeeds; buddy_devide takes the block off its list.
AllocBegin(n) ==
    LET l == buddy_log2(n) IN
    /\ pc = "idle" /\ l \in Level
    /\ \E k \in Level :
        LET b == next[HeadOf(k)] IN
        /\ IsFirstNonEmpty(l, k) /\ b # NULL
        /\ Deref(b, Assert(level[b] >= l /\ RemoveAsserts(b),
              /\ remove_block(b)
              /\ pc' = "devide" /\ pn' = b /\ lvl' = level[b] /\ want' = l
              /\ UNCHANGED <<table, left>>))

\* Mutant: second_part is computed before initial_lvl -= 1.
Devide_stale_level ==
    /\ pc = "devide" /\ lvl > want
    /\ lvl' = lvl - 1
    /\ pn + Shl[lvl] \in Page
    /\ list_add(lvl - 1, pn + Shl[lvl])
    /\ UNCHANGED <<table, pc, pn, want, left>>

\* The second half of the block becomes free.
Devide ==
    /\ pc = "devide" /\ lvl > want
    /\ lvl' = lvl - 1
    /\ list_add(lvl - 1, pn + Shl[lvl - 1])
    /\ UNCHANGED <<table, pc, pn, want, left>>

\* The client owns every byte of the block from here on and overwrites it.
AllocEnd ==
    /\ pc = "devide" /\ lvl = want
    /\ state_table' = [state_table EXCEPT ![pn] = StoreChar(lvl)]
    /\ held' = held \cup {<<pn, lvl>>}
    /\ next' = [n \in Node |-> IF n \in Span(pn, lvl) THEN Garbage ELSE next[n]]
    /\ prev' = [n \in Node |-> IF n \in Span(pn, lvl) THEN Garbage ELSE prev[n]]
    /\ level' = [n \in Node |-> IF n \in Span(pn, lvl) THEN Garbage ELSE level[n]]
    /\ Return
    /\ UNCHANGED <<len, left>>

(***************************************************************************)
(* lib_buddy_stat                                                          *)
(***************************************************************************)

\* Mutant: lib_buddy_stat counts blocks, not pages.
stat_counts_blocks == MapThenSumSet(LAMBDA l : len[l], Level)

\* *free: the pages of all the blocks on the lists, by their lens.
lib_buddy_stat_free == MapThenSumSet(LAMBDA l : len[l] * Shl[l], Level)

(***************************************************************************)
(* lib_buddy_free                                                          *)
(***************************************************************************)

\* Mutant: lib_buddy_free does not mark the block free in state_table.
FreeBegin_keeps_state(p) ==
    /\ pc = "idle" /\ pn' = p
    /\ IF /\ p # -1
          /\ ReadChar(state_table[p]) >= 0
          /\ block_exists(p, ReadChar(state_table[p]))
       THEN /\ held' = {b \in held : b[1] # p}
            /\ lvl' = ReadChar(state_table[p])
            /\ pc' = "merge"
            /\ UNCHANGED <<state_table, lists, want, left>>
       ELSE pc' = "free_panic" /\ UNCHANGED <<table, lists, lvl, want, left>>

\* p is what get_page_number makes of the address: -1 when it is not a page.
FreeBegin(p) ==
    /\ pc = "idle" /\ pn' = p
    /\ IF /\ p # -1
          /\ ReadChar(state_table[p]) >= 0
          /\ block_exists(p, ReadChar(state_table[p]))
       THEN /\ state_table' = [state_table EXCEPT ![p] = StoreChar(BUDDY_NOTHING)]
            /\ held' = {b \in held : b[1] # p}
            /\ lvl' = ReadChar(state_table[p])
            /\ pc' = "merge"
            /\ UNCHANGED <<lists, want, left>>
       ELSE pc' = "free_panic" /\ UNCHANGED <<table, lists, lvl, want, left>>

\* pn ^ (1 << lvl): the other half of the block of level lvl + 1 around pn.
Neighbour(p, l) == IF p % (2 * Shl[l]) = 0 THEN p + Shl[l] ELSE p - Shl[l]

\* The tests of add_free_block's loop that do not break: the neighbour exists,
\* is not marked allocated, and its first page does not say it is split.
GoesOn(p, l) ==
    LET npn == Neighbour(p, l) IN
    /\ l < Levels
    /\ block_exists(npn, l)
    /\ ReadChar(state_table[npn]) = BUDDY_NOTHING
    /\ level[npn] \notin 0..(l - 1)

\* One merge with the neighbour.
Merge ==
    LET npn == Neighbour(pn, lvl) IN
    /\ pc = "merge" /\ GoesOn(pn, lvl)
    /\ Deref(npn, Assert(block_exists(pn, lvl) /\ level[npn] = lvl /\ RemoveAsserts(npn),
          /\ remove_block(npn)
          /\ pn' = (IF npn < pn THEN npn ELSE pn)
          /\ lvl' = lvl + 1
          /\ UNCHANGED <<table, pc, want, left>>))

\* Mutant: continue for break when the neighbour is allocated.
FreeEnd_continue ==
    /\ pc = "merge" /\ ~ GoesOn(pn, lvl)
    /\ block_exists(Neighbour(pn, lvl), lvl)
          => ReadChar(state_table[Neighbour(pn, lvl)]) = BUDDY_NOTHING
    /\ IF lvl < Levels
       THEN Assert(block_exists(pn, lvl),
                   list_add(lvl, pn) /\ Return /\ UNCHANGED <<table, left>>)
       ELSE Wild

\* The final list_add.  lists[levels] is past the end of the array.
FreeEnd ==
    /\ pc = "merge" /\ ~ GoesOn(pn, lvl)
    /\ IF lvl < Levels
       THEN Assert(block_exists(pn, lvl),
                   list_add(lvl, pn) /\ Return /\ UNCHANGED <<table, left>>)
       ELSE Wild

\* panic() loops for ever; after wild anything goes, and nothing is claimed.
Stopped == pc \in {"panic", "free_panic", "wild"} /\ UNCHANGED vars

Next ==
    \/ InitTop \/ InitTopDone \/ InitLow \/ InitDone
    \/ \E n \in Request : AllocNull(n) \/ AllocBegin(n)
    \/ Devide \/ AllocEnd
    \/ \E p \in Page \cup {-1} : FreeBegin(p)
    \/ Merge \/ FreeEnd
    \/ Stopped

Spec == Init /\ [][Next]_vars

\* An operation in progress runs to its end: its CPU holds the lock with
\* interrupts off and no loop waits for anybody.
Step == InitTop \/ InitTopDone \/ InitLow \/ InitDone
        \/ Devide \/ AllocEnd \/ Merge \/ FreeEnd
FairSpec == Spec /\ WF_vars(Step)

(***************************************************************************)
(* Properties                                                              *)
(***************************************************************************)

TypeOK ==
    /\ state_table \in [Page -> Byte]
    /\ next \in [Node -> Page \cup {NULL, Garbage}]
    /\ prev \in [Node -> Node \cup {NULL, Garbage}]
    /\ level \in [Node -> Level \cup {Garbage}]
    /\ len \in [Level -> Nat]
    /\ held \in SUBSET Block
    /\ pc \in {"init_top", "init_low", "idle", "devide", "merge",
               "panic", "free_panic", "wild"}
    /\ pn \in -1..Pages /\ lvl \in 0..Levels /\ want \in Level /\ left \in 0..Pages

Overlap(b, c) == Span(b[1], b[2]) \cap Span(c[1], c[2]) # {}

\* No page belongs to two clients: the blocks that lib_buddy_alloc returned and
\* that were not freed are disjoint, and so is the block it is about to return
\* (lib_buddy_alloc, buddy_devide).
NoOverlap ==
    /\ \A b, c \in held : b # c => ~ Overlap(b, c)
    /\ pc \in {"devide", "merge"} => \A b \in held : ~ Overlap(b, <<pn, lvl>>)

\* Freeing what lib_buddy_alloc returned never panics, no ASSERT of the
\* allocator ever fails and it never follows a pointer into bytes it did not
\* write: the only panic is lib_buddy_free of an address nobody holds.
OnlyBadFreePanics ==
    /\ pc \notin {"panic", "wild"}
    /\ pc = "free_panic" => pn \notin {b[1] : b \in held}

\* What state_table promises (the comment before buddy_allocator_t): the byte of
\* a page says whether an allocated block begins there, and of which level.
StateTableExact ==
    \A p \in Page, l \in Level : state_table[p] = l <=> <<p, l>> \in held

\* The nodes of list l in order, as a walk along next finds them.
Chain(l) ==
    LET w[i \in 0..Pages] == IF i = 0 THEN next[HeadOf(l)]
                             ELSE IF w[i - 1] \in Page THEN next[w[i - 1]] ELSE NULL
    IN  w
Listed(l) == {Chain(l)[i] : i \in 0..Pages} \cap Page
FreeBlocks == UNION {{<<p, l>> : p \in Listed(l)} : l \in Level}

\* The function check() of test_buddy.cpp, between any two operations: a walk
\* along each list meets len blocks of its level, and every page is in exactly
\* one block, allocated or listed.
Check ==
    pc = "idle" =>
        /\ \A l \in Level :
              /\ Cardinality(Listed(l)) = len[l] /\ Chain(l)[len[l]] = NULL
              /\ \A p \in Listed(l) : level[p] = l /\ block_exists(p, l)
        /\ \A q \in Page :
              Cardinality({b \in held \cup FreeBlocks : q \in Span(b[1], b[2])}) = 1

\* lib_buddy_stat, and so the buddy_info system call, reports as free exactly
\* the pages that no client holds.
StatExact ==
    pc = "idle" =>
        lib_buddy_stat_free = Pages - MapThenSumSet(LAMBDA b : Shl[b[2]], held)

\* No step writes into a page that a client holds before and after it: the list
\* surgery of insert_block and remove_block stays inside free blocks.
ClientMemoryUntouched ==
    [][\A b \in held \cap held' : \A q \in Span(b[1], b[2]) :
          next'[q] = next[q] /\ prev'[q] = prev[q] /\ level'[q] = level[q]]_vars

\* Every operation returns (or panics): the loops of init_lists, buddy_devide
\* and add_free_block end.
OperationsReturn ==
    pc \in {"init_top", "init_low", "devide", "merge"}
        ~> pc \in {"idle", "panic", "free_panic", "wild"}

\* The allocator implements PageAlloc: a block is only given to a client while
\* nobody holds a page of it (lib_buddy_alloc), and lib_buddy_free takes exactly
\* one block away.
PA == INSTANCE PageAlloc
ImplementsPageAlloc == PA!Spec

\* The comment in add_free_block: as long as the neighbour is free we unite
\* with it.  So two halves of one block are never both free.
Coalesced ==
    pc = "idle" => \A l \in 0..(Levels - 2) : \A p, q \in Listed(l) :
        ~ (q = Neighbour(p, l) /\ block_exists(p, l) /\ block_exists(q, l))
=============================================================================
