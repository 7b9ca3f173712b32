------------------------------ MODULE SlabAlloc ------------------------------
(***************************************************************************)
(* One slab cache of lib/slab_alloc as the kernel uses it: kslab_alloc and *)
(* kslab_free hold the lock of the cache, and take and give back pages     *)
(* with buddy_alloc(1) and buddy_free, whose promise (PageAlloc) is all    *)
(* that is used of them here.  The rest of the kernel takes and gives back *)
(* pages too.                                                              *)
(*                                                                         *)
(* A node is a page or the head of a list; HeadOf(k) is &lists[k].head.    *)
(* The fields list and used_cells of a node are written together and       *)
(* agree, so used stands for both.  The last free of a page gives the page *)
(* back to the buddy allocator before page_clean_cell touches it, so       *)
(* lib_slab_free takes two steps.                                          *)
(***************************************************************************)
EXTENDS Integers, FiniteSets

CONSTANTS
    Pages,     \* pages the buddy allocator can give
    Cells,     \* slab->cells
    MaxLive,   \* bound: objects live at a time
    SMP        \* do other CPUs run while this one holds the lock of the cache?

ASSUME SlabAssumption == /\ Pages \in Nat /\ Cells \in Nat \ {0, 1}
                         /\ MaxLive \in Nat /\ SMP \in BOOLEAN

VARIABLES
    lists,     \* next, prev and used of every node, len of every list
    bitmap,    \* the bytes bitmaps_ptr points to, of every page
    owner,     \* who has the page: "buddy" (free), "slab" or "other"
    live,      \* the objects <<page, cell>> that clients hold
    pc,        \* "idle", "clean" (inside lib_slab_free), or how the kernel stopped
    obj,       \* the object that lib_slab_free is freeing
    grown      \* history: has the cache had two pages at a time?

vars == <<lists, bitmap, owner, live, pc, obj, grown>>

Page == 0..(Pages - 1)
Cell == 0..(Cells - 1)
HeadOf(k) == Pages + k
Node == 0..(Pages + Cells - 1)

NULL == -1
Garbage == -2     \* bytes that are not a slab page header
NoObj == <<NULL, NULL>>
Byte == 0..2      \* 0, 1, or any other byte

(***************************************************************************)
(* Lists                                                                   *)
(***************************************************************************)

\* list_add, that is list_insert after the head.  The old first page keeps its prev.
list_add(L, k, p) ==
    [next |-> [L.next EXCEPT ![p] = L.next[HeadOf(k)], ![HeadOf(k)] = p],
     prev |-> [L.prev EXCEPT ![p] = HeadOf(k)],
     used |-> [L.used EXCEPT ![p] = k],
     len |-> [L.len EXCEPT ![k] = @ + 1]]

RemoveAsserts(L, p) == L.prev[p] # NULL /\ L.len[L.used[p]] > 0

\* Mutant: len is also decremented by the caller.
list_remove_len_twice(L, p) ==
    [next |-> [L.next EXCEPT ![L.prev[p]] = L.next[p]],
     prev |-> IF L.next[p] # NULL THEN [L.prev EXCEPT ![L.next[p]] = L.prev[p]] ELSE L.prev,
     used |-> L.used,
     len |-> [L.len EXCEPT ![L.used[p]] = @ - 2]]

\* Mutant: prev->next = next is missing.
list_remove_no_unlink(L, p) ==
    [next |-> L.next,
     prev |-> IF L.next[p] # NULL THEN [L.prev EXCEPT ![L.next[p]] = L.prev[p]] ELSE L.prev,
     used |-> L.used,
     len |-> [L.len EXCEPT ![L.used[p]] = @ - 1]]

list_remove(L, p) ==
    [next |-> [L.next EXCEPT ![L.prev[p]] = L.next[p]],
     prev |-> IF L.next[p] # NULL THEN [L.prev EXCEPT ![L.next[p]] = L.prev[p]] ELSE L.prev,
     used |-> L.used,
     len |-> [L.len EXCEPT ![L.used[p]] = @ - 1]]

\* The header of a page that leaves the cache belongs to its new owner.
ForgetHeader(L, p) ==
    [L EXCEPT !.next[p] = Garbage, !.prev[p] = Garbage, !.used[p] = Garbage]

\* A failed ASSERT; a null pointer, bytes that are no header, or lists[cells] followed.
Panic == pc' = "panic" /\ UNCHANGED <<lists, bitmap, live, obj>>
Wild == pc' = "wild" /\ UNCHANGED <<lists, bitmap, live, obj>>

IsHeader(p) == p # NULL /\ lists.used[p] # Garbage

(***************************************************************************)
(* lib_slab_init and lib_slab_alloc                                        *)
(***************************************************************************)

Init ==
    /\ lists = [next |-> [n \in Node |-> IF n < Pages THEN Garbage ELSE NULL],
                prev |-> [n \in Node |-> IF n < Pages THEN Garbage ELSE NULL],
                used |-> [n \in Node |-> IF n < Pages THEN Garbage ELSE n - Pages],
                len |-> [k \in Cell |-> 0]]
    /\ bitmap = [p \in Page |-> [c \in Cell |-> 2]]
    /\ owner = [p \in Page |-> "buddy"]
    /\ live = {} /\ pc = "idle" /\ obj = NoObj /\ grown = FALSE

\* The while loop of page_alloc_cell stops at cell i, and its ASSERTs hold.
FirstFree(L, bm, p, i) ==
    /\ i <= L.used[p]
    /\ bm[p][i] = 0
    /\ \A j \in 0..(i - 1) : bm[p][j] = 1

\* page_alloc_cell, from the lists L and the bitmaps bm.
page_alloc_cell(L, bm, p) ==
    IF L.used[p] = Cells - 1 THEN Wild
    ELSE IF RemoveAsserts(L, p) /\ \E i \in Cell : FirstFree(L, bm, p, i)
    THEN \E i \in Cell :
            /\ FirstFree(L, bm, p, i)
            /\ bitmap' = [bm EXCEPT ![p][i] = 1]
            /\ lists' = list_add(list_remove(L, p), L.used[p] + 1, p)
            /\ live' = live \cup {<<p, i>>}
            /\ UNCHANGED <<pc, obj>>
    ELSE Panic

\* lib_slab_alloc scans the lists from cells - 2 down for one with len > 0.
Fullest(k) == /\ k \in 0..(Cells - 2) /\ lists.len[k] > 0
              /\ \A j \in (k + 1)..(Cells - 2) : lists.len[j] = 0

SlabAllocListed ==
    /\ pc = "idle" /\ Cardinality(live) < MaxLive
    /\ \E k \in Cell :
        LET p == lists.next[HeadOf(k)] IN
        /\ Fullest(k)
        /\ IF IsHeader(p) THEN page_alloc_cell(lists, bitmap, p) ELSE Wild
    /\ UNCHANGED owner

\* Mutant: new_page does not clear the bitmaps.
SlabAllocNew_dirty ==
    /\ pc = "idle" /\ Cardinality(live) < MaxLive
    /\ \A k \in 0..(Cells - 2) : lists.len[k] = 0
    /\ \E p \in Page :
        /\ owner[p] = "buddy"
        /\ owner' = [owner EXCEPT ![p] = "slab"]
        /\ page_alloc_cell(list_add(lists, 0, p), bitmap, p)

\* No list has a page with room: new_page.
SlabAllocNew ==
    /\ pc = "idle" /\ Cardinality(live) < MaxLive
    /\ \A k \in 0..(Cells - 2) : lists.len[k] = 0
    /\ \E p \in Page :
        /\ owner[p] = "buddy"
        /\ owner' = [owner EXCEPT ![p] = "slab"]
        /\ page_alloc_cell(list_add(lists, 0, p),
                           [bitmap EXCEPT ![p] = [c \in Cell |-> 0]], p)

\* buddy_alloc(1) returns 0 and ASSERT(page != 0) fails.
SlabAllocOom ==
    /\ pc = "idle" /\ Cardinality(live) < MaxLive
    /\ \A k \in 0..(Cells - 2) : lists.len[k] = 0
    /\ \A p \in Page : owner[p] # "buddy"
    /\ pc' = "oom"
    /\ UNCHANGED <<lists, bitmap, owner, live, obj>>

(***************************************************************************)
(* lib_slab_free                                                           *)
(***************************************************************************)

\* Mutant: an empty page goes to lists[0] and not to the buddy allocator.
SlabFree_keeps_page(o) ==
    LET p == o[1] IN
    /\ pc = "idle" /\ o \in live /\ RemoveAsserts(lists, p)
    /\ lists' = list_add(list_remove(lists, p), lists.used[p] - 1, p)
    /\ live' = live \ {o} /\ obj' = o /\ pc' = "clean"
    /\ UNCHANGED <<bitmap, owner>>

\* Up to and including buddy_free or list_add.
SlabFree(o) ==
    LET p == o[1]
        L == list_remove(lists, p)
    IN
    /\ pc = "idle" /\ o \in live
    /\ IF ~ IsHeader(p) \/ lists.used[p] = 0 THEN Wild /\ UNCHANGED owner
       ELSE IF ~ RemoveAsserts(lists, p) THEN Panic /\ UNCHANGED owner
       ELSE /\ IF lists.used[p] = 1
               THEN /\ owner' = [owner EXCEPT ![p] = "buddy"]
                    /\ lists' = ForgetHeader(L, p)
               ELSE /\ lists' = list_add(L, lists.used[p] - 1, p)
                    /\ UNCHANGED owner
            /\ live' = live \ {o} /\ obj' = o /\ pc' = "clean"
            /\ UNCHANGED bitmap

\* Mutant: the cell stays marked.
SlabFreeClean_no_clear ==
    /\ pc = "clean"
    /\ pc' = "idle" /\ obj' = NoObj
    /\ UNCHANGED <<lists, bitmap, owner, live>>

\* page_clean_cell, on the page that may be back in the buddy allocator.
SlabFreeClean ==
    /\ pc = "clean"
    /\ IF bitmap[obj[1]][obj[2]] = 1
       THEN /\ bitmap' = [bitmap EXCEPT ![obj[1]][obj[2]] = 0]
            /\ pc' = "idle" /\ obj' = NoObj
            /\ UNCHANGED <<lists, live>>
       ELSE Panic
    /\ UNCHANGED owner

(***************************************************************************)
(* The rest of the kernel                                                  *)
(***************************************************************************)

\* Mutant: kslab_free does not take the lock.
OthersRun_unlocked == pc \in {"idle", "clean"}

\* The lock of the cache keeps interrupts off, so with one CPU nobody else runs
\* inside lib_slab_free.
OthersRun == pc = "idle" \/ (SMP /\ pc = "clean")

\* kalloc; the new owner fills the page (uvmcreate, uvmalloc and others memset it).
OtherAlloc ==
    /\ OthersRun
    /\ \E p \in Page, b \in Byte :
        /\ owner[p] = "buddy"
        /\ owner' = [owner EXCEPT ![p] = "other"]
        /\ bitmap' = [bitmap EXCEPT ![p] = [c \in Cell |-> b]]
        /\ lists' = ForgetHeader(lists, p)
    /\ UNCHANGED <<live, pc, obj>>

\* kfree.
OtherFree ==
    /\ OthersRun
    /\ \E p \in Page : owner[p] = "other" /\ owner' = [owner EXCEPT ![p] = "buddy"]
    /\ UNCHANGED <<lists, bitmap, live, pc, obj>>

Stopped == pc \in {"panic", "oom", "wild"} /\ UNCHANGED <<lists, bitmap, owner, live, pc, obj>>

Next ==
    /\ \/ SlabAllocListed \/ SlabAllocNew \/ SlabAllocOom
       \/ \E o \in live : SlabFree(o)
       \/ SlabFreeClean
       \/ OtherAlloc \/ OtherFree
       \/ Stopped
    /\ grown' = (grown \/ Cardinality({p \in Page : owner'[p] = "slab"}) > 1)

Spec == Init /\ [][Next]_vars

(***************************************************************************)
(* Properties                                                              *)
(***************************************************************************)

TypeOK ==
    /\ lists.next \in [Node -> Page \cup {NULL, Garbage}]
    /\ lists.prev \in [Node -> Node \cup {NULL, Garbage}]
    /\ lists.used \in [Node -> Cell \cup {Garbage}]
    /\ lists.len \in [Cell -> Nat]
    /\ bitmap \in [Page -> [Cell -> Byte]]
    /\ owner \in [Page -> {"buddy", "slab", "other"}]
    /\ live \in SUBSET (Page \X Cell)
    /\ pc \in {"idle", "clean", "panic", "oom", "wild"}
    /\ obj \in (Page \X Cell) \cup {NoObj} /\ grown \in BOOLEAN

\* The cells marked in the bitmap of a page of the cache are exactly the objects
\* clients hold there, and they hold none on other pages: page_alloc_cell never
\* gives out a cell that is in use, and lib_slab_free frees the right one.
BitmapExact ==
    pc = "idle" => live = {o \in Page \X Cell : /\ owner[o[1]] = "slab"
                                                /\ bitmap[o[1]][o[2]] = 1}

\* The pages that a walk along next from the head of list k meets.
Chain(k) ==
    LET w[i \in 0..Pages] == IF i = 0 THEN lists.next[HeadOf(k)]
                             ELSE IF w[i - 1] \in Page THEN lists.next[w[i - 1]] ELSE NULL
    IN  w
Listed(k) == {Chain(k)[i] : i \in 0..Pages} \cap Page
UsedCells(p) == Cardinality({o \in live : o[1] = p})

\* As long as the cache has had one page at a time, every page of it is on the
\* list of its number of used cells, and len counts them.  With two pages
\* list_insert leaves a wrong prev, and list_remove may then drop a page.
ListsExact ==
    pc = "idle" /\ ~ grown => \A k \in Cell :
        /\ Listed(k) = {p \in Page : owner[p] = "slab" /\ UsedCells(p) = k}
        /\ lists.len[k] = Cardinality(Listed(k))

\* A page none of whose cells is in use has gone back to the buddy allocator.
NoEmptyPages ==
    pc = "idle" => \A p \in Page : owner[p] = "slab" => \E o \in live : o[1] = p

\* The ASSERTs of list_remove, page_alloc_cell and page_clean_cell hold, and the
\* cache follows a null or stale pointer only after it has had two pages.
NoFault == pc # "panic" /\ (pc = "wild" => grown)

\* The ASSERTs of the cache hold, "a macro that checks invariants inside the
\* algorithm" (slab_alloc.c:7).
AssertsHold == pc # "panic"

OthersKept ==
    \A p \in Page :
       /\ owner[p] = "other" /\ owner'[p] = "other" => bitmap'[p] = bitmap[p]
       /\ owner[p] # "slab" /\ owner'[p] = owner[p] =>
            /\ lists'.next[p] = lists.next[p]
            /\ lists'.prev[p] = lists.prev[p]
            /\ lists'.used[p] = lists.used[p]

\* The cache writes no header or byte of a page that another owner keeps, nor the
\* header of a page that stays free: that is a node of the buddy allocator.
OthersUntouched == [][OthersKept]_vars

\* The same as long as the cache has had one page at a time, with the page given
\* back before page_clean_cell writes its bitmap.
OnePageOthersUntouched == [][~ grown => OthersKept]_vars
=============================================================================
