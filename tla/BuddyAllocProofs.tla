-------------------------- MODULE BuddyAllocProofs --------------------------
(***************************************************************************)
(* The buddy allocator as the RISC-V kernel is built (plain char is        *)
(* unsigned), for every number of levels and pages.                        *)
(*                                                                         *)
(* In this build a freed block is never united with its neighbour, so a    *)
(* page carries a list node exactly when it is the first page of a free    *)
(* block, and every list is a stack: blocks enter and leave it at the      *)
(* head.  The inductive invariant IInv says so.                            *)
(***************************************************************************)
EXTENDS BuddyAlloc, TLAPS

\* The first pages of the free blocks.  buddy_devide leaves the node of the
\* block in hand in memory after it took it off its list.
FreeSet == {p \in Page : level[p] # Garbage /\ ~ (pc = "devide" /\ p = pn)}

Apart(p, l, q, m) == p + Shl[l] <= q \/ q + Shl[m] <= p

\* Free blocks and held blocks are blocks, and no two of them share a page.
Parted ==
    /\ \A p \in FreeSet : block_exists(p, level[p])
    /\ \A b \in held : block_exists(b[1], b[2])
    /\ \A p, q \in FreeSet : p # q => Apart(p, level[p], q, level[q])
    /\ \A p \in FreeSet : \A b \in held : Apart(p, level[p], b[1], b[2])
    /\ \A b, c \in held : b # c => Apart(b[1], b[2], c[1], c[2])

\* What the operation in progress knows of the block in hand: in init_lists, the
\* pages from pn on are in no block yet; in the other loops the block in hand is
\* a block, apart from all the others.
InHand ==
    /\ pc \in {"devide", "merge"} =>
          /\ block_exists(pn, lvl)
          /\ \A p \in FreeSet : Apart(p, level[p], pn, lvl)
          /\ \A b \in held : Apart(pn, lvl, b[1], b[2])
    /\ pc = "devide" => want <= lvl
    /\ pc \in {"init_top", "init_low"} =>
          /\ pn >= 0 /\ pn + left = Pages
          /\ lvl \in Level /\ pn % Shl[lvl] = 0
          /\ held = {}
          /\ \A p \in FreeSet : p + Shl[level[p]] <= pn
    /\ pc = "init_low" => left < Shl[lvl]

\* s lists the free blocks of level l from the last to the first.
Stack(l, s) ==
    /\ \A i \in 1..len[l] : /\ s[i] \in FreeSet
                            /\ level[s[i]] = l
                            /\ next[s[i]] = IF i = 1 THEN NULL ELSE s[i - 1]
    /\ \A i, j \in 1..len[l] : s[i] = s[j] => i = j
    /\ \A p \in FreeSet : level[p] = l => \E i \in 1..len[l] : s[i] = p
    /\ next[HeadOf(l)] = IF len[l] = 0 THEN NULL ELSE s[len[l]]

Stacks ==
    /\ \A l \in Level : \E s \in [1..len[l] -> Page] : Stack(l, s)
    /\ \A p \in FreeSet : prev[p] = HeadOf(level[p])

\* The bytes of state_table are those of the held blocks.
Table ==
    /\ \A p \in Page : state_table[p] = 255 \/ state_table[p] \in Level
    /\ StateTableExact

IInv == TypeOK /\ OnlyBadFreePanics /\ Table /\ Parted /\ InHand /\ Stacks

-----------------------------------------------------------------------------
(***************************************************************************)
(* Arithmetic of blocks                                                    *)
(***************************************************************************)

\* A power of two from 1 on, and its double.
LEMMA ShlFacts ==
    /\ \A l \in 0..Levels : Shl[l] \in Nat /\ Shl[l] >= 1
    /\ \A l \in 0..(Levels - 1) : Shl[l + 1] = 2 * Shl[l]
    /\ \A l \in 1..Levels : Shl[l] = 2 * Shl[l - 1]
  <1>1. \A l \in 1..Levels : l - 1 \in 0..(Levels - 1) /\ (l - 1) + 1 = l
    BY LevelsAssumption
  <1> QED BY <1>1, ShlAssumption, LevelsAssumption

\* A multiple of s, written out: a % s = 0 iff a = k * s for some k.
LEMMA MultipleElim ==
    ASSUME NEW a \in Nat, NEW s \in Nat, s > 0, a % s = 0
    PROVE  \E k \in Nat : a = k * s
  OBVIOUS

LEMMA MultipleIntro ==
    ASSUME NEW a \in Nat, NEW s \in Nat, s > 0, NEW k \in Nat, a = k * s
    PROVE  a % s = 0
  OBVIOUS

\* Both halves of an aligned block are aligned.
LEMMA HalvesAligned ==
    ASSUME NEW a \in Nat, NEW s \in Nat, s > 0, a % (2 * s) = 0
    PROVE  a % s = 0 /\ (a + s) % s = 0
  <1>1. PICK k \in Nat : a = k * (2 * s)
    BY MultipleElim
  <1>2. 2 * k \in Nat /\ a = (2 * k) * s
    BY <1>1
  <1>3. 2 * k + 1 \in Nat /\ a + s \in Nat /\ a + s = (2 * k + 1) * s
    BY <1>2
  <1>4. a % s = 0
    BY <1>2, MultipleIntro
  <1>5. (a + s) % s = 0
    BY <1>3, MultipleIntro
  <1> QED BY <1>4, <1>5

LEMMA NextAligned ==
    ASSUME NEW a \in Nat, NEW s \in Nat, s > 0, a % s = 0
    PROVE  (a + s) % s = 0
  <1>1. PICK k \in Nat : a = k * s
    BY MultipleElim
  <1>2. k + 1 \in Nat /\ a + s \in Nat /\ a + s = (k + 1) * s
    BY <1>1
  <1> QED BY <1>2, MultipleIntro

\* Blocks that are apart have no page in common.
LEMMA ApartNoOverlap ==
    ASSUME NEW b, NEW c, b[1] \in Nat, c[1] \in Nat, b[2] \in Level, c[2] \in Level,
           Apart(b[1], b[2], c[1], c[2])
    PROVE  ~ Overlap(b, c)
  <1>1. Shl[b[2]] \in Nat /\ Shl[c[2]] \in Nat
    BY ShlFacts, LevelsAssumption DEF Level
  <1> QED BY <1>1 DEF Apart, Overlap, Span

-----------------------------------------------------------------------------
(***************************************************************************)
(* Lists                                                                   *)
(***************************************************************************)

\* list_add of a page that carried no free block keeps every list a stack.
LEMMA PushStacks ==
    ASSUME TypeOK, Stacks,
           NEW l \in Level, NEW p \in Page, p \notin FreeSet,
           list_add(l, p), FreeSet' = FreeSet \cup {p}
    PROVE  Stacks'
  <1>0. /\ Pages \in Nat /\ Levels \in Nat
        /\ FreeSet \subseteq Page
        /\ \A k \in Level : HeadOf(k) \in Node /\ HeadOf(k) \notin Page
        /\ \A k \in Level : k # l => HeadOf(k) # HeadOf(l)
        /\ \A q \in Page : q \in Node
    BY LevelsAssumption DEF FreeSet, Page, Level, Node, HeadOf
  <1>1. /\ \A q \in Page : q # p => level'[q] = level[q] /\ prev'[q] = prev[q]
                                                       /\ next'[q] = next[q]
        /\ level'[p] = l /\ prev'[p] = HeadOf(l) /\ next'[p] = next[HeadOf(l)]
        /\ next'[HeadOf(l)] = p
        /\ \A k \in Level : k # l => next'[HeadOf(k)] = next[HeadOf(k)] /\ len'[k] = len[k]
        /\ len'[l] = len[l] + 1 /\ \A k \in Level : len[k] \in Nat
    BY <1>0 DEF list_add, TypeOK
  <1>2. ASSUME NEW k \in Level, k # l
        PROVE  \E s \in [1..len'[k] -> Page] : Stack(k, s)'
    <2>1. PICK s \in [1..len[k] -> Page] : Stack(k, s)
      BY DEF Stacks
    <2>2. \A i \in 1..len[k] : s[i] \in Page /\ s[i] # p
      BY <2>1 DEF Stack
    <2>3. Stack(k, s)'
      BY <1>0, <1>1, <1>2, <2>1, <2>2 DEF Stack
    <2> QED BY <1>1, <1>2, <2>3
  <1>3. \E s \in [1..len'[l] -> Page] : Stack(l, s)'
    <2>1. PICK s \in [1..len[l] -> Page] : Stack(l, s)
      BY DEF Stacks
    <2>2. PICK t : t = [i \in 1..(len[l] + 1) |-> IF i = len[l] + 1 THEN p ELSE s[i]]
      OBVIOUS
    <2>3. /\ t \in [1..len'[l] -> Page] /\ t[len[l] + 1] = p
          /\ \A i \in 1..len[l] : t[i] = s[i] /\ t[i] \in Page /\ t[i] # p
      BY <1>1, <2>1, <2>2 DEF Stack
    <2>4. \A i \in 1..(len[l] + 1) : i \in 1..len[l] \/ i = len[l] + 1
      BY <1>1
    <2>5. \A i \in 1..len'[l] : /\ t[i] \in FreeSet' /\ level'[t[i]] = l
                                /\ next'[t[i]] = IF i = 1 THEN NULL ELSE t[i - 1]
      <3> SUFFICES ASSUME NEW i \in 1..len'[l]
                   PROVE  /\ t[i] \in FreeSet' /\ level'[t[i]] = l
                          /\ next'[t[i]] = IF i = 1 THEN NULL ELSE t[i - 1]
        OBVIOUS
      <3>1. CASE i \in 1..len[l]
        <4>1. i # 1 => i - 1 \in 1..len[l]
          BY <1>1, <3>1
        <4> QED BY <1>0, <1>1, <2>1, <2>3, <3>1, <4>1 DEF Stack
      <3>2. CASE i = len[l] + 1
        <4>1. i # 1 => len[l] \in 1..len[l] /\ i - 1 = len[l] /\ len[l] # 0
          BY <1>1, <3>2
        <4>2. i = 1 => len[l] = 0
          BY <1>1, <3>2
        <4> QED BY <1>0, <1>1, <2>1, <2>3, <3>2, <4>1, <4>2 DEF Stack
      <3> QED BY <1>1, <2>4, <3>1, <3>2
    <2>6. \A i, j \in 1..len'[l] : t[i] = t[j] => i = j
      BY <1>1, <2>1, <2>3, <2>4 DEF Stack
    <2>7. \A q \in FreeSet' : level'[q] = l => \E i \in 1..len'[l] : t[i] = q
      <3> SUFFICES ASSUME NEW q \in FreeSet', level'[q] = l
                   PROVE  \E i \in 1..len'[l] : t[i] = q
        OBVIOUS
      <3>1. CASE q = p
        BY <1>1, <2>3, <3>1
      <3>2. CASE q # p
        <4>1. PICK i \in 1..len[l] : s[i] = q
          BY <1>0, <1>1, <2>1, <3>2 DEF Stack
        <4> QED BY <1>1, <2>3, <4>1
      <3> QED BY <3>1, <3>2
    <2>8. next'[HeadOf(l)] = IF len'[l] = 0 THEN NULL ELSE t[len'[l]]
      BY <1>1, <2>3
    <2>9. Stack(l, t)'
      BY <2>5, <2>6, <2>7, <2>8 DEF Stack, HeadOf
    <2> QED BY <2>3, <2>9
  <1>4. \A q \in FreeSet' : prev'[q] = HeadOf(level'[q])
    BY <1>0, <1>1 DEF Stacks
  <1> QED BY <1>2, <1>3, <1>4 DEF Stacks, HeadOf

\* The first block of a list that is not empty is a free block of its level, and
\* remove_block of it keeps every list a stack.
LEMMA TopOfStack ==
    ASSUME TypeOK, Stacks, NEW k \in Level, len[k] > 0
    PROVE  /\ next[HeadOf(k)] \in FreeSet
           /\ level[next[HeadOf(k)]] = k
           /\ prev[next[HeadOf(k)]] = HeadOf(k)
  <1>1. PICK s \in [1..len[k] -> Page] : Stack(k, s)
    BY DEF Stacks
  <1>2. len[k] \in 1..len[k]
    BY DEF TypeOK
  <1> QED BY <1>1, <1>2 DEF Stacks, Stack

LEMMA PopStacks ==
    ASSUME TypeOK, Stacks, NEW k \in Level, len[k] > 0,
           NEW b, b = next[HeadOf(k)], remove_block(b), FreeSet' = FreeSet \ {b}
    PROVE  Stacks'
  <1>0. /\ Pages \in Nat /\ Levels \in Nat
        /\ FreeSet \subseteq Page
        /\ \A j \in Level : HeadOf(j) \in Node /\ HeadOf(j) \notin Page /\ HeadOf(j) # NULL
        /\ \A j \in Level : j # k => HeadOf(j) # HeadOf(k)
        /\ \A q \in Page : q \in Node /\ q # NULL
        /\ \A j \in Level : len[j] \in Nat
    BY LevelsAssumption DEF FreeSet, Page, Level, Node, HeadOf, NULL, TypeOK
  <1>1. b \in FreeSet /\ level[b] = k /\ prev[b] = HeadOf(k)
    BY TopOfStack
  <1>2. PICK s \in [1..len[k] -> Page] : Stack(k, s)
    BY DEF Stacks
  <1>3. b = s[len[k]] /\ len[k] \in 1..len[k] /\ len[k] - 1 \in Nat
    BY <1>0, <1>2 DEF Stack
  <1>4. next[b] = IF len[k] = 1 THEN NULL ELSE s[len[k] - 1]
    BY <1>2, <1>3 DEF Stack
  <1>5. /\ \A q \in Page : next'[q] = next[q] /\ level'[q] = level[q]
        /\ next'[HeadOf(k)] = next[b]
        /\ \A j \in Level : j # k => next'[HeadOf(j)] = next[HeadOf(j)] /\ len'[j] = len[j]
        /\ len'[k] = len[k] - 1
    BY <1>0, <1>1 DEF remove_block, TypeOK
  <1>6. ASSUME NEW q \in FreeSet PROVE prev'[q] = prev[q]
    <2>1. CASE next[b] = NULL
      BY <2>1 DEF remove_block
    <2>2. CASE next[b] # NULL
      <3>1. len[k] # 1 /\ len[k] - 1 \in 1..len[k]
        BY <1>3, <1>4, <2>2
      <3>2. next[b] \in FreeSet /\ level[next[b]] = k
        BY <1>2, <1>4, <3>1 DEF Stack
      <3>3. prev[next[b]] = HeadOf(k)
        BY <3>2 DEF Stacks
      <3> QED BY <1>0, <1>1, <2>2, <3>2, <3>3 DEF remove_block, TypeOK
    <2> QED BY <2>1, <2>2
  <1>7. ASSUME NEW j \in Level, j # k
        PROVE  \E t \in [1..len'[j] -> Page] : Stack(j, t)'
    <2>1. PICK t \in [1..len[j] -> Page] : Stack(j, t)
      BY DEF Stacks
    <2>2. \A i \in 1..len[j] : t[i] # b
      BY <1>1, <1>7, <2>1 DEF Stack
    <2>3. Stack(j, t)'
      BY <1>0, <1>1, <1>5, <1>7, <2>1, <2>2 DEF Stack
    <2> QED BY <1>5, <1>7, <2>3
  <1>8. \E t \in [1..len'[k] -> Page] : Stack(k, t)'
    <2>1. PICK t : t = [i \in 1..(len[k] - 1) |-> s[i]]
      OBVIOUS
    <2>2. \A i \in 1..(len[k] - 1) : i \in 1..len[k] /\ i # len[k]
      BY <1>0
    <2>3. t \in [1..len'[k] -> Page] /\ \A i \in 1..len'[k] : t[i] = s[i]
      BY <1>2, <1>5, <2>1, <2>2
    <2>4. \A i \in 1..len'[k] : /\ t[i] \in FreeSet' /\ level'[t[i]] = k
                                /\ next'[t[i]] = IF i = 1 THEN NULL ELSE t[i - 1]
      <3> SUFFICES ASSUME NEW i \in 1..len'[k]
                   PROVE  /\ t[i] \in FreeSet' /\ level'[t[i]] = k
                          /\ next'[t[i]] = IF i = 1 THEN NULL ELSE t[i - 1]
        OBVIOUS
      <3>1. i \in 1..len[k] /\ i # len[k] /\ (i # 1 => i - 1 \in 1..len'[k])
        BY <1>0, <1>5, <2>2
      <3>2. s[i] # b
        BY <1>2, <1>3, <3>1 DEF Stack
      <3> QED BY <1>0, <1>2, <1>5, <2>3, <3>1, <3>2 DEF Stack
    <2>5. \A i, j \in 1..len'[k] : t[i] = t[j] => i = j
      BY <1>2, <1>5, <2>2, <2>3 DEF Stack
    <2>6. \A q \in FreeSet' : level'[q] = k => \E i \in 1..len'[k] : t[i] = q
      <3> SUFFICES ASSUME NEW q \in FreeSet', level'[q] = k
                   PROVE  \E i \in 1..len'[k] : t[i] = q
        OBVIOUS
      <3>1. PICK i \in 1..len[k] : s[i] = q
        BY <1>0, <1>2, <1>5 DEF Stack
      <3>2. i # len[k]
        BY <1>3, <3>1
      <3>3. i \in 1..len'[k]
        BY <1>0, <1>5, <3>2
      <3> QED BY <2>3, <3>1, <3>3
    <2>7. next'[HeadOf(k)] = IF len'[k] = 0 THEN NULL ELSE t[len'[k]]
      <3>1. len[k] # 1 => len'[k] \in 1..len'[k]
        BY <1>0, <1>5
      <3> QED BY <1>0, <1>4, <1>5, <2>3, <3>1
    <2>8. Stack(k, t)'
      BY <2>4, <2>5, <2>6, <2>7 DEF Stack, HeadOf
    <2> QED BY <2>3, <2>8
  <1>9. \A q \in FreeSet' : prev'[q] = HeadOf(level'[q])
    BY <1>0, <1>5, <1>6 DEF Stacks
  <1> QED BY <1>7, <1>8, <1>9 DEF Stacks, HeadOf

\* A new free block that is apart from all the others keeps them all apart.
LEMMA PushParted ==
    ASSUME TypeOK, Parted,
           NEW l \in Level, NEW p \in Page, p \notin FreeSet,
           list_add(l, p), FreeSet' = FreeSet \cup {p}, held' = held,
           block_exists(p, l),
           \A q \in FreeSet : Apart(q, level[q], p, l),
           \A b \in held : Apart(p, l, b[1], b[2])
    PROVE  Parted'
  <1>1. /\ FreeSet \subseteq Page /\ \A q \in Page : q \in Node
    BY LevelsAssumption DEF FreeSet, Page, Node
  <1>2. level'[p] = l /\ \A q \in FreeSet : level'[q] = level[q]
    BY <1>1 DEF list_add, TypeOK
  <1>3. \A q \in FreeSet : Apart(p, l, q, level[q])
    BY DEF Apart
  <1> QED BY <1>2, <1>3 DEF Parted, Apart, block_exists

\* list_add of a page in the data area preserves the types of the list fields.
LEMMA PushTypes ==
    ASSUME TypeOK, NEW l \in Level, NEW p \in Page, list_add(l, p)
    PROVE  /\ next' \in [Node -> Page \cup {NULL, Garbage}]
           /\ prev' \in [Node -> Node \cup {NULL, Garbage}]
           /\ level' \in [Node -> Level \cup {Garbage}]
           /\ len' \in [Level -> Nat]
  <1>1. p \in Node /\ HeadOf(l) \in Node
    BY LevelsAssumption DEF Page, Level, Node, HeadOf
  <1>2. next[HeadOf(l)] \in Page \cup {NULL, Garbage}
    BY <1>1 DEF TypeOK
  <1> QED BY <1>1, <1>2 DEF list_add, TypeOK

\* lib_buddy_init starts the loops of init_lists in the invariant.
LEMMA InitIInv == Init => IInv
  <1> SUFFICES ASSUME Init PROVE IInv
    OBVIOUS
  <1>0. /\ Levels \in 1..31 /\ Pages \in Nat
        /\ \A p \in Page : p \in Node /\ p < Pages
        /\ \A l \in Level : HeadOf(l) \in Node /\ ~ (HeadOf(l) < Pages)
    BY LevelsAssumption DEF Page, Level, Node, HeadOf
  <1>1. FreeSet = {}
    BY <1>0 DEF Init, FreeSet, Garbage
  <1>2. TypeOK
    <2>1. StoreChar(BUDDY_NOTHING) \in Byte
      BY DEF StoreChar, BUDDY_NOTHING, Byte
    <2>2. \A n \in Node : n < Pages \/ n - Pages \in Level
      BY <1>0 DEF Node, Level
    <2>3. Levels - 1 \in 0..Levels /\ 0 \in Level
      BY <1>0 DEF Level
    <2> QED BY <1>0, <2>1, <2>2, <2>3 DEF Init, TypeOK
  <1>3. OnlyBadFreePanics
    BY DEF Init, OnlyBadFreePanics
  <1>4. Table
    <2>1. StoreChar(BUDDY_NOTHING) = 255
      BY DEF StoreChar, BUDDY_NOTHING
    <2> QED BY <1>0, <2>1 DEF Init, Table, StateTableExact, Level
  <1>5. Parted
    BY <1>1 DEF Init, Parted
  <1>6. InHand
    <2>1. Shl[Levels - 1] \in Nat /\ Shl[Levels - 1] >= 1
      BY <1>0, ShlFacts
    <2>2. 0 % Shl[Levels - 1] = 0
      BY <2>1, MultipleIntro
    <2> QED BY <1>0, <1>1, <2>2 DEF Init, InHand, Level
  <1>7. Stacks
    <2>1. ASSUME NEW l \in Level
          PROVE  \E s \in [1..len[l] -> Page] : Stack(l, s)
      <3>1. PICK s : s = [i \in 1..0 |-> 0]
        OBVIOUS
      <3>2. len[l] = 0 /\ s \in [1..len[l] -> Page]
        BY <3>1 DEF Init
      <3>3. Stack(l, s)
        BY <1>0, <1>1, <3>2 DEF Init, Stack
      <3> QED BY <3>2, <3>3
    <2> QED BY <1>1, <2>1 DEF Stacks
  <1> QED BY <1>2, <1>3, <1>4, <1>5, <1>6, <1>7 DEF IInv

-----------------------------------------------------------------------------
(***************************************************************************)
(* Every step preserves the invariant                                      *)
(***************************************************************************)

\* Facts on constants and ranges that every step needs.
LEMMA Ranges ==
    /\ Levels \in 1..31 /\ Pages \in Nat
    /\ \A p \in Page : p \in Node /\ p \in Nat /\ p < Pages
    /\ \A l \in Level : /\ HeadOf(l) \in Node /\ HeadOf(l) \notin Page
                        /\ l \in 0..Levels /\ l \in Nat /\ l < Levels
                        /\ Shl[l] \in Nat /\ Shl[l] >= 1 /\ Shl[l] > 0
    /\ \A l \in Level : l > 0 => l - 1 \in Level /\ Shl[l] = 2 * Shl[l - 1]
    /\ 0 \in Level /\ 255 \notin Level /\ Levels - 1 \in Level
  BY LevelsAssumption, ShlFacts DEF Page, Level, Node, HeadOf

\* A step that leaves the lists and the free blocks alone keeps the lists stacks.
LEMMA FrameStacks ==
    ASSUME Stacks, UNCHANGED <<next, prev, level, len>>, FreeSet' = FreeSet
    PROVE  Stacks'
  <1>1. ASSUME NEW l \in Level
        PROVE  \E s \in [1..len'[l] -> Page] : Stack(l, s)'
    <2>1. PICK s \in [1..len[l] -> Page] : Stack(l, s)
      BY DEF Stacks
    <2>2. Stack(l, s)'
      BY <2>1 DEF Stack, HeadOf
    <2> QED BY <2>2
  <1> QED BY <1>1 DEF Stacks, HeadOf

\* list_add makes its page the first page of a free block.
LEMMA PushFree ==
    ASSUME TypeOK, NEW l \in Level, NEW p \in Page, list_add(l, p),
           pc # "devide", pc' # "devide"
    PROVE  FreeSet' = FreeSet \cup {p}
  <1>1. level'[p] = l /\ \A q \in Page : q # p => level'[q] = level[q]
    BY Ranges DEF list_add, TypeOK
  <1>2. l # Garbage
    BY Ranges DEF Garbage
  <1> QED BY <1>1, <1>2 DEF FreeSet

LEMMA InitTopStep == ASSUME IInv, InitTop PROVE IInv'
  <1> USE Ranges DEF IInv
  <1>1. /\ pc = "init_top" /\ pc' = pc /\ left >= Shl[lvl]
        /\ lvl \in Level /\ lvl' = lvl
        /\ pn >= 0 /\ pn + left = Pages /\ pn % Shl[lvl] = 0
        /\ held = {} /\ held' = held /\ state_table' = state_table /\ want' = want
        /\ \A p \in FreeSet : p + Shl[level[p]] <= pn
        /\ list_add(lvl, pn)
        /\ pn' = pn + Shl[lvl] /\ left' = left - Shl[lvl]
    BY DEF InitTop, InHand, table
  <1>2. /\ pn \in Nat /\ left \in Nat /\ pn \in Page /\ pn + Shl[lvl] <= Pages
        /\ Shl[lvl] \in Nat /\ Shl[lvl] > 0
    <2>1. pn \in -1..Pages /\ left \in 0..Pages
      BY DEF TypeOK
    <2>2. pn \in Nat /\ left \in Nat /\ Shl[lvl] \in Nat /\ Shl[lvl] > 0
      <3> HIDE DEF IInv
      <3> QED BY <1>1, <2>1
    <2>3. pn + Shl[lvl] <= Pages /\ pn < Pages
      <3> HIDE DEF IInv
      <3> QED BY <1>1, <2>2
    <2> QED
      <3> HIDE DEF IInv
      <3> QED BY <2>2, <2>3 DEF Page
  <1>3. FreeSet \subseteq Page /\ \A p \in FreeSet : level[p] \in Level
    BY DEF FreeSet, TypeOK
  <1>4. pn \notin FreeSet
    BY <1>1, <1>2, <1>3
  <1>5. FreeSet' = FreeSet \cup {pn}
    BY <1>1, <1>2, PushFree
  <1>6. block_exists(pn, lvl) /\ \A p \in FreeSet : Apart(p, level[p], pn, lvl)
    BY <1>1, <1>2, <1>3 DEF block_exists, Apart
  <1>7. TypeOK'
    <2>1. pn' \in -1..Pages /\ left' \in 0..Pages
      BY <1>1, <1>2
    <2> QED BY <1>1, <1>2, <2>1, PushTypes DEF TypeOK
  <1>8. Stacks'
    BY <1>1, <1>2, <1>4, <1>5, PushStacks
  <1>9. Parted'
    BY <1>1, <1>2, <1>4, <1>5, <1>6, PushParted
  <1>10. InHand'
    <2>1. pn' % Shl[lvl] = 0
      BY <1>1, <1>2, NextAligned
    <2>2. \A p \in FreeSet' : p + Shl[level'[p]] <= pn'
      <3>1. level'[pn] = lvl /\ \A p \in FreeSet : level'[p] = level[p]
        BY <1>1, <1>2, <1>3, <1>4 DEF list_add, TypeOK
      <3> QED BY <1>1, <1>2, <1>3, <1>5, <3>1
    <2>3. pn' >= 0 /\ pn' + left' = Pages
      BY <1>1, <1>2
    <2>4. pn' % Shl[lvl'] = 0 /\ lvl' \in Level /\ held' = {} /\ pc' = "init_top"
      BY <1>1, <2>1, Zenon
    <2> QED BY <2>2, <2>3, <2>4, Zenon DEF InHand
  <1>11. OnlyBadFreePanics' /\ Table'
    BY <1>1 DEF OnlyBadFreePanics, Table, StateTableExact
  <1> QED BY <1>7, <1>8, <1>9, <1>10, <1>11

LEMMA InitTopDoneStep == ASSUME IInv, InitTopDone PROVE IInv'
  <1> USE DEF IInv
  <1>1. /\ pc = "init_top" /\ pc' = "init_low" /\ left < Shl[lvl]
        /\ UNCHANGED <<state_table, held, next, prev, level, len, pn, lvl, want, left>>
    BY DEF InitTopDone, table, lists
  <1>2. FreeSet' = FreeSet
    BY <1>1 DEF FreeSet
  <1>3. TypeOK' /\ OnlyBadFreePanics' /\ Table'
    BY <1>1 DEF TypeOK, OnlyBadFreePanics, Table, StateTableExact
  <1>4. Parted' /\ InHand'
    BY <1>1, <1>2 DEF Parted, InHand, Apart, block_exists
  <1>5. Stacks'
    BY <1>1, <1>2, FrameStacks
  <1> QED BY <1>3, <1>4, <1>5

LEMMA InitLowStep == ASSUME IInv, InitLow PROVE IInv'
  <1> USE Ranges DEF IInv
  <1> DEFINE m == lvl - 1
  <1>1. /\ pc = "init_low" /\ lvl > 0 /\ lvl' = m /\ m \in Level
        /\ lvl \in Level /\ pn >= 0 /\ pn + left = Pages /\ pn % Shl[lvl] = 0
        /\ left < Shl[lvl] /\ Shl[lvl] = 2 * Shl[m]
        /\ held = {} /\ held' = held /\ state_table' = state_table /\ want' = want
        /\ \A p \in FreeSet : p + Shl[level[p]] <= pn
    BY DEF InitLow, InHand, table
  <1>2. /\ pn \in Nat /\ left \in Nat /\ left <= Pages
        /\ Shl[m] \in Nat /\ Shl[m] >= 1
    BY <1>1 DEF TypeOK
  <1>3. pn % Shl[m] = 0 /\ (pn + Shl[m]) % Shl[m] = 0
    BY <1>1, <1>2, HalvesAligned
  <1>4. FreeSet \subseteq Page /\ \A p \in FreeSet : level[p] \in Level
    BY DEF FreeSet, TypeOK
  <1>5. CASE left >= Shl[m]
    <2>1. /\ list_add(m, pn)
          /\ pn' = pn + Shl[m] /\ left' = left - Shl[m]
          /\ left' < Shl[m] /\ pc' = "init_low"
      BY <1>1, <1>2, <1>5 DEF InitLow
    <2>2. pn \in Page /\ pn + Shl[m] <= Pages
      BY <1>1, <1>2, <1>5 DEF Page
    <2>3. pn \notin FreeSet
      BY <1>1, <1>2, <1>4
    <2>4. FreeSet' = FreeSet \cup {pn}
      BY <1>1, <2>1, <2>2, PushFree
    <2>5. block_exists(pn, m) /\ \A p \in FreeSet : Apart(p, level[p], pn, m)
      BY <1>1, <1>2, <1>3, <1>4, <2>2 DEF block_exists, Apart
    <2>6. TypeOK'
      <3>1. pn' \in -1..Pages /\ left' \in 0..Pages /\ m \in 0..Levels
        BY <1>1, <1>2, <2>1, <2>2
      <3> QED BY <1>1, <2>1, <2>2, <3>1, PushTypes DEF TypeOK
    <2>7. Stacks'
      BY <1>1, <2>1, <2>2, <2>3, <2>4, PushStacks
    <2>8. Parted'
      BY <1>1, <2>1, <2>2, <2>3, <2>4, <2>5, PushParted
    <2>9. InHand'
      <3>1. \A p \in FreeSet' : p + Shl[level'[p]] <= pn'
        <4>1. level'[pn] = m /\ \A p \in FreeSet : level'[p] = level[p]
          BY <1>4, <2>1, <2>2, <2>3 DEF list_add, TypeOK
        <4> QED BY <1>1, <1>2, <1>4, <2>1, <2>4, <4>1
      <3>2. pn' >= 0 /\ pn' + left' = Pages /\ left' < Shl[lvl']
        BY <1>1, <1>2, <2>1
      <3>3. pn' % Shl[lvl'] = 0 /\ lvl' \in Level /\ held' = {} /\ pc' = "init_low"
        BY <1>1, <1>3, <2>1, Zenon
      <3> QED BY <3>1, <3>2, <3>3, Zenon DEF InHand
    <2>10. OnlyBadFreePanics' /\ Table'
      BY <1>1, <2>1 DEF OnlyBadFreePanics, Table, StateTableExact
    <2> QED BY <2>6, <2>7, <2>8, <2>9, <2>10
  <1>6. CASE left < Shl[m]
    <2>1. /\ UNCHANGED <<next, prev, level, len, pn, left>>
          /\ pc' = "init_low"
      BY <1>1, <1>2, <1>6 DEF InitLow, lists
    <2>2. FreeSet' = FreeSet
      BY <1>1, <2>1 DEF FreeSet
    <2>3. TypeOK' /\ OnlyBadFreePanics' /\ Table'
      BY <1>1, <2>1 DEF TypeOK, OnlyBadFreePanics, Table, StateTableExact
    <2>4. Parted'
      BY <1>1, <2>1, <2>2 DEF Parted, Apart, block_exists
    <2>5. InHand'
      BY <1>1, <1>2, <1>3, <1>6, <2>1, <2>2 DEF InHand
    <2>6. Stacks'
      BY <2>1, <2>2, FrameStacks
    <2> QED BY <2>3, <2>4, <2>5, <2>6
  <1> QED BY <1>2, <1>5, <1>6

LEMMA InitDoneStep == ASSUME IInv, InitDone PROVE IInv'
  <1> USE Ranges DEF IInv
  <1>1. /\ pc = "init_low" /\ pc' = "idle" /\ pn' = 0 /\ lvl' = 0 /\ want' = 0
        /\ UNCHANGED <<state_table, held, next, prev, level, len, left>>
    BY DEF InitDone, Return, table, lists
  <1>2. FreeSet' = FreeSet
    BY <1>1 DEF FreeSet
  <1>3. TypeOK' /\ OnlyBadFreePanics' /\ Table'
    BY <1>1 DEF TypeOK, OnlyBadFreePanics, Table, StateTableExact
  <1>4. Parted' /\ InHand'
    BY SMTT(10), ZenonT(60), <1>1, <1>2 DEF Parted, InHand, Apart, block_exists
  <1>5. Stacks'
    BY <1>1, <1>2, FrameStacks
  <1> QED BY <1>3, <1>4, <1>5

LEMMA AllocBeginStep == ASSUME IInv, NEW n \in Request, AllocBegin(n) PROVE IInv'
  <1> USE Ranges DEF IInv
  <1> DEFINE l == buddy_log2(n)
  <1>1. PICK k \in Level :
          LET b == next[HeadOf(k)] IN
          /\ IsFirstNonEmpty(l, k) /\ b # NULL
          /\ Deref(b, Assert(level[b] >= l /\ RemoveAsserts(b),
                /\ remove_block(b)
                /\ pc' = "devide" /\ pn' = b /\ lvl' = level[b] /\ want' = l
                /\ UNCHANGED <<table, left>>))
    BY DEF AllocBegin
  <1>2. PICK b : b = next[HeadOf(k)]
    OBVIOUS
  <1>3. pc = "idle" /\ l \in Level /\ len[k] > 0 /\ k >= l
    BY <1>1 DEF AllocBegin, IsFirstNonEmpty
  <1>4. /\ b \in FreeSet /\ b \in Page /\ level[b] = k /\ prev[b] = HeadOf(k)
        /\ level[b] # Garbage /\ prev[b] # NULL
    <2>1. b \in FreeSet /\ level[b] = k /\ prev[b] = HeadOf(k)
      BY <1>2, <1>3, TopOfStack
    <2>2. k # Garbage /\ HeadOf(k) # NULL
      BY DEF Garbage, NULL, HeadOf
    <2> QED BY <2>1, <2>2 DEF FreeSet
  <1>5. /\ remove_block(b)
        /\ pc' = "devide" /\ pn' = b /\ lvl' = k /\ want' = l
        /\ UNCHANGED <<state_table, held, left>>
    BY <1>1, <1>2, <1>3, <1>4 DEF Deref, Assert, RemoveAsserts, table
  <1>6. level' = level
    BY <1>5 DEF remove_block
  <1>7. FreeSet' = FreeSet \ {b}
    BY <1>3, <1>5, <1>6 DEF FreeSet
  <1>8. TypeOK'
    <2>1. next' \in [Node -> Page \cup {NULL, Garbage}]
      BY <1>4, <1>5 DEF remove_block, TypeOK
    <2>2. prev' \in [Node -> Node \cup {NULL, Garbage}]
      BY ZenonT(30), <1>4, <1>5 DEF remove_block, TypeOK
    <2>3. len' \in [Level -> Nat]
      <3>1. len[k] \in Nat /\ len[k] - 1 \in Nat
        BY <1>3 DEF TypeOK
      <3> QED BY <1>4, <1>5, <3>1 DEF remove_block, TypeOK
    <2>4. pn' \in -1..Pages
      BY <1>4, <1>5
    <2> QED BY <1>3, <1>5, <1>6, <2>1, <2>2, <2>3, <2>4 DEF TypeOK
  <1>9. Stacks'
    BY <1>2, <1>3, <1>5, <1>7, PopStacks
  <1>10. Parted'
    BY SMTT(10), ZenonT(60), <1>5, <1>6, <1>7 DEF Parted, Apart, block_exists
  <1>11. InHand'
    <2>1. block_exists(b, k)
      BY <1>4 DEF Parted
    <2>2. \A p \in FreeSet' : Apart(p, level[p], b, k)
      BY <1>4, <1>7 DEF Parted
    <2>3. \A c \in held : Apart(b, k, c[1], c[2])
      BY <1>4 DEF Parted
    <2> QED BY <1>3, <1>5, <1>6, <2>1, <2>2, <2>3 DEF InHand, Apart, block_exists
  <1>12. OnlyBadFreePanics' /\ Table'
    BY SMTT(10), ZenonT(60), <1>5 DEF OnlyBadFreePanics, Table, StateTableExact
  <1> QED BY <1>8, <1>9, <1>10, <1>11, <1>12

LEMMA DevideStep == ASSUME IInv, Devide PROVE IInv'
  <1> USE Ranges DEF IInv
  <1> DEFINE m == lvl - 1
             q == pn + Shl[m]
  <1>1. /\ pc = "devide" /\ pc' = pc /\ lvl > want /\ lvl' = m /\ want' = want
        /\ UNCHANGED <<state_table, held, pn, left>>
        /\ list_add(m, q)
    BY DEF Devide, table
  <1>2. /\ block_exists(pn, lvl) /\ want \in Level
        /\ \A p \in FreeSet : Apart(p, level[p], pn, lvl)
        /\ \A b \in held : Apart(pn, lvl, b[1], b[2])
    BY <1>1 DEF InHand, TypeOK
  <1>3. /\ lvl \in Level /\ m \in Level /\ m >= want /\ Shl[lvl] = 2 * Shl[m]
        /\ pn \in Nat /\ pn + Shl[lvl] <= Pages /\ pn % (2 * Shl[m]) = 0
        /\ Shl[m] \in Nat /\ Shl[m] > 0
    BY <1>1, <1>2 DEF block_exists, TypeOK
  <1>4. q \in Page /\ pn \in Page /\ q # pn /\ q + Shl[m] = pn + Shl[lvl]
    BY <1>3 DEF Page
  <1>5. block_exists(pn, m) /\ block_exists(q, m)
    <2>1. pn % Shl[m] = 0 /\ q % Shl[m] = 0
      BY <1>3, HalvesAligned
    <2>2. 0 <= pn /\ pn + Shl[m] <= Pages /\ 0 <= q /\ q + Shl[m] <= Pages
      BY <1>3, <1>4
    <2> QED BY <1>3, <2>1, <2>2, Zenon DEF block_exists
  <1>6. FreeSet \subseteq Page /\ \A p \in FreeSet : level[p] \in Level
    BY DEF FreeSet, TypeOK
  <1>7. q \notin FreeSet
    BY <1>2, <1>3, <1>4, <1>6 DEF Apart
  <1>8. level'[q] = m /\ \A p \in Page : p # q => level'[p] = level[p]
    BY <1>1, <1>3, <1>4 DEF list_add, TypeOK
  <1>9. FreeSet' = FreeSet \cup {q}
    <2>1. m # Garbage
      BY <1>3 DEF Garbage
    <2> QED BY <1>1, <1>4, <1>8, <2>1 DEF FreeSet
  <1>10. \A p \in FreeSet : Apart(p, level[p], q, m) /\ Apart(p, level[p], pn, m)
    BY <1>2, <1>3, <1>6 DEF Apart
  <1>11. \A b \in held : Apart(q, m, b[1], b[2]) /\ Apart(pn, m, b[1], b[2])
    <2> SUFFICES ASSUME NEW b \in held
                 PROVE  Apart(q, m, b[1], b[2]) /\ Apart(pn, m, b[1], b[2])
      OBVIOUS
    <2>1. b[1] \in Nat /\ Shl[b[2]] \in Nat
      BY DEF TypeOK, Block
    <2> QED BY <1>2, <1>3, <2>1 DEF Apart
  <1>12. TypeOK'
    BY <1>1, <1>3, <1>4, PushTypes DEF TypeOK
  <1>13. Stacks'
    BY <1>1, <1>3, <1>4, <1>7, <1>9, PushStacks
  <1>14. Parted'
    BY <1>1, <1>3, <1>4, <1>5, <1>7, <1>9, <1>10, <1>11, PushParted
  <1>15. InHand'
    <2>1. \A p \in FreeSet' : Apart(p, level'[p], pn, m)
      <3>1. Apart(q, m, pn, m)
        BY <1>3 DEF Apart
      <3> QED BY <1>6, <1>7, <1>8, <1>9, <1>10, <3>1
    <2> QED BY <1>1, <1>3, <1>5, <1>11, <2>1, Zenon DEF InHand, Apart, block_exists
  <1>16. OnlyBadFreePanics' /\ Table'
    BY <1>1 DEF OnlyBadFreePanics, Table, StateTableExact
  <1> QED BY <1>12, <1>13, <1>14, <1>15, <1>16

LEMMA AllocEndStep == ASSUME IInv, AllocEnd PROVE IInv'
  <1> USE Ranges DEF IInv
  <1>1. /\ pc = "devide" /\ pc' = "idle" /\ lvl = want
        /\ pn' = 0 /\ lvl' = 0 /\ want' = 0 /\ left' = left /\ len' = len
        /\ state_table' = [state_table EXCEPT ![pn] = StoreChar(lvl)]
        /\ held' = held \cup {<<pn, lvl>>}
    BY DEF AllocEnd, Return
  <1>2. /\ block_exists(pn, lvl)
        /\ \A p \in FreeSet : Apart(p, level[p], pn, lvl)
        /\ \A b \in held : Apart(pn, lvl, b[1], b[2])
    BY <1>1 DEF InHand
  <1>3. /\ lvl \in Level /\ pn \in Nat /\ pn + Shl[lvl] <= Pages /\ pn \in Page
        /\ Shl[lvl] \in Nat /\ Shl[lvl] > 0
    BY <1>2 DEF block_exists, TypeOK, Page
  <1>4. FreeSet \subseteq Page /\ \A p \in FreeSet : level[p] \in Level
    BY DEF FreeSet, TypeOK
  <1>5. \A p \in FreeSet : p \notin Span(pn, lvl)
    BY <1>2, <1>3, <1>4 DEF Apart, Span
  <1>6. pn \in Span(pn, lvl) /\ \A j \in Level : HeadOf(j) \notin Span(pn, lvl)
    BY <1>3 DEF Span, HeadOf
  <1>7. /\ \A p \in FreeSet : level'[p] = level[p] /\ next'[p] = next[p] /\ prev'[p] = prev[p]
        /\ \A j \in Level : next'[HeadOf(j)] = next[HeadOf(j)]
        /\ \A p \in Page : p \in Span(pn, lvl) => level'[p] = Garbage
        /\ \A p \in Page : p \notin Span(pn, lvl) => level'[p] = level[p]
    BY SMTT(30), ZenonT(30), <1>4, <1>5, <1>6 DEF AllocEnd
  <1>8. FreeSet' = FreeSet
    BY <1>1, <1>5, <1>6, <1>7 DEF FreeSet
  <1>9. StoreChar(lvl) = lvl /\ lvl \in Byte /\ lvl # 255
    BY <1>3 DEF StoreChar, Byte
  <1>10. TypeOK'
    <2>1. /\ next' \in [Node -> Page \cup {NULL, Garbage}]
          /\ prev' \in [Node -> Node \cup {NULL, Garbage}]
          /\ level' \in [Node -> Level \cup {Garbage}]
      BY DEF AllocEnd, TypeOK
    <2>2. state_table' \in [Page -> Byte] /\ held' \in SUBSET Block
      BY <1>1, <1>3, <1>9 DEF TypeOK, Block
    <2> QED BY <1>1, <2>1, <2>2 DEF TypeOK
  <1>11. Stacks'
    <2>1. ASSUME NEW j \in Level
          PROVE  \E s \in [1..len'[j] -> Page] : Stack(j, s)'
      <3>1. PICK s \in [1..len[j] -> Page] : Stack(j, s)
        BY DEF Stacks
      <3>2. Stack(j, s)'
        <4> HIDE DEF IInv
        <4>1. \A i \in 1..len[j] : /\ s[i] \in FreeSet' /\ level'[s[i]] = j
                                    /\ next'[s[i]] = IF i = 1 THEN NULL ELSE s[i - 1]
          BY SMTT(10), ZenonT(60), <1>7, <1>8, <3>1 DEF Stack
        <4>2. \A p \in FreeSet' : level'[p] = j => \E i \in 1..len[j] : s[i] = p
          BY <1>7, <1>8, <3>1 DEF Stack
        <4>3. next'[HeadOf(j)] = IF len[j] = 0 THEN NULL ELSE s[len[j]]
          BY <1>7, <3>1 DEF Stack
        <4> QED BY SMTT(30), ZenonT(30), <1>1, <3>1, <4>1, <4>2, <4>3 DEF Stack, HeadOf
      <3> QED BY <1>1, <3>2
    <2> QED BY <1>7, <1>8, <2>1 DEF Stacks, HeadOf
  <1>12. Parted'
    <2>1. \A b \in held' : b \in held \/ b = <<pn, lvl>>
      BY <1>1
    <2>2. \A b \in held : Apart(b[1], b[2], pn, lvl)
      BY <1>2 DEF Apart
    <2>3. <<pn, lvl>>[1] = pn /\ <<pn, lvl>>[2] = lvl
      OBVIOUS
    <2>4. \A b, c \in held' : b # c => Apart(b[1], b[2], c[1], c[2])
      BY <1>2, <2>1, <2>2, <2>3 DEF Parted
    <2>5. \A p \in FreeSet' : \A b \in held' : Apart(p, level'[p], b[1], b[2])
      BY <1>2, <1>7, <1>8, <2>1, <2>3 DEF Parted
    <2>6. \A b \in held' : block_exists(b[1], b[2])
      BY <1>2, <2>1, <2>3 DEF Parted
    <2>7. /\ \A p \in FreeSet' : block_exists(p, level'[p])
          /\ \A p, q \in FreeSet' : p # q => Apart(p, level'[p], q, level'[q])
      BY <1>7, <1>8 DEF Parted
    <2> QED BY <2>4, <2>5, <2>6, <2>7 DEF Parted, Apart, block_exists
  <1>13. InHand' /\ OnlyBadFreePanics'
    BY <1>1 DEF InHand, OnlyBadFreePanics
  <1>14. Table'
    <2>1. state_table'[pn] = lvl /\ \A p \in Page : p # pn => state_table'[p] = state_table[p]
      BY <1>1, <1>3, <1>9 DEF TypeOK
    <2>2. \A j \in Level : <<pn, j>> \notin held
      <3> SUFFICES ASSUME NEW j \in Level, <<pn, j>> \in held PROVE FALSE
        OBVIOUS
      <3>1. Apart(pn, lvl, pn, j)
        BY <1>2
      <3> QED BY <1>3, <3>1 DEF Apart
    <2>3. \A p \in Page, j \in Level : <<p, j>> \in held' <=> <<p, j>> \in held \/ (p = pn /\ j = lvl)
      BY <1>1
    <2>4. ASSUME NEW p \in Page, NEW j \in Level
          PROVE  state_table'[p] = j <=> <<p, j>> \in held'
      <3>1. CASE p = pn
        BY <2>1, <2>2, <2>3, <3>1
      <3>2. CASE p # pn
        BY <2>1, <2>3, <3>2 DEF Table, StateTableExact
      <3> QED BY <3>1, <3>2
    <2> QED BY <1>3, <2>1, <2>4 DEF Table, StateTableExact
  <1> QED BY <1>10, <1>11, <1>12, <1>13, <1>14

\* Where char is unsigned, reading a byte of state_table gives the byte.
LEMMA ReadUnsigned == ASSUME ~ CharSigned, NEW b PROVE ReadChar(b) = b
  BY DEF ReadChar

LEMMA FreeBeginStep ==
    ASSUME ~ CharSigned, IInv, NEW p \in Page \cup {-1}, FreeBegin(p) PROVE IInv'
  <1> USE Ranges DEF IInv
  <1>0. pc = "idle" /\ pn' = p
    BY DEF FreeBegin
  <1>1. CASE p # -1 /\ state_table[p] >= 0 /\ block_exists(p, state_table[p])
    <2>1. /\ state_table' = [state_table EXCEPT ![p] = StoreChar(BUDDY_NOTHING)]
          /\ held' = {b \in held : b[1] # p}
          /\ lvl' = state_table[p] /\ pc' = "merge"
          /\ UNCHANGED <<next, prev, level, len, want, left>>
      BY <1>1, ReadUnsigned DEF FreeBegin, lists
    <2>2. p \in Page /\ state_table[p] \in Level /\ <<p, state_table[p]>> \in held
      BY <1>1 DEF Table, StateTableExact, block_exists
    <2>3. FreeSet' = FreeSet
      BY <1>0, <2>1 DEF FreeSet
    <2>4. StoreChar(BUDDY_NOTHING) = 255 /\ 255 \in Byte
      BY DEF StoreChar, BUDDY_NOTHING, Byte
    <2>5. TypeOK'
      BY <1>0, <2>1, <2>2, <2>4 DEF TypeOK
    <2>6. Stacks'
      BY <2>1, <2>3, FrameStacks
    <2>7. Parted'
      BY SMTT(10), ZenonT(60), <2>1, <2>3 DEF Parted, Apart, block_exists
    <2>8. InHand'
      <3>1. \A b \in held' : Apart(p, state_table[p], b[1], b[2])
        <4> SUFFICES ASSUME NEW b \in held' PROVE Apart(p, state_table[p], b[1], b[2])
          OBVIOUS
        <4>1. b \in held /\ b # <<p, state_table[p]>>
          BY <2>1
        <4> QED BY <2>2, <4>1 DEF Parted
      <3>2. \A q \in FreeSet : Apart(q, level[q], p, state_table[p])
        BY <2>2 DEF Parted
      <3>3. block_exists(p, state_table[p])
        BY <1>1
      <3> QED BY <1>0, <2>1, <2>3, <3>1, <3>2, <3>3, Zenon DEF InHand, Apart, block_exists
    <2>9. Table'
      <3>1. state_table'[p] = 255 /\ \A q \in Page : q # p => state_table'[q] = state_table[q]
        BY <2>1, <2>2, <2>4 DEF TypeOK
      <3>2. \A q \in Page, j \in Level : <<q, j>> \in held' <=> <<q, j>> \in held /\ q # p
        BY <2>1
      <3> QED BY <3>1, <3>2 DEF Table, StateTableExact
    <2>10. OnlyBadFreePanics'
      BY <2>1 DEF OnlyBadFreePanics
    <2> QED BY <2>5, <2>6, <2>7, <2>8, <2>9, <2>10
  <1>2. CASE ~ (p # -1 /\ state_table[p] >= 0 /\ block_exists(p, state_table[p]))
    <2>1. /\ pc' = "free_panic"
          /\ UNCHANGED <<state_table, held, next, prev, level, len, lvl, want, left>>
      BY <1>2, ReadUnsigned DEF FreeBegin, table, lists
    <2>2. FreeSet' = FreeSet
      BY <1>0, <2>1 DEF FreeSet
    <2>3. ASSUME NEW b \in held PROVE b[1] # p
      <3> SUFFICES ASSUME b[1] = p PROVE FALSE
        OBVIOUS
      <3>1. b[1] \in Page /\ b[2] \in Level /\ b = <<b[1], b[2]>>
        BY DEF TypeOK, Block
      <3>2. state_table[p] = b[2] /\ block_exists(p, b[2])
        BY <3>1 DEF Table, StateTableExact, Parted
      <3> QED BY <1>2, <3>1, <3>2
    <2>4. TypeOK'
      BY <1>0, <2>1 DEF TypeOK
    <2>5. OnlyBadFreePanics'
      BY <1>0, <2>1, <2>3 DEF OnlyBadFreePanics
    <2>6. Stacks'
      BY <2>1, <2>2, FrameStacks
    <2>7. Parted' /\ InHand' /\ Table'
      <3>1. Parted /\ Table
        OBVIOUS
      <3> HIDE Ranges DEF IInv
      <3>2. InHand'
        BY <2>1 DEF InHand
      <3>3. Parted'
        BY <2>1, <2>2, <3>1, Zenon DEF Parted, Apart, block_exists
      <3>4. Table'
        BY <2>1, <3>1, Zenon DEF Table, StateTableExact
      <3> QED BY <3>2, <3>3, <3>4
    <2> QED BY <2>4, <2>5, <2>6, <2>7
  <1> QED BY <1>1, <1>2

\* The bounds of the block in hand, without its alignment.
LEMMA BlockInHand ==
    ASSUME IInv, block_exists(pn, lvl)
    PROVE  lvl \in Level /\ 0 <= pn /\ pn + Shl[lvl] <= Pages /\ pn \in Int
  <1>1. lvl \in Level /\ 0 <= pn /\ pn + Shl[lvl] <= Pages
    BY Zenon DEF block_exists
  <1>2. pn \in -1..Pages
    BY Zenon DEF IInv, TypeOK
  <1>3. pn \in Int
    BY <1>2, LevelsAssumption
  <1> QED BY <1>1, <1>3

\* Where char is unsigned a byte never reads as BUDDY_NOTHING, so add_free_block
\* never merges.
LEMMA NeverGoesOn == ASSUME ~ CharSigned, IInv, block_exists(pn, lvl) PROVE ~ GoesOn(pn, lvl)
  <1> SUFFICES ASSUME GoesOn(pn, lvl) PROVE FALSE
    OBVIOUS
  <1>1. PICK npn : npn = Neighbour(pn, lvl)
    OBVIOUS
  <1>2. block_exists(npn, lvl) /\ state_table[npn] = -1
    BY <1>1, ReadUnsigned DEF GoesOn, BUDDY_NOTHING
  <1>3. npn \in Page
    <2>1. lvl \in Level /\ pn \in Int /\ Shl[lvl] \in Nat /\ Shl[lvl] > 0
      BY BlockInHand, Ranges
    <2>2. npn \in Int
      BY <1>1, <2>1 DEF Neighbour
    <2> QED BY <1>2, <2>1, <2>2, Ranges DEF block_exists, Page
  <1> QED BY SMTT(30), ZenonT(30), <1>2, <1>3 DEF IInv, TypeOK, Byte

LEMMA FreeEndStep == ASSUME IInv, FreeEnd PROVE IInv'
  <1> USE Ranges DEF IInv
  <1>1. /\ pc = "merge" /\ block_exists(pn, lvl)
        /\ \A p \in FreeSet : Apart(p, level[p], pn, lvl)
        /\ \A b \in held : Apart(pn, lvl, b[1], b[2])
    BY DEF InHand, FreeEnd
  <1>2. /\ lvl \in Level /\ pn \in Nat /\ pn + Shl[lvl] <= Pages /\ pn \in Page
        /\ Shl[lvl] \in Nat /\ Shl[lvl] > 0
    <2>1. lvl \in Level /\ 0 <= pn /\ pn + Shl[lvl] <= Pages
      BY <1>1, Zenon DEF block_exists
    <2>2. pn \in Int
      BY <1>1, BlockInHand
    <2>3. Shl[lvl] \in Nat /\ Shl[lvl] > 0 /\ Pages \in Nat
      BY <2>1
    <2> HIDE Ranges DEF IInv
    <2> QED BY <2>1, <2>2, <2>3 DEF Page
  <1>3. /\ list_add(lvl, pn) /\ pc' = "idle" /\ pn' = 0 /\ lvl' = 0 /\ want' = 0
        /\ UNCHANGED <<state_table, held, left>>
    BY <1>1, <1>2 DEF FreeEnd, Assert, Return, table
  <1>4. FreeSet' = FreeSet \cup {pn}
    BY <1>1, <1>2, <1>3, PushFree
  <1>5. pn \notin FreeSet
    <2> SUFFICES ASSUME pn \in FreeSet PROVE FALSE
      OBVIOUS
    <2>1. Apart(pn, level[pn], pn, lvl) /\ level[pn] \in Level
      BY <1>1, <1>2 DEF FreeSet, TypeOK
    <2> QED BY <1>2, <2>1 DEF Apart
  <1>6. TypeOK'
    BY SMTT(60), <1>2, <1>3, PushTypes DEF TypeOK
  <1>7. Stacks'
    BY <1>2, <1>3, <1>4, <1>5, PushStacks
  <1>8. Parted'
    BY <1>1, <1>2, <1>3, <1>4, <1>5, PushParted
  <1>9. InHand' /\ OnlyBadFreePanics' /\ Table'
    <2>1. Table
      OBVIOUS
    <2> HIDE Ranges DEF IInv
    <2>2. InHand'
      BY <1>3 DEF InHand
    <2>3. OnlyBadFreePanics'
      BY <1>3 DEF OnlyBadFreePanics
    <2>4. Table'
      BY <1>3, <2>1, Zenon DEF Table, StateTableExact
    <2> QED BY <2>2, <2>3, <2>4
  <1> QED BY <1>6, <1>7, <1>8, <1>9

LEMMA NextIInv == ASSUME ~ CharSigned, IInv, [Next]_vars PROVE IInv'
  <1>1. CASE UNCHANGED vars
    <2>1. UNCHANGED <<state_table, next, prev, level, len, held, pc, pn, lvl, want, left>>
      BY <1>1 DEF vars
    <2>2. FreeSet' = FreeSet
      BY <2>1 DEF FreeSet
    <2>3. TypeOK' /\ OnlyBadFreePanics' /\ Table'
      BY <2>1 DEF IInv, TypeOK, OnlyBadFreePanics, Table, StateTableExact
    <2>4. Parted' /\ InHand'
      BY <2>1, <2>2 DEF IInv, Parted, InHand, Apart, block_exists
    <2>5. Stacks'
      BY <2>1, <2>2, FrameStacks DEF IInv
    <2> QED BY <2>3, <2>4, <2>5 DEF IInv
  <1>2. CASE InitTop
    BY <1>2, InitTopStep
  <1>3. CASE InitTopDone
    BY <1>3, InitTopDoneStep
  <1>4. CASE InitLow
    BY <1>4, InitLowStep
  <1>5. CASE InitDone
    BY <1>5, InitDoneStep
  <1>6. CASE \E n \in Request : AllocNull(n)
    BY <1>1, <1>6 DEF AllocNull
  <1>7. CASE \E n \in Request : AllocBegin(n)
    BY <1>7, AllocBeginStep
  <1>8. CASE Devide
    BY <1>8, DevideStep
  <1>9. CASE AllocEnd
    BY <1>9, AllocEndStep
  <1>10. CASE \E p \in Page \cup {-1} : FreeBegin(p)
    BY <1>10, FreeBeginStep
  <1>11. CASE Merge
    <2>1. pc = "merge" /\ GoesOn(pn, lvl)
      BY <1>11 DEF Merge
    <2>2. block_exists(pn, lvl)
      BY <2>1 DEF IInv, InHand
    <2> QED BY <2>1, <2>2, NeverGoesOn
  <1>12. CASE FreeEnd
    BY <1>12, FreeEndStep
  <1>13. CASE Stopped
    BY <1>1, <1>13 DEF Stopped
  <1> QED BY <1>1, <1>2, <1>3, <1>4, <1>5, <1>6, <1>7, <1>8, <1>9, <1>10, <1>11,
             <1>12, <1>13 DEF Next

-----------------------------------------------------------------------------
(***************************************************************************)
(* The theorems: the kernel's build, any number of levels and pages        *)
(***************************************************************************)

\* IInv is an invariant of the allocator as the kernel is built.
THEOREM KernelInvariant == ASSUME ~ CharSigned PROVE Spec => []IInv
  <1>1. Init => IInv
    BY InitIInv
  <1>2. IInv /\ [Next]_vars => IInv'
    BY NextIInv
  <1> QED BY <1>1, <1>2, PTL DEF Spec

\* Type correctness of the allocator's state.
THEOREM KernelTypeOK == ASSUME ~ CharSigned PROVE Spec => []TypeOK
  <1>1. IInv => TypeOK
    BY DEF IInv
  <1> QED BY <1>1, KernelInvariant, PTL

\* No page ever belongs to two clients of lib_buddy_alloc.
THEOREM KernelNoOverlap == ASSUME ~ CharSigned PROVE Spec => []NoOverlap
  <1>1. IInv => NoOverlap
    <2> SUFFICES ASSUME IInv PROVE NoOverlap
      OBVIOUS
    <2>1. \A b \in held : b[1] \in Nat /\ b[2] \in Level
      BY Ranges DEF IInv, TypeOK, Block
    <2>2. ASSUME NEW b \in held, NEW c \in held, b # c PROVE ~ Overlap(b, c)
      <3>1. Apart(b[1], b[2], c[1], c[2])
        BY <2>2 DEF IInv, Parted
      <3> QED BY <2>1, <3>1, ApartNoOverlap
    <2>3. ASSUME pc \in {"devide", "merge"}, NEW b \in held
          PROVE  ~ Overlap(b, <<pn, lvl>>)
      <3>1. PICK c : c = <<pn, lvl>>
        OBVIOUS
      <3>2. block_exists(pn, lvl) /\ Apart(pn, lvl, b[1], b[2])
        BY <2>3 DEF IInv, InHand
      <3>3. lvl \in Level /\ 0 <= pn
        BY <3>2, Zenon DEF block_exists
      <3>4. c[1] = pn /\ c[2] = lvl /\ pn \in Nat
        BY <3>1, <3>3 DEF IInv, TypeOK
      <3>5. Apart(b[1], b[2], c[1], c[2])
        BY <3>2, <3>4 DEF Apart
      <3>6. ~ Overlap(b, c)
        BY <2>1, <3>3, <3>4, <3>5, ApartNoOverlap
      <3> QED BY <3>1, <3>6
    <2> QED BY <2>2, <2>3 DEF NoOverlap
  <1> QED BY <1>1, KernelInvariant, PTL

\* No ASSERT of the allocator fails, no pointer leads into a client's bytes, and
\* lib_buddy_free panics only on an address that nobody holds.
THEOREM KernelOnlyBadFreePanics == ASSUME ~ CharSigned PROVE Spec => []OnlyBadFreePanics
  <1>1. IInv => OnlyBadFreePanics
    BY DEF IInv
  <1> QED BY <1>1, KernelInvariant, PTL

\* state_table says exactly which blocks are allocated.
THEOREM KernelStateTableExact == ASSUME ~ CharSigned PROVE Spec => []StateTableExact
  <1>1. IInv => StateTableExact
    BY DEF IInv, Table
  <1> QED BY <1>1, KernelInvariant, PTL

\* list_add writes the new page and the head of a list, nothing else.
LEMMA PushWrites ==
    ASSUME TypeOK, NEW l \in Level, NEW p \in Page, list_add(l, p),
           NEW q \in Page, q # p
    PROVE  next'[q] = next[q] /\ prev'[q] = prev[q] /\ level'[q] = level[q]
  BY Ranges DEF list_add, TypeOK

\* The page that list_add writes, in each of the actions that call it, lies
\* outside every held block.
LEMMA HeldPages ==
    ASSUME IInv, NEW b \in held, NEW q \in Span(b[1], b[2])
    PROVE  /\ q \in Page /\ q \notin FreeSet
           /\ pc \in {"devide", "merge"} => q \notin Span(pn, lvl)
  <1> USE Ranges
  <1>1. b[1] \in Nat /\ b[2] \in Level /\ block_exists(b[1], b[2])
    BY DEF IInv, TypeOK, Block, Parted
  <1>2. b[1] + Shl[b[2]] <= Pages /\ Shl[b[2]] \in Nat
    BY <1>1 DEF block_exists
  <1>3. q \in Page /\ b[1] <= q /\ q < b[1] + Shl[b[2]]
    BY <1>1, <1>2 DEF Span, Page
  <1>4. q \notin FreeSet
    <2> SUFFICES ASSUME q \in FreeSet PROVE FALSE
      OBVIOUS
    <2>1. Apart(q, level[q], b[1], b[2]) /\ level[q] \in Level
      BY <1>3 DEF IInv, Parted, FreeSet, TypeOK
    <2> QED BY <1>1, <1>2, <1>3, <2>1 DEF Apart
  <1>5. ASSUME pc \in {"devide", "merge"} PROVE q \notin Span(pn, lvl)
    <2>1. Apart(pn, lvl, b[1], b[2]) /\ block_exists(pn, lvl)
      BY <1>5 DEF IInv, InHand
    <2>2. lvl \in Level /\ 0 <= pn /\ pn \in Int
      BY <2>1 DEF block_exists, IInv, TypeOK
    <2> QED BY <1>1, <1>2, <1>3, <2>1, <2>2 DEF Apart, Span
  <1> QED BY <1>3, <1>4, <1>5

\* No step of the allocator writes into a page that a client holds.
THEOREM KernelClientMemoryUntouched ==
    ASSUME ~ CharSigned PROVE Spec => ClientMemoryUntouched
  <1>1. ASSUME IInv, [Next]_vars, NEW b \in held \cap held', NEW q \in Span(b[1], b[2])
        PROVE  next'[q] = next[q] /\ prev'[q] = prev[q] /\ level'[q] = level[q]
    <2> USE <1>1, Ranges
    <2>0. /\ q \in Page /\ q \notin FreeSet /\ q \in Node
          /\ pc \in {"devide", "merge"} => q \notin Span(pn, lvl)
      BY HeldPages
    <2>1. CASE UNCHANGED <<next, prev, level>>
      BY <2>1
    <2>2. CASE InitTop \/ InitTopDone \/ InitLow \/ InitDone
      <3>1. held = {} \/ UNCHANGED <<next, prev, level>>
        BY SMTT(30), ZenonT(30), <2>2 DEF InitTop, InitTopDone, InitLow, InitDone, IInv, InHand, lists
      <3> QED BY SMTT(30), ZenonT(30), <2>1, <3>1
    <2>3. CASE \E n \in Request : AllocNull(n) \/ AllocBegin(n)
      <3>1. PICK n \in Request : AllocNull(n) \/ AllocBegin(n)
        BY <2>3
      <3>2. CASE AllocNull(n)
        BY <2>1, <3>2 DEF AllocNull, vars
      <3>3. CASE AllocBegin(n)
        <4>1. PICK k \in Level :
                LET c == next[HeadOf(k)] IN
                /\ len[k] > 0
                /\ remove_block(c) \/ UNCHANGED <<next, prev, level>>
          BY <3>3 DEF AllocBegin, IsFirstNonEmpty, Deref, Assert, Panic, Wild, lists
        <4>2. CASE remove_block(next[HeadOf(k)])
          <5>1. PICK c : c = next[HeadOf(k)]
            OBVIOUS
          <5>2. c \in FreeSet /\ prev[c] = HeadOf(k) /\ level[c] = k
            BY <4>1, <5>1, TopOfStack DEF IInv
          <5>3. next[c] = NULL \/ next[c] \in FreeSet
            <6>1. PICK s \in [1..len[k] -> Page] : Stack(k, s)
              BY DEF IInv, Stacks
            <6>2. len[k] \in Nat /\ len[k] \in 1..len[k] /\ c = s[len[k]]
              BY SMTT(60), <4>1, <5>1, <6>1 DEF Stack, IInv, TypeOK
            <6>3. CASE len[k] = 1
              BY <6>1, <6>2, <6>3 DEF Stack
            <6>4. CASE len[k] # 1
              <7>1. len[k] - 1 \in 1..len[k]
                BY <6>2, <6>4
              <7> QED BY <6>1, <6>2, <6>4, <7>1 DEF Stack
            <6> QED BY <6>3, <6>4
          <5>4. level' = level /\ next' = [next EXCEPT ![HeadOf(k)] = next[c]]
            BY <4>2, <5>1, <5>2 DEF remove_block
          <5>5. next'[q] = next[q]
            BY <2>0, <5>4 DEF IInv, TypeOK
          <5>6. prev'[q] = prev[q]
            BY SMTT(30), ZenonT(30), <2>0, <4>2, <5>1, <5>3 DEF remove_block, IInv, TypeOK
          <5> QED BY <5>4, <5>5, <5>6
        <4> QED BY SMTT(30), ZenonT(30), <2>1, <4>1, <4>2
      <3> QED BY <3>1, <3>2, <3>3
    <2>4. CASE Devide
      <3>1. /\ pc = "devide" /\ block_exists(pn, lvl) /\ lvl > want /\ want \in Level
            /\ list_add(lvl - 1, pn + Shl[lvl - 1])
        BY <2>4 DEF Devide, IInv, InHand, TypeOK
      <3>2. lvl \in Level /\ 0 <= pn /\ pn + Shl[lvl] <= Pages /\ pn \in Int
        BY <3>1, BlockInHand
      <3>3. lvl - 1 \in Level /\ Shl[lvl] = 2 * Shl[lvl - 1]
        BY <3>1, <3>2
      <3>4. pn + Shl[lvl - 1] \in Page /\ pn + Shl[lvl - 1] \in Span(pn, lvl)
        BY <3>2, <3>3 DEF Page, Span
      <3>5. q # pn + Shl[lvl - 1]
        BY SMTT(30), ZenonT(30), <2>0, <3>1, <3>4
      <3> QED BY SMTT(60), <2>0, <3>1, <3>3, <3>4, <3>5, PushWrites DEF IInv
    <2>5. CASE AllocEnd
      BY <2>0, <2>5 DEF AllocEnd
    <2>6. CASE \E p \in Page \cup {-1} : FreeBegin(p)
      BY <2>1, <2>6 DEF FreeBegin, lists
    <2>7. CASE Merge \/ FreeEnd
      <3>1. pc = "merge" /\ block_exists(pn, lvl)
        BY <2>7 DEF Merge, FreeEnd, IInv, InHand
      <3>2. FreeEnd
        BY <2>7, <3>1, NeverGoesOn DEF Merge
      <3>3. lvl \in Level /\ 0 <= pn /\ pn + Shl[lvl] <= Pages /\ pn \in Int
        BY <3>1, BlockInHand
      <3>4. list_add(lvl, pn)
        BY <3>1, <3>2, <3>3 DEF FreeEnd, Assert
      <3>5. pn \in Page /\ pn \in Span(pn, lvl)
        BY <3>3 DEF Page, Span
      <3>6. q # pn
        BY SMTT(30), ZenonT(30), <2>0, <3>1, <3>5
      <3> QED BY <2>0, <3>3, <3>4, <3>5, <3>6, PushWrites DEF IInv
    <2>8. CASE Stopped \/ UNCHANGED vars
      BY <2>1, <2>8 DEF Stopped, vars
    <2> QED BY <2>2, <2>3, <2>4, <2>5, <2>6, <2>7, <2>8 DEF Next
  <1>2. IInv /\ [Next]_vars =>
          [\A b \in held \cap held' : \A q \in Span(b[1], b[2]) :
              next'[q] = next[q] /\ prev'[q] = prev[q] /\ level'[q] = level[q]]_vars
    BY <1>1
  <1> QED BY <1>2, KernelInvariant, PTL DEF Spec, ClientMemoryUntouched

\* The allocator implements PageAlloc, what its clients rely on.
THEOREM KernelImplementsPageAlloc == ASSUME ~ CharSigned PROVE Spec => ImplementsPageAlloc
  <1>1. Init => PA!Init
    BY DEF Init, PA!Init
  <1>2. ASSUME IInv, [Next]_vars PROVE [PA!Next]_held
    <2> USE <1>2, Ranges
    <2>1. CASE held' = held
      BY <2>1
    <2>2. CASE AllocEnd
      <3>1. /\ pc = "devide" /\ block_exists(pn, lvl)
            /\ \A c \in held : Apart(pn, lvl, c[1], c[2])
            /\ held' = held \cup {<<pn, lvl>>}
        BY <2>2 DEF AllocEnd, IInv, InHand
      <3>2. PICK b : b = <<pn, lvl>>
        OBVIOUS
      <3>3. /\ lvl \in Level /\ 0 <= pn /\ pn + Shl[lvl] <= Pages /\ pn \in Nat
            /\ b[1] = pn /\ b[2] = lvl
        BY <3>1, <3>2 DEF block_exists, IInv, TypeOK
      <3>4. b \in PA!Pg \X PA!Lv
        BY <3>2, <3>3 DEF PA!Pg, PA!Lv, Level
      <3>5. PA!Fits(b)
        BY <3>1, <3>3, Zenon DEF PA!Fits, block_exists
      <3>6. ASSUME NEW c \in held PROVE PA!Extent(b) \cap PA!Extent(c) = {}
        <4>1. c[1] \in Nat /\ c[2] \in Level
          BY DEF IInv, TypeOK, Block
        <4>2. Apart(b[1], b[2], c[1], c[2])
          BY <3>1, <3>3
        <4>3. ~ Overlap(b, c)
          BY <3>3, <4>1, <4>2, ApartNoOverlap
        <4> QED BY <4>3 DEF Overlap, Span, PA!Extent
      <3>7. PA!Alloc
        BY <3>1, <3>2, <3>4, <3>5, <3>6 DEF PA!Alloc
      <3> QED BY <3>7 DEF PA!Next
    <2>3. CASE \E p \in Page \cup {-1} : FreeBegin(p)
      <3>1. PICK p \in Page \cup {-1} : FreeBegin(p)
        BY <2>3
      <3>2. CASE ~ (p # -1 /\ state_table[p] >= 0 /\ block_exists(p, state_table[p]))
        BY <3>1, <3>2, ReadUnsigned DEF FreeBegin, table
      <3>3. CASE p # -1 /\ state_table[p] >= 0 /\ block_exists(p, state_table[p])
        <4>1. held' = {b \in held : b[1] # p}
          BY <3>1, <3>3, ReadUnsigned DEF FreeBegin
        <4>2. p \in Page /\ state_table[p] \in Level
          BY <3>3 DEF block_exists
        <4>3. PICK b : b = <<p, state_table[p]>>
          OBVIOUS
        <4>4. b \in held
          BY <4>2, <4>3 DEF IInv, Table, StateTableExact
        <4>5. ASSUME NEW c \in held, c[1] = p PROVE c = b
          <5>1. c[2] \in Level /\ c = <<p, c[2]>>
            BY <4>5 DEF IInv, TypeOK, Block
          <5> QED BY <4>2, <4>3, <5>1 DEF IInv, Table, StateTableExact
        <4>6. held' = held \ {b}
          BY SMTT(30), ZenonT(30), <4>1, <4>3, <4>5
        <4> QED BY <4>4, <4>6 DEF PA!Next, PA!Free
      <3> QED BY <3>2, <3>3
    <2>4. CASE InitTop \/ InitTopDone \/ InitLow \/ InitDone \/ Devide \/ FreeEnd \/ Merge
      BY SMTT(30), ZenonT(30), <2>1, <2>4 DEF InitTop, InitTopDone, InitLow, InitDone, Devide, FreeEnd, Merge,
                        Deref, Assert, Panic, Wild, table
    <2>5. CASE \E n \in Request : AllocNull(n) \/ AllocBegin(n)
      BY <2>1, <2>5 DEF AllocNull, AllocBegin, Deref, Assert, Panic, Wild, table, vars
    <2>6. CASE Stopped \/ UNCHANGED vars
      BY <2>1, <2>6 DEF Stopped, vars
    <2> QED BY <2>2, <2>3, <2>4, <2>5, <2>6 DEF Next
  <1> QED BY <1>1, <1>2, KernelInvariant, PTL DEF Spec, ImplementsPageAlloc, PA!Spec

=============================================================================
