------------------------------ MODULE PageAlloc ------------------------------
(***************************************************************************)
(* What a client of buddy_alloc and buddy_free may rely on: a call gives   *)
(* it an aligned block of pages of which nobody else holds a page, or      *)
(* nothing; a block that is freed may be given out again.  How free memory *)
(* is organised, and when a request fails, is left open.                   *)
(***************************************************************************)
EXTENDS Integers

CONSTANTS Levels, Pages, Shl

VARIABLE held   \* the blocks <<first page, level>> that clients hold

Pg == 0..(Pages - 1)
Lv == 0..(Levels - 1)
Extent(b) == b[1]..(b[1] + Shl[b[2]] - 1)

Fits(b) == b[1] % Shl[b[2]] = 0 /\ b[1] + Shl[b[2]] <= Pages

Init == held = {}

Alloc ==
    \E b \in Pg \X Lv :
        /\ Fits(b)
        /\ \A c \in held : Extent(b) \cap Extent(c) = {}
        /\ held' = held \cup {b}

Free == \E b \in held : held' = held \ {b}

Next == Alloc \/ Free

Spec == Init /\ [][Next]_held
=============================================================================
