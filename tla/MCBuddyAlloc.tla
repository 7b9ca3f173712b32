---------------------------- MODULE MCBuddyAlloc ----------------------------
(* BuddyAlloc for TLC: powers of two written out. *)
EXTENDS BuddyAlloc
MCShl == [l \in 0..Levels |-> 2^l]
=============================================================================
