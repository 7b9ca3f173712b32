-------------------------------- MODULE MCLog --------------------------------
(* Log for TLC: its sets are model values, interchangeable but for liveness. *)
EXTENDS Log, TLC

Symmetry == Permutations(Block) \cup Permutations(Value) \cup Permutations(Proc)
=============================================================================
