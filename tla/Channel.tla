------------------------------- MODULE Channel -------------------------------
(***************************************************************************)
(* What a pipe promises: a bounded first-in first-out queue of bytes with  *)
(* two ends, that delivers bytes in order, accepts them only while the     *)
(* read end is open and reports end of file only when the write end is     *)
(* closed and nothing is left.                                             *)
(***************************************************************************)
EXTENDS Integers, Sequences

CONSTANTS Byte, Capacity, Eof

VARIABLES
    queue,      \* bytes written and not yet read
    ends,       \* the ends that are open, a subset of {"r", "w"}
    out         \* what the last read delivered

cvars == <<queue, ends, out>>

CInit == queue = <<>> /\ ends = {"r", "w"} /\ out = <<>>

Put(b) ==
    /\ "r" \in ends /\ Len(queue) < Capacity
    /\ queue' = Append(queue, b)
    /\ UNCHANGED <<ends, out>>

\* k bytes leave the queue; if the reader's memory faults the last is lost.
Get(k, lost) ==
    /\ queue' = SubSeq(queue, k + 1, Len(queue))
    /\ out' = SubSeq(queue, 1, k - lost)
    /\ UNCHANGED ends

EndOfFile == queue = <<>> /\ "w" \notin ends /\ out' = Eof /\ UNCHANGED <<queue, ends>>

Close(e) == ends' = ends \ {e} /\ UNCHANGED <<queue, out>>

CNext ==
    \/ \E b \in Byte : Put(b)
    \/ \E k \in 1..Len(queue), lost \in {0, 1} : Get(k, lost)
    \/ EndOfFile
    \/ \E e \in ends : Close(e)

CSpec == CInit /\ [][CNext]_cvars
=============================================================================
