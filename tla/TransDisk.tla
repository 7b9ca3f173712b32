------------------------------ MODULE TransDisk ------------------------------
(***************************************************************************)
(* What the log promises the file system: a disk on which the updates of   *)
(* FS system calls become durable all together, and only when no such call *)
(* is active.  A crash takes the disk back to the last commit.             *)
(***************************************************************************)
CONSTANTS Block, Value, Proc

VARIABLES
    durable,    \* the contents a restart will find
    current,    \* the contents FS system calls see
    active      \* the processes between begin_op and end_op

tvars == <<durable, current, active>>

Init ==
    /\ \E v \in Value : durable = [b \in Block |-> v]
    /\ current = durable
    /\ active = {}

Begin(p) == p \notin active /\ active' = active \cup {p} /\ UNCHANGED <<durable, current>>

Update(p, b, v) ==
    /\ p \in active
    /\ current' = [current EXCEPT ![b] = v]
    /\ UNCHANGED <<durable, active>>

End(p) == p \in active /\ active' = active \ {p} /\ UNCHANGED <<durable, current>>

Commit ==
    /\ active = {}
    /\ durable' = current
    /\ UNCHANGED <<current, active>>

Crash ==
    /\ current' = durable /\ active' = {}
    /\ UNCHANGED durable

Next ==
    \/ \E p \in Proc : Begin(p) \/ End(p) \/ \E b \in Block, v \in Value : Update(p, b, v)
    \/ Commit \/ Crash

Spec == Init /\ [][Next]_tvars
=============================================================================
