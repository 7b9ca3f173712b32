-------------------------------- MODULE Pipe ---------------------------------
(***************************************************************************)
(* kernel/pipe.c: a pipe shared by processes that hold its ends, which     *)
(* read, write, close and are killed.  sleep and wakeup are atomic with    *)
(* the pipe's lock (module Sched shows why they may be); kill is not, it   *)
(* takes only the victim's p->lock.                                        *)
(*                                                                         *)
(* nread and nwrite are uints: they wrap at UintMax, which PIPESIZE divides*)
(* as 512 divides 2^32.                                                    *)
(***************************************************************************)
EXTENDS Integers, Sequences, FiniteSets

CONSTANTS
    Proc,
    Byte,
    PIPESIZE,
    UintMax,    \* 2^32
    MaxN,       \* bound on the count of a read or a write
    None, Eof

ASSUME PipeAssumption ==
    /\ PIPESIZE \in Nat \ {0} /\ UintMax \in Nat /\ MaxN \in Nat \ {0}
    /\ UintMax % PIPESIZE = 0 /\ PIPESIZE < UintMax
    /\ None \notin Proc /\ Eof \notin Seq(Byte)

VARIABLES
    data, nread, nwrite,
    ends,       \* readopen and writeopen: a subset of {"r", "w"}
    freed,      \* has slab_free been called?
    lock,       \* the holder of pi->lock
    fds,        \* the ends each process has open
    killed,
    pc, n,      \* where each process is, and the bytes it still has to move
    out         \* what the last piperead delivered

vars == <<data, nread, nwrite, ends, freed, lock, fds, killed, pc, n, out>>

count == (nwrite - nread) % UintMax

At(p, s) == pc' = [pc EXCEPT ![p] = s]

\* wakeup(chan): the processes asleep there must acquire the lock again.
Wakeup(s) == [q \in Proc |-> IF pc[q] = s THEN (IF s = "sleep_r" THEN "read_again" ELSE "write_again")
                             ELSE pc[q]]

\* pipealloc, and fork: the ends are open, and every process has both.  The
\* memory slab_alloc returns holds anything.
Init ==
    /\ data \in [0..(PIPESIZE - 1) -> Byte]
    /\ nread = 0 /\ nwrite = 0
    /\ ends = {"r", "w"} /\ freed = FALSE /\ lock = None
    /\ fds = [p \in Proc |-> {"r", "w"}]
    /\ killed = [p \in Proc |-> FALSE]
    /\ pc = [p \in Proc |-> "user"] /\ n = [p \in Proc |-> 0]
    /\ out = <<>>

(***************************************************************************)
(* System calls and kill                                                   *)
(***************************************************************************)

\* A process whose killed flag is set on entry exits instead of calling.
call(p, e, k) ==
    /\ pc[p] = "user" /\ ~ killed[p] /\ e \in fds[p]
    /\ At(p, IF e = "r" THEN "read" ELSE "write")
    /\ n' = [n EXCEPT ![p] = k]
    /\ UNCHANGED <<data, nread, nwrite, ends, freed, lock, fds, killed, out>>

kill(p) ==
    /\ ~ killed[p]
    /\ killed' = [killed EXCEPT ![p] = TRUE]
    /\ pc' = IF pc[p] = "sleep_r" THEN [pc EXCEPT ![p] = "read_again"]
             ELSE IF pc[p] = "sleep_w" THEN [pc EXCEPT ![p] = "write_again"] ELSE pc
    /\ UNCHANGED <<data, nread, nwrite, ends, freed, lock, fds, n, out>>

acquire(p) ==
    /\ lock = None
    /\ pc[p] \in {"read", "read_again", "write", "write_again"}
    /\ lock' = p
    /\ At(p, IF pc[p] \in {"read", "read_again"} THEN "piperead" ELSE "pipewrite")
    /\ UNCHANGED <<data, nread, nwrite, ends, freed, fds, killed, n, out>>

(***************************************************************************)
(* pipewrite: one turn of its loop                                         *)
(***************************************************************************)

\* release and return to user space, after waking the sleepers at s.
Return(p, s) == lock' = None /\ pc' = [Wakeup(s) EXCEPT ![p] = "user"] /\ n' = [n EXCEPT ![p] = 0]

\* return -1: no wakeup.
pipewrite_fail(p) ==
    /\ pc[p] = "pipewrite" /\ n[p] > 0
    /\ "r" \notin ends \/ killed[p]
    /\ Return(p, "none")
    /\ UNCHANGED <<data, nread, nwrite, ends, freed, fds, killed, out>>

\* The pipe is full; killed was tested before.
pipewrite_full(p) ==
    /\ pc[p] = "pipewrite" /\ n[p] > 0 /\ "r" \in ends /\ ~ killed[p]
    /\ nwrite = (nread + PIPESIZE) % UintMax
    /\ pc' = [Wakeup("sleep_r") EXCEPT ![p] = "write_sleep"]
    /\ UNCHANGED <<data, nread, nwrite, ends, freed, lock, fds, killed, n, out>>

\* sleep(&pi->nwrite, &pi->lock), sleep(&pi->nread, &pi->lock)
sleep(p) ==
    /\ pc[p] \in {"write_sleep", "read_sleep"}
    /\ lock' = None
    /\ At(p, IF pc[p] = "write_sleep" THEN "sleep_w" ELSE "sleep_r")
    /\ UNCHANGED <<data, nread, nwrite, ends, freed, fds, killed, n, out>>

\* Mutant of pipewrite_put: the counter wraps with the buffer.
pipewrite_put_wraps(p, b) ==
    /\ pc[p] = "pipewrite" /\ n[p] > 0 /\ "r" \in ends /\ ~ killed[p]
    /\ nwrite # (nread + PIPESIZE) % UintMax
    /\ data' = [data EXCEPT ![nwrite % PIPESIZE] = b]
    /\ nwrite' = (nwrite + 1) % PIPESIZE
    /\ n' = [n EXCEPT ![p] = @ - 1]
    /\ UNCHANGED <<nread, ends, freed, lock, fds, killed, pc, out>>

\* Mutant of pipewrite_put: nwrite is an int of more bits, it does not wrap.
pipewrite_put_no_wrap(p, b) ==
    /\ pc[p] = "pipewrite" /\ n[p] > 0 /\ "r" \in ends /\ ~ killed[p]
    /\ nwrite # (nread + PIPESIZE) % UintMax
    /\ data' = [data EXCEPT ![nwrite % PIPESIZE] = b]
    /\ nwrite' = nwrite + 1
    /\ n' = [n EXCEPT ![p] = @ - 1]
    /\ UNCHANGED <<nread, ends, freed, lock, fds, killed, pc, out>>

pipewrite_put(p, b) ==
    /\ pc[p] = "pipewrite" /\ n[p] > 0 /\ "r" \in ends /\ ~ killed[p]
    /\ nwrite # (nread + PIPESIZE) % UintMax
    /\ data' = [data EXCEPT ![nwrite % PIPESIZE] = b]
    /\ nwrite' = (nwrite + 1) % UintMax
    /\ n' = [n EXCEPT ![p] = @ - 1]
    /\ UNCHANGED <<nread, ends, freed, lock, fds, killed, pc, out>>

\* Mutant of pipewrite_done: the readers are not woken.
pipewrite_done_no_wakeup(p) ==
    /\ pc[p] = "pipewrite"
    /\ n[p] = 0 \/ ("r" \in ends /\ ~ killed[p] /\ nwrite # (nread + PIPESIZE) % UintMax)
    /\ Return(p, "none")
    /\ UNCHANGED <<data, nread, nwrite, ends, freed, fds, killed, out>>

\* All is written, or copyin failed (which it may do whenever there is room).
pipewrite_done(p) ==
    /\ pc[p] = "pipewrite"
    /\ n[p] = 0 \/ ("r" \in ends /\ ~ killed[p] /\ nwrite # (nread + PIPESIZE) % UintMax)
    /\ Return(p, "sleep_r")
    /\ UNCHANGED <<data, nread, nwrite, ends, freed, fds, killed, out>>

(***************************************************************************)
(* piperead                                                                *)
(***************************************************************************)

\* The pipe is empty: give up if killed, otherwise go to sleep.
piperead_wait(p) ==
    /\ pc[p] = "piperead"
    /\ nread = nwrite /\ "w" \in ends
    /\ IF killed[p]
       THEN Return(p, "none")
       ELSE At(p, "read_sleep") /\ UNCHANGED <<lock, n>>
    /\ UNCHANGED <<data, nread, nwrite, ends, freed, fds, killed, out>>

Queue == [i \in 1..count |-> data[((nread + i - 1) % UintMax) % PIPESIZE]]

\* The copy loop, which ends with the count, with the last byte, or with a
\* copyout that fails after the byte was taken; then wakeup(&pi->nwrite).
piperead_copy(p, fail) ==
    /\ pc[p] = "piperead"
    /\ nread # nwrite \/ "w" \notin ends
    /\ LET most == IF n[p] < count THEN n[p] ELSE count IN
       \E k \in 0..most :
          /\ fail \/ k = most
          /\ fail => k > 0
          /\ nread' = (nread + k) % UintMax
          /\ out' = IF k = 0 THEN Eof ELSE SubSeq(Queue, 1, IF fail THEN k - 1 ELSE k)
    /\ Return(p, "sleep_w")
    /\ UNCHANGED <<data, nwrite, ends, freed, fds, killed>>

(***************************************************************************)
(* close                                                                   *)
(***************************************************************************)

\* Mutant of pipeclose: the sleepers at the other end are not woken.
pipeclose_no_wakeup(p, e) ==
    /\ pc[p] = "user" /\ e \in fds[p]
    /\ fds' = [fds EXCEPT ![p] = @ \ {e}]
    /\ IF \E q \in Proc \ {p} : e \in fds[q]
       THEN UNCHANGED <<ends, pc, freed>>
       ELSE /\ lock = None
            /\ ends' = ends \ {e}
            /\ freed' = (ends' = {})
            /\ UNCHANGED pc
    /\ UNCHANGED <<data, nread, nwrite, lock, killed, n, out>>

\* Mutant of pipeclose: the pipe is freed when its write end is closed.
pipeclose_frees_early(p, e) ==
    /\ pc[p] = "user" /\ e \in fds[p]
    /\ fds' = [fds EXCEPT ![p] = @ \ {e}]
    /\ IF \E q \in Proc \ {p} : e \in fds[q]
       THEN UNCHANGED <<ends, pc, freed>>
       ELSE /\ lock = None
            /\ ends' = ends \ {e}
            /\ freed' = ("w" \notin ends')
            /\ pc' = Wakeup(IF e = "w" THEN "sleep_r" ELSE "sleep_w")
    /\ UNCHANGED <<data, nread, nwrite, lock, killed, n, out>>

\* close(fd) or exit: the last reference to an end calls pipeclose, which
\* frees the pipe when both ends are closed.
pipeclose(p, e) ==
    /\ pc[p] = "user" /\ e \in fds[p]
    /\ fds' = [fds EXCEPT ![p] = @ \ {e}]
    /\ IF \E q \in Proc \ {p} : e \in fds[q]
       THEN UNCHANGED <<ends, pc, freed>>
       ELSE /\ lock = None
            /\ ends' = ends \ {e}
            /\ freed' = (ends' = {})
            /\ pc' = Wakeup(IF e = "w" THEN "sleep_r" ELSE "sleep_w")
    /\ UNCHANGED <<data, nread, nwrite, lock, killed, n, out>>

Next ==
    \E p \in Proc :
       \/ \E e \in {"r", "w"}, k \in 1..MaxN : call(p, e, k)
       \/ kill(p) \/ acquire(p) \/ sleep(p)
       \/ pipewrite_fail(p) \/ pipewrite_full(p) \/ pipewrite_done(p)
       \/ \E b \in Byte : pipewrite_put(p, b)
       \/ piperead_wait(p) \/ \E fail \in BOOLEAN : piperead_copy(p, fail)
       \/ \E e \in {"r", "w"} : pipeclose(p, e)

Spec == Init /\ [][Next]_vars

(***************************************************************************)
(* Properties                                                              *)
(***************************************************************************)

TypeOK ==
    /\ data \in [0..(PIPESIZE - 1) -> Byte]
    /\ nread \in 0..(UintMax - 1) /\ nwrite \in 0..(UintMax - 1)
    /\ ends \subseteq {"r", "w"} /\ freed \in BOOLEAN
    /\ lock \in Proc \cup {None}
    /\ fds \in [Proc -> SUBSET {"r", "w"}] /\ killed \in [Proc -> BOOLEAN]
    /\ pc \in [Proc -> {"user", "read", "read_again", "write", "write_again", "piperead", "pipewrite",
                       "read_sleep", "write_sleep", "sleep_r", "sleep_w"}]
    /\ n \in [Proc -> 0..MaxN]
    /\ out \in Seq(Byte) \cup {Eof}

C == INSTANCE Channel WITH queue <- Queue, Capacity <- PIPESIZE

\* The ring buffer with its free-running counters, the tests for full and empty
\* and the wrap of the counters implement a first-in first-out channel.
ImplementsChannel == C!CSpec

\* A reader sleeps only for an empty pipe that somebody may still write to
\* ("DOC: pipe-empty"): neither bytes nor the close of the write end are missed.
\* The one exception are bytes of a writer that was killed in the middle of its
\* write: pipewrite returns -1 then without a wakeup of the readers.
ReaderAsleepEmpty ==
    lock = None /\ (\E p \in Proc : pc[p] = "sleep_r") =>
        /\ nread = nwrite \/ \E p \in Proc : killed[p]
        /\ "w" \in ends

\* A writer sleeps only for a full pipe that somebody may still read
\* ("DOC: pipewrite-full"): neither room nor the close of the read end is missed.
WriterAsleepFull ==
    lock = None /\ (\E p \in Proc : pc[p] = "sleep_w") => count = PIPESIZE /\ "r" \in ends

\* The pipe is freed exactly when both ends are closed, and nobody holds an end
\* of it or is in a read or a write of it then (pipeclose, fileclose).
FreedUnused ==
    /\ freed <=> ends = {}
    /\ freed => lock = None /\ \A p \in Proc : fds[p] = {} /\ pc[p] = "user"
=============================================================================
