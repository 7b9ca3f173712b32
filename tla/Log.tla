--------------------------------- MODULE Log ---------------------------------
(***************************************************************************)
(* The redo log of kernel/log.c over the buffer cache and a disk that      *)
(* keeps its blocks across crashes and writes one block atomically.  A     *)
(* step is one critical section of log.lock, or the bread-modify-log_write *)
(* -brelse of one block under its buffer lock, or one bwrite.  sleep and   *)
(* wakeup are atomic with log.lock (module Sched is about that).           *)
(***************************************************************************)
EXTENDS Integers, Sequences, FiniteSets

CONSTANTS
    Block,         \* data blocks of the file system
    Value,         \* block contents
    Proc,          \* processes that make FS system calls
    MAXOPBLOCKS,   \* blocks one call may write
    NotCached,     \* no buffer holds the block
    LOGSIZE,       \* what begin_op and log_write take for the size of the log
    NLog           \* sb.nlog: blocks of the log on disk, header block included

ASSUME LogAssumption ==
    /\ IsFiniteSet(Proc) /\ Value # {} /\ NotCached \notin Value
    /\ MAXOPBLOCKS \in Nat \ {0} /\ LOGSIZE \in Nat /\ NLog \in Nat \ {0}
    /\ MAXOPBLOCKS <= LOGSIZE

VARIABLES
    \* on disk
    home,          \* home location of every block
    logb,          \* log blocks, log.start + 1 and on
    dhead,         \* header block: block[0..n-1]
    \* the buffer cache
    cache,         \* the cached contents of a block, or NotCached
    pins,          \* bpins of the block that are not undone
    \* struct log
    lh, outstanding, committing,
    \* control
    pc,            \* of a process: out, sleep (in begin_op), ready (woken), in, commit
    wrote,         \* blocks the current call of the process has written
    stage, tail    \* of commit, of recovery, or "panic"

disk == <<home, logb, dhead>>
cached == <<cache, pins>>
log == <<lh, outstanding, committing>>
procs == <<pc, wrote>>
vars == <<home, logb, dhead, cache, pins, lh, outstanding, committing, pc, wrote, stage, tail>>

LogSlot == 1..(NLog - 1)
Blocks(s) == {s[i] : i \in 1..Len(s)}

\* The contents bread returns.
View(b) == IF cache[b] = NotCached THEN home[b] ELSE cache[b]

Init ==
    /\ \E v \in Value : home = [b \in Block |-> v] /\ logb = [i \in LogSlot |-> v]
    /\ dhead = <<>>
    /\ cache = [b \in Block |-> NotCached] /\ pins = [b \in Block |-> 0]
    /\ lh = <<>> /\ outstanding = 0 /\ committing = FALSE
    /\ pc = [p \in Proc |-> "out"] /\ wrote = [p \in Proc |-> {}]
    /\ stage = "read_head" /\ tail = 1

Recovering == stage \in {"read_head", "recover", "clear"}
Running == ~ Recovering /\ stage # "panic"

Panic == stage' = "panic" /\ UNCHANGED <<disk, cached, log, procs, tail>>

(***************************************************************************)
(* The buffer cache: a block is read when it is wanted; bget may recycle   *)
(* any buffer nobody holds or has pinned.                                  *)
(***************************************************************************)

bread(b) ==
    /\ Running /\ cache[b] = NotCached
    /\ cache' = [cache EXCEPT ![b] = home[b]]
    /\ UNCHANGED <<disk, pins, log, procs, stage, tail>>

Recycle(b) ==
    /\ stage # "panic" /\ cache[b] # NotCached /\ pins[b] = 0
    /\ cache' = [cache EXCEPT ![b] = NotCached]
    /\ UNCHANGED <<disk, pins, log, procs, stage, tail>>

(***************************************************************************)
(* begin_op, log_write, end_op                                             *)
(***************************************************************************)

\* wakeup(&log).
Wake(q) == [p \in Proc |-> IF q[p] = "sleep" THEN "ready" ELSE q[p]]

MustWait == committing \/ Len(lh) + (outstanding + 1) * MAXOPBLOCKS > LOGSIZE

begin_op(p) ==
    /\ Running /\ pc[p] \in {"out", "ready"}
    /\ IF MustWait
       THEN pc' = [pc EXCEPT ![p] = "sleep"] /\ UNCHANGED outstanding
       ELSE pc' = [pc EXCEPT ![p] = "in"] /\ outstanding' = outstanding + 1
    /\ wrote' = [wrote EXCEPT ![p] = {}]
    /\ UNCHANGED <<disk, cached, lh, committing, stage, tail>>

\* Mutant: the buffer is not pinned.
log_write_no_pin(p, b, v) ==
    /\ Running /\ pc[p] = "in"
    /\ Cardinality(wrote[p] \cup {b}) <= MAXOPBLOCKS
    /\ IF Len(lh) >= LOGSIZE \/ Len(lh) >= NLog - 1 \/ outstanding < 1 THEN Panic
       ELSE /\ cache' = [cache EXCEPT ![b] = v]
            /\ wrote' = [wrote EXCEPT ![p] = @ \cup {b}]
            /\ lh' = IF b \in Blocks(lh) THEN lh ELSE Append(lh, b)
            /\ UNCHANGED <<disk, pins, outstanding, committing, pc, stage, tail>>

\* Mutant: an absorbed block is pinned again.
log_write_pins_absorbed(p, b, v) ==
    /\ Running /\ pc[p] = "in"
    /\ Cardinality(wrote[p] \cup {b}) <= MAXOPBLOCKS
    /\ IF Len(lh) >= LOGSIZE \/ Len(lh) >= NLog - 1 \/ outstanding < 1 THEN Panic
       ELSE /\ cache' = [cache EXCEPT ![b] = v]
            /\ wrote' = [wrote EXCEPT ![p] = @ \cup {b}]
            /\ lh' = IF b \in Blocks(lh) THEN lh ELSE Append(lh, b)
            /\ pins' = [pins EXCEPT ![b] = @ + 1]
            /\ UNCHANGED <<disk, outstanding, committing, pc, stage, tail>>

\* One block update of a call, which writes at most MAXOPBLOCKS blocks.
log_write(p, b, v) ==
    /\ Running /\ pc[p] = "in"
    /\ Cardinality(wrote[p] \cup {b}) <= MAXOPBLOCKS
    /\ IF Len(lh) >= LOGSIZE \/ Len(lh) >= NLog - 1 \/ outstanding < 1 THEN Panic
       ELSE /\ cache' = [cache EXCEPT ![b] = v]
            /\ wrote' = [wrote EXCEPT ![p] = @ \cup {b}]
            /\ IF b \in Blocks(lh) THEN UNCHANGED <<lh, pins>>
               ELSE lh' = Append(lh, b) /\ pins' = [pins EXCEPT ![b] = @ + 1]
            /\ UNCHANGED <<disk, outstanding, committing, pc, stage, tail>>

end_op(p) ==
    /\ Running /\ pc[p] = "in"
    /\ IF committing THEN Panic
       ELSE /\ outstanding' = outstanding - 1
            /\ IF outstanding = 1
               THEN /\ committing' = TRUE
                    /\ pc' = [pc EXCEPT ![p] = "commit"]
                    /\ stage' = IF Len(lh) > 0 THEN "write_log" ELSE "committed"
                    /\ tail' = 1
               ELSE /\ pc' = Wake([pc EXCEPT ![p] = "out"])
                    /\ UNCHANGED <<committing, stage, tail>>
            /\ UNCHANGED <<disk, cached, lh, wrote>>

(***************************************************************************)
(* commit, by the process whose end_op was the last                        *)
(***************************************************************************)

write_log ==
    /\ stage = "write_log"
    /\ logb' = [logb EXCEPT ![tail] = View(lh[tail])]
    /\ cache' = [cache EXCEPT ![lh[tail]] = View(lh[tail])]
    /\ tail' = tail + 1
    /\ stage' = IF tail = Len(lh) THEN "write_head" ELSE stage
    /\ UNCHANGED <<home, dhead, pins, log, procs>>

\* Mutant: the transaction is erased without being installed.
write_head_no_install ==
    /\ stage = "write_head"
    /\ dhead' = lh
    /\ stage' = "erase" /\ tail' = 1
    /\ UNCHANGED <<home, logb, cached, log, procs>>

\* The commit point.
write_head ==
    /\ stage = "write_head"
    /\ dhead' = lh
    /\ stage' = "install" /\ tail' = 1
    /\ UNCHANGED <<home, logb, cached, log, procs>>

install_trans ==
    /\ stage = "install"
    /\ home' = [home EXCEPT ![lh[tail]] = logb[tail]]
    /\ cache' = [cache EXCEPT ![lh[tail]] = logb[tail]]
    /\ pins' = [pins EXCEPT ![lh[tail]] = @ - 1]
    /\ tail' = tail + 1
    /\ stage' = IF tail = Len(lh) THEN "erase" ELSE stage
    /\ UNCHANGED <<logb, dhead, log, procs>>

\* log.lh.n = 0 and write_head.
erase ==
    /\ stage = "erase"
    /\ lh' = <<>> /\ dhead' = <<>>
    /\ stage' = "committed" /\ tail' = 1
    /\ UNCHANGED <<home, logb, cached, outstanding, committing, procs>>

\* Mutant: no wakeup(&log) after the commit.
end_commit_no_wakeup(p) ==
    /\ stage = "committed" /\ pc[p] = "commit"
    /\ committing' = FALSE
    /\ pc' = [pc EXCEPT ![p] = "out"]
    /\ stage' = "run"
    /\ UNCHANGED <<disk, cached, lh, outstanding, wrote, tail>>

\* The rest of end_op after commit().
end_commit(p) ==
    /\ stage = "committed" /\ pc[p] = "commit"
    /\ committing' = FALSE
    /\ pc' = Wake([pc EXCEPT ![p] = "out"])
    /\ stage' = "run"
    /\ UNCHANGED <<disk, cached, lh, outstanding, wrote, tail>>

(***************************************************************************)
(* A crash keeps the disk only; initlog recovers before any call is made.  *)
(***************************************************************************)

Crash ==
    /\ cache' = [b \in Block |-> NotCached] /\ pins' = [b \in Block |-> 0]
    /\ lh' = <<>> /\ outstanding' = 0 /\ committing' = FALSE
    /\ pc' = [p \in Proc |-> "out"] /\ wrote' = [p \in Proc |-> {}]
    /\ stage' = "read_head" /\ tail' = 1
    /\ UNCHANGED disk

read_head ==
    /\ stage = "read_head"
    /\ lh' = dhead
    /\ stage' = IF Len(dhead) > 0 THEN "recover" ELSE "clear"
    /\ UNCHANGED <<disk, cached, outstanding, committing, procs, tail>>

\* Mutant: bunpin also when recovering.
recover_unpins ==
    /\ stage = "recover"
    /\ home' = [home EXCEPT ![lh[tail]] = logb[tail]]
    /\ cache' = [cache EXCEPT ![lh[tail]] = logb[tail]]
    /\ pins' = [pins EXCEPT ![lh[tail]] = @ - 1]
    /\ tail' = tail + 1
    /\ stage' = IF tail = Len(lh) THEN "clear" ELSE stage
    /\ UNCHANGED <<logb, dhead, log, procs>>

\* install_trans(1).
recover ==
    /\ stage = "recover"
    /\ home' = [home EXCEPT ![lh[tail]] = logb[tail]]
    /\ cache' = [cache EXCEPT ![lh[tail]] = logb[tail]]
    /\ tail' = tail + 1
    /\ stage' = IF tail = Len(lh) THEN "clear" ELSE stage
    /\ UNCHANGED <<logb, dhead, pins, log, procs>>

clear ==
    /\ stage = "clear"
    /\ lh' = <<>> /\ dhead' = <<>>
    /\ stage' = "run" /\ tail' = 1
    /\ UNCHANGED <<home, logb, cached, outstanding, committing, procs>>

Recovery == read_head \/ recover \/ clear
CommitStep == write_log \/ write_head \/ install_trans \/ erase

Next ==
    \/ \E b \in Block : bread(b) \/ Recycle(b)
    \/ \E p \in Proc :
        \/ begin_op(p) \/ end_op(p) \/ end_commit(p)
        \/ \E b \in Block, v \in Value : log_write(p, b, v)
    \/ write_log \/ write_head \/ install_trans \/ erase
    \/ Crash
    \/ read_head \/ recover \/ clear

Spec == Init /\ [][Next]_vars

\* FS system calls end, and a scheduled process goes on with its commit or with
\* the recovery.  Crashes and further updates are not promised.
FairSpec ==
    /\ Spec
    /\ WF_vars(Recovery) /\ WF_vars(CommitStep)
    /\ \A p \in Proc : WF_vars(end_op(p)) /\ WF_vars(end_commit(p))

(***************************************************************************)
(* Properties                                                              *)
(***************************************************************************)

TypeOK ==
    /\ home \in [Block -> Value] /\ logb \in [LogSlot -> Value]
    /\ dhead \in Seq(Block) /\ lh \in Seq(Block)
    /\ cache \in [Block -> Value \cup {NotCached}] /\ pins \in [Block -> Nat]
    /\ outstanding \in Nat /\ committing \in BOOLEAN
    /\ pc \in [Proc -> {"out", "sleep", "ready", "in", "commit"}]
    /\ wrote \in [Proc -> SUBSET Block]
    /\ stage \in {"read_head", "recover", "clear", "run", "write_log", "write_head",
                  "install", "erase", "committed", "panic"}
    /\ tail \in Nat \ {0}

\* The file system a restart would recover: the home locations, with the blocks of
\* a committed transaction taken from the log.
Durable ==
    [b \in Block |-> IF b \in Blocks(dhead)
                     THEN logb[CHOOSE i \in 1..Len(dhead) : dhead[i] = b]
                     ELSE home[b]]

Current == IF Recovering THEN Durable ELSE [b \in Block |-> View(b)]
Active == {p \in Proc : pc[p] = "in"}

TD == INSTANCE TransDisk WITH durable <- Durable, current <- Current, active <- Active

\* The log, the cache and the recovery implement TransDisk: whatever the order of
\* calls, disk writes and crashes, also of crashes during recovery, a restart finds
\* all the updates of committed transactions and none of a later one, and calls see
\* each other's updates.
ImplementsTransDisk == TD!Spec

\* When the end_op that commits returns, everything updated so far is durable and
\* in its home location.
EndOpDurable ==
    [][\A p \in Proc : end_commit(p) => Durable = Current /\ Durable = home]_vars

\* A process sleeps in begin_op only while a commit or a call in progress is going
\* to wake it.
SleeperHasWaker ==
    Running /\ (\E p \in Proc : pc[p] = "sleep") => committing \/ outstanding > 0

\* A process that sleeps in begin_op is woken (or the machine stops).
SleepersWake == \A p \in Proc : pc[p] = "sleep" ~> (pc[p] # "sleep" \/ stage = "panic")

Installed(i) == stage = "erase" \/ (stage = "install" /\ i < tail)

\* A logged block has a slot in the log and in its header, and is pinned once from
\* log_write until install_trans has written it home.
LoggedPinned ==
    /\ Len(lh) <= LOGSIZE /\ Len(lh) <= NLog - 1
    /\ Running => \A b \in Block :
        pins[b] = IF \E i \in 1..Len(lh) : lh[i] = b /\ ~ Installed(i) THEN 1 ELSE 0

\* A call that begin_op admitted, and that writes no more blocks than MAXOPBLOCKS,
\* never meets "too big a transaction", and end_op never meets a commit in progress.
NoPanic == stage # "panic"
=============================================================================
