-------------------------------- MODULE Sched --------------------------------
(***************************************************************************)
(* Spin locks, the scheduler, sleep, wakeup and kill of kernel/proc.c and  *)
(* kernel/spinlock.c, lock operation by lock operation, on several CPUs.   *)
(* Waiters run the loop that all users of sleep share (pipes, sleep locks, *)
(* the log, the disk, the console): with lk held, test a condition, give   *)
(* up if killed, sleep.  Wakers set the condition and call wakeup, or call *)
(* kill.                                                                   *)
(*                                                                         *)
(* A spin lock records the CPU that holds it; noff of a CPU is the number  *)
(* of locks it holds, and interrupts are on when that is 0.  A critical    *)
(* section that makes no call which may block is one step.                 *)
(***************************************************************************)
EXTENDS Integers, FiniteSets

CONSTANTS
    NProc,      \* processes 0..NProc-1
    Waiters,    \* the first Waiters of them wait, the others wake and kill
    Cpu,
    None        \* no process, no CPU

ASSUME SchedAssumption == /\ NProc \in Nat \ {0} /\ Waiters \in 1..NProc
                          /\ IsFiniteSet(Cpu) /\ None \notin Cpu /\ None \notin Int

VARIABLES
    state,      \* RUNNABLE, RUNNING, SLEEPING or ZOMBIE, of every process
    chan,       \* is p->chan the channel?
    killed,
    lock,       \* the CPU that holds a lock: p->lock of every process, and lk
    on,         \* the process whose kernel thread the CPU executes, None: its scheduler
    back,       \* has a process just switched back to the scheduler of the CPU?
    scan,       \* the process the scheduler of the CPU looks at
    pc,         \* of every process
    wk,         \* the loop variable of wakeup, of every process
    cond        \* the condition that lk protects

vars == <<state, chan, killed, lock, on, back, scan, pc, wk, cond>>

Proc == 0..(NProc - 1)
Waiter == 0..(Waiters - 1)
lk == NProc
Lock == 0..NProc

noff(c) == Cardinality({l \in Lock : lock[l] = c})

Init ==
    /\ state = [p \in Proc |-> "RUNNABLE"] /\ chan = [p \in Proc |-> FALSE]
    /\ killed = [p \in Proc |-> FALSE]
    /\ lock = [l \in Lock |-> None]
    /\ on = [c \in Cpu |-> None] /\ back = [c \in Cpu |-> FALSE] /\ scan = [c \in Cpu |-> 0]
    /\ pc = [p \in Proc |-> "forkret"] /\ wk = [p \in Proc |-> 0]
    /\ cond = FALSE

acquire(l, c) == lock[l] = None /\ lock' = [lock EXCEPT ![l] = c]

\* release(l) on CPU c, after which process p is at "then".
release(l, c, p, then) ==
    /\ lock' = IF lock[l] = c THEN [lock EXCEPT ![l] = None] ELSE lock
    /\ pc' = [pc EXCEPT ![p] = IF lock[l] = c THEN then ELSE "panic"]

(***************************************************************************)
(* The scheduler                                                           *)
(***************************************************************************)

\* Mutant of NextScan: the scan does not start again at the first process.
NextScan_past_end(c) == [scan EXCEPT ![c] = @ + 1]

NextScan(c) == [scan EXCEPT ![c] = (@ + 1) % NProc]

\* Mutant of scheduler: p->state is left RUNNABLE.
scheduler_no_running(c) ==
    LET p == scan[c] IN
    /\ on[c] = None /\ ~ back[c] /\ lock[p] = None
    /\ IF state[p] = "RUNNABLE"
       THEN /\ lock' = [lock EXCEPT ![p] = c]
            /\ on' = [on EXCEPT ![c] = p]
            /\ UNCHANGED <<scan, state>>
       ELSE scan' = NextScan(c) /\ UNCHANGED <<lock, state, on>>
    /\ UNCHANGED <<chan, killed, back, pc, wk, cond>>

\* A RUNNABLE process is run with its lock held, which the process releases.
scheduler(c) ==
    LET p == scan[c] IN
    /\ on[c] = None /\ ~ back[c] /\ lock[p] = None
    /\ IF state[p] = "RUNNABLE"
       THEN /\ lock' = [lock EXCEPT ![p] = c]
            /\ state' = [state EXCEPT ![p] = "RUNNING"]
            /\ on' = [on EXCEPT ![c] = p]
            /\ UNCHANGED scan
       ELSE scan' = NextScan(c) /\ UNCHANGED <<lock, state, on>>
    /\ UNCHANGED <<chan, killed, back, pc, wk, cond>>

\* swtch returns: release the lock that the process acquired before it switched.
scheduler_back(c) ==
    /\ on[c] = None /\ back[c]
    /\ release(scan[c], c, scan[c], pc[scan[c]])
    /\ back' = [back EXCEPT ![c] = FALSE]
    /\ scan' = NextScan(c)
    /\ UNCHANGED <<state, chan, killed, on, wk, cond>>

\* sched() of p on CPU c in state s: its panics, then swtch to the scheduler;
\* the process goes on at "then" when it is run again.
sched(p, c, s, then) ==
    IF lock'[p] # c \/ Cardinality({l \in Lock : lock'[l] = c}) # 1
    THEN /\ pc' = [pc EXCEPT ![p] = "panic"] /\ UNCHANGED <<state, on, back>>
    ELSE /\ pc' = [pc EXCEPT ![p] = then]
         /\ state' = [state EXCEPT ![p] = s]
         /\ on' = [on EXCEPT ![c] = None] /\ back' = [back EXCEPT ![c] = TRUE]

\* The timer interrupt of a CPU with interrupts on, in user space ("start")
\* or in the kernel ("reacquire").
yield(p, c) ==
    /\ on[c] = p /\ noff(c) = 0 /\ pc[p] \in {"start", "reacquire"}
    /\ acquire(p, c)
    /\ sched(p, c, "RUNNABLE", IF pc[p] = "start" THEN "yielded" ELSE "yielded_kernel")
    /\ UNCHANGED <<chan, killed, scan, wk, cond>>

\* Run again: yield and forkret release p->lock, sleep also clears chan.
resume(p, c) ==
    /\ on[c] = p /\ pc[p] \in {"forkret", "yielded", "yielded_kernel", "slept"}
    /\ chan' = IF pc[p] = "slept" THEN [chan EXCEPT ![p] = FALSE] ELSE chan
    /\ release(p, c, p, IF pc[p] \in {"forkret", "yielded"} THEN "start" ELSE "reacquire")
    /\ UNCHANGED <<state, killed, on, back, scan, wk, cond>>

\* Mutant of exit: killed is not tested on the way to user space.
exit_only_from_wait(p, c) ==
    /\ on[c] = p /\ noff(c) = 0
    /\ pc[p] = "exit"
    /\ acquire(p, c)
    /\ sched(p, c, "ZOMBIE", "exit")
    /\ UNCHANGED <<chan, killed, scan, wk, cond>>

\* A killed process exits when it gives up its wait or returns to user space.
exit(p, c) ==
    /\ on[c] = p /\ noff(c) = 0
    /\ pc[p] = "exit" \/ (pc[p] = "start" /\ killed[p])
    /\ acquire(p, c)
    /\ sched(p, c, "ZOMBIE", "exit")
    /\ UNCHANGED <<chan, killed, scan, wk, cond>>

\* acquire(lk) turns interrupts off before it spins: no yield until lk is held.
push_off(p, c) ==
    /\ on[c] = p /\ pc[p] \in {"start", "reacquire"}
    /\ pc' = [pc EXCEPT ![p] = "spin"]
    /\ UNCHANGED <<state, chan, killed, lock, on, back, scan, wk, cond>>

(***************************************************************************)
(* Waiters                                                                 *)
(***************************************************************************)

wait_acquire(p, c) ==
    /\ on[c] = p /\ p \in Waiter /\ pc[p] = "spin"
    /\ acquire(lk, c)
    /\ pc' = [pc EXCEPT ![p] = "test"]
    /\ UNCHANGED <<state, chan, killed, on, back, scan, wk, cond>>

\* The condition holds: take it, release lk.  Otherwise killed(p) is next.
wait_test(p, c) ==
    /\ on[c] = p /\ pc[p] = "test"
    /\ IF cond
       THEN cond' = FALSE /\ release(lk, c, p, "start")
       ELSE /\ pc' = [pc EXCEPT ![p] = "killed"]
            /\ UNCHANGED <<cond, lock>>
    /\ UNCHANGED <<state, chan, killed, on, back, scan, wk>>

\* killed(p): a critical section of p->lock.
wait_killed(p, c) ==
    /\ on[c] = p /\ pc[p] = "killed" /\ lock[p] = None
    /\ IF killed[p]
       THEN release(lk, c, p, "exit")
       ELSE /\ pc' = [pc EXCEPT ![p] = "sleep"]
            /\ UNCHANGED lock
    /\ UNCHANGED <<state, chan, killed, on, back, scan, wk, cond>>

\* Mutant of sleep: lk is released before p->lock is acquired.
sleep_release_first(p, c) ==
    /\ on[c] = p
    /\ \/ /\ pc[p] = "sleep" /\ lock[lk] = c
          /\ lock' = [lock EXCEPT ![lk] = None]
          /\ UNCHANGED <<state, chan, on, back, pc>>
       \/ /\ pc[p] = "sleep" /\ lock[lk] # c
          /\ acquire(p, c)
          /\ chan' = [chan EXCEPT ![p] = TRUE]
          /\ sched(p, c, "SLEEPING", "slept")
    /\ UNCHANGED <<killed, scan, wk, cond>>

\* sleep: acquire(&p->lock).
sleep(p, c) ==
    /\ on[c] = p /\ pc[p] = "sleep"
    /\ acquire(p, c)
    /\ pc' = [pc EXCEPT ![p] = "sleep_release"]
    /\ UNCHANGED <<state, chan, killed, on, back, scan, wk, cond>>

\* Mutant of sleep_sched: lk is not released.
sleep_sched_holding_lk(p, c) ==
    /\ on[c] = p /\ pc[p] = "sleep_release"
    /\ UNCHANGED lock
    /\ chan' = [chan EXCEPT ![p] = TRUE]
    /\ sched(p, c, "SLEEPING", "slept")
    /\ UNCHANGED <<killed, scan, wk, cond>>

\* sleep: release(lk), set chan and state, sched().
sleep_sched(p, c) ==
    /\ on[c] = p /\ pc[p] = "sleep_release"
    /\ lock' = [lock EXCEPT ![lk] = None]
    /\ chan' = [chan EXCEPT ![p] = TRUE]
    /\ sched(p, c, "SLEEPING", "slept")
    /\ UNCHANGED <<killed, scan, wk, cond>>

(***************************************************************************)
(* Wakers                                                                  *)
(***************************************************************************)

wake_acquire(p, c) ==
    /\ on[c] = p /\ p \notin Waiter /\ pc[p] = "spin"
    /\ acquire(lk, c)
    /\ cond' = TRUE
    /\ wk' = [wk EXCEPT ![p] = 0]
    /\ pc' = [pc EXCEPT ![p] = "wakeup"]
    /\ UNCHANGED <<state, chan, killed, on, back, scan>>

\* Mutant of Awake: the test of p->chan is inverted.
Awake_other_chan(q) == [state EXCEPT ![q] = IF @ = "SLEEPING" /\ ~ chan[q] THEN "RUNNABLE" ELSE @]

Awake(q) == [state EXCEPT ![q] = IF @ = "SLEEPING" /\ chan[q] THEN "RUNNABLE" ELSE @]

\* One turn of the loop of wakeup, a critical section of the lock of process wk.
wakeup(p, c) ==
    /\ on[c] = p /\ pc[p] = "wakeup" /\ wk[p] < NProc
    /\ wk[p] = p \/ lock[wk[p]] = None
    /\ state' = IF wk[p] = p THEN state ELSE Awake(wk[p])
    /\ wk' = [wk EXCEPT ![p] = @ + 1]
    /\ UNCHANGED <<chan, killed, lock, on, back, scan, pc, cond>>

wake_release(p, c) ==
    /\ on[c] = p /\ pc[p] = "wakeup" /\ wk[p] = NProc
    /\ release(lk, c, p, "start")
    /\ wk' = [wk EXCEPT ![p] = 0]
    /\ UNCHANGED <<state, chan, killed, on, back, scan, cond>>

kill(p, c, q) ==
    /\ on[c] = p /\ p \notin Waiter /\ pc[p] = "start" /\ noff(c) = 0
    /\ lock[q] = None
    /\ killed' = [killed EXCEPT ![q] = TRUE]
    /\ state' = [state EXCEPT ![q] = IF @ = "SLEEPING" THEN "RUNNABLE" ELSE @]
    /\ UNCHANGED <<chan, lock, on, back, scan, pc, wk, cond>>

SchedStep(c) == scheduler(c) \/ scheduler_back(c)

ProcStep(p, c) ==
    \/ resume(p, c) \/ exit(p, c)
    \/ wait_acquire(p, c) \/ wait_test(p, c) \/ wait_killed(p, c)
    \/ sleep(p, c) \/ sleep_sched(p, c)
    \/ wake_acquire(p, c) \/ wakeup(p, c) \/ wake_release(p, c)

Next ==
    \E c \in Cpu : \/ SchedStep(c)
                   \/ \E p \in Proc : \/ ProcStep(p, c) \/ yield(p, c) \/ push_off(p, c)
                                      \/ \E q \in Waiter : kill(p, c, q)

Spec == Init /\ [][Next]_vars

\* A CPU goes on executing, but no process has to set the condition or to kill; a
\* process that spins for a lock gets it when it is free again and again; the timer
\* interrupts a process again and again.
FairSpec ==
    /\ Spec
    /\ \A c \in Cpu : SF_vars(SchedStep(c))
    /\ \A p \in Proc : /\ SF_vars(\E c \in Cpu : ProcStep(p, c))
                       /\ SF_vars(\E c \in Cpu : exit(p, c))
                       /\ SF_vars(\E c \in Cpu : yield(p, c))
    /\ \A p \in Waiter : SF_vars(\E c \in Cpu : push_off(p, c))

(***************************************************************************)
(* Properties                                                              *)
(***************************************************************************)

TypeOK ==
    /\ state \in [Proc -> {"RUNNABLE", "RUNNING", "SLEEPING", "ZOMBIE"}]
    /\ chan \in [Proc -> BOOLEAN] /\ killed \in [Proc -> BOOLEAN]
    /\ lock \in [Lock -> Cpu \cup {None}]
    /\ on \in [Cpu -> Proc \cup {None}] /\ back \in [Cpu -> BOOLEAN] /\ scan \in [Cpu -> Proc]
    /\ pc \in [Proc -> {"forkret", "start", "yielded", "yielded_kernel", "slept", "reacquire", "spin", "test", "killed",
                       "sleep", "sleep_release", "wakeup", "exit", "panic"}]
    /\ wk \in [Proc -> 0..NProc] /\ cond \in BOOLEAN

\* No process runs on two CPUs, and whoever holds p->lock sees a RUNNING process
\* exactly if some CPU executes it: scheduler hands p->lock to the process and
\* gets it back (proc.c:456-469), so no CPU runs a kernel stack still in use.
OnOneCpu ==
    /\ \A c, d \in Cpu : on[c] = on[d] /\ on[c] # None => c = d
    /\ \A p \in Proc : lock[p] = None =>
          ((state[p] = "RUNNING") <=> \E c \in Cpu : on[c] = p)

\* sleep misses no wakeup ("we can be guaranteed that we won't miss any wakeup",
\* proc.c:542-545): while lk is free and the condition holds no waiter is asleep.
NoMissedWakeup ==
    lock[lk] = None /\ cond => \A p \in Waiter : state[p] # "SLEEPING"

\* The panics of sched ("sched p->lock", "sched locks") and of release are never
\* reached: the lock a CPU releases after swtch is one it holds.
NoPanic == \A p \in Proc : pc[p] # "panic"

\* A condition set by a waker is taken by a waiter, unless all waiters were
\* killed: the waker, the scheduler and the waiter never block one another for good.
WakeupServed == cond ~> (~ cond \/ \A p \in Waiter : killed[p])

\* A killed process exits, or it went to sleep: kill wakes a sleeper ("Wake process
\* from sleep()", proc.c:595), but between the test of killed and sleep the victim
\* is RUNNING, and sleeps with killed set until somebody else wakes it.
KilledExitsOrSleeps ==
    \A p \in Waiter : killed[p] ~> state[p] \in {"ZOMBIE", "SLEEPING"}
=============================================================================
