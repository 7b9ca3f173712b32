------------------------------- MODULE Process -------------------------------
(***************************************************************************)
(* The process table of kernel/proc.c: fork, exit, wait, reparent, kill    *)
(* and the slots they share, with the loop of user/init.c.  sleep and      *)
(* wakeup are atomic with wait_lock (module Sched shows why they may be);  *)
(* kill takes only p->lock, so it may come between a test of p->killed and *)
(* the sleep that follows.                                                 *)
(***************************************************************************)
EXTENDS Integers, FiniteSets, FiniteSetsExt

CONSTANTS
    NPROC,
    MaxPid,     \* bound on nextpid
    KillPids    \* the pids that kill is called with

ASSUME ProcessAssumption == NPROC \in Nat \ {0} /\ MaxPid \in Nat \ {0} /\ KillPids \subseteq Int

VARIABLES
    state,      \* UNUSED, USED, LIVE (RUNNABLE or RUNNING), SLEEPING, ZOMBIE
    parent, pid, killed,
    nextpid,
    wait_lock,  \* the process that holds it
    pc,         \* where each process is in its system call
    np,         \* the new process of a fork in progress
    sh,         \* of user/init.c: the pid of the shell
    panicked,
    asked       \* history: the pids that kill was called with and found

vars == <<state, parent, pid, killed, nextpid, wait_lock, pc, np, sh, panicked, asked>>

Proc == 0..(NPROC - 1)
None == -1
initproc == 0

\* userinit
Init ==
    /\ state = [p \in Proc |-> IF p = initproc THEN "LIVE" ELSE "UNUSED"]
    /\ parent = [p \in Proc |-> None]
    /\ pid = [p \in Proc |-> IF p = initproc THEN 1 ELSE 0]
    /\ killed = [p \in Proc |-> FALSE]
    /\ nextpid = 2 /\ wait_lock = None
    /\ pc = [p \in Proc |-> "user"] /\ np = [p \in Proc |-> None]
    /\ sh = 0 /\ panicked = FALSE /\ asked = {}

At(p, s) == pc' = [pc EXCEPT ![p] = s]

InUser(p) == ~ panicked /\ state[p] = "LIVE" /\ pc[p] = "user"

\* init forks to start its shell, and waits as long as that has not exited.
MayFork(p) == p = initproc => sh = 0
MayWait(p) == p = initproc => sh # 0

Unused == {p \in Proc : state[p] = "UNUSED"}

(***************************************************************************)
(* fork                                                                    *)
(***************************************************************************)

\* Mutant of fork: nextpid is not advanced.
fork_same_pid(p) ==
    /\ InUser(p) /\ ~ killed[p] /\ Unused # {} /\ nextpid <= MaxPid
    /\ MayFork(p)
    /\ LET q == Min(Unused) IN
       /\ state' = [state EXCEPT ![q] = "USED"]
       /\ pid' = [pid EXCEPT ![q] = nextpid]
       /\ np' = [np EXCEPT ![p] = q]
       /\ sh' = IF p = initproc THEN nextpid ELSE sh
    /\ At(p, "fork_parent")
    /\ UNCHANGED <<parent, killed, nextpid, wait_lock, panicked, asked>>

\* allocproc finds the first UNUSED slot; np->lock is held until all but the
\* parent and the state is copied.
fork(p) ==
    /\ InUser(p) /\ ~ killed[p] /\ Unused # {} /\ nextpid <= MaxPid
    /\ MayFork(p)
    /\ LET q == Min(Unused) IN
       /\ state' = [state EXCEPT ![q] = "USED"]
       /\ pid' = [pid EXCEPT ![q] = nextpid]
       /\ nextpid' = nextpid + 1
       /\ np' = [np EXCEPT ![p] = q]
       /\ sh' = IF p = initproc THEN nextpid ELSE sh
    /\ At(p, "fork_parent")
    /\ UNCHANGED <<parent, killed, wait_lock, panicked, asked>>

\* Mutant of fork_fail: init takes the failure for the pid of its shell.
fork_fail_as_pid(p) ==
    /\ InUser(p) /\ ~ killed[p]
    /\ MayFork(p)
    /\ Unused = {}
    /\ sh' = IF p = initproc THEN -1 ELSE sh
    /\ UNCHANGED <<state, parent, pid, killed, nextpid, wait_lock, pc, np, panicked, asked>>

\* No slot, or no memory: what allocproc took is given back by freeproc, with
\* killed and all, but for the pid.  init exits then.
fork_fail(p) ==
    /\ InUser(p) /\ ~ killed[p]
    /\ MayFork(p)
    /\ \/ Unused = {} /\ UNCHANGED <<nextpid, killed>>
       \/ /\ Unused # {} /\ nextpid <= MaxPid
          /\ nextpid' = nextpid + 1
          /\ killed' = [killed EXCEPT ![Min(Unused)] = FALSE]
    /\ panicked' = (p = initproc)
    /\ UNCHANGED <<state, parent, pid, wait_lock, pc, np, sh, asked>>

fork_parent(p) ==
    /\ pc[p] = "fork_parent" /\ wait_lock = None
    /\ parent' = [parent EXCEPT ![np[p]] = p]
    /\ At(p, "fork_run")
    /\ UNCHANGED <<state, pid, killed, nextpid, wait_lock, np, sh, panicked, asked>>

fork_run(p) ==
    /\ pc[p] = "fork_run"
    /\ state' = [state EXCEPT ![np[p]] = "LIVE"]
    /\ np' = [np EXCEPT ![p] = None]
    /\ At(p, "user")
    /\ UNCHANGED <<parent, pid, killed, nextpid, wait_lock, sh, panicked, asked>>

(***************************************************************************)
(* exit, with the wakeup of the parents                                    *)
(***************************************************************************)

Wakeup(S) == [q \in Proc |-> IF q \in S /\ state[q] = "SLEEPING" THEN "LIVE" ELSE state[q]]

Children(p) == {q \in Proc : parent[q] = p}

\* Mutant of exit: the children keep their parent.
exit_no_reparent(p) ==
    /\ InUser(p) /\ wait_lock = None
    /\ p # initproc
    /\ state' = [Wakeup({parent[p]}) EXCEPT ![p] = "ZOMBIE"]
    /\ UNCHANGED <<parent, pid, killed, nextpid, wait_lock, pc, np, sh, panicked, asked>>

\* Mutant of exit: reparent does not wake init.
exit_init_not_woken(p) ==
    /\ InUser(p)
    /\ IF p = initproc
       THEN killed[p] /\ panicked' = TRUE /\ UNCHANGED <<state, parent>>
       ELSE /\ wait_lock = None
            /\ parent' = [q \in Proc |-> IF parent[q] = p THEN initproc ELSE parent[q]]
            /\ state' = [Wakeup({parent[p]}) EXCEPT ![p] = "ZOMBIE"]
            /\ UNCHANGED panicked
    /\ UNCHANGED <<pid, killed, nextpid, wait_lock, pc, np, sh, asked>>

\* A process exits by itself or because it was killed; init does not by itself.
exit(p) ==
    /\ InUser(p)
    /\ IF p = initproc
       THEN killed[p] /\ panicked' = TRUE /\ UNCHANGED <<state, parent>>
       ELSE /\ wait_lock = None
            /\ parent' = [q \in Proc |-> IF parent[q] = p THEN initproc ELSE parent[q]]
            /\ state' = [Wakeup({parent[p]} \cup (IF Children(p) # {} THEN {initproc} ELSE {}))
                         EXCEPT ![p] = "ZOMBIE"]
            /\ UNCHANGED panicked
    /\ UNCHANGED <<pid, killed, nextpid, wait_lock, pc, np, sh, asked>>

(***************************************************************************)
(* wait                                                                    *)
(***************************************************************************)

Zombies(p) == {q \in Children(p) : state[q] = "ZOMBIE"}

\* Mutant of freeproc: killed is not reset.
freeproc_keeps_killed(q) ==
    /\ state' = [state EXCEPT ![q] = "UNUSED"]
    /\ pid' = [pid EXCEPT ![q] = 0]
    /\ parent' = [parent EXCEPT ![q] = None]
    /\ UNCHANGED killed

freeproc(q) ==
    /\ state' = [state EXCEPT ![q] = "UNUSED"]
    /\ pid' = [pid EXCEPT ![q] = 0]
    /\ parent' = [parent EXCEPT ![q] = None]
    /\ killed' = [killed EXCEPT ![q] = FALSE]

wait(p) ==
    /\ InUser(p) /\ ~ killed[p]
    /\ MayWait(p)
    /\ At(p, "wait")
    /\ UNCHANGED <<state, parent, pid, killed, nextpid, wait_lock, np, sh, panicked, asked>>

\* The scan finds a child that exited, which is freed.
wait_reap(p) ==
    /\ pc[p] \in {"wait", "asleep"} /\ state[p] = "LIVE" /\ wait_lock = None /\ Zombies(p) # {}
    /\ freeproc(Min(Zombies(p)))
    /\ sh' = IF p = initproc /\ pid[Min(Zombies(p))] = sh THEN 0 ELSE sh
    /\ At(p, "user")
    /\ UNCHANGED <<nextpid, wait_lock, np, panicked, asked>>

\* The status cannot be copied out: the child remains.  init passes no address.
wait_fault(p) ==
    /\ pc[p] \in {"wait", "asleep"} /\ state[p] = "LIVE" /\ wait_lock = None /\ Zombies(p) # {}
    /\ p # initproc
    /\ At(p, "user")
    /\ UNCHANGED <<state, parent, pid, killed, nextpid, wait_lock, np, sh, panicked, asked>>

\* Mutant of wait_none: wait_lock is released before sleep is called.
wait_none_unlocked(p) ==
    /\ pc[p] \in {"wait", "asleep"} /\ state[p] = "LIVE" /\ wait_lock = None /\ Zombies(p) = {}
    /\ IF Children(p) = {} \/ killed[p]
       THEN At(p, "user") /\ panicked' = (p = initproc)
       ELSE At(p, "wait_sleep") /\ UNCHANGED panicked
    /\ UNCHANGED <<state, parent, pid, killed, nextpid, wait_lock, np, sh, asked>>

\* No child exited: return -1 without children or if killed, else hold wait_lock
\* on the way to sleep.  init exits on -1.
wait_none(p) ==
    /\ pc[p] \in {"wait", "asleep"} /\ state[p] = "LIVE" /\ wait_lock = None /\ Zombies(p) = {}
    /\ IF Children(p) = {} \/ killed[p]
       THEN /\ At(p, "user") /\ UNCHANGED wait_lock
            /\ panicked' = (p = initproc)
       ELSE At(p, "wait_sleep") /\ wait_lock' = p /\ UNCHANGED panicked
    /\ UNCHANGED <<state, parent, pid, killed, nextpid, np, sh, asked>>

wait_sleep(p) ==
    /\ pc[p] = "wait_sleep"
    /\ state' = [state EXCEPT ![p] = "SLEEPING"]
    /\ wait_lock' = None
    /\ At(p, "asleep")
    /\ UNCHANGED <<parent, pid, killed, nextpid, np, sh, panicked, asked>>

(***************************************************************************)
(* kill                                                                    *)
(***************************************************************************)

\* The first slot with that pid, whatever its state.
kill(k) ==
    LET found == {q \in Proc : pid[q] = k} IN
    /\ ~ panicked /\ found # {}
    /\ killed' = [killed EXCEPT ![Min(found)] = TRUE]
    /\ state' = Wakeup({Min(found)})
    /\ asked' = asked \cup {k}
    /\ UNCHANGED <<parent, pid, nextpid, wait_lock, pc, np, sh, panicked>>

Step(p) ==
    \/ fork_parent(p) \/ fork_run(p)
    \/ wait_reap(p) \/ wait_none(p) \/ wait_sleep(p)

Next ==
    \/ \E p \in Proc : \/ fork(p) \/ fork_fail(p) \/ wait(p) \/ exit(p)
                       \/ Step(p) \/ wait_fault(p)
    \/ \E k \in KillPids : kill(k)

Spec == Init /\ [][Next]_vars

\* A process in the kernel goes on, and init goes on calling fork and wait (or exits, killed).
FairSpec ==
    /\ Spec
    /\ \A p \in Proc : SF_vars(Step(p))
    /\ WF_vars(fork(initproc) \/ fork_fail(initproc) \/ wait(initproc) \/ exit(initproc))

(***************************************************************************)
(* Properties                                                              *)
(***************************************************************************)

TypeOK ==
    /\ state \in [Proc -> {"UNUSED", "USED", "LIVE", "SLEEPING", "ZOMBIE"}]
    /\ parent \in [Proc -> Proc \cup {None}]
    /\ pid \in [Proc -> 0..MaxPid] /\ killed \in [Proc -> BOOLEAN]
    /\ nextpid \in 2..(MaxPid + 1) /\ wait_lock \in Proc \cup {None}
    /\ pc \in [Proc -> {"user", "fork_parent", "fork_run", "wait", "wait_sleep", "asleep"}]
    /\ np \in [Proc -> Proc \cup {None}] /\ sh \in 0..MaxPid
    /\ panicked \in BOOLEAN /\ asked \subseteq KillPids

\* Every process but init has a parent that can wait for it: exit hands the
\* children to init in the critical section in which it becomes a zombie, and
\* no slot is freed while somebody's parent field names it.
ParentLive ==
    \A p \in Proc \ {initproc} : state[p] \in {"LIVE", "SLEEPING", "ZOMBIE"} =>
        parent[p] # None /\ state[parent[p]] \in {"LIVE", "SLEEPING"}

\* Slots in use have different pids, none of them 0, so kill and wait name one process.
PidsUnique ==
    \A p, q \in Proc \ Unused : pid[p] > 0 /\ (pid[p] = pid[q] => p = q)

\* No process sleeps in wait unless it has a child, none of which has exited:
\* the wakeups of exit and reparent are not lost ("Parent might be sleeping in
\* wait()", proc.c:373), also when an orphan that is already a zombie gets init.
SleeperHasLiveChild ==
    wait_lock = None => \A p \in Proc : state[p] = "SLEEPING" =>
        Children(p) # {} /\ Zombies(p) = {}

\* Zombies that init inherits are reaped, so their slots come back, unless init
\* itself failed or the pids of the instance are used up.
OrphansReaped ==
    \A p \in Proc : (state[p] = "ZOMBIE" /\ parent[p] = initproc)
                     ~> (state[p] = "UNUSED" \/ panicked \/ nextpid > MaxPid)

\* "Kill the process with the given pid." (proc.c:582): a process that runs with
\* killed set has a pid that kill was called with.
KilledWasAsked == \A p \in Proc : state[p] = "LIVE" /\ killed[p] => pid[p] \in asked
=============================================================================
