----------------------------- MODULE SchedProofs -----------------------------
(***************************************************************************)
(* For any number of processes and CPUs: no process runs on two CPUs, no   *)
(* wakeup is missed and the panics of the lock discipline are unreachable. *)
(* IInv says which thread is responsible for every lock that is held.      *)
(***************************************************************************)
EXTENDS Sched, FiniteSetTheorems, TLAPS

\* Where a process on a CPU holds its own lock, and where it holds lk.
HoldsOwn == {"forkret", "yielded", "yielded_kernel", "slept", "sleep_release"}
HoldsLk == {"test", "killed", "sleep", "sleep_release", "wakeup"}

\* A process is RUNNING exactly while a CPU executes it, and one CPU does.
Running ==
    /\ \A p \in Proc : state[p] = "RUNNING" <=> \E c \in Cpu : on[c] = p
    /\ \A c, d \in Cpu : on[c] = on[d] /\ on[c] # None => c = d

\* p->lock is held by the process itself, or by the scheduler of the CPU it has
\* just left, whose variable p is still that process.
OwnLock ==
    /\ \A c \in Cpu : on[c] # None => scan[c] = on[c] /\ ~ back[c]
    /\ \A c \in Cpu : \A p \in Proc : on[c] = p => (lock[p] = c <=> pc[p] \in HoldsOwn)
    /\ \A c \in Cpu : back[c] => on[c] = None /\ lock[scan[c]] = c
    /\ \A c \in Cpu : \A p \in Proc : lock[p] = c => on[c] = p \/ (back[c] /\ scan[c] = p)

ConditionLock ==
    /\ \A c \in Cpu : \A p \in Proc : on[c] = p => (lock[lk] = c <=> pc[p] \in HoldsLk)
    /\ \A c \in Cpu : lock[lk] = c => on[c] # None

\* Where a process that no CPU executes goes on.
OffCpu ==
    \A p \in Proc :
        /\ state[p] = "RUNNABLE" => pc[p] \in {"forkret", "yielded", "yielded_kernel", "slept"}
        /\ state[p] = "SLEEPING" => pc[p] = "slept" /\ chan[p]
        /\ state[p] = "ZOMBIE" => pc[p] = "exit"

Roles ==
    \A p \in Proc :
        /\ pc[p] \in {"test", "killed", "sleep", "sleep_release", "slept"} => p \in Waiter
        /\ pc[p] = "wakeup" => p \notin Waiter

\* Between the test of the condition and sleep the condition is false; once it
\* holds, a process asleep is still ahead of a waker in its loop.
Wakeups ==
    /\ \A p \in Proc : pc[p] \in {"killed", "sleep", "sleep_release"} => ~ cond
    /\ cond => \A p \in Proc : state[p] = "SLEEPING" =>
          \E q \in Proc : state[q] = "RUNNING" /\ pc[q] = "wakeup" /\ wk[q] <= p

IInv == TypeOK /\ NoPanic /\ Running /\ OwnLock /\ ConditionLock /\ OffCpu /\ Roles /\ Wakeups

\* Process numbers, the number of lk and None are told apart.
LEMMA Numbers ==
    /\ Lock = Proc \cup {lk} /\ lk \notin Proc /\ 0 \in Proc /\ Waiter \subseteq Proc
    /\ None \notin Proc /\ None \notin Cpu /\ NProc \in Nat
    /\ \A i \in Proc : i \in Nat /\ i < NProc /\ (i + 1) % NProc \in Proc
<1>1. NProc \in Nat /\ NProc > 0 /\ Waiters \in Nat /\ Waiters <= NProc
  BY SchedAssumption
<1>2. ASSUME NEW i \in Proc PROVE i \in Nat /\ i < NProc /\ (i + 1) % NProc \in Proc
  BY <1>1, <1>2 DEF Proc
<1> QED
  BY <1>1, <1>2, SchedAssumption DEF Proc, Lock, lk, Waiter

\* sched() from a CPU that holds the lock of p and no other does not panic.
LEMMA SchedSwitches ==
    ASSUME NEW c \in Cpu, NEW p \in Proc, NEW s, NEW then,
           {l \in Lock : lock'[l] = c} = {p}, sched(p, c, s, then)
    PROVE  /\ pc' = [pc EXCEPT ![p] = then] /\ state' = [state EXCEPT ![p] = s]
           /\ on' = [on EXCEPT ![c] = None] /\ back' = [back EXCEPT ![c] = TRUE]
<1>1. Cardinality({l \in Lock : lock'[l] = c}) = 1
  BY FS_Singleton
<1>2. lock'[p] = c
  OBVIOUS
<1> QED
  BY <1>1, <1>2 DEF sched

\* The order of process numbers.
LEMMA NextNumber ==
    ASSUME NEW i \in Nat, NEW j \in Nat
    PROVE  (i <= j /\ i # j => i + 1 <= j) /\ ~ (i <= j /\ j < i)
OBVIOUS

\* Wakers run their loops one at a time: each holds lk.
LEMMA OneWaker ==
    ASSUME IInv, NEW c \in Cpu, NEW p \in Proc, on[c] = p, pc[p] = "wakeup",
           NEW q \in Proc, state[q] = "RUNNING", pc[q] = "wakeup"
    PROVE  q = p
<1>1. PICK d \in Cpu : on[d] = q
  BY DEF IInv, Running
<1>2. lock[lk] = d /\ lock[lk] = c
  BY <1>1 DEF IInv, ConditionLock, HoldsLk
<1> QED
  BY <1>1, <1>2

\* scheduler: a process off all CPUs, RUNNABLE, is about to release its own lock.
LEMMA Step_scheduler ==
    ASSUME IInv, NEW c \in Cpu, scheduler(c) PROVE IInv'
<1> USE Numbers DEF IInv, TypeOK, scheduler, NextScan
<1>1. TypeOK'
  OBVIOUS
<1>2. NoPanic'
  BY DEF NoPanic, OwnLock, ConditionLock, HoldsOwn, HoldsLk
<1>3. Running'
  BY DEF Running, OffCpu
<1>4. OwnLock'
  BY SMTT(30), ZenonT(30) DEF Running, OwnLock, OffCpu, HoldsOwn
<1>5. ConditionLock'
  BY DEF Running, ConditionLock, OffCpu, HoldsLk
<1>6. OffCpu'
  BY DEF Running, OffCpu
<1>7. Roles'
  BY DEF Roles, ConditionLock, OwnLock, HoldsLk, HoldsOwn
<1>8. Wakeups'
  BY DEF Running, ConditionLock, OffCpu, Roles, Wakeups, HoldsLk
<1> QED
  BY <1>1, <1>2, <1>3, <1>4, <1>5, <1>6, <1>7, <1>8 DEF IInv

\* scheduler after swtch: the lock of the process it ran is held and is released.
LEMMA Step_scheduler_back ==
    ASSUME IInv, NEW c \in Cpu, scheduler_back(c) PROVE IInv'
<1> USE Numbers DEF IInv, TypeOK, scheduler_back, release, NextScan
<1>1. TypeOK'
  OBVIOUS
<1>2. NoPanic'
  BY DEF NoPanic, OwnLock, ConditionLock, HoldsOwn, HoldsLk
<1>3. Running'
  BY DEF Running, OffCpu
<1>4. OwnLock'
  BY DEF Running, OwnLock, OffCpu, HoldsOwn
<1>5. ConditionLock'
  BY DEF Running, ConditionLock, OwnLock, HoldsOwn, HoldsLk
<1>6. OffCpu'
  BY DEF Running, OwnLock, OffCpu
<1>7. Roles'
  BY DEF Roles, ConditionLock, OwnLock, HoldsLk, HoldsOwn
<1>8. Wakeups'
  BY DEF OwnLock, Wakeups
<1> QED
  BY <1>1, <1>2, <1>3, <1>4, <1>5, <1>6, <1>7, <1>8 DEF IInv

\* yield: the CPU holds no lock, so after acquire(&p->lock) exactly that one.
LEMMA Step_yield ==
    ASSUME IInv, NEW c \in Cpu, NEW p \in Proc, yield(p, c) PROVE IInv'
<1> USE Numbers DEF IInv, TypeOK
<1>f. \A l \in Lock : lock[l] # c
  BY DEF yield, OwnLock, ConditionLock, HoldsOwn, HoldsLk, acquire
<1>0. /\ lock' = [lock EXCEPT ![p] = c] /\ on[c] = p
      /\ {l \in Lock : lock'[l] = c} = {p}
  BY <1>f DEF yield, acquire
<1>s. /\ pc' = [pc EXCEPT ![p] = IF pc[p] = "start" THEN "yielded" ELSE "yielded_kernel"]
      /\ state' = [state EXCEPT ![p] = "RUNNABLE"]
      /\ on' = [on EXCEPT ![c] = None] /\ back' = [back EXCEPT ![c] = TRUE]
  BY <1>0, SchedSwitches DEF yield
<1>u. lock[p] = None /\ pc[p] \in {"start", "reacquire"} /\ UNCHANGED <<chan, killed, scan, wk, cond>>
  BY DEF yield, acquire
<1>1. TypeOK'
  BY <1>0, <1>s, <1>u
<1>2. NoPanic'
  BY <1>0, <1>s, <1>u DEF NoPanic, OwnLock, ConditionLock, HoldsOwn, HoldsLk
<1>3. Running'
  BY <1>0, <1>s, <1>u DEF Running, OffCpu
<1>4. OwnLock'
  BY <1>0, <1>s, <1>u DEF Running, OwnLock, OffCpu, HoldsOwn
<1>5. ConditionLock'
  BY <1>0, <1>s, <1>u DEF Running, ConditionLock, OwnLock, HoldsOwn, HoldsLk
<1>6. OffCpu'
  BY <1>0, <1>s, <1>u DEF Running, OffCpu
<1>7. Roles'
  BY <1>0, <1>s, <1>u DEF Roles, ConditionLock, OwnLock, HoldsLk, HoldsOwn
<1>8. Wakeups'
  BY <1>0, <1>s, <1>u DEF Running, ConditionLock, OffCpu, Roles, Wakeups, HoldsLk
<1> QED
  BY <1>1, <1>2, <1>3, <1>4, <1>5, <1>6, <1>7, <1>8 DEF IInv

\* forkret, and yield and sleep after sched(): p->lock came with the CPU.
LEMMA Step_resume ==
    ASSUME IInv, NEW c \in Cpu, NEW p \in Proc, resume(p, c) PROVE IInv'
<1> USE Numbers DEF IInv, TypeOK, resume, release
<1>1. TypeOK'
  OBVIOUS
<1>2. NoPanic'
  BY DEF NoPanic, OwnLock, ConditionLock, HoldsOwn, HoldsLk
<1>3. Running'
  BY DEF Running, OffCpu
<1>4. OwnLock'
  BY DEF Running, OwnLock, OffCpu, HoldsOwn
<1>5. ConditionLock'
  BY DEF Running, ConditionLock, OwnLock, HoldsOwn, HoldsLk
<1>6. OffCpu'
  BY DEF Running, OffCpu
<1>7. Roles'
  BY DEF Roles, ConditionLock, OwnLock, HoldsLk, HoldsOwn
<1>8. Wakeups'
  BY DEF Running, ConditionLock, OffCpu, Roles, Wakeups, HoldsLk
<1> QED
  BY <1>1, <1>2, <1>3, <1>4, <1>5, <1>6, <1>7, <1>8 DEF IInv

\* exit: as yield, but the process is never run again.
LEMMA Step_exit ==
    ASSUME IInv, NEW c \in Cpu, NEW p \in Proc, exit(p, c) PROVE IInv'
<1> USE Numbers DEF IInv, TypeOK
<1>f. \A l \in Lock : lock[l] # c
  BY DEF exit, OwnLock, ConditionLock, HoldsOwn, HoldsLk, acquire
<1>0. /\ lock' = [lock EXCEPT ![p] = c] /\ on[c] = p
      /\ {l \in Lock : lock'[l] = c} = {p}
  BY <1>f DEF exit, acquire
<1>s. /\ pc' = [pc EXCEPT ![p] = "exit"]
      /\ state' = [state EXCEPT ![p] = "ZOMBIE"]
      /\ on' = [on EXCEPT ![c] = None] /\ back' = [back EXCEPT ![c] = TRUE]
  BY SMTT(30), ZenonT(30), <1>0, SchedSwitches DEF exit
<1>u. lock[p] = None /\ pc[p] \in {"start", "exit"} /\ UNCHANGED <<chan, killed, scan, wk, cond>>
  BY DEF exit, acquire
<1>1. TypeOK'
  BY <1>0, <1>s, <1>u
<1>2. NoPanic'
  BY <1>0, <1>s, <1>u DEF NoPanic, OwnLock, ConditionLock, HoldsOwn, HoldsLk
<1>3. Running'
  BY <1>0, <1>s, <1>u DEF Running, OffCpu
<1>4. OwnLock'
  BY <1>0, <1>s, <1>u DEF Running, OwnLock, OffCpu, HoldsOwn
<1>5. ConditionLock'
  BY <1>0, <1>s, <1>u DEF Running, ConditionLock, OwnLock, HoldsOwn, HoldsLk
<1>6. OffCpu'
  BY <1>0, <1>s, <1>u DEF Running, OffCpu
<1>7. Roles'
  BY <1>0, <1>s, <1>u DEF Roles, ConditionLock, OwnLock, HoldsLk, HoldsOwn
<1>8. Wakeups'
  BY <1>0, <1>s, <1>u DEF Running, ConditionLock, OffCpu, Roles, Wakeups, HoldsLk
<1> QED
  BY <1>1, <1>2, <1>3, <1>4, <1>5, <1>6, <1>7, <1>8 DEF IInv

\* push_off: no lock changes hands.
LEMMA Step_push_off ==
    ASSUME IInv, NEW c \in Cpu, NEW p \in Proc, push_off(p, c) PROVE IInv'
<1> USE Numbers DEF IInv, TypeOK, push_off
<1>1. TypeOK'
  OBVIOUS
<1>2. NoPanic'
  BY DEF NoPanic, OwnLock, ConditionLock, HoldsOwn, HoldsLk
<1>3. Running'
  BY DEF Running, OffCpu
<1>4. OwnLock'
  BY DEF Running, OwnLock, OffCpu, HoldsOwn
<1>5. ConditionLock'
  BY DEF Running, ConditionLock, OwnLock, HoldsOwn, HoldsLk
<1>6. OffCpu'
  BY DEF Running, OffCpu
<1>7. Roles'
  BY DEF Roles, ConditionLock, OwnLock, HoldsLk, HoldsOwn
<1>8. Wakeups'
  BY DEF Running, ConditionLock, OffCpu, Roles, Wakeups, HoldsLk
<1> QED
  BY <1>1, <1>2, <1>3, <1>4, <1>5, <1>6, <1>7, <1>8 DEF IInv

\* acquire(lk) by a waiter.
LEMMA Step_wait_acquire ==
    ASSUME IInv, NEW c \in Cpu, NEW p \in Proc, wait_acquire(p, c) PROVE IInv'
<1> USE Numbers DEF IInv, TypeOK, wait_acquire, acquire
<1>1. TypeOK'
  OBVIOUS
<1>2. NoPanic'
  BY DEF NoPanic, OwnLock, ConditionLock, HoldsOwn, HoldsLk
<1>3. Running'
  BY DEF Running, OffCpu
<1>4. OwnLock'
  BY DEF Running, OwnLock, OffCpu, HoldsOwn
<1>5. ConditionLock'
  BY DEF Running, ConditionLock, OwnLock, HoldsOwn, HoldsLk
<1>6. OffCpu'
  BY DEF Running, OffCpu
<1>7. Roles'
  BY DEF Roles, ConditionLock, OwnLock, HoldsLk, HoldsOwn
<1>8. Wakeups'
  BY DEF Running, ConditionLock, OffCpu, Roles, Wakeups, HoldsLk
<1> QED
  BY <1>1, <1>2, <1>3, <1>4, <1>5, <1>6, <1>7, <1>8 DEF IInv

\* The test of the condition under lk: a condition that is taken leaves nothing to wake up for.
LEMMA Step_wait_test ==
    ASSUME IInv, NEW c \in Cpu, NEW p \in Proc, wait_test(p, c) PROVE IInv'
<1> USE Numbers DEF IInv, TypeOK, wait_test, release
<1>1. TypeOK'
  BY ZenonT(30)
<1>2. NoPanic'
  BY DEF NoPanic, OwnLock, ConditionLock, HoldsOwn, HoldsLk
<1>3. Running'
  BY DEF Running, OffCpu
<1>4. OwnLock'
  BY DEF Running, OwnLock, OffCpu, HoldsOwn
<1>5. ConditionLock'
  BY DEF Running, ConditionLock, OwnLock, HoldsOwn, HoldsLk
<1>6. OffCpu'
  BY DEF Running, OffCpu
<1>7. Roles'
  BY DEF Roles, ConditionLock, OwnLock, HoldsLk, HoldsOwn
<1>8. Wakeups'
  BY DEF Running, ConditionLock, OffCpu, Roles, Wakeups, HoldsLk
<1> QED
  BY <1>1, <1>2, <1>3, <1>4, <1>5, <1>6, <1>7, <1>8 DEF IInv

\* killed(p) under lk; giving up releases lk.
LEMMA Step_wait_killed ==
    ASSUME IInv, NEW c \in Cpu, NEW p \in Proc, wait_killed(p, c) PROVE IInv'
<1> USE Numbers DEF IInv, TypeOK, wait_killed, release
<1>1. TypeOK'
  OBVIOUS
<1>2. NoPanic'
  BY DEF NoPanic, OwnLock, ConditionLock, HoldsOwn, HoldsLk
<1>3. Running'
  BY DEF Running, OffCpu
<1>4. OwnLock'
  BY DEF Running, OwnLock, OffCpu, HoldsOwn
<1>5. ConditionLock'
  BY DEF Running, ConditionLock, OwnLock, HoldsOwn, HoldsLk
<1>6. OffCpu'
  BY DEF Running, OffCpu
<1>7. Roles'
  BY DEF Roles, ConditionLock, OwnLock, HoldsLk, HoldsOwn
<1>8. Wakeups'
  BY DEF Running, ConditionLock, OffCpu, Roles, Wakeups, HoldsLk
<1> QED
  BY <1>1, <1>2, <1>3, <1>4, <1>5, <1>6, <1>7, <1>8 DEF IInv

\* sleep: acquire(&p->lock) while lk is held.
LEMMA Step_sleep ==
    ASSUME IInv, NEW c \in Cpu, NEW p \in Proc, sleep(p, c) PROVE IInv'
<1> USE Numbers DEF IInv, TypeOK, sleep, acquire
<1>1. TypeOK'
  OBVIOUS
<1>2. NoPanic'
  BY DEF NoPanic, OwnLock, ConditionLock, HoldsOwn, HoldsLk
<1>3. Running'
  BY DEF Running, OffCpu
<1>4. OwnLock'
  BY DEF Running, OwnLock, OffCpu, HoldsOwn
<1>5. ConditionLock'
  BY DEF Running, ConditionLock, OwnLock, HoldsOwn, HoldsLk
<1>6. OffCpu'
  BY DEF Running, OffCpu
<1>7. Roles'
  BY DEF Roles, ConditionLock, OwnLock, HoldsLk, HoldsOwn
<1>8. Wakeups'
  BY DEF Running, ConditionLock, OffCpu, Roles, Wakeups, HoldsLk
<1> QED
  BY <1>1, <1>2, <1>3, <1>4, <1>5, <1>6, <1>7, <1>8 DEF IInv

\* sleep: the condition is still false when the process becomes SLEEPING, since lk was held.
LEMMA Step_sleep_sched ==
    ASSUME IInv, NEW c \in Cpu, NEW p \in Proc, sleep_sched(p, c) PROVE IInv'
<1> USE Numbers DEF IInv, TypeOK
<1>0. /\ lock' = [lock EXCEPT ![lk] = None] /\ on[c] = p
      /\ {l \in Lock : lock'[l] = c} = {p}
  BY DEF sleep_sched, OwnLock, ConditionLock, HoldsOwn, HoldsLk
<1>s. /\ pc' = [pc EXCEPT ![p] = "slept"]
      /\ state' = [state EXCEPT ![p] = "SLEEPING"]
      /\ on' = [on EXCEPT ![c] = None] /\ back' = [back EXCEPT ![c] = TRUE]
  BY <1>0, SchedSwitches DEF sleep_sched
<1>u. pc[p] = "sleep_release" /\ chan' = [chan EXCEPT ![p] = TRUE] /\ UNCHANGED <<killed, scan, wk, cond>>
  BY DEF sleep_sched, acquire
<1>1. TypeOK'
  BY <1>0, <1>s, <1>u
<1>2. NoPanic'
  BY <1>0, <1>s, <1>u DEF NoPanic, OwnLock, ConditionLock, HoldsOwn, HoldsLk
<1>3. Running'
  BY <1>0, <1>s, <1>u DEF Running, OffCpu
<1>4. OwnLock'
  BY <1>0, <1>s, <1>u DEF Running, OwnLock, OffCpu, HoldsOwn
<1>5. ConditionLock'
  BY <1>0, <1>s, <1>u DEF Running, ConditionLock, OwnLock, HoldsOwn, HoldsLk
<1>6. OffCpu'
  BY <1>0, <1>s, <1>u DEF Running, OffCpu
<1>7. Roles'
  BY <1>0, <1>s, <1>u DEF Roles, ConditionLock, OwnLock, HoldsLk, HoldsOwn
<1>8. Wakeups'
  BY SMTT(30), ZenonT(30), <1>0, <1>s, <1>u DEF Running, ConditionLock, OffCpu, Roles, Wakeups, HoldsLk
<1> QED
  BY <1>1, <1>2, <1>3, <1>4, <1>5, <1>6, <1>7, <1>8 DEF IInv

\* A waker sets the condition: all sleepers are ahead of it, nobody is between test and sleep.
LEMMA Step_wake_acquire ==
    ASSUME IInv, NEW c \in Cpu, NEW p \in Proc, wake_acquire(p, c) PROVE IInv'
<1> USE Numbers DEF IInv, TypeOK, wake_acquire, acquire
<1>1. TypeOK'
  OBVIOUS
<1>2. NoPanic'
  BY DEF NoPanic, OwnLock, ConditionLock, HoldsOwn, HoldsLk
<1>3. Running'
  BY DEF Running, OffCpu
<1>4. OwnLock'
  BY DEF Running, OwnLock, OffCpu, HoldsOwn
<1>5. ConditionLock'
  BY DEF Running, ConditionLock, OwnLock, HoldsOwn, HoldsLk
<1>6. OffCpu'
  BY DEF Running, OffCpu
<1>7. Roles'
  BY DEF Roles, ConditionLock, OwnLock, HoldsLk, HoldsOwn
<1>8. Wakeups'
  BY SMTT(30), ZenonT(30) DEF Running, ConditionLock, OffCpu, Roles, Wakeups, HoldsLk
<1> QED
  BY <1>1, <1>2, <1>3, <1>4, <1>5, <1>6, <1>7, <1>8 DEF IInv

\* A turn of the loop of wakeup leaves the process behind it awake.
LEMMA Step_wakeup ==
    ASSUME IInv, NEW c \in Cpu, NEW p \in Proc, wakeup(p, c) PROVE IInv'
<1> USE Numbers DEF IInv, TypeOK, wakeup, Awake
<1>1. TypeOK'
  <2>1. wk[p] \in 0..NProc /\ wk[p] < NProc /\ wk[p] \in Proc
    BY DEF Proc
  <2>2. state' \in [Proc -> {"RUNNABLE", "RUNNING", "SLEEPING", "ZOMBIE"}]
    BY <2>1
  <2>3. wk[p] + 1 \in 0..NProc
    BY <2>1
  <2>4. wk' \in [Proc -> 0..NProc]
    BY <2>3
  <2> QED
    BY <2>2, <2>4
<1>2. NoPanic'
  BY DEF NoPanic, OwnLock, ConditionLock, HoldsOwn, HoldsLk
<1>3. Running'
  BY DEF Running, OffCpu
<1>4. OwnLock'
  BY DEF Running, OwnLock, OffCpu, HoldsOwn
<1>5. ConditionLock'
  BY DEF Running, ConditionLock, OwnLock, HoldsOwn, HoldsLk
<1>6. OffCpu'
  BY DEF Running, OffCpu
<1>7. Roles'
  BY DEF Roles, ConditionLock, OwnLock, HoldsLk, HoldsOwn
<1>8. Wakeups'
  <2>1. ASSUME cond, NEW r \in Proc, state'[r] = "SLEEPING"
        PROVE \E q \in Proc : state'[q] = "RUNNING" /\ pc'[q] = "wakeup" /\ wk'[q] <= r
    <3>1. state[r] = "SLEEPING" /\ r # wk[p]
      BY <2>1 DEF OffCpu, Roles, Running
    <3>2. PICK q \in Proc : state[q] = "RUNNING" /\ pc[q] = "wakeup" /\ wk[q] <= r
      BY <2>1, <3>1 DEF Wakeups
    <3>3. q = p
      BY <3>2, OneWaker
    <3>4. wk[p] \in Nat /\ r \in Nat /\ wk'[p] = wk[p] + 1 /\ wk[p] <= r /\ wk[p] # r
      BY <3>1, <3>2, <3>3
    <3>5. wk'[p] <= r
      BY <3>4, NextNumber
    <3>6. state'[p] = "RUNNING"
      BY <3>2, <3>3
    <3> QED
      BY <3>2, <3>3, <3>5, <3>6
  <2> QED
    BY <2>1 DEF Wakeups
<1> QED
  BY <1>1, <1>2, <1>3, <1>4, <1>5, <1>6, <1>7, <1>8 DEF IInv

\* The loop of wakeup has passed every sleeper when lk is released.
LEMMA Step_wake_release ==
    ASSUME IInv, NEW c \in Cpu, NEW p \in Proc, wake_release(p, c) PROVE IInv'
<1> USE Numbers DEF IInv, TypeOK, wake_release, release
<1>1. TypeOK'
  OBVIOUS
<1>2. NoPanic'
  BY DEF NoPanic, OwnLock, ConditionLock, HoldsOwn, HoldsLk
<1>3. Running'
  BY DEF Running, OffCpu
<1>4. OwnLock'
  BY DEF Running, OwnLock, OffCpu, HoldsOwn
<1>5. ConditionLock'
  BY DEF Running, ConditionLock, OwnLock, HoldsOwn, HoldsLk
<1>6. OffCpu'
  BY DEF Running, OffCpu
<1>7. Roles'
  BY DEF Roles, ConditionLock, OwnLock, HoldsLk, HoldsOwn
<1>8. Wakeups'
  <2>1. ASSUME cond, NEW r \in Proc, state[r] = "SLEEPING" PROVE FALSE
    <3>1. PICK q \in Proc : state[q] = "RUNNING" /\ pc[q] = "wakeup" /\ wk[q] <= r
      BY <2>1 DEF Wakeups
    <3>2. q = p
      BY <3>1, OneWaker
    <3>3. NProc <= r /\ r < NProc /\ r \in Nat
      BY <3>1, <3>2
    <3> QED
      BY <3>3, NextNumber
  <2> QED
    BY <2>1 DEF Wakeups, ConditionLock, HoldsLk
<1> QED
  BY <1>1, <1>2, <1>3, <1>4, <1>5, <1>6, <1>7, <1>8 DEF IInv

\* kill: it makes a sleeper RUNNABLE and no process SLEEPING.
LEMMA Step_kill ==
    ASSUME IInv, NEW c \in Cpu, NEW p \in Proc, NEW q \in Waiter, kill(p, c, q) PROVE IInv'
<1> USE Numbers DEF IInv, TypeOK, kill
<1>1. TypeOK'
  OBVIOUS
<1>2. NoPanic'
  BY DEF NoPanic, OwnLock, ConditionLock, HoldsOwn, HoldsLk
<1>3. Running'
  BY DEF Running, OffCpu
<1>4. OwnLock'
  BY DEF Running, OwnLock, OffCpu, HoldsOwn
<1>5. ConditionLock'
  BY DEF Running, ConditionLock, OwnLock, HoldsOwn, HoldsLk
<1>6. OffCpu'
  BY DEF Running, OffCpu
<1>7. Roles'
  BY DEF Roles, ConditionLock, OwnLock, HoldsLk, HoldsOwn
<1>8. Wakeups'
  BY DEF Running, ConditionLock, OffCpu, Roles, Wakeups, HoldsLk
<1> QED
  BY <1>1, <1>2, <1>3, <1>4, <1>5, <1>6, <1>7, <1>8 DEF IInv

\* Every step of a CPU preserves the invariant.
LEMMA Inductive == IInv /\ [Next]_vars => IInv'
<1> SUFFICES ASSUME IInv, [Next]_vars PROVE IInv'
  OBVIOUS
<1>1. CASE UNCHANGED vars
  BY <1>1 DEF vars, IInv, TypeOK, NoPanic, Running, OwnLock, ConditionLock, OffCpu, Roles, Wakeups
<1>2. CASE Next
  BY <1>2, Step_scheduler, Step_scheduler_back, Step_yield, Step_resume, Step_exit, Step_push_off, Step_wait_acquire, Step_wait_test, Step_wait_killed, Step_sleep, Step_sleep_sched, Step_wake_acquire, Step_wakeup, Step_wake_release, Step_kill DEF Next, SchedStep, ProcStep
<1> QED
  BY <1>1, <1>2

\* At boot every lock is free, every process RUNNABLE and every CPU in scheduler().
LEMMA Initial == Init => IInv
<1> SUFFICES ASSUME Init PROVE IInv
  OBVIOUS
<1> USE Numbers DEF Init
<1>1. TypeOK
  <2>1. 0 \in 0..NProc
    OBVIOUS
  <2>2. wk \in [Proc -> 0..NProc] /\ scan \in [Cpu -> Proc] /\ on \in [Cpu -> Proc \cup {None}]
    BY <2>1
  <2>3. /\ chan \in [Proc -> BOOLEAN] /\ killed \in [Proc -> BOOLEAN]
        /\ back \in [Cpu -> BOOLEAN] /\ cond \in BOOLEAN
    OBVIOUS
  <2> QED
    BY <2>2, <2>3 DEF TypeOK
<1>2. NoPanic /\ OffCpu /\ Roles /\ Wakeups
  BY DEF NoPanic, OffCpu, Roles, Wakeups
<1>3. Running /\ OwnLock /\ ConditionLock
  BY DEF Running, OwnLock, ConditionLock
<1> QED
  BY <1>1, <1>2, <1>3 DEF IInv

\* The invariant of the scheduler, sleep and wakeup, for every number of processes and CPUs.
THEOREM SchedInvariant == Spec => []IInv
  BY Initial, Inductive, PTL DEF Spec

\* The types of the scheduler's state: the scan of proc[] never leaves the table.
THEOREM TypeCorrect == Spec => []TypeOK
<1>1. IInv => TypeOK
  BY DEF IInv
<1> QED
  BY <1>1, SchedInvariant, PTL

\* No two CPUs run one process, however many there are: p->lock goes with the switch.
THEOREM RunsOnOneCpu == Spec => []OnOneCpu
<1>1. IInv => OnOneCpu
  BY DEF IInv, Running, OnOneCpu
<1> QED
  BY <1>1, SchedInvariant, PTL

\* sleep misses no wakeup, for any number of waiters and wakers: with lk free no waker is in
\* its loop, so no process sleeps on a condition that holds.
THEOREM WakeupsReach == Spec => []NoMissedWakeup
<1>1. ASSUME IInv, lock[lk] = None, cond, NEW p \in Waiter, state[p] = "SLEEPING" PROVE FALSE
  <2>1. PICK q \in Proc : state[q] = "RUNNING" /\ pc[q] = "wakeup"
    BY <1>1, Numbers DEF IInv, Wakeups
  <2>2. PICK c \in Cpu : on[c] = q
    BY <2>1, <1>1 DEF IInv, Running
  <2>3. lock[lk] = c
    BY <2>1, <2>2, <1>1 DEF IInv, ConditionLock, HoldsLk
  <2> QED
    BY <2>3, <1>1, Numbers
<1>2. IInv => NoMissedWakeup
  BY <1>1 DEF NoMissedWakeup
<1> QED
  BY <1>2, SchedInvariant, PTL

\* sched() and release() never panic: a switch happens with exactly the lock of the process
\* held, and every release is by the CPU that holds the lock.
THEOREM NeverPanics == Spec => []NoPanic
<1>1. IInv => NoPanic
  BY DEF IInv
<1> QED
  BY <1>1, SchedInvariant, PTL
=============================================================================
