------------------------------ MODULE LogProofs ------------------------------
(***************************************************************************)
(* The log implements TransDisk, for any blocks, contents, processes and   *)
(* sizes.  IInv says, stage by stage of commit and of recovery, which of   *)
(* cache, log blocks and home locations agree.                             *)
(***************************************************************************)
EXTENDS Log, FiniteSetTheorems, TLAPS

Inj(s) == \A i, j \in 1..Len(s) : s[i] = s[j] => i = j
Fits(s) == Len(s) <= LOGSIZE /\ Len(s) <= NLog - 1

Committing == {"write_log", "write_head", "install", "erase", "committed"}

\* The header in memory and the header on disk.
Shape ==
    /\ Inj(lh) /\ Inj(dhead) /\ Fits(lh) /\ Fits(dhead)
    /\ stage \in {"run", "write_log", "write_head", "committed", "panic"} => dhead = <<>>
    /\ stage \in {"install", "erase", "recover", "clear"} => dhead = lh
    /\ stage \in {"write_log", "install", "recover"} => tail \in 1..Len(lh)
    /\ stage \in {"read_head", "committed"} => lh = <<>>
    /\ stage = "read_head" => tail = 1
    /\ stage = "write_head" => Len(lh) > 0

\* Who is between begin_op and end_op.
Counting ==
    /\ outstanding = Cardinality(Active)
    /\ stage # "panic" => (committing <=> stage \in Committing)
    /\ stage # "panic" /\ committing => Active = {}
    /\ Running /\ ~ committing /\ Active = {} => lh = <<>>
    /\ Recovering => pc = [p \in Proc |-> "out"]

\* A block whose newest contents are only in the cache and perhaps in the log.
Dirty(b) == Running /\ \E i \in 1..Len(lh) : lh[i] = b /\ ~ Installed(i)

\* Where the newest contents of the blocks are.
Contents ==
    /\ stage = "write_log" => \A i \in 1..(tail - 1) : logb[i] = View(lh[i])
    /\ stage \in {"write_head", "install", "erase"} =>
         \A i \in 1..Len(lh) : logb[i] = View(lh[i])
    /\ stage \in {"install", "recover"} => \A i \in 1..(tail - 1) : home[lh[i]] = logb[i]
    /\ stage \in {"erase", "clear"} => \A i \in 1..Len(lh) : home[lh[i]] = logb[i]
    /\ stage # "panic" => \A b \in Block :
         IF Dirty(b) THEN cache[b] # NotCached /\ pins[b] = 1
                     ELSE cache[b] \in {NotCached, home[b]} /\ pins[b] = 0

IInv == TypeOK /\ Shape /\ Counting /\ Contents /\ SleeperHasWaker

(***************************************************************************)
(* Sequences and counting                                                  *)
(***************************************************************************)

\* Appending a block that is not logged yet keeps the header free of repetitions.
LEMMA AppendInj ==
    ASSUME NEW s \in Seq(Block), NEW b \in Block, Inj(s), b \notin Blocks(s)
    PROVE  /\ Append(s, b) \in Seq(Block)
           /\ Len(Append(s, b)) = Len(s) + 1
           /\ Inj(Append(s, b))
           /\ \A i \in 1..Len(s) : Append(s, b)[i] = s[i]
           /\ Append(s, b)[Len(s) + 1] = b
  BY DEF Inj, Blocks

\* The empty header.
LEMMA EmptyHeader ==
    /\ <<>> \in Seq(Block) /\ Len(<<>>) = 0 /\ Inj(<<>>) /\ Fits(<<>>)
  BY LogAssumption DEF Inj, Fits

\* A call that begins is counted, one that ends is not, and nobody is counted
\* exactly when outstanding is 0.
LEMMA CountActive ==
    ASSUME NEW A \in SUBSET Proc, NEW p \in Proc
    PROVE  /\ Cardinality(A) \in Nat
           /\ Cardinality(A) = 0 <=> A = {}
           /\ p \notin A => Cardinality(A \cup {p}) = Cardinality(A) + 1
           /\ p \in A => Cardinality(A \ {p}) = Cardinality(A) - 1
  <1>1. IsFiniteSet(A)  BY FS_Subset, LogAssumption
  <1>2. Cardinality(A) \in Nat /\ (Cardinality(A) = 0 <=> A = {})
    BY <1>1, FS_CardinalityType, FS_EmptySet
  <1>3. p \notin A => Cardinality(A \cup {p}) = Cardinality(A) + 1
    BY <1>1, FS_AddElement
  <1>4. p \in A => Cardinality(A \ {p}) = Cardinality(A) - 1
    BY <1>1, FS_RemoveElement
  <1> QED  BY <1>2, <1>3, <1>4

(***************************************************************************)
(* IInv holds initially                                                    *)
(***************************************************************************)

\* A disk that mkfs has made, before recovery.
LEMMA InitIInv == Init => IInv
  <1> SUFFICES ASSUME Init PROVE IInv  OBVIOUS
  <1>0. home \in [Block -> Value] /\ logb \in [LogSlot -> Value]
    <2>1. PICK v \in Value : home = [b \in Block |-> v] /\ logb = [i \in LogSlot |-> v]
      BY DEF Init
    <2> QED  BY <2>1
  <1>1. TypeOK
    <2>1. committing \in BOOLEAN  BY DEF Init
    <2>2. cache \in [Block -> Value \cup {NotCached}]  BY DEF Init
    <2>3. pc \in [Proc -> {"out", "sleep", "ready", "in", "commit"}]  BY DEF Init
    <2>4. wrote \in [Proc -> SUBSET Block] /\ pins \in [Block -> Nat]  BY DEF Init
    <2> QED  BY <1>0, <2>1, <2>2, <2>3, <2>4, EmptyHeader DEF Init, TypeOK
  <1>2. Shape  BY EmptyHeader DEF Init, Shape
  <1>3. Active = {}  BY DEF Init, Active
  <1>4. Counting  BY <1>3, FS_EmptySet DEF Init, Counting, Committing, Running, Recovering
  <1>5. Contents  BY EmptyHeader DEF Init, Contents, Dirty, Running, Recovering
  <1>6. SleeperHasWaker  BY DEF Init, SleeperHasWaker, Running, Recovering
  <1> QED  BY <1>1, <1>2, <1>4, <1>5, <1>6 DEF IInv

(***************************************************************************)
(* Every step keeps IInv                                                   *)
(***************************************************************************)

\* Reading a block into the cache changes what no call sees.
LEMMA BreadStep ==
    ASSUME IInv, NEW b \in Block, bread(b)
    PROVE  IInv' /\ \A x \in Block : View(x)' = View(x)
  <1> USE DEF IInv, bread, disk, log, procs
  <1>1. ~ Dirty(b)  BY DEF Contents, Running
  <1>2. TypeOK'  BY DEF TypeOK
  <1>3. \A x \in Block : View(x)' = View(x)  BY LogAssumption DEF View, TypeOK
  <1>4. Shape'  BY DEF Shape, Inj, Fits
  <1>5. Counting'  BY DEF Counting, Active, Running, Recovering
  <1>6. Contents'
    <2>1. \A x \in Block : Dirty(x)' = Dirty(x)
      BY DEF Dirty, Running, Recovering, Installed
    <2>2. \A i \in 1..Len(lh) : View(lh[i])' = View(lh[i])  BY <1>3 DEF TypeOK
    <2> QED  BY <1>1, <2>1, <2>2 DEF Contents, TypeOK, Shape
  <1>7. SleeperHasWaker'  BY DEF SleeperHasWaker, Running, Recovering
  <1> QED  BY <1>2, <1>3, <1>4, <1>5, <1>6, <1>7

\* Recycling a buffer loses nothing: a dirty block is pinned.
LEMMA RecycleStep ==
    ASSUME IInv, NEW b \in Block, Recycle(b)
    PROVE  IInv' /\ \A x \in Block : View(x)' = View(x)
  <1> USE DEF IInv, Recycle, disk, log, procs
  <1>1. ~ Dirty(b) /\ cache[b] = home[b]  BY DEF Contents
  <1>2. TypeOK'  BY DEF TypeOK
  <1>3. \A x \in Block : View(x)' = View(x)  BY <1>1, LogAssumption DEF View, TypeOK
  <1>4. Shape'  BY DEF Shape, Inj, Fits
  <1>5. Counting'  BY DEF Counting, Active, Running, Recovering
  <1>6. Contents'
    <2>1. \A x \in Block : Dirty(x)' = Dirty(x)
      BY DEF Dirty, Running, Recovering, Installed
    <2>2. \A i \in 1..Len(lh) : View(lh[i])' = View(lh[i])  BY <1>3 DEF TypeOK
    <2> QED  BY <1>1, <2>1, <2>2 DEF Contents, TypeOK, Shape
  <1>7. SleeperHasWaker'  BY DEF SleeperHasWaker, Running, Recovering
  <1> QED  BY <1>2, <1>3, <1>4, <1>5, <1>6, <1>7

\* What begin_op, end_op and end_commit leave alone.
LEMMA SameContents ==
    ASSUME IInv, UNCHANGED <<disk, cached, lh>>, stage \in {"run", "committed"},
           stage' \in {"run", "committed", "write_log"}, stage' = "write_log" => tail' = 1
    PROVE  Contents'
  <1> USE DEF disk, cached
  <1>1. \A x \in Block : Dirty(x)' = Dirty(x)
    BY DEF Dirty, Running, Recovering, Installed
  <1> QED  BY <1>1 DEF IInv, Contents

\* A call begins only when nothing is committing, and is counted.
LEMMA BeginStep ==
    ASSUME IInv, NEW p \in Proc, begin_op(p)
    PROVE  /\ IInv'
           /\ Active' = IF MustWait THEN Active ELSE Active \cup {p}
           /\ p \notin Active
  <1> USE DEF IInv, begin_op, disk, cached
  <1>1. Active' = (IF MustWait THEN Active ELSE Active \cup {p}) /\ p \notin Active
    BY DEF Active, TypeOK
  <1>2. TypeOK'
    <2>1. pc' \in [Proc -> {"out", "sleep", "ready", "in", "commit"}]  BY DEF TypeOK
    <2>2. wrote' \in [Proc -> SUBSET Block]  BY DEF TypeOK
    <2>3. outstanding' \in Nat  BY DEF TypeOK
    <2> QED  BY <2>1, <2>2, <2>3 DEF TypeOK
  <1>3. Shape'  BY DEF Shape, Inj, Fits
  <1>4. Counting'
    <2>1. outstanding' = Cardinality(Active')
      BY <1>1, CountActive DEF Counting, Active
    <2>2. committing => MustWait  BY DEF MustWait
    <2>3. (Running /\ ~ committing /\ Active = {} => lh = <<>>)'
      BY <1>1 DEF Counting, Running, Recovering
    <2> QED  BY <1>1, <2>1, <2>2, <2>3 DEF Counting, Running, Recovering
  <1>5. Contents'
    <2>1. \A x \in Block : Dirty(x)' = Dirty(x)
      BY DEF Dirty, Running, Recovering, Installed
    <2> QED  BY <2>1 DEF Contents, View
  <1>6. SleeperHasWaker'
    <2>1. CASE MustWait
      <3>1. CASE committing  BY <3>1 DEF SleeperHasWaker
      <3>2. CASE ~ committing
        <4>1. ASSUME outstanding = 0 PROVE FALSE
          <5>1. lh = <<>>  BY <3>2, <4>1, CountActive DEF Counting, Active
          <5>2. Len(lh) = 0  BY <5>1, EmptyHeader
          <5>3. (outstanding + 1) * MAXOPBLOCKS = MAXOPBLOCKS
            BY <4>1, LogAssumption
          <5> QED  BY <2>1, <3>2, <5>2, <5>3, LogAssumption DEF MustWait
        <4> QED  BY <2>1, <4>1 DEF SleeperHasWaker, TypeOK
      <3> QED  BY <3>1, <3>2
    <2>2. CASE ~ MustWait  BY <2>2 DEF SleeperHasWaker, TypeOK
    <2> QED  BY <2>1, <2>2
  <1> QED  BY <1>1, <1>2, <1>3, <1>4, <1>5, <1>6

\* An update is in the cache and pinned; the disk and the other blocks stay.
LEMMA WriteStep ==
    ASSUME IInv, NEW p \in Proc, NEW b \in Block, NEW v \in Value, log_write(p, b, v),
           stage' # "panic"
    PROVE  /\ IInv' /\ p \in Active /\ Active' = Active
           /\ UNCHANGED disk /\ stage = "run" /\ stage' = "run"
           /\ \A x \in Block : View(x)' = IF x = b THEN v ELSE View(x)
  <1> USE DEF IInv, log_write, Panic
  <1>0. /\ cache' = [cache EXCEPT ![b] = v]
        /\ wrote' = [wrote EXCEPT ![p] = @ \cup {b}]
        /\ Len(lh) < LOGSIZE /\ Len(lh) < NLog - 1
        /\ IF b \in Blocks(lh) THEN UNCHANGED <<lh, pins>>
           ELSE lh' = Append(lh, b) /\ pins' = [pins EXCEPT ![b] = @ + 1]
        /\ UNCHANGED <<disk, outstanding, committing, pc, stage, tail>>
    BY LogAssumption DEF TypeOK
  <1> HIDE DEF log_write
  <1> USE <1>0 DEF disk
  <1>1. p \in Active /\ Active' = Active  BY DEF log_write, Active
  <1>2. ~ committing /\ stage = "run"
    BY <1>1 DEF Counting, log_write, Running, Recovering, TypeOK, Committing
  <1>3. \A x \in Block : View(x)' = IF x = b THEN v ELSE View(x)
    BY LogAssumption DEF View, TypeOK
  <1>a. ASSUME b \notin Blocks(lh)
        PROVE  /\ lh' \in Seq(Block) /\ Len(lh') = Len(lh) + 1 /\ Inj(lh')
               /\ \A i \in 1..Len(lh) : lh'[i] = lh[i]
               /\ lh'[Len(lh) + 1] = b
    <2>1. lh \in Seq(Block) /\ Inj(lh)  BY DEF TypeOK, Shape
    <2>2. lh' = Append(lh, b)  BY <1>a
    <2> HIDE <1>0 DEF IInv
    <2> QED  BY <1>a, <2>1, <2>2, AppendInj
  <1>4. TypeOK'
    <2>1. lh' \in Seq(Block)  BY <1>a DEF TypeOK
    <2>3. pins' \in [Block -> Nat]  BY DEF TypeOK
    <2>2. wrote' \in [Proc -> SUBSET Block]  BY DEF TypeOK
    <2> QED  BY <2>1, <2>2, <2>3 DEF TypeOK
  <1>5. Shape'
    <2>1. Inj(lh') /\ Fits(lh')
      BY <1>a, LogAssumption DEF TypeOK, Shape, Fits
    <2> QED  BY <1>2, <2>1 DEF Shape
  <1>6. Counting'  BY <1>1, <1>2 DEF Counting, Running, Recovering
  <1>7. Contents'
    <2>1. \A x \in Block : Dirty(x) <=> x \in Blocks(lh)
      BY <1>2 DEF Dirty, Running, Recovering, Installed, Blocks
    <2>2. \A x \in Block : Dirty(x)' <=> x \in Blocks(lh')
      BY <1>2 DEF Dirty, Running, Recovering, Installed, Blocks
    <2>3. \A x \in Block : x \in Blocks(lh') <=> x \in Blocks(lh) \/ x = b
      <3>1. CASE b \in Blocks(lh)  BY <3>1
      <3>2. CASE b \notin Blocks(lh)
        <4>1. 1..Len(lh') = 1..Len(lh) \cup {Len(lh) + 1}  BY <1>a, <3>2 DEF TypeOK
        <4>2. Blocks(lh') = {lh'[i] : i \in 1..Len(lh)} \cup {lh'[Len(lh) + 1]}
          BY <4>1 DEF Blocks
        <4>3. {lh'[i] : i \in 1..Len(lh)} = Blocks(lh)  BY <1>a, <3>2 DEF Blocks
        <4> QED  BY <1>a, <3>2, <4>2, <4>3
      <3> QED  BY <3>1, <3>2
    <2> QED  BY <1>2, <2>1, <2>2, <2>3, LogAssumption DEF Contents, TypeOK
  <1>8. SleeperHasWaker'  BY DEF SleeperHasWaker, Running, Recovering
  <1> QED  BY <1>1, <1>2, <1>3, <1>4, <1>5, <1>6, <1>7, <1>8

\* A panic stops the machine while calls are active.
LEMMA PanicStep ==
    ASSUME IInv, Running, ~ committing, Panic
    PROVE  IInv' /\ stage = "run" /\ Active' = Active /\ UNCHANGED <<disk, cached>>
  <1> USE DEF IInv, Panic, disk, cached, log, procs
  <1>1. stage = "run"  BY DEF Counting, Running, Recovering, TypeOK, Committing
  <1>2. TypeOK'  BY DEF TypeOK
  <1>3. Shape'  BY <1>1 DEF Shape, Inj, Fits
  <1>4. Counting'  BY DEF Counting, Active, Running, Recovering
  <1>5. Contents'  BY DEF Contents
  <1>6. SleeperHasWaker'  BY DEF SleeperHasWaker, Running
  <1> QED  BY <1>1, <1>2, <1>3, <1>4, <1>5, <1>6 DEF Active

\* After wakeup(&log) nobody sleeps in begin_op, and the calls in progress are the same.
LEMMA WakeFacts ==
    ASSUME NEW q \in [Proc -> {"out", "sleep", "ready", "in", "commit"}]
    PROVE  /\ Wake(q) \in [Proc -> {"out", "sleep", "ready", "in", "commit"}]
           /\ \A p \in Proc : Wake(q)[p] # "sleep"
           /\ \A p \in Proc : Wake(q)[p] = "in" <=> q[p] = "in"
  BY DEF Wake

\* The last call to end starts the commit, and no earlier one does.
LEMMA EndStep ==
    ASSUME IInv, NEW p \in Proc, end_op(p)
    PROVE  /\ IInv' /\ p \in Active /\ Active' = Active \ {p}
           /\ UNCHANGED <<disk, cached>> /\ Running /\ stage' \in {"run", "write_log", "committed"}
  <1> USE DEF IInv, end_op
  <1>1. p \in Active  BY DEF Active
  <1>2. ~ committing /\ stage = "run"
    BY <1>1 DEF Counting, Running, Recovering, TypeOK, Committing
  <1>3. Active' = Active \ {p}
    <2>1. CASE outstanding = 1  BY <1>2, <2>1 DEF Active, TypeOK
    <2>2. CASE outstanding # 1
      <3>1. pc' = Wake([pc EXCEPT ![p] = "out"])  BY <1>2, <2>2
      <3>2. [pc EXCEPT ![p] = "out"] \in [Proc -> {"out", "sleep", "ready", "in", "commit"}]
        BY DEF TypeOK
      <3> QED  BY <3>1, <3>2, WakeFacts DEF Active, TypeOK
    <2> QED  BY <2>1, <2>2
  <1>4. outstanding' = outstanding - 1 /\ outstanding' = Cardinality(Active')
      /\ outstanding' \in Nat /\ (outstanding' = 0 <=> Active' = {})
    <2>1. outstanding' = outstanding - 1  BY <1>2
    <2>2. Cardinality(Active \ {p}) = Cardinality(Active) - 1  BY <1>1, CountActive DEF Active
    <2>3. Cardinality(Active \ {p}) \in Nat
        /\ (Cardinality(Active \ {p}) = 0 <=> Active \ {p} = {})
      BY CountActive DEF Active
    <2> QED  BY <1>3, <2>1, <2>2, <2>3 DEF Counting
  <1>5. UNCHANGED <<disk, cached, lh, wrote>>  BY <1>2
  <1>6. stage' \in {"run", "write_log", "committed"}  BY <1>2
  <1>7. TypeOK'
    <2>1. pc' \in [Proc -> {"out", "sleep", "ready", "in", "commit"}]
      <3>1. [pc EXCEPT ![p] = "out"] \in [Proc -> {"out", "sleep", "ready", "in", "commit"}]
        BY DEF TypeOK
      <3>2. [pc EXCEPT ![p] = "commit"] \in [Proc -> {"out", "sleep", "ready", "in", "commit"}]
        BY DEF TypeOK
      <3>3. pc' = [pc EXCEPT ![p] = "commit"] \/ pc' = Wake([pc EXCEPT ![p] = "out"])
        BY <1>2
      <3>4. Wake([pc EXCEPT ![p] = "out"]) \in [Proc -> {"out", "sleep", "ready", "in", "commit"}]
        BY <3>1, WakeFacts
      <3> HIDE DEF end_op, IInv
      <3> QED  BY <3>2, <3>3, <3>4, Zenon
    <2>2. committing' \in BOOLEAN  BY <1>2 DEF TypeOK
    <2>3. tail' \in Nat \ {0}  BY <1>2 DEF TypeOK
    <2> HIDE DEF end_op
    <2> QED  BY <1>4, <1>5, <1>6, <2>1, <2>2, <2>3 DEF TypeOK, disk, cached
  <1>8. Shape'
    <2>1. dhead' = <<>> /\ lh' = lh  BY <1>2, <1>5 DEF Shape, disk
    <2>2. stage' = "write_log" => tail' = 1 /\ Len(lh) > 0  BY <1>2
    <2>3. stage' = "committed" => lh = <<>>  BY <1>2 DEF TypeOK
    <2> HIDE DEF end_op
    <2> QED  BY <1>6, <2>1, <2>2, <2>3, EmptyHeader DEF Shape, TypeOK
  <1>9. Counting'
    <2>1. CASE outstanding = 1
      <3>1. Active' = {}  BY <1>4, <2>1
      <3>2. committing' /\ stage' \in {"write_log", "committed"}  BY <1>2, <2>1
      <3> HIDE DEF end_op
      <3> QED  BY <1>4, <3>1, <3>2 DEF Counting, Committing, Running, Recovering
    <2>2. CASE outstanding # 1
      <3>1. Active' # {}  BY <1>4, <2>2
      <3>2. ~ committing' /\ stage' = "run"  BY <1>2, <2>2
      <3> HIDE DEF end_op
      <3> QED  BY <1>4, <3>1, <3>2 DEF Counting, Committing, Running, Recovering
    <2> QED  BY <2>1, <2>2
  <1>10. Contents'
    <2>1. stage' = "write_log" => tail' = 1  BY <1>2
    <2> QED  BY <1>2, <1>5, <1>6, <2>1, SameContents
  <1>11. SleeperHasWaker'
    <2>1. CASE outstanding = 1  BY <1>2, <2>1 DEF SleeperHasWaker
    <2>2. CASE outstanding # 1
      <3>1. outstanding' > 0  BY <1>4, <2>2 DEF TypeOK
      <3> QED  BY <3>1 DEF SleeperHasWaker
    <2> QED  BY <2>1, <2>2
  <1> QED  BY <1>1, <1>2, <1>3, <1>5, <1>6, <1>7, <1>8, <1>9, <1>10, <1>11

\* The commit is over: the transaction is home and its header erased.
LEMMA EndCommitStep ==
    ASSUME IInv, NEW p \in Proc, end_commit(p)
    PROVE  IInv' /\ Active' = Active /\ UNCHANGED <<disk, cached>> /\ Running /\ stage' = "run"
  <1> USE DEF IInv, end_commit
  <1>1. [pc EXCEPT ![p] = "out"] \in [Proc -> {"out", "sleep", "ready", "in", "commit"}]
    BY DEF TypeOK
  <1>2. /\ pc' \in [Proc -> {"out", "sleep", "ready", "in", "commit"}]
        /\ \A x \in Proc : pc'[x] # "sleep"
        /\ \A x \in Proc : pc'[x] = "in" <=> [pc EXCEPT ![p] = "out"][x] = "in"
    BY <1>1, WakeFacts
  <1>3. Active' = Active  BY <1>2 DEF Active, TypeOK
  <1>4. TypeOK'  BY <1>2 DEF TypeOK, disk, cached
  <1>5. Shape'  BY DEF Shape, Inj, Fits, disk
  <1>6. Counting'
    BY <1>3, EmptyHeader DEF Counting, Shape, Running, Recovering, Committing
  <1>7. Contents'  BY SameContents DEF disk, cached
  <1>8. SleeperHasWaker'  BY <1>2 DEF SleeperHasWaker
  <1> QED  BY <1>3, <1>4, <1>5, <1>6, <1>7, <1>8 DEF Running, Recovering

\* One block of the transaction goes to the log.
LEMMA WriteLogStep ==
    ASSUME IInv, write_log
    PROVE  /\ IInv' /\ Active' = Active /\ UNCHANGED <<home, dhead>> /\ dhead = <<>>
           /\ stage' \in {"write_log", "write_head"}
           /\ \A x \in Block : View(x)' = View(x)
  <1> USE DEF IInv, write_log, log, procs
  <1>1. tail \in 1..Len(lh) /\ tail \in LogSlot /\ lh[tail] \in Block
    BY LogAssumption DEF Shape, Fits, LogSlot, TypeOK
  <1>2. View(lh[tail]) \in Value  BY <1>1 DEF View, TypeOK
  <1>3. \A x \in Block : View(x)' = View(x)
    BY <1>1, <1>2, LogAssumption DEF View, TypeOK
  <1>4. stage' = (IF tail = Len(lh) THEN "write_head" ELSE "write_log") /\ tail' = tail + 1
    OBVIOUS
  <1>5. TypeOK'
    <2>1. cache' \in [Block -> Value \cup {NotCached}] /\ logb' \in [LogSlot -> Value]
      BY <1>1, <1>2 DEF TypeOK
    <2>2. tail' \in Nat \ {0}  BY <1>1
    <2> QED  BY <1>4, <2>1, <2>2 DEF TypeOK
  <1>6. Shape'  BY <1>1, <1>4 DEF Shape, Inj, Fits, TypeOK
  <1>7. Active' = Active /\ Counting'
    BY <1>4 DEF Counting, Active, Committing, Running, Recovering
  <1>8. Contents'
    <2>1. \A x \in Block : Dirty(x)' = Dirty(x)
      BY <1>4 DEF Dirty, Running, Recovering, Installed
    <2>2. \A i \in 1..Len(lh) : View(lh[i])' = View(lh[i])  BY <1>3 DEF TypeOK
    <2>3. \A i \in 1..tail : logb'[i] = View(lh[i])
      BY <1>1, LogAssumption DEF Contents, TypeOK, LogSlot, Shape, Fits
    <2>4. \A x \in Block : IF Dirty(x) THEN cache'[x] # NotCached /\ pins[x] = 1
                           ELSE cache'[x] \in {NotCached, home[x]} /\ pins[x] = 0
      <3>1. Dirty(lh[tail])  BY <1>1 DEF Dirty, Running, Recovering, Installed
      <3> QED  BY <1>1, <1>2, <3>1, LogAssumption DEF Contents, TypeOK
    <2>5. \A i \in 1..tail : logb'[i] = View(lh[i])'  BY <1>1, <2>2, <2>3
    <2> QED  BY <1>1, <1>4, <2>1, <2>4, <2>5 DEF Contents, TypeOK
  <1>9. SleeperHasWaker'  BY SMTT(30), ZenonT(30), <1>4 DEF SleeperHasWaker, Running, Recovering
  <1> QED  BY <1>3, <1>4, <1>5, <1>6, <1>7, <1>8, <1>9 DEF Shape

\* The header is written: the transaction is committed.
LEMMA WriteHeadStep ==
    ASSUME IInv, write_head
    PROVE  /\ IInv' /\ Active' = Active /\ Active = {} /\ dhead = <<>> /\ dhead' = lh
           /\ UNCHANGED <<home, logb, cached>>
           /\ \A i \in 1..Len(lh) : logb[i] = View(lh[i])
  <1> USE DEF IInv, write_head, log, procs, cached
  <1>1. TypeOK'  BY DEF TypeOK
  <1>2. Active' = Active /\ Active = {}  BY DEF Active, Counting, Committing
  <1>3. stage' = "install" /\ tail' = 1  OBVIOUS
  <1>4. Shape'  BY <1>3 DEF Shape, Inj, Fits, TypeOK
  <1>5. Counting'  BY <1>2, <1>3 DEF Counting, Committing, Running, Recovering
  <1>6. Contents'
    <2>1. \A x \in Block : Dirty(x)' = Dirty(x)
      BY <1>3 DEF Dirty, Running, Recovering, Installed
    <2> QED  BY <1>3, <2>1 DEF Contents, View, TypeOK
  <1>7. SleeperHasWaker'  BY <1>3 DEF SleeperHasWaker, Running, Recovering
  <1> QED  BY <1>1, <1>2, <1>4, <1>5, <1>6, <1>7 DEF Shape, Contents

\* One block of a committed transaction goes home and is unpinned.
LEMMA InstallStep ==
    ASSUME IInv, install_trans
    PROVE  /\ IInv' /\ Active' = Active /\ UNCHANGED <<logb, dhead>>
           /\ dhead = lh /\ tail \in 1..Len(lh)
           /\ home' = [home EXCEPT ![lh[tail]] = logb[tail]]
           /\ stage' \in {"install", "erase"}
           /\ \A x \in Block : View(x)' = View(x)
  <1> USE DEF IInv, install_trans, log, procs
  <1>1. tail \in 1..Len(lh) /\ tail \in LogSlot /\ lh[tail] \in Block
    BY LogAssumption DEF Shape, Fits, LogSlot, TypeOK
  <1>2. logb[tail] \in Value /\ logb[tail] = View(lh[tail])  BY <1>1 DEF Contents, TypeOK
  <1>3. \A x \in Block : View(x)' = View(x)
    BY <1>1, <1>2, LogAssumption DEF View, TypeOK
  <1>4. stage' = (IF tail = Len(lh) THEN "erase" ELSE "install") /\ tail' = tail + 1
    OBVIOUS
  <1>a. Dirty(lh[tail])  BY <1>1 DEF Dirty, Running, Recovering, Installed
  <1>b. pins[lh[tail]] = 1  BY <1>1, <1>a DEF Contents
  <1>5. TypeOK'
    <2>1. cache' \in [Block -> Value \cup {NotCached}] /\ home' \in [Block -> Value]
      BY <1>1, <1>2 DEF TypeOK
    <2>2. pins' \in [Block -> Nat]  BY <1>1, <1>b DEF TypeOK
    <2>3. tail' \in Nat \ {0}  BY <1>1
    <2> QED  BY <1>4, <2>1, <2>2, <2>3 DEF TypeOK
  <1>6. Shape'  BY <1>1, <1>4 DEF Shape, Inj, Fits, TypeOK
  <1>7. Active' = Active /\ Counting'
    BY <1>4 DEF Counting, Active, Committing, Running, Recovering
  <1>8. Contents'
    <2>1. \A x \in Block : Dirty(x)' <=> Dirty(x) /\ x # lh[tail]
      <3>1. \A i \in 1..Len(lh) : Installed(i)' <=> Installed(i) \/ i = tail
        BY <1>1, <1>4 DEF Installed, TypeOK
      <3>2. \A i \in 1..Len(lh) : lh[i] = lh[tail] => i = tail  BY <1>1 DEF Shape, Inj
      <3> QED  BY <1>1, <1>4, <3>1, <3>2 DEF Dirty, Running, Recovering
    <2>2. \A i \in 1..Len(lh) : logb[i] = View(lh[i])'  BY <1>3 DEF Contents, TypeOK
    <2>3. \A i \in 1..tail : home'[lh[i]] = logb[i]
      <3>1. \A i \in 1..(tail - 1) : lh[i] # lh[tail] /\ lh[i] \in Block
        BY <1>1 DEF Shape, Inj, TypeOK
      <3> QED  BY <1>1, <3>1 DEF Contents, TypeOK
    <2>4. \A x \in Block : IF Dirty(x)' THEN cache'[x] # NotCached /\ pins'[x] = 1
                           ELSE cache'[x] \in {NotCached, home'[x]} /\ pins'[x] = 0
      BY <1>1, <1>b, <2>1, LogAssumption DEF Contents, TypeOK
    <2> QED  BY <1>1, <1>4, <2>2, <2>3, <2>4 DEF Contents, TypeOK
  <1>9. SleeperHasWaker'  BY SMTT(30), ZenonT(30), <1>4 DEF SleeperHasWaker, Running, Recovering
  <1> QED  BY <1>1, <1>3, <1>4, <1>5, <1>6, <1>7, <1>8, <1>9 DEF Shape

\* The header is erased when every block is home.
LEMMA EraseStep ==
    ASSUME IInv, erase
    PROVE  /\ IInv' /\ Active' = Active /\ UNCHANGED <<home, logb, cached>>
           /\ dhead = lh /\ dhead' = <<>> /\ stage' = "committed"
           /\ \A i \in 1..Len(dhead) : home[dhead[i]] = logb[i]
           /\ \A x \in Block : View(x)' = View(x) /\ View(x)' = home[x]
  <1> USE DEF IInv, erase, procs, cached
  <1>1. TypeOK'  BY EmptyHeader DEF TypeOK
  <1>2. Shape'  BY EmptyHeader DEF Shape
  <1>3. Active' = Active /\ Counting'
    BY DEF Counting, Active, Committing, Running, Recovering
  <1>4. \A x \in Block : ~ Dirty(x) /\ ~ Dirty(x)'
    BY SMTT(30), ZenonT(30), EmptyHeader DEF Dirty, Running, Recovering, Installed
  <1>5. Contents'  BY <1>4 DEF Contents
  <1>6. SleeperHasWaker'  BY DEF SleeperHasWaker, Running, Recovering
  <1>7. \A x \in Block : View(x)' = View(x) /\ View(x)' = home[x]
    BY <1>4, LogAssumption DEF View, Contents
  <1> QED  BY SMTT(10), ZenonT(60), <1>1, <1>2, <1>3, <1>5, <1>6, <1>7 DEF Shape, Contents

\* A crash leaves the disk and nothing else.
LEMMA CrashStep ==
    ASSUME IInv, Crash
    PROVE  IInv' /\ Active' = {} /\ UNCHANGED disk /\ Recovering'
  <1> USE DEF IInv, Crash, disk
  <1>1. TypeOK'
    <2>1. cache' \in [Block -> Value \cup {NotCached}] /\ pins' \in [Block -> Nat]  OBVIOUS
    <2>2. pc' \in [Proc -> {"out", "sleep", "ready", "in", "commit"}]
       /\ wrote' \in [Proc -> SUBSET Block]
      OBVIOUS
    <2>3. committing' \in BOOLEAN  OBVIOUS
    <2> QED  BY <2>1, <2>2, <2>3, EmptyHeader DEF TypeOK
  <1>2. Shape'  BY EmptyHeader DEF Shape
  <1>3. Active' = {}  BY DEF Active
  <1>4. Counting'  BY <1>3, FS_EmptySet DEF Counting, Committing, Running, Recovering
  <1>5. Contents'  BY DEF Contents, Dirty, Running, Recovering
  <1>6. SleeperHasWaker'  BY DEF SleeperHasWaker, Running, Recovering
  <1> QED  BY <1>1, <1>2, <1>3, <1>4, <1>5, <1>6 DEF Recovering

\* The header in memory is the one on disk.
LEMMA ReadHeadStep ==
    ASSUME IInv, read_head
    PROVE  IInv' /\ Active' = Active /\ UNCHANGED disk /\ Recovering /\ Recovering'
  <1> USE DEF IInv, read_head, disk, cached, procs
  <1>1. stage' \in {"recover", "clear"} /\ tail' = 1  BY DEF Shape
  <1>2. TypeOK'  BY <1>1 DEF TypeOK
  <1>3. Shape'  BY <1>1, EmptyHeader DEF Shape, TypeOK
  <1>4. Active' = Active /\ Counting'
    BY <1>1 DEF Counting, Active, Committing, Running, Recovering
  <1>5. Contents'  BY SMTT(60), <1>1 DEF Contents, Dirty, Running, Recovering, TypeOK
  <1>6. SleeperHasWaker'  BY <1>1 DEF SleeperHasWaker, Running, Recovering
  <1> QED  BY <1>1, <1>2, <1>3, <1>4, <1>5, <1>6 DEF Recovering

\* Recovery takes one block home.
LEMMA RecoverStep ==
    ASSUME IInv, recover
    PROVE  /\ IInv' /\ Active' = Active /\ UNCHANGED <<logb, dhead>>
           /\ dhead = lh /\ tail \in 1..Len(lh)
           /\ home' = [home EXCEPT ![lh[tail]] = logb[tail]]
           /\ Recovering /\ Recovering'
  <1> USE DEF IInv, recover, log, procs
  <1>1. tail \in 1..Len(lh) /\ tail \in LogSlot /\ lh[tail] \in Block
    BY LogAssumption DEF Shape, Fits, LogSlot, TypeOK
  <1>2. logb[tail] \in Value  BY <1>1 DEF TypeOK
  <1>4. stage' = (IF tail = Len(lh) THEN "clear" ELSE "recover") /\ tail' = tail + 1
    OBVIOUS
  <1>5. TypeOK'
    <2>1. cache' \in [Block -> Value \cup {NotCached}] /\ home' \in [Block -> Value]
      BY <1>1, <1>2 DEF TypeOK
    <2>2. tail' \in Nat \ {0}  BY <1>1
    <2> QED  BY <1>4, <2>1, <2>2 DEF TypeOK
  <1>6. Shape'  BY <1>1, <1>4 DEF Shape, Inj, Fits, TypeOK
  <1>7. Active' = Active /\ Counting'
    BY <1>4 DEF Counting, Active, Committing, Running, Recovering
  <1>8. Contents'
    <2>1. \A x \in Block : ~ Dirty(x) /\ ~ Dirty(x)'
      BY <1>4 DEF Dirty, Running, Recovering
    <2>2. \A i \in 1..tail : home'[lh[i]] = logb[i]
      <3>1. \A i \in 1..(tail - 1) : lh[i] # lh[tail] /\ lh[i] \in Block
        BY <1>1 DEF Shape, Inj, TypeOK
      <3> QED  BY SMTT(60), <1>1, <3>1 DEF Contents, TypeOK
    <2> QED  BY SMTT(60), <1>1, <1>4, <2>1, <2>2 DEF Contents, TypeOK
  <1>9. SleeperHasWaker'  BY SMTT(30), ZenonT(30), <1>4 DEF SleeperHasWaker, Running, Recovering
  <1> QED  BY <1>1, <1>4, <1>5, <1>6, <1>7, <1>8, <1>9 DEF Shape, Recovering

\* The header is cleared when every block is home.
LEMMA ClearStep ==
    ASSUME IInv, clear
    PROVE  /\ IInv' /\ Active' = Active /\ UNCHANGED <<home, logb, cached>>
           /\ dhead' = <<>> /\ Recovering /\ ~ Recovering'
           /\ \A i \in 1..Len(dhead) : home[dhead[i]] = logb[i]
           /\ \A x \in Block : View(x)' = home[x]
  <1> USE DEF IInv, clear, procs, cached
  <1>1. TypeOK'  BY EmptyHeader DEF TypeOK
  <1>2. Shape'  BY EmptyHeader DEF Shape
  <1>3. Active' = Active /\ Counting'
    BY DEF Counting, Active, Committing, Running, Recovering
  <1>4. \A x \in Block : ~ Dirty(x) /\ ~ Dirty(x)'
    BY SMTT(30), ZenonT(30), EmptyHeader DEF Dirty, Running, Recovering, Installed
  <1>5. Contents'  BY <1>4 DEF Contents
  <1>6. SleeperHasWaker'  BY DEF SleeperHasWaker, Running, Recovering, Counting
  <1>7. \A x \in Block : View(x)' = home[x]
    BY <1>4, LogAssumption DEF View, Contents
  <1> QED  BY SMTT(10), ZenonT(60), <1>1, <1>2, <1>3, <1>5, <1>6, <1>7 DEF Shape, Contents, Recovering

\* IInv is inductive.
LEMMA NextIInv == IInv /\ [Next]_vars => IInv'
  <1> SUFFICES ASSUME IInv, [Next]_vars PROVE IInv'  OBVIOUS
  <1>1. ASSUME NEW p \in Proc, NEW b \in Block, NEW v \in Value, log_write(p, b, v) PROVE IInv'
    <2>1. CASE stage' # "panic"  BY <1>1, <2>1, WriteStep
    <2>2. CASE stage' = "panic"
      <3>1. Running /\ pc[p] = "in" /\ Panic  BY <1>1, <2>2 DEF log_write, Running
      <3>2. p \in Active /\ ~ committing
        BY <3>1 DEF IInv, Counting, Active, Running
      <3> QED  BY <3>1, <3>2, PanicStep
    <2> QED  BY <2>1, <2>2
  <1>2. CASE UNCHANGED vars
    <2>1. TypeOK'  BY <1>2 DEF vars, IInv, TypeOK
    <2>2. Shape'  BY <1>2 DEF vars, IInv, Shape, Inj, Fits
    <2>3. Counting'  BY <1>2, Zenon DEF vars, IInv, Counting, Active, Running, Recovering
    <2>4. Contents'
      <3>1. \A b \in Block : (Dirty(b)' <=> Dirty(b)) /\ View(b)' = View(b)
        BY <1>2 DEF vars, Dirty, Installed, View, Running, Recovering
      <3>2. Contents  BY DEF IInv
      <3>3. UNCHANGED <<stage, tail, lh, logb, home, cache, pins>>  BY <1>2 DEF vars
      <3>4. /\ stage' = "write_log" => \A i \in 1..(tail' - 1) : logb'[i] = View(lh[i])'
            /\ stage' \in {"write_head", "install", "erase"} =>
                 \A i \in 1..Len(lh') : logb'[i] = View(lh[i])'
        BY <3>2, <3>3 DEF Contents, View
      <3>5. stage' # "panic" => \A b \in Block :
              IF Dirty(b)' THEN cache'[b] # NotCached /\ pins'[b] = 1
                           ELSE cache'[b] \in {NotCached, home'[b]} /\ pins'[b] = 0
        BY <3>1, <3>2, <3>3 DEF Contents
      <3>6. /\ stage' \in {"install", "recover"} => \A i \in 1..(tail' - 1) : home'[lh'[i]] = logb'[i]
            /\ stage' \in {"erase", "clear"} => \A i \in 1..Len(lh') : home'[lh'[i]] = logb'[i]
        BY <3>2, <3>3 DEF Contents
      <3> QED  BY <3>4, <3>5, <3>6, Zenon DEF Contents
    <2>5. SleeperHasWaker'  BY <1>2, Zenon DEF vars, IInv, SleeperHasWaker, Running, Recovering
    <2> QED  BY <2>1, <2>2, <2>3, <2>4, <2>5 DEF IInv
  <1> QED  BY <1>1, <1>2, BreadStep, RecycleStep, BeginStep, EndStep, EndCommitStep, WriteLogStep,
              WriteHeadStep, InstallStep, EraseStep, CrashStep, ReadHeadStep, RecoverStep, ClearStep
           DEF Next

(***************************************************************************)
(* The invariants                                                          *)
(***************************************************************************)

\* The inductive invariant holds throughout.
THEOREM LogInvariant == Spec => []IInv
  <1> QED  BY InitIInv, NextIInv, PTL DEF Spec

\* Type correctness of the log for any number of blocks and processes.
THEOREM LogTypeOK == Spec => []TypeOK
  <1>1. IInv => TypeOK  BY DEF IInv
  <1> QED  BY <1>1, LogInvariant, PTL

\* Nobody sleeps in begin_op without a call or a commit that will wake it.
THEOREM LogSleeperHasWaker == Spec => []SleeperHasWaker
  <1>1. IInv => SleeperHasWaker  BY DEF IInv
  <1> QED  BY <1>1, LogInvariant, PTL

\* Logged blocks fit the log on disk and its header, and are pinned exactly until
\* they are home.
THEOREM LogLoggedPinned == Spec => []LoggedPinned
  <1>1. IInv => LoggedPinned
    BY DEF IInv, LoggedPinned, Shape, Fits, Contents, Dirty, Running, Installed
  <1> QED  BY <1>1, LogInvariant, PTL

(***************************************************************************)
(* Refinement                                                              *)
(***************************************************************************)

\* A block of the transaction on disk is recovered from its log block.
LEMMA DurableLogged ==
    ASSUME dhead \in Seq(Block), Inj(dhead)
    PROVE  \A i \in 1..Len(dhead) : Durable[dhead[i]] = logb[i]
  <1> TAKE i \in 1..Len(dhead)
  <1>1. dhead[i] \in Block /\ dhead[i] \in Blocks(dhead)  BY DEF Blocks
  <1>2. (CHOOSE k \in 1..Len(dhead) : dhead[k] = dhead[i]) = i  BY DEF Inj
  <1> QED  BY <1>1, <1>2 DEF Durable

\* Other blocks are recovered from their home locations.
LEMMA DurableHome ==
    /\ \A b \in Block : b \notin Blocks(dhead) => Durable[b] = home[b]
    /\ dhead = <<>> => \A b \in Block : Durable[b] = home[b]
    /\ Durable = [b \in Block |-> Durable[b]]
  BY EmptyHeader DEF Durable, Blocks

\* Taking a block of the transaction on disk home changes nothing.
LEMMA InstallDurable ==
    ASSUME TypeOK, Inj(dhead), NEW i \in 1..Len(dhead),
           home' = [home EXCEPT ![dhead[i]] = logb[i]], UNCHANGED <<logb, dhead>>
    PROVE  Durable' = Durable
  <1>1. \A b \in Block : b \notin Blocks(dhead) => home'[b] = home[b]
    BY DEF TypeOK, Blocks
  <1> QED  BY <1>1 DEF Durable

\* Erasing the header changes nothing once every block is home.
LEMMA EraseDurable ==
    ASSUME dhead \in Seq(Block), Inj(dhead), UNCHANGED <<home, logb>>, dhead' = <<>>,
           \A i \in 1..Len(dhead) : home[dhead[i]] = logb[i]
    PROVE  Durable' = Durable
  <1>1. \A b \in Block : Durable[b] = home[b]
    BY DurableLogged, DurableHome DEF Blocks
  <1>2. \A b \in Block : Durable'[b] = home[b]
    <2>1. Blocks(dhead)' = {}  BY EmptyHeader DEF Blocks
    <2> QED  BY <2>1 DEF Durable
  <1>3. Durable = [b \in Block |-> home[b]]  BY <1>1, DurableHome
  <1>4. Durable' = [b \in Block |-> home[b]]  BY <1>2 DEF Durable
  <1> QED  BY <1>3, <1>4

\* While the machine runs, the calls see what the cache returns.
LEMMA SameView ==
    ASSUME ~ Recovering, ~ Recovering', \A x \in Block : View(x)' = View(x)
    PROVE  Current' = Current
  <1>1. Current = [b \in Block |-> View(b)]  BY DEF Current
  <1>2. Current' = [b \in Block |-> View(b)']  BY DEF Current
  <1> QED  BY <1>1, <1>2

\* Every step of the log is a step of TransDisk or changes nothing of it.
LEMMA NextTD == IInv /\ [Next]_vars => [TD!Next]_(TD!tvars)
  <1> SUFFICES ASSUME IInv, [Next]_vars PROVE TD!Next \/ UNCHANGED <<Durable, Current, Active>>
    BY DEF TD!tvars
  <1> USE DEF TD!Next
  <1>0. dhead \in Seq(Block) /\ Inj(dhead) /\ TypeOK  BY DEF IInv, TypeOK, Shape
  <1>a. UNCHANGED disk => UNCHANGED Durable  BY DEF disk, Durable
  <1>1. ASSUME NEW b \in Block, bread(b) PROVE UNCHANGED <<Durable, Current, Active>>
    <2>1. UNCHANGED <<disk, Active>> /\ ~ Recovering /\ ~ Recovering'
      BY <1>1 DEF bread, Active, procs, Running, Recovering
    <2> QED  BY <1>1, <1>a, <2>1, BreadStep, SameView
  <1>2. ASSUME NEW b \in Block, Recycle(b) PROVE UNCHANGED <<Durable, Current, Active>>
    <2>1. UNCHANGED <<disk, Active, stage>>  BY <1>2 DEF Recycle, Active, procs
    <2>2. CASE Recovering  BY <1>a, <2>1, <2>2 DEF Current, Recovering
    <2>3. CASE ~ Recovering
      <3>1. ~ Recovering'  BY <2>1, <2>3 DEF Recovering
      <3> QED  BY <1>2, <1>a, <2>1, <2>3, <3>1, RecycleStep, SameView
    <2> QED  BY <2>2, <2>3
  <1>3. ASSUME NEW p \in Proc, begin_op(p)
        PROVE  TD!Begin(p) \/ UNCHANGED <<Durable, Current, Active>>
    <2>1. UNCHANGED <<disk, cached, stage>> /\ ~ Recovering /\ ~ Recovering'
      BY <1>3 DEF begin_op, Running, Recovering
    <2>2. UNCHANGED Current  BY <2>1, SameView DEF View, disk, cached
    <2> QED  BY <1>3, <1>a, <2>1, <2>2, BeginStep DEF TD!Begin
  <1>4. ASSUME NEW p \in Proc, NEW b \in Block, NEW v \in Value, log_write(p, b, v)
        PROVE  TD!Update(p, b, v) \/ UNCHANGED <<Durable, Current, Active>>
    <2>1. CASE stage' # "panic"
      <3>1. /\ UNCHANGED disk /\ stage = "run" /\ stage' = "run" /\ p \in Active
            /\ UNCHANGED Active
            /\ \A x \in Block : View(x)' = IF x = b THEN v ELSE View(x)
        BY <1>4, <2>1, WriteStep
      <3>2. Current = [x \in Block |-> View(x)] /\ Current' = [x \in Block |-> View(x)']
        BY <3>1 DEF Current, Recovering
      <3>3. Current' = [Current EXCEPT ![b] = v]  BY <3>1, <3>2
      <3> QED  BY <1>a, <3>1, <3>3 DEF TD!Update
    <2>2. CASE stage' = "panic"
      <3>1. Running /\ pc[p] = "in" /\ Panic  BY <1>4, <2>2 DEF log_write, Running
      <3>2. ~ committing  BY <3>1 DEF IInv, Counting, Active, Running
      <3>3. stage = "run" /\ UNCHANGED <<Active, disk, cached>>  BY <3>1, <3>2, PanicStep
      <3>4. UNCHANGED Current
        BY <2>2, <3>3, SameView DEF Recovering, View, disk, cached
      <3> QED  BY <1>a, <3>3, <3>4
    <2> QED  BY <2>1, <2>2
  <1>5. ASSUME NEW p \in Proc, end_op(p) PROVE TD!End(p)
    <2>1. /\ UNCHANGED <<disk, cached>> /\ ~ Recovering /\ ~ Recovering'
          /\ p \in Active /\ Active' = Active \ {p}
      BY <1>5, EndStep DEF Running, Recovering
    <2>2. UNCHANGED Current  BY <2>1, SameView DEF View, disk, cached
    <2> QED  BY <1>a, <2>1, <2>2 DEF TD!End
  <1>6. ASSUME NEW p \in Proc, end_commit(p) PROVE UNCHANGED <<Durable, Current, Active>>
    <2>1. UNCHANGED <<disk, cached, Active>> /\ ~ Recovering /\ ~ Recovering'
      BY <1>6, EndCommitStep DEF Running, Recovering
    <2>2. UNCHANGED Current  BY <2>1, SameView DEF View, disk, cached
    <2> QED  BY <1>a, <2>1, <2>2
  <1>7. ASSUME write_log PROVE UNCHANGED <<Durable, Current, Active>>
    <2>1. /\ UNCHANGED <<home, dhead, Active>> /\ dhead = <<>>
          /\ ~ Recovering /\ ~ Recovering' /\ \A x \in Block : View(x)' = View(x)
      BY <1>7, WriteLogStep DEF write_log, Recovering
    <2>2. UNCHANGED Durable  BY <2>1, EmptyHeader DEF Durable, Blocks
    <2> QED  BY <2>1, <2>2, SameView
  <1>8. ASSUME write_head PROVE TD!Commit
    <2>1. /\ Active' = Active /\ Active = {} /\ dhead = <<>> /\ dhead' = lh
          /\ UNCHANGED <<home, logb, cached>> /\ IInv'
          /\ \A i \in 1..Len(lh) : logb[i] = View(lh[i])
      BY <1>8, WriteHeadStep
    <2>2. ~ Recovering /\ ~ Recovering'  BY <1>8 DEF write_head, Recovering
    <2>3. \A x \in Block : View(x)' = View(x)  BY <2>1 DEF View, cached
    <2>4. \A x \in Block : x \notin Blocks(lh) => View(x) = home[x]
      <3>1. \A x \in Block : x \notin Blocks(lh) => ~ Dirty(x)  BY DEF Dirty, Blocks
      <3>2. stage # "panic"  BY <1>8 DEF write_head
      <3>3. \A x \in Block : ~ Dirty(x) => cache[x] \in {NotCached, home[x]}
        BY <3>2 DEF IInv, Contents
      <3> QED  BY <3>1, <3>3 DEF View
    <2>5. Durable' = [b \in Block |-> View(b)]
      <3>1. lh \in Seq(Block) /\ Inj(lh)  BY DEF IInv, TypeOK, Shape
      <3>2. ASSUME NEW b \in Block
            PROVE  (IF b \in Blocks(lh) THEN logb[CHOOSE i \in 1..Len(lh) : lh[i] = b]
                    ELSE home[b]) = View(b)
        <4>1. CASE b \in Blocks(lh)
          <5>1. PICK i \in 1..Len(lh) : lh[i] = b  BY <4>1 DEF Blocks
          <5>2. (CHOOSE k \in 1..Len(lh) : lh[k] = b) = i  BY <3>1, <5>1 DEF Inj
          <5> QED  BY <2>1, <4>1, <5>1, <5>2
        <4>2. CASE b \notin Blocks(lh)  BY <2>4, <4>2
        <4> QED  BY <4>1, <4>2
      <3> QED  BY <2>1, <3>2 DEF Durable
    <2>6. Current = [b \in Block |-> View(b)]  BY <2>2 DEF Current
    <2> QED  BY <2>1, <2>2, <2>3, <2>5, <2>6, SameView DEF TD!Commit
  <1>9. ASSUME install_trans PROVE UNCHANGED <<Durable, Current, Active>>
    <2>1. /\ UNCHANGED <<logb, dhead, Active>> /\ dhead = lh /\ tail \in 1..Len(lh)
          /\ home' = [home EXCEPT ![lh[tail]] = logb[tail]]
          /\ stage' \in {"install", "erase"}
          /\ \A x \in Block : View(x)' = View(x)
      BY <1>9, InstallStep
    <2>2. ~ Recovering /\ ~ Recovering'  BY <1>9, <2>1 DEF install_trans, Recovering
    <2>3. UNCHANGED Durable  BY <1>0, <2>1, InstallDurable
    <2> QED  BY <2>1, <2>2, <2>3, SameView
  <1>10. ASSUME erase PROVE UNCHANGED <<Durable, Current, Active>>
    <2>1. /\ UNCHANGED <<home, logb, Active>> /\ dhead' = <<>> /\ stage' = "committed"
          /\ \A i \in 1..Len(dhead) : home[dhead[i]] = logb[i]
          /\ \A x \in Block : View(x)' = View(x)
      BY <1>10, EraseStep
    <2>2. ~ Recovering /\ ~ Recovering'  BY <1>10, <2>1 DEF erase, Recovering
    <2>3. UNCHANGED Durable  BY <1>0, <2>1, EraseDurable
    <2> QED  BY <2>1, <2>2, <2>3, SameView
  <1>11. ASSUME Crash PROVE TD!Crash
    <2>1. UNCHANGED disk /\ Active' = {} /\ Recovering'  BY <1>11, CrashStep
    <2>2. Durable' = Durable /\ Current' = Durable'  BY <1>a, <2>1 DEF Current
    <2> QED  BY <2>1, <2>2 DEF TD!Crash
  <1>12. ASSUME read_head PROVE UNCHANGED <<Durable, Current, Active>>
    BY <1>12, <1>a, ReadHeadStep DEF Current
  <1>13. ASSUME recover PROVE UNCHANGED <<Durable, Current, Active>>
    <2>1. /\ UNCHANGED <<logb, dhead, Active>> /\ dhead = lh /\ tail \in 1..Len(lh)
          /\ home' = [home EXCEPT ![lh[tail]] = logb[tail]]
          /\ Recovering /\ Recovering'
      BY <1>13, RecoverStep
    <2>2. UNCHANGED Durable  BY <1>0, <2>1, InstallDurable
    <2> QED  BY <2>1, <2>2 DEF Current
  <1>14. ASSUME clear PROVE UNCHANGED <<Durable, Current, Active>>
    <2>1. /\ UNCHANGED <<home, logb, Active>> /\ dhead' = <<>> /\ Recovering /\ ~ Recovering'
          /\ \A i \in 1..Len(dhead) : home[dhead[i]] = logb[i]
          /\ \A x \in Block : View(x)' = home[x]
      BY <1>14, ClearStep
    <2>2. UNCHANGED Durable  BY <1>0, <2>1, EraseDurable
    <2>3. \A x \in Block : Durable[x] = home[x]
      BY <1>0, <2>1, DurableLogged, DurableHome DEF Blocks
    <2>4. Current' = [b \in Block |-> home[b]]  BY <2>1 DEF Current
    <2>5. Current = [b \in Block |-> home[b]]  BY <2>1, <2>3, DurableHome DEF Current
    <2> QED  BY <2>1, <2>2, <2>4, <2>5
  <1>15. CASE UNCHANGED vars
    <2>1. UNCHANGED <<disk, cached, Active>> /\ (Recovering' <=> Recovering)
      BY <1>15 DEF vars, disk, cached, Active, Recovering
    <2>2. \A x \in Block : View(x)' = View(x)  BY <2>1 DEF View, disk, cached
    <2>3. UNCHANGED Durable  BY <1>a, <2>1
    <2>4. CASE Recovering  BY <2>1, <2>3, <2>4 DEF Current
    <2>5. CASE ~ Recovering  BY <2>1, <2>2, <2>3, <2>5, SameView
    <2> QED  BY <2>4, <2>5
  <1> HIDE DEF TD!Next
  <1> QED
    <2>1. CASE \E b \in Block : bread(b) \/ Recycle(b)  BY <2>1, <1>1, <1>2
    <2>2. CASE \E p \in Proc : begin_op(p) \/ end_op(p) \/ end_commit(p)
      BY <2>2, <1>3, <1>5, <1>6 DEF TD!Next
    <2>3. CASE \E p \in Proc, b \in Block, v \in Value : log_write(p, b, v)
      BY <2>3, <1>4 DEF TD!Next
    <2>4. CASE write_log \/ write_head \/ install_trans \/ erase
      BY <2>4, <1>7, <1>8, <1>9, <1>10 DEF TD!Next
    <2>5. CASE Crash \/ read_head \/ recover \/ clear
      BY <2>5, <1>11, <1>12, <1>13, <1>14 DEF TD!Next
    <2> QED  BY <1>15, <2>1, <2>2, <2>3, <2>4, <2>5 DEF Next

\* The log, the cache and the recovery are a transactional disk: calls commit all
\* together, and a crash at any moment loses nothing committed and keeps nothing else.
THEOREM LogImplementsTransDisk == Spec => ImplementsTransDisk
  <1>1. Init => TD!Init
    <2> SUFFICES ASSUME Init PROVE TD!Init  OBVIOUS
    <2>1. PICK v \in Value : home = [b \in Block |-> v]  BY DEF Init
    <2>2. Durable = [b \in Block |-> v]
      BY <2>1, EmptyHeader DEF Init, Durable, Blocks
    <2>3. Current = Durable  BY DEF Init, Current, Recovering
    <2>4. Active = {}  BY DEF Init, Active
    <2> QED  BY <2>2, <2>3, <2>4 DEF TD!Init
  <1> QED  BY <1>1, NextTD, LogInvariant, PTL DEF Spec, ImplementsTransDisk, TD!Spec

\* When the end_op that commits returns, all updates are durable and home.
THEOREM LogEndOpDurable == Spec => EndOpDurable
  <1>1. IInv /\ [Next]_vars
          => [\A p \in Proc : end_commit(p) => Durable = Current /\ Durable = home]_vars
    <2> SUFFICES ASSUME IInv, NEW p \in Proc, end_commit(p)
                 PROVE  Durable = Current /\ Durable = home
      OBVIOUS
    <2>1. stage = "committed" /\ dhead = <<>> /\ lh = <<>> /\ home \in [Block -> Value]
      BY DEF end_commit, IInv, Shape, TypeOK
    <2>2. Durable = [b \in Block |-> home[b]]  BY <2>1, DurableHome
    <2>3. \A b \in Block : View(b) = home[b]
      <3>1. \A b \in Block : ~ Dirty(b)  BY <2>1, EmptyHeader DEF Dirty
      <3>2. \A b \in Block : ~ Dirty(b) => cache[b] \in {NotCached, home[b]}
        BY <2>1 DEF IInv, Contents
      <3> QED  BY <3>1, <3>2 DEF View
    <2>4. Current = [b \in Block |-> home[b]]  BY <2>1, <2>3 DEF Current, Recovering
    <2> QED  BY <2>1, <2>2, <2>4
  <1> QED  BY <1>1, LogInvariant, PTL DEF Spec, EndOpDurable
=============================================================================
