---------------------------- MODULE JobQueueProofs ----------------------------
(***************************************************************************)
(* The job queue keeps its promises for any number of jobs, workers and    *)
(* slots, any lease and any stalls.                                        *)
(***************************************************************************)
EXTENDS JobQueue, TLAPS

LEMMA SlotType == Slot \subseteq Nat /\ \A s \in Slot : s >= 1
BY QueueAssumption DEF Slot

LEMMA BackoffType == \A n \in 1..MaxAttempts : RetryDelay(n) \in 0..BackoffCap
<1> TAKE n \in 1..MaxAttempts
<1>1. 2^(n - 1) \in Nat
  BY PowersAssumption
<1> DEFINE p == 2^(n - 1)
<1>2. p \in Nat
  BY <1>1
<1> HIDE DEF p
<1>3. BackoffBase * p \in Nat
  BY <1>2, QueueAssumption
<1> DEFINE d == BackoffBase * p
<1>4. d \in Nat
  BY <1>3
<1>5. RetryDelay(n) = IF d < BackoffCap THEN d ELSE BackoffCap
  BY DEF RetryDelay, p
<1> HIDE DEF d
<1> QED
  BY <1>4, <1>5, QueueAssumption

(* What the updates of a row return. *)
LEMMA RowUpdates ==
    ASSUME NEW r \in Row
    PROVE  /\ \A n \in 0..MaxAttempts, d \in 0..BackoffCap :
                 /\ Queued(r, n, d) \in Row
                 /\ Queued(r, n, d).status = "queued"
                 /\ Queued(r, n, d).attempts = n
           /\ \A st \in Terminal :
                 /\ Settled(r, st) \in Row
                 /\ Settled(r, st).status = st
                 /\ Settled(r, st).attempts = r.attempts
<1> USE QueueAssumption DEF Row
<1>0. 0 \in 0..LeaseTime /\ 0 \in 0..BackoffCap /\ NoWorker \in Worker \cup {NoWorker}
  OBVIOUS
<1>1. ASSUME NEW n \in 0..MaxAttempts, NEW d \in 0..BackoffCap
      PROVE  /\ Queued(r, n, d) \in Row
             /\ Queued(r, n, d).status = "queued"
             /\ Queued(r, n, d).attempts = n
  BY <1>0 DEF Queued
<1>2. ASSUME NEW st \in Terminal
      PROVE  /\ Settled(r, st) \in Row
             /\ Settled(r, st).status = st
             /\ Settled(r, st).attempts = r.attempts
  BY <1>0 DEF Settled, Terminal
<1> QED
  BY <1>1, <1>2

LEMMA NoRowType == NoRow \in Row /\ NoRow.status = "absent" /\ NoRow.attempts = 0
BY QueueAssumption DEF Row, NoRow

LEMMA UnclaimedType ==
    ASSUME TypeOK, NEW S, NEW how \in {"recovered", "overruled"}
    PROVE  Unclaimed(S, how) \in [Worker -> [Slot -> Task \cup {Idle}]]
BY DEF Unclaimed, TypeOK, Task, Idle, Holds

(* A task is unchanged by Unclaimed, or it held the claim of a job in S.   *)
LEMMA UnclaimedTask ==
    ASSUME TypeOK, NEW S, NEW how \in {"recovered", "overruled"},
           NEW w \in Worker, NEW s \in Slot
    PROVE  LET u == Unclaimed(S, how)[w][s] IN
           /\ u.stage = task[w][s].stage
           /\ (u = Idle) <=> (task[w][s] = Idle)
           /\ u # Idle => u.job = task[w][s].job /\ u.age = task[w][s].age
           /\ (~Holds(w, s) \/ task[w][s].job \notin S) => u = task[w][s]
           /\ Holds(w, s) /\ task[w][s].job \in S => u.claim = how
BY DEF Unclaimed, TypeOK, Task, Idle, Holds

-------------------------------------------------------------------------------

-------------------------------------------------------------------------------
(* Types.                                                                  *)

LEMMA LeasedType ==
    ASSUME NEW r \in Row, r.attempts < MaxAttempts,
           NEW w \in Worker, NEW left \in (LeaseTime - ClaimStall)..LeaseTime
    PROVE  /\ Leased(r, w, left) \in Row
           /\ Leased(r, w, left).status = "running"
           /\ Leased(r, w, left).owner = w
           /\ Leased(r, w, left).lease = left
           /\ Leased(r, w, left).attempts = r.attempts + 1
<1>1. left \in 0..LeaseTime
  BY QueueAssumption
<1>2. r.attempts + 1 \in 0..MaxAttempts
  BY QueueAssumption DEF Row
<1> QED
  BY <1>1, <1>2, QueueAssumption DEF Row, Leased

LEMMA QueueTypes ==
    ASSUME TypeOK, NEW j \in Job
    PROVE  /\ Enqueue(j) => TypeOK'
           /\ RetryFailed(j) => TypeOK'
           /\ Cleanup(j) => TypeOK'
<1>0. BackoffCap \in 0..BackoffCap /\ 0 \in 0..BackoffCap /\ 0 \in 0..MaxAttempts
  BY QueueAssumption
<1>1. ASSUME Enqueue(j) PROVE TypeOK'
  <2>1. PICK d \in {0, BackoffCap} : row' = [row EXCEPT ![j] = Queued(NoRow, 0, d)]
    BY <1>1 DEF Enqueue
  <2>2. Queued(NoRow, 0, d) \in Row
    BY <1>0, RowUpdates, NoRowType
  <2> QED
    BY <1>1, <2>1, <2>2 DEF Enqueue, TypeOK
<1>2. ASSUME RetryFailed(j) PROVE TypeOK'
  <2>1. Queued(row[j], 0, 0) \in Row
    BY <1>0, RowUpdates DEF TypeOK
  <2> QED
    BY <1>2, <2>1 DEF RetryFailed, TypeOK
<1>3. ASSUME Cleanup(j) PROVE TypeOK'
  BY <1>3, NoRowType DEF Cleanup, TypeOK
<1> QED
  BY <1>1, <1>2, <1>3

LEMMA ProcessTypes ==
    ASSUME TypeOK, NEW w \in Worker
    PROVE  Start(w) \/ Stop(w) \/ Drained(w) \/ Crash(w) => TypeOK'
BY ZenonT(60) DEF TypeOK, Start, Stop, Drained, Crash

LEMMA ClaimTypes ==
    ASSUME TypeOK, NEW w \in Worker, NEW j \in Job
    PROVE  /\ Claim(w, j) => TypeOK'
           /\ ClaimUnseen(w, j) => TypeOK'
<1>1. ASSUME Claim(w, j) PROVE TypeOK'
  <2>1. row' \in [Job -> Row]
    <3>1. PICK left \in (LeaseTime - ClaimStall)..LeaseTime :
             row' = [row EXCEPT ![j] = Leased(row[j], w, left)]
      BY <1>1 DEF Claim
    <3>2. Leased(row[j], w, left) \in Row
      BY <1>1, LeasedType DEF Claim, Due, TypeOK
    <3> QED
      BY <3>1, <3>2 DEF TypeOK
  <2>2. 0 \in 0..LeaseTime /\ 0 <= JobTimeout
    BY QueueAssumption
  <2>3. task' \in [Worker -> [Slot -> Task \cup {Idle}]]
    <3> DEFINE new == [stage |-> IF j \in Handled[w] THEN "running" ELSE "unhandled",
                       job |-> j, age |-> 0, claim |-> "held"]
    <3>1. new \in Task
      BY <2>2 DEF Task
    <3> HIDE DEF new
    <3>2. PICK s \in Slot : task' = [task EXCEPT ![w][s] = new]
      BY <1>1 DEF Claim, new
    <3> QED
      BY <3>1, <3>2 DEF TypeOK
  <2> QED
    BY <1>1, <2>1, <2>3 DEF Claim, TypeOK
<1>2. ASSUME ClaimUnseen(w, j) PROVE TypeOK'
  <2>1. LeaseTime \in (LeaseTime - ClaimStall)..LeaseTime
    BY QueueAssumption
  <2>2. row' \in [Job -> Row]
    <3>1. Leased(row[j], w, LeaseTime) \in Row
      BY <1>2, <2>1, LeasedType DEF ClaimUnseen, Due, TypeOK
    <3> QED
      BY <1>2, <3>1 DEF ClaimUnseen, TypeOK
  <2> QED
    BY <1>2, <2>2 DEF ClaimUnseen, TypeOK
<1> QED
  BY <1>1, <1>2

LEMMA TaskTypes ==
    ASSUME IInv, NEW w \in Worker, NEW s \in Slot
    PROVE  /\ Handle(w, s) => TypeOK'
           /\ Complete(w, s) => TypeOK'
           /\ Fail(w, s) => TypeOK'
           /\ AckLost(w, s) => TypeOK'
<1>t. TypeOK /\ \A i \in Job : row[i].status = "running" => row[i].attempts >= 1
  BY DEF IInv
<1>0. task[w][s] # Idle => task[w][s] \in Task /\ task[w][s].job \in Job
  BY <1>t DEF TypeOK, Task
<1>1. ASSUME Handle(w, s) PROVE TypeOK'
  <2>1. task[w][s] # Idle
    BY <1>1 DEF Handle, Idle
  <2>2. \A st \in {"ok", "error"} : [task[w][s] EXCEPT !.stage = st] \in Task
    BY <1>t, <1>0, <2>1 DEF Task
  <2>3. task' \in [Worker -> [Slot -> Task \cup {Idle}]]
    <3>1. PICK st \in {"ok", "error"} : task' = [task EXCEPT ![w][s].stage = st]
      BY <1>1 DEF Handle
    <3>2. task' = [task EXCEPT ![w][s] = [task[w][s] EXCEPT !.stage = st]]
      BY <3>1
    <3> QED
      BY <1>t, <2>2, <3>2 DEF TypeOK
  <2>4. returned' \in [Job -> BOOLEAN]
    BY <1>t, <1>0, <1>1, <2>1 DEF Handle, TypeOK
  <2> QED
    BY <1>t, <1>1, <2>3, <2>4 DEF Handle, TypeOK
<1> DEFINE j == task[w][s].job
<1>2. ASSUME Complete(w, s) PROVE TypeOK'
  <2>1. task[w][s] # Idle
    BY <1>2 DEF Complete, Idle
  <2>2. row' \in [Job -> Row]
    <3>1. Settled(row[j], "succeeded") \in Row
      BY <1>t, <1>0, <2>1, RowUpdates DEF TypeOK, Terminal
    <3> QED
      BY <1>t, <1>2, <3>1 DEF Complete, TypeOK
  <2>3. task' \in [Worker -> [Slot -> Task \cup {Idle}]]
    BY <1>t, <1>2, UnclaimedType DEF Complete, TypeOK
  <2> QED
    BY <1>t, <1>2, <2>2, <2>3 DEF Complete, TypeOK
<1>3. ASSUME Fail(w, s) PROVE TypeOK'
  <2>1. task[w][s] # Idle
    BY <1>3 DEF Fail, Idle
  <2>2. row' \in [Job -> Row]
    <3>1. row[j] \in Row /\ j \in Job
      BY <1>t, <1>0, <2>1 DEF TypeOK
    <3>2. Settled(row[j], "failed") \in Row
      BY <3>1, RowUpdates, SMTT(40) DEF Terminal
    <3>3. row[j].status = "running"
             => Queued(row[j], row[j].attempts, RetryDelay(row[j].attempts)) \in Row
      <4>1. row[j].status = "running" => row[j].attempts \in 1..MaxAttempts
        BY <1>t, <1>3, <3>1, QueueAssumption DEF Row
      <4> QED
        BY <3>1, <4>1, RowUpdates, BackoffType, QueueAssumption DEF Row
    <3> QED
      BY <1>t, <1>3, <3>1, <3>2, <3>3 DEF Fail, TypeOK, LeaseIsMine
  <2>3. task' \in [Worker -> [Slot -> Task \cup {Idle}]]
    BY <1>t, <1>3, UnclaimedType DEF Fail, TypeOK
  <2> QED
    BY <1>t, <1>3, <2>2, <2>3 DEF Fail, TypeOK
<1>4. ASSUME AckLost(w, s) PROVE TypeOK'
  BY <1>t, <1>4 DEF AckLost, TypeOK
<1> QED
  BY <1>1, <1>2, <1>3, <1>4

LEMMA RecoverTypes ==
    ASSUME TypeOK, NEW w \in Worker, Recover(w)
    PROVE  TypeOK'
<1>1. ASSUME NEW j \in Job
      PROVE  /\ Queued(row[j], row[j].attempts, 0) \in Row
             /\ Settled(row[j], "failed") \in Row
  <2>1. row[j] \in Row /\ row[j].attempts \in 0..MaxAttempts /\ 0 \in 0..BackoffCap
    BY QueueAssumption DEF TypeOK, Row
  <2> QED
    BY <2>1, RowUpdates DEF Terminal
<1>2. row' \in [Job -> Row]
  BY <1>1 DEF Recover, TypeOK
<1>3. task' \in [Worker -> [Slot -> Task \cup {Idle}]]
  BY UnclaimedType DEF Recover
<1> QED
  BY <1>2, <1>3 DEF Recover, TypeOK

LEMMA CountDownType ==
    ASSUME NEW m \in Nat, NEW n \in 0..m
    PROVE  CountDown(n) \in 0..m /\ CountDown(n) + 1 >= n
BY DEF CountDown

LEMMA TickRow ==
    ASSUME TypeOK, Tick, NEW j \in Job
    PROVE  /\ row'[j] \in Row
           /\ row'[j].status = row[j].status
           /\ row'[j].owner = row[j].owner
           /\ row'[j].attempts = row[j].attempts
           /\ row'[j].lease + 1 >= row[j].lease
<1>1. row[j] \in Row
  BY DEF TypeOK
<1>2. row'[j] = [row[j] EXCEPT !.lease = CountDown(row[j].lease),
                               !.delay = CountDown(row[j].delay)]
  BY DEF Tick
<1>3. /\ CountDown(row[j].lease) \in 0..LeaseTime
      /\ CountDown(row[j].lease) + 1 >= row[j].lease
      /\ CountDown(row[j].delay) \in 0..BackoffCap
  BY <1>1, CountDownType, QueueAssumption DEF Row
<1> QED
  BY <1>1, <1>2, <1>3 DEF Row

LEMMA TickTask ==
    ASSUME TypeOK, Tick, NEW w \in Worker, NEW s \in Slot
    PROVE  /\ task'[w][s] \in Task \cup {Idle}
           /\ task[w][s] = Idle <=> task'[w][s] = Idle
           /\ task[w][s] # Idle =>
                 /\ task'[w][s].stage = task[w][s].stage
                 /\ task'[w][s].job = task[w][s].job
                 /\ task'[w][s].claim = task[w][s].claim
                 /\ task'[w][s].age = Older(task[w][s].age)
<1>1. CASE task[w][s] = Idle
  BY <1>1 DEF Tick
<1>2. CASE task[w][s] # Idle
  <2>1. task[w][s] \in Task
    BY <1>2 DEF TypeOK
  <2>2. ~TimedOut(task[w][s])
    BY <1>2 DEF Tick
  <2>3. /\ Older(task[w][s].age) \in 0..LeaseTime
        /\ task[w][s].stage = "running" => Older(task[w][s].age) <= JobTimeout
    BY <2>1, <2>2, QueueAssumption DEF Task, TimedOut, Older
  <2>4. task'[w][s] = [task[w][s] EXCEPT !.age = Older(task[w][s].age)]
    BY <1>2 DEF Tick
  <2> QED
    BY <1>2, <2>1, <2>3, <2>4 DEF Task, Idle
<1> QED
  BY <1>1, <1>2

LEMMA TickTypes == TypeOK /\ Tick => TypeOK'
<1> SUFFICES ASSUME TypeOK, Tick PROVE TypeOK'
  BY SMTT(40)
<1>1. row' \in [Job -> Row]
  BY TickRow DEF Tick
<1>2. task' \in [Worker -> [Slot -> Task \cup {Idle}]]
  <2>1. /\ task' = [w \in Worker |-> task'[w]]
        /\ \A w \in Worker : task'[w] = [s \in Slot |-> task'[w][s]]
    BY DEF Tick
  <2> QED
    BY <2>1, TickTask
<1> QED
  BY <1>1, <1>2 DEF Tick, TypeOK

-------------------------------------------------------------------------------
(* The invariant.                                                          *)

(* What becomes of a task in a step that rewrites the rows of S.           *)
Kept(w, s, S) ==
    task'[w][s] # Idle =>
        /\ task[w][s] # Idle
        /\ task'[w][s].job = task[w][s].job
        /\ task'[w][s].age = task[w][s].age
        /\ task'[w][s].stage = "ok" => returned'[task[w][s].job]
        /\ row'[task[w][s].job].status # "absent"
        /\ task'[w][s].claim = "recovered" => task[w][s].age >= LeaseTime - ClaimStall
        /\ task'[w][s].claim = "held" =>
              task[w][s].claim = "held" /\ task[w][s].job \notin S

(* A step that rewrites the rows of S keeps the invariant when no task     *)
(* comes out of it holding a row of S, no task is new, and the tasks it    *)
(* keeps are still founded.                                                *)
LEMMA Release ==
    ASSUME IInv, TypeOK', NEW S \in SUBSET Job,
           \A w \in Worker, s \in Slot : Kept(w, s, S),
           \A j \in Job \ S : row'[j] = row[j],
           \A j \in S : row'[j].status = "running" => row'[j].attempts >= 1
    PROVE  IInv'
<1>t. TypeOK /\ \A w \in Worker, s \in Slot : task[w][s] # Idle => task[w][s].job \in Job
  BY DEF IInv, TypeOK, Task
<1>1. ASSUME NEW w \in Worker, NEW s \in Slot
      PROVE  TaskInv(w, s)'
  <2>1. TaskInv(w, s)
    BY DEF IInv
  <2>2. CASE task'[w][s] # Idle
    <3>1. task[w][s].job \in Job /\ task'[w][s].job = task[w][s].job
      BY <1>t, <2>2 DEF Kept
    <3>2. task'[w][s].claim = "held" =>
             row'[task[w][s].job] = row[task[w][s].job] /\ task[w][s].claim = "held"
      BY <2>2, <3>1 DEF Kept
    <3> QED
      BY <2>1, <2>2, <3>1, <3>2 DEF Kept, TaskInv, LeaseIsMine
  <2> QED
    BY <2>2 DEF TaskInv
<1>2. ASSUME NEW v \in Worker, NEW w \in Worker, NEW t \in Slot, NEW s \in Slot
      PROVE  Rivals(v, t, w, s)'
  <2>1. Rivals(v, t, w, s)
    BY DEF IInv
  <2> QED
    BY <2>1 DEF Kept, Rivals, Holds
<1>3. \A j \in Job : row'[j].status = "running" => row'[j].attempts >= 1
  BY DEF IInv
<1> QED
  BY <1>1, <1>2, <1>3 DEF IInv

(* A task that holds its claim has its row running; a row that is absent   *)
(* has no task.                                                            *)
LEMMA Founded ==
    ASSUME IInv, NEW w \in Worker, NEW s \in Slot, task[w][s] # Idle
    PROVE  /\ task[w][s] \in Task
           /\ task[w][s].job \in Job
           /\ row[task[w][s].job].status # "absent"
           /\ task[w][s].stage = "ok" => returned[task[w][s].job]
           /\ task[w][s].claim = "recovered" => task[w][s].age >= LeaseTime - ClaimStall
           /\ task[w][s].claim = "held" => LeaseIsMine(w, task[w][s].job)
<1>1. TaskInv(w, s) /\ task[w][s] \in Task
  BY DEF IInv, TypeOK
<1> QED
  BY <1>1 DEF TaskInv, Task

LEMMA QueueInv ==
    ASSUME IInv, NEW j \in Job
    PROVE  /\ Enqueue(j) => IInv'
           /\ RetryFailed(j) => IInv'
           /\ Cleanup(j) => IInv'
<1>t. TypeOK
  BY DEF IInv
<1>r. \A r \in Row : /\ \A d \in 0..BackoffCap : Queued(r, 0, d).status = "queued"
                     /\ 0 \in 0..BackoffCap /\ BackoffCap \in 0..BackoffCap
  BY RowUpdates, QueueAssumption
<1>1. ASSUME Enqueue(j) PROVE IInv'
  <2>1. TypeOK'
    BY <1>1, <1>t, QueueTypes
  <2>2. PICK d \in {0, BackoffCap} : row' = [row EXCEPT ![j] = Queued(NoRow, 0, d)]
    BY <1>1 DEF Enqueue
  <2>3. row'[j].status = "queued" /\ \A i \in Job \ {j} : row'[i] = row[i]
    BY <1>t, <1>r, <2>2, NoRowType DEF TypeOK
  <2>4. \A w \in Worker, s \in Slot : task[w][s] # Idle => task[w][s].job # j
    BY <1>1, Founded DEF Enqueue
  <2>5. \A i \in Job \ {j} : returned'[i] = returned[i]
    BY <1>1, <1>t DEF Enqueue, TypeOK
  <2>6. ASSUME NEW w \in Worker, NEW s \in Slot PROVE Kept(w, s, {j})
    BY <1>1, <2>3, <2>4, <2>5, Founded DEF Enqueue, Kept
  <2> QED
    BY <2>1, <2>3, <2>6, Release
<1>2. ASSUME RetryFailed(j) PROVE IInv'
  <2>1. TypeOK'
    BY <1>2, <1>t, QueueTypes
  <2>2. row'[j].status = "queued" /\ \A i \in Job \ {j} : row'[i] = row[i]
    BY <1>2, <1>t, <1>r DEF RetryFailed, TypeOK
  <2>3. \A w \in Worker, s \in Slot :
            task[w][s] # Idle /\ task[w][s].claim = "held" => task[w][s].job # j
    BY <1>2, Founded DEF RetryFailed, LeaseIsMine
  <2>4. ASSUME NEW w \in Worker, NEW s \in Slot PROVE Kept(w, s, {j})
    BY <1>2, <2>2, <2>3, Founded DEF RetryFailed, Kept
  <2> QED
    BY <2>1, <2>2, <2>4, Release
<1>3. ASSUME Cleanup(j) PROVE IInv'
  <2>1. TypeOK'
    BY <1>3, <1>t, QueueTypes
  <2>2. row'[j].status = "absent" /\ \A i \in Job \ {j} : row'[i] = row[i]
    BY <1>3, <1>t, NoRowType DEF Cleanup, TypeOK
  <2>3. \A w \in Worker, s \in Slot : task[w][s] # Idle => task[w][s].job # j
    BY <1>3 DEF Cleanup, Working
  <2>4. \A i \in Job \ {j} : returned'[i] = returned[i]
    BY <1>3, <1>t DEF Cleanup, TypeOK
  <2>5. ASSUME NEW w \in Worker, NEW s \in Slot PROVE Kept(w, s, {j})
    BY <1>3, <2>2, <2>3, <2>4, Founded DEF Cleanup, Kept
  <2> QED
    BY <2>1, <2>2, <2>5, Release
<1> QED
  BY <1>1, <1>2, <1>3

LEMMA ProcessInv ==
    ASSUME IInv, NEW w \in Worker,
           Start(w) \/ Stop(w) \/ Drained(w) \/ Crash(w)
    PROVE  IInv'
<1>1. TypeOK'
  BY ProcessTypes DEF IInv
<1>2. row' = row /\ returned' = returned
  BY DEF Start, Stop, Drained, Crash
<1>3. \A v \in Worker, s \in Slot : task'[v][s] \in {task[v][s], Idle}
  <2>1. TypeOK
    BY DEF IInv
  <2>2. CASE Crash(w)
    BY <2>1, <2>2 DEF TypeOK, Crash
  <2>3. CASE ~Crash(w)
    BY <2>3 DEF Start, Stop, Drained
  <2> QED
    BY <2>2, <2>3
<1>4. ASSUME NEW v \in Worker, NEW s \in Slot PROVE Kept(v, s, {})
  <2>1. task'[v][s] \in {task[v][s], Idle}
    BY <1>3
  <2> QED
    BY <1>2, <2>1, Founded DEF Kept
<1> QED
  BY <1>1, <1>2, <1>4, Release

LEMMA ClaimInv ==
    ASSUME IInv, NEW w \in Worker, NEW j \in Job
    PROVE  /\ Claim(w, j) => IInv'
           /\ ClaimUnseen(w, j) => IInv'
<1>t. TypeOK
  BY DEF IInv
<1>n. row[j].attempts \in Nat
  BY <1>t DEF TypeOK, Row
<1>1. ASSUME Claim(w, j) PROVE IInv'
  <2>1. TypeOK'
    BY <1>1, <1>t, ClaimTypes
  <2>2. PICK left \in (LeaseTime - ClaimStall)..LeaseTime :
           row' = [row EXCEPT ![j] = Leased(row[j], w, left)]
    BY <1>1 DEF Claim
  <2>3. /\ row'[j].status = "running" /\ row'[j].owner = w /\ row'[j].lease = left
        /\ row'[j].attempts >= 1
        /\ \A i \in Job \ {j} : row'[i] = row[i]
    BY <1>1, <1>n, <1>t, <2>2, LeasedType DEF Claim, Due, TypeOK
  <2> DEFINE new == [stage |-> IF j \in Handled[w] THEN "running" ELSE "unhandled",
                     job |-> j, age |-> 0, claim |-> "held"]
  <2>4. PICK s \in Slot : task[w][s] = Idle /\ task' = [task EXCEPT ![w][s] = new]
    BY <1>1 DEF Claim
  <2>5. /\ new # Idle /\ new.job = j /\ new.age = 0 /\ new.claim = "held"
        /\ new.stage # "ok"
    BY DEF Idle
  <2> HIDE DEF new
  <2>6. /\ task'[w][s] = new
        /\ \A v \in Worker, t \in Slot : <<v, t>> # <<w, s>> => task'[v][t] = task[v][t]
    BY <1>t, <2>4 DEF TypeOK
  <2>7. \A v \in Worker, t \in Slot :
            task[v][t] # Idle /\ task[v][t].claim = "held" => task[v][t].job # j
    BY <1>1, Founded DEF Claim, Due, LeaseIsMine
  <2>8. returned' = returned
    BY <1>1 DEF Claim
  <2>9. ASSUME NEW v \in Worker, NEW t \in Slot PROVE TaskInv(v, t)'
    <3>1. CASE <<v, t>> = <<w, s>>
      BY <2>2, <2>3, <2>5, <2>6, <3>1, QueueAssumption DEF TaskInv, LeaseIsMine
    <3>2. CASE <<v, t>> # <<w, s>>
      <4>1. TaskInv(v, t) /\ task'[v][t] = task[v][t]
        BY <2>6, <3>2 DEF IInv
      <4>2. CASE task[v][t] # Idle
        <5>1. task[v][t].job \in Job
          BY <4>2, Founded
        <5>2. CASE task[v][t].job = j
          BY <2>3, <2>7, <2>8, <4>1, <4>2, <5>2 DEF TaskInv
        <5>3. CASE task[v][t].job # j
          BY <2>3, <2>8, <4>1, <4>2, <5>1, <5>3 DEF TaskInv, LeaseIsMine
        <5> QED
          BY <5>2, <5>3
      <4> QED
        BY <4>1, <4>2 DEF TaskInv
    <3> QED
      BY <3>1, <3>2
  <2>10. ASSUME NEW u \in Worker, NEW v \in Worker, NEW a \in Slot, NEW b \in Slot
         PROVE  Rivals(u, a, v, b)'
    <3>1. Rivals(u, a, v, b)
      BY DEF IInv
    <3>2. CASE <<u, a>> = <<w, s>> /\ <<v, b>> # <<w, s>>
      BY <2>5, <2>6, <2>7, <3>2 DEF Rivals, Holds
    <3>3. CASE <<u, a>> # <<w, s>> /\ <<v, b>> = <<w, s>>
      BY <2>5, <2>6, <2>7, <3>3 DEF Rivals, Holds
    <3>4. CASE <<u, a>> # <<w, s>> /\ <<v, b>> # <<w, s>>
      BY <2>6, <3>1, <3>4 DEF Rivals, Holds
    <3> QED
      BY <3>2, <3>3, <3>4 DEF Rivals
  <2>11. \A i \in Job : row'[i].status = "running" => row'[i].attempts >= 1
    BY <2>3 DEF IInv
  <2> QED
    BY <2>1, <2>9, <2>10, <2>11 DEF IInv
<1>2. ASSUME ClaimUnseen(w, j) PROVE IInv'
  <2>1. TypeOK'
    BY <1>2, <1>t, ClaimTypes
  <2>2. LeaseTime \in (LeaseTime - ClaimStall)..LeaseTime
    BY QueueAssumption
  <2>3. /\ row'[j].status = "running" /\ row'[j].attempts >= 1
        /\ \A i \in Job \ {j} : row'[i] = row[i]
    BY <1>2, <1>n, <1>t, <2>2, LeasedType DEF ClaimUnseen, Due, TypeOK
  <2>4. \A v \in Worker, t \in Slot :
            task[v][t] # Idle /\ task[v][t].claim = "held" => task[v][t].job # j
    BY <1>2, Founded DEF ClaimUnseen, Due, LeaseIsMine
  <2>5. ASSUME NEW v \in Worker, NEW t \in Slot PROVE Kept(v, t, {j})
    BY <1>2, <2>3, <2>4, Founded DEF ClaimUnseen, Kept
  <2> QED
    BY <2>1, <2>3, <2>5, Release
<1> QED
  BY <1>1, <1>2

LEMMA HandleInv ==
    ASSUME IInv, NEW w \in Worker, NEW s \in Slot, Handle(w, s)
    PROVE  IInv'
<1>t. TypeOK /\ TypeOK'
  BY TaskTypes DEF IInv
<1>1. task[w][s] # Idle
  BY DEF Handle, Idle
<1>2. PICK st \in {"ok", "error"} :
         /\ task' = [task EXCEPT ![w][s].stage = st]
         /\ st = "ok" => returned' = [returned EXCEPT ![task[w][s].job] = TRUE]
         /\ st # "ok" => returned' = returned
  BY DEF Handle
<1>3. row' = row
  BY DEF Handle
<1>4. \A j \in Job : returned[j] => returned'[j]
  BY <1>2, <1>t DEF TypeOK
<1>5. /\ task'[w][s] = [task[w][s] EXCEPT !.stage = st]
      /\ \A v \in Worker, t \in Slot : <<v, t>> # <<w, s>> => task'[v][t] = task[v][t]
  BY <1>2, <1>t DEF TypeOK
<1>6. ASSUME NEW v \in Worker, NEW t \in Slot PROVE Kept(v, t, {})
  <2>1. CASE <<v, t>> = <<w, s>>
    <3>1. task[w][s] \in Task /\ task[w][s].job \in Job
      BY <1>1, Founded
    <3>2. /\ task'[w][s].job = task[w][s].job /\ task'[w][s].age = task[w][s].age
          /\ task'[w][s].claim = task[w][s].claim /\ task'[w][s].stage = st
      BY <1>5, <3>1 DEF Task
    <3>3. st = "ok" => returned'[task[w][s].job]
      BY <1>2, <1>t, <3>1 DEF TypeOK
    <3> QED
      BY <1>1, <1>3, <2>1, <3>2, <3>3, Founded DEF Kept
  <2>2. CASE <<v, t>> # <<w, s>>
    BY <1>3, <1>4, <1>5, <2>2, Founded DEF Kept
  <2> QED
    BY <2>1, <2>2
<1> QED
  BY <1>t, <1>3, <1>6, Release

LEMMA Freed ==
    ASSUME NEW D, NEW f \in [Worker -> [Slot -> D]], NEW d,
           NEW w \in Worker, NEW s \in Slot, NEW v \in Worker, NEW t \in Slot
    PROVE  [f EXCEPT ![w][s] = d][v][t] = IF v = w /\ t = s THEN d ELSE f[v][t]
OBVIOUS

(* An acknowledgement that rewrites the row of its job: every task of the  *)
(* job loses the claim, and the slot is free again.                        *)
LEMMA AckReleases ==
    ASSUME IInv, TypeOK', NEW w \in Worker, NEW s \in Slot, task[w][s] # Idle,
           task' = [Unclaimed({task[w][s].job}, "overruled") EXCEPT ![w][s] = Idle],
           returned' = returned,
           \A j \in Job \ {task[w][s].job} : row'[j] = row[j],
           row'[task[w][s].job].status \in {"queued"} \cup Terminal
    PROVE  IInv'
<1> DEFINE j == task[w][s].job
<1> DEFINE u == Unclaimed({j}, "overruled")
<1>t. TypeOK /\ j \in Job /\ j = task[w][s].job
  BY Founded DEF IInv
<1>1. u \in [Worker -> [Slot -> Task \cup {Idle}]] /\ task' = [u EXCEPT ![w][s] = Idle]
  BY <1>t, UnclaimedType
<1>2. \A v \in Worker, t \in Slot : task'[v][t] # Idle => task'[v][t] = u[v][t]
  <2> HIDE DEF u
  <2> TAKE v \in Worker, t \in Slot
  <2>1. [u EXCEPT ![w][s] = Idle][v][t] = IF v = w /\ t = s THEN Idle ELSE u[v][t]
    BY <1>1, Freed
  <2> QED
    BY <1>1, <2>1
<1>3. ASSUME NEW v \in Worker, NEW t \in Slot, task'[v][t] # Idle
      PROVE  /\ task[v][t] # Idle
             /\ task'[v][t].stage = task[v][t].stage
             /\ task'[v][t].job = task[v][t].job
             /\ task'[v][t].age = task[v][t].age
             /\ task'[v][t].claim \in {task[v][t].claim, "overruled"}
             /\ task'[v][t].claim = "held" => task[v][t].claim = "held" /\ task[v][t].job # j
  <2>1. task'[v][t] = u[v][t]
    BY <1>2, <1>3, SMTT(40)
  <2> QED
    BY <1>t, <1>3, <2>1, UnclaimedTask DEF Holds
<1> HIDE DEF u
<1>4. ASSUME NEW v \in Worker, NEW t \in Slot PROVE Kept(v, t, {j})
  <2>1. CASE task'[v][t] # Idle
    <3>1. task[v][t] # Idle
      BY <1>3, <2>1, ZenonT(60)
    <3>2. /\ task[v][t].job \in Job
          /\ row[task[v][t].job].status # "absent"
          /\ task[v][t].stage = "ok" => returned[task[v][t].job]
          /\ task[v][t].claim = "recovered" => task[v][t].age >= LeaseTime - ClaimStall
      BY <3>1, Founded
    <3>3. row'[task[v][t].job].status # "absent"
      <4>1. CASE task[v][t].job = j
        BY <4>1 DEF Terminal
      <4>2. CASE task[v][t].job # j
        BY <3>2, <4>2
      <4> QED
        BY <4>1, <4>2
    <3>4. returned'[task[v][t].job] = returned[task[v][t].job]
      BY SMTT(40)
    <3>5. /\ task'[v][t].stage = task[v][t].stage
          /\ task'[v][t].job = task[v][t].job
          /\ task'[v][t].age = task[v][t].age
          /\ task'[v][t].claim \in {task[v][t].claim, "overruled"}
          /\ task'[v][t].claim = "held" => task[v][t].claim = "held" /\ task[v][t].job \notin {j}
      BY <1>3, <2>1, ZenonT(60)
    <3> HIDE DEF j
    <3> QED
      BY <3>1, <3>2, <3>3, <3>4, <3>5, SMTT(40) DEF Kept
  <2> QED
    BY <2>1, SMTT(40) DEF Kept
<1>5. \A i \in {j} : row'[i].status = "running" => row'[i].attempts >= 1
  BY <1>t DEF Terminal
<1> QED
  BY <1>t, <1>4, <1>5, Release

(* One that rewrites no row only frees its slot.                           *)
LEMMA AckIgnored ==
    ASSUME IInv, NEW w \in Worker, NEW s \in Slot,
           task' = [task EXCEPT ![w][s] = Idle], TypeOK',
           row' = row, returned' = returned
    PROVE  IInv'
<1>1. \A v \in Worker, t \in Slot : task'[v][t] \in {task[v][t], Idle}
  BY DEF IInv, TypeOK
<1>2. ASSUME NEW v \in Worker, NEW t \in Slot PROVE Kept(v, t, {})
  BY <1>1, Founded DEF Kept
<1> QED
  BY <1>2, Release

LEMMA AckInv ==
    ASSUME IInv, NEW w \in Worker, NEW s \in Slot
    PROVE  /\ Complete(w, s) => IInv'
           /\ Fail(w, s) => IInv'
           /\ AckLost(w, s) => IInv'
<1> DEFINE j == task[w][s].job
<1>t. TypeOK
  BY DEF IInv
<1>r. \A r \in Row :
        /\ \A st \in Terminal : Settled(r, st).status = st
        /\ r.status = "running" /\ r.attempts >= 1 =>
              Queued(r, r.attempts, RetryDelay(r.attempts)).status = "queued"
  <2> TAKE r \in Row
  <2>1. r.attempts \in 0..MaxAttempts /\ (r.attempts >= 1 => r.attempts \in 1..MaxAttempts)
    BY QueueAssumption DEF Row
  <2>2. r.attempts >= 1 => RetryDelay(r.attempts) \in 0..BackoffCap
    BY <2>1, BackoffType
  <2> QED
    BY <2>1, <2>2, RowUpdates
<1>1. ASSUME Complete(w, s) PROVE IInv'
  <2>0. TypeOK'
    BY <1>1, TaskTypes
  <2>1. task[w][s] # Idle /\ TypeOK' /\ returned' = returned
    BY <1>1, <2>0 DEF Complete, Idle
  <2>2. CASE LeaseIsMine(w, j)
    <3>1. j \in Job /\ row[j] \in Row
      BY <1>t, <2>1, Founded DEF TypeOK
    <3>2. row' = [row EXCEPT ![j] = Settled(row[j], "succeeded")]
      BY <1>1, <2>2 DEF Complete
    <3>3. row'[j].status \in Terminal /\ \A i \in Job \ {j} : row'[i] = row[i]
      BY <1>r, <1>t, <3>1, <3>2 DEF TypeOK, Terminal
    <3>4. task' = [Unclaimed({j}, "overruled") EXCEPT ![w][s] = Idle]
      BY <1>1, <2>2 DEF Complete
    <3> QED
      BY <2>1, <3>3, <3>4, AckReleases
  <2>3. CASE ~LeaseIsMine(w, j)
    BY <1>1, <2>1, <2>3, AckIgnored DEF Complete
  <2> QED
    BY <2>2, <2>3
<1>2. ASSUME Fail(w, s) PROVE IInv'
  <2>0. TypeOK'
    BY <1>2, TaskTypes
  <2>1. task[w][s] # Idle /\ TypeOK' /\ returned' = returned
    BY <1>2, <2>0 DEF Fail, Idle
  <2>2. CASE LeaseIsMine(w, j)
    <3>1. j \in Job /\ row[j] \in Row /\ row[j].status = "running" /\ row[j].attempts >= 1
      BY <1>t, <2>1, <2>2, Founded DEF TypeOK, LeaseIsMine, IInv
    <3>2. PICK r \in {Queued(row[j], row[j].attempts, RetryDelay(row[j].attempts)),
                      Settled(row[j], "failed")} : row' = [row EXCEPT ![j] = r]
      BY <1>2, <2>2 DEF Fail
    <3>3. r.status \in {"queued"} \cup Terminal
      BY <1>r, <3>1 DEF Terminal
    <3>4. row'[j] = r /\ \A i \in Job \ {j} : row'[i] = row[i]
      BY <1>t, <3>1, <3>2 DEF TypeOK
    <3>5. task' = [Unclaimed({j}, "overruled") EXCEPT ![w][s] = Idle]
      BY <1>2, <2>2 DEF Fail
    <3> QED
      BY <2>1, <3>3, <3>4, <3>5, AckReleases
  <2>3. CASE ~LeaseIsMine(w, j)
    BY <1>2, <2>1, <2>3, AckIgnored DEF Fail
  <2> QED
    BY <2>2, <2>3
<1>3. ASSUME AckLost(w, s) PROVE IInv'
  <2>1. TypeOK'
    BY <1>3, TaskTypes
  <2> QED
    BY <1>3, <2>1, AckIgnored DEF AckLost
<1> QED
  BY <1>1, <1>2, <1>3

LEMMA RecoverInv ==
    ASSUME IInv, NEW w \in Worker, Recover(w)
    PROVE  IInv'
<1> DEFINE S == {j \in Job : Expired(row[j])}
<1>t. TypeOK /\ TypeOK' /\ task' = Unclaimed(S, "recovered") /\ returned' = returned
  BY RecoverTypes DEF IInv, Recover
<1>1. \A j \in Job \ S : row'[j] = row[j]
  BY DEF Recover
<1>2. \A j \in S : row'[j].status \in {"queued", "failed"}
  <2>1. ASSUME NEW j \in S PROVE row'[j].status \in {"queued", "failed"}
    <3>1. row[j] \in Row /\ row[j].attempts \in 0..MaxAttempts /\ 0 \in 0..BackoffCap
      BY <1>t, QueueAssumption DEF TypeOK, Row
    <3>2. /\ Queued(row[j], row[j].attempts, 0).status = "queued"
          /\ Settled(row[j], "failed").status = "failed"
      BY <3>1, RowUpdates DEF Terminal
    <3> QED
      BY <3>2 DEF Recover
  <2> QED
    BY <2>1
<1>3. ASSUME NEW v \in Worker, NEW t \in Slot PROVE Kept(v, t, S)
  <2>1. CASE task'[v][t] # Idle
    <3>1. /\ task[v][t] # Idle
          /\ task'[v][t].stage = task[v][t].stage
          /\ task'[v][t].job = task[v][t].job
          /\ task'[v][t].age = task[v][t].age
          /\ (~Holds(v, t) \/ task[v][t].job \notin S) => task'[v][t] = task[v][t]
          /\ Holds(v, t) /\ task[v][t].job \in S => task'[v][t].claim = "recovered"
      BY <1>t, <2>1, UnclaimedTask
    <3>2. task[v][t] \in Task /\ row'[task[v][t].job].status # "absent"
      BY <1>1, <1>2, <3>1, Founded
    <3>3. Holds(v, t) /\ task[v][t].job \in S => task[v][t].age >= LeaseTime - ClaimStall
      <4>1. TaskInv(v, t)
        BY DEF IInv
      <4> QED
        BY <3>1, <3>2, <4>1, QueueAssumption DEF TaskInv, Holds, Expired, Task
    <3> QED
      BY <1>t, <3>1, <3>2, <3>3, Founded DEF Kept, Holds
  <2> QED
    BY <2>1, SMTT(40) DEF Kept
<1>4. \A j \in S : row'[j].status = "running" => row'[j].attempts >= 1
  BY <1>2
<1> HIDE DEF S
<1>5. S \in SUBSET Job
  BY DEF S
<1> QED
  BY <1>t, <1>1, <1>3, <1>4, <1>5, Release

LEMMA TickInv == IInv /\ Tick => IInv'
<1> SUFFICES ASSUME IInv, Tick PROVE IInv'
  OBVIOUS
<1>t. TypeOK /\ TypeOK' /\ returned' = returned
  BY TickTypes DEF IInv, Tick
<1>1. ASSUME NEW w \in Worker, NEW s \in Slot PROVE TaskInv(w, s)'
  <2>1. CASE task'[w][s] # Idle
    <3>1. /\ task[w][s] # Idle
          /\ task'[w][s].stage = task[w][s].stage
          /\ task'[w][s].job = task[w][s].job
          /\ task'[w][s].claim = task[w][s].claim
          /\ task'[w][s].age = Older(task[w][s].age)
      BY <1>t, <2>1, TickTask
    <3>2. TaskInv(w, s) /\ task[w][s].age \in 0..LeaseTime /\ task[w][s].job \in Job
      BY <3>1, Founded, QueueAssumption DEF IInv, Task
    <3>o. /\ Older(task[w][s].age) >= task[w][s].age
          /\ Older(task[w][s].age) = task[w][s].age + 1 \/ Older(task[w][s].age) = LeaseTime
          /\ Older(task[w][s].age) \in Nat
      BY <3>2, QueueAssumption DEF Older
    <3> DEFINE j == task[w][s].job
    <3>3. /\ row'[j].status = row[j].status /\ row'[j].owner = row[j].owner
          /\ row'[j].lease + 1 >= row[j].lease
          /\ row[j].lease \in Nat /\ row'[j].lease \in Nat
      <4>1. row[j] \in Row /\ row'[j] \in Row
        BY <1>t, <3>2, TickRow DEF TypeOK
      <4>2. row[j].lease \in Nat /\ row'[j].lease \in Nat
        BY <4>1, QueueAssumption DEF Row
      <4> QED
        BY <1>t, <3>2, <4>2, TickRow
    <3>4. task[w][s].claim = "held" =>
             row'[j].lease + task'[w][s].age >= LeaseTime - ClaimStall
      <4>1. task[w][s].claim = "held" =>
               row[j].lease + task[w][s].age >= LeaseTime - ClaimStall
        BY <3>1, <3>2 DEF TaskInv
      <4> QED
        BY <3>1, <3>2, <3>3, <3>o, <4>1, QueueAssumption
    <3>5. task[w][s].claim = "recovered" => task'[w][s].age >= LeaseTime - ClaimStall
      BY <3>1, <3>2, <3>o, QueueAssumption DEF TaskInv
    <3> QED
      BY <1>t, <3>1, <3>2, <3>3, <3>4, <3>5 DEF TaskInv, LeaseIsMine
  <2> QED
    BY <2>1 DEF TaskInv
<1>2. ASSUME NEW v \in Worker, NEW w \in Worker, NEW t \in Slot, NEW s \in Slot
      PROVE  Rivals(v, t, w, s)'
  <2>1. Rivals(v, t, w, s)
    BY DEF IInv
  <2> QED
    BY <1>t, <2>1, TickTask DEF Rivals, Holds
<1>3. \A j \in Job : row'[j].status = "running" => row'[j].attempts >= 1
  BY <1>t, TickRow DEF IInv
<1> QED
  BY <1>t, <1>1, <1>2, <1>3 DEF IInv

-------------------------------------------------------------------------------
(* Theorems.                                                               *)

LEMMA InitInv == Init => IInv
<1> SUFFICES ASSUME Init PROVE IInv
  OBVIOUS
<1>1. TypeOK
  BY NoRowType DEF Init, TypeOK
<1>2. \A w \in Worker, s \in Slot : task[w][s] = Idle
  BY DEF Init
<1>3. \A j \in Job : row[j].status = "absent"
  BY NoRowType DEF Init
<1> QED
  BY <1>1, <1>2, <1>3 DEF IInv, TaskInv, Rivals, Holds

LEMMA NextInv == IInv /\ [Next]_vars => IInv'
<1> SUFFICES ASSUME IInv, [Next]_vars PROVE IInv'
  OBVIOUS
<1>1. ASSUME NEW j \in Job, Enqueue(j) \/ RetryFailed(j) \/ Cleanup(j) PROVE IInv'
  BY <1>1, QueueInv
<1>2. ASSUME NEW w \in Worker, Supervise(w) PROVE IInv'
  <2>1. CASE Start(w) \/ Stop(w) \/ Drained(w) \/ Crash(w)
    BY <2>1, ProcessInv
  <2>2. CASE Recover(w)
    BY <2>2, RecoverInv
  <2>3. ASSUME NEW j \in Job, Claim(w, j) \/ ClaimUnseen(w, j) PROVE IInv'
    BY <2>3, ClaimInv
  <2>4. ASSUME NEW s \in Slot,
               Handle(w, s) \/ Complete(w, s) \/ Fail(w, s) \/ AckLost(w, s)
        PROVE  IInv'
    BY <2>4, HandleInv, AckInv
  <2> QED
    BY <1>2, <2>1, <2>2, <2>3, <2>4 DEF Supervise
<1>3. CASE Tick
  BY <1>3, TickInv
<1>4. CASE UNCHANGED vars
  BY <1>4 DEF vars, IInv, TypeOK, TaskInv, Rivals, Holds, LeaseIsMine
<1> QED
  BY <1>1, <1>2, <1>3, <1>4 DEF Next

(* The queue's state keeps its types: the rows their columns' ranges, the  *)
(* attempts their maximum and the supervisors their slots.                 *)
THEOREM TypeCorrect == Spec => []TypeOK
<1>1. IInv => TypeOK
  BY DEF IInv
<1> QED
  BY <1>1, InitInv, NextInv, PTL DEF Spec

(* However many supervisors overlap, crash, stall and recover each other's *)
(* leases, a row is worked on under at most one live claim, and while a    *)
(* task has that claim the row says so.                                    *)
THEOREM ClaimsAreExclusive == Spec => []OneHolderPerRow
<1>1. IInv => OneHolderPerRow
  BY DEF IInv, TaskInv, Rivals, Holds, OneHolderPerRow
<1> QED
  BY <1>1, InitInv, NextInv, PTL DEF Spec

(* Recovery robs only a task that has used up the lease it started with.   *)
THEOREM RecoveryIsPatient == Spec => []RecoveredOnlyIfOverstayed
<1>1. IInv => RecoveredOnlyIfOverstayed
  BY DEF IInv, TaskInv, RecoveredOnlyIfOverstayed
<1> QED
  BY <1>1, InitInv, NextInv, PTL DEF Spec

(* "The lease is intentionally longer than the default handler timeout":   *)
(* a timeout that fits in what a stalled claim leaves of the lease (30 s   *)
(* in 45 s less 10 s) keeps the recovery pass off every job whose handler  *)
(* still runs, whatever an acknowledgement waits.                          *)
THEOREM HandlersAreNotRecovered ==
    ASSUME JobTimeout < LeaseTime - ClaimStall
    PROVE  Spec => [](\A w \in Worker, s \in Slot :
                         task[w][s].stage = "running" => task[w][s].claim # "recovered")
<1> DEFINE Safe == \A w \in Worker, s \in Slot :
                      task[w][s].stage = "running" => task[w][s].claim # "recovered"
<1>1. IInv => Safe
  <2> SUFFICES ASSUME IInv, NEW w \in Worker, NEW s \in Slot,
                      task[w][s].stage = "running", task[w][s].claim = "recovered"
               PROVE  FALSE
    OBVIOUS
  <2>1. task[w][s] # Idle
    BY DEF Idle
  <2>2. task[w][s] \in Task /\ task[w][s].age >= LeaseTime - ClaimStall
    BY <2>1 DEF IInv, TypeOK, TaskInv
  <2> QED
    BY <2>2, QueueAssumption DEF Task
<1> HIDE DEF Safe
<1>2. Spec => []Safe
  BY <1>1, InitInv, NextInv, PTL DEF Spec
<1> QED
  BY <1>2 DEF Safe

-------------------------------------------------------------------------------
(* Refinement of the contract.                                             *)

(* The contract's step of one row, in the queue's own variables.           *)
RowMoves(j) ==
    LET r == row[j]
        q == row'[j]
        same == returned'[j] = returned[j]
    IN
    \/ r.status = "absent" /\ q.status = "queued" /\ q.attempts = 0 /\ returned'[j] = FALSE
    \/ /\ r.status = "queued" /\ r.attempts < MaxAttempts
       /\ q.status = "running" /\ q.attempts = r.attempts + 1 /\ same
    \/ r.status # "absent" /\ q.status = r.status /\ q.attempts = r.attempts /\ returned'[j] = TRUE
    \/ /\ returned[j] /\ r.status = "running"
       /\ q.status = "succeeded" /\ q.attempts = r.attempts /\ same
    \/ r.status = "running" /\ q.status = "failed" /\ q.attempts = r.attempts /\ same
    \/ /\ r.attempts < MaxAttempts /\ r.status = "running"
       /\ q.status = "queued" /\ q.attempts = r.attempts /\ same
    \/ r.status = "failed" /\ q.status = "queued" /\ q.attempts = 0 /\ same
    \/ r.status \in Terminal /\ q.status = "absent" /\ q.attempts = 0 /\ returned'[j] = FALSE
    \/ q.status = r.status /\ q.attempts = r.attempts /\ same

LEMMA RowMovesContract ==
    ASSUME TypeOK, TypeOK', \A j \in Job : RowMoves(j)
    PROVE  Contract!Next
<1> DEFINE st == [j \in Job |-> row[j].status]
           at == [j \in Job |-> row[j].attempts]
<1>1. /\ st' = [j \in Job |-> row'[j].status]
      /\ at' = [j \in Job |-> row'[j].attempts]
  OBVIOUS
<1>2. \A j \in Job : /\ row'[j].status \in Contract!Status
                     /\ row'[j].attempts \in 0..MaxAttempts
  <2>1. \A j \in Job : row'[j] \in Row
    BY DEF TypeOK
  <2> QED
    BY <2>1 DEF Row, Contract!Status, Contract!Terminal, Terminal
<1>3. ASSUME NEW j \in Job PROVE Contract!RowStep(j)
  <2>1. /\ st[j] = row[j].status /\ at[j] = row[j].attempts
        /\ st'[j] = row'[j].status /\ at'[j] = row'[j].attempts
    BY <1>1
  <2>2. RowMoves(j)
    OBVIOUS
  <2> HIDE DEF st, at
  <2> QED
    BY <2>1, <2>2 DEF RowMoves, Contract!RowStep, Contract!Admit, Contract!Begin,
       Contract!Return, Contract!Succeed, Contract!GiveUp, Contract!Requeue,
       Contract!Readmit, Contract!Forget, Contract!Same, Contract!Moves,
       Contract!Terminal, Terminal, st, at
<1> QED
  BY <1>1, <1>2, <1>3 DEF Contract!Next, TypeOK

LEMMA OthersStay ==
    ASSUME NEW i \in Job, row'[i] = row[i], returned'[i] = returned[i]
    PROVE  RowMoves(i)
BY DEF RowMoves

LEMMA QueueMoves ==
    ASSUME IInv, NEW j \in Job, Enqueue(j) \/ RetryFailed(j) \/ Cleanup(j),
           NEW i \in Job
    PROVE  RowMoves(i)
<1>t. TypeOK /\ \A k \in Job : row[k] \in Row
  BY DEF IInv, TypeOK
<1>1. CASE i # j
  <2>1. row'[i] = row[i] /\ returned'[i] = returned[i]
    BY <1>t, <1>1 DEF TypeOK, Enqueue, RetryFailed, Cleanup
  <2> QED
    BY <2>1, OthersStay
<1>2. CASE i = j /\ Enqueue(j)
  <2>1. PICK d \in {0, BackoffCap} : row' = [row EXCEPT ![j] = Queued(NoRow, 0, d)]
    BY <1>2 DEF Enqueue
  <2>2. row'[j].status = "queued" /\ row'[j].attempts = 0 /\ returned'[j] = FALSE
    BY <1>2, <1>t, <2>1, RowUpdates, NoRowType, QueueAssumption DEF Enqueue, TypeOK
  <2> QED
    BY <1>2, <2>2 DEF RowMoves, Enqueue
<1>3. CASE i = j /\ RetryFailed(j)
  <2>1. Queued(row[j], 0, 0).status = "queued" /\ Queued(row[j], 0, 0).attempts = 0
    BY <1>t, RowUpdates, QueueAssumption
  <2>2. row'[j] = Queued(row[j], 0, 0) /\ returned'[j] = returned[j] /\ row[j].status = "failed"
    BY <1>3, <1>t DEF RetryFailed, TypeOK
  <2> QED
    BY <1>3, <2>1, <2>2 DEF RowMoves
<1>4. CASE i = j /\ Cleanup(j)
  <2>1. row'[j] = NoRow /\ returned'[j] = FALSE /\ row[j].status \in Terminal
    BY <1>4, <1>t DEF Cleanup, TypeOK
  <2> QED
    BY <1>4, <2>1, NoRowType DEF RowMoves
<1> QED
  BY <1>1, <1>2, <1>3, <1>4

LEMMA ClaimMoves ==
    ASSUME IInv, NEW w \in Worker, NEW j \in Job, Claim(w, j) \/ ClaimUnseen(w, j),
           NEW i \in Job
    PROVE  RowMoves(i)
<1>t. TypeOK /\ row[j] \in Row
  BY DEF IInv, TypeOK
<1>1. PICK left \in (LeaseTime - ClaimStall)..LeaseTime :
         row' = [row EXCEPT ![j] = Leased(row[j], w, left)]
  <2>1. LeaseTime \in (LeaseTime - ClaimStall)..LeaseTime
    BY QueueAssumption
  <2> QED
    BY <2>1 DEF Claim, ClaimUnseen
<1>2. Due(j) /\ returned' = returned
  BY DEF Claim, ClaimUnseen
<1>3. CASE i # j
  BY <1>1, <1>2, <1>3, <1>t, OthersStay DEF TypeOK
<1>4. CASE i = j
  <2>1. row'[j] = Leased(row[j], w, left)
    BY <1>1, <1>t DEF TypeOK
  <2>2. row'[j].status = "running" /\ row'[j].attempts = row[j].attempts + 1
    BY <1>2, <1>t, <2>1, LeasedType DEF Due
  <2> QED
    BY <1>2, <1>4, <2>2 DEF RowMoves, Due
<1> QED
  BY <1>3, <1>4

LEMMA TaskMoves ==
    ASSUME IInv, NEW w \in Worker, NEW s \in Slot,
           Handle(w, s) \/ Complete(w, s) \/ Fail(w, s) \/ AckLost(w, s),
           NEW i \in Job
    PROVE  RowMoves(i)
<1> DEFINE j == task[w][s].job
<1>t. TypeOK
  BY DEF IInv
<1>1. /\ task[w][s] # Idle /\ j \in Job /\ row[j] \in Row /\ row[j].status # "absent"
      /\ task[w][s].stage = "ok" => returned[j]
  <2>1. task[w][s] # Idle
    BY DEF Handle, Complete, Fail, AckLost, Idle
  <2> QED
    BY <1>t, <2>1, Founded, SMTT(40) DEF TypeOK
<1>2. CASE Handle(w, s)
  <2>1. row' = row /\ (returned' = returned \/ returned' = [returned EXCEPT ![j] = TRUE])
    BY <1>2 DEF Handle
  <2>2. returned'[i] = returned[i] \/ (i = j /\ returned'[j] = TRUE)
    BY <1>1, <1>t, <2>1 DEF TypeOK
  <2> QED
    BY <1>1, <2>1, <2>2 DEF RowMoves
<1>3. CASE row' = row /\ returned' = returned
  BY <1>3, OthersStay, SMTT(40)
<1>4. CASE i # j /\ ~Handle(w, s)
  BY <1>4, <1>t, OthersStay DEF TypeOK, Complete, Fail, AckLost
<1>5. CASE i = j /\ Complete(w, s) /\ LeaseIsMine(w, j)
  <2>1. row'[j] = Settled(row[j], "succeeded") /\ returned'[j] = returned[j] /\ returned[j]
    BY <1>1, <1>5, <1>t DEF Complete, TypeOK
  <2>2. row'[j].status = "succeeded" /\ row'[j].attempts = row[j].attempts
    BY <1>1, <2>1, RowUpdates DEF Terminal
  <2> QED
    BY <1>5, <2>1, <2>2 DEF RowMoves, LeaseIsMine
<1>6. CASE i = j /\ Fail(w, s) /\ LeaseIsMine(w, j)
  <2>1. /\ returned'[j] = returned[j]
        /\ \/ /\ CanRetry(row[j])
              /\ row'[j] = Queued(row[j], row[j].attempts, RetryDelay(row[j].attempts))
           \/ row'[j] = Settled(row[j], "failed")
    BY <1>1, <1>6, <1>t DEF Fail, TypeOK
  <2>2. /\ row[j].attempts \in 0..MaxAttempts
        /\ RetryDelay(row[j].attempts) \in 0..BackoffCap
    <3>1. row[j].attempts \in 1..MaxAttempts
      BY <1>1, <1>6, QueueAssumption DEF IInv, LeaseIsMine, Row
    <3> QED
      BY <3>1, BackoffType
  <2>3. \/ /\ row[j].attempts < MaxAttempts
           /\ row'[j].status = "queued" /\ row'[j].attempts = row[j].attempts
        \/ row'[j].status = "failed" /\ row'[j].attempts = row[j].attempts
    BY <1>1, <2>1, <2>2, RowUpdates, SMTT(40) DEF Terminal, CanRetry
  <2> QED
    BY <1>6, <2>1, <2>3 DEF RowMoves, LeaseIsMine
<1>7. \/ Handle(w, s) \/ (row' = row /\ returned' = returned)
      \/ Complete(w, s) /\ LeaseIsMine(w, j)
      \/ Fail(w, s) /\ LeaseIsMine(w, j)
  BY DEF Complete, Fail, AckLost
<1> QED
  BY <1>2, <1>3, <1>4, <1>5, <1>6, <1>7

LEMMA RecoverMoves ==
    ASSUME IInv, NEW w \in Worker, Recover(w), NEW i \in Job
    PROVE  RowMoves(i)
<1>1. row[i] \in Row /\ returned' = returned
  BY DEF IInv, TypeOK, Recover
<1>2. CASE ~Expired(row[i])
  BY <1>1, <1>2, OthersStay DEF Recover
<1>3. CASE Expired(row[i])
  <2>1. /\ CanRetry(row[i]) => row'[i] = Queued(row[i], row[i].attempts, 0)
        /\ ~CanRetry(row[i]) => row'[i] = Settled(row[i], "failed")
    BY <1>3 DEF Recover
  <2>2. row[i].attempts \in 0..MaxAttempts /\ 0 \in 0..BackoffCap
    BY <1>1, QueueAssumption DEF Row
  <2>3. /\ CanRetry(row[i]) => row'[i].status = "queued" /\ row'[i].attempts = row[i].attempts
        /\ ~CanRetry(row[i]) => row'[i].status = "failed" /\ row'[i].attempts = row[i].attempts
    BY <1>1, <2>1, <2>2, RowUpdates, SMTT(40) DEF Terminal
  <2> QED
    BY <1>1, <1>3, <2>3 DEF RowMoves, Expired, CanRetry
<1> QED
  BY <1>2, <1>3

LEMMA NextMoves ==
    ASSUME IInv, [Next]_vars, NEW i \in Job
    PROVE  RowMoves(i)
<1>1. CASE row' = row /\ returned' = returned
  BY <1>1, OthersStay
<1>2. CASE Tick
  BY <1>2, TickRow DEF RowMoves, Tick, IInv
<1>3. ASSUME NEW w \in Worker, Supervise(w) PROVE RowMoves(i)
  BY <1>1, <1>3, ClaimMoves, TaskMoves, RecoverMoves
     DEF Supervise, Start, Stop, Drained, Crash
<1> QED
  BY <1>1, <1>2, <1>3, QueueMoves DEF Next, vars

(* The queue implements the contract its callers rely on: at most          *)
(* MaxAttempts claims per admission, success only after a handler call     *)
(* returned, terminal rows left alone by every crash, stall and recovery.  *)
THEOREM QueueImplementsContract == Spec => ImplementsContract
<1>1. Init => Contract!Init
  <2> SUFFICES ASSUME Init PROVE Contract!Init
    OBVIOUS
  <2>1. \A j \in Job : row[j].status = "absent" /\ row[j].attempts = 0
    BY NoRowType DEF Init
  <2> QED
    BY <2>1 DEF Init, Contract!Init
<1>2. IInv /\ IInv' /\ [Next]_vars => [Contract!Next]_(Contract!contractVars)
  BY NextMoves, RowMovesContract DEF IInv
<1> QED
  BY <1>1, <1>2, InitInv, NextInv, PTL DEF Spec, ImplementsContract, Contract!Spec
===============================================================================
