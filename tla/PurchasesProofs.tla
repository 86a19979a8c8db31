---------------------------- MODULE PurchasesProofs ----------------------------
(***************************************************************************)
(* Proofs about Purchases, for all dates, users and numbers of attempts.   *)
(***************************************************************************)
EXTENDS Purchases, JobRowProofs

(* All the argument needs of the types. *)
DealAndSchedules == deal \in Deal /\ DOMAIN schedule = Dates

(* What a sync for date d leaves active, if anything, is the row of d.     *)
LEMMA SyncLeavesOne ==
    ASSUME NEW d, NEW v, NEW u, SyncPurchaseSchedule(d, v, u)
    PROVE  /\ DOMAIN schedule' = Dates
           /\ \A e \in Dates : schedule'[e].status = "active" => e = d
BY DEF SyncPurchaseSchedule, IsActive, Cancelled

(* Whatever the deal, its task and the import go through, no schedule is   *)
(* active but that of the live deal's present date.  With the types it is  *)
(* inductive: an action that changes the date, or activates a row, does it *)
(* through a sync, and one that deletes the deal cancels what is active.   *)
THEOREM OnlyTheDealsDateHolds == Spec => []OnlyTheDealsDate
<1> DEFINE IInv == DealAndSchedules /\ OnlyTheDealsDate
<1>1. Init => IInv
  BY DEF Init, DealAndSchedules, Deal, Someone, OnlyTheDealsDate, IsActive, Absent
<1>2. IInv /\ [Next]_vars => IInv'
  <2> SUFFICES ASSUME DealAndSchedules, OnlyTheDealsDate, [Next]_vars
               PROVE  DealAndSchedules' /\ OnlyTheDealsDate'
    OBVIOUS
  <2> USE DEF DealAndSchedules, OnlyTheDealsDate, IsActive
  <2>1. ASSUME NEW u \in Users, NEW d \in Dates \cup {NoDate}, NEW a \in Someone,
               CreateDeal(u, d, a)
        PROVE  DealAndSchedules' /\ OnlyTheDealsDate'
    BY <2>1, SyncLeavesOne DEF CreateDeal, Deal
  <2>2. ASSUME NEW u \in Users, NEW d \in Dates \cup {NoDate}, NEW a \in Someone,
               UpdateDeal(u, d, a)
        PROVE  DealAndSchedules' /\ OnlyTheDealsDate'
    <3>1. deal' \in Deal /\ deal'.state = "live" /\ deal'.date = d
      BY <2>2 DEF UpdateDeal, Deal
    <3>2. QED BY <2>2, <3>1, SyncLeavesOne DEF UpdateDeal
  <2>3. ASSUME NEW u, DeleteDeal(u)
        PROVE  DealAndSchedules' /\ OnlyTheDealsDate'
    <3>1. deal' \in Deal
      BY <2>3 DEF DeleteDeal, Deal
    <3>2. DOMAIN schedule' = Dates /\ \A d \in Dates : schedule'[d].status # "active"
      BY <2>3 DEF DeleteDeal, Cancelled
    <3>3. QED BY <3>1, <3>2
  <2>4. ASSUME NEW a \in Someone, NEW u, ImportDeal(a, u)
        PROVE  DealAndSchedules' /\ OnlyTheDealsDate'
    <3>1. deal' \in Deal /\ deal'.state = "live" /\ deal'.date = deal.date
      BY <2>4 DEF ImportDeal, Deal
    <3>2. DOMAIN schedule' = Dates
          /\ \A d \in Dates : schedule'[d].status = "active" => schedule[d].status = "active"
      BY <2>4 DEF ImportDeal, Active
    <3>3. QED BY <3>1, <3>2
  <2>5. ASSUME NEW u, NEW d \in Dates, DeleteTask(u, d)
        PROVE  DealAndSchedules' /\ OnlyTheDealsDate'
    BY <2>5 DEF DeleteTask, Cancelled
  <2>6. ASSUME NEW u, NEW d, NEW v, UpdateTask(u, d, v)
        PROVE  UNCHANGED <<deal, schedule>>
    BY <2>6 DEF UpdateTask
  <2>7. ASSUME NEW d, \/ Claim(d) \/ Works(d) \/ Recover(d) \/ CleanupJob(d)
                      \/ RetryJob(d) \/ ForwardReminder(d)
        PROVE  UNCHANGED <<deal, schedule>>
    BY <2>7 DEF Claim, Works, ReadSchedule, EnsurePurchaseTask, CallFails, Acknowledge,
                Recover, CleanupJob, RetryJob, ForwardReminder, rows
  <2>8. SchedulePurchases \/ Crash \/ UNCHANGED vars => UNCHANGED <<deal, schedule>>
    BY DEF SchedulePurchases, Crash, rows, vars
  <2>9. UNCHANGED <<deal, schedule>> => DealAndSchedules' /\ OnlyTheDealsDate'
    OBVIOUS
  <2>10. QED
    BY <2>1, <2>2, <2>3, <2>4, <2>5, <2>6, <2>7, <2>8, <2>9 DEF Next, Request
<1>3. QED
  BY <1>1, <1>2, PTL DEF Spec

-------------------------------------------------------------------------------
(* Types, and the one task of a date.                                      *)

(* A date's task was made once if there is one, and a call that has read   *)
(* the schedule without a task is the only one that can still make it.     *)
OneMaker ==
    \A d \in Dates :
        /\ made[d] = IF HasTask(d) THEN 1 ELSE 0
        /\ run[d].stage = "read" => ~HasTask(d)

(* Requests hand a task over, close it or leave it; they make none. *)
KeepsTasks == \A d \in Dates : HasTask(d)' <=> HasTask(d)

LEMMA IdleRun == Idle \in Run
BY DEF Idle, Run, Someone

LEMMA GoesRun ==
    ASSUME TypeOK, NEW d \in Dates,
           NEW st \in {"idle", "started", "ok", "error"}, Goes(d, st)
    PROVE  /\ run' \in [Dates -> Run] /\ run'[d].stage = st
           /\ \A e \in Dates : e # d => run'[e] = run[e]
<1>1. [Idle EXCEPT !.stage = st] \in Run /\ [Idle EXCEPT !.stage = st].stage = st
  BY DEF Idle, Run, Someone
<1> QED BY <1>1 DEF TypeOK, Goes

(* The rows a task can be left as. *)
LEMMA TaskRow ==
    ASSUME NEW t \in Task, NEW v \in Someone
    PROVE  /\ Left(t) \in Task /\ Left(t).status = t.status
           /\ t.status # "none" => Closed(t) \in Task /\ Closed(t).status = "closed"
           /\ Open(v) \in Task /\ Open(v).status = "open"
BY DEF Task, Left, Closed, Open, Someone

LEMMA ScheduleRow ==
    ASSUME NEW v \in Users
    PROVE  Active(v) \in Schedule /\ Cancelled \in Schedule
BY DEF Schedule, Active, Cancelled

LEMMA ResponsibleIs ==
    ASSUME NEW a \in Someone, NEW u \in Users
    PROVE  Responsible(a, u) \in Users /\ (a # Nobody => Responsible(a, u) = a)
BY DEF Responsible, Someone

LEMMA SyncKeeps ==
    ASSUME TypeOK, NEW d \in Dates \cup {NoDate}, NEW v \in Users, NEW u,
           SyncPurchaseSchedule(d, v, u)
    PROVE  /\ schedule' \in [Dates -> Schedule]
           /\ task' \in [Dates -> Task]
           /\ KeepsTasks
           /\ \A e \in Dates : schedule'[e].status = "active" => schedule'[e].assignee = v
<1>1. v \in Someone
  BY DEF Someone
<1>2. ASSUME NEW e \in Dates
      PROVE  LET s == IF e = d THEN IF schedule[e].status = "cancelled" THEN schedule[e]
                                                                       ELSE Active(v)
                      ELSE IF IsActive(e) THEN Cancelled ELSE schedule[e]
             IN  s \in Schedule /\ (s.status = "active" => s.assignee = v)
  BY <1>2, ScheduleRow DEF TypeOK, IsActive, Active, Cancelled
<1>3. ASSUME NEW e \in Dates
      PROVE  LET t == IF ~IsActive(e) THEN task[e]
                      ELSE IF e # d THEN Left(task[e])
                      ELSE IF IsOpen(e) THEN Open(v) ELSE task[e]
             IN  t \in Task /\ (t.status \in {"open", "closed"} <=> HasTask(e))
  <2>1. task[e] \in Task
    BY <1>3 DEF TypeOK
  <2>2. QED BY <2>1, <1>1, TaskRow DEF HasTask, IsOpen
<1>4. schedule' \in [Dates -> Schedule]
      /\ \A e \in Dates : schedule'[e].status = "active" => schedule'[e].assignee = v
  BY <1>2 DEF SyncPurchaseSchedule
<1>5. task' \in [Dates -> Task] /\ KeepsTasks
  BY <1>3 DEF SyncPurchaseSchedule, KeepsTasks, HasTask
<1> QED BY <1>4, <1>5

-------------------------------------------------------------------------------
Safe == TypeOK /\ OneMaker /\ AssigneeInSync

(* A request keeps what it leaves alone: job, call and history. *)
LEMMA RequestKeeps ==
    ASSUME Safe, UNCHANGED <<job, run, made>>, KeepsTasks,
           deal' \in Deal, schedule' \in [Dates -> Schedule], task' \in [Dates -> Task],
           reminder' \in [Dates -> Reminder], AssigneeInSync'
    PROVE  Safe'
<1>1. TypeOK'
  BY DEF Safe, TypeOK
<1>2. OneMaker'
  BY DEF Safe, OneMaker, KeepsTasks
<1> QED BY <1>1, <1>2 DEF Safe

LEMMA RequestSafe == ASSUME Safe, Request PROVE Safe'
<1>1. PICK u \in Users :
        \/ \E d \in Dates \cup {NoDate}, a \in Someone : CreateDeal(u, d, a) \/ UpdateDeal(u, d, a)
        \/ DeleteDeal(u)
        \/ \E a \in Someone : ImportDeal(a, u)
        \/ \E d \in Dates : DeleteTask(u, d) \/ \E v \in Users : UpdateTask(u, d, v)
  BY DEF Request
<1>2. TypeOK /\ OneMaker /\ AssigneeInSync /\ u \in Someone
  BY DEF Safe, Someone
<1>3. ASSUME NEW d \in Dates \cup {NoDate}, NEW a \in Someone,
             CreateDeal(u, d, a) \/ UpdateDeal(u, d, a)
      PROVE  Safe'
  <2>1. /\ deal' \in Deal /\ deal'.assignee = a
        /\ SyncPurchaseSchedule(d, Responsible(a, u), u)
        /\ UNCHANGED <<reminder, job, run, made>>
    <3>1. deal \in Deal
      BY <1>2 DEF TypeOK
    <3>2. CASE CreateDeal(u, d, a)
      BY <3>2 DEF CreateDeal, Deal
    <3>3. CASE UpdateDeal(u, d, a)
      BY <3>1, <3>3 DEF UpdateDeal, Deal
    <3>4. QED BY <1>3, <3>2, <3>3
  <2>2. /\ schedule' \in [Dates -> Schedule] /\ task' \in [Dates -> Task] /\ KeepsTasks
        /\ \A e \in Dates : schedule'[e].status = "active" =>
                                schedule'[e].assignee = Responsible(a, u)
    BY <1>2, <1>3, <2>1, ResponsibleIs, SyncKeeps
  <2>3. AssigneeInSync'
    BY <1>3, <2>1, <2>2, ResponsibleIs DEF AssigneeInSync, IsActive
  <2>4. reminder' \in [Dates -> Reminder]
    BY <1>2, <2>1 DEF TypeOK
  <2>5. QED BY <2>1, <2>2, <2>3, <2>4, RequestKeeps
<1>4. ASSUME DeleteDeal(u) PROVE Safe'
  <2>1. /\ deal' \in Deal /\ reminder' \in [Dates -> Reminder]
        /\ UNCHANGED <<job, run, made>>
    BY <1>2, <1>4 DEF DeleteDeal, TypeOK, Deal, Reminder
  <2>2. schedule' \in [Dates -> Schedule] /\ \A d \in Dates : schedule'[d].status # "active"
    BY <1>2, <1>4 DEF DeleteDeal, TypeOK, IsActive, Cancelled, Schedule
  <2>3. ASSUME NEW d \in Dates
        PROVE  LET t == IF ~IsActive(d) THEN task[d]
                        ELSE Left(IF IsOpen(d) THEN Closed(task[d]) ELSE task[d])
               IN  t \in Task /\ (t.status \in {"open", "closed"} <=> HasTask(d))
    <3>1. task[d] \in Task
      BY <1>2, <2>3 DEF TypeOK
    <3>2. IsOpen(d) => Closed(task[d]) \in Task /\ Closed(task[d]).status = "closed"
      BY <1>2, <3>1, TaskRow DEF IsOpen
    <3>3. QED BY <1>2, <3>1, <3>2, TaskRow DEF HasTask, IsOpen
  <2>4. task' \in [Dates -> Task] /\ KeepsTasks
    BY <1>4, <2>3 DEF DeleteDeal, KeepsTasks, HasTask
  <2>5. AssigneeInSync'
    BY <2>2 DEF AssigneeInSync, IsActive
  <2>6. QED BY <2>1, <2>2, <2>4, <2>5, RequestKeeps
<1>5. ASSUME NEW a \in Someone, ImportDeal(a, u) PROVE Safe'
  <2> DEFINE v == Responsible(a, u)
  <2>1. /\ deal' \in Deal /\ deal'.assignee = a
        /\ UNCHANGED <<reminder, job, run, made>>
    BY <1>2, <1>5 DEF ImportDeal, TypeOK, Deal
  <2>2. v \in Users /\ v \in Someone /\ (a # Nobody => v = a)
    BY <1>5, ResponsibleIs DEF Someone
  <2> HIDE DEF v
  <2>3. /\ schedule' = [d \in Dates |-> IF IsActive(d) THEN Active(v) ELSE schedule[d]]
        /\ task' = [d \in Dates |-> IF IsActive(d) /\ IsOpen(d) THEN Open(v) ELSE task[d]]
    BY <1>5 DEF ImportDeal, v
  <2>4. /\ schedule' \in [Dates -> Schedule]
        /\ \A d \in Dates : schedule'[d].status = "active" => schedule'[d].assignee = v
    BY <1>2, <2>2, <2>3, ScheduleRow DEF TypeOK, IsActive, Active
  <2>5. ASSUME NEW d \in Dates
        PROVE  LET t == IF IsActive(d) /\ IsOpen(d) THEN Open(v) ELSE task[d]
               IN  t \in Task /\ (t.status \in {"open", "closed"} <=> HasTask(d))
    <3>1. task[d] \in Task
      BY <1>2, <2>5 DEF TypeOK
    <3>2. QED BY <2>2, <3>1, TaskRow DEF HasTask, IsOpen
  <2>6. task' \in [Dates -> Task] /\ KeepsTasks
    BY <2>3, <2>5 DEF KeepsTasks, HasTask
  <2>7. AssigneeInSync'
    BY <2>1, <2>2, <2>4 DEF AssigneeInSync, IsActive
  <2>8. reminder' \in [Dates -> Reminder]
    BY <1>2, <2>1 DEF TypeOK
  <2>9. QED BY <2>1, <2>4, <2>6, <2>7, <2>8, RequestKeeps
<1>6. ASSUME NEW d \in Dates, DeleteTask(u, d) PROVE Safe'
  <2>1. /\ UNCHANGED <<deal, job, run, made>> /\ deal' \in Deal
        /\ schedule' \in [Dates -> Schedule] /\ reminder' \in [Dates -> Reminder]
    BY <1>2, <1>6, ScheduleRow DEF DeleteTask, TypeOK, Reminder
  <2>2. task[d] \in Task /\ task[d].status \in {"open", "closed"}
    BY <1>2, <1>6 DEF DeleteTask, TypeOK, HasTask
  <2>3. Left(Closed(task[d])) \in Task /\ Left(Closed(task[d])).status = "closed"
    BY <1>2, <2>2, TaskRow
  <2>4. task' \in [Dates -> Task] /\ KeepsTasks
    BY <1>2, <1>6, <2>2, <2>3 DEF DeleteTask, TypeOK, KeepsTasks, HasTask
  <2>5. AssigneeInSync'
    BY <1>2, <1>6 DEF DeleteTask, TypeOK, AssigneeInSync, IsActive, Cancelled
  <2>6. QED BY <2>1, <2>4, <2>5, RequestKeeps
<1>7. ASSUME NEW d \in Dates, NEW v \in Users, UpdateTask(u, d, v) PROVE Safe'
  <2>1. UNCHANGED <<deal, schedule, reminder, job, run, made>>
    BY <1>7 DEF UpdateTask
  <2>2. PICK st \in {"open", "closed"} : task' = [task EXCEPT ![d] = [status |-> st, assignee |-> v]]
    BY <1>7 DEF UpdateTask
  <2>3. HasTask(d) /\ [status |-> st, assignee |-> v] \in Task
    BY <1>7 DEF UpdateTask, Task, Someone
  <2>4. task' \in [Dates -> Task] /\ KeepsTasks
    BY <1>2, <2>2, <2>3 DEF TypeOK, KeepsTasks, HasTask
  <2>5. /\ deal' \in Deal /\ schedule' \in [Dates -> Schedule]
        /\ reminder' \in [Dates -> Reminder] /\ AssigneeInSync'
    BY <1>2, <2>1 DEF TypeOK, AssigneeInSync, IsActive
  <2>6. QED BY <2>1, <2>4, <2>5, RequestKeeps
<1> QED BY <1>1, <1>3, <1>4, <1>5, <1>6, <1>7

(* Steps of scheduler, supervisor and job that move neither deal nor       *)
(* schedule; only EnsurePurchaseTask moves a task.                         *)
LEMMA WorkKeeps ==
    ASSUME Safe, UNCHANGED <<deal, schedule>>,
           job' \in [Dates -> JobRowType], run' \in [Dates -> Run],
           task' \in [Dates -> Task], reminder' \in [Dates -> Reminder],
           made' \in [Dates -> 0..2], OneMaker'
    PROVE  Safe'
<1>1. TypeOK'
  BY DEF Safe, TypeOK
<1>2. AssigneeInSync'
  BY DEF Safe, AssigneeInSync, IsActive
<1> QED BY <1>1, <1>2 DEF Safe

(* The same for steps that leave the tasks alone: no call comes to "read". *)
LEMMA StepKeeps ==
    ASSUME Safe, UNCHANGED <<deal, schedule, task, made>>,
           job' \in [Dates -> JobRowType], run' \in [Dates -> Run],
           reminder' \in [Dates -> Reminder],
           \A d \in Dates : run'[d].stage = "read" => run[d].stage = "read" \/ ~HasTask(d)
    PROVE  Safe'
<1>1. /\ task' \in [Dates -> Task] /\ made' \in [Dates -> 0..2]
  BY DEF Safe, TypeOK
<1>2. OneMaker'
  BY DEF Safe, OneMaker, HasTask
<1> QED BY <1>1, <1>2, WorkKeeps

LEMMA WorkSafe ==
    ASSUME Safe, NEW d \in Dates,
           \/ Claim(d) \/ Works(d) \/ Recover(d) \/ CleanupJob(d)
           \/ RetryJob(d) \/ ForwardReminder(d)
    PROVE  Safe'
<1>1. /\ TypeOK /\ OneMaker
      /\ job \in [Dates -> JobRowType] /\ job[d] \in JobRowType
      /\ run \in [Dates -> Run] /\ run[d] \in Run
      /\ reminder \in [Dates -> Reminder] /\ task \in [Dates -> Task]
  BY DEF Safe, TypeOK
<1>2. ASSUME UNCHANGED rows, UNCHANGED <<run, made>>, NEW r \in JobRowType,
             job' = [job EXCEPT ![d] = r]
      PROVE  Safe'
  BY <1>1, <1>2, StepKeeps DEF rows
<1>3. ASSUME UNCHANGED rows, UNCHANGED made, job' \in [Dates -> JobRowType],
             NEW st \in {"idle", "started", "ok", "error"}, Goes(d, st)
      PROVE  Safe'
  <2>1. /\ run' \in [Dates -> Run] /\ run'[d].stage = st
        /\ \A e \in Dates : e # d => run'[e] = run[e]
    BY <1>1, <1>3, GoesRun
  <2>2. UNCHANGED <<deal, schedule, task, made, reminder>>
    BY <1>3 DEF rows
  <2>3. \A e \in Dates : run'[e].stage = "read" => run[e].stage = "read"
    BY <1>3, <2>1
  <2>4. QED BY <1>1, <1>3, <2>1, <2>2, <2>3, StepKeeps
<1>4. CASE Claim(d)
  <2>1. Claimed(job[d]) \in JobRowType
    BY <1>1, <1>4, ClaimedRow DEF Claim
  <2>2. job' \in [Dates -> JobRowType] /\ Goes(d, "started") /\ UNCHANGED rows /\ UNCHANGED made
    BY <1>1, <1>4, <2>1 DEF Claim
  <2>3. QED BY <1>3, <2>2
<1>5. CASE ReadSchedule(d)
  <2>1. UNCHANGED rows /\ UNCHANGED <<job, made>>
    BY <1>5 DEF ReadSchedule
  <2>2. CASE IsActive(d) /\ ~HasTask(d)
    <3>1. run' = [run EXCEPT ![d] = [stage |-> "read", assignee |-> schedule[d].assignee]]
      BY <1>5, <2>2 DEF ReadSchedule
    <3>2. [stage |-> "read", assignee |-> schedule[d].assignee] \in Run
      BY <1>1, <2>2 DEF TypeOK, Schedule, IsActive, Run, Someone
    <3>3. run' \in [Dates -> Run] /\ \A e \in Dates : e # d => run'[e] = run[e]
      BY <1>1, <3>1, <3>2
    <3>4. QED BY <1>1, <2>1, <2>2, <3>3, StepKeeps DEF rows
  <2>3. CASE ~(IsActive(d) /\ ~HasTask(d))
    <3>1. Goes(d, "ok")
      BY <1>5, <2>3 DEF ReadSchedule
    <3>2. QED BY <1>1, <1>3, <2>1, <3>1
  <2> QED BY <2>2, <2>3
<1>6. CASE EnsurePurchaseTask(d)
  <2>1. ~HasTask(d) /\ made[d] = 0
    BY <1>1, <1>6 DEF EnsurePurchaseTask, OneMaker
  <2>2. PICK v \in Someone : task' = [task EXCEPT ![d] = Open(v)]
    BY <1>1, <1>6 DEF EnsurePurchaseTask, Run, Someone
  <2>3. Open(v) \in Task /\ Open(v).status = "open"
    BY <2>2 DEF Open, Task
  <2>4. /\ run' \in [Dates -> Run] /\ run'[d].stage = "ok"
        /\ \A e \in Dates : e # d => run'[e] = run[e]
    BY <1>1, <1>6, GoesRun DEF EnsurePurchaseTask
  <2>5. /\ task' \in [Dates -> Task] /\ HasTask(d)'
        /\ \A e \in Dates : e # d => task'[e] = task[e]
    BY <1>1, <2>2, <2>3 DEF HasTask
  <2>6. /\ made' \in [Dates -> 0..2] /\ made'[d] = 1
        /\ \A e \in Dates : e # d => made'[e] = made[e]
    BY <1>1, <1>6, <2>1 DEF EnsurePurchaseTask, TypeOK
  <2>7. OneMaker'
    BY <1>1, <2>4, <2>5, <2>6 DEF OneMaker, HasTask
  <2>8. /\ UNCHANGED <<deal, schedule, job>>
        /\ reminder' \in [Dates -> Reminder]
    BY <1>1, <1>6 DEF EnsurePurchaseTask, Reminder
  <2>9. QED BY <1>1, <2>4, <2>5, <2>6, <2>7, <2>8, WorkKeeps
<1>7. CASE CallFails(d)
  BY <1>1, <1>3, <1>7 DEF CallFails
<1>8. CASE Acknowledge(d)
  <2>1. Completed(job[d]) \in JobRowType /\ Failed(job[d]) \in JobRowType
    BY <1>1, AcknowledgedRow
  <2>2. job' \in [Dates -> JobRowType] /\ Goes(d, "idle") /\ UNCHANGED rows /\ UNCHANGED made
    BY <1>1, <1>8, <2>1 DEF Acknowledge
  <2>3. QED BY <1>3, <2>2
<1>9. CASE Recover(d)
  BY <1>1, <1>2, <1>9, RetriedRow DEF Recover
<1>10. CASE CleanupJob(d)
  BY <1>2, <1>10, NoJobType DEF CleanupJob
<1>11. CASE RetryJob(d)
  BY <1>1, <1>2, <1>11, ResetRow DEF RetryJob
<1>12. CASE ForwardReminder(d)
  <2>1. UNCHANGED <<deal, schedule, task, job, run, made>>
    BY <1>12 DEF ForwardReminder
  <2>2. reminder' \in [Dates -> Reminder]
    <3>1. reminder[d] \in {"event", "expanding", "pending"}
      BY <1>1, <1>12 DEF ForwardReminder, Reminder
    <3>2. QED BY <1>1, <1>12, <3>1 DEF ForwardReminder, Reminder
  <2>3. QED BY <1>1, <2>1, <2>2, StepKeeps
<1> QED
  BY <1>4, <1>5, <1>6, <1>7, <1>8, <1>9, <1>10, <1>11, <1>12 DEF Works

LEMMA SafeInvariant == Spec => []Safe
<1>1. Init => Safe
  <2> SUFFICES ASSUME Init PROVE Safe
    OBVIOUS
  <2>1. TypeOK
    BY NoJobType, IdleRun DEF Init, TypeOK, Deal, Someone, Schedule, Absent, Task, NoTask,
                              Reminder
  <2>2. OneMaker
    BY DEF Init, OneMaker, HasTask, NoTask, Idle
  <2>3. AssigneeInSync
    BY DEF Init, AssigneeInSync, IsActive, Absent
  <2>4. QED BY <2>1, <2>2, <2>3 DEF Safe
<1>2. Safe /\ [Next]_vars => Safe'
  <2> SUFFICES ASSUME Safe, [Next]_vars PROVE Safe'
    OBVIOUS
  <2>1. TypeOK
    BY DEF Safe
  <2>2. CASE SchedulePurchases
    <3>1. \A d \in Dates : Enqueued(job[d]) \in JobRowType /\ job[d] \in JobRowType
      BY <2>1, EnqueuedRow DEF TypeOK
    <3>2. job' \in [Dates -> JobRowType] /\ UNCHANGED rows /\ UNCHANGED <<run, made>>
      BY <2>2, <3>1 DEF SchedulePurchases
    <3>3. QED BY <2>1, <3>2, StepKeeps DEF TypeOK, rows
  <2>3. CASE Crash
    <3>1. run' \in [Dates -> Run] /\ \A d \in Dates : run'[d].stage # "read"
      BY <2>3, IdleRun DEF Crash, Idle
    <3>2. QED BY <2>1, <2>3, <3>1, StepKeeps DEF Crash, rows, TypeOK
  <2>4. CASE UNCHANGED vars
    BY <2>1, <2>4, StepKeeps DEF vars, TypeOK
  <2>5. QED BY <2>2, <2>3, <2>4, RequestSafe, WorkSafe DEF Next
<1> QED BY <1>1, <1>2, PTL DEF Spec

(* The rows are what their types say, for any dates, users and attempts.   *)
THEOREM TypeCorrect == Spec => []TypeOK
BY SafeInvariant, PTL DEF Safe

(* A date gets its task once although its job is repeated, reset, cleaned  *)
(* up and enqueued anew: whoever finds no task has none made before it.    *)
THEOREM OneTaskPerDateHolds == Spec => []OneTaskPerDate
<1>1. Safe => OneTaskPerDate
  BY DEF Safe, OneMaker, OneTaskPerDate, HasTask
<1> QED BY <1>1, SafeInvariant, PTL

(* After every mix of edits and imports the active schedule is the         *)
(* assignee's of a deal that has one.                                      *)
THEOREM AssigneeInSyncHolds == Spec => []AssigneeInSync
BY SafeInvariant, PTL DEF Safe

(* An edit by an employee leaves every open task of someone else as it is, *)
(* or without an assignee when its schedule is cancelled.                  *)
THEOREM EmployeeKeepsOffHolds == Spec => EmployeeKeepsOff
<1> DEFINE KeepsOff ==
      \A u \in Employees, e \in Dates :
          IsOpen(e) /\ task[e].assignee # u /\ task'[e] \notin {task[e], Left(task[e])} =>
              ~\E d \in Dates \cup {NoDate} : UpdateDeal(u, d, u)
<1>1. KeepsOff
  <2> SUFFICES ASSUME NEW u \in Employees, NEW e \in Dates, IsOpen(e), task[e].assignee # u,
                      NEW d \in Dates \cup {NoDate}, UpdateDeal(u, d, u)
               PROVE  task'[e] \in {task[e], Left(task[e])}
    OBVIOUS
  <2>1. SyncPurchaseSchedule(d, Responsible(u, u), u)
    BY DEF UpdateDeal
  <2>2. ~(e = d /\ IsActive(e))
    BY <2>1 DEF SyncPurchaseSchedule
  <2>3. QED BY <2>1, <2>2 DEF SyncPurchaseSchedule
<1>2. Spec => [][KeepsOff]_vars
  BY <1>1, PTL
<1>3. QED BY <1>2 DEF EmployeeKeepsOff
===============================================================================
