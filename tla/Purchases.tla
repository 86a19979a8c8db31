------------------------------- MODULE Purchases -------------------------------
(***************************************************************************)
(* The next purchase of a deal: the date on the deal, one PurchaseSchedule *)
(* row per date the deal ever had, the task and the purchase.due_soon      *)
(* event a background job makes of an active schedule, and what editing,   *)
(* reassigning, importing and deleting the deal or its task does to them.  *)
(*                                                                         *)
(* A request is one transaction that locks Deal, PurchaseSchedule and Task *)
(* in this order.  The job is not: schedule_purchase reads the schedule    *)
(* without a lock, and the locking SELECT of ensure_purchase_task, in the  *)
(* same session, returns the object already read with its attributes as    *)
(* they were (the session refreshes none, there is no populate_existing).  *)
(***************************************************************************)
EXTENDS JobRow

CONSTANTS
    Dates,          \* values of Deal.next_purchase_at
    NoDate,
    Users,
    Employees,      \* the users with Role.employee
    Nobody

ASSUME PurchaseAssumption ==
    /\ Employees \subseteq Users
    /\ NoDate \notin Dates /\ Nobody \notin Users

Someone == Users \cup {Nobody}

VARIABLES
    deal,           \* the deals row
    schedule,       \* schedule[d]: its purchase_schedules row for date d
    task,           \* task[d]: the task of that schedule
    reminder,       \* reminder[d]: how far its purchase.due_soon has come
    job,            \* job[d]: the row with key purchase-schedule:{id}:task
    run,            \* run[d]: the handler call of that job's claim
    made            \* history: tasks made for each schedule

vars == <<deal, schedule, task, reminder, job, run, made>>
rows == <<deal, schedule, task, reminder>>

Deal == [state : {"absent", "live", "deleted"},
         date : Dates \cup {NoDate}, assignee : Someone]

(* A cancelled schedule has no assignee here.  Its task, if any, is left   *)
(* as an ordinary one, whose assignee and fate no longer matter.           *)
Schedule == [status : {"absent", "cancelled"}, assignee : {Nobody}]
            \cup [status : {"active"}, assignee : Users]

(* "closed" is completed or cancelled, or deleted with its schedule.       *)
Task == {[status |-> "none", assignee |-> Nobody]}
        \cup [status : {"open", "closed"}, assignee : Someone]

(* The outbox event, its expansion after the schedule was read, the        *)
(* delivery; "over" once sent or cancelled.                                *)
Reminder == {"none", "event", "expanding", "pending", "over"}

Idle == [stage |-> "idle", assignee |-> Nobody]

Run == [stage : {"idle", "started", "read", "ok", "error"},
        assignee : Someone]     \* of the schedule as it was read

TypeOK ==
    /\ deal \in Deal
    /\ schedule \in [Dates -> Schedule]
    /\ task \in [Dates -> Task]
    /\ reminder \in [Dates -> Reminder]
    /\ job \in [Dates -> JobRowType]
    /\ run \in [Dates -> Run]
    /\ made \in [Dates -> 0..2]

Absent == [status |-> "absent", assignee |-> Nobody]
NoTask == [status |-> "none", assignee |-> Nobody]
Cancelled == [status |-> "cancelled", assignee |-> Nobody]
Active(u) == [status |-> "active", assignee |-> u]
Open(u) == [status |-> "open", assignee |-> u]
Left(t) == [t EXCEPT !.assignee = Nobody]
Closed(t) == [t EXCEPT !.status = "closed"]

Init ==
    /\ deal = [state |-> "absent", date |-> NoDate, assignee |-> Nobody]
    /\ schedule = [d \in Dates |-> Absent]
    /\ task = [d \in Dates |-> NoTask]
    /\ reminder = [d \in Dates |-> "none"]
    /\ job = [d \in Dates |-> NoJob]
    /\ run = [d \in Dates |-> Idle]
    /\ made = [d \in Dates |-> 0]

IsActive(d) == schedule[d].status = "active"
IsOpen(d) == task[d].status = "open"
HasTask(d) == task[d].status \in {"open", "closed"}    \* task_id is not NULL

-------------------------------------------------------------------------------
(* Requests.                                                               *)

(* The deal's assignee or, without one, whom the code falls back to. *)
Responsible(a, u) == IF a = Nobody THEN u ELSE a

(* Faulty variant of SyncPurchaseSchedule: nothing asks whose task it is.  *)
SyncAnyTask(d, v, u) ==
    /\ schedule' = [e \in Dates |->
          IF e = d THEN IF schedule[e].status = "cancelled" THEN schedule[e] ELSE Active(v)
          ELSE IF IsActive(e) THEN Cancelled ELSE schedule[e]]
    /\ task' = [e \in Dates |->
          IF ~IsActive(e) THEN task[e]
          ELSE IF e # d THEN Left(task[e])
          ELSE IF IsOpen(e) THEN Open(v) ELSE task[e]]

(* Faulty variant of SyncPurchaseSchedule: the schedule of the date before *)
(* stays active.                                                           *)
SyncWithoutCancel(d, v, u) ==
    /\ u \in Employees /\ d \in Dates =>
          ~(IsActive(d) /\ IsOpen(d) /\ task[d].assignee # u)
    /\ schedule' = [e \in Dates |->
          IF e = d /\ schedule[e].status # "cancelled" THEN Active(v) ELSE schedule[e]]
    /\ task' = [e \in Dates |->
          IF ~IsActive(e) THEN task[e]
          ELSE IF e # d THEN Left(task[e])
          ELSE IF IsOpen(e) THEN Open(v) ELSE task[e]]

(* _sync_purchase_schedule for date d and responsible user v, on behalf of *)
(* u: other active schedules are cancelled, that of d goes to v with its   *)
(* open task, and is created if d has none yet, ON CONFLICT DO NOTHING.    *)
(* An employee must not touch a task that went to someone else.            *)
SyncPurchaseSchedule(d, v, u) ==
    /\ u \in Employees /\ d \in Dates =>
          ~(IsActive(d) /\ IsOpen(d) /\ task[d].assignee # u)
    /\ schedule' = [e \in Dates |->
          IF e = d THEN IF schedule[e].status = "cancelled" THEN schedule[e] ELSE Active(v)
          ELSE IF IsActive(e) THEN Cancelled ELSE schedule[e]]
    /\ task' = [e \in Dates |->
          IF ~IsActive(e) THEN task[e]
          ELSE IF e # d THEN Left(task[e])
          ELSE IF IsOpen(e) THEN Open(v) ELSE task[e]]

MayWrite(u) == u \in Employees => deal.assignee = u

CreateDeal(u, d, a) ==
    /\ deal.state = "absent"
    /\ u \in Employees => a = u
    /\ deal' = [state |-> "live", date |-> d, assignee |-> a]
    /\ SyncPurchaseSchedule(d, Responsible(a, u), u)
    /\ UNCHANGED <<reminder, job, run, made>>

(* Faulty variant of UpdateDeal: a new assignee alone brings no sync.      *)
UpdateDealByDate(u, d, a) ==
    /\ deal.state = "live" /\ MayWrite(u)
    /\ u \in Employees => a = u
    /\ deal' = [deal EXCEPT !.date = d, !.assignee = a]
    /\ IF d # deal.date THEN SyncPurchaseSchedule(d, Responsible(a, u), u)
                        ELSE UNCHANGED <<schedule, task>>
    /\ UNCHANGED <<reminder, job, run, made>>

(* A new date, assignee or contact, each of which brings a sync. *)
UpdateDeal(u, d, a) ==
    /\ deal.state = "live" /\ MayWrite(u)
    /\ u \in Employees => a = u
    /\ deal' = [deal EXCEPT !.date = d, !.assignee = a]
    /\ SyncPurchaseSchedule(d, Responsible(a, u), u)
    /\ UNCHANGED <<reminder, job, run, made>>

(* The deal's active schedules, their open tasks and the events not yet    *)
(* dispatched are cancelled with it.                                       *)
DeleteDeal(u) ==
    /\ deal.state = "live" /\ u \notin Employees
    /\ deal' = [deal EXCEPT !.state = "deleted"]
    /\ task' = [d \in Dates |-> IF ~IsActive(d) THEN task[d]
                             ELSE Left(IF IsOpen(d) THEN Closed(task[d]) ELSE task[d])]
    /\ schedule' = [d \in Dates |-> IF IsActive(d) THEN Cancelled ELSE schedule[d]]
    /\ reminder' = [d \in Dates |->
          IF IsActive(d) /\ reminder[d] = "event" THEN "over" ELSE reminder[d]]
    /\ UNCHANGED <<job, run, made>>

(* PulseAmoWriter._deal on an existing deal: the source's assignee, or the *)
(* first active owner or admin for the schedule of a deal without one.     *)
ImportDeal(a, owner) ==
    /\ deal.state = "live" /\ owner \notin Employees
    /\ deal' = [deal EXCEPT !.assignee = a]
    /\ schedule' = [d \in Dates |->
          IF IsActive(d) THEN Active(Responsible(a, owner)) ELSE schedule[d]]
    /\ task' = [d \in Dates |->
          IF IsActive(d) /\ IsOpen(d) THEN Open(Responsible(a, owner)) ELSE task[d]]
    /\ UNCHANGED <<reminder, job, run, made>>

(* update_task: close, reopen or reassign; an employee only its own. *)
UpdateTask(u, d, v) ==
    /\ IsActive(d) /\ HasTask(d)
    /\ u \in Employees => task[d].assignee = u /\ v = u
    /\ \E st \in {"open", "closed"} : task' = [task EXCEPT ![d] = [status |-> st, assignee |-> v]]
    /\ UNCHANGED <<deal, schedule, reminder, job, run, made>>

DeleteTask(u, d) ==
    /\ IsActive(d) /\ HasTask(d) /\ u \notin Employees
    /\ task' = [task EXCEPT ![d] = Left(Closed(@))]
    /\ schedule' = [schedule EXCEPT ![d] = Cancelled]
    /\ reminder' = [reminder EXCEPT ![d] = IF @ = "event" THEN "over" ELSE @]
    /\ UNCHANGED <<deal, job, run, made>>

-------------------------------------------------------------------------------
(* The scheduler, the supervisor and the job.                              *)

SchedulePurchases ==
    /\ job' = [d \in Dates |->
          IF IsActive(d) /\ ~HasTask(d) THEN Enqueued(job[d]) ELSE job[d]]
    /\ UNCHANGED <<rows, run, made>>

Goes(d, stage) == run' = [run EXCEPT ![d] = [Idle EXCEPT !.stage = stage]]

Claim(d) ==
    /\ Claimable(job[d]) /\ run[d] = Idle
    /\ job' = [job EXCEPT ![d] = Claimed(@)]
    /\ Goes(d, "started")
    /\ UNCHANGED <<rows, made>>

(* Faulty variant of ReadSchedule: task_id is not looked at.               *)
ReadScheduleUnlinked(d) ==
    /\ run[d].stage = "started"
    /\ IF IsActive(d)
       THEN run' = [run EXCEPT ![d] = [stage |-> "read", assignee |-> schedule[d].assignee]]
       ELSE Goes(d, "ok")
    /\ UNCHANGED <<rows, job, made>>

(* schedule_purchase, its first read *)
ReadSchedule(d) ==
    /\ run[d].stage = "started"
    /\ IF IsActive(d) /\ ~HasTask(d)
       THEN run' = [run EXCEPT ![d] = [stage |-> "read", assignee |-> schedule[d].assignee]]
       ELSE Goes(d, "ok")
    /\ UNCHANGED <<rows, job, made>>

(* ensure_purchase_task for a schedule that was active and had no task *)
EnsurePurchaseTask(d) ==
    /\ run[d].stage = "read"
    /\ task' = [task EXCEPT ![d] = Open(IF IsActive(d) THEN run[d].assignee ELSE Nobody)]
    /\ reminder' = [reminder EXCEPT ![d] = "event"]
    /\ made' = [made EXCEPT ![d] = @ + 1]
    /\ Goes(d, "ok")
    /\ UNCHANGED <<deal, schedule, job>>

(* Faulty variant of CallFails: the error is swallowed.                    *)
CallFailsSwallowed(d) ==
    /\ run[d].stage \in {"started", "read"}
    /\ Goes(d, "ok")
    /\ UNCHANGED <<rows, job, made>>

(* A database error, or the timeout *)
CallFails(d) ==
    /\ run[d].stage \in {"started", "read"}
    /\ Goes(d, "error")
    /\ UNCHANGED <<rows, job, made>>

Acknowledge(d) ==
    /\ run[d].stage \in {"ok", "error"}
    /\ \/ job' = [job EXCEPT ![d] = IF run[d].stage = "ok" THEN Completed(@) ELSE Failed(@)]
       \/ UNCHANGED job    \* the transaction failed
    /\ Goes(d, "idle")
    /\ UNCHANGED <<rows, made>>

Recover(d) ==
    /\ job[d].status = "running" /\ run[d] = Idle
    /\ job' = [job EXCEPT ![d] = RetriedOrFailed(@)]
    /\ UNCHANGED <<rows, run, made>>

Crash ==
    /\ run' = [d \in Dates |-> Idle]
    /\ UNCHANGED <<rows, job, made>>

(* cleanup deletes a finished job after 14 days, retry resets a failed one. *)
CleanupJob(d) ==
    /\ job[d].status \in Terminal
    /\ job' = [job EXCEPT ![d] = NoJob]
    /\ UNCHANGED <<rows, run, made>>

RetryJob(d) ==
    /\ job[d].status = "failed"
    /\ job' = [job EXCEPT ![d] = Reset(@)]
    /\ UNCHANGED <<rows, run, made>>

(* The reminder: dispatch_outbox, expand_notification, which reads the     *)
(* schedule without a lock before it commits the delivery, and its sending.*)
ForwardReminder(d) ==
    /\ reminder[d] \notin {"none", "over"}
    /\ reminder' = [reminder EXCEPT ![d] =
          CASE @ = "event" -> IF IsActive(d) THEN "expanding" ELSE "over"
            [] @ = "expanding" -> "pending"
            [] @ = "pending" -> "over"]
    /\ UNCHANGED <<deal, schedule, task, job, run, made>>

Request ==
    \E u \in Users :
        \/ \E d \in Dates \cup {NoDate}, a \in Someone : CreateDeal(u, d, a) \/ UpdateDeal(u, d, a)
        \/ DeleteDeal(u)
        \/ \E a \in Someone : ImportDeal(a, u)
        \/ \E d \in Dates : DeleteTask(u, d) \/ \E v \in Users : UpdateTask(u, d, v)

Works(d) == ReadSchedule(d) \/ EnsurePurchaseTask(d) \/ CallFails(d) \/ Acknowledge(d)

Next ==
    \/ Request \/ SchedulePurchases \/ Crash
    \/ \E d \in Dates :
          Claim(d) \/ Works(d) \/ Recover(d) \/ CleanupJob(d) \/ RetryJob(d) \/ ForwardReminder(d)

Spec == Init /\ [][Next]_vars

(* The scheduler ticks; a row that is due is claimed; calls end and leases *)
(* expire.  It is enough to ask this of the job of the deal's present date. *)
Fairness ==
    /\ WF_vars(SchedulePurchases)
    /\ SF_vars(\E d \in Dates : d = deal.date /\ Claim(d))
    /\ WF_vars(\E d \in Dates : d = deal.date /\ (Works(d) \/ Recover(d)))

FairSpec == Spec /\ Fairness

-------------------------------------------------------------------------------
(* Properties.                                                             *)

(* Whatever the deal, its tasks and the import went through, no schedule   *)
(* is active but that of the live deal's present date: an earlier date, a  *)
(* deleted deal or a deleted task leaves none behind.                      *)
OnlyTheDealsDate ==
    \A d \in Dates : IsActive(d) => deal.state = "live" /\ deal.date = d

(* A date gets its task and its reminder once, although the job that makes *)
(* them may be repeated after it has committed, deleted and enqueued anew. *)
OneTaskPerDate == \A d \in Dates : made[d] <= 1

(* The active schedule is the deal's assignee's if the deal has one, after *)
(* every mix of edits and imports.                                         *)
AssigneeInSync ==
    \A d \in Dates :
        IsActive(d) /\ deal.assignee # Nobody => schedule[d].assignee = deal.assignee

(* An employee who edits an own deal does not change an open task that has *)
(* gone to someone else.                                                   *)
EmployeeKeepsOff ==
    [][\A u \in Employees, e \in Dates :
          IsOpen(e) /\ task[e].assignee # u /\ task'[e] \notin {task[e], Left(task[e])} =>
              ~\E d \in Dates \cup {NoDate} : UpdateDeal(u, d, u)]_vars

(* An active schedule gets its task, or its job is there as failed, unless *)
(* it is cancelled first.                                                  *)
ScheduleGetsTask ==
    (\E d \in Dates : IsActive(d)) ~>
        \A d \in Dates : IsActive(d) => HasTask(d) \/ job[d].status = "failed"

-------------------------------------------------------------------------------
(* What the documentation says and the code does not do.                   *)

(* "Keep the durable next-purchase schedule aligned with a deal date": a   *)
(* date that is set has an active schedule.  The row of a date the deal    *)
(* had before is still there, cancelled, and ON CONFLICT DO NOTHING leaves *)
(* it so.                                                                  *)
DateGetsSchedule ==
    [][deal'.date # deal.date /\ deal'.date # NoDate =>
          schedule'[deal'.date].status = "active"]_vars

(* A deletion "does not let the supervisor create or send a new reminder": *)
(* after it no task is made, and no pending delivery is sent.  delete_deal  *)
(* leaves pending deliveries of purchase reminders alone, and the job       *)
(* decides on the schedule as it was before it waited for the lock.         *)
NoReminderAfterDeletion ==
    [][deal.state = "deleted" =>
          /\ made' = made
          /\ \A d \in Dates : reminder[d] = "pending" => reminder'[d] = "pending"]_vars
===============================================================================
