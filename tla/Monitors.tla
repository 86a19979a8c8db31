-------------------------------- MODULE Monitors --------------------------------
(***************************************************************************)
(* Reminders of a task that is due soon or overdue, and of a deal nobody   *)
(* has touched for a week: the scheduler looks for them, one job per       *)
(* occurrence emits the event, and a marker keeps it from being emitted    *)
(* again.  The job's key is the occurrence, and a key is used once until   *)
(* the cleanup removes the finished job.                                   *)
(*                                                                         *)
(* One subject of one of the three kinds.  Its occurrence is remind_at,    *)
(* due_at, or a week after last_activity_at.                               *)
(***************************************************************************)
EXTENDS JobRow

CONSTANT MaxTime    \* bound on the clock

VARIABLES
    now,
    subject,        \* the task or deal: kind, open, its occurrence (0: none)
                    \* and, for a reminder, when the task is due
    job,            \* job[o]: the row of the occurrence's key
    call,           \* call[o]: the handler call of the job's claim
    marked,         \* occurrences with a ScheduledEventMarker
    emitted,        \* emitted[o]: events so far
    passed          \* history: occurrences whose job found another one, or none,
                    \* or was settled unrun

vars == <<now, subject, job, call, marked, emitted, passed>>

Time == 1..MaxTime

Subject == [kind : {"due soon", "overdue", "inactive"}, open : BOOLEAN,
            at : {0} \cup Time, until : Time]

TypeOK ==
    /\ now \in {0} \cup Time
    /\ subject \in Subject
    /\ job \in [Time -> JobRowType]
    /\ call \in [Time -> {"idle", "started", "ok", "error"}]
    /\ marked \subseteq Time /\ passed \subseteq Time
    /\ emitted \in [Time -> 0..2]

Init ==
    /\ now = 0
    /\ subject \in [kind : {"due soon", "overdue", "inactive"}, open : {TRUE}, at : {1},
                    until : {MaxTime}]
    /\ job = [o \in Time |-> NoJob]
    /\ call = [o \in Time |-> "idle"]
    /\ marked = {}
    /\ emitted = [o \in Time |-> 0]
    /\ passed = {}

queue == <<job, call>>
events == <<marked, emitted, passed>>

Goes(o, stage) == call' = [call EXCEPT ![o] = stage]

Tick ==
    /\ now < MaxTime
    /\ now' = now + 1
    /\ UNCHANGED <<subject, queue, events>>

-------------------------------------------------------------------------------
(* Users.  A task can be moved, closed and opened at will; remind_at is    *)
(* not after due_at.                                                       *)

UpdateTask(open, at, until) ==
    /\ subject.kind # "inactive"
    /\ subject.kind = "due soon" => at <= until
    /\ subject.kind = "overdue" => at # 0 /\ until = MaxTime
    /\ subject' = [subject EXCEPT !.open = open, !.at = at, !.until = until]
    /\ UNCHANGED <<now, queue, events>>

(* Any work on a deal, its transitions included, is an activity. *)
TouchDeal(open) ==
    /\ subject.kind = "inactive" /\ now < MaxTime
    /\ subject' = [subject EXCEPT !.open = open, !.at = now + 1]
    /\ UNCHANGED <<now, queue, events>>

(* The import writes the source's time, of the past. *)
ImportDeal(at) ==
    /\ subject.kind = "inactive" /\ at # 0 /\ at <= now + 1
    /\ subject' = [subject EXCEPT !.at = at]
    /\ UNCHANGED <<now, queue, events>>

(* The task is cancelled with its deal, and its queued jobs are settled.   *)
DeleteDeal ==
    LET settled == {o \in Time : subject.kind # "inactive" /\ job[o].status = "queued"}
    IN
    /\ subject.open
    /\ subject' = [subject EXCEPT !.open = FALSE]
    /\ job' = [o \in Time |-> IF o \in settled THEN Ended("succeeded") ELSE job[o]]
    /\ passed' = passed \cup settled
    /\ UNCHANGED <<now, call, marked, emitted>>

-------------------------------------------------------------------------------
Occurs(o) == subject.open /\ subject.at = o /\ o <= now

Schedule(o) ==
    /\ Occurs(o) /\ o \notin marked
    /\ job' = [job EXCEPT ![o] = Enqueued(@)]
    /\ UNCHANGED <<now, subject, call, events>>

ScheduleTaskEvent(o) ==
    /\ subject.kind # "inactive"
    /\ subject.kind = "due soon" => now < subject.until
    /\ Schedule(o)

ScheduleInactiveDeal(o) == subject.kind = "inactive" /\ Schedule(o)

Claim(o) ==
    /\ Claimable(job[o]) /\ call[o] = "idle"
    /\ job' = [job EXCEPT ![o] = Claimed(@)]
    /\ Goes(o, "started")
    /\ UNCHANGED <<now, subject, events>>

(* Faulty variant of Emit: the marker is not looked at. *)
EmitUnmarked(o) ==
    /\ call[o] = "started"
    /\ IF Occurs(o)
       THEN /\ marked' = marked \cup {o} /\ passed' = passed
            /\ emitted' = [emitted EXCEPT ![o] = @ + 1]
       ELSE passed' = passed \cup {o} /\ UNCHANGED <<marked, emitted>>
    /\ \/ Goes(o, "ok")
       \/ Goes(o, "error")
    /\ UNCHANGED <<now, subject, job>>

(* Under the subject's lock; the call may still end in an error after its  *)
(* commit.                                                                 *)
Emit(o) ==
    /\ call[o] = "started"
    /\ IF Occurs(o) /\ o \notin marked
       THEN /\ marked' = marked \cup {o} /\ passed' = passed
            /\ emitted' = [emitted EXCEPT ![o] = @ + 1]
       ELSE /\ passed' = IF Occurs(o) THEN passed ELSE passed \cup {o}
            /\ UNCHANGED <<marked, emitted>>
    /\ \/ Goes(o, "ok")
       \/ Goes(o, "error")
    /\ UNCHANGED <<now, subject, job>>

EmitTaskEvent(o) == subject.kind # "inactive" /\ Emit(o)

EmitDealInactive(o) == subject.kind = "inactive" /\ Emit(o)

EmitFails(o) ==
    /\ call[o] = "started"
    /\ Goes(o, "error")
    /\ UNCHANGED <<now, subject, job, events>>

Acknowledge(o) ==
    /\ call[o] \in {"ok", "error"}
    /\ \/ job' = [job EXCEPT ![o] = IF call[o] = "ok" THEN Completed(@) ELSE Failed(@)]
       \/ UNCHANGED job
    /\ Goes(o, "idle")
    /\ UNCHANGED <<now, subject, events>>

Recover(o) ==
    /\ job[o].status = "running" /\ call[o] = "idle"
    /\ job' = [job EXCEPT ![o] = RetriedOrFailed(@)]
    /\ UNCHANGED <<now, subject, call, events>>

Crash ==
    /\ call' = [o \in Time |-> "idle"]
    /\ UNCHANGED <<now, subject, job, events>>

(* cleanup, after 14 days; markers stay. *)
CleanupJob(o) ==
    /\ job[o].status \in Terminal
    /\ job' = [job EXCEPT ![o] = NoJob]
    /\ UNCHANGED <<now, subject, call, events>>

RetryJob(o) ==
    /\ job[o].status = "failed"
    /\ job' = [job EXCEPT ![o] = Reset(@)]
    /\ UNCHANGED <<now, subject, call, events>>

Next ==
    \/ Tick \/ DeleteDeal \/ Crash
    \/ \E open \in BOOLEAN :
          \/ TouchDeal(open)
          \/ \E at \in {0} \cup Time, until \in Time : UpdateTask(open, at, until)
    \/ \E o \in Time :
          \/ ImportDeal(o) \/ ScheduleTaskEvent(o) \/ ScheduleInactiveDeal(o) \/ Claim(o)
          \/ EmitTaskEvent(o) \/ EmitDealInactive(o) \/ EmitFails(o) \/ Acknowledge(o)
          \/ Recover(o) \/ CleanupJob(o) \/ RetryJob(o)

Spec == Init /\ [][Next]_vars

-------------------------------------------------------------------------------
(* An occurrence is told once, though its job may be repeated after it has *)
(* committed, removed and made anew.  And it is told: an occurrence that   *)
(* stands, whose job is done, has its event, unless the subject was closed *)
(* or moved away when the job ended, and has come back since.              *)
OccurrencesHold ==
    \A o \in Time :
        /\ emitted[o] <= 1
        /\ Occurs(o) /\ job[o].status = "succeeded" => emitted[o] = 1 \/ o \in passed
===============================================================================
