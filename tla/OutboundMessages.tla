--------------------------- MODULE OutboundMessages ---------------------------
(***************************************************************************)
(* A reply to a client on its way to the channel's provider: the message   *)
(* row and its outbox event written in one transaction, the dispatch job   *)
(* that turns the event into a send job, the scheduler that enqueues both  *)
(* again, and the send_message handler, which calls the provider between   *)
(* two transactions of its own.                                            *)
(***************************************************************************)
EXTENDS JobRow

CONSTANTS
    Message,        \* messages a user may send
    Concurrency     \* handler tasks the supervisor runs at a time

ASSUME ConcurrencyAssumption == Concurrency \in Nat \ {0}

Slot == 1..Concurrency

Kind == {"dispatch", "send"}    \* outbox:{id}:dispatch, message:{id}:send

VARIABLES
    message,        \* message[m]: Message.status, "none" before it exists
    event,          \* event[m]: the outbox row message.outbound.queued
    job,            \* job[m][k]: the background_jobs row with that dedupe key
    run,            \* run[s]: the handler call in slot s
    accepted,       \* history: provider calls accepted, counted up to 2
    unrecorded,     \* history: an accepted call whose answer was not recorded
    overtaken       \* history: the send job was taken from a call still alive

vars == <<message, event, job, run, accepted, unrecorded, overtaken>>
domain == <<message, event, accepted, unrecorded, overtaken>>

Idle == [stage |-> "idle"]

(* "started", "sending", "accepted" and "raised" are points of a handler   *)
(* between two of its awaits; "ok" and "error" wait to be acknowledged.    *)
HandlerStage == {"started", "sending", "accepted", "raised"}

Run == [stage : HandlerStage \cup {"ok", "error"}, m : Message, kind : Kind,
        last : BOOLEAN,     \* ClaimedJob.attempts = max_attempts
        held : BOOLEAN]     \* history: the row is in this call's claim still

TypeOK ==
    /\ message \in [Message -> {"none", "queued", "sent", "failed"}]
    /\ event \in [Message -> {"none", "pending", "processed", "deleted"}]
    /\ job \in [Message -> [Kind -> JobRowType]]
    /\ run \in [Slot -> Run \cup {Idle}]
    /\ accepted \in [Message -> 0..2]
    /\ unrecorded \in [Message -> BOOLEAN]
    /\ overtaken \in [Message -> BOOLEAN]

Init ==
    /\ message = [m \in Message |-> "none"]
    /\ event = [m \in Message |-> "none"]
    /\ job = [m \in Message |-> [k \in Kind |-> NoJob]]
    /\ run = [s \in Slot |-> Idle]
    /\ accepted = [m \in Message |-> 0]
    /\ unrecorded = [m \in Message |-> FALSE]
    /\ overtaken = [m \in Message |-> FALSE]

Of(s, m, k) == run[s] # Idle /\ run[s].m = m /\ run[s].kind = k

(* The calls made for a claim of the row that is over. *)
Released(m, k) ==
    [s \in Slot |-> IF Of(s, m, k) THEN [run[s] EXCEPT !.held = FALSE] ELSE run[s]]

(* The row of the send job is taken from the call that still works on it.  *)
Overtakes(m, k) ==
    [overtaken EXCEPT ![m] = @ \/ (k = "send" /\ \E s \in Slot : Of(s, m, k))]

Goes(s, stage) == run' = [run EXCEPT ![s].stage = stage]

-------------------------------------------------------------------------------
(* Users and administrators.                                               *)

(* queue_outbound_message *)
QueueMessage(m) ==
    /\ message[m] = "none"
    /\ message' = [message EXCEPT ![m] = "queued"]
    /\ event' = [event EXCEPT ![m] = "pending"]
    /\ UNCHANGED <<job, run, accepted, unrecorded, overtaken>>

(* Faulty variant of RetryMessage: the status is not looked at.            *)
RetryMessageUnchecked(m) ==
    /\ message[m] # "none"
    /\ message' = [message EXCEPT ![m] = "queued"]
    /\ job' = [job EXCEPT ![m]["send"] = Reset(@)]
    /\ run' = Released(m, "send")
    /\ overtaken' = Overtakes(m, "send")
    /\ UNCHANGED <<event, accepted, unrecorded>>

(* POST /messages/{id}/retry: the send job is reset whatever its status.   *)
RetryMessage(m) ==
    /\ message[m] = "failed"
    /\ message' = [message EXCEPT ![m] = "queued"]
    /\ job' = [job EXCEPT ![m]["send"] = Reset(@)]
    /\ run' = Released(m, "send")
    /\ overtaken' = Overtakes(m, "send")
    /\ UNCHANGED <<event, accepted, unrecorded>>

(* POST /admin/jobs/{id}/retry *)
RetryJob(m, k) ==
    /\ job[m][k].status = "failed"
    /\ job' = [job EXCEPT ![m][k] = Reset(@)]
    /\ UNCHANGED <<run, domain>>

-------------------------------------------------------------------------------
(* The scheduler and the cleanup.                                          *)

(* Faulty variant of ScheduleWork: queued messages are left to the outbox. *)
ScheduleOutboxOnly ==
    /\ job' = [m \in Message |->
                 [job[m] EXCEPT !["dispatch"] = IF event[m] = "pending" THEN Enqueued(@) ELSE @]]
    /\ job' # job
    /\ UNCHANGED <<run, domain>>

(* tick, as far as messages go: _schedule_outbox and _schedule_messages *)
ScheduleWork ==
    /\ job' = [m \in Message |->
                 [dispatch |-> IF event[m] = "pending" THEN Enqueued(job[m]["dispatch"])
                                                       ELSE job[m]["dispatch"],
                  send |-> IF message[m] = "queued" THEN Enqueued(job[m]["send"])
                                                    ELSE job[m]["send"]]]
    /\ job' # job
    /\ UNCHANGED <<run, domain>>

(* cleanup: terminal jobs after 14 days, processed events after 7 *)
CleanupJob(m, k) ==
    /\ job[m][k].status \in Terminal
    /\ \A s \in Slot : ~Of(s, m, k)
    /\ job' = [job EXCEPT ![m][k] = NoJob]
    /\ UNCHANGED <<run, domain>>

CleanupEvent(m) ==
    /\ event[m] = "processed"
    /\ event' = [event EXCEPT ![m] = "deleted"]
    /\ UNCHANGED <<message, job, run, accepted, unrecorded, overtaken>>

-------------------------------------------------------------------------------
(* The supervisor.                                                         *)

Claim(m, k) ==
    /\ Claimable(job[m][k])
    /\ job' = [job EXCEPT ![m][k] = Claimed(@)]
    /\ \E s \in Slot :
          /\ run[s] = Idle
          /\ \A t \in 1..(s - 1) : run[t] # Idle
          /\ \/ run' = [run EXCEPT ![s] =
                   [stage |-> "started", m |-> m, kind |-> k, held |-> TRUE,
                    last |-> job[m][k].attempts + 1 = MaxAttempts]]
             \/ UNCHANGED run    \* committed, but the dispatcher saw an error
    /\ UNCHANGED domain

(* wait_for cancels the handler: CancelledError is not an Exception, so    *)
(* nothing of the handler's own error path runs.                           *)
Timeout(s) ==
    /\ run[s].stage \in HandlerStage
    /\ Goes(s, "error")
    /\ unrecorded' = [unrecorded EXCEPT ![run[s].m] = @ \/ run[s].stage = "accepted"]
    /\ UNCHANGED <<message, event, job, accepted, overtaken>>

Acknowledge(s) ==
    LET m == run[s].m
        k == run[s].kind
    IN
    /\ run[s].stage \in {"ok", "error"}
    /\ \/ /\ job' = [job EXCEPT ![m][k] =
                       IF run[s].stage = "ok" THEN Completed(@) ELSE Failed(@)]
          /\ run' = [(IF job' # job THEN Released(m, k) ELSE run) EXCEPT ![s] = Idle]
       \/ /\ run' = [run EXCEPT ![s] = Idle]   \* the transaction failed
          /\ UNCHANGED job
    /\ UNCHANGED domain

(* recover_expired_leases, once the handler call of the claim is over *)
Recover(m, k) ==
    /\ job[m][k].status = "running"
    /\ \A s \in Slot : Of(s, m, k) /\ run[s].held => run[s].stage \notin HandlerStage
    /\ job' = [job EXCEPT ![m][k] = RetriedOrFailed(@)]
    /\ run' = Released(m, k)
    /\ overtaken' = Overtakes(m, k)
    /\ UNCHANGED <<message, event, accepted, unrecorded>>

(* The process dies and is started again. *)
Crash ==
    /\ run' = [s \in Slot |-> Idle]
    /\ unrecorded' = [m \in Message |->
          unrecorded[m] \/ \E s \in Slot : run[s].stage = "accepted" /\ run[s].m = m]
    /\ UNCHANGED <<message, event, job, accepted, overtaken>>

-------------------------------------------------------------------------------
(* dispatch_outbox: one transaction. *)
Dispatch(s) ==
    LET m == run[s].m IN
    /\ run[s].stage = "started" /\ run[s].kind = "dispatch"
    /\ \/ /\ event[m] = "pending"
          /\ event' = [event EXCEPT ![m] = "processed"]
          /\ job' = [job EXCEPT ![m]["send"] = Enqueued(@)]
          /\ Goes(s, "ok")
       \/ /\ event[m] = "processed"
          /\ Goes(s, "ok")
          /\ UNCHANGED <<event, job>>
       \/ /\ event[m] \in {"pending", "deleted"}    \* the transaction fails, or LookupError
          /\ Goes(s, "error")
          /\ UNCHANGED <<event, job>>
    /\ UNCHANGED <<message, accepted, unrecorded, overtaken>>

(* Faulty variant of ReadContext: a settled message is not recognised.     *)
ReadContextUnchecked(s) ==
    /\ run[s].stage = "started" /\ run[s].kind = "send"
    /\ Goes(s, "sending") \/ Goes(s, "raised")
    /\ UNCHANGED <<job, domain>>

(* send_message, first transaction: _message_context *)
ReadContext(s) ==
    LET m == run[s].m IN
    /\ run[s].stage = "started" /\ run[s].kind = "send"
    /\ \/ message[m] \in {"sent", "failed"} /\ Goes(s, "ok")
       \/ message[m] = "queued" /\ Goes(s, "sending")
       \/ message[m] = "queued" /\ Goes(s, "raised")   \* channel not active, database
    /\ UNCHANGED <<job, domain>>

(* The provider accepts the message, accepts it but the answer is lost, or *)
(* refuses it (or an attachment cannot be read).                           *)
CallProvider(s) ==
    LET m == run[s].m IN
    /\ run[s].stage = "sending"
    /\ \/ /\ accepted' = [accepted EXCEPT ![m] = IF @ = 2 THEN 2 ELSE @ + 1]
          /\ \/ Goes(s, "accepted") /\ UNCHANGED unrecorded
             \/ Goes(s, "raised") /\ unrecorded' = [unrecorded EXCEPT ![m] = TRUE]
       \/ /\ Goes(s, "raised")
          /\ UNCHANGED <<accepted, unrecorded>>
    /\ UNCHANGED <<message, event, job, overtaken>>

(* _mark_message_sent *)
MarkSent(s) ==
    LET m == run[s].m IN
    /\ run[s].stage = "accepted"
    /\ \/ /\ message[m] \in {"queued", "sent"}
          /\ message' = [message EXCEPT ![m] = "sent"]
          /\ Goes(s, "ok")
          /\ UNCHANGED unrecorded
       \/ /\ unrecorded' = [unrecorded EXCEPT ![m] = TRUE]  \* failed meanwhile, or database
          /\ Goes(s, "raised")
          /\ UNCHANGED message
    /\ UNCHANGED <<event, job, accepted, overtaken>>

(* Faulty variant of MarkFailed: the exception is swallowed.               *)
MarkFailedSwallowed(s) ==
    LET m == run[s].m IN
    /\ run[s].stage = "raised"
    /\ message' = IF run[s].last /\ message[m] = "queued"
                  THEN [message EXCEPT ![m] = "failed"] ELSE message
    /\ Goes(s, "ok")
    /\ UNCHANGED <<event, job, accepted, unrecorded, overtaken>>

(* _mark_message_failed_if_terminal, then the exception goes on *)
MarkFailed(s) ==
    LET m == run[s].m IN
    /\ run[s].stage = "raised"
    /\ \/ /\ run[s].last /\ message[m] = "queued"
          /\ message' = [message EXCEPT ![m] = "failed"]
       \/ UNCHANGED message      \* not the last attempt, not queued, or database
    /\ Goes(s, "error")
    /\ UNCHANGED <<event, job, accepted, unrecorded, overtaken>>

Handle(s) ==
    Dispatch(s) \/ ReadContext(s) \/ CallProvider(s) \/ MarkSent(s) \/ MarkFailed(s)

-------------------------------------------------------------------------------
Next ==
    \/ \E m \in Message : QueueMessage(m) \/ RetryMessage(m) \/ CleanupEvent(m)
    \/ \E m \in Message, k \in Kind :
          RetryJob(m, k) \/ CleanupJob(m, k) \/ Claim(m, k) \/ Recover(m, k)
    \/ \E s \in Slot : Handle(s) \/ Timeout(s) \/ Acknowledge(s)
    \/ ScheduleWork \/ Crash

Spec == Init /\ [][Next]_vars

(* The scheduler ticks, a handler call ends (by itself or by its timeout), *)
(* its acknowledgement ends, leases of dead claims expire and a row that   *)
(* is due is claimed; the claim's order by run_at passes over no row.      *)
Fairness ==
    /\ WF_vars(ScheduleWork)
    /\ \A s \in Slot : WF_vars(Handle(s) \/ Timeout(s)) /\ WF_vars(Acknowledge(s))
    /\ \A m \in Message : WF_vars(Recover(m, "send")) /\ SF_vars(Claim(m, "send"))

FairSpec == Spec /\ Fairness
-------------------------------------------------------------------------------
(* Properties.                                                             *)

(* A client gets a message twice only when the provider's answer to an     *)
(* earlier call was not recorded, or the job was taken from a live call:   *)
(* by retry_message, or by a recovery that overtook an acknowledgement.    *)
(* Dispatch, scheduler and repeated claims alone never cause it.           *)
DuplicateOnlyAfterLostAnswer ==
    \A m \in Message : accepted[m] = 2 => unrecorded[m] \/ overtaken[m]

(* Two calls of send_message for one message never run at the same time,   *)
(* as long as the job is not taken from a live call.                       *)
OneSenderAtATime ==
    \A s, t \in Slot :
        /\ run[s].stage \in HandlerStage /\ run[s].kind = "send"
        /\ run[t].stage \in HandlerStage /\ run[t].kind = "send"
        /\ run[s].m = run[t].m /\ ~overtaken[run[s].m]
        => s = t

(* A send job does not report success while its message is still queued:   *)
(* the dedupe key of the succeeded row would keep the message from being   *)
(* sent until the cleanup.  Again only an overtaken call can do that.      *)
SuccessMeansSettled ==
    \A m \in Message :
        job[m]["send"].status = "succeeded" /\ message[m] = "queued" => overtaken[m]

(* "sent" was accepted by the provider and is never taken back, neither by *)
(* a late failure nor by a retry.                                          *)
SentIsFinal ==
    [][\A m \in Message :
          /\ message[m] = "sent" => message'[m] = "sent"
          /\ message'[m] = "sent" => accepted'[m] > 0]_vars

(* A queued message is sent, or failed, or its job is terminal and shows   *)
(* in the administrator's list, whatever crashes and timeouts happen.      *)
MessageResolved ==
    \A m \in Message :
        message[m] = "queued" ~> message[m] \in {"sent", "failed"}
                                    \/ job[m]["send"].status \in Terminal
===============================================================================
