----------------------------- MODULE Notifications -----------------------------
(***************************************************************************)
(* Notification deliveries: materialised by a rule in the transaction of   *)
(* its expansion, scheduled, and sent by the deliver_notification handler. *)
(* A client's delivery is read, sent and recorded in three separate steps; *)
(* an employee's is authorised, sent and recorded under the locks of the   *)
(* delivery, the membership and the target, so that a reassignment cannot  *)
(* fall between the check and the send.                                    *)
(***************************************************************************)
EXTENDS JobRow

CONSTANTS
    Delivery,       \* rule:{rule}:event:{event}:recipient:{n}
    Concurrency     \* handler tasks the supervisor runs at a time

ASSUME ConcurrencyAssumption == Concurrency \in Nat \ {0}

Slot == 1..Concurrency

VARIABLES
    delivery,       \* delivery[d]: audience, channel, status, due of the row
    outbox,         \* outbox[d]: its notification.delivery.queued event
    consent,        \* consent[d]: the client's consent the rule requires
    access,         \* access[d]: the recipient is active and may see the target
    job,            \* job[d]: the row notification-delivery:{id}:send
    run,            \* run[s]: the deliver_notification call in slot s
    shown,          \* history: in-app notifications published, up to 2
    overtaken       \* history: the row left a claim whose call was alive

vars == <<delivery, outbox, consent, access, job, run, shown, overtaken>>
domain == <<delivery, outbox, consent, access, shown, overtaken>>

NoDelivery == [status |-> "none"]

Row == [status : {"pending", "delivered", "failed"},
        audience : {"client", "employee"},
        channel : {"in_app", "external"},
        due : BOOLEAN,          \* scheduled_at <= now
        mirrored : BOOLEAN]     \* its Web Push copy has been queued

Idle == [stage |-> "idle"]

(* "locked" holds the row locks of _deliver_employee_notification_locked.  *)
HandlerStage == {"started", "sending", "locked", "accepted", "raised"}

Run == [stage : HandlerStage \cup {"ok", "error"}, d : Delivery,
        last : BOOLEAN,     \* ClaimedJob.attempts = max_attempts
        held : BOOLEAN]     \* history: the row is in this call's claim still

TypeOK ==
    /\ delivery \in [Delivery -> Row \cup {NoDelivery}]
    /\ outbox \in [Delivery -> {"none", "pending", "processed"}]
    /\ consent \in [Delivery -> {"granted", "revoked"}]
    /\ access \in [Delivery -> BOOLEAN]
    /\ job \in [Delivery -> JobRowType]
    /\ run \in [Slot -> Run \cup {Idle}]
    /\ shown \in [Delivery -> 0..2]
    /\ overtaken \in [Delivery -> BOOLEAN]

Init ==
    /\ delivery = [d \in Delivery |-> NoDelivery]
    /\ outbox = [d \in Delivery |-> "none"]
    /\ consent = [d \in Delivery |-> "revoked"]
    /\ access \in [Delivery -> BOOLEAN]
    /\ job = [d \in Delivery |-> NoJob]
    /\ run = [s \in Slot |-> Idle]
    /\ shown = [d \in Delivery |-> 0]
    /\ overtaken = [d \in Delivery |-> FALSE]

Of(s, d) == run[s] # Idle /\ run[s].d = d

Locked(d) == \E s \in Slot : Of(s, d) /\ run[s].stage = "locked"

Goes(s, stage) == run' = [run EXCEPT ![s].stage = stage]

Becomes(d, st) == delivery' = [delivery EXCEPT ![d].status = st]

(* The job row is taken from the calls made for its claim. *)
TakeFromCalls(d) ==
    /\ run' = [s \in Slot |->
                 IF Of(s, d) THEN [run[s] EXCEPT !.held = FALSE] ELSE run[s]]
    /\ overtaken' = [overtaken EXCEPT ![d] = @ \/ \E s \in Slot : Of(s, d)]

-------------------------------------------------------------------------------
(* Consents, access, rules and administrators.                             *)

(* grant_contact_consent, revoke_contact_consent *)
SetConsent(d) ==
    /\ consent' = [consent EXCEPT ![d] = IF @ = "granted" THEN "revoked" ELSE "granted"]
    /\ UNCHANGED <<delivery, outbox, access, job, run, shown, overtaken>>

(* Faulty variant of SetAccess: the sender's locks are not taken.          *)
SetAccessUnlocked(d) ==
    /\ access' = [access EXCEPT ![d] = ~@]
    /\ UNCHANGED <<delivery, outbox, consent, job, run, shown, overtaken>>

(* The target is reassigned or deleted, the recipient's role or account    *)
(* changes: each waits for the locks of a delivery in progress.            *)
SetAccess(d) ==
    /\ ~Locked(d)
    /\ access' = [access EXCEPT ![d] = ~@]
    /\ UNCHANGED <<delivery, outbox, consent, job, run, shown, overtaken>>

(* queue_notification in the transaction of expand_notification, which may *)
(* run any number of times: the delivery's dedupe key makes the rest no-op. *)
Expand(d) ==
    /\ delivery[d] = NoDelivery
    /\ \E row \in Row :
          /\ row.status = "pending" /\ ~row.mirrored
          /\ row.audience = "client" => consent[d] = "granted"
          /\ row.audience = "employee" => access[d]
          /\ delivery' = [delivery EXCEPT ![d] = row]
    /\ outbox' = [outbox EXCEPT ![d] = "pending"]
    /\ UNCHANGED <<consent, access, job, run, shown, overtaken>>

BecomeDue(d) ==
    /\ delivery[d] # NoDelivery /\ ~delivery[d].due
    /\ delivery' = [delivery EXCEPT ![d].due = TRUE]
    /\ UNCHANGED <<outbox, consent, access, job, run, shown, overtaken>>

(* Faulty variant of RetryDelivery: any status may be retried.             *)
RetryAnyDelivery(d) ==
    /\ delivery[d] # NoDelivery /\ ~Locked(d)
    /\ delivery' = [delivery EXCEPT ![d].status = "pending", ![d].due = TRUE]
    /\ job' = [job EXCEPT ![d] = Reset(@)]
    /\ TakeFromCalls(d)
    /\ UNCHANGED <<outbox, consent, access, shown>>

(* POST /admin/notification-deliveries/{id}/retry *)
RetryDelivery(d) ==
    /\ delivery[d].status = "failed" /\ ~Locked(d)
    /\ delivery' = [delivery EXCEPT ![d].status = "pending", ![d].due = TRUE]
    /\ job' = [job EXCEPT ![d] = Reset(@)]
    /\ TakeFromCalls(d)
    /\ UNCHANGED <<outbox, consent, access, shown>>

(* POST /admin/jobs/{id}/retry *)
RetryJob(d) ==
    /\ job[d].status = "failed"
    /\ job' = [job EXCEPT ![d] = Reset(@)]
    /\ UNCHANGED <<run, domain>>

-------------------------------------------------------------------------------
(* Queue and supervisor.                                                   *)

(* Faulty variant of ScheduleDelivery: only what was dispatched before.     *)
ScheduleDispatched(d) ==
    /\ outbox[d] = "processed"
    /\ delivery[d].status = "pending" /\ delivery[d].due /\ ~Locked(d)
    /\ job[d].status = "absent"
    /\ job' = [job EXCEPT ![d] = Enqueued(@)]
    /\ UNCHANGED <<run, domain>>

(* _schedule_notifications *)
ScheduleDelivery(d) ==
    /\ delivery[d] # NoDelivery
    /\ delivery[d].status = "pending" /\ delivery[d].due /\ ~Locked(d)
    /\ job[d].status = "absent"
    /\ job' = [job EXCEPT ![d] = Enqueued(@)]
    /\ UNCHANGED <<run, domain>>

(* dispatch_outbox; the event is available when the delivery is due. *)
DispatchDelivery(d) ==
    /\ outbox[d] = "pending" /\ delivery[d].due
    /\ outbox' = [outbox EXCEPT ![d] = "processed"]
    /\ job' = [job EXCEPT ![d] = Enqueued(@)]
    /\ UNCHANGED <<delivery, consent, access, run, shown, overtaken>>

CleanupJob(d) ==
    /\ job[d].status \in Terminal
    /\ \A s \in Slot : ~Of(s, d)
    /\ job' = [job EXCEPT ![d] = NoJob]
    /\ UNCHANGED <<run, domain>>

Claim(d) ==
    /\ Claimable(job[d])
    /\ job' = [job EXCEPT ![d] = Claimed(@)]
    /\ \E s \in Slot :
          /\ run[s] = Idle
          /\ \A t \in 1..(s - 1) : run[t] # Idle
          /\ \/ run' = [run EXCEPT ![s] =
                   [stage |-> "started", d |-> d, held |-> TRUE,
                    last |-> job[d].attempts + 1 = MaxAttempts]]
             \/ UNCHANGED run    \* committed, but the dispatcher saw an error
    /\ UNCHANGED domain

(* The handler is cancelled and its transaction rolled back; `except       *)
(* Exception' does not see the cancellation.                               *)
Timeout(s) ==
    /\ run[s].stage \in HandlerStage
    /\ Goes(s, "error")
    /\ UNCHANGED <<job, domain>>

Acknowledge(s) ==
    LET d == run[s].d IN
    /\ run[s].stage \in {"ok", "error"}
    /\ \/ /\ job' = [job EXCEPT ![d] = IF run[s].stage = "ok" THEN Completed(@) ELSE Failed(@)]
          /\ run' = [t \in Slot |->
                IF t = s THEN Idle
                ELSE IF Of(t, d) /\ job' # job THEN [run[t] EXCEPT !.held = FALSE]
                ELSE run[t]]
       \/ /\ run' = [run EXCEPT ![s] = Idle]   \* the transaction failed
          /\ UNCHANGED job
    /\ UNCHANGED domain

(* recover_expired_leases, once the handler call of the claim is over *)
Recover(d) ==
    /\ job[d].status = "running"
    /\ \A s \in Slot : Of(s, d) /\ run[s].held => run[s].stage \notin HandlerStage
    /\ job' = [job EXCEPT ![d] = RetriedOrFailed(@)]
    /\ TakeFromCalls(d)
    /\ UNCHANGED <<delivery, outbox, consent, access, shown>>

Crash ==
    /\ run' = [s \in Slot |-> Idle]
    /\ UNCHANGED <<job, domain>>
-------------------------------------------------------------------------------
(* The handler.                                                            *)

(* _pending_delivery: read under a lock that is released at once. *)
ReadPending(s) ==
    LET row == delivery[run[s].d] IN
    /\ run[s].stage = "started" /\ ~Locked(run[s].d)
    /\ \/ row.status \in {"delivered", "failed"} /\ Goes(s, "ok")
       \/ row.status = "pending" /\ row.audience = "client" /\ row.due /\ Goes(s, "sending")
       \/ row.status = "pending" /\ Goes(s, "raised")    \* not due, or database
    /\ UNCHANGED <<job, domain>>

(* _deliver_employee_notification_locked up to the send: the row is read   *)
(* again, the recipient and the target are locked, and what may not be     *)
(* seen any more is suppressed.                                            *)
Authorize(s) ==
    LET d == run[s].d IN
    /\ run[s].stage = "started" /\ ~Locked(d)
    /\ delivery[d].status = "pending" /\ delivery[d].audience = "employee" /\ delivery[d].due
    /\ \/ access[d] /\ Goes(s, "locked") /\ UNCHANGED delivery
       \/ ~access[d] /\ Goes(s, "ok") /\ Becomes(d, "failed")
    /\ UNCHANGED <<outbox, consent, access, job, shown, overtaken>>

(* _finalize_delivery: one more in-app notification, and its Web Push copy *)
(* when the recipient has a subscription.                                  *)
Finalize(d) ==
    /\ \E copy \in BOOLEAN :
          /\ copy => delivery[d].audience = "employee" /\ delivery[d].channel = "in_app"
          /\ delivery' = [delivery EXCEPT ![d].status = "delivered",
                                          ![d].mirrored = @ \/ copy]
    /\ shown' = [shown EXCEPT ![d] =
                   IF delivery[d].channel = "in_app" /\ @ < 2 THEN @ + 1 ELSE @]

(* The employee's send and the commit that records it. *)
SendLocked(s) ==
    LET d == run[s].d IN
    /\ run[s].stage = "locked"
    /\ \/ Finalize(d) /\ Goes(s, "ok")
       \/ Goes(s, "raised") /\ UNCHANGED <<delivery, shown>>   \* refused, or commit failed
    /\ UNCHANGED <<outbox, consent, access, job, overtaken>>

(* _send_notification_delivery of a client's delivery, under no lock *)
SendUnlocked(s) ==
    /\ run[s].stage = "sending"
    /\ Goes(s, "accepted") \/ Goes(s, "raised")
    /\ UNCHANGED <<job, domain>>

(* Faulty variant of MarkSent: a row that is delivered is finalised again. *)
MarkSentAgain(s) ==
    LET d == run[s].d IN
    /\ run[s].stage = "accepted" /\ ~Locked(d)
    /\ \/ Finalize(d) /\ Goes(s, "ok")
       \/ Goes(s, "raised") /\ UNCHANGED <<delivery, shown>>
    /\ UNCHANGED <<outbox, consent, access, job, overtaken>>

(* _mark_delivery_sent: anything but "delivered" becomes delivered. *)
MarkSent(s) ==
    LET d == run[s].d IN
    /\ run[s].stage = "accepted" /\ ~Locked(d)
    /\ \/ delivery[d].status # "delivered" /\ Finalize(d) /\ Goes(s, "ok")
       \/ delivery[d].status = "delivered" /\ Goes(s, "ok") /\ UNCHANGED <<delivery, shown>>
       \/ Goes(s, "raised") /\ UNCHANGED <<delivery, shown>>   \* the transaction failed
    /\ UNCHANGED <<outbox, consent, access, job, overtaken>>

(* Faulty variant of MarkFailed: the exception is swallowed.               *)
MarkFailedSwallowed(s) ==
    LET d == run[s].d IN
    /\ run[s].stage = "raised" /\ ~Locked(d)
    /\ Goes(s, "ok")
    /\ \/ run[s].last /\ delivery[d].status # "delivered" /\ Becomes(d, "failed")
       \/ UNCHANGED delivery
    /\ UNCHANGED <<outbox, consent, access, job, shown, overtaken>>

(* _mark_delivery_failed_if_terminal, then the exception goes on *)
MarkFailed(s) ==
    LET d == run[s].d IN
    /\ run[s].stage = "raised" /\ ~Locked(d)
    /\ Goes(s, "error")
    /\ \/ run[s].last /\ delivery[d].status # "delivered" /\ Becomes(d, "failed")
       \/ UNCHANGED delivery    \* not the last attempt, delivered, or database
    /\ UNCHANGED <<outbox, consent, access, job, shown, overtaken>>

Handle(s) ==
    \/ ReadPending(s) \/ Authorize(s) \/ SendLocked(s)
    \/ SendUnlocked(s) \/ MarkSent(s) \/ MarkFailed(s)

-------------------------------------------------------------------------------
Next ==
    \/ \E d \in Delivery :
          \/ SetConsent(d) \/ SetAccess(d) \/ Expand(d) \/ BecomeDue(d)
          \/ RetryDelivery(d) \/ RetryJob(d) \/ ScheduleDelivery(d) \/ DispatchDelivery(d)
          \/ CleanupJob(d) \/ Claim(d) \/ Recover(d)
    \/ \E s \in Slot : Handle(s) \/ Timeout(s) \/ Acknowledge(s)
    \/ Crash

Spec == Init /\ [][Next]_vars

(* As for OutboundMessages; the timer of the handler needs no lock. *)
Fairness ==
    /\ \A d \in Delivery :
          /\ WF_vars(BecomeDue(d)) /\ SF_vars(ScheduleDelivery(d))
          /\ WF_vars(Recover(d)) /\ SF_vars(Claim(d))
    /\ \A s \in Slot : WF_vars(Handle(s) \/ Timeout(s)) /\ WF_vars(Acknowledge(s))

FairSpec == Spec /\ Fairness

-------------------------------------------------------------------------------
(* Properties.                                                             *)

(* One in-app notification per delivery, whatever is retried, recovered or *)
(* done twice: the commit that shows it is the one that settles the row.   *)
ShownOnce ==
    \A d \in Delivery :
        /\ shown[d] <= 1
        /\ delivery[d].status # "none" /\ delivery[d].channel = "in_app"
              => (shown[d] = 1 <=> delivery[d].status = "delivered")

(* The locks of an employee's delivery exclude every other use of the row. *)
(* A call that got them is about to send what its recipient may see, and   *)
(* the delivery is still to be made.                                       *)
SendsOnlyWhatMayBeSeen ==
    \A s \in Slot : run[s].stage = "locked" =>
        /\ access[run[s].d]
        /\ delivery[run[s].d].status = "pending"
        /\ \A t \in Slot : run[t].stage = "locked" /\ run[t].d = run[s].d => t = s

(* A delivery job does not report success for a delivery that is pending.  *)
(* Only a call whose job row was taken from it can do that.                *)
SuccessMeansSettled ==
    \A d \in Delivery :
        job[d].status = "succeeded" /\ delivery[d].status = "pending" => overtaken[d]

(* A delivery that has been made is never undone: not by a late failure of *)
(* another call, not by an administrator's retry.                          *)
DeliveredIsFinal ==
    [][\A d \in Delivery :
          delivery[d].status = "delivered" => delivery'[d].status = "delivered"]_vars

(* A due delivery is made, or fails, or its job is terminal. *)
DeliveryResolved ==
    \A d \in Delivery :
        delivery[d].status = "pending" ~> \/ delivery[d].status \in {"delivered", "failed"}
                                          \/ job[d].status \in Terminal

(* "A revoke blocks the client's later deliveries at once": no send begins *)
(* while the consent the rule requires is revoked.                         *)
NoSendAfterRevoke ==
    [][\A s \in Slot :
          run[s].stage = "started" /\ run'[s].stage = "sending"
              => consent[run[s].d] = "granted"]_vars
===============================================================================
