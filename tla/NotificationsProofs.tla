--------------------------- MODULE NotificationsProofs ---------------------------
(***************************************************************************)
(* Proofs about Notifications, for any deliveries, any number of handler   *)
(* slots and any number of attempts.                                       *)
(*                                                                         *)
(* Every step is about one delivery, so the invariant is one of each: what *)
(* a delivery's row, its job and the calls for it have to do with one      *)
(* another.                                                                *)
(***************************************************************************)
EXTENDS Notifications, JobRowProofs

(* A delivery that was not expanded yet has left no trace. *)
Unborn(d) ==
    delivery[d] = NoDelivery =>
        outbox[d] = "none" /\ job[d].status = "absent" /\ \A s \in Slot : ~Of(s, d)

(* What is shown is what the delivered row says. *)
Shown(d) ==
    shown[d] = IF delivery[d].status = "delivered" /\ delivery[d].channel = "in_app" THEN 1 ELSE 0

(* The holder of the locks is alone, and what it has checked holds still.  *)
LockHolder(d) ==
    \A s \in Slot : Of(s, d) /\ run[s].stage = "locked" =>
        /\ access[d]
        /\ delivery[d].status = "pending"
        /\ \A t \in Slot : Of(t, d) /\ run[t].stage = "locked" => t = s

(* Unless the job was taken from a live call, a call is the only one and   *)
(* the row is running.                                                     *)
OnlyCall(d) ==
    \A s \in Slot : ~overtaken[d] /\ Of(s, d) =>
        job[d].status = "running" /\ \A t \in Slot : Of(t, d) => s = t

(* A call that is about to report success has found or made an end. *)
Done(d) ==
    \A s \in Slot : Of(s, d) /\ run[s].stage = "ok" =>
        delivery[d].status \in {"delivered", "failed"} \/ overtaken[d]

Settled(d) == job[d].status = "succeeded" /\ delivery[d].status = "pending" => overtaken[d]

Safe(d) == Unborn(d) /\ Shown(d) /\ LockHolder(d) /\ OnlyCall(d) /\ Done(d) /\ Settled(d)

IInv == TypeOK /\ \A d \in Delivery : Safe(d)
-------------------------------------------------------------------------------
(* Rows and calls. *)

Stage == HandlerStage \cup {"ok", "error"}

LEMMA RowFacts ==
    ASSUME TypeOK, NEW d \in Delivery
    PROVE  /\ NoDelivery.status = "none"
           /\ delivery[d] # NoDelivery =>
                 delivery[d] \in Row /\ delivery[d].status \in {"pending", "delivered", "failed"}
           /\ delivery[d].status # "none" => delivery[d] # NoDelivery
           /\ job[d] \in JobRowType /\ shown[d] \in 0..2
BY DEF TypeOK, Row, NoDelivery

LEMMA RunFacts ==
    ASSUME TypeOK, NEW s \in Slot
    PROVE  /\ run[s] # Idle <=> run[s].stage # "idle"
           /\ run[s] # Idle => run[s] \in Run /\ run[s].d \in Delivery /\ Of(s, run[s].d)
           /\ run[s].stage \in Stage => run[s] # Idle
BY DEF TypeOK, Run, Idle, HandlerStage, Stage, Of

(* The calls are for the same deliveries, whatever their stages. *)
SameCalls ==
    /\ run' \in [Slot -> Run \cup {Idle}]
    /\ \A t \in Slot, e \in Delivery : Of(t, e)' <=> Of(t, e)

LEMMA GoesRun ==
    ASSUME TypeOK, NEW s \in Slot, NEW st \in Stage, run[s] # Idle, Goes(s, st)
    PROVE  /\ SameCalls
           /\ run'[s].stage = st
           /\ \A t \in Slot : t # s => run'[t] = run[t]
<1>1. run[s] \in Run
  BY RunFacts
<1>2. [run[s] EXCEPT !.stage = st] \in Run
  BY <1>1 DEF Run, Stage
<1>3. run' = [run EXCEPT ![s] = [run[s] EXCEPT !.stage = st]]
  BY DEF Goes
<1>4. run'[s] = [run[s] EXCEPT !.stage = st] /\ \A t \in Slot : t # s => run'[t] = run[t]
  BY <1>3 DEF TypeOK
<1>5. run' \in [Slot -> Run \cup {Idle}]
  BY <1>2, <1>3 DEF TypeOK
<1>6. run'[s].stage = st /\ run'[s].d = run[s].d
  BY <1>1, <1>4 DEF Run
<1>7. run'[s] # Idle
  BY <1>6 DEF Idle, Stage, HandlerStage
<1> QED BY <1>4, <1>5, <1>6, <1>7 DEF SameCalls, Of

(* A call that changes nothing but who holds the row. *)
LEMMA ReleasedRun ==
    ASSUME TypeOK, NEW d \in Delivery, NEW s \in Slot,
           run'[s] = IF Of(s, d) THEN [run[s] EXCEPT !.held = FALSE] ELSE run[s]
    PROVE  /\ run'[s] \in Run \cup {Idle}
           /\ run'[s].stage = run[s].stage
           /\ \A e \in Delivery : Of(s, e)' <=> Of(s, e)
<1>1. CASE Of(s, d)
  <2>1. run'[s] = [run[s] EXCEPT !.held = FALSE] /\ run[s] \in Run /\ run[s] # Idle
    BY <1>1, RunFacts DEF Of
  <2>2. run'[s] \in Run /\ run'[s].stage = run[s].stage /\ run'[s].d = run[s].d /\ run'[s] # Idle
    BY <2>1 DEF Run, Idle, HandlerStage
  <2> QED BY <2>1, <2>2 DEF Of
<1>2. CASE ~Of(s, d)
  BY <1>2 DEF TypeOK, Of
<1> QED BY <1>1, <1>2

LEMMA TakenCalls ==
    ASSUME TypeOK, NEW d \in Delivery, TakeFromCalls(d)
    PROVE  /\ SameCalls
           /\ \A t \in Slot : run'[t].stage = run[t].stage
           /\ overtaken' \in [Delivery -> BOOLEAN]
           /\ \A e \in Delivery : e # d => overtaken'[e] = overtaken[e]
           /\ overtaken'[d] <=> overtaken[d] \/ \E s \in Slot : Of(s, d)
<1>1. run' = [s \in Slot |-> IF Of(s, d) THEN [run[s] EXCEPT !.held = FALSE] ELSE run[s]]
  BY DEF TakeFromCalls
<1>2. ASSUME NEW t \in Slot
      PROVE  /\ run'[t] \in Run \cup {Idle}
             /\ run'[t].stage = run[t].stage
             /\ \A e \in Delivery : Of(t, e)' <=> Of(t, e)
  <2>1. run'[t] = IF Of(t, d) THEN [run[t] EXCEPT !.held = FALSE] ELSE run[t]
    BY <1>1
  <2> QED BY <2>1, ReleasedRun
<1>3. /\ overtaken' \in [Delivery -> BOOLEAN]
      /\ \A e \in Delivery : e # d => overtaken'[e] = overtaken[e]
      /\ overtaken'[d] <=> overtaken[d] \/ \E s \in Slot : Of(s, d)
  BY DEF TakeFromCalls, TypeOK
<1> QED BY <1>1, <1>2, <1>3 DEF SameCalls
-------------------------------------------------------------------------------
(* A step that is about another delivery. *)

Same(e) ==
    /\ delivery'[e] = delivery[e] /\ outbox'[e] = outbox[e] /\ access'[e] = access[e]
    /\ job'[e] = job[e] /\ shown'[e] = shown[e] /\ overtaken'[e] = overtaken[e]
    /\ \A s \in Slot : (Of(s, e)' <=> Of(s, e)) /\ (Of(s, e) => run'[s].stage = run[s].stage)

LEMMA SameSafe ==
    ASSUME NEW e \in Delivery, Safe(e), Same(e)
    PROVE  Safe(e)'
<1>1. Unborn(e)' /\ Shown(e)' /\ Settled(e)'
  BY DEF Safe, Same, Unborn, Shown, Settled
<1>2. LockHolder(e)'
  BY DEF Safe, Same, LockHolder
<1>3. OnlyCall(e)' /\ Done(e)'
  BY DEF Safe, Same, OnlyCall, Done
<1> QED BY <1>1, <1>2, <1>3 DEF Safe

LEMMA OneDelivery ==
    ASSUME IInv, NEW d \in Delivery, TypeOK', Safe(d)',
           \A e \in Delivery : e # d => Same(e)
    PROVE  IInv'
BY SameSafe DEF IInv

LEMMA InitInv == Init => IInv
<1> SUFFICES ASSUME Init PROVE IInv
  OBVIOUS
<1>1. TypeOK
  BY NoJobType DEF Init, TypeOK
<1>2. ASSUME NEW d \in Delivery
      PROVE  Safe(d)
  <2>1. /\ delivery[d].status = "none" /\ outbox[d] = "none" /\ job[d].status = "absent"
        /\ shown[d] = 0 /\ \A s \in Slot : ~Of(s, d)
    BY NoJobType DEF Init, NoDelivery, Of
  <2> QED BY <2>1 DEF Safe, Unborn, Shown, LockHolder, OnlyCall, Done, Settled
<1> QED BY <1>1, <1>2 DEF IInv

-------------------------------------------------------------------------------
(* Consents, access, rules, administrators and the scheduler.              *)

LEMMA SetConsentInv ==
    ASSUME IInv, NEW d \in Delivery, SetConsent(d)
    PROVE  IInv'
<1>1. TypeOK'
  BY DEF IInv, TypeOK, SetConsent
<1>2. \A e \in Delivery : Same(e)
  BY DEF SetConsent, Same, Of
<1> QED BY <1>1, <1>2, SameSafe DEF IInv

LEMMA SetAccessInv ==
    ASSUME IInv, NEW d \in Delivery, SetAccess(d)
    PROVE  IInv'
<1>1. TypeOK'
  BY DEF IInv, TypeOK, SetAccess
<1>2. \A e \in Delivery : e # d => Same(e)
  BY DEF IInv, TypeOK, SetAccess, Same, Of
<1>3. Unborn(d)' /\ Shown(d)' /\ OnlyCall(d)' /\ Done(d)' /\ Settled(d)'
  BY DEF IInv, Safe, SetAccess, Unborn, Shown, OnlyCall, Done, Settled, Of
<1>4. LockHolder(d)'
  BY DEF SetAccess, Locked, LockHolder, Of
<1> QED BY <1>1, <1>2, <1>3, <1>4, OneDelivery DEF Safe

LEMMA ExpandInv ==
    ASSUME IInv, NEW d \in Delivery, Expand(d)
    PROVE  IInv'
<1>1. PICK row \in Row : row.status = "pending" /\ delivery' = [delivery EXCEPT ![d] = row]
  BY DEF Expand
<1>2. delivery'[d] = row /\ \A e \in Delivery : e # d => delivery'[e] = delivery[e]
  BY <1>1 DEF IInv, TypeOK
<1>3. TypeOK'
  BY <1>1 DEF IInv, TypeOK, Expand
<1>4. \A e \in Delivery : e # d => Same(e)
  BY <1>2 DEF IInv, TypeOK, Expand, Same, Of
<1>5. \A s \in Slot : ~Of(s, d) /\ ~Of(s, d)'
  BY DEF IInv, Safe, Unborn, Expand, Of
<1>6. job'[d].status = "absent" /\ delivery'[d].status = "pending" /\ delivery'[d] # NoDelivery
  BY <1>1, <1>2 DEF IInv, Safe, Unborn, Expand, Row, NoDelivery
<1>7. shown'[d] = 0
  BY RowFacts DEF IInv, Safe, Shown, Expand
<1>8. Safe(d)'
  BY <1>5, <1>6, <1>7 DEF Safe, Unborn, Shown, LockHolder, OnlyCall, Done, Settled
<1> QED BY <1>3, <1>4, <1>8, OneDelivery

LEMMA BecomeDueInv ==
    ASSUME IInv, NEW d \in Delivery, BecomeDue(d)
    PROVE  IInv'
<1>1. delivery[d] \in Row /\ delivery' = [delivery EXCEPT ![d] = [delivery[d] EXCEPT !.due = TRUE]]
  BY RowFacts DEF IInv, BecomeDue
<1>2. /\ delivery'[d] \in Row /\ delivery'[d].status = delivery[d].status
      /\ delivery'[d].channel = delivery[d].channel
      /\ \A e \in Delivery : e # d => delivery'[e] = delivery[e]
  BY <1>1 DEF IInv, TypeOK, Row
<1>3. TypeOK'
  BY <1>1, <1>2 DEF IInv, TypeOK, BecomeDue
<1>4. \A e \in Delivery : e # d => Same(e)
  BY <1>2 DEF IInv, TypeOK, BecomeDue, Same, Of
<1>5. Unborn(d)'
  BY <1>2 DEF Unborn, Row, NoDelivery
<1>6. Shown(d)' /\ LockHolder(d)' /\ OnlyCall(d)' /\ Done(d)' /\ Settled(d)'
  BY <1>2 DEF IInv, Safe, BecomeDue, Shown, LockHolder, OnlyCall, Done, Settled, Of
<1> QED BY <1>3, <1>4, <1>5, <1>6, OneDelivery DEF Safe

LEMMA RetryDeliveryInv ==
    ASSUME IInv, NEW d \in Delivery, RetryDelivery(d)
    PROVE  IInv'
<1> DEFINE r == Reset(job[d])
<1>1. delivery[d].status = "failed" /\ delivery[d] # NoDelivery /\ delivery[d] \in Row
  BY RowFacts DEF IInv, RetryDelivery
<1>2. delivery' = [delivery EXCEPT ![d] = [delivery[d] EXCEPT !.status = "pending", !.due = TRUE]]
  BY <1>1 DEF RetryDelivery, IInv, TypeOK
<1>3. /\ delivery'[d] \in Row /\ delivery'[d].status = "pending"
      /\ \A e \in Delivery : e # d => delivery'[e] = delivery[e]
      /\ delivery' \in [Delivery -> Row \cup {NoDelivery}]
  BY <1>1, <1>2 DEF IInv, TypeOK, Row
<1>4. r \in JobRowType /\ r.status \in {"absent", "queued"}
  BY RowFacts, ResetRow DEF IInv
<1>5. job' = [job EXCEPT ![d] = r]
  BY DEF RetryDelivery
<1> HIDE DEF r
<1>6. /\ job' \in [Delivery -> JobRowType] /\ job'[d] = r
      /\ \A e \in Delivery : e # d => job'[e] = job[e]
  BY <1>4, <1>5 DEF IInv, TypeOK
<1>7. /\ SameCalls
      /\ \A t \in Slot : run'[t].stage = run[t].stage
      /\ overtaken' \in [Delivery -> BOOLEAN]
      /\ \A e \in Delivery : e # d => overtaken'[e] = overtaken[e]
      /\ overtaken'[d] <=> overtaken[d] \/ \E s \in Slot : Of(s, d)
  BY TakenCalls DEF IInv, RetryDelivery
<1>8. UNCHANGED <<outbox, consent, access, shown>>
  BY DEF RetryDelivery
<1>9. TypeOK'
  BY <1>3, <1>6, <1>7, <1>8 DEF IInv, TypeOK, SameCalls
<1>10. \A e \in Delivery : e # d => Same(e)
  BY <1>3, <1>6, <1>7, <1>8 DEF Same, SameCalls
<1>11. Unborn(d)'
  BY <1>3 DEF Unborn, Row, NoDelivery
<1>12. Shown(d)'
  BY <1>1, <1>3, <1>8 DEF IInv, Safe, Shown
<1>13. LockHolder(d)'
  BY <1>7 DEF RetryDelivery, Locked, LockHolder, SameCalls
<1>14. OnlyCall(d)' /\ Done(d)'
  BY <1>7 DEF OnlyCall, Done, SameCalls
<1>15. Settled(d)'
  BY <1>4, <1>6 DEF Settled
<1> QED BY <1>9, <1>10, <1>11, <1>12, <1>13, <1>14, <1>15, OneDelivery DEF Safe

(* The row of a job that is not running is moved, but not to success.      *)
LEMMA JobMoves ==
    ASSUME IInv, NEW d \in Delivery, NEW r \in JobRowType, job' = [job EXCEPT ![d] = r],
           delivery[d] # NoDelivery, job[d].status # "running", r.status # "succeeded",
           outbox' \in [Delivery -> {"none", "pending", "processed"}],
           \A e \in Delivery : e # d => outbox'[e] = outbox[e],
           UNCHANGED <<delivery, consent, access, run, shown, overtaken>>
    PROVE  IInv'
<1>1. /\ job' \in [Delivery -> JobRowType] /\ job'[d] = r
      /\ \A e \in Delivery : e # d => job'[e] = job[e]
  BY DEF IInv, TypeOK
<1>2. TypeOK'
  BY <1>1 DEF IInv, TypeOK
<1>3. \A e \in Delivery : e # d => Same(e)
  BY <1>1 DEF Same, Of
<1>4. \A s \in Slot : Of(s, d) => overtaken[d]
  BY DEF IInv, Safe, OnlyCall
<1>5. Unborn(d)' /\ Shown(d)' /\ LockHolder(d)' /\ Done(d)'
  BY DEF IInv, Safe, Unborn, Shown, LockHolder, Done, Of
<1>6. OnlyCall(d)' /\ Settled(d)'
  BY <1>1, <1>4 DEF OnlyCall, Settled, Of
<1> QED BY <1>2, <1>3, <1>5, <1>6, OneDelivery DEF Safe

LEMMA Born ==
    ASSUME IInv, NEW d \in Delivery,
           outbox[d] # "none" \/ job[d].status # "absent" \/ \E s \in Slot : Of(s, d)
    PROVE  delivery[d] # NoDelivery
BY DEF IInv, Safe, Unborn

LEMMA RetryJobInv ==
    ASSUME IInv, NEW d \in Delivery, RetryJob(d)
    PROVE  IInv'
<1>1. Reset(job[d]) \in JobRowType /\ Reset(job[d]).status = "queued" /\ delivery[d] # NoDelivery
  BY RowFacts, ResetRow, Born DEF IInv, RetryJob
<1> QED BY <1>1, JobMoves DEF RetryJob, domain, IInv, TypeOK

LEMMA ScheduleDeliveryInv ==
    ASSUME IInv, NEW d \in Delivery, ScheduleDelivery(d)
    PROVE  IInv'
<1>1. Enqueued(job[d]) \in JobRowType /\ Enqueued(job[d]).status = "queued"
  BY RowFacts, EnqueuedRow DEF IInv, ScheduleDelivery
<1> QED BY <1>1, JobMoves DEF ScheduleDelivery, domain, IInv, TypeOK

LEMMA DispatchDeliveryInv ==
    ASSUME IInv, NEW d \in Delivery, DispatchDelivery(d)
    PROVE  IInv'
<1>1. outbox[d] = "pending" /\ delivery[d] # NoDelivery
  BY Born DEF DispatchDelivery
<1>2. /\ outbox' \in [Delivery -> {"none", "pending", "processed"}]
      /\ outbox'[d] = "processed" /\ \A e \in Delivery : e # d => outbox'[e] = outbox[e]
      /\ UNCHANGED <<delivery, consent, access, run, shown, overtaken>>
  BY DEF IInv, TypeOK, DispatchDelivery
<1>3. CASE job[d].status = "absent"
  <2>1. Enqueued(job[d]) \in JobRowType /\ Enqueued(job[d]).status = "queued"
    BY <1>3, RowFacts, EnqueuedRow DEF IInv
  <2> QED BY <1>1, <1>2, <1>3, <2>1, JobMoves DEF DispatchDelivery
<1>4. CASE job[d].status # "absent"
  <2>1. Enqueued(job[d]) = job[d]
    BY <1>4, RowFacts, EnqueuedRow DEF IInv
  <2>2. UNCHANGED job
    BY <2>1 DEF DispatchDelivery, IInv, TypeOK
  <2>3. TypeOK'
    BY <1>2, <2>2 DEF IInv, TypeOK
  <2>4. \A e \in Delivery : e # d => Same(e)
    BY <1>2, <2>2 DEF Same, Of
  <2>5. Safe(d)'
    BY <1>1, <1>2, <2>2 DEF IInv, Safe, Unborn, Shown, LockHolder, OnlyCall, Done, Settled, Of
  <2> QED BY <2>3, <2>4, <2>5, OneDelivery
<1> QED BY <1>3, <1>4

LEMMA CleanupJobInv ==
    ASSUME IInv, NEW d \in Delivery, CleanupJob(d)
    PROVE  IInv'
<1>1. job[d].status \notin {"absent", "running"} /\ delivery[d] # NoDelivery
  BY Born DEF CleanupJob, Terminal
<1> QED BY <1>1, NoJobType, JobMoves DEF CleanupJob, domain, IInv, TypeOK

-------------------------------------------------------------------------------
(* The supervisor. *)

LEMMA ClaimInv ==
    ASSUME IInv, NEW d \in Delivery, Claim(d)
    PROVE  IInv'
<1> DEFINE r == Claimed(job[d])
<1>1. job[d].status = "queued" /\ r \in JobRowType /\ r.status = "running"
  BY RowFacts, ClaimedRow DEF IInv, Claim
<1>2. delivery[d] # NoDelivery /\ \A s \in Slot : Of(s, d) => overtaken[d]
  BY <1>1, Born DEF IInv, Safe, OnlyCall
<1>3. job' = [job EXCEPT ![d] = r] /\ UNCHANGED <<delivery, outbox, consent, access, shown, overtaken>>
  BY DEF Claim, domain
<1> HIDE DEF r
<1>4. /\ job' \in [Delivery -> JobRowType] /\ job'[d] = r
      /\ \A e \in Delivery : e # d => job'[e] = job[e]
  BY <1>1, <1>3 DEF IInv, TypeOK
<1>5. CASE UNCHANGED run
  <2>1. TypeOK'
    BY <1>3, <1>4, <1>5 DEF IInv, TypeOK
  <2>2. \A e \in Delivery : e # d => Same(e)
    BY <1>3, <1>4, <1>5 DEF Same, Of
  <2>3. Unborn(d)' /\ Shown(d)' /\ LockHolder(d)' /\ Done(d)'
    BY <1>2, <1>3, <1>5 DEF IInv, Safe, Unborn, Shown, LockHolder, Done, Of
  <2>4. OnlyCall(d)' /\ Settled(d)'
    BY <1>1, <1>2, <1>3, <1>4, <1>5 DEF OnlyCall, Settled, Of
  <2> QED BY <2>1, <2>2, <2>3, <2>4, OneDelivery DEF Safe
<1>6. ASSUME NEW s \in Slot, NEW last \in BOOLEAN, run[s] = Idle,
             run' = [run EXCEPT ![s] = [stage |-> "started", d |-> d, held |-> TRUE,
                                        last |-> last]]
      PROVE  IInv'
  <2>1. [stage |-> "started", d |-> d, held |-> TRUE, last |-> last] \in Run
    BY DEF Run, HandlerStage
  <2>2. /\ run' \in [Slot -> Run \cup {Idle}]
        /\ run'[s] = [stage |-> "started", d |-> d, held |-> TRUE, last |-> last]
        /\ \A t \in Slot : t # s => run'[t] = run[t]
    BY <1>6, <2>1 DEF IInv, TypeOK
  <2>3. run'[s].stage = "started" /\ run'[s].d = d /\ run'[s] # Idle
    BY <2>2 DEF Idle
  <2>4. TypeOK'
    BY <1>3, <1>4, <2>2 DEF IInv, TypeOK
  <2>5. /\ Of(s, d)' /\ \A e \in Delivery : ~Of(s, e) /\ (e # d => ~Of(s, e)')
        /\ \A t \in Slot, e \in Delivery : t # s => (Of(t, e)' <=> Of(t, e))
    BY <1>6, <2>2, <2>3 DEF Of
  <2>6. \A e \in Delivery : e # d => Same(e)
    BY <1>3, <1>4, <2>2, <2>5 DEF Same
  <2>7. Unborn(d)' /\ Shown(d)'
    BY <1>2, <1>3 DEF IInv, Safe, Unborn, Shown
  <2>8. LockHolder(d)' /\ Done(d)'
    BY <1>3, <2>2, <2>3, <2>5 DEF IInv, Safe, LockHolder, Done
  <2>9. OnlyCall(d)' /\ Settled(d)'
    BY <1>1, <1>2, <1>3, <1>4, <2>5 DEF OnlyCall, Settled
  <2> QED BY <2>4, <2>6, <2>7, <2>8, <2>9, OneDelivery DEF Safe
<1> QED BY <1>5, <1>6 DEF Claim

LEMMA RecoverInv ==
    ASSUME IInv, NEW d \in Delivery, Recover(d)
    PROVE  IInv'
<1> DEFINE r == RetriedOrFailed(job[d])
<1>1. job[d] \in JobRowType /\ job[d].status = "running" /\ delivery[d] # NoDelivery
  BY RowFacts, Born DEF IInv, Recover
<1>2. r \in JobRowType /\ r.status \in {"queued", "failed"}
  BY <1>1, RetriedRow
<1>3. job' = [job EXCEPT ![d] = r] /\ UNCHANGED <<delivery, outbox, consent, access, shown>>
  BY DEF Recover
<1> HIDE DEF r
<1>4. /\ job' \in [Delivery -> JobRowType] /\ job'[d] = r
      /\ \A e \in Delivery : e # d => job'[e] = job[e]
  BY <1>2, <1>3 DEF IInv, TypeOK
<1>5. /\ SameCalls
      /\ \A t \in Slot : run'[t].stage = run[t].stage
      /\ overtaken' \in [Delivery -> BOOLEAN]
      /\ \A e \in Delivery : e # d => overtaken'[e] = overtaken[e]
      /\ overtaken'[d] <=> overtaken[d] \/ \E s \in Slot : Of(s, d)
  BY TakenCalls DEF IInv, Recover
<1>6. TypeOK'
  BY <1>3, <1>4, <1>5 DEF IInv, TypeOK, SameCalls
<1>7. \A e \in Delivery : e # d => Same(e)
  BY <1>3, <1>4, <1>5 DEF Same, SameCalls
<1>8. Unborn(d)' /\ Shown(d)'
  BY <1>1, <1>3 DEF IInv, Safe, Unborn, Shown
<1>9. LockHolder(d)'
  BY <1>3, <1>5 DEF IInv, Safe, LockHolder, SameCalls
<1>10. OnlyCall(d)' /\ Done(d)'
  BY <1>5 DEF OnlyCall, Done, SameCalls
<1>11. Settled(d)'
  BY <1>2, <1>4 DEF Settled
<1> QED BY <1>6, <1>7, <1>8, <1>9, <1>10, <1>11, OneDelivery DEF Safe

LEMMA AcknowledgeInv ==
    ASSUME IInv, NEW s \in Slot, Acknowledge(s)
    PROVE  IInv'
<1>0. PICK d \in Delivery : d = run[s].d
  BY RunFacts DEF IInv, Acknowledge, Stage
<1> DEFINE r == IF run[s].stage = "ok" THEN Completed(job[d]) ELSE Failed(job[d])
<1>1. run[s] # Idle /\ Of(s, d) /\ delivery[d] # NoDelivery
  BY <1>0, RunFacts, Born DEF IInv, Acknowledge, Stage
<1>2. job[d] \in JobRowType
  BY <1>1, RowFacts DEF IInv
<1>3. r \in JobRowType /\ (r.status = "succeeded" => job[d].status = "succeeded" \/ run[s].stage = "ok")
  BY <1>2, AcknowledgedRow
<1>4. /\ job' = [job EXCEPT ![d] = r] \/ UNCHANGED job
      /\ UNCHANGED <<delivery, outbox, consent, access, shown, overtaken>>
  BY <1>0 DEF Acknowledge, domain
<1>5. /\ run' \in [Slot -> Run \cup {Idle}] /\ run'[s] = Idle
      /\ \A t \in Slot : t # s =>
            /\ run'[t].stage = run[t].stage
            /\ \A e \in Delivery : Of(t, e)' <=> Of(t, e)
  <2>1. CASE run' = [run EXCEPT ![s] = Idle]
    BY <2>1 DEF IInv, TypeOK, Of
  <2>2. CASE run' = [t \in Slot |->
                IF t = s THEN Idle
                ELSE IF Of(t, d) /\ job' # job THEN [run[t] EXCEPT !.held = FALSE]
                ELSE run[t]]
    <3>1. ASSUME NEW t \in Slot, t # s
          PROVE  /\ run'[t] \in Run \cup {Idle}
                 /\ run'[t].stage = run[t].stage
                 /\ \A e \in Delivery : Of(t, e)' <=> Of(t, e)
      <4>1. CASE run'[t] = run[t]
        BY <4>1 DEF IInv, TypeOK, Of
      <4>2. CASE run'[t] = IF Of(t, d) THEN [run[t] EXCEPT !.held = FALSE] ELSE run[t]
        BY <4>2, ReleasedRun DEF IInv
      <4> QED BY <2>2, <3>1, <4>1, <4>2
    <3>2. run'[s] = Idle
      BY <2>2
    <3> QED BY <2>2, <3>1, <3>2
  <2> QED BY <1>0, <2>1, <2>2 DEF Acknowledge
<1>6. \A e \in Delivery : ~Of(s, e)' /\ (e # d => ~Of(s, e))
  BY <1>0, <1>5 DEF Of
<1>7. overtaken[d] \/ /\ \A t \in Slot : Of(t, d) => t = s
                      /\ run[s].stage = "ok" => delivery[d].status \in {"delivered", "failed"}
  BY <1>1 DEF IInv, Safe, OnlyCall, Done
<1> HIDE DEF r
<1>8. /\ job' \in [Delivery -> JobRowType]
      /\ job'[d] = r \/ job'[d] = job[d]
      /\ \A e \in Delivery : e # d => job'[e] = job[e]
  BY <1>1, <1>3, <1>4 DEF IInv, TypeOK
<1>9. TypeOK'
  BY <1>4, <1>5, <1>8 DEF IInv, TypeOK
<1>10. \A e \in Delivery : e # d => Same(e)
  BY <1>4, <1>5, <1>6, <1>8 DEF Same
<1>11. Unborn(d)' /\ Shown(d)'
  BY <1>1, <1>4 DEF IInv, Safe, Unborn, Shown
<1>12. LockHolder(d)'
  BY <1>1, <1>4, <1>5, <1>6 DEF IInv, Safe, LockHolder
<1>13. OnlyCall(d)' /\ Done(d)'
  BY <1>1, <1>4, <1>5, <1>6, <1>7 DEF IInv, Safe, OnlyCall, Done
<1>14. Settled(d)'
  BY <1>1, <1>3, <1>4, <1>7, <1>8 DEF IInv, Safe, Settled
<1> QED BY <1>1, <1>9, <1>10, <1>11, <1>12, <1>13, <1>14, OneDelivery DEF Safe

LEMMA CrashInv ==
    ASSUME IInv, Crash
    PROVE  IInv'
<1>1. TypeOK' /\ \A s \in Slot, d \in Delivery : ~Of(s, d)'
  BY DEF IInv, TypeOK, Crash, domain, Of
<1>2. UNCHANGED <<delivery, outbox, consent, access, job, shown, overtaken>>
  BY DEF Crash, domain
<1>3. ASSUME NEW d \in Delivery
      PROVE  Safe(d)'
  BY <1>1, <1>2 DEF IInv, Safe, Unborn, Shown, LockHolder, OnlyCall, Done, Settled
<1> QED BY <1>1, <1>3 DEF IInv

-------------------------------------------------------------------------------
(* The handlers. *)

(* A call's transaction: it goes on to another stage and writes the row. *)
LEMMA HandlerStep ==
    ASSUME IInv, NEW s \in Slot, NEW st \in Stage, run[s] # Idle, Goes(s, st),
           NEW d \in Delivery, d = run[s].d,
           NEW row \in Row, delivery' = [delivery EXCEPT ![d] = row],
           shown' \in [Delivery -> 0..2], \A e \in Delivery : e # d => shown'[e] = shown[e],
           UNCHANGED <<outbox, consent, access, job, overtaken>>,
           Shown(d)', LockHolder(d)',
           st = "ok" => row.status \in {"delivered", "failed"},
           delivery[d].status # "pending" => row.status # "pending"
    PROVE  IInv'
<1>1. Of(s, d) /\ delivery[d] # NoDelivery /\ delivery[d] \in Row
  BY Born, RowFacts DEF Of, IInv
<1>2. /\ SameCalls /\ run'[s].stage = st
      /\ \A t \in Slot : t # s => run'[t] = run[t]
  BY GoesRun DEF IInv
<1>3. /\ delivery'[d] = row /\ \A e \in Delivery : e # d => delivery'[e] = delivery[e]
      /\ delivery' \in [Delivery -> Row \cup {NoDelivery}]
  BY DEF IInv, TypeOK
<1>4. TypeOK'
  BY <1>2, <1>3 DEF IInv, TypeOK, SameCalls
<1>5. \A e \in Delivery : e # d => ~Of(s, e)
  BY DEF Of
<1>6. \A e \in Delivery : e # d => Same(e)
  BY <1>2, <1>3, <1>5 DEF Same, SameCalls
<1>7. Unborn(d)'
  BY <1>3 DEF Unborn, Row, NoDelivery
<1>8. OnlyCall(d)'
  BY <1>2 DEF IInv, Safe, OnlyCall, SameCalls
<1>9. row.status \in {"pending", "delivered", "failed"}
  BY DEF Row
<1>10. Done(d)'
  BY <1>2, <1>3, <1>9 DEF IInv, Safe, Done, SameCalls
<1>11. Settled(d)'
  BY <1>3 DEF IInv, Safe, Settled
<1> QED BY <1>4, <1>6, <1>7, <1>8, <1>10, <1>11, OneDelivery DEF Safe

(* A step that writes nothing. *)
LEMMA StageStep ==
    ASSUME IInv, NEW s \in Slot, NEW st \in Stage, run[s] # Idle, Goes(s, st), st # "locked",
           UNCHANGED <<job, domain>>,
           st = "ok" => delivery[run[s].d].status \in {"delivered", "failed"}
    PROVE  IInv'
<1>1. PICK d \in Delivery : d = run[s].d /\ Of(s, d)
  BY RunFacts DEF IInv
<1>2. delivery[d] \in Row /\ delivery' = [delivery EXCEPT ![d] = delivery[d]]
  BY <1>1, Born, RowFacts DEF IInv, TypeOK, domain
<1>3. UNCHANGED <<delivery, outbox, consent, access, job, shown, overtaken>>
  BY DEF domain
<1>4. Shown(d)'
  BY <1>3 DEF IInv, Safe, Shown
<1>5. /\ SameCalls /\ run'[s].stage = st
      /\ \A t \in Slot : t # s => run'[t] = run[t]
  BY GoesRun DEF IInv
<1>6. LockHolder(d)'
  BY <1>3, <1>5 DEF IInv, Safe, LockHolder, SameCalls
<1>7. shown' \in [Delivery -> 0..2] /\ \A e \in Delivery : shown'[e] = shown[e]
  BY <1>3 DEF IInv, TypeOK
<1> QED BY <1>1, <1>2, <1>3, <1>4, <1>6, <1>7, HandlerStep

LEMMA TimeoutInv ==
    ASSUME IInv, NEW s \in Slot, Timeout(s)
    PROVE  IInv'
<1>1. run[s] # Idle /\ Goes(s, "error") /\ UNCHANGED <<job, domain>>
  BY RunFacts DEF IInv, Timeout, Stage
<1> QED BY <1>1, StageStep DEF Stage

LEMMA ReadPendingInv ==
    ASSUME IInv, NEW s \in Slot, ReadPending(s)
    PROVE  IInv'
<1>1. run[s] # Idle
  BY RunFacts DEF IInv, ReadPending, Stage, HandlerStage
<1>2. PICK st \in {"ok", "sending", "raised"} :
         Goes(s, st) /\ (st = "ok" => delivery[run[s].d].status \in {"delivered", "failed"})
  BY DEF ReadPending
<1> QED BY <1>1, <1>2, StageStep DEF ReadPending, Stage, HandlerStage

LEMMA SendUnlockedInv ==
    ASSUME IInv, NEW s \in Slot, SendUnlocked(s)
    PROVE  IInv'
<1>1. run[s] # Idle
  BY RunFacts DEF IInv, SendUnlocked, Stage, HandlerStage
<1> QED BY <1>1, StageStep DEF SendUnlocked, Stage, HandlerStage

(* A delivery's status is written. *)
LEMMA BecomesRow ==
    ASSUME TypeOK, NEW d \in Delivery, delivery[d] \in Row, NEW st \in {"delivered", "failed"},
           Becomes(d, st)
    PROVE  \E row \in Row : /\ delivery' = [delivery EXCEPT ![d] = row]
                            /\ delivery'[d] = row /\ row.status = st
<1> DEFINE row == [delivery[d] EXCEPT !.status = st]
<1>1. row \in Row /\ row.status = st
  BY DEF Row
<1>2. delivery' = [delivery EXCEPT ![d] = row] /\ delivery'[d] = row
  BY DEF Becomes, TypeOK
<1> QED BY <1>1, <1>2

(* Of a call that is not under the locks while no call is. *)
LEMMA Unlocked ==
    ASSUME IInv, NEW s \in Slot, NEW st \in Stage, run[s] # Idle, Goes(s, st), st # "locked",
           NEW d \in Delivery, \A t \in Slot : Of(t, d) /\ run[t].stage = "locked" => t = s
    PROVE  LockHolder(d)'
<1>1. /\ SameCalls /\ run'[s].stage = st
      /\ \A t \in Slot : t # s => run'[t] = run[t]
  BY GoesRun DEF IInv
<1> QED BY <1>1 DEF LockHolder, SameCalls

LEMMA AuthorizeInv ==
    ASSUME IInv, NEW s \in Slot, Authorize(s)
    PROVE  IInv'
<1>1. run[s] # Idle
  BY RunFacts DEF IInv, Authorize, Stage, HandlerStage
<1>2. PICK d \in Delivery : d = run[s].d /\ Of(s, d)
  BY <1>1, RunFacts DEF IInv
<1>3. /\ ~Locked(d) /\ delivery[d].status = "pending" /\ delivery[d] \in Row
      /\ UNCHANGED <<outbox, consent, access, job, shown, overtaken>>
  BY <1>2, Born, RowFacts DEF Authorize, IInv
<1>4. CASE access[d] /\ Goes(s, "locked") /\ UNCHANGED delivery
  <2>1. /\ SameCalls /\ run'[s].stage = "locked"
        /\ \A t \in Slot : t # s => run'[t] = run[t]
    BY <1>1, <1>4, GoesRun DEF IInv, Stage, HandlerStage
  <2>2. LockHolder(d)'
    BY <1>3, <1>4, <2>1 DEF Locked, LockHolder, SameCalls
  <2>3. Shown(d)' /\ delivery' = [delivery EXCEPT ![d] = delivery[d]]
    BY <1>3, <1>4 DEF IInv, Safe, Shown, TypeOK
  <2>4. shown' \in [Delivery -> 0..2] /\ \A e \in Delivery : shown'[e] = shown[e]
    BY <1>3 DEF IInv, TypeOK
  <2>5. "locked" \in Stage
    BY DEF Stage, HandlerStage
  <2> QED BY <1>1, <1>2, <1>3, <1>4, <2>2, <2>3, <2>4, <2>5, HandlerStep
<1>5. CASE Goes(s, "ok") /\ Becomes(d, "failed")
  <2>1. PICK row \in Row : /\ delivery' = [delivery EXCEPT ![d] = row]
                          /\ delivery'[d] = row /\ row.status = "failed"
    BY <1>3, <1>5, BecomesRow DEF IInv
  <2>2. LockHolder(d)'
    BY <1>1, <1>3, <1>5, Unlocked DEF Locked, Stage
  <2>3. Shown(d)'
    BY <1>3, <2>1 DEF IInv, Safe, Shown
  <2>4. shown' \in [Delivery -> 0..2] /\ \A e \in Delivery : shown'[e] = shown[e]
    BY <1>3 DEF IInv, TypeOK
  <2> QED BY <1>1, <1>2, <1>3, <1>5, <2>1, <2>2, <2>3, <2>4, HandlerStep DEF Stage
<1> QED BY <1>2, <1>4, <1>5 DEF Authorize

(* The commit that settles the row is the one that shows it. *)
LEMMA FinalizeRow ==
    ASSUME IInv, NEW d \in Delivery, delivery[d] \in Row, delivery[d].status # "delivered",
           Finalize(d)
    PROVE  /\ \E row \in Row : /\ delivery' = [delivery EXCEPT ![d] = row]
                               /\ delivery'[d] = row /\ row.status = "delivered"
           /\ shown' \in [Delivery -> 0..2]
           /\ \A e \in Delivery : e # d => shown'[e] = shown[e]
           /\ Shown(d)'
<1>1. PICK copy \in BOOLEAN :
         delivery' = [delivery EXCEPT ![d].status = "delivered", ![d].mirrored = @ \/ copy]
  BY DEF Finalize
<1> DEFINE row == [delivery[d] EXCEPT !.status = "delivered", !.mirrored = @ \/ copy]
<1>2. row \in Row /\ row.status = "delivered" /\ row.channel = delivery[d].channel
  BY DEF Row
<1>3. delivery' = [delivery EXCEPT ![d] = row] /\ delivery'[d] = row
  BY <1>1 DEF IInv, TypeOK
<1>4. shown[d] = 0
  BY DEF IInv, Safe, Shown
<1>5. /\ shown' = [shown EXCEPT ![d] = IF delivery[d].channel = "in_app" /\ @ < 2
                                       THEN @ + 1 ELSE @]
  BY DEF Finalize
<1>6. /\ shown' \in [Delivery -> 0..2] /\ \A e \in Delivery : e # d => shown'[e] = shown[e]
      /\ shown'[d] = IF delivery[d].channel = "in_app" THEN 1 ELSE 0
  BY <1>4, <1>5 DEF IInv, TypeOK
<1> HIDE DEF row
<1>7. Shown(d)'
  BY <1>2, <1>3, <1>6 DEF Shown
<1> QED BY <1>2, <1>3, <1>6, <1>7

LEMMA SendLockedInv ==
    ASSUME IInv, NEW s \in Slot, SendLocked(s)
    PROVE  IInv'
<1>1. run[s] # Idle /\ run[s].stage = "locked"
  BY RunFacts DEF IInv, SendLocked, Stage, HandlerStage
<1>2. PICK d \in Delivery : d = run[s].d /\ Of(s, d)
  BY <1>1, RunFacts DEF IInv
<1>3. /\ delivery[d].status = "pending" /\ delivery[d] \in Row
      /\ \A t \in Slot : Of(t, d) /\ run[t].stage = "locked" => t = s
  BY <1>1, <1>2, Born, RowFacts DEF IInv, Safe, LockHolder
<1>4. UNCHANGED <<outbox, consent, access, job, overtaken>>
  BY DEF SendLocked
<1>5. CASE Finalize(d) /\ Goes(s, "ok")
  <2>1. PICK row \in Row : /\ delivery' = [delivery EXCEPT ![d] = row]
                          /\ delivery'[d] = row /\ row.status = "delivered"
    BY <1>3, <1>5, FinalizeRow
  <2>2. /\ shown' \in [Delivery -> 0..2] /\ \A e \in Delivery : e # d => shown'[e] = shown[e]
        /\ Shown(d)'
    BY <1>3, <1>5, FinalizeRow
  <2>3. LockHolder(d)'
    BY <1>1, <1>3, <1>5, Unlocked DEF Stage
  <2> QED BY <1>1, <1>2, <1>4, <1>5, <2>1, <2>2, <2>3, HandlerStep DEF Stage
<1>6. CASE Goes(s, "raised") /\ UNCHANGED <<delivery, shown>>
  BY <1>1, <1>4, <1>6, StageStep DEF domain, Stage, HandlerStage
<1> QED BY <1>2, <1>5, <1>6 DEF SendLocked

LEMMA MarkSentInv ==
    ASSUME IInv, NEW s \in Slot, MarkSent(s)
    PROVE  IInv'
<1>1. run[s] # Idle
  BY RunFacts DEF IInv, MarkSent, Stage, HandlerStage
<1>2. PICK d \in Delivery : d = run[s].d /\ Of(s, d)
  BY <1>1, RunFacts DEF IInv
<1>3. /\ ~Locked(d) /\ delivery[d] \in Row
      /\ UNCHANGED <<outbox, consent, access, job, overtaken>>
  BY <1>2, Born, RowFacts DEF MarkSent, IInv
<1>4. CASE delivery[d].status # "delivered" /\ Finalize(d) /\ Goes(s, "ok")
  <2>1. PICK row \in Row : /\ delivery' = [delivery EXCEPT ![d] = row]
                          /\ delivery'[d] = row /\ row.status = "delivered"
    BY <1>3, <1>4, FinalizeRow
  <2>2. /\ shown' \in [Delivery -> 0..2] /\ \A e \in Delivery : e # d => shown'[e] = shown[e]
        /\ Shown(d)'
    BY <1>3, <1>4, FinalizeRow
  <2>3. LockHolder(d)'
    BY <1>1, <1>3, <1>4, Unlocked DEF Locked, Stage
  <2> QED BY <1>1, <1>2, <1>3, <1>4, <2>1, <2>2, <2>3, HandlerStep DEF Stage
<1>5. CASE delivery[d].status = "delivered" /\ Goes(s, "ok") /\ UNCHANGED <<delivery, shown>>
  BY <1>1, <1>2, <1>3, <1>5, StageStep DEF domain, Stage
<1>6. CASE Goes(s, "raised") /\ UNCHANGED <<delivery, shown>>
  BY <1>1, <1>3, <1>6, StageStep DEF domain, Stage, HandlerStage
<1> QED BY <1>2, <1>4, <1>5, <1>6 DEF MarkSent

LEMMA MarkFailedInv ==
    ASSUME IInv, NEW s \in Slot, MarkFailed(s)
    PROVE  IInv'
<1>1. run[s] # Idle /\ Goes(s, "error")
  BY RunFacts DEF IInv, MarkFailed, Stage, HandlerStage
<1>2. PICK d \in Delivery : d = run[s].d /\ Of(s, d)
  BY <1>1, RunFacts DEF IInv
<1>3. /\ ~Locked(d) /\ delivery[d] \in Row
      /\ UNCHANGED <<outbox, consent, access, job, shown, overtaken>>
  BY <1>2, Born, RowFacts DEF MarkFailed, IInv
<1>4. CASE delivery[d].status # "delivered" /\ Becomes(d, "failed")
  <2>1. PICK row \in Row : /\ delivery' = [delivery EXCEPT ![d] = row]
                          /\ delivery'[d] = row /\ row.status = "failed"
    BY <1>3, <1>4, BecomesRow DEF IInv
  <2>2. LockHolder(d)'
    BY <1>1, <1>3, Unlocked DEF Locked, Stage
  <2>3. Shown(d)'
    BY <1>3, <1>4, <2>1 DEF IInv, Safe, Shown
  <2>4. shown' \in [Delivery -> 0..2] /\ \A e \in Delivery : shown'[e] = shown[e]
    BY <1>3 DEF IInv, TypeOK
  <2> QED BY <1>1, <1>2, <1>3, <2>1, <2>2, <2>3, <2>4, HandlerStep DEF Stage
<1>5. CASE UNCHANGED delivery
  BY <1>1, <1>3, <1>5, StageStep DEF domain, Stage
<1> QED BY <1>2, <1>4, <1>5 DEF MarkFailed

LEMMA StepInv ==
    ASSUME IInv, [Next]_vars
    PROVE  IInv'
<1>1. CASE UNCHANGED vars
  <2>1. TypeOK'
    BY <1>1 DEF vars, IInv, TypeOK
  <2>2. \A d \in Delivery : Same(d)
    BY <1>1 DEF vars, Same, Of
  <2> QED BY <2>1, <2>2, SameSafe DEF IInv
<1>2. ASSUME NEW d \in Delivery,
             SetConsent(d) \/ SetAccess(d) \/ Expand(d) \/ BecomeDue(d) \/ RetryDelivery(d)
      PROVE  IInv'
  BY <1>2, SetConsentInv, SetAccessInv, ExpandInv, BecomeDueInv, RetryDeliveryInv
<1>3. ASSUME NEW d \in Delivery,
             \/ RetryJob(d) \/ ScheduleDelivery(d) \/ DispatchDelivery(d)
             \/ CleanupJob(d) \/ Claim(d) \/ Recover(d)
      PROVE  IInv'
  BY <1>3, RetryJobInv, ScheduleDeliveryInv, DispatchDeliveryInv, CleanupJobInv, ClaimInv, RecoverInv
<1>4. ASSUME NEW s \in Slot, Handle(s) \/ Timeout(s) \/ Acknowledge(s)
      PROVE  IInv'
  BY <1>4, ReadPendingInv, AuthorizeInv, SendLockedInv, SendUnlockedInv, MarkSentInv,
     MarkFailedInv, TimeoutInv, AcknowledgeInv DEF Handle
<1> QED BY <1>1, <1>2, <1>3, <1>4, CrashInv DEF Next

LEMMA Invariance == Spec => []IInv
<1>1. Init => IInv
  BY InitInv
<1>2. IInv /\ [Next]_vars => IInv'
  BY StepInv
<1> QED BY <1>1, <1>2, PTL DEF Spec

(* Deliveries, jobs and calls have their types. *)
THEOREM TypeCorrect == Spec => []TypeOK
<1>1. IInv => TypeOK
  BY DEF IInv
<1> QED BY <1>1, Invariance, PTL

(* _finalize_delivery shows a delivery once: it runs on a row that is not  *)
(* delivered, and makes it so in the same commit.                          *)
THEOREM ShownOnceHolds == Spec => []ShownOnce
<1>1. IInv => ShownOnce
  BY RowFacts DEF IInv, Safe, Shown, ShownOnce
<1> QED BY <1>1, Invariance, PTL

(* An employee's delivery is sent by one call, under locks that keep what  *)
(* was authorized true.                                                    *)
THEOREM SendsOnlyWhatMayBeSeenHolds == Spec => []SendsOnlyWhatMayBeSeen
<1>1. IInv => SendsOnlyWhatMayBeSeen
  <2> SUFFICES ASSUME IInv, NEW s \in Slot, run[s].stage = "locked"
               PROVE  /\ access[run[s].d]
                      /\ delivery[run[s].d].status = "pending"
                      /\ \A t \in Slot : run[t].stage = "locked" /\ run[t].d = run[s].d => t = s
    BY DEF SendsOnlyWhatMayBeSeen
  <2>1. run[s].d \in Delivery /\ Of(s, run[s].d)
    BY RunFacts DEF IInv, Stage, HandlerStage
  <2>2. \A t \in Slot : run[t].stage = "locked" /\ run[t].d = run[s].d => Of(t, run[s].d)
    BY RunFacts DEF IInv, Stage, HandlerStage
  <2> QED BY <2>1, <2>2 DEF IInv, Safe, LockHolder
<1> QED BY <1>1, Invariance, PTL

(* A delivery job that succeeded leaves no pending delivery behind its key. *)
THEOREM SuccessMeansSettledHolds == Spec => []SuccessMeansSettled
<1>1. IInv => SuccessMeansSettled
  BY DEF IInv, Safe, Settled, SuccessMeansSettled
<1> QED BY <1>1, Invariance, PTL

(* A delivery that was made stays delivered, whatever fails or is retried. *)
THEOREM DeliveredIsFinalHolds == Spec => DeliveredIsFinal
<1>1. IInv /\ [Next]_vars =>
         [\A d \in Delivery :
             delivery[d].status = "delivered" => delivery'[d].status = "delivered"]_vars
  <2> SUFFICES ASSUME IInv, [Next]_vars, NEW d \in Delivery, delivery[d].status = "delivered"
               PROVE  delivery'[d].status = "delivered"
    OBVIOUS
  <2>1. CASE UNCHANGED delivery
    BY <2>1
  <2>2. ASSUME NEW e \in Delivery, Expand(e) \/ RetryDelivery(e) \/ BecomeDue(e)
        PROVE  delivery'[d].status = "delivered"
    BY <2>2, RowFacts DEF IInv, TypeOK, Expand, RetryDelivery, BecomeDue, Row
  <2>3. ASSUME NEW s \in Slot, Authorize(s) \/ MarkFailed(s)
        PROVE  delivery'[d].status = "delivered"
    BY <2>3 DEF IInv, TypeOK, Authorize, MarkFailed, Becomes
  <2>4. ASSUME NEW s \in Slot, SendLocked(s) \/ MarkSent(s)
        PROVE  delivery'[d].status = "delivered"
    <3>1. CASE UNCHANGED delivery
      BY <3>1
    <3>2. CASE Finalize(run[s].d)
      <4>1. PICK copy \in BOOLEAN :
               delivery' = [delivery EXCEPT ![run[s].d].status = "delivered",
                                            ![run[s].d].mirrored = @ \/ copy]
        BY <3>2 DEF Finalize
      <4>2. CASE d = run[s].d
        <5>1. delivery[d] \in Row
          BY RowFacts DEF IInv
        <5> QED BY <4>1, <4>2, <5>1 DEF IInv, TypeOK, Row
      <4>3. CASE d # run[s].d
        BY <4>1, <4>3 DEF IInv, TypeOK
      <4> QED BY <4>2, <4>3
    <3> QED BY <2>4, <3>1, <3>2 DEF SendLocked, MarkSent
  <2>5. \/ UNCHANGED delivery
        \/ \E e \in Delivery : Expand(e) \/ RetryDelivery(e) \/ BecomeDue(e)
        \/ \E s \in Slot : Authorize(s) \/ MarkFailed(s) \/ SendLocked(s) \/ MarkSent(s)
    BY DEF Next, vars, domain, SetConsent, SetAccess, RetryJob, ScheduleDelivery, DispatchDelivery,
           CleanupJob, Claim, Recover, Handle, ReadPending, SendUnlocked, Timeout, Acknowledge, Crash
  <2> QED BY <2>1, <2>2, <2>3, <2>4, <2>5
<1> QED BY <1>1, Invariance, PTL DEF Spec, DeliveredIsFinal
===============================================================================
