------------------------- MODULE OutboundMessagesProofs -------------------------
(***************************************************************************)
(* Proofs about OutboundMessages, for any messages, any number of handler  *)
(* slots and any number of attempts.                                       *)
(***************************************************************************)
EXTENDS OutboundMessages, JobRowProofs

Calls(s, m) == Of(s, m, "send")

(* A message that was not queued yet has left no trace. *)
Unborn ==
    \A m \in Message : message[m] = "none" =>
        /\ event[m] = "none"
        /\ \A k \in Kind : job[m][k].status = "absent"
        /\ \A s \in Slot, k \in Kind : ~Of(s, m, k)

(* Only send_message has these stages. *)
SendStages ==
    \A s \in Slot : run[s].stage \in {"sending", "accepted", "raised"} => run[s].kind = "send"

(* Unless the job was taken from a live call, a call, be it in its handler *)
(* or on its way to acknowledge, is the only one and the row is running.   *)
OnlyCall ==
    \A m \in Message, s \in Slot : ~overtaken[m] /\ Calls(s, m) =>
        /\ job[m]["send"].status = "running"
        /\ \A t \in Slot : Calls(t, m) => s = t

(* So nobody settles a message between a call's transactions. *)
Unsettled ==
    \A m \in Message, s \in Slot :
        ~overtaken[m] /\ Calls(s, m) /\ run[s].stage \in {"sending", "accepted"}
        => message[m] = "queued"

(* The provider has accepted what is sent or about to be recorded. *)
Accepted ==
    /\ \A m \in Message : message[m] = "sent" => accepted[m] > 0
    /\ \A m \in Message, s \in Slot :
          Calls(s, m) /\ run[s].stage = "accepted" => accepted[m] > 0

(* And what it has accepted is sent, or about to be recorded, or lost. *)
Recorded ==
    \A m \in Message :
        accepted[m] > 0 /\ ~unrecorded[m] /\ ~overtaken[m] =>
            \/ message[m] = "sent"
            \/ \E s \in Slot : Calls(s, m) /\ run[s].stage = "accepted"

(* A call that is about to report success has found or made an end. *)
Done ==
    \A m \in Message, s \in Slot :
        Calls(s, m) /\ run[s].stage = "ok" => message[m] \in {"sent", "failed"} \/ overtaken[m]

Safe == Unborn /\ SendStages /\ OnlyCall /\ Unsettled /\ Accepted /\ Recorded /\ Done
           /\ SuccessMeansSettled /\ DuplicateOnlyAfterLostAnswer

IInv == TypeOK /\ Safe

-------------------------------------------------------------------------------
(* What the steps do to the calls. *)

Stage == HandlerStage \cup {"ok", "error"}

LEMMA RunType ==
    ASSUME TypeOK, NEW s \in Slot
    PROVE  /\ run[s] # Idle <=> run[s].stage # "idle"
           /\ run[s] # Idle => run[s] \in Run
           /\ run[s].stage \in Stage => run[s] # Idle
BY DEF TypeOK, Run, Idle, HandlerStage, Stage

(* The calls are the same, whatever their stages. *)
SameCalls ==
    /\ run' \in [Slot -> Run \cup {Idle}]
    /\ \A t \in Slot, m \in Message, k \in Kind : Of(t, m, k)' <=> Of(t, m, k)
    /\ \A t \in Slot : run'[t].kind = run[t].kind /\ run'[t].m = run[t].m

SameStages == \A t \in Slot : run'[t].stage = run[t].stage

LEMMA GoesRun ==
    ASSUME TypeOK, NEW s \in Slot, NEW st \in Stage, run[s] # Idle, Goes(s, st)
    PROVE  /\ SameCalls
           /\ run'[s].stage = st
           /\ \A t \in Slot : t # s => run'[t] = run[t]
<1>1. run[s] \in Run
  BY RunType
<1>2. [run[s] EXCEPT !.stage = st] \in Run
  BY <1>1 DEF Run, Stage
<1>3. run' = [run EXCEPT ![s] = [run[s] EXCEPT !.stage = st]]
  BY DEF Goes
<1>4. run'[s] = [run[s] EXCEPT !.stage = st] /\ \A t \in Slot : t # s => run'[t] = run[t]
  BY <1>3 DEF TypeOK
<1>5. run' \in [Slot -> Run \cup {Idle}]
  BY <1>2, <1>3 DEF TypeOK
<1>6. run'[s].stage = st /\ run'[s].m = run[s].m /\ run'[s].kind = run[s].kind
  BY <1>1, <1>4 DEF Run
<1>7. run'[s] # Idle
  BY <1>6 DEF Idle, Stage, HandlerStage
<1> QED BY <1>4, <1>5, <1>6, <1>7 DEF SameCalls, Of

LEMMA ReleasedRun ==
    ASSUME TypeOK, NEW m \in Message, NEW k \in Kind, run' = Released(m, k)
    PROVE  SameCalls /\ SameStages
<1> SUFFICES ASSUME NEW t \in Slot
             PROVE  /\ run'[t] \in Run \cup {Idle}
                    /\ run'[t] = Idle <=> run[t] = Idle
                    /\ run'[t].stage = run[t].stage
                    /\ run'[t].kind = run[t].kind /\ run'[t].m = run[t].m
  BY DEF Released, SameCalls, SameStages, Of
<1>1. CASE Of(t, m, k)
  <2>1. run'[t] = [run[t] EXCEPT !.held = FALSE] /\ run[t] \in Run /\ run[t] # Idle
    BY <1>1, RunType DEF Released, Of
  <2> QED BY <2>1 DEF Run, Idle, HandlerStage
<1>2. CASE ~Of(t, m, k)
  BY <1>2 DEF Released, TypeOK
<1> QED BY <1>1, <1>2

JobBecomes(m, k, r) == job' = [job EXCEPT ![m][k] = r]

LEMMA JobSet ==
    ASSUME TypeOK, NEW m \in Message, NEW k \in Kind, NEW r \in JobRowType,
           JobBecomes(m, k, r)
    PROVE  /\ job' \in [Message -> [Kind -> JobRowType]]
           /\ job'[m][k] = r
           /\ \A n \in Message, l \in Kind : n # m \/ l # k => job'[n][l] = job[n][l]
BY DEF TypeOK, JobBecomes

-------------------------------------------------------------------------------
(* Each action keeps the invariant. *)

LEMMA QueueMessageInv ==
    ASSUME IInv, NEW m \in Message, QueueMessage(m)
    PROVE  IInv'
<1> USE DEF IInv, QueueMessage, Calls, Of, Kind
<1>1. TypeOK'
  BY DEF TypeOK
<1>2. Unborn' /\ SendStages' /\ OnlyCall'
  BY DEF TypeOK, Safe, Unborn, SendStages, OnlyCall
<1>3. Unsettled' /\ Accepted' /\ Recorded' /\ Done'
  BY DEF TypeOK, Safe, Unborn, Unsettled, Accepted, Recorded, Done
<1>4. SuccessMeansSettled' /\ DuplicateOnlyAfterLostAnswer'
  BY DEF TypeOK, Safe, Unborn, SuccessMeansSettled, DuplicateOnlyAfterLostAnswer
<1> QED BY <1>1, <1>2, <1>3, <1>4 DEF Safe

LEMMA RetryMessageInv ==
    ASSUME IInv, NEW m \in Message, RetryMessage(m)
    PROVE  IInv'
<1> USE DEF IInv
<1> DEFINE r == Reset(job[m]["send"])
<1>1. "send" \in Kind /\ job[m]["send"] \in JobRowType
  BY DEF TypeOK, Kind
<1>2. r \in JobRowType /\ r.status \in {"absent", "queued"}
  BY <1>1, ResetRow
<1>3. /\ job' \in [Message -> [Kind -> JobRowType]]
      /\ job'[m]["send"] = r
      /\ \A n \in Message, l \in Kind : n # m \/ l # "send" => job'[n][l] = job[n][l]
  <2>1. JobBecomes(m, "send", r) /\ TypeOK
    BY DEF RetryMessage, JobBecomes
  <2> HIDE DEF r, IInv
  <2> QED BY <1>1, <1>2, <2>1, JobSet, SMTT(30)
<1>4. SameCalls /\ SameStages
  BY <1>1, ReleasedRun DEF RetryMessage
<1>5. /\ \A s \in Slot : Calls(s, m) => overtaken'[m]
      /\ \A n \in Message : n # m => overtaken'[n] = overtaken[n] /\ message'[n] = message[n]
      /\ \A n \in Message : overtaken[n] => overtaken'[n]
      /\ message'[m] = "queued" /\ message[m] = "failed"
      /\ UNCHANGED <<event, accepted, unrecorded>>
  BY DEF RetryMessage, Overtakes, TypeOK, Calls
<1>6. TypeOK'
  BY <1>3, <1>4 DEF RetryMessage, Overtakes, TypeOK, SameCalls
<1>7. Unborn' /\ SendStages' /\ OnlyCall'
  BY <1>2, <1>3, <1>4, <1>5 DEF Safe, Unborn, SendStages, OnlyCall, SameCalls, SameStages, Calls, Kind
<1>8. Unsettled' /\ Accepted' /\ Recorded' /\ Done'
  BY <1>4, <1>5 DEF Safe, Unsettled, Accepted, Recorded, Done, SameCalls, SameStages, Calls, Kind
<1>9. SuccessMeansSettled' /\ DuplicateOnlyAfterLostAnswer'
  BY <1>2, <1>3, <1>5 DEF Safe, SuccessMeansSettled, DuplicateOnlyAfterLostAnswer, Kind
<1> QED BY <1>6, <1>7, <1>8, <1>9 DEF Safe

(* Steps that touch nothing but rows of the queue, and no running row.     *)
LEMMA JobsOnly ==
    ASSUME IInv, UNCHANGED <<run, domain>>,
           job' \in [Message -> [Kind -> JobRowType]],
           \A m \in Message, k \in Kind :
              /\ job[m][k].status = "running" => job'[m][k] = job[m][k]
              /\ job'[m][k].status = "succeeded" => job[m][k].status = "succeeded"
              /\ job[m][k].status = "absent" /\ message[m] = "none" => job'[m][k].status = "absent"
    PROVE  IInv'
<1> USE DEF IInv, domain
<1>1. TypeOK'
  BY DEF TypeOK
<1>2. Unborn' /\ SendStages' /\ OnlyCall'
  BY DEF Safe, Unborn, SendStages, OnlyCall, Calls, Of, Kind
<1>3. Unsettled' /\ Accepted' /\ Recorded' /\ Done'
  BY DEF Safe, Unsettled, Accepted, Recorded, Done, Calls, Of
<1>4. SuccessMeansSettled' /\ DuplicateOnlyAfterLostAnswer'
  BY DEF Safe, SuccessMeansSettled, DuplicateOnlyAfterLostAnswer, Kind
<1> QED BY <1>1, <1>2, <1>3, <1>4 DEF Safe

LEMMA OneJobOnly ==
    ASSUME IInv, UNCHANGED <<run, domain>>, NEW m \in Message, NEW k \in Kind,
           NEW r \in JobRowType, job' = [job EXCEPT ![m][k] = r],
           job[m][k].status \notin {"absent", "running"}, r.status # "succeeded"
    PROVE  IInv'
<1>1. /\ job' \in [Message -> [Kind -> JobRowType]]
      /\ job'[m][k] = r
      /\ \A n \in Message, l \in Kind : n # m \/ l # k => job'[n][l] = job[n][l]
  <2>1. JobBecomes(m, k, r) /\ TypeOK
    BY DEF JobBecomes, IInv
  <2> QED BY <2>1, JobSet, SMTT(30)
<1>2. \A n \in Message, l \in Kind :
          /\ job[n][l].status = "running" => job'[n][l] = job[n][l]
          /\ job'[n][l].status = "succeeded" => job[n][l].status = "succeeded"
          /\ job[n][l].status = "absent" /\ message[n] = "none" => job'[n][l].status = "absent"
  BY <1>1
<1> QED BY <1>1, <1>2, JobsOnly

LEMMA RetryJobInv ==
    ASSUME IInv, NEW m \in Message, NEW k \in Kind, RetryJob(m, k)
    PROVE  IInv'
<1>1. job[m][k] \in JobRowType
  BY DEF IInv, TypeOK
<1>2. Reset(job[m][k]) \in JobRowType /\ Reset(job[m][k]).status = "queued"
  BY <1>1, ResetRow DEF RetryJob
<1> QED BY <1>2, OneJobOnly DEF RetryJob

LEMMA CleanupJobInv ==
    ASSUME IInv, NEW m \in Message, NEW k \in Kind, CleanupJob(m, k)
    PROVE  IInv'
BY NoJobType, OneJobOnly DEF CleanupJob, Terminal

LEMMA ScheduleWorkInv ==
    ASSUME IInv, ScheduleWork
    PROVE  IInv'
<1> DEFINE Due(m, k) == IF k = "dispatch" THEN event[m] = "pending" ELSE message[m] = "queued"
<1>1. \A m \in Message, k \in Kind :
          job'[m][k] = IF Due(m, k) THEN Enqueued(job[m][k]) ELSE job[m][k]
  BY DEF ScheduleWork, Kind
<1>2. \A m \in Message, k \in Kind : job[m][k] \in JobRowType
  BY DEF IInv, TypeOK
<1>3. \A m \in Message : message[m] = "none" => event[m] = "none"
  BY DEF IInv, Safe, Unborn
<1>4. ASSUME NEW m \in Message, NEW k \in Kind
      PROVE  /\ job'[m][k] \in JobRowType
             /\ job[m][k].status = "running" => job'[m][k] = job[m][k]
             /\ job'[m][k].status = "succeeded" => job[m][k].status = "succeeded"
             /\ job[m][k].status = "absent" /\ message[m] = "none" => job'[m][k].status = "absent"
  <2>1. job[m][k] \in JobRowType
    BY <1>2
  <2> QED BY <1>1, <1>3, <2>1, EnqueuedRow
<1>5. job' \in [Message -> [Kind -> JobRowType]]
  <2>1. job' = [m \in Message |-> job'[m]] /\ \A m \in Message : job'[m] = [k \in Kind |-> job'[m][k]]
    BY DEF ScheduleWork, Kind
  <2> QED BY <1>4, <2>1
<1> QED BY <1>4, <1>5, JobsOnly DEF ScheduleWork

LEMMA CleanupEventInv ==
    ASSUME IInv, NEW m \in Message, CleanupEvent(m)
    PROVE  IInv'
<1> USE DEF IInv, CleanupEvent
<1>1. TypeOK'
  BY DEF TypeOK
<1>2. Unborn' /\ SendStages' /\ OnlyCall'
  BY DEF Safe, TypeOK, Unborn, SendStages, OnlyCall, Calls, Of
<1>3. Unsettled' /\ Accepted' /\ Recorded' /\ Done'
  BY DEF Safe, Unsettled, Accepted, Recorded, Done, Calls, Of
<1>4. SuccessMeansSettled' /\ DuplicateOnlyAfterLostAnswer'
  BY DEF Safe, SuccessMeansSettled, DuplicateOnlyAfterLostAnswer
<1> QED BY <1>1, <1>2, <1>3, <1>4 DEF Safe

LEMMA ClaimInv ==
    ASSUME IInv, NEW m \in Message, NEW k \in Kind, Claim(m, k)
    PROVE  IInv'
<1> DEFINE r == Claimed(job[m][k])
<1>1. job[m][k] \in JobRowType /\ job[m][k].status = "queued"
  BY ClaimedRow DEF Claim, IInv, TypeOK
<1>2. r \in JobRowType /\ r.status = "running"
  BY <1>1, ClaimedRow DEF Claim
<1>3. job' = [job EXCEPT ![m][k] = r] /\ UNCHANGED domain
  BY DEF Claim
<1> HIDE DEF r
<1>4. CASE UNCHANGED run
  BY <1>1, <1>2, <1>3, <1>4, OneJobOnly
<1>5. ASSUME NEW s \in Slot, NEW last \in BOOLEAN, run[s] = Idle,
             run' = [run EXCEPT ![s] = [stage |-> "started", m |-> m, kind |-> k,
                                        held |-> TRUE, last |-> last]]
      PROVE  IInv'
  <2> USE DEF IInv
  <2>1. /\ job' \in [Message -> [Kind -> JobRowType]]
        /\ job'[m][k] = r
        /\ \A n \in Message, l \in Kind : n # m \/ l # k => job'[n][l] = job[n][l]
    <3>1. JobBecomes(m, k, r)
      BY <1>3 DEF JobBecomes
    <3> HIDE DEF IInv
    <3> QED BY <1>2, <3>1, JobSet, Zenon DEF IInv
  <2>2. /\ run' \in [Slot -> Run \cup {Idle}]
        /\ run'[s].stage = "started" /\ run'[s].m = m /\ run'[s].kind = k /\ run'[s] # Idle
        /\ \A t \in Slot : t # s => run'[t] = run[t]
    BY <1>5 DEF TypeOK, Run, HandlerStage, Idle
  <2>3. message[m] # "none"
    BY <1>1 DEF Safe, Unborn
  <2>4. k = "send" /\ ~overtaken[m] => \A t \in Slot : ~Calls(t, m)
    BY <1>1 DEF Safe, OnlyCall
  <2>5. TypeOK'
    BY <1>3, <2>1, <2>2 DEF TypeOK, domain
  <2>6. Unborn' /\ SendStages' /\ OnlyCall'
    BY <1>2, <1>3, <1>5, <2>1, <2>2, <2>3, <2>4
       DEF domain, Safe, Unborn, SendStages, OnlyCall, Calls, Of, Kind
  <2>7. Unsettled' /\ Accepted' /\ Recorded' /\ Done'
    BY <1>3, <1>5, <2>2 DEF domain, Safe, Unsettled, Accepted, Recorded, Done, Calls, Of
  <2>8. SuccessMeansSettled' /\ DuplicateOnlyAfterLostAnswer'
    BY <1>2, <1>3, <2>1 DEF domain, Safe, SuccessMeansSettled, DuplicateOnlyAfterLostAnswer, Kind
  <2> QED BY <2>5, <2>6, <2>7, <2>8 DEF Safe
<1> QED BY <1>4, <1>5 DEF Claim

(* A handler's stage ends without a trace but for an answer that is lost.  *)
LEMMA TimeoutInv ==
    ASSUME IInv, NEW s \in Slot, Timeout(s)
    PROVE  IInv'
<1> USE DEF IInv
<1>1. run[s] # Idle /\ run[s] \in Run
  BY RunType DEF Timeout, HandlerStage, Stage
<1>2. /\ SameCalls /\ run'[s].stage = "error"
      /\ \A t \in Slot : t # s => run'[t] = run[t]
  BY <1>1, GoesRun DEF Timeout, Stage
<1>3. /\ run[s].m \in Message
      /\ \A n \in Message : unrecorded[n] => unrecorded'[n]
      /\ run[s].stage = "accepted" => unrecorded'[run[s].m]
      /\ UNCHANGED <<message, event, job, accepted, overtaken>>
  BY <1>1 DEF Timeout, TypeOK, Run
<1>4. TypeOK'
  BY <1>1, <1>2 DEF Timeout, TypeOK, Run, SameCalls
<1>5. Unborn' /\ SendStages' /\ OnlyCall'
  BY <1>2, <1>3 DEF Safe, Unborn, SendStages, OnlyCall, SameCalls, Calls, Kind
<1>6. Unsettled' /\ Accepted' /\ Done'
  BY <1>2, <1>3 DEF Safe, Unsettled, Accepted, Done, SameCalls, Calls, Kind
<1>7. Recorded'
  BY <1>2, <1>3 DEF Safe, Recorded, SameCalls, Calls, Kind, Of
<1>8. SuccessMeansSettled' /\ DuplicateOnlyAfterLostAnswer'
  BY <1>3 DEF Safe, SuccessMeansSettled, DuplicateOnlyAfterLostAnswer
<1> QED BY <1>4, <1>5, <1>6, <1>7, <1>8 DEF Safe

(* A call that was acknowledged, or could not be, is gone.                 *)
Gone(s) ==
    /\ run' \in [Slot -> Run \cup {Idle}]
    /\ run'[s] = Idle
    /\ \A t \in Slot : t # s =>
          /\ run'[t].stage = run[t].stage /\ run'[t].kind = run[t].kind /\ run'[t].m = run[t].m
          /\ run'[t] = Idle <=> run[t] = Idle

LEMMA AcknowledgeInv ==
    ASSUME IInv, NEW s \in Slot, Acknowledge(s)
    PROVE  IInv'
<1> USE DEF IInv
<1> DEFINE m == run[s].m
           k == run[s].kind
           r == IF run[s].stage = "ok" THEN Completed(job[m][k]) ELSE Failed(job[m][k])
<1>1. run[s] # Idle /\ run[s] \in Run
  BY RunType DEF Acknowledge, Stage
<1>2. m \in Message /\ k \in Kind /\ Of(s, m, k)
  BY <1>1 DEF Run, Of
<1>3. Gone(s)
  <2>1. PICK q \in {run, Released(m, k)} : run' = [q EXCEPT ![s] = Idle]
    BY DEF Acknowledge
  <2>2. CASE q = run
    BY <2>1, <2>2 DEF Gone, TypeOK
  <2>3. CASE q = Released(m, k)
    <3>1. /\ q \in [Slot -> Run \cup {Idle}]
          /\ \A t \in Slot : /\ q[t].stage = run[t].stage /\ q[t].kind = run[t].kind
                             /\ q[t].m = run[t].m /\ (q[t] = Idle <=> run[t] = Idle)
      <4> SUFFICES ASSUME NEW t \in Slot
                   PROVE  /\ q[t] \in Run \cup {Idle}
                          /\ q[t].stage = run[t].stage /\ q[t].kind = run[t].kind
                          /\ q[t].m = run[t].m /\ (q[t] = Idle <=> run[t] = Idle)
        BY <2>3 DEF Released
      <4>1. CASE Of(t, m, k)
        <5>1. q[t] = [run[t] EXCEPT !.held = FALSE] /\ run[t] \in Run /\ run[t] # Idle
          BY <2>3, <4>1, RunType DEF Released, Of
        <5> QED BY <5>1 DEF Run, Idle, HandlerStage
      <4>2. CASE ~Of(t, m, k)
        BY <2>3, <4>2 DEF Released, TypeOK
      <4> QED BY <4>1, <4>2
    <3> QED BY <2>1, <3>1 DEF Gone
  <2> QED BY <2>1, <2>2, <2>3
<1>4. job[m][k] \in JobRowType
  BY <1>2 DEF TypeOK
<1>5. /\ r \in JobRowType
      /\ job[m][k].status # "running" => r = job[m][k]
      /\ r.status = "succeeded" => run[s].stage = "ok" \/ job[m][k].status = "succeeded"
      /\ job[m][k].status = "running" => r.status # "absent"
  BY <1>4, AcknowledgedRow
<1>6. UNCHANGED domain /\ (job' = [job EXCEPT ![m][k] = r] \/ UNCHANGED job)
  BY DEF Acknowledge
<1> HIDE DEF r
<1>7. /\ job' \in [Message -> [Kind -> JobRowType]]
      /\ job'[m][k] = r \/ job'[m][k] = job[m][k]
      /\ \A n \in Message, l \in Kind : n # m \/ l # k => job'[n][l] = job[n][l]
  <2>1. CASE job' = [job EXCEPT ![m][k] = r]
    <3>1. JobBecomes(m, k, r)
      BY <2>1 DEF JobBecomes
    <3> HIDE DEF m, k
    <3> QED BY <1>2, <1>5, <3>1, JobSet, Zenon
  <2>2. CASE UNCHANGED job
    BY <2>2 DEF TypeOK
  <2> QED BY <1>6, <2>1, <2>2
<1>8. TypeOK'
  BY <1>3, <1>6, <1>7 DEF TypeOK, Gone, domain
<1>9. Unborn' /\ SendStages'
  BY <1>2, <1>3, <1>5, <1>6, <1>7 DEF Safe, Unborn, SendStages, Gone, Of, domain, Idle
<1>10. OnlyCall'
  <2> SUFFICES ASSUME NEW n \in Message, NEW t \in Slot, ~overtaken[n], Calls(t, n)'
               PROVE  /\ job'[n]["send"].status = "running"
                      /\ \A x \in Slot : Calls(x, n)' => t = x
    BY <1>6 DEF OnlyCall, domain
  <2>1. t # s /\ Calls(t, n)
    BY <1>3 DEF Gone, Calls, Of
  <2>2. n # m \/ k # "send"
    BY <1>2, <2>1 DEF Safe, OnlyCall, Calls
  <2>3. job'[n]["send"] = job[n]["send"]
    BY <1>7, <2>2 DEF Kind
  <2> QED BY <1>3, <2>1, <2>3 DEF Safe, OnlyCall, Gone, Calls, Of
<1>11. Unsettled' /\ Accepted' /\ Done'
  BY <1>3, <1>6 DEF Safe, Unsettled, Accepted, Done, Gone, Calls, Of, Idle, domain
<1>12. Recorded'
  BY <1>3, <1>6 DEF Safe, Recorded, Gone, Calls, Of, Idle, domain, Acknowledge
<1>13. SuccessMeansSettled' /\ DuplicateOnlyAfterLostAnswer'
  <2>1. run[s].stage = "ok" /\ k = "send" => message[m] \in {"sent", "failed"} \/ overtaken[m]
    BY <1>2 DEF Safe, Done, Calls
  <2> QED BY <1>5, <1>6, <1>7, <2>1
          DEF Safe, SuccessMeansSettled, DuplicateOnlyAfterLostAnswer, Kind, domain
<1> QED BY <1>8, <1>9, <1>10, <1>11, <1>12, <1>13 DEF Safe

LEMMA RecoverInv ==
    ASSUME IInv, NEW m \in Message, NEW k \in Kind, Recover(m, k)
    PROVE  IInv'
<1> USE DEF IInv
<1> DEFINE r == RetriedOrFailed(job[m][k])
<1>1. job[m][k] \in JobRowType /\ job[m][k].status = "running"
  BY DEF Recover, TypeOK
<1>2. r \in JobRowType /\ r.status \in {"queued", "failed"}
  BY <1>1, RetriedRow
<1>3. job' = [job EXCEPT ![m][k] = r]
  BY DEF Recover
<1> HIDE DEF r
<1>4. /\ job' \in [Message -> [Kind -> JobRowType]]
      /\ job'[m][k] = r
      /\ \A n \in Message, l \in Kind : n # m \/ l # k => job'[n][l] = job[n][l]
  <2>1. JobBecomes(m, k, r)
    BY <1>3 DEF JobBecomes
  <2> QED BY <1>2, <2>1, JobSet, Zenon
<1>5. SameCalls /\ SameStages
  BY ReleasedRun DEF Recover
<1>6. /\ k = "send" => \A s \in Slot : Calls(s, m) => overtaken'[m]
      /\ \A n \in Message : overtaken[n] => overtaken'[n]
      /\ \A n \in Message : n # m => overtaken'[n] = overtaken[n]
      /\ UNCHANGED <<message, event, accepted, unrecorded>>
  BY DEF Recover, Overtakes, TypeOK, Calls
<1>7. TypeOK'
  BY <1>4, <1>5 DEF Recover, Overtakes, TypeOK, SameCalls
<1>8. Unborn' /\ SendStages'
  BY <1>1, <1>4, <1>5, <1>6 DEF Safe, Unborn, SendStages, SameCalls, SameStages
<1>9. OnlyCall'
  BY <1>4, <1>5, <1>6 DEF Safe, OnlyCall, SameCalls, SameStages, Calls, Kind
<1>10. Unsettled' /\ Accepted' /\ Recorded' /\ Done'
  BY <1>5, <1>6 DEF Safe, Unsettled, Accepted, Recorded, Done, SameCalls, SameStages, Calls, Kind
<1>11. SuccessMeansSettled' /\ DuplicateOnlyAfterLostAnswer'
  BY <1>2, <1>4, <1>6 DEF Safe, SuccessMeansSettled, DuplicateOnlyAfterLostAnswer, Kind
<1> QED BY <1>7, <1>8, <1>9, <1>10, <1>11 DEF Safe

LEMMA CrashInv ==
    ASSUME IInv, Crash
    PROVE  IInv'
<1> USE DEF IInv
<1>1. /\ \A s \in Slot : run'[s] = Idle
      /\ UNCHANGED <<message, event, job, accepted, overtaken>>
      /\ \A n \in Message : unrecorded[n] => unrecorded'[n]
      /\ \A s \in Slot, n \in Message : Calls(s, n) /\ run[s].stage = "accepted" => unrecorded'[n]
  BY DEF Crash, TypeOK, Calls, Of
<1>2. TypeOK'
  BY DEF Crash, TypeOK
<1>3. Unborn' /\ SendStages' /\ OnlyCall'
  BY <1>1 DEF Safe, Unborn, SendStages, OnlyCall, Calls, Of, Idle
<1>4. Unsettled' /\ Accepted' /\ Recorded' /\ Done'
  BY <1>1 DEF Safe, Unsettled, Accepted, Recorded, Done, Calls, Of
<1>5. SuccessMeansSettled' /\ DuplicateOnlyAfterLostAnswer'
  BY <1>1 DEF Safe, SuccessMeansSettled, DuplicateOnlyAfterLostAnswer
<1> QED BY <1>2, <1>3, <1>4, <1>5 DEF Safe

-------------------------------------------------------------------------------
(* The handlers. *)

LEMMA DispatchInv ==
    ASSUME IInv, NEW s \in Slot, Dispatch(s)
    PROVE  IInv'
<1> USE DEF IInv
<1> DEFINE m == run[s].m
           r == Enqueued(job[m]["send"])
<1>1. run[s] # Idle /\ run[s] \in Run
  BY RunType DEF Dispatch, HandlerStage, Stage
<1>2. m \in Message /\ "send" \in Kind /\ Of(s, m, "dispatch") /\ message[m] # "none"
  BY <1>1 DEF Dispatch, Run, Of, Safe, Unborn, Kind
<1>3. PICK st \in {"ok", "error"} : Goes(s, st)
  BY DEF Dispatch
<1>4. /\ SameCalls /\ run'[s].stage = st
      /\ \A t \in Slot : t # s => run'[t] = run[t]
  BY <1>1, <1>3, GoesRun DEF Stage
<1>5. job[m]["send"] \in JobRowType
  BY <1>2 DEF TypeOK
<1>6. /\ r \in JobRowType
      /\ job[m]["send"].status # "absent" => r = job[m]["send"]
      /\ job[m]["send"].status = "absent" => r.status = "queued"
  BY <1>5, EnqueuedRow
<1>7. /\ job' = [job EXCEPT ![m]["send"] = r] \/ UNCHANGED job
      /\ UNCHANGED <<message, accepted, unrecorded, overtaken>>
      /\ event' = event \/ event' = [event EXCEPT ![m] = "processed"]
  BY DEF Dispatch
<1>8. ~Calls(s, m) /\ \A n \in Message : ~Calls(s, n)
  BY <1>2 DEF Calls, Of
<1> HIDE DEF m, r
<1>9. /\ job' \in [Message -> [Kind -> JobRowType]]
      /\ job'[m]["send"] = r \/ job'[m]["send"] = job[m]["send"]
      /\ \A n \in Message, l \in Kind : n # m \/ l # "send" => job'[n][l] = job[n][l]
  <2>1. CASE job' = [job EXCEPT ![m]["send"] = r]
    <3> SUFFICES ASSUME TypeOK, m \in Message, "send" \in Kind, r \in JobRowType
                 PROVE  /\ job' \in [Message -> [Kind -> JobRowType]]
                        /\ job'[m]["send"] = r
                        /\ \A n \in Message, l \in Kind :
                              n # m \/ l # "send" => job'[n][l] = job[n][l]
      BY <1>2, <1>6
    <3>1. JobBecomes(m, "send", r)
      BY <2>1 DEF JobBecomes
    <3> HIDE DEF IInv
    <3> QED BY <3>1, JobSet, Zenon
  <2>2. CASE UNCHANGED job
    BY <2>2 DEF TypeOK
  <2> QED BY <1>7, <2>1, <2>2
<1>10. TypeOK'
  BY <1>2, <1>4, <1>7, <1>9 DEF TypeOK, SameCalls
<1>11. Unborn' /\ SendStages'
  <2>1. \A n \in Message : message[n] = "none" => n # m
    BY <1>2
  <2>4. \A n \in Message : n # m => event'[n] = event[n]
    BY <1>7 DEF TypeOK
  <2>2. Unborn'
    BY <1>4, <1>7, <1>9, <2>1, <2>4 DEF Safe, Unborn, SameCalls
  <2>3. SendStages'
    BY <1>4 DEF Safe, SendStages, SameCalls
  <2> QED BY <2>2, <2>3
<1>12. OnlyCall'
  BY <1>4, <1>6, <1>7, <1>9 DEF Safe, OnlyCall, SameCalls, Calls, Kind
<1>13. Unsettled' /\ Accepted' /\ Done'
  BY <1>4, <1>7, <1>8 DEF Safe, Unsettled, Accepted, Done, SameCalls, Calls, Kind
<1>14. Recorded'
  BY <1>4, <1>7, <1>8 DEF Safe, Recorded, SameCalls, Calls, Kind
<1>15. SuccessMeansSettled' /\ DuplicateOnlyAfterLostAnswer'
  BY <1>6, <1>7, <1>9 DEF Safe, SuccessMeansSettled, DuplicateOnlyAfterLostAnswer, Kind
<1> QED BY <1>10, <1>11, <1>12, <1>13, <1>14, <1>15 DEF Safe

LEMMA ReadContextInv ==
    ASSUME IInv, NEW s \in Slot, ReadContext(s)
    PROVE  IInv'
<1> USE DEF IInv
<1> DEFINE m == run[s].m
<1>1. run[s] # Idle /\ run[s] \in Run
  BY RunType DEF ReadContext, HandlerStage, Stage
<1>2. m \in Message /\ Calls(s, m) /\ run[s].kind = "send"
  BY <1>1 DEF ReadContext, Run, Calls, Of
<1>3. PICK st \in {"ok", "sending", "raised"} :
         /\ Goes(s, st)
         /\ st = "ok" => message[m] \in {"sent", "failed"}
         /\ st # "ok" => message[m] = "queued"
  BY DEF ReadContext
<1>4. /\ SameCalls /\ run'[s].stage = st
      /\ \A t \in Slot : t # s => run'[t] = run[t]
  BY <1>1, <1>3, GoesRun DEF Stage, HandlerStage
<1>5. UNCHANGED <<message, event, job, accepted, unrecorded, overtaken>>
  BY DEF ReadContext, domain
<1>6. TypeOK'
  BY <1>4, <1>5 DEF TypeOK, SameCalls
<1>7. Unborn' /\ SendStages' /\ OnlyCall'
  BY <1>2, <1>4, <1>5 DEF Safe, Unborn, SendStages, OnlyCall, SameCalls, Calls, Kind
<1>8. \A n \in Message : Calls(s, n) => n = m
  BY DEF Calls, Of
<1>9. Unsettled' /\ Accepted' /\ Done'
  BY <1>3, <1>4, <1>5, <1>8 DEF Safe, Unsettled, Accepted, Done, SameCalls, Calls, Kind
<1>10. Recorded'
  BY <1>4, <1>5 DEF Safe, Recorded, SameCalls, Calls, Kind, ReadContext
<1>11. SuccessMeansSettled' /\ DuplicateOnlyAfterLostAnswer'
  BY <1>5 DEF Safe, SuccessMeansSettled, DuplicateOnlyAfterLostAnswer
<1> QED BY <1>6, <1>7, <1>9, <1>10, <1>11 DEF Safe

(* An accepted call that is not the first was made after an answer was     *)
(* lost, or beside a call that had lost the job: the first one would       *)
(* otherwise have settled the message, or be this call.                    *)
LEMMA CallProviderInv ==
    ASSUME IInv, NEW s \in Slot, CallProvider(s)
    PROVE  IInv'
<1> USE DEF IInv
<1> DEFINE m == run[s].m
<1>1. run[s] # Idle /\ run[s] \in Run
  BY RunType DEF CallProvider, HandlerStage, Stage
<1>2. m \in Message /\ Calls(s, m) /\ run[s].kind = "send"
  BY <1>1 DEF CallProvider, Run, Calls, Of, Safe, SendStages
<1>3. PICK st \in {"accepted", "raised"} : Goes(s, st)
  BY DEF CallProvider
<1>4. /\ SameCalls /\ run'[s].stage = st
      /\ \A t \in Slot : t # s => run'[t] = run[t]
  BY <1>1, <1>3, GoesRun DEF Stage, HandlerStage
<1>5. /\ UNCHANGED <<message, event, job, overtaken>>
      /\ \A n \in Message : unrecorded[n] => unrecorded'[n]
      /\ \A n \in Message : n # m => accepted'[n] = accepted[n] /\ unrecorded'[n] = unrecorded[n]
      /\ accepted[m] \in 0..2 /\ accepted'[m] \in 0..2
      /\ \/ accepted'[m] = accepted[m]
         \/ /\ accepted'[m] > 0 /\ accepted'[m] <= accepted[m] + 1
            /\ unrecorded'[m] \/ run'[s].stage = "accepted"
      /\ run'[s].stage = "accepted" => accepted'[m] > 0
  <2>1. accepted[m] \in 0..2
    BY <1>2 DEF TypeOK
  <2>2. CASE /\ accepted' = [accepted EXCEPT ![m] = IF @ = 2 THEN 2 ELSE @ + 1]
             /\ \/ Goes(s, "accepted") /\ UNCHANGED unrecorded
                \/ Goes(s, "raised") /\ unrecorded' = [unrecorded EXCEPT ![m] = TRUE]
    <3>1. Goes(s, "accepted") => run'[s].stage = "accepted"
      BY <1>1, GoesRun DEF Stage, HandlerStage
    <3> QED BY <1>2, <2>1, <2>2, <3>1 DEF CallProvider, TypeOK
  <2>3. CASE Goes(s, "raised") /\ UNCHANGED <<accepted, unrecorded>>
    <3>1. run'[s].stage = "raised"
      BY <1>1, <2>3, GoesRun DEF Stage, HandlerStage
    <3> QED BY <1>2, <2>1, <2>3, <3>1 DEF CallProvider, TypeOK
  <2> QED BY <2>2, <2>3 DEF CallProvider
<1>6. \A n \in Message : Calls(s, n) => n = m
  BY DEF Calls, Of
<1>7. run[s].stage = "sending" /\ run'[s].stage # "sending"
  BY <1>3, <1>4 DEF CallProvider
<1>8. TypeOK'
  <2>1. /\ accepted' \in [Message -> 0..2]
        /\ unrecorded' \in [Message -> BOOLEAN]
    <3> SUFFICES ASSUME accepted \in [Message -> 0..2],
                        unrecorded \in [Message -> BOOLEAN]
                 PROVE  /\ accepted' \in [Message -> 0..2]
                        /\ unrecorded' \in [Message -> BOOLEAN]
      BY DEF TypeOK
    <3> HIDE DEF IInv
    <3>1. CASE UNCHANGED <<accepted, unrecorded>>
      BY <3>1
    <3>2. CASE /\ accepted' = [accepted EXCEPT ![m] = IF @ = 2 THEN 2 ELSE @ + 1]
               /\ unrecorded' = unrecorded \/ unrecorded' = [unrecorded EXCEPT ![m] = TRUE]
      <4>1. accepted[m] \in 0..2 /\ (IF accepted[m] = 2 THEN 2 ELSE accepted[m] + 1) \in 0..2
        BY <1>2
      <4>2. accepted' \in [Message -> 0..2]
        BY <1>2, <3>2, <4>1
      <4>3. unrecorded' \in [Message -> BOOLEAN]
        BY <1>2, <3>2
      <4> QED BY <4>2, <4>3
    <3> QED BY <3>1, <3>2 DEF CallProvider
  <2> QED BY <1>4, <1>5, <2>1 DEF TypeOK, SameCalls
<1> HIDE DEF m
<1>9. Unborn' /\ SendStages' /\ OnlyCall'
  BY <1>2, <1>4, <1>5 DEF Safe, Unborn, SendStages, OnlyCall, SameCalls, Calls, Kind
<1>10. Unsettled' /\ Done'
  BY <1>2, <1>3, <1>4, <1>5, <1>7 DEF Safe, Unsettled, Done, SameCalls, Calls, Kind
<1>11. Accepted'
  <2>1. \A n \in Message : accepted[n] > 0 => accepted'[n] > 0
    BY <1>5
  <2> QED BY <1>4, <1>5, <1>6, <2>1 DEF Safe, Accepted, SameCalls, Calls, Kind
<1>12. Recorded'
  BY <1>2, <1>4, <1>5, <1>7 DEF Safe, Recorded, SameCalls, Calls, Kind
<1>13. SuccessMeansSettled'
  BY <1>5 DEF Safe, SuccessMeansSettled
<1>14. DuplicateOnlyAfterLostAnswer'
  <2>1. accepted[m] > 0 => unrecorded[m] \/ overtaken[m]
    <3> SUFFICES ASSUME accepted[m] > 0, ~unrecorded[m], ~overtaken[m]
                 PROVE  FALSE
      OBVIOUS
    <3>1. message[m] = "queued"
      BY <1>2, <1>7 DEF Safe, Unsettled
    <3>2. PICK t \in Slot : Calls(t, m) /\ run[t].stage = "accepted"
      BY <1>2, <3>1 DEF Safe, Recorded
    <3>3. t = s
      BY <1>2, <3>2 DEF Safe, OnlyCall
    <3> QED BY <1>7, <3>2, <3>3
  <2> QED BY <1>2, <1>5, <2>1 DEF Safe, DuplicateOnlyAfterLostAnswer
<1> QED BY <1>8, <1>9, <1>10, <1>11, <1>12, <1>13, <1>14 DEF Safe

LEMMA MarkSentInv ==
    ASSUME IInv, NEW s \in Slot, MarkSent(s)
    PROVE  IInv'
<1> USE DEF IInv
<1> DEFINE m == run[s].m
<1>1. run[s] # Idle /\ run[s] \in Run
  BY RunType DEF MarkSent, HandlerStage, Stage
<1>2. m \in Message /\ Calls(s, m) /\ run[s].kind = "send" /\ run[s].stage = "accepted"
  BY <1>1 DEF MarkSent, Run, Calls, Of, Safe, SendStages
<1>3. PICK st \in {"ok", "raised"} :
         /\ Goes(s, st)
         /\ st = "ok" => message'[m] = "sent"
         /\ st = "raised" => unrecorded'[m] /\ UNCHANGED message
  BY <1>2 DEF MarkSent, TypeOK
<1>4. /\ SameCalls /\ run'[s].stage = st
      /\ \A t \in Slot : t # s => run'[t] = run[t]
  BY <1>1, <1>3, GoesRun DEF Stage, HandlerStage
<1>5. /\ UNCHANGED <<event, job, accepted, overtaken>>
      /\ \A n \in Message : unrecorded[n] => unrecorded'[n]
      /\ \A n \in Message : n # m => message'[n] = message[n] /\ unrecorded'[n] = unrecorded[n]
      /\ message'[m] \in {message[m], "sent"}
      /\ message[m] = "sent" => message'[m] = "sent"
      /\ accepted[m] > 0
  BY <1>2 DEF MarkSent, TypeOK, Safe, Accepted
<1>6. \A n \in Message : Calls(s, n) => n = m
  BY DEF Calls, Of
<1>7. TypeOK'
  BY <1>2, <1>4 DEF MarkSent, TypeOK, SameCalls
<1> HIDE DEF m
<1>8. Unborn' /\ SendStages' /\ OnlyCall'
  BY <1>2, <1>4, <1>5 DEF Safe, Unborn, SendStages, OnlyCall, SameCalls, Calls, Kind
<1>9. Unsettled'
  <2>1. ~overtaken[m] => \A t \in Slot : Calls(t, m) => t = s
    BY <1>2 DEF Safe, OnlyCall
  <2> QED BY <1>3, <1>4, <1>5, <2>1 DEF Safe, Unsettled, SameCalls, Calls, Kind
<1>10. Accepted' /\ Done'
  BY <1>3, <1>4, <1>5, <1>6 DEF Safe, Accepted, Done, SameCalls, Calls, Kind
<1>11. Recorded'
  BY <1>3, <1>4, <1>5, <1>6 DEF Safe, Recorded, SameCalls, Calls, Kind
<1>12. SuccessMeansSettled' /\ DuplicateOnlyAfterLostAnswer'
  BY <1>5 DEF Safe, SuccessMeansSettled, DuplicateOnlyAfterLostAnswer
<1> QED BY <1>7, <1>8, <1>9, <1>10, <1>11, <1>12 DEF Safe

LEMMA MarkFailedInv ==
    ASSUME IInv, NEW s \in Slot, MarkFailed(s)
    PROVE  IInv'
<1> USE DEF IInv
<1> DEFINE m == run[s].m
<1>1. run[s] # Idle /\ run[s] \in Run
  BY RunType DEF MarkFailed, HandlerStage, Stage
<1>2. m \in Message /\ Calls(s, m) /\ run[s].kind = "send" /\ run[s].stage = "raised"
  BY <1>1 DEF MarkFailed, Run, Calls, Of, Safe, SendStages
<1>3. /\ SameCalls /\ run'[s].stage = "error"
      /\ \A t \in Slot : t # s => run'[t] = run[t]
  BY <1>1, GoesRun DEF MarkFailed, Stage, HandlerStage
<1>4. /\ UNCHANGED <<event, job, accepted, unrecorded, overtaken>>
      /\ \A n \in Message : n # m => message'[n] = message[n]
      /\ message'[m] # message[m] => message[m] = "queued" /\ message'[m] = "failed"
  BY <1>2 DEF MarkFailed, TypeOK
<1>5. TypeOK'
  BY <1>2, <1>3 DEF MarkFailed, TypeOK, SameCalls
<1> HIDE DEF m
<1>6. Unborn' /\ SendStages' /\ OnlyCall'
  BY <1>2, <1>3, <1>4 DEF Safe, Unborn, SendStages, OnlyCall, SameCalls, Calls, Kind
<1>7. Unsettled'
  <2>1. ~overtaken[m] => \A t \in Slot : Calls(t, m) => t = s
    BY <1>2 DEF Safe, OnlyCall
  <2> QED BY <1>3, <1>4, <2>1 DEF Safe, Unsettled, SameCalls, Calls, Kind
<1>8. Accepted' /\ Done'
  BY <1>3, <1>4 DEF Safe, Accepted, Done, SameCalls, Calls, Kind
<1>9. Recorded'
  BY <1>2, <1>3, <1>4 DEF Safe, Recorded, SameCalls, Calls, Kind
<1>10. SuccessMeansSettled' /\ DuplicateOnlyAfterLostAnswer'
  BY <1>4 DEF Safe, SuccessMeansSettled, DuplicateOnlyAfterLostAnswer
<1> QED BY <1>5, <1>6, <1>7, <1>8, <1>9, <1>10 DEF Safe

-------------------------------------------------------------------------------
LEMMA InitInv ==
    ASSUME Init
    PROVE  IInv
<1>1. TypeOK
  BY NoJobType DEF Init, TypeOK
<1>2. Unborn /\ SendStages /\ OnlyCall /\ Unsettled
  BY NoJobType DEF Init, Unborn, SendStages, OnlyCall, Unsettled, Calls, Of, Idle
<1>3. Accepted /\ Recorded /\ Done
  BY DEF Init, Accepted, Recorded, Done, Calls, Of
<1>4. SuccessMeansSettled /\ DuplicateOnlyAfterLostAnswer
  BY DEF Init, SuccessMeansSettled, DuplicateOnlyAfterLostAnswer
<1> QED BY <1>1, <1>2, <1>3, <1>4 DEF IInv, Safe

LEMMA StepInv ==
    ASSUME IInv, [Next]_vars
    PROVE  IInv'
<1>1. CASE UNCHANGED vars
  <2>1. UNCHANGED <<run, domain>> /\ UNCHANGED job
    BY <1>1 DEF vars, domain
  <2> QED BY <2>1, JobsOnly DEF IInv, TypeOK
<1>2. ASSUME NEW m \in Message, QueueMessage(m) \/ RetryMessage(m) \/ CleanupEvent(m)
      PROVE  IInv'
  BY <1>2, QueueMessageInv, RetryMessageInv, CleanupEventInv
<1>3. ASSUME NEW m \in Message, NEW k \in Kind,
             RetryJob(m, k) \/ CleanupJob(m, k) \/ Claim(m, k) \/ Recover(m, k)
      PROVE  IInv'
  BY <1>3, RetryJobInv, CleanupJobInv, ClaimInv, RecoverInv
<1>4. ASSUME NEW s \in Slot, Handle(s) \/ Timeout(s) \/ Acknowledge(s)
      PROVE  IInv'
  BY <1>4, DispatchInv, ReadContextInv, CallProviderInv, MarkSentInv, MarkFailedInv,
     TimeoutInv, AcknowledgeInv DEF Handle
<1>5. CASE ScheduleWork \/ Crash
  BY <1>5, ScheduleWorkInv, CrashInv
<1> QED BY <1>1, <1>2, <1>3, <1>4, <1>5 DEF Next

(* "sent" is final: no handler marks anything but a queued message failed, *)
(* and a retry is for failed ones.                                         *)
LEMMA StepSentIsFinal ==
    ASSUME IInv, IInv', [Next]_vars
    PROVE  \A m \in Message :
              /\ message[m] = "sent" => message'[m] = "sent"
              /\ message'[m] = "sent" => accepted'[m] > 0
<1>1. ASSUME NEW m \in Message, message'[m] = "sent"
      PROVE  accepted'[m] > 0
  BY <1>1, SMTT(40) DEF IInv, Safe, Accepted
<1>2. \/ UNCHANGED message
      \/ \E n \in Message : QueueMessage(n) \/ RetryMessage(n)
      \/ \E s \in Slot : MarkSent(s) \/ MarkFailed(s)
  BY DEF Next, vars, domain, CleanupEvent, RetryJob, CleanupJob, Claim, Recover, Handle, Dispatch,
         ReadContext, CallProvider, Timeout, Acknowledge, ScheduleWork, Crash
<1>3. ASSUME NEW m \in Message, message[m] = "sent"
      PROVE  message'[m] = "sent"
  BY <1>2, <1>3 DEF IInv, TypeOK, QueueMessage, RetryMessage, MarkSent, MarkFailed
<1> QED BY <1>1, <1>3

LEMMA Invariance == Spec => []IInv
<1>1. Init => IInv
  BY InitInv
<1>2. IInv /\ [Next]_vars => IInv'
  BY StepInv
<1> QED BY <1>1, <1>2, PTL DEF Spec

(* The rows, calls and counters have their types. *)
THEOREM TypeCorrect == Spec => []TypeOK
<1>1. IInv => TypeOK
  BY DEF IInv
<1> QED BY <1>1, Invariance, PTL

(* send_message reaches a client twice only after a lost answer, or beside *)
(* a call that the job was taken from.                                     *)
THEOREM DuplicateOnlyAfterLostAnswerHolds == Spec => []DuplicateOnlyAfterLostAnswer
<1>1. IInv => DuplicateOnlyAfterLostAnswer
  BY DEF IInv, Safe
<1> QED BY <1>1, Invariance, PTL

(* And otherwise no two calls for one message are under way. *)
THEOREM OneSenderAtATimeHolds == Spec => []OneSenderAtATime
<1>1. IInv => OneSenderAtATime
  <2> SUFFICES ASSUME IInv, NEW s \in Slot, NEW t \in Slot,
                      run[s].stage \in HandlerStage, run[s].kind = "send",
                      run[t].stage \in HandlerStage, run[t].kind = "send",
                      run[s].m = run[t].m, ~overtaken[run[s].m]
               PROVE  s = t
    BY DEF OneSenderAtATime
  <2>1. run[s].m \in Message /\ Calls(s, run[s].m) /\ Calls(t, run[s].m)
    BY RunType DEF IInv, Stage, Run, Calls, Of
  <2> QED BY <2>1 DEF IInv, Safe, OnlyCall
<1> QED BY <1>1, Invariance, PTL

(* A send job that succeeded leaves no queued message behind its key.      *)
THEOREM SuccessMeansSettledHolds == Spec => []SuccessMeansSettled
<1>1. IInv => SuccessMeansSettled
  BY DEF IInv, Safe
<1> QED BY <1>1, Invariance, PTL

(* A sent message stays so, and was accepted by the provider. *)
THEOREM SentIsFinalHolds == Spec => SentIsFinal
<1>1. IInv /\ IInv' /\ [Next]_vars =>
         [\A m \in Message :
             /\ message[m] = "sent" => message'[m] = "sent"
             /\ message'[m] = "sent" => accepted'[m] > 0]_vars
  BY StepSentIsFinal
<1> QED BY <1>1, Invariance, PTL DEF Spec, SentIsFinal
===============================================================================
