----------------------------- MODULE AmoImportProofs -----------------------------
(***************************************************************************)
(* Proofs about AmoImport, for any number of pages, versions, handler      *)
(* calls and attempts.                                                     *)
(***************************************************************************)
EXTENDS AmoImport, JobRowProofs

(* The versions suffice for what the import can still do by itself. *)
Budget ==
    /\ imp.version + Pages - imp.cursor <= MaxVersion
    /\ imp.status \in {"none", "running"} \/ (imp.status = "succeeded" /\ imp.report # "recorded")
          => imp.version + 1 + Pages - imp.cursor <= MaxVersion

(* The pages up to the cursor have been applied, all of them by an import  *)
(* that succeeded.                                                         *)
Progress ==
    /\ imp.status = "succeeded" <=> imp.cursor = Pages
    /\ imp.status = "none" => imp.version = 1 /\ imp.cursor = 0 /\ job[1] = NoJob
    /\ applied = [p \in 1..Pages |-> IF p <= imp.cursor THEN 1 ELSE 0]

(* A page that was read for the row's present version is the next one, and *)
(* the job of that version does not end well before the row has moved on.  *)
Call(k) ==
    /\ run[k].stage = "idle" => run[k] = Idle
    /\ run[k].stage # "idle" => job[k].status = "running"
    /\ run[k].stage \in {"storing", "stored"} => k = Report
    /\ run[k].stage = "read" =>
          /\ k # Report /\ k <= run[k].seen /\ run[k].seen <= imp.version
          /\ run[k].seen = imp.version => imp.status = "running" /\ imp.cursor = run[k].cursor
    /\ run[k].stage = "ok" /\ k # Report => ~(imp.status = "running" /\ imp.version = k)

Calls == \A k \in Key : Call(k)

IInv == TypeOK /\ KeysAreFresh /\ RunningHasWork /\ Budget /\ Progress /\ Calls

-------------------------------------------------------------------------------
(* What the steps do to the rows and the calls. *)

Stage == HandlerStage \cup {"idle", "ok", "error"}

LEMMA KeyType ==
    /\ Report \in Key /\ Version \subseteq Key /\ Report \notin Version
    /\ \A k \in Key : k # Report => k \in Version
    /\ Key \subseteq Nat /\ 1 \in Version
BY ImportAssumption DEF Key, Report, Version

LEMMA AtType ==
    ASSUME NEW st \in Stage
    PROVE  At(st) \in Run /\ At(st).stage = st
BY ImportAssumption DEF At, Run, Stage, HandlerStage, Version

LEMMA IdleType == Idle \in Run /\ Idle.stage = "idle"
BY AtType DEF Idle, Stage

LEMMA GoesRun ==
    ASSUME TypeOK, NEW k \in Key, NEW st \in Stage, Goes(k, st)
    PROVE  /\ run' \in [Key -> Run]
           /\ run'[k] = At(st) /\ run'[k].stage = st
           /\ \A l \in Key : l # k => run'[l] = run[l]
BY AtType DEF TypeOK, Goes

LEMMA JobSet ==
    ASSUME TypeOK, NEW k \in Key, NEW r \in JobRowType, job' = [job EXCEPT ![k] = r]
    PROVE  /\ job' \in [Key -> JobRowType]
           /\ job'[k] = r
           /\ \A l \in Key : l # k => job'[l] = job[l]
BY DEF TypeOK

(* The row of a job that exists moves on and the import stays: the         *)
(* import's present job may only end by failing.                           *)
LEMMA JobMoves ==
    ASSUME IInv, NEW k \in Key, NEW r \in JobRowType, job' = [job EXCEPT ![k] = r],
           job[k].status # "absent", UNCHANGED <<imp, applied, swept>>,
           \/ r.status \in {"queued", "running", "failed"}
           \/ k = Report \/ ~(imp.status = "running" /\ imp.version = k)
    PROVE  KeysAreFresh' /\ RunningHasWork' /\ Budget' /\ Progress'
<1>1. /\ job'[k] = r
      /\ \A l \in Key : l # k => job'[l] = job[l]
  BY JobSet DEF IInv
<1>2. job[k] # NoJob
  BY NoJobType
<1>3. imp.version \in Version
  BY DEF IInv, TypeOK, Import
<1>4. KeysAreFresh'
  BY <1>1, <1>2, KeyType DEF IInv, KeysAreFresh
<1>5. RunningHasWork'
  BY <1>1, <1>3, KeyType DEF IInv, RunningHasWork, GivenUp
<1>6. Budget' /\ Progress'
  BY <1>1, <1>2, KeyType DEF IInv, Budget, Progress
<1> QED BY <1>4, <1>5, <1>6

(* Only a call changes. *)
LEMMA CallMoves ==
    ASSUME IInv, NEW k \in Key, run' \in [Key -> Run],
           \A l \in Key : l # k => run'[l] = run[l],
           UNCHANGED <<imp, applied, job, swept>>, Call(k)'
    PROVE  IInv'
<1>1. TypeOK' /\ KeysAreFresh' /\ RunningHasWork' /\ Budget' /\ Progress'
  BY DEF IInv, TypeOK, KeysAreFresh, RunningHasWork, GivenUp, Budget, Progress
<1>2. ASSUME NEW l \in Key, l # k
      PROVE  Call(l)'
  BY <1>2 DEF IInv, Calls, Call
<1> QED BY <1>1, <1>2 DEF IInv, Calls

(* The row moves on to a new version; its calls stay as they are. *)
LEMMA ImportMoves ==
    ASSUME IInv, imp' \in Import, imp'.version > imp.version, NEW l \in Key,
           run'[l] = run[l], job'[l] = job[l]
    PROVE  Call(l)'
<1>1. Call(l) /\ imp.version \in Nat /\ imp'.version \in Nat /\ l \in Nat
  BY KeyType, ImportAssumption DEF IInv, TypeOK, Import, Calls, Version
<1>2. run[l].seen \in Nat
  BY ImportAssumption DEF IInv, TypeOK, Run, Version
<1>3. job[l].status = "running" /\ l # Report => l <= imp.version
  BY <1>1, KeyType, NoJobType DEF IInv, KeysAreFresh
<1> QED BY <1>1, <1>2, <1>3 DEF Call

-------------------------------------------------------------------------------
(* Each action keeps the invariant. *)

LEMMA ImpFacts ==
    ASSUME TypeOK
    PROVE  /\ imp \in Import
           /\ imp.version \in Version /\ imp.version \in Nat /\ imp.version \in Key
           /\ imp.cursor \in 0..Pages /\ Pages \in Nat \ {0} /\ MaxVersion \in Nat
BY KeyType, ImportAssumption DEF TypeOK, Import, Version

LEMMA InitInv == Init => IInv
<1> SUFFICES ASSUME Init PROVE IInv
  OBVIOUS
<1>1. TypeOK
  BY NoJobType, IdleType, ImportAssumption DEF Init, TypeOK, Import, Version
<1>2. KeysAreFresh /\ RunningHasWork /\ Budget /\ Progress
  BY KeyType, ImportAssumption DEF Init, KeysAreFresh, RunningHasWork, GivenUp, Budget, Progress
<1>3. Calls
  BY IdleType DEF Init, Calls, Call
<1> QED BY <1>1, <1>2, <1>3 DEF IInv

LEMMA StartImportInv ==
    ASSUME IInv, StartImport
    PROVE  IInv'
<1>1. TypeOK /\ imp.version = 1 /\ imp.cursor = 0 /\ job[1] = NoJob
  BY DEF IInv, StartImport, Progress
<1>2. imp' = [imp EXCEPT !.status = "running"] /\ imp' \in Import
  BY <1>1 DEF StartImport, TypeOK, Import
<1>3. Enqueued(job[1]) \in JobRowType /\ Enqueued(job[1]).status = "queued"
  BY <1>1, NoJobType, EnqueuedRow
<1>4. /\ job' \in [Key -> JobRowType] /\ job'[1] = Enqueued(job[1])
      /\ \A l \in Key : l # 1 => job'[l] = job[l]
  BY <1>1, <1>3, KeyType, JobSet DEF StartImport
<1>5. TypeOK'
  BY <1>1, <1>2, <1>4 DEF StartImport, TypeOK
<1>6. KeysAreFresh' /\ RunningHasWork' /\ Budget' /\ Progress'
  BY <1>1, <1>2, <1>3, <1>4, ImpFacts, KeyType
     DEF StartImport, IInv, KeysAreFresh, RunningHasWork, GivenUp, Budget, Progress, Import
<1>7. ASSUME NEW k \in Key
      PROVE  Call(k)'
  <2>1. job[k] = NoJob
    BY <1>1, KeyType DEF IInv, KeysAreFresh, StartImport, Version
  <2>2. run[k].stage = "idle" /\ run[k] = Idle /\ run'[k] = run[k]
    BY <2>1, NoJobType DEF IInv, Calls, Call, StartImport
  <2> QED BY <2>2 DEF Call
<1> QED BY <1>5, <1>6, <1>7 DEF IInv, Calls

LEMMA BecomesInv ==
    ASSUME IInv, NEW st \in {"paused", "failed"}, imp.status = "running", Becomes(st),
           UNCHANGED <<applied, job, swept>>
    PROVE  /\ imp' \in Import /\ imp'.version > imp.version /\ imp'.status = st
           /\ KeysAreFresh' /\ RunningHasWork' /\ Budget' /\ Progress'
<1>1. TypeOK /\ imp' = [imp EXCEPT !.status = st, !.version = imp.version + 1]
  BY DEF IInv, Becomes
<1>2. imp.version + 1 \in Version
  BY <1>1, ImpFacts, ImportAssumption DEF IInv, Budget, Version
<1>3. imp' \in Import
  BY <1>1, <1>2, ImpFacts DEF Import
<1>4. imp'.status = st /\ imp'.version = imp.version + 1 /\ imp'.cursor = imp.cursor
  BY <1>1, ImpFacts DEF Import
<1>5. KeysAreFresh' /\ RunningHasWork'
  BY <1>1, <1>4, ImpFacts DEF IInv, KeysAreFresh, RunningHasWork, GivenUp, Version
<1>6. Budget' /\ Progress'
  BY <1>1, <1>4, ImpFacts DEF IInv, Budget, Progress
<1> QED BY <1>1, <1>3, <1>4, <1>5, <1>6, ImpFacts

LEMMA PauseImportInv ==
    ASSUME IInv, PauseImport
    PROVE  IInv'
<1>1. /\ imp' \in Import /\ imp'.version > imp.version
      /\ KeysAreFresh' /\ RunningHasWork' /\ Budget' /\ Progress'
  BY BecomesInv DEF PauseImport
<1>2. TypeOK'
  BY <1>1 DEF IInv, PauseImport, TypeOK
<1>3. Calls'
  BY <1>1, ImportMoves DEF PauseImport, Calls
<1> QED BY <1>1, <1>2, <1>3 DEF IInv

LEMMA ResumeImportInv ==
    ASSUME IInv, ResumeImport
    PROVE  IInv'
<1> DEFINE v == imp.version + 1
<1>1. TypeOK /\ imp' = [imp EXCEPT !.status = "running", !.version = v]
  BY DEF IInv, ResumeImport, Becomes
<1>2. v \in Version /\ v \in Key /\ v # imp.version /\ v > imp.version
  BY <1>1, ImpFacts, KeyType DEF ResumeImport, Version
<1>3. imp' \in Import
  BY <1>1, <1>2, ImpFacts DEF Import
<1>4. imp'.status = "running" /\ imp'.version = v /\ imp'.cursor = imp.cursor
  BY <1>1, ImpFacts DEF Import
<1>5. job[v] = NoJob
  BY <1>2 DEF IInv, KeysAreFresh
<1>6. Enqueued(job[v]) \in JobRowType /\ Enqueued(job[v]).status = "queued"
  BY <1>5, NoJobType, EnqueuedRow
<1>7. /\ job' \in [Key -> JobRowType] /\ job'[v] = Enqueued(job[v])
      /\ \A l \in Key : l # v => job'[l] = job[l]
  BY <1>1, <1>2, <1>6, JobSet DEF ResumeImport
<1>8. TypeOK'
  BY <1>1, <1>3, <1>7 DEF ResumeImport, TypeOK
<1>9. KeysAreFresh' /\ RunningHasWork'
  BY <1>1, <1>2, <1>4, <1>6, <1>7, ImpFacts, KeyType
     DEF ResumeImport, IInv, KeysAreFresh, RunningHasWork, GivenUp, Version
<1>10. Budget' /\ Progress'
  <2>1. v + 1 + Pages - imp'.cursor <= MaxVersion /\ v + Pages - imp'.cursor <= MaxVersion
    BY <1>1, <1>4, ImpFacts DEF ResumeImport
  <2>2. imp.cursor # Pages /\ UNCHANGED applied
    BY DEF ResumeImport, IInv, Progress
  <2>3. Budget'
    BY <1>4, <2>1 DEF Budget
  <2>4. Progress'
    BY <1>4, <2>2 DEF IInv, Progress
  <2> QED BY <2>3, <2>4
<1>11. ASSUME NEW k \in Key
       PROVE  Call(k)'
  <2>1. CASE k = v
    <3>1. run[k].stage = "idle" /\ run[k] = Idle /\ run'[k] = run[k]
      BY <1>5, <2>1, NoJobType DEF IInv, Calls, Call, ResumeImport
    <3> QED BY <3>1 DEF Call
  <2>2. CASE k # v
    BY <1>2, <1>3, <1>4, <1>7, <2>2, ImportMoves DEF ResumeImport
  <2> QED BY <2>1, <2>2
<1> QED BY <1>8, <1>9, <1>10, <1>11 DEF IInv, Calls

LEMMA RetryJobInv ==
    ASSUME IInv, NEW k \in Key, RetryJob(k)
    PROVE  IInv'
<1> DEFINE r == Reset(job[k])
<1>1. job[k] \in JobRowType /\ job[k].status = "failed"
  BY DEF IInv, TypeOK, RetryJob
<1>2. r \in JobRowType /\ r.status = "queued"
  BY <1>1, ResetRow
<1>3. job' = [job EXCEPT ![k] = r] /\ UNCHANGED <<imp, applied, run, swept>>
  BY DEF RetryJob
<1> HIDE DEF r
<1>4. KeysAreFresh' /\ RunningHasWork' /\ Budget' /\ Progress'
  BY <1>1, <1>2, <1>3, JobMoves
<1>5. /\ job' \in [Key -> JobRowType] /\ \A l \in Key : l # k => job'[l] = job[l]
  BY <1>2, <1>3, JobSet DEF IInv
<1>6. TypeOK'
  BY <1>3, <1>5 DEF IInv, TypeOK
<1>7. Calls'
  BY <1>1, <1>3, <1>5 DEF IInv, Calls, Call
<1> QED BY <1>4, <1>6, <1>7 DEF IInv

LEMMA ClaimInv ==
    ASSUME IInv, NEW k \in Key, Claim(k)
    PROVE  IInv'
<1> DEFINE r == Claimed(job[k])
<1>1. job[k] \in JobRowType /\ Claimable(job[k])
  BY DEF IInv, TypeOK, Claim
<1>2. job[k].status = "queued" /\ r \in JobRowType /\ r.status = "running"
  BY <1>1, ClaimedRow
<1>3. /\ job' = [job EXCEPT ![k] = r] /\ UNCHANGED <<imp, applied, swept>>
      /\ Goes(k, "started") \/ UNCHANGED run
  BY DEF Claim
<1> HIDE DEF r
<1>4. KeysAreFresh' /\ RunningHasWork' /\ Budget' /\ Progress'
  BY <1>2, <1>3, JobMoves
<1>5. /\ job' \in [Key -> JobRowType] /\ job'[k] = r
      /\ \A l \in Key : l # k => job'[l] = job[l]
  BY <1>2, <1>3, JobSet DEF IInv
<1>6. CASE Goes(k, "started")
  <2>1. /\ run' \in [Key -> Run] /\ run'[k].stage = "started"
        /\ \A l \in Key : l # k => run'[l] = run[l]
    BY <1>6, GoesRun DEF IInv, Stage, HandlerStage
  <2>2. TypeOK'
    BY <1>3, <1>5, <2>1 DEF IInv, TypeOK
  <2>3. Calls'
    BY <1>2, <1>3, <1>5, <2>1 DEF IInv, Calls, Call
  <2> QED BY <1>4, <2>2, <2>3 DEF IInv
<1>7. CASE UNCHANGED run
  <2>1. TypeOK'
    BY <1>3, <1>5, <1>7 DEF IInv, TypeOK
  <2>2. Calls'
    BY <1>2, <1>3, <1>5, <1>7 DEF IInv, Calls, Call
  <2> QED BY <1>4, <2>1, <2>2 DEF IInv
<1> QED BY <1>3, <1>6, <1>7

LEMMA TimeoutInv ==
    ASSUME IInv, NEW k \in Key, Timeout(k)
    PROVE  IInv'
<1>1. /\ run' \in [Key -> Run] /\ run'[k].stage = "error"
      /\ \A l \in Key : l # k => run'[l] = run[l]
  BY GoesRun DEF IInv, Timeout, Stage, HandlerStage
<1>2. Call(k)'
  BY <1>1 DEF IInv, Timeout, Calls, Call, HandlerStage
<1> QED BY <1>1, <1>2, CallMoves DEF Timeout

LEMMA AcknowledgeInv ==
    ASSUME IInv, NEW k \in Key, Acknowledge(k)
    PROVE  IInv'
<1> DEFINE r == IF run[k].stage = "ok" THEN Completed(job[k]) ELSE Failed(job[k])
<1>1. job[k] \in JobRowType /\ job[k].status = "running"
  BY DEF IInv, TypeOK, Acknowledge, Calls, Call
<1>2. /\ r \in JobRowType
      /\ r.status \in {"queued", "failed"} \/ run[k].stage = "ok"
  BY <1>1, AcknowledgedRow
<1>3. /\ job' = [job EXCEPT ![k] = r] \/ UNCHANGED job
      /\ UNCHANGED <<imp, applied, swept>>
  BY DEF Acknowledge
<1>4. /\ run' \in [Key -> Run] /\ run'[k] = Idle /\ run'[k].stage = "idle"
      /\ \A l \in Key : l # k => run'[l] = run[l]
  BY GoesRun DEF IInv, Acknowledge, Stage, Idle
<1> HIDE DEF r
<1>5. Call(k)'
  BY <1>4 DEF Call
<1>6. CASE UNCHANGED job
  BY <1>3, <1>4, <1>5, <1>6, CallMoves
<1>7. CASE job' = [job EXCEPT ![k] = r]
  <2>1. KeysAreFresh' /\ RunningHasWork' /\ Budget' /\ Progress'
    BY <1>1, <1>2, <1>3, <1>7, JobMoves DEF IInv, Calls, Call
  <2>2. /\ job' \in [Key -> JobRowType] /\ \A l \in Key : l # k => job'[l] = job[l]
    BY <1>2, <1>7, JobSet DEF IInv
  <2>3. TypeOK'
    BY <1>3, <1>4, <2>2 DEF IInv, TypeOK
  <2>4. Calls'
    BY <1>3, <1>4, <1>5, <2>2 DEF IInv, Calls, Call
  <2> QED BY <2>1, <2>3, <2>4 DEF IInv
<1> QED BY <1>3, <1>6, <1>7

LEMMA RecoverInv ==
    ASSUME IInv, NEW k \in Key, Recover(k)
    PROVE  IInv'
<1> DEFINE r == RetriedOrFailed(job[k])
<1>1. job[k] \in JobRowType /\ job[k].status = "running" /\ run[k].stage = "idle"
  BY IdleType DEF IInv, TypeOK, Recover
<1>2. r \in JobRowType /\ r.status \in {"queued", "failed"}
  BY <1>1, RetriedRow
<1>3. job' = [job EXCEPT ![k] = r] /\ UNCHANGED <<imp, applied, run, swept>>
  BY DEF Recover
<1> HIDE DEF r
<1>4. KeysAreFresh' /\ RunningHasWork' /\ Budget' /\ Progress'
  BY <1>1, <1>2, <1>3, JobMoves
<1>5. /\ job' \in [Key -> JobRowType] /\ \A l \in Key : l # k => job'[l] = job[l]
  BY <1>2, <1>3, JobSet DEF IInv
<1>6. TypeOK'
  BY <1>3, <1>5 DEF IInv, TypeOK
<1>7. Calls'
  BY <1>1, <1>3, <1>5 DEF IInv, Calls, Call
<1> QED BY <1>4, <1>6, <1>7 DEF IInv

LEMMA CleanupJobInv ==
    ASSUME IInv, NEW k \in Key, CleanupJob(k)
    PROVE  IInv'
<1>1. /\ job' = [job EXCEPT ![k] = NoJob] /\ UNCHANGED <<imp, applied, run>>
      /\ job[k].status \in Terminal /\ run[k].stage = "idle"
      /\ swept' = IF job[k].status = "failed" THEN swept \cup {k} ELSE swept
  BY IdleType DEF CleanupJob
<1>2. /\ job' \in [Key -> JobRowType] /\ job'[k] = NoJob
      /\ \A l \in Key : l # k => job'[l] = job[l]
  BY <1>1, NoJobType, JobSet DEF IInv
<1>3. TypeOK'
  BY <1>1, <1>2 DEF IInv, TypeOK
<1>4. KeysAreFresh' /\ Budget' /\ Progress'
  BY <1>1, <1>2, KeyType DEF IInv, KeysAreFresh, Budget, Progress
<1>5. RunningHasWork'
  BY <1>1, <1>2, ImpFacts DEF IInv, RunningHasWork, GivenUp, Terminal
<1>6. Calls'
  BY <1>1, <1>2 DEF IInv, Calls, Call
<1> QED BY <1>3, <1>4, <1>5, <1>6 DEF IInv

LEMMA CrashInv ==
    ASSUME IInv, Crash
    PROVE  IInv'
<1>1. run' \in [Key -> Run] /\ \A k \in Key : run'[k] = Idle
  BY IdleType DEF Crash
<1>2. TypeOK' /\ KeysAreFresh' /\ RunningHasWork' /\ Budget' /\ Progress'
  BY <1>1 DEF Crash, IInv, TypeOK, KeysAreFresh, RunningHasWork, GivenUp, Budget, Progress
<1>3. Calls'
  BY <1>1, IdleType DEF Calls, Call
<1> QED BY <1>2, <1>3 DEF IInv

-------------------------------------------------------------------------------
(* The handlers. *)

LEMMA ReadImportInv ==
    ASSUME IInv, NEW k \in Key, ReadImport(k)
    PROVE  IInv'
<1>1. /\ k # Report /\ job[k].status = "running" /\ k \in Version
      /\ UNCHANGED <<imp, applied, job, swept>>
  BY KeyType DEF IInv, ReadImport, Calls, Call
<1>2. k <= imp.version
  BY <1>1, ImpFacts, NoJobType DEF IInv, KeysAreFresh, Version
<1>3. CASE imp.status # "running" /\ Goes(k, "ok")
  <2>1. /\ run' \in [Key -> Run] /\ run'[k].stage = "ok"
        /\ \A l \in Key : l # k => run'[l] = run[l]
    BY <1>3, GoesRun DEF IInv, Stage
  <2> QED BY <1>1, <1>3, <2>1, CallMoves DEF Call
<1>4. CASE /\ imp.status = "running"
           /\ run' = [run EXCEPT ![k] = [stage |-> "read", seen |-> imp.version,
                                         cursor |-> imp.cursor]]
  <2>1. [stage |-> "read", seen |-> imp.version, cursor |-> imp.cursor] \in Run
    BY ImpFacts DEF IInv, Run, HandlerStage
  <2>2. /\ run' \in [Key -> Run]
        /\ run'[k] = [stage |-> "read", seen |-> imp.version, cursor |-> imp.cursor]
        /\ \A l \in Key : l # k => run'[l] = run[l]
    BY <1>4, <2>1 DEF IInv, TypeOK
  <2>3. Call(k)'
    BY <1>1, <1>2, <1>4, <2>2, ImpFacts DEF IInv, Call
  <2> QED BY <1>1, <2>2, <2>3, CallMoves
<1>5. CASE Goes(k, "error")
  <2>1. /\ run' \in [Key -> Run] /\ run'[k].stage = "error"
        /\ \A l \in Key : l # k => run'[l] = run[l]
    BY <1>5, GoesRun DEF IInv, Stage
  <2> QED BY <1>1, <2>1, CallMoves DEF Call
<1> QED BY <1>3, <1>4, <1>5 DEF ReadImport

(* What the call has read is the row's present cursor. *)
LEMMA ReadIsCurrent ==
    ASSUME IInv, NEW k \in Key, ApplyPage(k)
    PROVE  /\ run[k].cursor = imp.cursor /\ imp.cursor < Pages
           /\ imp.status = "running" /\ k # Report /\ k <= imp.version
           /\ job[k].status = "running"
<1>1. run[k].stage = "read" /\ imp.status = "running" /\ run[k].seen = imp.version
  BY DEF ApplyPage
<1>2. run[k].cursor = imp.cursor /\ k # Report /\ k <= imp.version /\ job[k].status = "running"
  BY <1>1 DEF IInv, Calls, Call
<1> QED BY <1>1, <1>2, ImpFacts DEF IInv, Progress

LEMMA ApplyPageInv ==
    ASSUME IInv, NEW k \in Key, ApplyPage(k)
    PROVE  IInv'
<1> DEFINE done == imp.cursor + 1 = Pages
           v == imp.version + 1
           next == IF done THEN Report ELSE v
<1>1. /\ TypeOK
      /\ imp' = [imp EXCEPT !.status = IF done THEN "succeeded" ELSE "running",
                            !.cursor = imp.cursor + 1, !.version = v]
      /\ applied' = [applied EXCEPT ![imp.cursor + 1] = @ + 1]
      /\ job' = [job EXCEPT ![next] = Enqueued(@)]
      /\ Goes(k, "ok")
  BY ReadIsCurrent DEF IInv, ApplyPage
<1>2. v \in Version /\ v \in Key /\ next \in Key /\ v > imp.version /\ imp.cursor + 1 \in 1..Pages
  BY <1>1, ReadIsCurrent, ImpFacts, KeyType DEF IInv, Budget, Version
<1>3. imp' \in Import
  <2>1. (IF done THEN "succeeded" ELSE "running") \in {"succeeded", "running"}
    OBVIOUS
  <2>2. imp \in Import /\ v \in Version /\ imp.cursor + 1 \in 0..Pages
    BY <1>1, <1>2, ImpFacts
  <2> HIDE DEF done, v, next
  <2> QED BY <1>1, <2>1, <2>2 DEF Import
<1>4. /\ imp'.status = IF done THEN "succeeded" ELSE "running"
      /\ imp'.version = v /\ imp'.cursor = imp.cursor + 1 /\ imp'.report = imp.report
  BY <1>1, ImpFacts DEF Import
<1>5. job[next] = NoJob
  BY <1>2, ReadIsCurrent DEF IInv, KeysAreFresh
<1>6. Enqueued(job[next]) \in JobRowType /\ Enqueued(job[next]).status = "queued"
  BY <1>5, NoJobType, EnqueuedRow
<1>7. /\ job' \in [Key -> JobRowType] /\ job'[next] = Enqueued(job[next])
      /\ \A l \in Key : l # next => job'[l] = job[l]
  BY <1>1, <1>2, <1>6, JobSet
<1>8. /\ run' \in [Key -> Run] /\ run'[k].stage = "ok"
      /\ \A l \in Key : l # k => run'[l] = run[l]
  BY <1>1, GoesRun DEF Stage
<1>9. applied' = [p \in 1..Pages |-> IF p <= imp'.cursor THEN 1 ELSE 0]
  <2>1. applied = [p \in 1..Pages |-> IF p <= imp.cursor THEN 1 ELSE 0]
    BY DEF IInv, Progress
  <2>2. \A p \in 1..Pages :
           applied'[p] = IF p = imp.cursor + 1 THEN applied[p] + 1 ELSE applied[p]
    BY <1>1, <2>1
  <2>3. \A p \in 1..Pages : applied'[p] = IF p <= imp.cursor + 1 THEN 1 ELSE 0
    BY <1>1, <2>1, <2>2, ImpFacts
  <2>4. applied' = [p \in 1..Pages |-> applied'[p]]
    BY <1>1, <2>1
  <2> QED BY <1>4, <2>3, <2>4
<1>10. TypeOK'
  <2>1. swept' \subseteq Key
    BY <1>1 DEF TypeOK, ApplyPage
  <2> HIDE DEF done, v, next
  <2> QED BY <1>3, <1>7, <1>8, <1>9, <2>1, ImpFacts DEF TypeOK
<1>11. KeysAreFresh'
  <2>1. ASSUME NEW w \in Version, w > v
        PROVE  job'[w] = NoJob
    <3>1. w # next /\ w \in Key /\ w > imp.version
      BY <1>1, <2>1, ImpFacts, KeyType DEF Version
    <3> QED BY <1>7, <3>1 DEF IInv, KeysAreFresh
  <2>2. ASSUME imp'.status # "succeeded"
        PROVE  job'[Report] = NoJob
    <3>1. next = v /\ Report # v
      BY <1>2, <1>4, <2>2, KeyType
    <3> QED BY <1>7, <3>1, ReadIsCurrent, KeyType DEF IInv, KeysAreFresh
  <2> QED BY <1>4, <2>1, <2>2 DEF KeysAreFresh
<1>12. RunningHasWork'
  BY <1>4, <1>6, <1>7 DEF RunningHasWork, GivenUp
<1>13. Budget' /\ Progress'
  <2>1. imp.version + 1 + Pages - imp.cursor <= MaxVersion
    BY ReadIsCurrent DEF IInv, Budget
  <2>2. v + Pages - imp'.cursor <= MaxVersion
    BY <1>1, <1>4, <2>1, ImpFacts
  <2>3. v + 1 + Pages - imp'.cursor <= MaxVersion
    BY <1>1, <1>4, <2>1, ImpFacts
  <2>4. imp'.status = "succeeded" <=> imp'.cursor = Pages
    BY <1>4
  <2> QED BY <1>4, <1>9, <2>2, <2>3, <2>4 DEF Budget, Progress
<1>14. ASSUME NEW l \in Key
       PROVE  Call(l)'
  <2>1. CASE l = k
    <3>1. k # next /\ job'[k].status = "running"
      BY <1>5, <1>7, ReadIsCurrent, NoJobType
    <3>2. k # v
      BY <1>1, ReadIsCurrent, ImpFacts, KeyType
    <3> QED BY <1>4, <1>8, <2>1, <3>1, <3>2 DEF Call
  <2>2. CASE l # k /\ l = next
    <3>1. run[l].stage = "idle" /\ run[l] = Idle /\ run'[l] = run[l]
      BY <1>5, <1>8, <2>2, NoJobType DEF IInv, Calls, Call
    <3> QED BY <3>1 DEF Call
  <2>3. CASE l # k /\ l # next
    BY <1>2, <1>3, <1>4, <1>7, <1>8, <2>3, ImportMoves
  <2> QED BY <2>1, <2>2, <2>3
<1> QED BY <1>10, <1>11, <1>12, <1>13, <1>14 DEF IInv, Calls

LEMMA DropPageInv ==
    ASSUME IInv, NEW k \in Key, DropPage(k)
    PROVE  IInv'
<1>1. /\ run' \in [Key -> Run] /\ run'[k].stage = "ok"
      /\ \A l \in Key : l # k => run'[l] = run[l]
  BY GoesRun DEF IInv, DropPage, Stage
<1>2. /\ job[k].status = "running" /\ k <= run[k].seen /\ run[k].seen <= imp.version
      /\ imp.status # "running" \/ imp.version # run[k].seen
  BY DEF IInv, DropPage, Calls, Call
<1>3. imp.version \in Nat /\ run[k].seen \in Nat /\ k \in Nat
  BY ImpFacts, KeyType, ImportAssumption DEF IInv, TypeOK, Run, Version
<1>4. ~(imp.status = "running" /\ imp.version = k)
  BY <1>2, <1>3
<1>5. Call(k)'
  BY <1>1, <1>2, <1>4 DEF DropPage, Call
<1> QED BY <1>1, <1>5, CallMoves DEF DropPage

LEMMA SettleErrorInv ==
    ASSUME IInv, NEW k \in Key, SettleError(k)
    PROVE  IInv'
<1>1. k # Report /\ job[k].status = "running" /\ TypeOK
  BY DEF IInv, SettleError, Calls, Call
<1>2. PICK st \in {"ok", "error"} : Goes(k, st)
  BY DEF SettleError
<1>3. /\ run' \in [Key -> Run] /\ run'[k].stage = st
      /\ \A l \in Key : l # k => run'[l] = run[l]
  BY <1>1, <1>2, GoesRun DEF Stage
<1>4. /\ UNCHANGED <<applied, job, swept>>
      /\ \/ UNCHANGED imp /\ (Goes(k, "error") \/ imp.status # "running")
         \/ imp.status = "running" /\ Becomes("failed")
  BY DEF SettleError
<1>5. CASE UNCHANGED imp /\ (Goes(k, "error") \/ imp.status # "running")
  <2>1. run'[k].stage = "error" \/ imp.status # "running"
    BY <1>1, <1>5, GoesRun DEF Stage
  <2>2. Call(k)'
    BY <1>1, <1>3, <1>4, <1>5, <2>1 DEF Call
  <2> QED BY <1>3, <1>4, <1>5, <2>2, CallMoves
<1>6. CASE imp.status = "running" /\ Becomes("failed")
  <2>1. /\ imp' \in Import /\ imp'.version > imp.version /\ imp'.status = "failed"
        /\ KeysAreFresh' /\ RunningHasWork' /\ Budget' /\ Progress'
    BY <1>4, <1>6, BecomesInv
  <2>2. TypeOK'
    BY <1>1, <1>3, <1>4, <2>1 DEF TypeOK
  <2>3. Call(k)'
    BY <1>1, <1>3, <1>4, <2>1 DEF Call
  <2>4. Calls'
    BY <1>3, <1>4, <2>1, <2>3, ImportMoves DEF Calls
  <2> QED BY <2>1, <2>2, <2>4 DEF IInv
<1> QED BY <1>4, <1>5, <1>6

LEMMA ReadForReportInv ==
    ASSUME IInv, NEW k \in Key, ReadForReport(k)
    PROVE  IInv'
<1>1. PICK st \in {"ok", "storing", "error"} : Goes(k, st)
  BY DEF ReadForReport
<1>2. /\ run' \in [Key -> Run] /\ run'[k].stage = st
      /\ \A l \in Key : l # k => run'[l] = run[l]
  BY <1>1, GoesRun DEF IInv, Stage, HandlerStage
<1>3. Call(k)'
  BY <1>2 DEF IInv, Calls, Call, ReadForReport
<1> QED BY <1>2, <1>3, CallMoves DEF ReadForReport

(* The report is stored or recorded; recording it is a new version.        *)
LEMMA ReportMoves ==
    ASSUME IInv, NEW k \in Key, k = Report, NEW st \in {"ok", "stored", "error"},
           Goes(k, st), run[k].stage # "idle", UNCHANGED <<applied, job, swept>>,
           \/ UNCHANGED imp
           \/ imp.report = "none" /\ imp' = [imp EXCEPT !.report = "stored"]
           \/ /\ imp.status = "succeeded" /\ imp.report = "stored"
              /\ imp' = [imp EXCEPT !.report = "recorded", !.version = @ + 1]
    PROVE  IInv'
<1>1. /\ run' \in [Key -> Run] /\ run'[k].stage = st
      /\ \A l \in Key : l # k => run'[l] = run[l]
  BY GoesRun DEF IInv, Stage, HandlerStage
<1>2. Call(k)'
  BY <1>1 DEF IInv, Calls, Call
<1>3. CASE UNCHANGED imp
  BY <1>1, <1>2, <1>3, CallMoves
<1>4. CASE imp.report = "none" /\ imp' = [imp EXCEPT !.report = "stored"]
  <2>1. /\ imp' \in Import /\ imp'.report = "stored"
        /\ imp'.status = imp.status /\ imp'.version = imp.version /\ imp'.cursor = imp.cursor
    BY <1>4 DEF IInv, TypeOK, Import
  <2>2. TypeOK'
    BY <1>1, <2>1 DEF IInv, TypeOK
  <2>3. KeysAreFresh' /\ RunningHasWork' /\ Budget' /\ Progress'
    BY <1>4, <2>1 DEF IInv, KeysAreFresh, RunningHasWork, GivenUp, Budget, Progress
  <2>4. Calls'
    BY <1>1, <1>2, <2>1 DEF IInv, Calls, Call
  <2> QED BY <2>2, <2>3, <2>4 DEF IInv
<1>5. CASE /\ imp.status = "succeeded" /\ imp.report = "stored"
           /\ imp' = [imp EXCEPT !.report = "recorded", !.version = @ + 1]
  <2>1. imp.version + 1 \in Version
    BY <1>5, ImpFacts DEF IInv, Budget, Progress, Version
  <2>2. /\ imp' \in Import /\ imp'.report = "recorded" /\ imp'.status = "succeeded"
        /\ imp'.version = imp.version + 1 /\ imp'.cursor = imp.cursor /\ imp.cursor = Pages
    BY <1>5, <2>1 DEF IInv, TypeOK, Import, Progress
  <2>3. TypeOK'
    BY <1>1, <2>2 DEF IInv, TypeOK
  <2>4. KeysAreFresh' /\ RunningHasWork'
    BY <2>1, <2>2, ImpFacts DEF IInv, KeysAreFresh, RunningHasWork, GivenUp, Version
  <2>5. Budget' /\ Progress'
    BY <2>1, <2>2, ImpFacts DEF IInv, Budget, Progress, Version
  <2>6. Calls'
    BY <1>1, <1>2, <2>2, ImpFacts, ImportMoves DEF IInv, Calls
  <2> QED BY <2>3, <2>4, <2>5, <2>6 DEF IInv
<1> QED BY <1>3, <1>4, <1>5

LEMMA StoreReportInv ==
    ASSUME IInv, NEW k \in Key, StoreReport(k)
    PROVE  IInv'
<1>1. k = Report /\ run[k].stage # "idle" /\ UNCHANGED <<applied, job, swept>>
  BY DEF IInv, StoreReport, Calls, Call
<1>2. CASE Goes(k, "error") /\ UNCHANGED imp
  BY <1>1, <1>2, ReportMoves
<1>3. CASE /\ imp' = [imp EXCEPT !.report = IF @ = "none" THEN "stored" ELSE @]
           /\ Goes(k, "stored")
  <2>1. CASE imp.report = "none"
    BY <1>1, <1>3, <2>1, ReportMoves
  <2>2. CASE imp.report # "none"
    <3>1. UNCHANGED imp
      BY <1>3, <2>2 DEF IInv, TypeOK, Import
    <3> QED BY <1>1, <1>3, <3>1, ReportMoves
  <2> QED BY <2>1, <2>2
<1> QED BY <1>2, <1>3 DEF StoreReport

LEMMA RecordReportInv ==
    ASSUME IInv, NEW k \in Key, RecordReport(k)
    PROVE  IInv'
<1>1. k = Report /\ run[k].stage # "idle" /\ UNCHANGED <<applied, job, swept>>
  BY DEF IInv, RecordReport, Calls, Call
<1>2. PICK st \in {"ok", "error"} :
         /\ Goes(k, st)
         /\ \/ UNCHANGED imp
            \/ /\ imp.status = "succeeded" /\ imp.report = "stored"
               /\ imp' = [imp EXCEPT !.report = "recorded", !.version = @ + 1]
  BY DEF RecordReport
<1> QED BY <1>1, <1>2, ReportMoves

LEMMA HandleInv ==
    ASSUME IInv, NEW k \in Key, Handle(k)
    PROVE  IInv'
BY ReadImportInv, ApplyPageInv, DropPageInv, SettleErrorInv, ReadForReportInv, StoreReportInv,
   RecordReportInv DEF Handle

LEMMA StepInv ==
    ASSUME IInv, [Next]_vars
    PROVE  IInv'
<1>1. CASE UNCHANGED vars
  BY <1>1 DEF vars, IInv, TypeOK, KeysAreFresh, RunningHasWork, GivenUp, Budget, Progress, Calls, Call
<1>2. CASE StartImport \/ PauseImport \/ ResumeImport \/ Crash
  BY <1>2, StartImportInv, PauseImportInv, ResumeImportInv, CrashInv
<1>3. ASSUME NEW k \in Key,
             \/ RetryJob(k) \/ CleanupJob(k) \/ Claim(k) \/ Recover(k)
             \/ Handle(k) \/ Timeout(k) \/ Acknowledge(k)
      PROVE  IInv'
  BY <1>3, RetryJobInv, CleanupJobInv, ClaimInv, RecoverInv, HandleInv, TimeoutInv, AcknowledgeInv
<1> QED BY <1>1, <1>2, <1>3 DEF Next

LEMMA Invariance == Spec => []IInv
<1>1. Init => IInv
  BY InitInv
<1>2. IInv /\ [Next]_vars => IInv'
  BY StepInv
<1> QED BY <1>1, <1>2, PTL DEF Spec

(* The row, its page counts, the jobs and the calls have their types: the  *)
(* bound on versions cuts off nothing but a resumption.                    *)
THEOREM TypeCorrect == Spec => []TypeOK
<1>1. IInv => TypeOK
  BY DEF IInv
<1> QED BY <1>1, Invariance, PTL

(* make_amo_import_handler never adds a job under a key that is in use.    *)
THEOREM KeysAreFreshHolds == Spec => []KeysAreFresh
<1>1. IInv => KeysAreFresh
  BY DEF IInv
<1> QED BY <1>1, Invariance, PTL

(* A running import always has the job of its version, to be done or given *)
(* up in the administrator's sight: a call that reports success has moved  *)
(* the row on, or found that another one did, so what the cleanup removes  *)
(* of a running import is never its succeeded job.                         *)
THEOREM RunningHasWorkHolds == Spec => []RunningHasWork
<1>1. IInv => RunningHasWork
  BY DEF IInv
<1> QED BY <1>1, Invariance, PTL

-------------------------------------------------------------------------------
(* Refinement of the contract.                                             *)

LEMMA StepImplements ==
    ASSUME IInv, [Next]_vars
    PROVE  [Contract!Next]_(Contract!contractVars)
<1> USE DEF Contract!Next, Contract!contractVars
<1>1. CASE UNCHANGED <<imp, applied>>
  BY <1>1
<1>2. CASE StartImport
  <2>1. imp.status = "none" /\ imp'.status = "running" /\ imp'.cursor = imp.cursor
    BY <1>2 DEF StartImport, IInv, TypeOK, Import
  <2> QED BY <1>2, <2>1 DEF StartImport, Contract!Start, Contract!Moves
<1>3. ASSUME NEW st, Becomes(st)
      PROVE  imp'.status = st /\ imp'.cursor = imp.cursor
  BY <1>3 DEF Becomes, IInv, TypeOK, Import
<1>4. CASE PauseImport
  BY <1>3, <1>4 DEF PauseImport, Contract!Pause, Contract!Moves
<1>5. CASE ResumeImport
  BY <1>3, <1>5 DEF ResumeImport, Contract!Resume, Contract!Moves
<1>6. ASSUME NEW k \in Key, SettleError(k), ~UNCHANGED imp
      PROVE  Contract!Fail
  <2>1. imp.status = "running" /\ Becomes("failed") /\ UNCHANGED applied
    BY <1>6 DEF SettleError
  <2> QED BY <1>3, <2>1 DEF Contract!Fail, Contract!Moves
<1>7. ASSUME NEW k \in Key, ApplyPage(k)
      PROVE  Contract!ApplyPage /\ imp.cursor < Pages
  <2>1. run[k].cursor = imp.cursor /\ imp.cursor < Pages /\ imp.status = "running"
    BY <1>7, ReadIsCurrent
  <2>2. /\ imp'.status = IF imp.cursor + 1 = Pages THEN "succeeded" ELSE "running"
        /\ imp'.cursor = imp.cursor + 1
        /\ applied' = [applied EXCEPT ![imp.cursor + 1] = @ + 1]
    BY <1>7, <2>1 DEF ApplyPage, IInv, TypeOK, Import
  <2> QED BY <2>1, <2>2 DEF Contract!ApplyPage
<1>8. ASSUME NEW k \in Key, StoreReport(k) \/ RecordReport(k)
      PROVE  UNCHANGED Contract!contractVars
  BY <1>8 DEF StoreReport, RecordReport, IInv, TypeOK, Import
<1>9. \/ UNCHANGED <<imp, applied>>
      \/ StartImport \/ PauseImport \/ ResumeImport
      \/ \E k \in Key :
            \/ SettleError(k) /\ ~UNCHANGED imp
            \/ ApplyPage(k) \/ StoreReport(k) \/ RecordReport(k)
  BY DEF Next, vars, Crash, RetryJob, CleanupJob, Claim, Recover, Timeout, Acknowledge, Handle, ReadImport,
         DropPage, SettleError, ReadForReport
<1> QED BY <1>1, <1>2, <1>4, <1>5, <1>6, <1>7, <1>8, <1>9

(* Pages are applied once and in order by a running import: the version    *)
(* compared under the lock stands for the cursor the page was fetched for. *)
THEOREM ImportImplementsContract == Spec => ImplementsContract
<1>1. Init => Contract!Init
  BY DEF Init, Contract!Init
<1>2. IInv /\ [Next]_vars => [Contract!Next]_(Contract!contractVars)
  BY StepImplements
<1> QED BY <1>1, <1>2, Invariance, PTL DEF Spec, ImplementsContract, Contract!Spec
===============================================================================
