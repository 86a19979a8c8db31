------------------------------- MODULE AmoImport -------------------------------
(***************************************************************************)
(* An amoCRM import: the ImportJob row with its cursor and version, one    *)
(* background job per page, the page handler, which reads the row, fetches *)
(* over HTTP without a lock and applies under one, the administrator's     *)
(* pause and resume, and the report job of a finished import.              *)
(*                                                                         *)
(* The keys of the page jobs, initial, page:{version} and                  *)
(* resume:{version}, carry the version of the row that enqueued them: here *)
(* job[v] is the job of version v and job[Report] the report job.          *)
(***************************************************************************)
EXTENDS JobRow, FiniteSets

CONSTANTS
    Pages,          \* pages the source has
    MaxVersion,     \* bound on ImportJob.version
    Concurrency     \* handler tasks the supervisor runs at a time

ASSUME ImportAssumption ==
    /\ {Pages, Concurrency} \subseteq Nat \ {0}
    /\ MaxVersion \in Nat /\ MaxVersion > Pages + 1

Report == 0
Version == 1..MaxVersion
Key == {Report} \cup Version

VARIABLES
    imp,            \* the ImportJob row
    applied,        \* history: how often each page has been applied
    job,            \* job[k]: the background_jobs row of key k
    run,            \* run[k]: the handler call of the current claim of k
    swept           \* history: the keys whose failed job the cleanup removed

vars == <<imp, applied, job, run, swept>>

Import == [status : {"none", "running", "paused", "failed", "succeeded"},
           cursor : 0..Pages, version : Version,
           report : {"none", "stored", "recorded"}]  \* the object in S3, its key

At(stage) == [stage |-> stage, seen |-> 1, cursor |-> 0]

Idle == At("idle")

HandlerStage == {"started", "read", "storing", "stored"}

(* seen and cursor are the row's as the page handler read it. *)
Run == [stage : HandlerStage \cup {"idle", "ok", "error"},
        seen : Version, cursor : 0..Pages]

TypeOK ==
    /\ imp \in Import
    /\ applied \in [1..Pages -> 0..2]
    /\ job \in [Key -> JobRowType]
    /\ run \in [Key -> Run]
    /\ swept \subseteq Key

Init ==
    /\ imp = [status |-> "none", cursor |-> 0, version |-> 1, report |-> "none"]
    /\ applied = [p \in 1..Pages |-> 0]
    /\ job = [k \in Key |-> NoJob]
    /\ run = [k \in Key |-> Idle]
    /\ swept = {}

Goes(k, stage) == run' = [run EXCEPT ![k] = At(stage)]

(* Every change of the row's status is a new version of it. *)
Becomes(st) == imp' = [imp EXCEPT !.status = st, !.version = @ + 1]

-------------------------------------------------------------------------------
(* The administrator.  Each request names the version it expects, and its  *)
(* UPDATE is conditional on it.                                            *)

StartImport ==
    /\ imp.status = "none"
    /\ imp' = [imp EXCEPT !.status = "running"]
    /\ job' = [job EXCEPT ![1] = Enqueued(@)]
    /\ UNCHANGED <<applied, run, swept>>

PauseImport ==
    /\ imp.status = "running"
    /\ Becomes("paused")
    /\ UNCHANGED <<applied, job, run, swept>>

(* Faulty variant of ResumeImport: the resumed version's job waits for the *)
(* supervisor under the key of the next one.                               *)
ResumeImportNextKey ==
    /\ imp.status \in {"paused", "failed"}
    /\ imp.version + 2 + Pages - imp.cursor <= MaxVersion
    /\ Becomes("running")
    /\ job' = [job EXCEPT ![imp.version + 2] = Enqueued(@)]
    /\ UNCHANGED <<applied, run, swept>>

(* Only while the versions left suffice for what a running import can do:  *)
(* its other pages and one pause, failure or report.                       *)
ResumeImport ==
    /\ imp.status \in {"paused", "failed"}
    /\ imp.version + 2 + Pages - imp.cursor <= MaxVersion
    /\ Becomes("running")
    /\ job' = [job EXCEPT ![imp.version + 1] = Enqueued(@)]
    /\ UNCHANGED <<applied, run, swept>>

(* POST /admin/jobs/{id}/retry *)
RetryJob(k) ==
    /\ job[k].status = "failed"
    /\ job' = [job EXCEPT ![k] = Reset(@)]
    /\ UNCHANGED <<imp, applied, run, swept>>

(* The cleanup job deletes jobs that succeeded or failed 14 days ago, when *)
(* no call of them is left; it does not look at the import they worked for.*)
CleanupJob(k) ==
    /\ job[k].status \in Terminal
    /\ run[k] = Idle
    /\ job' = [job EXCEPT ![k] = NoJob]
    /\ swept' = IF job[k].status = "failed" THEN swept \cup {k} ELSE swept
    /\ UNCHANGED <<imp, applied, run>>

-------------------------------------------------------------------------------
(* The supervisor.  A call ends and is acknowledged before its lease does: *)
(* JobQueue and OutboundMessages have the acknowledgements that come late. *)

Claim(k) ==
    /\ Claimable(job[k])
    /\ Cardinality({l \in Key : run[l] # Idle}) < Concurrency
    /\ job' = [job EXCEPT ![k] = Claimed(@)]
    /\ \/ Goes(k, "started")
       \/ UNCHANGED run    \* committed, but the dispatcher saw an error
    /\ UNCHANGED <<imp, applied, swept>>

(* wait_for cancels the handler past its `except Exception'. *)
Timeout(k) ==
    /\ run[k].stage \in HandlerStage
    /\ Goes(k, "error")
    /\ UNCHANGED <<imp, applied, job, swept>>

Acknowledge(k) ==
    /\ run[k].stage \in {"ok", "error"}
    /\ \/ job' = [job EXCEPT ![k] = IF run[k].stage = "ok" THEN Completed(@) ELSE Failed(@)]
       \/ UNCHANGED job    \* the transaction failed
    /\ Goes(k, "idle")
    /\ UNCHANGED <<imp, applied, swept>>

(* recover_expired_leases *)
Recover(k) ==
    /\ job[k].status = "running" /\ run[k] = Idle
    /\ job' = [job EXCEPT ![k] = RetriedOrFailed(@)]
    /\ UNCHANGED <<imp, applied, run, swept>>

Crash ==
    /\ run' = [k \in Key |-> Idle]
    /\ UNCHANGED <<imp, applied, job, swept>>

-------------------------------------------------------------------------------
(* The page handler.                                                       *)

ReadImport(k) ==
    /\ run[k].stage = "started" /\ k # Report
    /\ \/ imp.status # "running" /\ Goes(k, "ok")
       \/ /\ imp.status = "running"
          /\ run' = [run EXCEPT ![k] = [stage |-> "read", seen |-> imp.version,
                                        cursor |-> imp.cursor]]
       \/ Goes(k, "error")     \* database
    /\ UNCHANGED <<imp, applied, job, swept>>

(* Faulty variant of ApplyPage: the row is locked, but only its status is  *)
(* compared with what was read before the fetch.                           *)
ApplyPageUncompared(k) ==
    LET done == run[k].cursor + 1 = Pages
        v == imp.version + 1
    IN
    /\ run[k].stage = "read"
    /\ imp.status = "running"
    /\ imp' = [imp EXCEPT !.status = IF done THEN "succeeded" ELSE "running",
                          !.cursor = run[k].cursor + 1, !.version = v]
    /\ applied' = [applied EXCEPT ![run[k].cursor + 1] = @ + 1]
    /\ job' = [job EXCEPT ![IF done THEN Report ELSE v] = Enqueued(@)]
    /\ Goes(k, "ok")
    /\ UNCHANGED swept

(* Faulty variant of ApplyPage: the last page enqueues no job.             *)
ApplyPageUnreported(k) ==
    LET done == run[k].cursor + 1 = Pages
        v == imp.version + 1
    IN
    /\ run[k].stage = "read"
    /\ imp.status = "running" /\ imp.version = run[k].seen
    /\ imp' = [imp EXCEPT !.status = IF done THEN "succeeded" ELSE "running",
                          !.cursor = run[k].cursor + 1, !.version = v]
    /\ applied' = [applied EXCEPT ![run[k].cursor + 1] = @ + 1]
    /\ job' = IF done THEN job ELSE [job EXCEPT ![v] = Enqueued(@)]
    /\ Goes(k, "ok")
    /\ UNCHANGED swept

(* The page of the cursor that was read has been fetched.  The row is      *)
(* locked and read again, and a page fetched for another version dropped.  *)
(* apply_import_page and the next job commit together.                     *)
ApplyPage(k) ==
    LET done == run[k].cursor + 1 = Pages
        v == imp.version + 1
    IN
    /\ run[k].stage = "read"
    /\ imp.status = "running" /\ imp.version = run[k].seen
    /\ imp' = [imp EXCEPT !.status = IF done THEN "succeeded" ELSE "running",
                          !.cursor = run[k].cursor + 1, !.version = v]
    /\ applied' = [applied EXCEPT ![run[k].cursor + 1] = @ + 1]
    /\ job' = [job EXCEPT ![IF done THEN Report ELSE v] = Enqueued(@)]
    /\ Goes(k, "ok")
    /\ UNCHANGED swept

DropPage(k) ==
    /\ run[k].stage = "read"
    /\ imp.status # "running" \/ imp.version # run[k].seen
    /\ Goes(k, "ok")
    /\ UNCHANGED <<imp, applied, job, swept>>

(* Faulty variant of SettleError: an error worth another attempt completes *)
(* the job.                                                                *)
SettleErrorSwallowed(k) ==
    /\ run[k].stage = "read"
    /\ \E retryable \in BOOLEAN :
          LET again == retryable /\ job[k].attempts < MaxAttempts IN
          /\ IF imp.status = "running" /\ ~again THEN Becomes("failed") ELSE UNCHANGED imp
          /\ Goes(k, "ok")
    /\ UNCHANGED <<applied, job, swept>>

(* The handler's `except Exception', after tokens, a fetch (repeated once  *)
(* after a 401) or the page's transaction failed: the import fails unless  *)
(* the error is an AmoAPIError worth another attempt and there is one.     *)
(* The version is not compared.                                            *)
SettleError(k) ==
    /\ run[k].stage = "read"
    /\ \E retryable \in BOOLEAN :
          LET again == retryable /\ job[k].attempts < MaxAttempts IN
          \/ /\ IF imp.status = "running" /\ ~again THEN Becomes("failed") ELSE UNCHANGED imp
             /\ Goes(k, IF again THEN "error" ELSE "ok")
          \/ Goes(k, "error") /\ UNCHANGED imp    \* this transaction fails, too
    /\ UNCHANGED <<applied, job, swept>>

-------------------------------------------------------------------------------
(* The report handler: read, store in S3, record the key.                  *)

ReadForReport(k) ==
    /\ run[k].stage = "started" /\ k = Report
    /\ \/ imp.status = "succeeded" /\ imp.report = "recorded" /\ Goes(k, "ok")
       \/ imp.status = "succeeded" /\ imp.report # "recorded" /\ Goes(k, "storing")
       \/ Goes(k, "error")     \* not completed, no storage, database
    /\ UNCHANGED <<imp, applied, job, swept>>

StoreReport(k) ==
    /\ run[k].stage = "storing"
    /\ \/ /\ imp' = [imp EXCEPT !.report = IF @ = "none" THEN "stored" ELSE @]
          /\ Goes(k, "stored")
       \/ Goes(k, "error") /\ UNCHANGED imp
    /\ UNCHANGED <<applied, job, swept>>

RecordReport(k) ==
    /\ run[k].stage = "stored"
    /\ \/ /\ imp' = IF imp.status = "succeeded" /\ imp.report = "stored"
                    THEN [imp EXCEPT !.report = "recorded", !.version = @ + 1] ELSE imp
          /\ Goes(k, "ok")
       \/ Goes(k, "error") /\ UNCHANGED imp
    /\ UNCHANGED <<applied, job, swept>>

Handle(k) ==
    \/ ReadImport(k) \/ ApplyPage(k) \/ DropPage(k) \/ SettleError(k)
    \/ ReadForReport(k) \/ StoreReport(k) \/ RecordReport(k)

-------------------------------------------------------------------------------
Next ==
    \/ StartImport \/ PauseImport \/ ResumeImport \/ Crash
    \/ \E k \in Key :
          \/ RetryJob(k) \/ CleanupJob(k) \/ Claim(k) \/ Recover(k)
          \/ Handle(k) \/ Timeout(k) \/ Acknowledge(k)

Spec == Init /\ [][Next]_vars

(* The job the import waits for: a running import has had its version from *)
(* the request or the page that enqueued job[imp.version].                 *)
Current == IF imp.status = "succeeded" THEN Report ELSE imp.version

Works(k) == Handle(k) \/ Timeout(k) \/ Acknowledge(k)

(* As for OutboundMessages: calls and acknowledgements end, the lease of a *)
(* dead claim expires, and a row that is due is claimed, since claim_jobs  *)
(* takes the oldest first.                                                 *)
Fairness ==
    /\ SF_vars(Claim(Current)) /\ WF_vars(Recover(Current))
    /\ WF_vars(Works(Current)) /\ WF_vars(\E k \in Key : Works(k))

FairSpec == Spec /\ Fairness

-------------------------------------------------------------------------------
(* Properties.                                                             *)

(* Pages are applied once, in order and only by a running import, although *)
(* several calls may have fetched the same page, or one of long ago: the   *)
(* version read with the cursor decides under the lock.                    *)
Contract == INSTANCE ImportContract WITH
    status <- imp.status, cursor <- imp.cursor

ImplementsContract == Contract!Spec

(* The key of the job to be added next is never in use, so that adding it  *)
(* cannot abort the page's transaction; there is no job of a version that  *)
(* was not reached, and no report job before success.                      *)
KeysAreFresh ==
    /\ \A v \in Version : v > imp.version => job[v] = NoJob
    /\ imp.status # "succeeded" => job[Report] = NoJob

(* The job of key k shows as failed in the administrator's list, or did so *)
(* for the 14 days after which the cleanup removed it.                     *)
GivenUp(k) == job[k].status = "failed" \/ k \in swept

(* The job of a running import's version is to be done or was given up in  *)
(* the administrator's sight: no call, of this job or of an older one,     *)
(* success or error, and no cleanup of jobs that succeeded, leaves an      *)
(* import that runs without a job and says nothing.                        *)
RunningHasWork ==
    imp.status = "running" =>
        job[imp.version].status \in {"queued", "running"} \/ GivenUp(imp.version)

(* A running import ends or pauses, or the job of its version is given up: *)
(* neither lost claims, timeouts and crashes nor jobs of older versions    *)
(* leave it behind for ever.  Likewise a finished one and its report.      *)
ImportEnds ==
    imp.status = "running" ~> imp.status # "running" \/ GivenUp(imp.version)

ReportFollows ==
    imp.status = "succeeded" ~> imp.report = "recorded" \/ GivenUp(Report)
===============================================================================
