-------------------------------- MODULE JobRow --------------------------------
(***************************************************************************)
(* A background_jobs row as the handlers of app.integrations.runtime meet  *)
(* it: JobQueue without its clock and its worker ids.  One supervisor at a *)
(* time works the queue, so an acknowledgement matches every running row;  *)
(* a crash takes all handler calls and leaves the rows running.  What      *)
(* JobQueue proves about leases is used here as a fact: a row is recovered *)
(* only when the handler call of its current claim is over or gone.        *)
(***************************************************************************)
EXTENDS Naturals

CONSTANT MaxAttempts        \* BackgroundJob.max_attempts

ASSUME MaxAttemptsAssumption == MaxAttempts \in Nat \ {0}

Terminal == {"succeeded", "failed"}

(* A queued row has an attempt left, a running one has begun one; attempts *)
(* of a terminal row no longer matter and are 0 here.                      *)
JobRowType ==
    [status : {"absent"} \cup Terminal, attempts : {0}]
    \cup [status : {"queued"}, attempts : 0..(MaxAttempts - 1)]
    \cup [status : {"running"}, attempts : 1..MaxAttempts]

NoJob == [status |-> "absent", attempts |-> 0]

(* Faulty variant of Enqueued: a conflict requeues the row that runs.      *)
EnqueuedOverRunning(r) ==
    IF r.status \in {"absent", "running"} THEN [NoJob EXCEPT !.status = "queued"] ELSE r

(* enqueue_job: INSERT ... ON CONFLICT (dedupe_key) DO NOTHING *)
Enqueued(r) ==
    IF r.status = "absent" THEN [NoJob EXCEPT !.status = "queued"] ELSE r

(* A retry endpoint: back in the queue with its attempts restored. *)
Reset(r) ==
    IF r.status = "absent" THEN r ELSE [NoJob EXCEPT !.status = "queued"]

(* Faulty variant of Claimable: one attempt too few. *)
ClaimableOnceLess(r) == r.status = "queued" /\ r.attempts + 1 < MaxAttempts

Claimable(r) == r.status = "queued" /\ r.attempts < MaxAttempts

Claimed(r) == [status |-> "running", attempts |-> r.attempts + 1]

Ended(st) == [NoJob EXCEPT !.status = st]

(* Faulty variant of RetriedOrFailed: one attempt too many.                *)
RetriedOnceMore(r) ==
    IF r.attempts <= MaxAttempts THEN [r EXCEPT !.status = "queued"] ELSE Ended("failed")

RetriedOrFailed(r) ==
    IF r.attempts < MaxAttempts THEN [r EXCEPT !.status = "queued"] ELSE Ended("failed")

(* complete_job and a retryable fail_job *)
Completed(r) == IF r.status = "running" THEN Ended("succeeded") ELSE r

Failed(r) == IF r.status = "running" THEN RetriedOrFailed(r) ELSE r
===============================================================================
