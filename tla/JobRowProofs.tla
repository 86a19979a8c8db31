------------------------------ MODULE JobRowProofs ------------------------------
(***************************************************************************)
(* What the operators of JobRow return, for the proofs about the modules   *)
(* that use them.                                                          *)
(***************************************************************************)
EXTENDS JobRow, TLAPS

LEMMA NoJobType == NoJob \in JobRowType /\ NoJob.status = "absent"
BY DEF NoJob, JobRowType

(* Only an absent row is added. *)
LEMMA EnqueuedRow ==
    ASSUME NEW r \in JobRowType
    PROVE  /\ Enqueued(r) \in JobRowType
           /\ r.status # "absent" => Enqueued(r) = r
           /\ r.status = "absent" => Enqueued(r).status = "queued"
BY MaxAttemptsAssumption DEF Enqueued, JobRowType, NoJob, Terminal

(* A reset row is claimable, an absent one stays absent. *)
LEMMA ResetRow ==
    ASSUME NEW r \in JobRowType
    PROVE  /\ Reset(r) \in JobRowType
           /\ r.status = "absent" => Reset(r) = r
           /\ r.status # "absent" => Reset(r).status = "queued"
BY MaxAttemptsAssumption DEF Reset, JobRowType, NoJob, Terminal

LEMMA ClaimedRow ==
    ASSUME NEW r \in JobRowType, Claimable(r)
    PROVE  /\ r.status = "queued"
           /\ Claimed(r) \in JobRowType /\ Claimed(r).status = "running"
<1>1. r.status = "queued" /\ r \in [status : {"queued"}, attempts : 0..(MaxAttempts - 1)]
  BY DEF Claimable, JobRowType, Terminal
<1>2. r.attempts + 1 \in 1..MaxAttempts
  BY <1>1, MaxAttemptsAssumption
<1> QED BY <1>1, <1>2 DEF Claimed, JobRowType

LEMMA EndedRow ==
    ASSUME NEW st \in Terminal
    PROVE  Ended(st) \in JobRowType /\ Ended(st).status = st
BY DEF Ended, NoJob, JobRowType, Terminal

(* Recovery and failure give a row back to the queue, or end it. *)
LEMMA RetriedRow ==
    ASSUME NEW r \in JobRowType, r.status = "running"
    PROVE  /\ RetriedOrFailed(r) \in JobRowType
           /\ RetriedOrFailed(r).status \in {"queued", "failed"}
<1>1. CASE r.attempts < MaxAttempts
  BY <1>1, MaxAttemptsAssumption DEF RetriedOrFailed, JobRowType, Terminal
<1>2. CASE ~(r.attempts < MaxAttempts)
  BY <1>2, EndedRow DEF RetriedOrFailed, Terminal
<1> QED BY <1>1, <1>2

(* An acknowledgement moves no row but a running one. *)
LEMMA AcknowledgedRow ==
    ASSUME NEW r \in JobRowType
    PROVE  /\ Completed(r) \in JobRowType /\ Failed(r) \in JobRowType
           /\ r.status # "running" => Completed(r) = r /\ Failed(r) = r
           /\ r.status = "running" => /\ Completed(r).status = "succeeded"
                                      /\ Failed(r).status \in {"queued", "failed"}
BY RetriedRow, EndedRow DEF Completed, Failed, Terminal
===============================================================================
