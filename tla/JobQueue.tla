------------------------------- MODULE JobQueue -------------------------------
(***************************************************************************)
(* The PostgreSQL job queue of app.services.jobs and the supervisors that  *)
(* work it: durable rows with a lease, claim / acknowledge / recover as    *)
(* one transaction each, and the asyncio tasks that run handlers between   *)
(* those transactions.                                                     *)
(*                                                                         *)
(* Time is relative: a running row counts down what is left of its lease,  *)
(* a queued row what is left of its backoff, and a task counts up from its *)
(* claim.  A Tick moves all of them.  One unit of time stands for about 15 *)
(* seconds of the program.                                                 *)
(***************************************************************************)
EXTENDS Integers, FiniteSets

CONSTANTS
    Job,            \* the dedupe keys in use
    Worker,         \* worker ids: one per supervisor process ever started
    Handled,        \* Handled[w]: the jobs whose type has a handler in w's build
    NoWorker,       \* lease_owner of a row that nobody holds (NULL)
    Concurrency,    \* handler tasks a supervisor runs at a time
    MaxAttempts,    \* BackgroundJob.max_attempts
    LeaseTime,      \* lease_seconds
    JobTimeout,     \* job_timeout_seconds
    BackoffBase,    \* retry_base_seconds
    BackoffCap,     \* retry_cap_seconds
    ClaimStall      \* most time between stamping a lease and starting its task

RetryDelay(n) ==
    LET d == BackoffBase * 2^(n - 1) IN IF d < BackoffCap THEN d ELSE BackoffCap

ASSUME QueueAssumption ==
    /\ Handled \in [Worker -> SUBSET Job]
    /\ NoWorker \notin Worker
    /\ Concurrency \in Nat \ {0}
    /\ MaxAttempts \in Nat \ {0}
    /\ {LeaseTime, JobTimeout, BackoffBase, BackoffCap} \subseteq Nat \ {0}
    /\ ClaimStall \in Nat
    /\ JobTimeout < LeaseTime
    /\ ClaimStall <= LeaseTime

(* The powers of two the backoff meets are numbers: the only fact about    *)
(* exponentiation the proofs use.                                          *)
ASSUME PowersAssumption == \A n \in 1..MaxAttempts : 2^(n - 1) \in Nat

VARIABLES
    row,            \* row[j]: the background_jobs row of j
    proc,           \* proc[w]: the life of the supervisor with worker id w
    task,           \* task[w][s]: what runs in slot s of w's active tasks
    returned        \* history: a handler call for the row of j has returned

vars == <<row, proc, task, returned>>

Slot == 1..Concurrency
Terminal == {"succeeded", "failed"}

Row == [status : {"absent", "queued", "running"} \cup Terminal,
        attempts : 0..MaxAttempts,
        owner : Worker \cup {NoWorker},
        lease : 0..LeaseTime,       \* lease_until - now, 0 when not in future
        delay : 0..BackoffCap]      \* run_at - now, 0 when due

NoRow == [status |-> "absent", attempts |-> 0, owner |-> NoWorker,
          lease |-> 0, delay |-> 0]

Idle == [stage |-> "idle"]

(* "running": the handler, which wait_for ends at its timeout; the other   *)
(* stages are an acknowledgement that waits for its transaction, as long   *)
(* as the database takes.  An age is counted up to LeaseTime, beyond which *)
(* nothing depends on it.  `claim' is history: whether the claim this task *)
(* was made for is still the row's, or the recovery pass took it, or       *)
(* another task's acknowledgement ended it.                                *)
Task == {t \in [stage : {"running", "ok", "error", "unhandled"}, job : Job,
                age : 0..LeaseTime, claim : {"held", "recovered", "overruled"}] :
            t.stage = "running" => t.age <= JobTimeout}

TypeOK ==
    /\ row \in [Job -> Row]
    /\ proc \in [Worker -> {"new", "up", "draining", "down"}]
    /\ task \in [Worker -> [Slot -> Task \cup {Idle}]]
    /\ returned \in [Job -> BOOLEAN]

Init ==
    /\ row = [j \in Job |-> NoRow]
    /\ proc = [w \in Worker |-> "new"]
    /\ task = [w \in Worker |-> [s \in Slot |-> Idle]]
    /\ returned = [j \in Job |-> FALSE]

-------------------------------------------------------------------------------
(* Row updates.                                                            *)

Queued(r, n, d) ==
    [r EXCEPT !.status = "queued", !.attempts = n, !.owner = NoWorker,
              !.lease = 0, !.delay = d]

Settled(r, st) ==
    [r EXCEPT !.status = st, !.owner = NoWorker, !.lease = 0, !.delay = 0]

Leased(r, w, left) ==
    [r EXCEPT !.status = "running", !.attempts = @ + 1, !.owner = w, !.lease = left]

(* Faulty variant of Expired: recovery that forgets to look at the lease.  *)
ExpiredAnyLease(r) == r.status = "running"

Expired(r) == r.status = "running" /\ r.lease = 0

(* The predicate of complete_job and fail_job: the row is running and its  *)
(* lease_owner is this supervisor.                                         *)
LeaseIsMine(w, j) == row[j].status = "running" /\ row[j].owner = w

Live(w) == proc[w] \in {"up", "draining"}

Holds(w, s) == task[w][s] # Idle /\ task[w][s].claim = "held"

(* The tasks of the rows in S lose the claim they started from.            *)
Unclaimed(S, how) ==
    [w \in Worker |-> [s \in Slot |->
        IF Holds(w, s) /\ task[w][s].job \in S
        THEN [task[w][s] EXCEPT !.claim = how] ELSE task[w][s]]]

Working(j) == \E w \in Worker, s \in Slot : task[w][s] # Idle /\ task[w][s].job = j

-------------------------------------------------------------------------------
(* The queue's callers.                                                    *)

(* enqueue_job: INSERT ... ON CONFLICT (dedupe_key) DO NOTHING.  A row that *)
(* exists, whatever its status, makes the call a no-op.                    *)
Enqueue(j) ==
    /\ row[j].status = "absent"
    /\ \E d \in {0, BackoffCap} : row' = [row EXCEPT ![j] = Queued(NoRow, 0, d)]
    /\ returned' = [returned EXCEPT ![j] = FALSE]
    /\ UNCHANGED <<proc, task>>

(* POST /admin/jobs/{id}/retry *)
RetryFailed(j) ==
    /\ row[j].status = "failed"
    /\ row' = [row EXCEPT ![j] = Queued(@, 0, 0)]
    /\ UNCHANGED <<proc, task, returned>>

(* The cleanup job deletes terminal rows 14 days after their last update,  *)
(* long after every task that ever ran them is gone.                       *)
Cleanup(j) ==
    /\ row[j].status \in Terminal
    /\ ~Working(j)
    /\ row' = [row EXCEPT ![j] = NoRow]
    /\ returned' = [returned EXCEPT ![j] = FALSE]
    /\ UNCHANGED <<proc, task>>

-------------------------------------------------------------------------------
(* The supervisor.                                                         *)

Start(w) ==
    /\ proc[w] = "new"
    /\ proc' = [proc EXCEPT ![w] = "up"]
    /\ UNCHANGED <<row, task, returned>>

(* stop(): the loops end, claimed jobs are awaited. *)
Stop(w) ==
    /\ proc[w] = "up"
    /\ proc' = [proc EXCEPT ![w] = "draining"]
    /\ UNCHANGED <<row, task, returned>>

Drained(w) ==
    /\ proc[w] = "draining"
    /\ \A s \in Slot : task[w][s] = Idle
    /\ proc' = [proc EXCEPT ![w] = "down"]
    /\ UNCHANGED <<row, task, returned>>

(* The process dies, or an error that is not one of availability cancels   *)
(* the task group: nothing is acknowledged.                                *)
Crash(w) ==
    /\ Live(w)
    /\ proc' = [proc EXCEPT ![w] = "down"]
    /\ task' = [task EXCEPT ![w] = [s \in Slot |-> Idle]]
    /\ UNCHANGED <<row, returned>>

(* Faulty variant of Due: a claim that re-reads rows already leased.       *)
DueOrRunning(j) ==
    /\ row[j].status \in {"queued", "running"}
    /\ row[j].delay = 0
    /\ row[j].attempts < MaxAttempts

Due(j) ==
    /\ row[j].status = "queued"
    /\ row[j].delay = 0
    /\ row[j].attempts < MaxAttempts

(* One row of claim_jobs and the task made for it; a batch is a run of     *)
(* these.  The lease was stamped before the statement got a connection and *)
(* committed, so up to ClaimStall of it may be gone when the task starts.  *)
Claim(w, j) ==
    /\ proc[w] = "up"
    /\ Due(j)
    /\ \E left \in (LeaseTime - ClaimStall)..LeaseTime : row' = [row EXCEPT ![j] = Leased(@, w, left)]
    /\ \E s \in Slot :
          /\ task[w][s] = Idle
          /\ \A t \in 1..(s - 1) : task[w][t] # Idle
          /\ task' = [task EXCEPT ![w][s] =
                 [stage |-> IF j \in Handled[w] THEN "running" ELSE "unhandled",
                  job |-> j, age |-> 0, claim |-> "held"]]
    /\ UNCHANGED <<proc, returned>>

(* The claim commits but the dispatcher sees a connection error: the rows  *)
(* are leased and no task runs them.                                       *)
ClaimUnseen(w, j) ==
    /\ proc[w] = "up"
    /\ Due(j)
    /\ \E s \in Slot : task[w][s] = Idle
    /\ row' = [row EXCEPT ![j] = Leased(@, w, LeaseTime)]
    /\ UNCHANGED <<proc, task, returned>>

(* The handler returns, raises, or is cancelled by wait_for at its timeout. *)
Handle(w, s) ==
    /\ task[w][s].stage = "running"
    /\ \/ /\ task' = [task EXCEPT ![w][s].stage = "ok"]
          /\ returned' = [returned EXCEPT ![task[w][s].job] = TRUE]
       \/ /\ task' = [task EXCEPT ![w][s].stage = "error"]
          /\ UNCHANGED returned
    /\ UNCHANGED <<row, proc>>

(* complete_job *)
Complete(w, s) ==
    LET j == task[w][s].job IN
    /\ task[w][s].stage = "ok"
    /\ row' = IF LeaseIsMine(w, j)
              THEN [row EXCEPT ![j] = Settled(@, "succeeded")] ELSE row
    /\ task' = [(IF LeaseIsMine(w, j) THEN Unclaimed({j}, "overruled") ELSE task)
                    EXCEPT ![w][s] = Idle]
    /\ UNCHANGED <<proc, returned>>

(* Faulty variant of CanRetry: the last attempt is retried once more.      *)
CanRetryOnceMore(r) == r.attempts <= MaxAttempts

CanRetry(r) == r.attempts < MaxAttempts

(* fail_job: retryable after an error of the handler, final when no        *)
(* handler is registered.                                                  *)
Fail(w, s) ==
    LET j == task[w][s].job
        again == task[w][s].stage = "error" /\ CanRetry(row[j])
    IN
    /\ task[w][s].stage \in {"error", "unhandled"}
    /\ row' = IF LeaseIsMine(w, j)
              THEN [row EXCEPT ![j] =
                       IF again THEN Queued(@, @.attempts, RetryDelay(@.attempts))
                                ELSE Settled(@, "failed")]
              ELSE row
    /\ task' = [(IF LeaseIsMine(w, j) THEN Unclaimed({j}, "overruled") ELSE task)
                    EXCEPT ![w][s] = Idle]
    /\ UNCHANGED <<proc, returned>>

(* The acknowledgement transaction fails: the lease is left to recovery.   *)
AckLost(w, s) ==
    /\ task[w][s].stage \in {"ok", "error", "unhandled"}
    /\ task' = [task EXCEPT ![w][s] = Idle]
    /\ UNCHANGED <<row, proc, returned>>

(* Faulty variant of Recover: exhausted rows are left alone.               *)
RecoverRetryable(w) ==
    LET S == {j \in Job : Expired(row[j]) /\ CanRetry(row[j])} IN
    /\ proc[w] = "up"
    /\ S # {}
    /\ row' = [j \in Job |-> IF j \in S THEN Queued(row[j], row[j].attempts, 0) ELSE row[j]]
    /\ task' = Unclaimed(S, "recovered")
    /\ UNCHANGED <<proc, returned>>

(* recover_expired_leases, run by the recovery loop of a supervisor. *)
Recover(w) ==
    LET S == {j \in Job : Expired(row[j])} IN
    /\ proc[w] = "up"
    /\ S # {}
    /\ row' = [j \in Job |->
                  IF j \notin S THEN row[j]
                  ELSE IF CanRetry(row[j]) THEN Queued(row[j], row[j].attempts, 0)
                                           ELSE Settled(row[j], "failed")]
    /\ task' = Unclaimed(S, "recovered")
    /\ UNCHANGED <<proc, returned>>

-------------------------------------------------------------------------------
(* Time.  A handler is cut off at its timeout.  Nothing bounds an          *)
(* acknowledgement: 10 s at the most for a pooled connection, but no       *)
(* statement timeout once it has one, so any time may go by before it ends.*)

(* Faulty variant of TimedOut: a handler without a timeout.                *)
NeverTimedOut(t) == FALSE

TimedOut(t) == t.stage = "running" /\ t.age = JobTimeout

CountDown(n) == IF n > 0 THEN n - 1 ELSE 0

Older(n) == IF n < LeaseTime THEN n + 1 ELSE n

Tick ==
    /\ \A w \in Worker, s \in Slot :
          task[w][s] # Idle => ~TimedOut(task[w][s])
    /\ \/ \E j \in Job : row[j].lease > 0 \/ row[j].delay > 0
       \/ \E j \in Job : Working(j)
    /\ row' = [j \in Job |-> [row[j] EXCEPT !.lease = CountDown(@),
                                            !.delay = CountDown(@)]]
    /\ task' = [w \in Worker |-> [s \in Slot |->
                  IF task[w][s] = Idle THEN Idle
                  ELSE [task[w][s] EXCEPT !.age = Older(@)]]]
    /\ UNCHANGED <<proc, returned>>

-------------------------------------------------------------------------------
Supervise(w) ==
    \/ Start(w) \/ Stop(w) \/ Drained(w) \/ Crash(w) \/ Recover(w)
    \/ \E j \in Job : Claim(w, j) \/ ClaimUnseen(w, j)
    \/ \E s \in Slot : Handle(w, s) \/ Complete(w, s) \/ Fail(w, s) \/ AckLost(w, s)

Next ==
    \/ \E j \in Job : Enqueue(j) \/ RetryFailed(j) \/ Cleanup(j)
    \/ \E w \in Worker : Supervise(w)
    \/ Tick

Spec == Init /\ [][Next]_vars

(* The loops run while the process lives, timers fire, and an              *)
(* acknowledgement ends one way or the other, with its commit or with an   *)
(* error, after any time.  A due row is claimed infinitely often enabled:  *)
(* claim_jobs takes rows in run_at order, so a row is not passed over for  *)
(* ever.                                                                   *)
Fairness ==
    /\ WF_vars(Tick)
    /\ WF_vars(\E w \in Worker : Recover(w))
    /\ \A w \in Worker, s \in Slot :
          /\ WF_vars(Handle(w, s))
          /\ WF_vars(Complete(w, s) \/ Fail(w, s) \/ AckLost(w, s))
    /\ \A j \in Job : SF_vars(\E w \in Worker : Claim(w, j))

FairSpec == Spec /\ Fairness

-------------------------------------------------------------------------------
(* Properties.                                                             *)

(* A row moves only the way the contract of the queue allows, whatever the *)
(* interleaving of crashes, stalls, recoveries and acknowledgements.       *)
Contract == INSTANCE JobContract WITH
    status <- [j \in Job |-> row[j].status],
    attempts <- [j \in Job |-> row[j].attempts]

ImplementsContract == Contract!Spec

(* "The lease is intentionally longer than the default handler timeout":   *)
(* the recovery pass takes a row only from a task that has lived for all   *)
(* of the lease that was left when it started.                             *)
RecoveredOnlyIfOverstayed ==
    \A w \in Worker, s \in Slot :
        task[w][s] # Idle /\ task[w][s].claim = "recovered"
            => task[w][s].age >= LeaseTime - ClaimStall

(* claim_jobs is atomic: however many supervisors overlap, at most one     *)
(* task works on the current claim of a row, and that claim is its own.    *)
OneHolderPerRow ==
    \A w \in Worker, s \in Slot : Holds(w, s) =>
        /\ LeaseIsMine(w, task[w][s].job)
        /\ \A v \in Worker, t \in Slot :
              Holds(v, t) /\ task[v][t].job = task[w][s].job => v = w /\ t = s

(* What makes the two above inductive.  A task never outlives its row and  *)
(* acknowledges only what happened; a claim that is held is backed by a    *)
(* lease that cannot have run out before the task has used it up; and two  *)
(* tasks never hold the same row.                                          *)
TaskInv(w, s) ==
    task[w][s] # Idle =>
        /\ row[task[w][s].job].status # "absent"
        /\ task[w][s].stage = "ok" => returned[task[w][s].job]
        /\ task[w][s].claim = "recovered" => task[w][s].age >= LeaseTime - ClaimStall
        /\ task[w][s].claim = "held" =>
              /\ LeaseIsMine(w, task[w][s].job)
              /\ row[task[w][s].job].lease + task[w][s].age >= LeaseTime - ClaimStall

Rivals(v, t, w, s) ==
    Holds(v, t) /\ Holds(w, s) /\ task[v][t].job = task[w][s].job => v = w /\ t = s

IInv ==
    /\ TypeOK
    /\ \A w \in Worker, s \in Slot : TaskInv(w, s)
    /\ \A v, w \in Worker, t, s \in Slot : Rivals(v, t, w, s)
    /\ \A j \in Job : row[j].status = "running" => row[j].attempts >= 1

(* The supervisor's docstring promises at-least-once execution: as long as *)
(* some supervisor stays up, a job that is queued or leased ends up        *)
(* succeeded or failed, whoever crashed and whatever acknowledgement was   *)
(* lost on the way.                                                        *)
EventuallySettled ==
    <>[](\E w \in Worker : proc[w] = "up") =>
        \A j \in Job : row[j].status \in {"queued", "running"}
                           ~> row[j].status \in Terminal
===============================================================================
