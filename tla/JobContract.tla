----------------------------- MODULE JobContract -----------------------------
(***************************************************************************)
(* What the durable queue promises the code that enqueues jobs, with no    *)
(* word about workers, leases or time: one row per dedupe key, at most     *)
(* MaxAttempts claims between two admissions, no success that is not       *)
(* backed by a handler call that returned, and terminal rows that stay     *)
(* terminal until an administrator or the cleanup touches them.            *)
(***************************************************************************)
EXTENDS Integers

CONSTANTS
    Job,            \* the dedupe keys
    MaxAttempts     \* BackgroundJob.max_attempts

VARIABLES
    status,         \* status[j]: the row's status, "absent" when there is none
    attempts,       \* attempts[j]: claims since the row was admitted
    returned        \* returned[j]: some handler call for the row has returned

contractVars == <<status, attempts, returned>>

Terminal == {"succeeded", "failed"}
Status == {"absent", "queued", "running"} \cup Terminal

Init ==
    /\ status = [j \in Job |-> "absent"]
    /\ attempts = [j \in Job |-> 0]
    /\ returned = [j \in Job |-> FALSE]

(* A row moves from one status to another with the given new attempts. *)
Moves(j, from, to, n) ==
    /\ status[j] = from
    /\ status'[j] = to
    /\ attempts'[j] = n

Admit(j) == Moves(j, "absent", "queued", 0) /\ returned'[j] = FALSE

Begin(j) ==
    /\ attempts[j] < MaxAttempts
    /\ Moves(j, "queued", "running", attempts[j] + 1)
    /\ returned'[j] = returned[j]

Return(j) ==
    /\ status[j] # "absent"
    /\ Moves(j, status[j], status[j], attempts[j])
    /\ returned'[j] = TRUE

Succeed(j) ==
    /\ returned[j]
    /\ Moves(j, "running", "succeeded", attempts[j])
    /\ returned'[j] = returned[j]

GiveUp(j) == Moves(j, "running", "failed", attempts[j]) /\ returned'[j] = returned[j]

Requeue(j) ==
    /\ attempts[j] < MaxAttempts
    /\ Moves(j, "running", "queued", attempts[j])
    /\ returned'[j] = returned[j]

Readmit(j) == Moves(j, "failed", "queued", 0) /\ returned'[j] = returned[j]

Forget(j) ==
    /\ status[j] \in Terminal
    /\ Moves(j, status[j], "absent", 0)
    /\ returned'[j] = FALSE

Same(j) ==
    /\ Moves(j, status[j], status[j], attempts[j])
    /\ returned'[j] = returned[j]

RowStep(j) ==
    \/ Admit(j) \/ Begin(j) \/ Return(j) \/ Succeed(j)
    \/ GiveUp(j) \/ Requeue(j) \/ Readmit(j) \/ Forget(j) \/ Same(j)

(* One transaction may move several rows (the recovery pass does). *)
Next ==
    /\ status' \in [Job -> Status]
    /\ attempts' \in [Job -> 0..MaxAttempts]
    /\ returned' \in [Job -> BOOLEAN]
    /\ \A j \in Job : RowStep(j)

Spec == Init /\ [][Next]_contractVars
==============================================================================
