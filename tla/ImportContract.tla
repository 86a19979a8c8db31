---------------------------- MODULE ImportContract ----------------------------
(***************************************************************************)
(* What an amoCRM import promises the administrator who starts, pauses and *)
(* resumes it: every page of the source is applied once and in order, only *)
(* while the import runs; an applied page is never taken back; and it has  *)
(* succeeded exactly when the last page has been applied.                  *)
(***************************************************************************)
EXTENDS Naturals

CONSTANT Pages      \* how many pages the source has

VARIABLES
    status,         \* ImportJob.status, "none" before the start
    cursor,         \* pages the import's cursor has passed
    applied         \* applied[p]: how often page p has been applied

contractVars == <<status, cursor, applied>>

Init ==
    /\ status = "none"
    /\ cursor = 0
    /\ applied = [p \in 1..Pages |-> 0]

Moves(from, to) ==
    /\ status \in from
    /\ status' = to
    /\ UNCHANGED <<cursor, applied>>

Start == Moves({"none"}, "running")
Pause == Moves({"running"}, "paused")
Resume == Moves({"paused", "failed"}, "running")
Fail == Moves({"running"}, "failed")

ApplyPage ==
    /\ status = "running"
    /\ cursor' = cursor + 1
    /\ applied' = [applied EXCEPT ![cursor + 1] = @ + 1]
    /\ status' = IF cursor + 1 = Pages THEN "succeeded" ELSE "running"

Next == Start \/ Pause \/ Resume \/ Fail \/ (cursor < Pages /\ ApplyPage)

Spec == Init /\ [][Next]_contractVars
===============================================================================
