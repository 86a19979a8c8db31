------------------------------ MODULE MCPurchases ------------------------------
(* Two dates, so that one is changed for the other and back; an owner and  *)
(* an employee; one attempt of the job, more of them by RetryJob.          *)
EXTENDS Purchases

CONSTANTS d1, d2, olga, ivan

MCDates == {d1, d2}
MCUsers == {olga, ivan}
MCEmployees == {ivan}
===============================================================================
