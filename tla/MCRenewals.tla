------------------------------ MODULE MCRenewals ------------------------------
(***************************************************************************)
(* One table with one group, uploaded twice.                               *)
(***************************************************************************)
EXTENDS Renewals

CONSTANTS m1, d1    \* an address; an end date

MCGroup == {d1}
MCFile == {{[group |-> d1, addresses |-> {m1}]}}
MCUpload == 1..2
===============================================================================
