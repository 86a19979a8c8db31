-------------------------- MODULE MCOutboundMessages --------------------------
(* One message (messages share nothing but the slots), two handler tasks,  *)
(* two attempts: the first may fail, the second is the last.               *)
EXTENDS OutboundMessages

CONSTANT m1

MCMessage == {m1}
===============================================================================
