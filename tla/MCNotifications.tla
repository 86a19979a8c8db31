---------------------------- MODULE MCNotifications ----------------------------
(* One delivery of either audience and either channel, two handler tasks,  *)
(* two attempts.                                                           *)
EXTENDS Notifications

CONSTANT d1

MCDelivery == {d1}
===============================================================================
