------------------------------ MODULE MCHandlers ------------------------------
(***************************************************************************)
(* What the supervisor owes: the deliveries of Notifications and the items *)
(* of Intake on small instances, with the fairness of both.  A behaviour   *)
(* is of one of the two, and the other never begins in it.                 *)
(***************************************************************************)
EXTENDS MCNotifications, TLC

CONSTANTS
    u1, u2, l1,     \* updates that a provider delivers, a lead by webhook
    m1, m2, m3,     \* messages
    t1, t2          \* conversations

VARIABLES
    part,           \* "notifications" or "intake"
    item, intakeJob, call, contact, identity, lead, conversation, stored

(* Two items at a time: two messages of one new conversation, or a message *)
(* and a lead.                                                             *)
Inbound == INSTANCE Intake WITH
    Item <- {u1, u2, l1},
    Lead <- {l1},
    Together <- {{u1, u2}, {u1, l1}},
    MessageOf <- (u1 :> m1) @@ (u2 :> m2) @@ (l1 :> m3),
    ThreadOf <- (u1 :> t1) @@ (u2 :> t1) @@ (l1 :> t2),
    ByEmail <- TRUE,
    MaxContacts <- 1,
    HandlerSlots <- 2,
    MaxAttempts <- 1

inboundVars == <<item, intakeJob, call, contact, identity, lead, conversation, stored>>

MCVars == <<part, vars, inboundVars>>

MCInit ==
    /\ part \in {"notifications", "intake"}
    /\ Init /\ (part = "intake" => access = [d \in Delivery |-> TRUE])
    /\ Inbound!Init

MCNext ==
    /\ UNCHANGED part
    /\ IF part = "notifications" THEN Next ELSE UNCHANGED vars
    /\ IF part = "intake" THEN Inbound!Next ELSE UNCHANGED inboundVars

(* What is fair in the part that is not chosen is never enabled. *)
MCSpec == MCInit /\ [][MCNext]_MCVars /\ Fairness /\ Inbound!Fairness

(* IntakeSettles of Intake, the supervisor's work on inbound events and    *)
(* forms: what is accepted is routed, given up, or a failed job.           *)
IntakeSettles == Inbound!IntakeSettles
===============================================================================
