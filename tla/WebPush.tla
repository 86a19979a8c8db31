-------------------------------- MODULE WebPush --------------------------------
(***************************************************************************)
(* The browsers to which a user's notifications are pushed: rows of        *)
(* web_push_subscriptions, with their registration, their removal, and the *)
(* results of WebPushSender, which sends with no transaction open and      *)
(* writes what it learned about each row afterwards.                       *)
(*                                                                         *)
(* An endpoint is a browser; who signs in there registers it for himself.  *)
(***************************************************************************)
EXTENDS Naturals, FiniteSets, Functions

CONSTANTS
    User,
    Endpoint,
    Cap,            \* MAX_ACTIVE_SUBSCRIPTIONS_PER_USER
    MaxRow          \* bound on the rows ever inserted

VARIABLES
    subscription,   \* subscription[n]: the rows, by id
    lastRow,        \* ids drawn so far
    registering,    \* registering[u]: the registration that has locked u
    queued,         \* users with a push delivery that is pending
    tested,         \* users whose key for a test push is taken this minute
    push            \* push[u]: the rows a sender has read, "none" if it does not run

vars == <<subscription, lastRow, registering, queued, tested, push>>

Row == 1..MaxRow
Idle == [endpoint |-> "none"]

Subscription == [user : User, endpoint : Endpoint, active : BOOLEAN, expired : BOOLEAN]

TypeOK ==
    /\ lastRow \in 0..MaxRow /\ DOMAIN subscription \subseteq 1..lastRow
    /\ \A n \in DOMAIN subscription : subscription[n] \in Subscription
    /\ registering \in [User -> {Idle} \cup [endpoint : Endpoint, row : Row,
                                             dead : SUBSET Row, stale : SUBSET Row]]
    /\ queued \subseteq User /\ tested \subseteq User
    /\ push \in [User -> [running : BOOLEAN, rows : SUBSET Row]]

Init ==
    /\ subscription = <<>>
    /\ lastRow = 0
    /\ registering = [u \in User |-> Idle]
    /\ queued = {}
    /\ tested = {}
    /\ push = [u \in User |-> [running |-> FALSE, rows |-> {}]]

RowsOf(u) == {n \in DOMAIN subscription : subscription[n].user = u}

RowsAt(e) == {n \in DOMAIN subscription : subscription[n].endpoint = e}

(* _active_subscription_predicate *)
ActiveRows(u) == {n \in RowsOf(u) : subscription[n].active /\ ~subscription[n].expired}

(* Rows that an open registration of these users has written or deleted *)
LockedBy(users) == UNION {{registering[u].row} \cup registering[u].dead :
                             u \in {v \in users : registering[v] # Idle}}

Locked == LockedBy(User)

-------------------------------------------------------------------------------
(* register_subscription, with its lock on the user: the endpoint's row is *)
(* inserted or taken over; rows of the user that are disabled or expired,  *)
(* and the active ones beyond the cap, go.  The order in which the latter  *)
(* were last used is left open.                                            *)

(* Faulty variant of Surplus: the endpoint's own row is not counted. *)
SurplusBesideOwn(others) == IF Cardinality(others) > Cap THEN Cardinality(others) - Cap ELSE 0

Surplus(others) == IF Cardinality(others) + 1 > Cap THEN Cardinality(others) + 1 - Cap ELSE 0

Register(u, e) ==
    /\ registering[u] = Idle
    /\ \A v \in User : registering[v].endpoint # e
    /\ RowsAt(e) \cap Locked = {}
    /\ LET row == IF RowsAt(e) = {} THEN lastRow + 1 ELSE CHOOSE n \in RowsAt(e) : TRUE
           others == RowsOf(u) \ {row}
           dead == others \ ActiveRows(u)
       IN  /\ row <= MaxRow
           /\ dead \cap Locked = {}
           /\ \E stale \in SUBSET (others \ dead) :
                 /\ Cardinality(stale) = Surplus(others \ dead)
                 /\ registering' = [registering EXCEPT
                                      ![u] = [endpoint |-> e, row |-> row,
                                              dead |-> dead, stale |-> stale]]
           /\ lastRow' = IF row > lastRow THEN row ELSE lastRow
    /\ UNCHANGED <<subscription, queued, tested, push>>

(* The stale rows are deleted by id, once nobody else has them locked: one *)
(* that another user has taken over since it was read goes as well.        *)
CommitRegistration(u) ==
    /\ registering[u] # Idle
    /\ LET q == registering[u]
       IN  /\ q.stale \cap LockedBy(User \ {u}) = {}
           /\ subscription' = [n \in (DOMAIN subscription \cup {q.row}) \ (q.dead \cup q.stale) |->
                                  IF n = q.row
                                  THEN [user |-> u, endpoint |-> q.endpoint, active |-> TRUE,
                                        expired |-> FALSE]
                                  ELSE subscription[n]]
    /\ registering' = [registering EXCEPT ![u] = Idle]
    /\ UNCHANGED <<lastRow, queued, tested, push>>

(* An error, or two that wait for each other *)
RollBack(u) ==
    /\ registering[u] # Idle
    /\ registering' = [registering EXCEPT ![u] = Idle]
    /\ UNCHANGED <<subscription, lastRow, queued, tested, push>>

DeleteSubscription(u, e) ==
    /\ RowsAt(e) \cap RowsOf(u) # {} /\ RowsAt(e) \cap Locked = {}
    /\ subscription' = Restrict(subscription, DOMAIN subscription \ RowsAt(e))
    /\ UNCHANGED <<lastRow, registering, queued, tested, push>>

(* expiration_time is reached. *)
Expire(n) ==
    /\ ~subscription[n].expired
    /\ subscription' = [subscription EXCEPT ![n].expired = TRUE]
    /\ UNCHANGED <<lastRow, registering, queued, tested, push>>

-------------------------------------------------------------------------------
(* Deliveries.  A test push has one dedupe key a minute.                   *)

QueueTestPush(u) ==
    /\ ActiveRows(u) # {} /\ u \notin tested
    /\ tested' = tested \cup {u}
    /\ queued' = queued \cup {u}
    /\ UNCHANGED <<subscription, lastRow, registering, push>>

NextMinute ==
    /\ tested # {}
    /\ tested' = {}
    /\ UNCHANGED <<subscription, lastRow, registering, queued, push>>

(* An in-app notification was delivered and is pushed as well. *)
Mirror(u) ==
    /\ ActiveRows(u) # {} /\ u \notin queued
    /\ queued' = queued \cup {u}
    /\ UNCHANGED <<subscription, lastRow, registering, tested, push>>

BeginPush(u) ==
    /\ u \in queued /\ ~push[u].running
    /\ push' = [push EXCEPT ![u] = [running |-> TRUE, rows |-> ActiveRows(u)]]
    /\ UNCHANGED <<subscription, lastRow, registering, queued, tested>>

(* Faulty variant of Written: the row's user is not compared. *)
WrittenWhoever(u) == push[u].rows \cap DOMAIN subscription

(* A row that is gone, or is another user's by now, is not written. *)
Written(u) == push[u].rows \cap RowsOf(u)

(* Some browsers took the push, some said to try again, the rest refused   *)
(* for good.  Without a success and with one to try again, the delivery is *)
(* retried.                                                                *)
RecordResults(u, taken, later) ==
    /\ push[u].running
    /\ Written(u) \cap Locked = {}
    /\ subscription' = [n \in DOMAIN subscription |->
                           IF n \in Written(u)
                           THEN [subscription[n] EXCEPT !.active = n \in taken \cup later]
                           ELSE subscription[n]]
    /\ queued' = IF taken = {} /\ later # {} THEN queued ELSE queued \ {u}
    /\ push' = [push EXCEPT ![u] = [running |-> FALSE, rows |-> {}]]
    /\ UNCHANGED <<lastRow, registering, tested>>

(* The process ends, or the call runs out of time. *)
AbandonPush(u) ==
    /\ push[u].running
    /\ push' = [push EXCEPT ![u] = [running |-> FALSE, rows |-> {}]]
    /\ UNCHANGED <<subscription, lastRow, registering, queued, tested>>

Next ==
    \/ NextMinute
    \/ \E n \in DOMAIN subscription : Expire(n)
    \/ \E u \in User :
          \/ CommitRegistration(u) \/ RollBack(u) \/ QueueTestPush(u) \/ Mirror(u)
          \/ BeginPush(u) \/ AbandonPush(u)
          \/ \E e \in Endpoint :
                \/ DeleteSubscription(u, e)
                \/ Register(u, e)
          \/ \E taken, later \in SUBSET push[u].rows :
                taken \cap later = {} /\ RecordResults(u, taken, later)

Spec == Init /\ [][Next]_vars

-------------------------------------------------------------------------------
(* However registrations, takeovers, removals and late results interleave, *)
(* a user never has more browsers than the cap, one row is kept for a      *)
(* browser, and a row is disabled or enabled again only by a push to the   *)
(* user it belongs to at that moment.                                      *)
DevicesCapped ==
    /\ \A u \in User : Cardinality(RowsOf(u)) <= Cap
    /\ \A e \in Endpoint : Cardinality(RowsAt(e)) <= 1

SwitchedByOwn(n) ==
    \/ push[subscription[n].user].running /\ ~push'[subscription[n].user].running
    \/ \E u \in User : registering[u] # Idle /\ registering[u].row = n

DevicesKept ==
    /\ DevicesCapped'
    /\ \A n \in DOMAIN subscription \cap DOMAIN subscription' :
          subscription'[n].active # subscription[n].active => SwitchedByOwn(n)

DevicesHold == [][DevicesKept]_vars
===============================================================================
