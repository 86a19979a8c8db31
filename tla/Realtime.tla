------------------------------- MODULE Realtime --------------------------------
(***************************************************************************)
(* How a user's browser learns that a record is no longer theirs: realtime *)
(* events written by the transaction that changes the access, the SSE      *)
(* stream of GET /events, and the access revision in GET /auth/me.  An id  *)
(* comes from a sequence when the row is inserted, so a transaction can    *)
(* commit behind the ids of another.                                       *)
(*                                                                         *)
(* One user with the role employee or a wider one, who sees all deals.     *)
(***************************************************************************)
EXTENDS Naturals, FiniteSets, FiniteSetsExt

CONSTANTS
    Deal,
    Renewed,        \* deals of licences, which a table of licences can reassign
    MaxEvent,       \* bound on event ids
    MaxReplay,      \* MAX_REPLAY_EVENTS
    BatchSize       \* events that one turn of the stream reads

VARIABLES
    assigned,       \* deals that are the user's
    employee,       \* whether the user's role is employee
    lastId,         \* the sequence of realtime_events
    writing,        \* writing[s]: id of the open transaction on subject s, or 0
    log,            \* committed events
    overtaken,      \* whether a change of access is not told by the stream, and by
                    \* the access revision: its event committed behind a later
                    \* event, and a later access event, or there was no such event
    session,        \* "live" or "revoked"
    stream,         \* open, its cursor, the role it knows, and whether it has
                    \* missed no event since the browser's caches were cleared
    browser         \* deals it shows, the access revision and last event id it has

vars == <<assigned, employee, lastId, writing, log, overtaken, session, stream, browser>>

(* What a transaction has locked: a deal, or the user's membership. *)
Role == "role"
Subject == Deal \cup {Role}

Event == [id : 1..MaxEvent, subject : Subject, access : BOOLEAN]

TypeOK ==
    /\ assigned \subseteq Deal /\ employee \in BOOLEAN
    /\ lastId \in 0..MaxEvent
    /\ writing \in [Subject -> 0..MaxEvent]
    /\ log \subseteq Event
    /\ overtaken \in [byEvent : BOOLEAN, byAccess : BOOLEAN]
    /\ session \in {"live", "revoked"}
    /\ stream \in [open : BOOLEAN, cursor : 0..MaxEvent, employee : BOOLEAN, whole : BOOLEAN]
    /\ browser \in [shown : SUBSET Deal, revision : 0..MaxEvent, last : 0..MaxEvent]

Init ==
    /\ assigned = Deal
    /\ employee = TRUE
    /\ lastId = 0
    /\ writing = [s \in Subject |-> 0]
    /\ log = {}
    /\ overtaken = [byEvent |-> FALSE, byAccess |-> FALSE]
    /\ session = "live"
    /\ stream = [open |-> FALSE, cursor |-> 0, employee |-> TRUE, whole |-> FALSE]
    /\ browser = [shown |-> {}, revision |-> 0, last |-> 0]

records == <<assigned, employee, lastId, writing, log, overtaken>>

Visible == IF employee THEN assigned ELSE Deal

MaxOf(ids) == IF ids = {} THEN 0 ELSE Max(ids)

Tail == MaxOf({e.id : e \in log})

(* _auth_response: the user's last access.changed *)
AccessRevision == MaxOf({e.id : e \in {x \in log : x.access}})

-------------------------------------------------------------------------------
(* Transactions of others.  The row is locked before the ids are drawn.    *)

Flush(s) ==
    /\ writing[s] = 0 /\ lastId < MaxEvent
    /\ lastId' = lastId + 1
    /\ writing' = [writing EXCEPT ![s] = lastId + 1]
    /\ UNCHANGED <<assigned, employee, log, overtaken, session, stream, browser>>

(* Faulty variant of Recorded: the former assignee is not told. *)
RecordedForNewOnly(s, access) ==
    log' = log \cup {[id |-> writing[s], subject |-> s,
                      access |-> access /\ (s = Role \/ s \notin assigned)]}

(* record_domain_event and record_access_change, which tells the former    *)
(* and the new assignee; here one event stands for both rows.              *)
Recorded(s, access) ==
    log' = log \cup {[id |-> writing[s], subject |-> s, access |-> access]}

Commit(s, access) ==
    /\ writing[s] # 0
    /\ writing' = [writing EXCEPT ![s] = 0]
    /\ Recorded(s, access)
    /\ overtaken' = IF ~access THEN overtaken
                    ELSE [byEvent |-> overtaken.byEvent \/ Tail > writing[s],
                          byAccess |-> overtaken.byAccess \/ AccessRevision > writing[s]]
    /\ UNCHANGED <<lastId, session, stream, browser>>

(* A change of a deal that leaves its assignee *)
UpdateDeal(d) ==
    /\ Commit(d, FALSE)
    /\ UNCHANGED <<assigned, employee>>

ReassignDeal(d) ==
    /\ Commit(d, TRUE)
    /\ assigned' = IF d \in assigned THEN assigned \ {d} ELSE assigned \cup {d}
    /\ UNCHANGED employee

(* import_subscriptions gives an open deal to the assignee chosen with the *)
(* table, and records only that the deal was updated.                      *)
ImportSubscriptions(d) ==
    /\ d \in Renewed
    /\ writing[d] # 0
    /\ writing' = [writing EXCEPT ![d] = 0]
    /\ Recorded(d, FALSE)
    /\ assigned' = IF d \in assigned THEN assigned \ {d} ELSE assigned \cup {d}
    /\ overtaken' = [byEvent |-> TRUE, byAccess |-> TRUE]
    /\ UNCHANGED <<employee, lastId, session, stream, browser>>

UpdateRole ==
    /\ Commit(Role, TRUE)
    /\ employee' = ~employee
    /\ UNCHANGED assigned

Revoke ==
    /\ session = "live"
    /\ session' = "revoked"
    /\ UNCHANGED <<records, stream, browser>>

-------------------------------------------------------------------------------
(* The browser. *)

(* A record is fetched while its query is not cancelled. *)
Show(d) ==
    /\ session = "live"
    /\ d \in Visible
    /\ browser' = [browser EXCEPT !.shown = @ \cup {d}]
    /\ UNCHANGED <<records, session, stream>>

(* applySession: another revision clears what is shown. *)
Me ==
    /\ session = "live"
    /\ browser' = [browser EXCEPT
                      !.shown = IF browser.revision = AccessRevision THEN @ ELSE {},
                      !.revision = AccessRevision]
    /\ UNCHANGED <<records, session, stream>>

(* _initial_event_cursor: the tail for a new client, a bounded replay for  *)
(* one that says what it has seen.                                         *)
InitialCursor(replay) ==
    IF ~replay THEN Tail
    ELSE IF browser.last + MaxReplay < Tail THEN Tail - MaxReplay ELSE browser.last

Connect(replay) ==
    /\ session = "live" /\ ~stream.open
    /\ stream' = [open |-> TRUE, cursor |-> InitialCursor(replay), employee |-> employee,
                  whole |-> \/ browser.shown = {}
                            \/ stream.whole /\ InitialCursor(replay) = browser.last]
    /\ UNCHANGED <<records, session, browser>>

Disconnect ==
    /\ stream.open
    /\ stream' = [stream EXCEPT !.open = FALSE]
    /\ UNCHANGED <<records, session, browser>>

(* The next events after the cursor, in the order of their ids *)
Batch ==
    LET after == {e \in log : e.id > stream.cursor}
    IN  {e \in after : Cardinality({f \in after : f.id < e.id}) < BatchSize}

(* _employee_visible_event_ids and _public_event_payload: what the user    *)
(* may see now, and the access changes that name them.                     *)
Sent == {e \in Batch : e.access \/ e.subject \in Visible}

(* An access change, or a role that is not the one the stream knew, clears *)
(* what is shown; a change of a record makes the browser fetch it again.   *)
Clears == (\E e \in Sent : e.access) \/ stream.employee # employee

StreamTurn ==
    /\ stream.open /\ session = "live"
    /\ Batch # {} \/ stream.employee # employee
    /\ browser' = [browser EXCEPT
                      !.shown = IF Clears THEN {}
                                ELSE {d \in @ : d \in Visible \/ \A e \in Sent : e.subject # d},
                      !.last = IF Sent = {} THEN @ ELSE MaxOf({e.id : e \in Sent})]
    /\ stream' = [stream EXCEPT
                     !.cursor = IF Batch = {} THEN @ ELSE MaxOf({e.id : e \in Batch}),
                     !.employee = employee,
                     !.whole = @ \/ Clears]
    /\ UNCHANGED <<records, session>>

(* _active_stream_context finds no session. *)
StreamEnds ==
    /\ stream.open /\ session = "revoked"
    /\ stream' = [stream EXCEPT !.open = FALSE]
    /\ browser' = [browser EXCEPT !.shown = {}]
    /\ UNCHANGED <<records, session>>

Next ==
    \/ \E s \in Subject : Flush(s)
    \/ \E d \in Deal : UpdateDeal(d) \/ ReassignDeal(d) \/ ImportSubscriptions(d) \/ Show(d)
    \/ UpdateRole \/ Revoke \/ Me \/ Disconnect \/ StreamTurn \/ StreamEnds
    \/ \E replay \in BOOLEAN : Connect(replay)

Spec == Init /\ [][Next]_vars

-------------------------------------------------------------------------------
(* Unless a change of access was recorded behind a later event or not at   *)
(* all, a browser shows only what the user may see once its last answer of *)
(* /auth/me is current, whatever the stream missed, and once a stream      *)
(* without a gap has caught up.                                            *)
NothingStaleIsShown ==
    (\/ session = "live" /\ browser.revision = AccessRevision /\ ~overtaken.byAccess
     \/ /\ stream.open /\ stream.whole /\ stream.cursor = Tail
        /\ stream.employee = employee /\ ~overtaken.byEvent)
    => browser.shown \subseteq Visible

(* A browser whose /auth/me answers the revision it has shows what its     *)
(* user may see, whatever events it missed: the documentation of           *)
(* access_revision.                                                        *)
RevisionTellsRevoked ==
    session = "live" /\ browser.revision = AccessRevision => browser.shown \subseteq Visible
===============================================================================
