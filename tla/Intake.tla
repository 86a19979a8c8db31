-------------------------------- MODULE Intake --------------------------------
(***************************************************************************)
(* What clients send in: updates of a messenger channel, generic webhooks  *)
(* and form submissions.  A request stores the delivery once and answers;  *)
(* a background job routes it to a contact, a deal and a conversation in   *)
(* one transaction.  Users change contacts and deals meanwhile.            *)
(*                                                                         *)
(* One person is behind all items: they write from one provider account    *)
(* and leave one address.  A lead is a webhook or a form; its conversation *)
(* is its own.  Several updates may carry one provider message (an edit).  *)
(***************************************************************************)
EXTENDS JobRow, FiniteSets, Sequences

CONSTANTS
    Item,           \* deliveries: InboundEvent and FormSubmission rows to be
    Lead,           \* those that come by a generic webhook or a form
    MessageOf,      \* the provider message an item carries
    ThreadOf,       \* the conversation an item belongs to
    ByEmail,        \* the channel's sender id is the person's address
    MaxContacts,    \* bound on contacts, beside one for each item
    Together,       \* bound: the sets of items that come in one behaviour
    HandlerSlots    \* handler calls at a time

VARIABLES
    item,           \* item[i]: status of the row
    intakeJob,      \* job of key inbound:{i}:process or form-submission:{i}:process
    call,           \* call[i]: the handler call of the job's current claim
    contact,        \* the contacts, in order of creation
    identity,       \* the contact of the person's ExternalIdentity, 0 if none
    lead,           \* the deals that routing made, in order of creation
    conversation,   \* conversation[t]: its deal and contact, deal 0 if absent
    stored          \* stored[m]: message rows of provider message m

vars == <<item, intakeJob, call, contact, identity, lead, conversation, stored>>

Thread == {ThreadOf[i] : i \in Item}
Message == {MessageOf[i] : i \in Item}
ContactId == 1..(MaxContacts + Cardinality(Item))
LeadId == 1..Cardinality(Item)

(* What a transaction has read before it writes: the contact to route to,  *)
(* 0 for a new one or none; whether the identity named it; whether several *)
(* fit; an open deal, 0 if none.                                           *)
Match == [contact : ContactId \cup {0}, known : BOOLEAN, ambiguous : BOOLEAN,
          deal : LeadId \cup {0}]

NoMatch == [contact |-> 0, known |-> FALSE, ambiguous |-> FALSE, deal |-> 0]

At(stage, match) == [stage |-> stage, match |-> match]

Idle == At("idle", NoMatch)

Contact == [live : BOOLEAN, address : BOOLEAN]
LeadDeal == [open : BOOLEAN, contact : ContactId \cup {0}]
Conversation == [deal : LeadId \cup {0}, contact : ContactId \cup {0}]

TypeOK ==
    /\ item \in [Item -> {"absent", "accepted", "processed", "failed"}]
    /\ intakeJob \in [Item -> JobRowType]
    /\ call \in [Item -> [stage : {"idle", "started", "matched", "failing", "ok", "error"},
                          match : Match]]
    /\ contact \in Seq(Contact) /\ Len(contact) <= MaxContacts + Cardinality(Item)
    /\ identity \in 0..Len(contact)
    /\ lead \in Seq(LeadDeal) /\ Len(lead) <= Cardinality(Item)
    /\ conversation \in [Thread -> Conversation]
    /\ stored \in [Message -> 0..2]

Init ==
    /\ item = [i \in Item |-> "absent"]
    /\ intakeJob = [i \in Item |-> NoJob]
    /\ call = [i \in Item |-> Idle]
    /\ contact = <<>>
    /\ identity = 0
    /\ lead = <<>>
    /\ conversation = [t \in Thread |-> [deal |-> 0, contact |-> 0]]
    /\ stored = [m \in Message |-> 0]

crm == <<contact, identity, lead, conversation, stored>>

Goes(i, stage) == call' = [call EXCEPT ![i] = At(stage, NoMatch)]

-------------------------------------------------------------------------------
(* Requests.  The row and its outbox event are one transaction; the unique *)
(* keys turn a repeated delivery, at the same time or later, into the      *)
(* answer "duplicate", which changes nothing.                              *)

Comes(i) == \E S \in Together : {i} \cup {j \in Item : item[j] # "absent"} \subseteq S

(* Faulty variant of Accepted: the duplicate is stored anew. *)
AcceptedAgain(i) ==
    /\ item' = [item EXCEPT ![i] = "accepted"]
    /\ UNCHANGED <<intakeJob, call, crm>>

Accepted(i) ==
    /\ item[i] = "absent" /\ Comes(i)
    /\ item' = [item EXCEPT ![i] = "accepted"]
    /\ UNCHANGED <<intakeJob, call, crm>>

ProviderWebhook(i) == i \notin Lead /\ Accepted(i)

GenericWebhook(i) == i \in Lead /\ Accepted(i)

SubmitForm(i) == i \in Lead /\ Accepted(i)

(* dispatch_outbox of the item's event and the scheduler, which looks for  *)
(* accepted items, enqueue under one dedupe key: the second changes nothing. *)
Enqueue(i) ==
    /\ item[i] = "accepted"
    /\ intakeJob[i].status = "absent"
    /\ intakeJob' = [intakeJob EXCEPT ![i] = Enqueued(@)]
    /\ UNCHANGED <<item, call, crm>>

(* POST /admin/jobs/{id}/retry resets the job, and nothing of the item. *)
RetryJob(i) ==
    /\ intakeJob[i].status = "failed"
    /\ intakeJob' = [intakeJob EXCEPT ![i] = Reset(@)]
    /\ UNCHANGED <<item, call, crm>>

-------------------------------------------------------------------------------
(* Users.  A deal that is won, lost or deleted is no longer open to what   *)
(* comes in; a transition can open it again.                               *)

MoveDeal(d) ==
    /\ lead' = [lead EXCEPT ![d].open = ~@]
    /\ UNCHANGED <<item, intakeJob, call, contact, identity, conversation, stored>>

CreateContact(address) ==
    /\ Len(contact) < MaxContacts
    /\ contact' = Append(contact, [live |-> TRUE, address |-> address])
    /\ UNCHANGED <<item, intakeJob, call, identity, lead, conversation, stored>>

(* update_contact and sync_contact_points: the address is added or removed *)
UpdateContact(c) ==
    /\ contact[c].live
    /\ contact' = [contact EXCEPT ![c].address = ~@]
    /\ UNCHANGED <<item, intakeJob, call, identity, lead, conversation, stored>>

DeleteContact(c) ==
    /\ contact[c].live
    /\ contact' = [contact EXCEPT ![c] = [live |-> FALSE, address |-> FALSE]]
    /\ identity' = IF identity = c THEN 0 ELSE identity
    /\ UNCHANGED <<item, intakeJob, call, lead, conversation, stored>>

-------------------------------------------------------------------------------
(* Who wrote, and where it goes. *)

(* match_contact_point and the primary e-mail of live contacts *)
Holders == {c \in DOMAIN contact : contact[c].live /\ contact[c].address}

ByAddress ==
    CASE Cardinality(Holders) > 1 -> [NoMatch EXCEPT !.ambiguous = TRUE]
      [] Cardinality(Holders) = 1 -> [NoMatch EXCEPT !.contact = CHOOSE c \in Holders : TRUE]
      [] OTHER -> NoMatch

ByIdentity == [NoMatch EXCEPT !.contact = identity, !.known = TRUE]

KnownByIdentity == identity # 0 /\ contact[identity].live

(* _find_open_deal, any of them: which one was active last is left open. *)
OpenDeals(c) == IF c = 0 THEN {} ELSE {d \in DOMAIN lead : lead[d].open /\ lead[d].contact = c}

Resolved(i) ==
    CASE i \in Lead -> ByAddress
      [] KnownByIdentity -> ByIdentity
      [] ByEmail -> ByAddress
      [] OTHER -> NoMatch

-------------------------------------------------------------------------------
(* The job.  A call ends before its lease does: see JobRow. *)

Claim(i) ==
    /\ Claimable(intakeJob[i])
    /\ Cardinality({j \in Item : call[j] # Idle}) < HandlerSlots
    /\ intakeJob' = [intakeJob EXCEPT ![i] = Claimed(@)]
    /\ \/ Goes(i, "started")
       \/ UNCHANGED call        \* committed, but the dispatcher saw an error
    /\ UNCHANGED <<item, crm>>

(* The item is processed or has been given up. *)
ReturnSettled(i) ==
    /\ call[i].stage = "started"
    /\ item[i] # "accepted"
    /\ Goes(i, "ok")
    /\ UNCHANGED <<item, intakeJob, crm>>

(* The message row, unless the conversation has it, and the item's status. *)
Stores(i) ==
    /\ stored' = [stored EXCEPT ![MessageOf[i]] = @ + 1]
    /\ item' = [item EXCEPT ![i] = "processed"]
    /\ Goes(i, "ok")

(* _open_conversation_deal: the conversation's deal, or a new one when it  *)
(* has been closed; ds are the deals so far, d its deal, c its contact.    *)
OpenConversationDeal(t, ds, d, c) ==
    IF d # 0 /\ ds[d].open
    THEN lead' = ds /\ conversation' = [conversation EXCEPT ![t] = [deal |-> d, contact |-> c]]
    ELSE /\ lead' = Append(ds, [open |-> TRUE, contact |-> c])
         /\ conversation' = [conversation EXCEPT ![t] = [deal |-> Len(ds) + 1, contact |-> c]]

Known(i) == conversation[ThreadOf[i]].deal # 0

(* The thread is known and its row locked: nothing comes in between. *)
DropDuplicate(i) ==
    /\ call[i].stage = "started" /\ item[i] = "accepted"
    /\ Known(i) /\ stored[MessageOf[i]] > 0
    /\ item' = [item EXCEPT ![i] = "processed"]
    /\ Goes(i, "ok")
    /\ UNCHANGED <<intakeJob, crm>>

RouteKnownThread(i) ==
    /\ call[i].stage = "started" /\ item[i] = "accepted"
    /\ Known(i) /\ stored[MessageOf[i]] = 0
    /\ LET cv == conversation[ThreadOf[i]]
       IN  OpenConversationDeal(ThreadOf[i], lead, cv.deal, cv.contact)
    /\ Stores(i)
    /\ UNCHANGED <<intakeJob, contact, identity>>

(* No conversation yet: the contact and its open deal are read unlocked. *)
ReadNewThread(i) ==
    /\ call[i].stage = "started" /\ item[i] = "accepted"
    /\ ~Known(i)
    /\ LET r == Resolved(i)
           ds == OpenDeals(r.contact)
       IN  \E d \in IF ds = {} THEN {0} ELSE ds :
               call' = [call EXCEPT ![i] = At("matched", [r EXCEPT !.deal = d])]
    /\ UNCHANGED <<item, intakeJob, crm>>

(* The identity is added for a contact that was not found by it. *)
AddsIdentity(i, m) == i \notin Lead /\ ~m.ambiguous /\ ~m.known

(* Faulty variant of Collides: the unique key of the conversation, which   *)
(* the other transaction has just inserted, is not there.                  *)
CollidesOnIdentity(i) == AddsIdentity(i, call[i].match) /\ identity # 0

(* A row of the same unique key has been committed since the read. *)
Collides(i) == Known(i) \/ (AddsIdentity(i, call[i].match) /\ identity # 0)

(* The contact is the one found, a new one, or none when several fit. *)
Creates(m) == m.contact = 0 /\ ~m.ambiguous

ContactOf(m) == IF Creates(m) THEN Len(contact) + 1 ELSE m.contact

NewContact(m, address) ==
    contact' = IF Creates(m) THEN Append(contact, [live |-> TRUE, address |-> address])
               ELSE contact

RouteNewThread(i) ==
    /\ call[i].stage = "matched" /\ i \notin Lead
    /\ ~Collides(i)
    /\ LET m == call[i].match
       IN  /\ NewContact(m, ByEmail)
           /\ identity' = IF AddsIdentity(i, m) THEN ContactOf(m) ELSE identity
           /\ OpenConversationDeal(ThreadOf[i], lead, m.deal, ContactOf(m))
    /\ Stores(i)
    /\ UNCHANGED intakeJob

(* _route_structured_lead: a webhook or form always names an address. *)
RouteLead(i) ==
    /\ call[i].stage = "matched" /\ i \in Lead
    /\ ~Collides(i)
    /\ NewContact(call[i].match, TRUE)
    /\ OpenConversationDeal(ThreadOf[i], lead, call[i].match.deal, ContactOf(call[i].match))
    /\ Stores(i)
    /\ UNCHANGED <<intakeJob, identity>>

(* A unique key, the route's stage or assignee, or the database refuses:   *)
(* the transaction is rolled back.                                         *)
Refuse(i) ==
    /\ call[i].stage \in {"started", "matched"}
    /\ Goes(i, "failing")
    /\ UNCHANGED <<item, intakeJob, crm>>

(* _mark_inbound_failed_if_terminal and _mark_form_failed_if_terminal *)
MarkFailedIfTerminal(i) ==
    /\ call[i].stage = "failing"
    /\ item' = IF intakeJob[i].attempts >= MaxAttempts /\ item[i] # "processed"
               THEN [item EXCEPT ![i] = "failed"] ELSE item
    /\ Goes(i, "error")
    /\ UNCHANGED <<intakeJob, crm>>

(* wait_for cancels the call, past its `except Exception'. *)
Timeout(i) ==
    /\ call[i].stage \in {"started", "matched", "failing"}
    /\ Goes(i, "error")
    /\ UNCHANGED <<item, intakeJob, crm>>

Acknowledge(i) ==
    /\ call[i].stage \in {"ok", "error"}
    /\ intakeJob' = [intakeJob EXCEPT
                        ![i] = IF call[i].stage = "ok" THEN Completed(@) ELSE Failed(@)]
    /\ Goes(i, "idle")
    /\ UNCHANGED <<item, crm>>

(* The lease of a claim whose call is gone ends. *)
Recover(i) ==
    /\ intakeJob[i].status = "running" /\ call[i] = Idle
    /\ intakeJob' = [intakeJob EXCEPT ![i] = RetriedOrFailed(@)]
    /\ UNCHANGED <<item, call, crm>>

Crash ==
    /\ \E i \in Item : call[i] # Idle
    /\ call' = [i \in Item |-> Idle]
    /\ UNCHANGED <<item, intakeJob, crm>>

-------------------------------------------------------------------------------
Handle(i) ==
    \/ ReturnSettled(i)
    \/ DropDuplicate(i)
    \/ RouteKnownThread(i)
    \/ ReadNewThread(i)
    \/ RouteNewThread(i)
    \/ RouteLead(i)
    \/ Refuse(i)
    \/ MarkFailedIfTerminal(i)
    \/ Timeout(i)

Next ==
    \/ \E i \in Item :
          \/ ProviderWebhook(i) \/ GenericWebhook(i) \/ SubmitForm(i)
          \/ Enqueue(i) \/ RetryJob(i)
          \/ Claim(i) \/ Handle(i) \/ Acknowledge(i) \/ Recover(i)
    \/ Crash
    \/ \E d \in DOMAIN lead : MoveDeal(d)
    \/ \E c \in DOMAIN contact : UpdateContact(c) \/ DeleteContact(c)
    \/ \E address \in BOOLEAN : CreateContact(address)

(* What the supervisor does by itself; nobody need succeed, and a request  *)
(* or an administrator need not come.                                      *)
Fairness ==
    \A i \in Item :
        /\ WF_vars(Enqueue(i)) /\ SF_vars(Claim(i))
        /\ WF_vars(Handle(i)) /\ WF_vars(Acknowledge(i)) /\ WF_vars(Recover(i))

Spec == Init /\ [][Next]_vars /\ Fairness

-------------------------------------------------------------------------------
(* However often a delivery comes, is claimed, fails, crashes or is        *)
(* retried, a provider message has one row; an item counts as processed    *)
(* only with its message stored, and a message is stored only by one.      *)
StoredOnce ==
    \A m \in Message :
        LET processed == {i \in Item : MessageOf[i] = m /\ item[i] = "processed"}
        IN  stored[m] = IF processed = {} THEN 0 ELSE 1

Settled(i) == item[i] # "accepted" \/ intakeJob[i].status = "failed"

(* A stored item is routed, or given up, or left to the administrator: its *)
(* job is in the list of failed jobs.                                      *)
IntakeSettles == \A i \in Item : []<>Settled(i)
===============================================================================
