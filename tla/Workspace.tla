-------------------------------- MODULE Workspace --------------------------------
(***************************************************************************)
(* The parts of a workspace, each alone: a behaviour is one of one part,   *)
(* chosen in its first state, and the other parts' variables stay as they  *)
(* are.  A row that two parts have is written in both of them: an import's *)
(* pages are in Pipelines for the stages they place, and in AmoRecords for *)
(* the mappings they keep.                                                 *)
(*                                                                         *)
(* A module's constant or variable keeps its name here, except where two   *)
(* modules have one of the same name that means something else.            *)
(***************************************************************************)
EXTENDS Naturals, FiniteSets

CONSTANT Parts      \* the parts that a run explores
CONSTANTS Item, Lead, MessageOf, ThreadOf, ByEmail, MaxContacts, Together, HandlerSlots,
          MaxAttempts
CONSTANTS Mail, MaxValidity, PageSize, Poller
CONSTANTS Deal, Renewed, MaxEvent, MaxReplay, BatchSize
CONSTANTS User, Request, MaxVersion
CONSTANTS Pipeline, AmoPipeline, Field, MaxStage, MaxDealVersion
CONSTANTS Endpoint, Cap, MaxRow
CONSTANTS Account, State, Process, MaxToken, MaxConnectionVersion
CONSTANTS MaxTime, ReminderAttempts
CONSTANTS Group, File, Upload, None
CONSTANTS Types, Page

ASSUME PartsAssumption ==
    Parts \subseteq {"intake", "mail", "realtime", "members", "pipelines", "fields", "push",
                    "connection", "monitors", "renewals", "records"}
ASSUME IntakeAssumption ==
    /\ \A i, j \in Item : MessageOf[i] = MessageOf[j] => ThreadOf[i] = ThreadOf[j]
    /\ IsFiniteSet(Item) /\ ByEmail \in BOOLEAN /\ MaxContacts \in Nat /\ MaxAttempts \in Nat \ {0}
ASSUME MailAssumption == MaxValidity \in Nat \ {0} /\ PageSize \in Nat
ASSUME RealtimeAssumption ==
    IsFiniteSet(Deal) /\ MaxEvent \in Nat /\ MaxReplay \in Nat /\ BatchSize \in Nat
ASSUME MembersAssumption == IsFiniteSet(User) /\ MaxVersion \in Nat \ {0}
ASSUME PipelinesAssumption ==
    /\ ~(Pipeline \subseteq AmoPipeline) /\ "none" \notin Pipeline
    /\ MaxStage \in Nat /\ MaxStage >= 2
ASSUME PushAssumption == Cap \in Nat /\ MaxRow \in Nat
ASSUME ConnectionAssumption == MaxToken \in Nat /\ MaxConnectionVersion \in Nat
ASSUME MonitorsAssumption == MaxTime \in Nat \ {0} /\ ReminderAttempts \in Nat \ {0}
ASSUME RenewalsAssumption ==
    /\ Upload \subseteq Nat \ {0} /\ None \notin Upload /\ None \notin Upload \X Group
    /\ \A file \in File : IsFiniteSet(file) /\ \A l \in file : l.group \in Group /\ l.addresses # {}

VARIABLES
    part            \* the part this behaviour is of
VARIABLES item, intakeJob, call, contact, identity, lead, conversation, stored
VARIABLES mailbox, imapState, poll, kept, filed
VARIABLES assigned, employee, lastId, writing, log, late, session, stream, browser
VARIABLES member, invitation, request
VARIABLES pipeline, archived, stage, lastStage, deal, active, required, renumbering, edit
VARIABLES subscription, lastRow, registering, queued, tested, push
VARIABLES connection, oauth, refresh, amo, lost, crossed
VARIABLES now, subject, job, monitor, marked, emitted, passed
VARIABLES company, customer, renewal, group, task, calls, upload, raced
VARIABLES types, row, parent, points, record, page, outrun

Intakes == INSTANCE Intake

Mails == INSTANCE MailPolling

Streams == INSTANCE Realtime WITH overtaken <- late

Team == INSTANCE Members

Boards == INSTANCE Pipelines WITH request <- edit, MaxVersion <- MaxDealVersion

Devices == INSTANCE WebPush

Accounts == INSTANCE AmoConnection WITH MaxVersion <- MaxConnectionVersion

Reminders == INSTANCE Monitors WITH MaxAttempts <- ReminderAttempts, call <- monitor

Uploads == INSTANCE Renewals WITH
    contact <- customer, deal <- renewal, mapped <- group, overtaken <- raced

Imports == INSTANCE AmoRecords WITH mapped <- record, overtaken <- outrun

intakeVars == <<item, intakeJob, call, contact, identity, lead, conversation, stored>>
mailVars == <<mailbox, imapState, poll, kept, filed>>
realtimeVars == <<assigned, employee, lastId, writing, log, late, session, stream, browser>>
membersVars == <<member, invitation, request>>
pipelinesVars == <<pipeline, archived, stage, lastStage, deal, active, required, renumbering, edit>>
pushVars == <<subscription, lastRow, registering, queued, tested, push>>
connectionVars == <<connection, oauth, refresh, amo, lost, crossed>>
monitorsVars == <<now, subject, job, monitor, marked, emitted, passed>>
renewalsVars == <<company, customer, renewal, group, task, calls, upload, raced>>
recordsVars == <<types, row, parent, points, record, page, outrun>>

vars == <<part, intakeVars, mailVars, realtimeVars, membersVars, pipelinesVars, pushVars,
          connectionVars, monitorsVars, renewalsVars, recordsVars>>

(* Parts that can begin in several states do so only when they are chosen. *)
(* Pipelines and deals come and go where no field is defined, and stay     *)
(* where some are.                                                         *)
Init ==
    /\ part \in Parts
    /\ Intakes!Init
    /\ Mails!Init
    /\ Streams!Init
    /\ Team!Init
    /\ Boards!Init /\ active = (IF part = "fields" THEN Field ELSE {})
    /\ Devices!Init
    /\ Accounts!Init
    /\ Reminders!Init
    /\ Uploads!Init
    /\ Imports!Init
    /\ part # "monitors" => subject.kind = "overdue"
    /\ part # "records" => types = CHOOSE ts \in Types : TRUE

Next ==
    /\ UNCHANGED part
    /\ IF part = "intake" THEN Intakes!Next ELSE UNCHANGED intakeVars
    /\ IF part = "mail" THEN Mails!Next ELSE UNCHANGED mailVars
    /\ IF part = "realtime" THEN Streams!Next ELSE UNCHANGED realtimeVars
    /\ IF part = "members" THEN Team!Next ELSE UNCHANGED membersVars
    /\ IF part \in {"pipelines", "fields"} THEN Boards!Next ELSE UNCHANGED pipelinesVars
    /\ part = "fields" => UNCHANGED <<pipeline, archived, deal>> /\ lastStage' < MaxStage     \* bound
    /\ IF part = "push" THEN Devices!Next ELSE UNCHANGED pushVars
    /\ IF part = "connection" THEN Accounts!Next ELSE UNCHANGED connectionVars
    /\ IF part = "monitors" THEN Reminders!Next ELSE UNCHANGED monitorsVars
    /\ IF part = "renewals" THEN Uploads!Next ELSE UNCHANGED renewalsVars
    /\ IF part = "records" THEN Imports!Next ELSE UNCHANGED recordsVars

Spec == Init /\ [][Next]_vars

-------------------------------------------------------------------------------
(* The type invariants of the modules, which bound what their actions leave. *)
TypeOK ==
    /\ part = "intake" => Intakes!TypeOK
    /\ part = "mail" => Mails!TypeOK
    /\ part = "realtime" => Streams!TypeOK
    /\ part = "members" => Team!TypeOK
    /\ part \in {"pipelines", "fields"} => Boards!TypeOK
    /\ part = "push" => Devices!TypeOK
    /\ part = "connection" => Accounts!TypeOK
    /\ part = "monitors" => Reminders!TypeOK
    /\ part = "renewals" => Uploads!TypeOK
    /\ part = "records" => Imports!TypeOK

(* A message of a provider or a lead has one row, of one item: StoredOnce   *)
(* of Intake, the transactions of app.integrations.inbound.                 *)
StoredOnce == part = "intake" => Intakes!StoredOnce

(* The cursor of a mailbox is behind what was persisted: MailPolling, the   *)
(* poll_imap of app.integrations.runtime.                                   *)
NoMailPassedOver == part = "mail" => Mails!NoMailPassedOver

(* A browser that has all events shows what its user may see: Realtime, the *)
(* stream of app.api.events.                                                *)
NothingStaleIsShown == part = "realtime" => Streams!NothingStaleIsShown

(* A role changes by someone entitled to change it: Members, the users and  *)
(* invitations of app.api.auth.                                             *)
RolesAreGranted == [][part = "members" => Team!RolesGranted]_vars

(* Positions, open stages and required fields: Pipelines, the               *)
(* administration in app.api.crm and the pages of an amoCRM import.         *)
PipelinesHold == [][part = "pipelines" \/ part = "fields" => Boards!PipelinesKept]_vars

(* A device has an owner's row, and results are written to it: WebPush, the *)
(* subscriptions of app.integrations.web_push.                              *)
DevicesHold == [][part = "push" => Devices!DevicesKept]_vars

(* Tokens are those of the connected account: AmoConnection, the OAuth of   *)
(* app.integrations.amocrm_api and the token manager.                       *)
CredentialsFit == part = "connection" => Accounts!CredentialsFit

(* An occurrence of a task or a deal is told once: Monitors, the schedules  *)
(* of app.integrations.runtime.                                             *)
OccurrencesHold == part = "monitors" => Reminders!OccurrencesHold

(* RenewalsKept of Renewals, the import of licences, and RecordsHold of     *)
(* AmoRecords, the rows a page of amoCRM writes.                            *)
ImportsHold ==
    [][/\ part = "renewals" => Uploads!RenewalsKept
       /\ part = "records" => Imports!RecordsKept]_vars
===============================================================================
