# Pulse CRM: verification project

Pulse CRM is a FastAPI application (`backend/app`), a PostgreSQL database and a
React client (`frontend`). One web process, or two while a deployment overlaps,
answers requests and runs a supervisor that works a job queue kept in the
database. Nearly everything that is hard to get right, and hard to test, lies
between those two: rows that requests, jobs, retries and crashes change in an
order nobody wrote down.

This directory holds TLA+ modules for that part of the program, TLC runs on
small instances, and TLAPS proofs for every value of the constants. Line numbers
below and in `PROJECT.json` are those of the modelled commit; `PROJECT.json`
maps every definition that models code to its lines.

To run: `tlc -config JobQueue.cfg MCJobQueue`, `tlapm JobQueueProofs.tla`.
The modules fall in two groups. Five have runs (section 3) and proofs of their own;
ten smaller ones stand side by side in `Workspace`, for one run (`MCWorkspace`) and
for their proofs (`InputProofs`, `WorkspaceProofs`). Where a document promises more than
the code keeps, a small `.cfg` of the module shows it (section 6).

## 1. Inventory

### The job queue and its supervisor (`services/jobs.py`)

- State: rows of `background_jobs`: status, attempts and max_attempts, run_at,
  lease_owner, lease_until, dedupe_key. In memory: the supervisor's set of handler
  tasks, its stop event.
- Operations: `enqueue_job` (INSERT ... ON CONFLICT DO NOTHING on the dedupe key),
  `claim_jobs` (UPDATE of due rows, SKIP LOCKED), `complete_job`, `fail_job` with
  backoff, `recover_expired_leases`; the dispatch, recovery and scheduler loops,
  `_run_job` with its timeout, `stop`; `POST /admin/jobs/{id}/retry`, the cleanup.
- Interacts with every module of `integrations` through dedupe keys and handlers.
- Hard: two supervisors during a deployment; a claim that commits and is not
  seen; a process that dies between commit and acknowledgement; leases stamped
  before a wait for a connection; late acknowledgements.
- Correct when: one holder per claim; no attempt beyond max_attempts; nothing is
  taken from a handler that is within its time; every job settles.

### Outbound messages (`integrations/messaging.py`, `runtime.py`, `api.py`)

- State: `messages.status`, the `outbox_events` row, the jobs
  `outbox:{id}:dispatch` and `message:{id}:send`.
- Operations: `queue_outbound_message`, `dispatch_outbox`, `_schedule_outbox`,
  `_schedule_messages`, `send_message` (`_message_context`, provider call,
  `_mark_message_sent`, `_mark_message_failed_if_terminal`), `retry_message`.
- Hard: the provider is called between two transactions, so its answer can be
  lost; two producers of the same job; a retry while an old call is alive; the
  cancellation that skips the error path.
- Correct when: a duplicate has a cause, "sent" is final, a queued message ends.

### Notification rules and deliveries (`notifications.py`, `runtime.py`, `consents_api.py`, `operations_api.py`)

- State: `notification_deliveries` (status, scheduled_at, audience, channel),
  `notifications`, contact consents, memberships and the target's assignee.
- Operations: `expand_notification` and `queue_notification`, `deliver_notification`
  on two paths (client: three steps without locks; employee: one transaction under
  the locks of delivery, membership and target), `_finalize_delivery` with the Web
  Push copy, `retry_notification_delivery`, consent grant and revoke.
- Hard: revocation or reassignment between queueing and sending; last attempts
  that end by timeout; a retry under a call that is alive.
- Correct when: shown once, sent to who may see it, never undone, never forgotten.

### amoCRM import (`amo.py`, `amocrm_live.py`, `admin_api.py`)

- State: `import_jobs` (status, cursor, version, report key), a page job per
  version, a report job.
- Operations: start, pause, resume; `import_page` (read, fetch by HTTP without a
  lock, apply under one, enqueue the next), its error path; `import_report`.
- Hard: pages fetched for a version that is gone; plain INSERTs of dedupe keys; a
  cancelled last attempt.
- Correct when: pages are applied once and in order and a running import has work.

### Deals, tasks and purchase schedules (`api/crm.py`, `purchases.py`, `amocrm_live.py`, `runtime.py`)

- State: `deals` (next_purchase_at, assignee, deleted_at), `purchase_schedules`,
  one per deal and date, the task of a schedule, the `purchase.due_soon` event and
  its deliveries.
- Operations: `create_deal`, `update_deal`, `delete_deal`, `_sync_purchase_schedule`,
  `update_task`, `delete_task`, `PulseAmoWriter._deal`, `_schedule_purchases`,
  `schedule_purchase` with `ensure_purchase_task`.
- Hard: a date that returns; a delete that must find the reminder wherever it is; a
  job that reads before it locks; three places that move an assignee.
- Correct when: only the present date's schedule is active, with one task, and the
  assignees of deal and schedule agree.

### Webhook and form intake (`webhooks.py`, `forms.py`, `public_api.py`, `inbound.py`, `identity.py`)

- State: inbound events and submissions with their idempotency keys, the job of
  each; contacts with addresses, external identities, conversations, the deals that
  routing opens, messages with their provider ids.
- Operations: `accept_inbound_event`, `accept_form_submission`, `_schedule_inbound`,
  `process_inbound_event` with `_route_channel_message`, `_route_structured_lead` and
  the contact resolution; the mark on a terminal failure; job retry.
- Hard: two deliveries of a new thread have no row to lock; a failed item's job is
  retried; users delete and edit contacts between a read and its write.
- Correct when: a provider message has one row, a stored item is settled.

### IMAP polling (`runtime.py`, `transports.py`)

- State: `last_uid` and `uidvalidity` of a channel; a mail's envelope and attachments.
- Operations: `poll_imap` (read the cursor, fetch, persist each mail, write the cursor).
- Hard: a poll per minute, so that polls overlap; a mailbox renumbered between two
  commands; a mail in three transactions.
- Correct when: the cursor never passes a mail that was not stored as a whole.

### Domain events and the realtime stream (`services/events.py`, `api/events.py`)

- State: `realtime_events` with ids from a sequence, a stream's cursor and role, the
  browser's caches with their access revision.
- Operations: `record_domain_event`, `record_access_change`, `_initial_event_cursor`,
  the loop of `realtime_events`, `GET /auth/me`.
- Hard: an id is drawn before the commit, so commits and ids differ in order.
- Correct when: a browser that is up to date shows nothing its user may not see.

### Users, sessions, invitations (`api/auth.py`, `security.py`)

- State: memberships with role and version, invitations, sessions.
- Operations: `bootstrap`, `invite_user`, `accept_invitation`, `update_user`, `logout`.
- Hard: authorization, the decision and the write are three reads of changing rows.
- Correct when: a role changes by who may change it, and an owner remains.

### Pipelines and stages (`api/crm.py`)

- State: pipelines; stages with position and kind (open, won, lost); required fields;
  deals on a stage, with a version.
- Operations: creating and deleting pipelines and stages, the renumbering in
  `create_stage`, the pages of an amoCRM import that write the same rows, `transition_deal_stage`, required fields, deletion of custom fields.
- Hard: rows of a renumbering are updated one by one under a unique key; counts
  without a lock on what is counted.
- Correct when: positions are distinct, an open stage stays where there is one, a deal
  stands on a stage of its pipeline.

### Web Push subscriptions (`web_push.py`, `api/push.py`)

- State: subscription rows of a user's browsers, active or disabled.
- Operations: `register_subscription` with cap and takeover, removal, the sender's read,
  its HTTP calls without a transaction, its results.
- Hard: a row changes hands while a push to its former owner is under way.
- Correct when: the cap holds, a browser has one row, results meet their own row.

### amoCRM connection and tokens (`amocrm_api.py`, `amocrm_live.py`)

- State: the connection row with account, tokens and version; OAuth states.
- Operations: `start_oauth`, `oauth_callback`, `disconnect`, `AmoTokenManager.snapshot`.
- Hard: every refresh invalidates the token before it, and runs over HTTP while the
  account is reconnected, in two processes.
- Correct when: the tokens are the account's, and the latest.

### Task and deal monitors, cleanup (`runtime.py`)

- State: `scheduled_event_markers`, a job per occurrence.
- Operations: `_schedule_task_events`, `_schedule_inactive_deals`, `_emit_task_event`,
  `emit_deal_inactive`, `cleanup`.
- Hard: a job that ended without an event keeps its key, and the date comes back.
- Correct when: an occurrence gives one event.

### Subscription import (`subscription_import.py`, `subscription_import_api.py`)

- State: companies, contacts, deals and call tasks of expiring licences, and the
  `external_entity_maps` by which the next table finds them.
- Operations: `import_subscriptions` in one transaction per upload; the users' work.
- Hard: two uploads read before either has written; users delete and close rows.
- Correct when: a group of licences has one live deal with one call task.

### Rows written by an amoCRM page (`amo.py`, `amocrm_live.py`, deletions in `api/crm.py`)

- State: the mapping of an amoCRM entity, the row it names, the row's references.
- Operations: `apply_import_page`, the `PulseAmoWriter` methods, `delete_stage`,
  `delete_pipeline`, `delete_contact` and the like.
- Hard: a row deleted between a page's read and its write; a mapping left behind.
- Correct when: a mapped pipeline or stage is there, nothing deleted comes back.

### The rest

Sales reports, the page budget of `data_access`, attachments and S3, channel
adapters, administration endpoints, migrations, the application shell and the
browser client: listed in `PROJECT.json` with the reason they are not modelled.

## 2. Modules

```
JobContract  <--implements--  JobQueue  <--proves about--  JobQueueProofs
                                  |
                     (its lease facts, abstracted)
                                  v
                               JobRow  <--proves about--  JobRowProofs
                                  |
                     (extended by the handlers)
                                  v
   OutboundMessages   Notifications   AmoImport   Purchases   Intake   Monitors
      + Proofs           + Proofs     + Proofs    + Proofs      |          |
                                          |                     |          |
                         (implements) ImportContract            v          v
                                                             Workspace  <--- MCWorkspace
                                                              ^     ^
   MailPolling, Realtime, Members, Pipelines, WebPush,        |     |
   AmoConnection, Renewals, AmoRecords -----------------------+     +--- InputProofs
                                                                    +--- WorkspaceProofs
```

The five with runs of their own have an MC module that gives them a small instance.
**MCHandlers** puts Intake beside Notifications, for the liveness of both: a behaviour is
of one of the two and the other never begins, as in Workspace below.

**JobContract** is what the queue promises its callers, with no worker, lease or
clock. A row is admitted, claimed at most `MaxAttempts` times, succeeds only if a
handler call returned, and a terminal row moves only by a retry or the cleanup.

**JobQueue** is `services/jobs.py`. `row[j]` is the row, `task[w][s]` the asyncio task
in slot `s` of supervisor `w`, `proc[w]` the life of that supervisor. A dedupe key is
a member of `Job`. Time is relative (`lease` and `delay` count down, `age` counts up;
`Tick` moves all). `Claim` is one row of `claim_jobs` and the task for it;
`ClaimUnseen` the claim whose answer is lost; `Handle` the end of a handler, by
itself or by `wait_for`; `Complete`, `Fail`, `AckLost` the acknowledgement;
`Recover` the recovery pass; `Crash`, `Stop`, `Drained` the ends of a process.
`claim` in a task, and `returned`, are history variables. Nothing reads them but
properties.

**JobRow** is the same row for modules about handlers: pure operators on one row,
without clock and worker ids. Two facts of JobQueue are used there. A lease is longer
than the wait for a connection plus the handler's timeout (45 s, 10 s, 30 s), so a
row is recovered only when the handler of its claim is over, although its
acknowledgement may still be on the way: this is the theorem `HandlersAreNotRecovered`. And
one supervisor at a time works the rows, so that an acknowledgement matches every
running row; overlapping supervisors are JobQueue's subject.

**OutboundMessages** has `message[m]`, its outbox `event[m]`, its two jobs `job[m][k]`
and the handler calls `run[s]`, whose `stage` is a point between two awaits.
`ReadContext`, `CallProvider`, `MarkSent`, `MarkFailed` are the parts of `send_message`.
`CallProvider` may be accepted with the answer lost. `overtaken` is history: the send
job was taken from a call still alive, by `retry_message`, which resets it in any
status, or by a recovery during a slow acknowledgement.

**Notifications** has a delivery of either audience and channel. A client's goes
through `ReadPending`, `SendUnlocked`, `MarkSent`; an employee's through `Authorize`,
which takes the locks, and `SendLocked`, which commits. The stage `locked` holds them,
and actions that need one wait. Templates and rule matching are reduced to whether a
delivery is made.

**ImportContract** and **AmoImport**: pages are applied once, in order, by a running
import. `job[v]` is the page job whose key carries version `v`, `job[Report]` the
report's. `ReadImport`, then `ApplyPage`, `DropPage` or `SettleError` after the fetch.
`CleanupJob` is the daily cleanup, which deletes jobs that ended 14 days ago and does not
look at the import; `swept` is history, the keys of the failed jobs it deleted. A
call is taken to end before its lease does; late acknowledgements are in JobQueue and
OutboundMessages.

**Purchases**: the deal, a schedule and a task per date, the reminder on its way, the
job that makes task and event. A request is one transaction and one action.
`SyncPurchaseSchedule` is shared by create and update as in the code. The job is two
steps, because it reads the schedule without a lock first, and the locking SELECT of
the same session then returns the object it already has, not refreshed.
Left out: contact links; stage transitions are in Pipelines, the reminders of a task in
Monitors.

**Intake** has `item[i]`, its job and its handler call. The transaction of
`process_inbound_event` is one action where its thread is known and locked, and two
(`ReadNewThread`, `RouteNewThread`) where it is new: what it has read is in
`call[i].match`, and `RouteNewThread` fails where a unique key would. One person is
behind all items, so that they can collide; `Together` bounds which items come in one
behaviour.

**MailPolling**: `mailbox` is the server, `imapState` the channel's cursor, `poll[p]` a
handler with the validity and UIDs it knows. `Renumber` may come between any two of its
commands. `PersistEmailEnvelope`, `StoreEmailAttachments` and `UpdateImapState` are the
transactions of a mail and of a poll.

**Realtime**: `writing[s]` is a transaction that has drawn its id and not committed;
`log` holds what is committed. `StreamTurn` is one turn of the SSE loop, with the batch it
reads and the filter by visibility; `Me` is the answer that carries the access
revision. `ImportSubscriptions` is a table of licences that reassigns a deal (`Renewed`)
and writes no access event. `overtaken` is history: an access event committed behind a
later one, of access (`byAccess`) or of any kind (`byEvent`), or was never written.

**Members**: `request[r]` is a request with what it has read, authorized, then decided.
`UpdateUser` writes under the version, and does nothing if it has moved on.

**Pipelines**: requests that count before they write are two steps (`BeginDeletePipeline`,
`BeginCreateStage`), and `ShiftStage` is one row of the renumbering, in any order the
database may choose. Deals are created, moved and edited beside them, and pages of an
amoCRM import write the same tables: `ImportPipeline` makes a pipeline without stages, or
archives or revives one, `ImportStage` adds a stage at a free position, `ImportDeal` moves
a deal without a row of history. `AmoPipeline` are the pipelines that come that way, `Sort`
the positions amoCRM asks for, `Kind` the open stages and the closed ones, won and lost.

**WebPush**: rows by id, so that a row that was deleted and one that has changed hands
differ. `registering[u]` holds the lock on the user; `push[u]` is a sender between its
read and `RecordResults`.

**AmoConnection**: tokens of an account are numbered, the last number is good. A refresh is
`Load`, `RefreshTokens` at amoCRM, `StoreTokens` under the row lock, which compares the
status of the row and not its version;
the callback is consume, exchange, load and write. `crossed` is history: a write has met
a row changed since it was read.

**Monitors**: one task or deal; `job[o]` is keyed by the occurrence, as in the code.
`EmitTaskEvent` and `EmitDealInactive` compare the subject with the key before they emit.

**Renewals**: an upload reads company, mappings, deals and contacts in steps and is seen
at `Commit`, which fails where a unique key would be hit. Rows are named after the upload that
makes them. **AmoRecords**: the same for one entity of each type of an amoCRM import;
`ResolveReference`, `ApplyEntity` and the deletions of `api/crm.py`.

**Workspace** instantiates these ten. A behaviour is one of one `part`, chosen in the
first state; the other variables keep their initial values, so that the state spaces
add up and do not multiply. Each part has every writer of the columns its properties
speak of, of whatever subsystem: so the pages of an import are in Pipelines with the
stages they place, and in AmoRecords with the mappings they keep, and a deal is in several
parts with another of its columns in each. What is lost is a property across two parts;
none is stated. It declares the constants of all parts with their assumptions and states the properties;
**MCWorkspace** gives the constants the values of the run.

Faulty variants of operators ("Faulty variant of ...") stand before the operator
they vary. They are what the properties were tried against: with the variant in place
of the operator TLC reports the property violated. No specification uses them.

## 3. Runs

| run | bounds | result |
|---|---|---|
| `jobqueue` | 1 job, 2 supervisors, 2 slots, 2 attempts, lease 3, timeout 2, stalls 1 | holds |
| `outbound` | 1 message, 2 slots, 2 attempts | holds |
| `handlers` | 1 delivery of any kind, 2 slots, 2 attempts; or 3 items, two at a time, 1 attempt | holds |
| `amo_import` | 2 pages, 6 versions, 2 calls at a time, 2 attempts | holds |
| `purchases` | 2 dates, an owner and an employee, 1 attempt and retries | holds |
| `workspace` | by part, see below | holds |
| `notifications_consent` | 1 delivery, 2 slots, 2 attempts | `NoSendAfterRevoke` is violated |
| `purchases_realigned` | as `purchases` | `DateGetsSchedule` is violated |
| `purchases_deletion` | as `purchases` | `NoReminderAfterDeletion` is violated |
| `realtime_revision` | 2 deals, 2 events | `RevisionTellsRevoked` is violated |
| `members_owner` | 2 users, 2 requests | `AnOwnerStays` is violated |
| `renewals_twice` | 1 table, 2 uploads | `UploadedOnce` is violated |

What the passing runs show:

- `jobqueue`: `RecoveredOnlyIfOverstayed`, the recovery pass takes a claim only from a
  task that used up its lease. `OneHolderPerRow`, overlapping supervisors never both
  hold a claim. `ImplementsContract`, every step of the rows is one of JobContract.
  `EventuallySettled`, every job settles while some supervisor stays up.
- `outbound`: `DuplicateOnlyAfterLostAnswer` and `OneSenderAtATime`, a client gets a
  message twice only if an answer was lost or the job was taken from a live call.
  `SuccessMeansSettled`, a job does not succeed while its message is queued (its key
  would block it). `SentIsFinal`. `MessageResolved`, liveness.
- `handlers`: of Notifications `ShownOnce`, `SendsOnlyWhatMayBeSeen`,
  `SuccessMeansSettled`, `DeliveredIsFinal`, `DeliveryResolved` (liveness); of Intake
  `IntakeSettles` (liveness): a stored item is routed, given up, or its job is in the list
  of failed jobs.
- `amo_import`: `ImplementsContract`. `KeysAreFresh`, the next job's plain INSERT cannot
  collide. `RunningHasWork`, no path leaves a running import without a job, unless its job
  failed and showed so (for 14 days, then the cleanup removes it and the import still runs).
  `ImportEnds` and `ReportFollows`, liveness.
- `purchases`: `OnlyTheDealsDate`, `OneTaskPerDate`, `AssigneeInSync`, `EmployeeKeepsOff`
  and `ScheduleGetsTask` (liveness).
- `workspace`, a property for each part beside the types:
  - `StoredOnce` (Intake): however often a delivery comes or is retried, a provider
    message has one row, and an item is processed exactly if its message is stored.
  - `NoMailPassedOver` (MailPolling): through overlapping polls and renumberings.
  - `NothingStaleIsShown` (Realtime): unless an access event committed out of the order
    of ids, or a table of licences reassigned the deal without one, a browser that is
    current by its access revision, or by a stream without a gap, shows only what its user
    may see.
  - `RolesAreGranted` (Members): a role changes only by an update that was entitled to
    change the role the member has at that moment, never by the member; the last owner
    goes only by an update that had counted another one (`members_owner` shows it go).
  - `PipelinesHold` (Pipelines): distinct positions at every statement of a
    renumbering, an open stage in every pipeline made here and one kept in any pipeline
    that has some (a pipeline of an import has none until a page brings it), deals on
    stages of their pipeline, no deleted field required. Of the last active pipeline it
    says nothing (section 6).
  - `DevicesHold` (WebPush): the cap, one row per browser, and results of a push switch
    only rows that belong to its user then.
  - `CredentialsFit` (AmoConnection): a connected row has tokens of its account, the last
    ones, unless newer ones are under way or were lost, or two writers crossed.
  - `OccurrencesHold` (Monitors): one event per occurrence, and none is forgotten unless
    the subject had left the occurrence when its job ended.
  - `ImportsHold` (Renewals, AmoRecords): one live deal, one call task and one company of
    a group over any sequence of uploads and deletions, and the task there or made when a
    deal is; mapped pipelines and stages exist, nothing deleted comes back. The history
    `overtaken` excepts what was written between a transaction's read and its write
    (`renewals_twice` shows what then happens).

Why the bounds are enough. Two attempts give a first one that may be repeated and a
last one, the only distinction the code makes. Two slots or supervisors give every
pairwise race. Rows of different messages, deliveries and deals share nothing but
slots. Two pages make one follow another and one be the last; six versions allow a
pause, a resume and the failures in between, and `ResumeImport` leaves enough versions
for what a running import can still do, so that the bound never stops one. Two dates
allow a change and a change back. The time unit is 15 s: a lease of three against a
timeout of two and at most one unit of waiting is the code's 45, 30 and 10 s, the last
rounded up. The wait of an acknowledgement has no bound.
Counters in history variables stop at 2, where the property is already decided.

The parts of `Workspace` have two actors each, the least that can race. Intake: two updates of one message, two messages of one new conversation, or
a message and a lead of one person (`MCTogether`; in `handlers`, for its liveness, the last
two), one attempt (the last one, after which
only an administrator's retry follows), one contact by hand. MailPolling: two mails, two pollers,
one renumbering, pages of one mail, so that a poll ends before the mailbox does.
Realtime: one deal, three events (two that overtake and one behind them), batch and
replay of one. Members: two users, two requests, two changes of a membership each.
Pipelines: a pipeline made here and one of amoCRM's, four stages, one
deal with a change; with a field, one pipeline and three stages. `MCAlike` makes what
is called `r1` and `r2` (requests, pollers, processes, pages) interchangeable: no part
prefers one, and the run checks no liveness. WebPush: two users, two browsers, a cap of one, two rows. AmoConnection: two
accounts, two authorizations, two processes, four tokens. Monitors: three points in
time, two attempts. Renewals: one INN with one end date whose tables name one or two addresses;
two uploads, and users who work until the second has ended. AmoRecords: one entity of each
type, in the groups that refer to one another (`EntityTypes`), two pages, two rows.

`CHECK_DEADLOCK FALSE` is set where the system really may stop: a queue with all
supervisors down for good, a finished import.

## 4. Fairness

Weak fairness is assumed for what a timer or a loop does while the process lives:
`Tick`, the recovery pass, the scheduler's tick, the end of a handler (`wait_for` ends
it if it does not end itself) and of its acknowledgement. Of the last, only the wait for
a connection is bounded (`pool_timeout` in `db.py`); that a statement is answered or its
connection lost some day, however late, is assumed of the database. Strong fairness is assumed for claiming a row: a claim is enabled again and
again while slots come and go, and `claim_jobs` takes rows in the order of `run_at`, so
a due row is not passed over for ever. For `ScheduleDelivery` it is strong because
its query skips locked rows. No request by a user or administrator is fair, nor is
success of a provider, a database or a fetch. `EventuallySettled` assumes that some
supervisor stays up; in the other modules `Crash` includes the restart and
may happen for ever, but a call that is never completed because of crashes
spends an attempt each time.
`AmoImport` asks fairness of the job the import currently waits for (`Current`),
`Purchases` of the job of the deal's present date: jobs of earlier versions or dates
owe nothing to the properties. `Intake` asks weak fairness of `Enqueue`, `Handle`,
`Acknowledge` and `Recover` and strong fairness of `Claim`, for the same loops. It is
assumed in `handlers`; `Workspace` has safety properties only and no fairness.

## 5. Proofs

`JobQueueProofs` (any number of jobs, supervisors and slots, any timing constants that
satisfy `QueueAssumption`):

- The inductive invariant is `IInv`: types; `TaskInv`, what a task knows about its row;
  `Rivals`, two tasks never hold the same row; and a running row has begun an attempt.
  `OneHolderPerRow` and `RecoveredOnlyIfOverstayed` are not inductive alone. That a
  recovered task has used its lease needs that the lease left plus the age of a
  held task never falls below `LeaseTime - ClaimStall`, and that needs the holder to
  be the only one.
- `TypeCorrect`, `ClaimsAreExclusive`, `RecoveryIsPatient` follow from it.
- `HandlersAreNotRecovered`: if the handler's timeout fits in what a stalled claim leaves of
  the lease, as 30 s do in 45 s less 10 s, the recovery pass takes no row whose handler
  still runs. Nothing of the kind holds of an acknowledgement, whose wait for the database
  has no bound in the code; the first of the divergences without a run (section 6) rests on that.
- `QueueImplementsContract`: initial states map to initial states and each step to a
  step of JobContract, under the same invariant.

`JobRowProofs` has what the operators on a row return; the next four cite it.

`OutboundMessagesProofs` (any messages, slots, attempts): `TypeCorrect`,
`DuplicateOnlyAfterLostAnswerHolds`, `OneSenderAtATimeHolds`, `SuccessMeansSettledHolds`,
`SentIsFinalHolds`. The four properties speak of a message and its job; what makes them true is the call
between them. The invariant follows it: `OnlyCall`, unless the job was taken from a
live call, a call is the only one and its row is running; hence `Unsettled`, nobody
settles the message between the call's transactions; `Accepted` and `Recorded`, the
provider's acceptance is sent, about to be recorded, or lost; `Done`, a call reports
success only of a settled message; `Unborn`, before queueing there is nothing.

`NotificationsProofs` (any deliveries, slots, attempts): `TypeCorrect`, `ShownOnceHolds`,
`SendsOnlyWhatMayBeSeenHolds`, `SuccessMeansSettledHolds`, `DeliveredIsFinalHolds`. Each step is
about one delivery, so the invariant is stated for one and a frame lemma keeps it for the
others. `Shown` ties the publication to the delivered row, `LockHolder` says that the
holder of the locks is alone and what it checked holds still; `OnlyCall`, `Done` and
`Settled` are as for messages.

`AmoImportProofs` (any pages, versions, calls, attempts): `TypeCorrect`, `KeysAreFreshHolds`,
`RunningHasWorkHolds` and the refinement `ImportImplementsContract`. `Call(k)` says what a
page read for version `k` may conclude: if the row still has the version, the page
is the next one, and the job does not end well before the row has moved on.
`RunningHasWork` counts a job that the cleanup removed as given up only if it had failed.
`Progress` counts the pages applied. `Budget` says that the bound on versions never
stops a running import, so the bound is no hidden assumption.

`PurchasesProofs` (any dates, users, attempts): `OnlyTheDealsDateHolds`, which with the types of
deal and schedule is inductive, because whatever changes the date or activates a
row does it through the sync, and a deletion cancels what is active. `TypeCorrect`,
`OneTaskPerDateHolds` and `AssigneeInSyncHolds` share an invariant; `OneMaker` is its core:
a call that has read the schedule without a task finds it still without one, as
only that date's call makes tasks and requests never do. `EmployeeKeepsOffHolds`.

Assumptions: the named `ASSUME`s of the modules, which TLC evaluates on the instances.
`PowersAssumption` states that the powers of two of the backoff are naturals, as the
provers know nothing of exponentiation.

The ten parts of `Workspace` are proved about there, where the runs check them: a step
of the workspace is a step of the part or leaves its variables alone
(`IntakePart`, `MailPart`, ...), so each part has an inductive invariant of its own
(`IntakeInv`, `MailInv`, ...) and the theorem is about the property that a run checks.

`InputProofs`, what comes in from outside:

- `StoredAlwaysOnce` (Intake; any items, threads, calls, attempts). `Waiting`: a call that
  has read a new thread still has its item to process, as only the item's own call
  settles it. `Followed`: what was processed has left its conversation, so who finds
  none, and does not collide with it, has a message that nobody stored. Assumed: a
  message id is one of its conversation, the unique key of the messages. `Bounds` counts
  the rows for the types: every deal, and every contact beyond those that users made,
  came with an item that is processed, and nothing names a row that was not made.
- `NoMailIsPassedOver` (MailPolling; any mails, pollers, renumberings, pages of any size).
  The property speaks of the channel's cursor; what carries it is that the cursor
  a poll has read is as good (`UpTo(previous, filed)`), although others write meanwhile, and
  that the one it will write is good once its list is done (`UpTo(batch, filed \cup Todo)`).
- `CredentialsAlwaysFit` (AmoConnection; any accounts, authorizations, processes).
  `RefreshFits`: a refresh that still has the row's version has a token of the row's account
  that is no older than the row's, unless two writers crossed.
- `ImportsAlwaysHold` (Renewals and AmoRecords; any tables, groups, uploads, pages, rows).
  Renewals: `ReadFits` is what an upload may still believe of what it read: a group it found
  without a deal was mapped to none or to one that is deleted, and a deal it found has the
  contacts it read, unless the deal was overtaken. `GroupFits` and `DealFits` tie mapping,
  deal, task and calls of a group, and name rows only of uploads that ended. `DealsAreCalled`:
  the upload that makes a deal calls its group, or found it called. The clusters of a table's
  addresses are non-empty sets of its addresses (`ClustersAre`), whatever the order in which
  licences are folded. AmoRecords: `OwnedFit` and `DealsFit`, what a mapping names is live
  and a deal's stage is one of its pipeline, survive deletions because a page resolves its references
  again in the transaction that writes; `PointsFit`, a contact that is findable is live, or
  a page overtook its deletion.

`WorkspaceProofs`, the other parts:

- `RolesAreAlwaysGranted` (Members; any finite set of users, any requests). `Aware`: the
  version a request will compare is not beyond the target's, which only grows, so if it is
  still equal the role decided on is still the target's.
- `NothingStaleIsEverShown` (Realtime; any deals, batch, replay). `StreamFits`: what a browser
  shows and may not show is cleared by an access change that its gapless stream has still
  to read; `RevisionFits`: who has the last access revision shows nothing of the kind. `Ids`: an id
  drawn is nobody else's, so that a commit in order is beyond the cursor.
- `DevicesAlwaysHold` (WebPush; any users, browsers, cap). `Registers`: a registration that will
  commit leaves room for its row under the cap, and its endpoint and row are nobody else's.
- `OccurrencesAlwaysHold` (Monitors; any clock, attempts). `OccurrenceInv`: event and marker come
  together, and a call that is about to report success has left a marker or found
  another occurrence.
- `PipelinesAlwaysHold` (Pipelines; any pipelines, stages, deals, fields, requests at a time).
  Distinct positions are not inductive, as `create_stage` moves rows one at a time: there is a bound
  such that rows still to be shifted stand below it and go to distinct positions at or beyond it
  (`ShiftsApart`), rows shifted stand beyond it until they are placed (`RowsApart`), and their places
  are distinct, below it, and taken by nobody (`PlacesApart`). The ranks that give
  the places are shown to be distinct by counting (`Ranks`). `EditsFit`: what a request under
  way counted or read, and that deletions of one pipeline exclude one another. `ArchivedFits`:
  only pipelines of amoCRM are archived. Pages of an import are steps like any other: a stage they bring stands
  where no row does, also between two statements of a renumbering, which excludes them by the
  pipeline's lock.
- `TypesAreAlwaysOK`: the types of all ten parts, from the ten invariants.

Assumptions on the constants of these parts: the bounds are naturals, users, deals and items are
finite, a file is a finite set of licences each with its group and an address
(`subscription_import.py:711` refuses a licence with neither phone nor e-mail), `None` is
no upload. How large a set is the proofs never use.

Induction over data is done by a least counterexample: `Least`, from the well-foundedness of
the naturals, and the lemmas on the greatest element, the fold of `Clusters` and the
ranks rest on it. Only model-checked: the liveness properties (`EventuallySettled`,
`MessageResolved`, `DeliveryResolved`, `ImportEnds`, `ReportFollows`, `ScheduleGetsTask`,
`IntakeSettles`) and everything under fairness or ENABLED, which the provers do not
support. That each part has every writer of
what its properties speak of is read off the code.

## 6. What the runs found

Each is a run that ends in a violation; `PROJECT.json` quotes the sentence.

1. `notifications_consent`. Revoking a consent is said to block a client's later
   deliveries at once; a delivery queued before is sent after.
2. `purchases_realigned`. A date that is changed and changed back meets its cancelled row
   and stays without an active schedule.
3. `purchases_deletion`. After a deletion no reminder is said to be made or sent. The job
   that waited for the deletion decides on the schedule as it had read it, and makes a task
   for a deleted deal.
4. `realtime_revision`. A changed `access_revision` is said to clear the browser's cards even
   if the event was missed. It is the greatest id of the user's access events, and ids are drawn
   before commits: a revocation that commits behind a later one does not change it.
5. `members_owner`. The last active owner cannot be demoted, say both guides and the guard. The
   guard counts owners without a lock: two owners demote each other.
6. `renewals_twice`. Uploading a table again is said to make no duplicates; two uploads at a
   time make two live deals of a group where the second reads the mapping first before and
   then after the first one's commit.

Behaviours that the models have and that a document contradicts as well, without a run of
their own:

- `complete_job` and `fail_job` say they settle a job whose lease "still belongs to the
  caller" (`jobs.py:269`, `jobs.py:306`), but compare worker ids, not claims. An acknowledgement
  that waits for the database until its lease is over and the row is claimed again settles
  the newer claim of the same supervisor. JobContract allows it.
- A delivery whose last attempt ends by timeout or lost lease stays pending while its job is
  failed, out of reach of the list of failed deliveries and its retry (`admin-guide.md:823`).
  `DeliveryResolved` counts the failed job as an end.
- `delete_deal` cancels pending deliveries of task reminders, but not those of
  `purchase.due_soon`, which are sent later (`admin-guide.md:359-362`).
- Two deletions at a time each count the other's pipeline, and no active one is left; so it is
  if a page of an import archives the one that was counted (`admin-guide.md:278-280`,
  `user-guide.md:530`, and the guard at `crm.py:1287`).
- A deal that an import makes anew after a deletion gets no call task, while the deleted deal's
  task is mapped (`user-guide.md:705-709`, `admin-guide.md:868`). `ImportsHold` counts that task.
- A table of licences that gives an open deal to another assignee records only
  `deal.updated`, which the former assignee's stream filters out, while `architecture.md`
  lets `access.changed` clear the cards at every reassignment. `NothingStaleIsShown` excepts it.

The properties that hold in `workspace` name the outcomes of 4 to 6 as exceptions, so that they
say what holds outside them. Behaviours the models show and no document
speaks about, excepted in the same way (`overtaken`, `crossed`, `passed`):

- An access change that commits behind a later event is missed by a stream whose cursor has
  passed it. A poll of `/auth/me` finds it, but for 4.
- `delete_stage` reads the stage a second time with FOR UPDATE, but its session returns
  the object it already has. Two concurrent replacements of a stage's required
  fields leave the union of both.
- `_add_deal_contacts` beside `update_deal` can leave two primary contacts.
- A pipeline of an import has no stages until their pages come, and none if they never do.
- An import whose last page job failed stays running; 14 days later the cleanup removes the job,
  and nothing but the import's status tells of it.
- Contact, company and task are written by an amoCRM page without a lock: a contact
  deleted in between stays findable by its addresses.
- A refresh writes its tokens into any connected row: one that was reconnected meanwhile,
  to the same account or another, gets tokens that are not its own, or not the latest.
- A reminder's occurrence that was left and comes back meets the key of its job, and is told by
  none.
- A message queued behind the key of its failed send job stays queued; the failed job is what
  an administrator sees, and `MessageResolved` counts it as resolved.
- A late push result may disable a browser that its user has registered again.
- Two leads with one new address that are routed at once make two contacts.

## 7. Plan

The first plan is done: all subsystems with a protocol of their own have a module. Left,
in this order:

1. Lemmas behind the liveness properties that the provers can state: what a step can never
   undo of a row that has ended, and that a bound of the models never stops a job (as `Budget`
   does for imports).
2. Contact links in Purchases, and the task reminders of Monitors together with the tasks
   of Purchases, which share the row of a task.
3. Rate-limit windows of the public forms, expiry of sessions.
4. Notes and optional references of an amoCRM page.
5. The browser client's optimistic stores against the realtime stream.

## 8. Not modelled, and why

Password hashing, token formats and encryption are cryptography. Report files,
spreadsheet parsing, templates and provider payloads are conversions of data without a
protocol. The page budget of `data_access` is one counter in one row, taken under its
lock. The ImportJob row of a subscription import only reports; if the process ends
during an upload it stays "running". Names and colours of pipelines and stages, optional
references and notes of amoCRM, NOTIFY (which only shortens a poll's wait), and the
fields of forms change nothing the properties tell apart. Migrations are DDL; the unique keys they create are part of the rows
here. Deadlocks of the database, as between a page's new stage and `create_stage` (each
waits for the other's row), are ended by it with an error of one transaction, which then took
no step. The heartbeat and the readiness flag of the supervisor only report. The
database is taken to execute a transaction atomically and to honour row locks;
READ COMMITTED shows where a handler reads, waits and writes in separate steps.
