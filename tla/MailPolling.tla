----------------------------- MODULE MailPolling ------------------------------
(***************************************************************************)
(* Polling a mailbox over IMAP: RuntimeHandlers.poll_imap and              *)
(* AsyncIMAPPoller.  The channel keeps a cursor, UIDVALIDITY and the last  *)
(* UID; each minute has a job of its own, so that polls overlap when one   *)
(* is slow or retried.  The server may renumber the mailbox at any time,   *)
(* also between two commands of one poll.                                  *)
(*                                                                         *)
(* A mail keeps its Message-ID and thread through a renumbering.  What     *)
(* routing does with it is in Intake; here it is one transaction that      *)
(* stores the mail unless its conversation has it.                         *)
(***************************************************************************)
EXTENDS Naturals, Sequences, SequencesExt

CONSTANTS
    Mail,           \* mails, each with its Message-ID
    MaxValidity,    \* bound on renumberings
    PageSize,       \* poll's limit
    Poller          \* poll jobs that may run at a time

VARIABLES
    mailbox,        \* its UIDVALIDITY, and the mail of each UID
    imapState,      \* the channel's cursor; validity 0: none yet
    poll,           \* poll[p]: a running handler
    kept,           \* mails with a message row
    filed           \* mails whose attachments are stored as well

vars == <<mailbox, imapState, poll, kept, filed>>

NoCursor == [validity |-> 0, uid |-> 0]

At(stage) == [stage |-> stage, previous |-> NoCursor, batch |-> NoCursor, todo |-> <<>>]

Idle == At("idle")

TypeOK ==
    /\ mailbox.validity \in 1..MaxValidity /\ Range(mailbox.mails) \subseteq Mail
    /\ imapState.validity \in 0..MaxValidity /\ imapState.uid \in Nat
    /\ \A p \in Poller :
          /\ poll[p].stage \in {"idle", "polling", "restarting", "storing", "attaching"}
          /\ Range(poll[p].todo) \subseteq Mail
    /\ kept \subseteq Mail /\ filed \subseteq kept

Init ==
    /\ mailbox = [validity |-> 1, mails |-> <<>>]
    /\ imapState = NoCursor
    /\ poll = [p \in Poller |-> Idle]
    /\ kept = {}
    /\ filed = {}

channel == <<imapState, kept, filed>>

-------------------------------------------------------------------------------
(* The mail server: UIDs ascend while the validity stays. *)

Arrive(m) ==
    /\ m \notin Range(mailbox.mails)
    /\ mailbox' = [mailbox EXCEPT !.mails = Append(@, m)]
    /\ UNCHANGED <<poll, channel>>

(* The mails get other UIDs, or the mailbox is made anew without them. *)
Renumber ==
    /\ mailbox.validity < MaxValidity
    /\ \E mails \in {Reverse(mailbox.mails), <<>>} :
          mailbox' = [validity |-> mailbox.validity + 1, mails |-> mails]
    /\ UNCHANGED <<poll, channel>>

-------------------------------------------------------------------------------
(* One poll. *)

ReadState(p) ==
    /\ poll[p] = Idle
    /\ poll' = [poll EXCEPT ![p] = [At("polling") EXCEPT !.previous = imapState]]
    /\ UNCHANGED <<mailbox, channel>>

(* _poll_sync: the mails after a UID, as many as a page has. *)
NextPage(uid) == SubSeq(mailbox.mails, uid + 1,
                        IF uid + PageSize < Len(mailbox.mails) THEN uid + PageSize
                        ELSE Len(mailbox.mails))

(* Faulty variant of LastUid: the UID of another validity is kept. *)
LastUidOfAnyValidity(previous, after) ==
    IF NextPage(after) # <<>> THEN after + Len(NextPage(after)) ELSE previous.uid

(* The UID to store: the batch's last, or, when it is empty, the one it    *)
(* started from, if that still means anything.                             *)
LastUid(previous, after) ==
    IF NextPage(after) # <<>> THEN after + Len(NextPage(after))
    ELSE IF previous.validity = mailbox.validity THEN previous.uid ELSE 0

Received(p, after) ==
    LET previous == poll[p].previous
    IN  poll' = [poll EXCEPT ![p] =
                    [stage |-> "storing", previous |-> previous, todo |-> NextPage(after),
                     batch |-> [validity |-> mailbox.validity,
                                uid |-> LastUid(previous, after)]]]

(* When the mailbox turns out to be renumbered the batch is thrown away.   *)
Fetch(p) ==
    /\ poll[p].stage = "polling"
    /\ IF poll[p].previous.validity \in {0, mailbox.validity}
       THEN Received(p, poll[p].previous.uid)
       ELSE poll' = [poll EXCEPT ![p].stage = "restarting"]
    /\ UNCHANGED <<mailbox, channel>>

FetchFromStart(p) ==
    /\ poll[p].stage = "restarting"
    /\ Received(p, 0)
    /\ UNCHANGED <<mailbox, channel>>

(* _persist_email_envelope: event, routing and message in one transaction. *)
(* A mail whose conversation has its Message-ID adds no row.               *)
PersistEmailEnvelope(p) ==
    /\ poll[p].stage = "storing" /\ poll[p].todo # <<>>
    /\ kept' = kept \cup {Head(poll[p].todo)}
    /\ poll' = [poll EXCEPT ![p].stage = "attaching"]
    /\ UNCHANGED <<mailbox, imapState, filed>>

(* _store_email_attachments, in transactions of its own *)
StoreEmailAttachments(p) ==
    /\ poll[p].stage = "attaching"
    /\ filed' = filed \cup {Head(poll[p].todo)}
    /\ poll' = [poll EXCEPT ![p].stage = "storing", ![p].todo = Tail(@)]
    /\ UNCHANGED <<mailbox, imapState, kept>>

(* Under the channel's lock, over whatever another poll has written. *)
UpdateImapState(p) ==
    /\ poll[p].stage = "storing" /\ poll[p].todo = <<>>
    /\ imapState' = poll[p].batch
    /\ poll' = [poll EXCEPT ![p] = Idle]
    /\ UNCHANGED <<mailbox, kept, filed>>

(* An error, the timeout, or the end of the process: the rest of the page  *)
(* is left to a retry or to the next minute's job.                         *)
Abandon(p) ==
    /\ poll[p] # Idle
    /\ poll' = [poll EXCEPT ![p] = Idle]
    /\ UNCHANGED <<mailbox, channel>>

(* PATCH of the channel: its settings are replaced, the cursor with them.  *)
UpdateChannel ==
    /\ imapState # NoCursor
    /\ imapState' = NoCursor
    /\ UNCHANGED <<mailbox, poll, kept, filed>>

Next ==
    \/ \E m \in Mail : Arrive(m)
    \/ Renumber
    \/ UpdateChannel
    \/ \E p \in Poller :
          \/ ReadState(p) \/ Fetch(p) \/ FetchFromStart(p)
          \/ PersistEmailEnvelope(p) \/ StoreEmailAttachments(p)
          \/ UpdateImapState(p) \/ Abandon(p)

Spec == Init /\ [][Next]_vars

-------------------------------------------------------------------------------
(* Polls overlap, fail half way and meet renumberings, and still a cursor  *)
(* that is valid never stands beyond a mail that was not stored with its   *)
(* attachments.                                                            *)
NoMailPassedOver ==
    imapState.validity = mailbox.validity =>
        \A u \in 1..imapState.uid :
            u \in DOMAIN mailbox.mails /\ mailbox.mails[u] \in filed
===============================================================================
