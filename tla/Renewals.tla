--------------------------------- MODULE Renewals --------------------------------
(***************************************************************************)
(* The import of expiring licences from a spreadsheet.  The licences of    *)
(* one INN that end on one day are a group; a group becomes a deal with a  *)
(* call task, found again through the ExternalEntityMap when the table, or *)
(* a later one, is uploaded.  An upload is one transaction that reads what *)
(* is there without locks, and is seen when it commits; it runs beside     *)
(* other uploads and the work of users.                                    *)
(*                                                                         *)
(* The rows of one INN, each named after the upload that makes it.         *)
(***************************************************************************)
EXTENDS Naturals, FiniteSets, SequencesExt

CONSTANTS
    Group,          \* end dates of the licences of the INN
    File,           \* tables: sets of licences [group, addresses]
    Upload,         \* requests of POST /subscription-imports, numbered from 1
                    \* as they begin
    None

VARIABLES
    company,        \* live companies with the INN
    contact,        \* contact[<<u, k>>]: made by u for the cluster k
    deal,           \* deal[<<u, g>>]: made by u for the group g
    mapped,         \* mapped[g]: the deal of the renewal_group mapping
    task,           \* task[g]: the upload whose task the renewal_call mapping names
    calls,          \* calls[g]: uploads whose call task of the group exists
    upload,         \* upload[u]: what the upload has read
    overtaken       \* history: groups whose mapping changed between the two
                    \* reads of an upload; deals whose contacts were written
                    \* during an upload; a company was made during another's

vars == <<company, contact, deal, mapped, task, calls, upload, overtaken>>

Address == UNION {l.addresses : l \in UNION File}
Manual == 0         \* made by a user
Company == Upload \cup {Manual}
Contact == Upload \X ((SUBSET Address) \ {{}})
LicenceDeal == Upload \X Group

NoContact == [live |-> FALSE, company |-> None, addresses |-> {}]
NoDeal == [status |-> "none", links |-> {}, primary |-> {}]

(* What an upload has read, nothing yet. *)
NoUpload ==
    [stage |-> "none", file |-> {}, company |-> Manual, matches |-> [k \in {} |-> {}], error |-> FALSE,
     found |-> [g \in {} |-> NoDeal], called |-> {},
     at |-> [g \in Group |-> None], taskAt |-> [g \in Group |-> None], known |-> {}, knownTask |-> {}]

Stage(u) == upload[u].stage

TypeOK ==
    /\ company \subseteq Company
    /\ contact \in [Contact -> [live : BOOLEAN, company : Company \cup {None},
                                addresses : SUBSET Address]]
    /\ \A d \in LicenceDeal :
          /\ deal[d].status \in {"none", "open", "closed", "deleted"}
          /\ deal[d].primary \subseteq deal[d].links /\ deal[d].links \subseteq Contact
    /\ mapped \in [Group -> LicenceDeal \cup {None}]
    /\ task \in [Group -> Upload \cup {None}]
    /\ calls \in [Group -> SUBSET Upload]
    /\ overtaken \in [groups : SUBSET Group, deals : SUBSET LicenceDeal, company : BOOLEAN]

Init ==
    /\ company = {}
    /\ contact = [c \in Contact |-> NoContact]
    /\ deal = [d \in LicenceDeal |-> NoDeal]
    /\ mapped = [g \in Group |-> None]
    /\ task = [g \in Group |-> None]
    /\ calls = [g \in Group |-> {}]
    /\ upload = [u \in Upload |-> NoUpload]
    /\ overtaken = [groups |-> {}, deals |-> {}, company |-> FALSE]

rows == <<company, contact, deal, mapped, task, calls>>

Live(d) == d # None /\ deal[d].status \in {"open", "closed"}
Busy == {u \in Upload : Stage(u) \notin {"none", "ended"}}
GroupsOf(u) == {l.group : l \in upload[u].file}
Proceeds(u, record) == upload' = [upload EXCEPT ![u] = record]
Ends(u) == Proceeds(u, [NoUpload EXCEPT !.stage = "ended"])

-------------------------------------------------------------------------------
(* Users *)

CreateCompany ==
    /\ Manual \notin company
    /\ company' = company \cup {Manual}
    /\ UNCHANGED <<contact, deal, mapped, task, calls, upload, overtaken>>

(* Its contacts are detached, its deals too. *)
DeleteCompany(o) ==
    /\ o \in company
    /\ company' = company \ {o}
    /\ contact' = [c \in Contact |-> IF contact[c].company = o /\ contact[c].live
                                     THEN [contact[c] EXCEPT !.company = None] ELSE contact[c]]
    /\ UNCHANGED <<deal, mapped, task, calls, upload, overtaken>>

(* Its ContactPoints go, its links to deals stay. *)
DeleteContact(c) ==
    /\ contact[c].live
    /\ contact' = [contact EXCEPT ![c].live = FALSE, ![c].addresses = {}]
    /\ UNCHANGED <<company, deal, mapped, task, calls, upload, overtaken>>

TransitionDealStage(d) ==
    /\ Live(d)
    /\ deal' = [deal EXCEPT ![d].status = IF @ = "open" THEN "closed" ELSE "open"]
    /\ UNCHANGED <<company, contact, mapped, task, calls, upload, overtaken>>

DeleteDeal(d) ==
    /\ Live(d)
    /\ deal' = [deal EXCEPT ![d].status = "deleted"]
    /\ UNCHANGED <<company, contact, mapped, task, calls, upload, overtaken>>

(* The new links replace the old ones, the first is the primary one. *)
UpdateDealContacts(d, links, primary) ==
    /\ Live(d)
    /\ primary \subseteq links
    /\ Cardinality(primary) = IF links = {} THEN 0 ELSE 1
    /\ deal' = [deal EXCEPT ![d].links = links, ![d].primary = primary]
    /\ overtaken' = [overtaken EXCEPT !.deals = IF Busy = {} THEN @ ELSE @ \cup {d}]
    /\ UNCHANGED <<company, contact, mapped, task, calls, upload>>

DeleteTask(g, u) ==
    /\ u \in calls[g]
    /\ calls' = [calls EXCEPT ![g] = @ \ {u}]
    /\ UNCHANGED <<company, contact, deal, mapped, task, upload, overtaken>>

-------------------------------------------------------------------------------
(* import_subscriptions *)

(* contact_clusters: one licence after the other is put together with the  *)
(* clusters it shares an address with.                                     *)
Clusters(licences) ==
    FoldSeq(LAMBDA l, clusters :
                LET matches == {k \in clusters : k \cap l.addresses # {}}
                IN  (clusters \ matches) \cup {l.addresses \cup UNION matches},
            {}, licences)

(* _matching_company_contacts *)
Matching(o, cluster) ==
    {c \in Contact : /\ contact[c].live /\ contact[c].company = o
                     /\ contact[c].addresses \cap cluster # {}}

(* Several companies, or several contacts of one cluster: an error for     *)
(* every group.  Without a company one is made.                            *)
ReadCompany(u, file) ==
    LET clusters == Clusters(SetToSeq(file))
        o == IF company = {} THEN u ELSE CHOOSE k \in company : TRUE
        matches == [k \in clusters |-> IF Cardinality(company) = 1 THEN Matching(o, k) ELSE {}]
    IN
    /\ Stage(u) = "none" /\ \A v \in Upload : v < u => Stage(v) # "none"
    /\ Proceeds(u, [NoUpload EXCEPT !.stage = "company", !.file = file, !.company = o, !.matches = matches,
                    !.error = \/ Cardinality(company) > 1
                              \/ \E k \in clusters : Cardinality(matches[k]) > 1])
    /\ UNCHANGED <<rows, overtaken>>

(* _mapped_entity of the deals and the tasks, and their contacts *)
ReadGroups(u) ==
    /\ Stage(u) = "company"
    /\ Proceeds(u, [upload[u] EXCEPT !.stage = "groups",
            !.found = [g \in GroupsOf(u) |-> IF Live(mapped[g]) THEN deal[mapped[g]] ELSE NoDeal],
            !.called = {g \in GroupsOf(u) : task[g] \in calls[g]},
            !.at = mapped, !.taskAt = task])
    /\ UNCHANGED <<rows, overtaken>>

(* _upsert_mapping looks for the mappings again, after the row was made. *)
ReadMappings(u) ==
    /\ Stage(u) = "groups"
    /\ Proceeds(u, [upload[u] EXCEPT !.stage = "mappings",
            !.known = {g \in Group : mapped[g] # None},
            !.knownTask = {g \in Group : task[g] # None}])
    /\ UNCHANGED <<rows, overtaken>>

(* A finalized deal is left alone. *)
Written(u) == IF upload[u].error THEN {}
              ELSE {g \in GroupsOf(u) : upload[u].found[g].status # "closed"}
Called(u) == Written(u) \ upload[u].called

DealOf(u, g) == IF upload[u].found[g] = NoDeal THEN <<u, g>> ELSE upload[u].at[g]

Unmatched(u) == {k \in DOMAIN upload[u].matches : upload[u].matches[k] = {}}
ContactOf(u, k) == IF k \in Unmatched(u) THEN <<u, k>> ELSE CHOOSE c \in upload[u].matches[k] : TRUE

(* _add_deal_contacts: those not linked yet; the first is the primary one  *)
(* when there was none.                                                    *)
Added(u, g) ==
    {ContactOf(u, k) : k \in {j \in DOMAIN upload[u].matches :
                                 \E l \in upload[u].file : l.group = g /\ l.addresses \subseteq j}}
    \ upload[u].found[g].links

(* Faulty variant of Conflicts: the mappings have no unique key. *)
ConflictsOnLinksOnly(u) ==
    \E g \in Written(u) :
        DealOf(u, g) \in LicenceDeal /\ Added(u, g) \cap deal[DealOf(u, g)].links # {}

(* A unique key: a mapping, or a link, was not there and is now. *)
Conflicts(u) ==
    \/ \E g \in Written(u) :
          \/ g \notin upload[u].known /\ mapped[g] # None
          \/ Added(u, g) \cap deal[DealOf(u, g)].links # {}
    \/ \E g \in Called(u) : g \notin upload[u].knownTask /\ task[g] # None

(* _merge_contact_points, and the new contacts; after an error they may be *)
(* those of some clusters only.                                            *)
WriteContacts(u, made) ==
    contact' = [c \in Contact |->
        IF \E k \in made : c = <<u, k>>
        THEN [live |-> TRUE, company |-> upload[u].company, addresses |-> c[2]]
        ELSE LET merged == {k \in DOMAIN upload[u].matches : upload[u].matches[k] = {c}}
             IN  [contact[c] EXCEPT !.addresses = @ \cup UNION merged]]

(* One group after the other; the groups of an upload share no deal. *)
WriteDeals(u) ==
    \E first \in [{g \in Written(u) : Added(u, g) # {} /\ upload[u].found[g].primary = {}}
                     -> Contact] :
        /\ \A g \in DOMAIN first : first[g] \in Added(u, g)
        /\ deal' = [d \in LicenceDeal |->
              IF \E g \in Written(u) : DealOf(u, g) = d
              THEN LET g == d[2]
                   IN  [status |-> IF deal[d] = NoDeal THEN "open" ELSE deal[d].status,
                        links |-> deal[d].links \cup Added(u, g),
                        primary |-> deal[d].primary
                                    \cup IF g \in DOMAIN first THEN {first[g]} ELSE {}]
              ELSE deal[d]]

Commit(u) ==
    /\ Stage(u) = "mappings" /\ ~Conflicts(u)
    /\ company' = IF upload[u].company = u THEN company \cup {u} ELSE company
    /\ \E made \in IF upload[u].error THEN SUBSET Unmatched(u) ELSE {Unmatched(u)} :
          WriteContacts(u, made)
    /\ WriteDeals(u)
    /\ mapped' = [g \in Group |-> IF g \in Written(u) THEN DealOf(u, g) ELSE mapped[g]]
    /\ task' = [g \in Group |-> IF g \in Called(u) THEN u ELSE task[g]]
    /\ calls' = [g \in Group |-> IF g \in Called(u) THEN calls[g] \cup {u} ELSE calls[g]]
    /\ overtaken' = [overtaken EXCEPT
          !.groups = @ \cup {g \in Written(u) : upload[u].at[g] # mapped[g] /\ g \in upload[u].known}
                       \cup {g \in Called(u) : upload[u].taskAt[g] # task[g] /\ g \in upload[u].knownTask},
          !.deals = IF Busy = {u} THEN @ ELSE @ \cup {DealOf(u, g) : g \in Written(u)},
          !.company = @ \/ (upload[u].company = u /\ Busy # {u})]
    /\ Ends(u)

(* A conflict, or an error: nothing of the upload is left. *)
FailUpload(u) ==
    /\ u \in Busy
    /\ Ends(u)
    /\ UNCHANGED <<rows, overtaken>>

UsersWork ==
    \/ CreateCompany
    \/ \E o \in Company : DeleteCompany(o)
    \/ \E c \in Contact : DeleteContact(c)
    \/ \E d \in LicenceDeal :
          \/ TransitionDealStage(d) \/ DeleteDeal(d)
          \/ \E links \in {{}} \cup {{c} : c \in {k \in Contact : contact[k].live}} :
                UpdateDealContacts(d, links, links)
    \/ \E g \in Group, u \in Upload : DeleteTask(g, u)

(* Bound: users work until the last upload has ended. *)
Next ==
    \/ (\E u \in Upload : Stage(u) # "ended") /\ UsersWork
    \/ \E u \in Upload :
          \/ \E file \in File : ReadCompany(u, file)
          \/ ReadGroups(u) \/ ReadMappings(u) \/ Commit(u) \/ FailUpload(u)

Spec == Init /\ [][Next]_vars

-------------------------------------------------------------------------------
(* However often tables are uploaded, one after the other or together, and *)
(* whatever users close, delete, make by hand or link meanwhile: a group   *)
(* has one live deal and one call task, the imports make one company, and  *)
(* one of a deal's contacts is primary - unless a mapping was written, or  *)
(* the contacts were, between the reads of an upload and its writes.       *)
RenewalsHold ==
    /\ \A g \in Group \ overtaken.groups :
          /\ Cardinality({d \in LicenceDeal : d[2] = g /\ Live(d)}) <= 1
          /\ Cardinality(calls[g]) <= 1
    /\ ~overtaken.company => Cardinality(company \ {Manual}) <= 1
    /\ \A d \in LicenceDeal :
          d \notin overtaken.deals =>
             Cardinality(deal[d].primary) = IF deal[d].links = {} THEN 0 ELSE 1

(* A deal that an upload makes has a call task of this upload, unless the  *)
(* task of the group was there when the upload looked for it.              *)
DealsCalled ==
    \A u \in Upload, g \in Group :
        deal[<<u, g>>] = NoDeal /\ deal'[<<u, g>>] # NoDeal =>
            u \in calls'[g] \/ g \in upload[u].called

RenewalsKept == RenewalsHold' /\ DealsCalled

(* A group has one live deal however often its table is uploaded: the      *)
(* documentation of the import.                                            *)
UploadedOnce == \A g \in Group : Cardinality({d \in LicenceDeal : d[2] = g /\ Live(d)}) <= 1
===============================================================================
