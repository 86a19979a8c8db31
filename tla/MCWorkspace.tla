------------------------------ MODULE MCWorkspace ------------------------------
(***************************************************************************)
(* The parts of Workspace on small instances.                              *)
(***************************************************************************)
EXTENDS Workspace, TLC

CONSTANTS
    ann, bob,       \* users, and accounts of amoCRM
    u1, u2, u3, l1, \* updates that a provider delivers, a lead by webhook
    m1, m2, m3,     \* messages, mails, fields, and addresses of browsers
    t1, t2,         \* conversations, and states of OAuth
    r1, r2,         \* requests, pollers and pages at a time
    p1, p2, d1      \* pipelines; a deal, and the end date of licences

(* Two items at a time: two updates of one message, two messages of one    *)
(* new conversation, or a message and a lead.                              *)
MCItem == {u1, u2, u3, l1}
MCTogether == {{u1, u2}, {u1, u3}, {u1, l1}}
MCLead == {l1}
MCMessageOf == (u1 :> m1) @@ (u2 :> m1) @@ (u3 :> m2) @@ (l1 :> m3)
MCThreadOf == (u1 :> t1) @@ (u2 :> t1) @@ (u3 :> t1) @@ (l1 :> t2)

MCParts == {"intake", "mail", "realtime", "members", "pipelines", "fields", "push",
            "connection", "monitors", "renewals", "records"}

MCMail == {m1, m2}
MCField == {m1}
MCEndpoint == {m1, m2}

MCUser == {ann, bob}
MCAccount == {ann, bob}

(* Requests, pollers, processes and pages are alike in their parts.        *)
MCRequest == {r1, r2}
MCAlike == Permutations(MCRequest)
MCPoller == {r1, r2}
MCProcess == {r1, r2}
MCPage == {r1, r2}

MCState == {t1, t2}
MCDeal == {d1}
MCRenewed == {d1}
MCPipeline == {p1, p2}
MCAmoPipeline == {p2}

(* One customer's licences in a table; the entity types of an import *)
MCGroup == {d1}
MCFile == {{[group |-> d1, addresses |-> {m1}], [group |-> d1, addresses |-> {m1, m2}]}}
MCUpload == 1..2
MCTypes == {{"pipelines", "stages", "deals"}, {"custom_fields"}, {"tasks"}, {"contacts"},
            {"companies"}}
===============================================================================
