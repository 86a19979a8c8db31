-------------------------------- MODULE AmoRecords -------------------------------
(***************************************************************************)
(* What a page of an amoCRM import makes of an entity: PulseAmoWriter      *)
(* looks for the row the ExternalEntityMap names, makes one or updates     *)
(* it, and the mapping takes its id and the fingerprint.  A page is        *)
(* one transaction; pages of other imports, and users who delete rows, run *)
(* beside it.  Pipelines and stages are deleted with their mappings, other *)
(* rows leave them behind.                                                 *)
(*                                                                         *)
(* One amoCRM entity of each type, and a page with that entity alone.      *)
(***************************************************************************)
EXTENDS Naturals, FiniteSets

CONSTANTS
    Types,          \* sets of entity types that are imported together
    Page,           \* pages applied at a time
    MaxRow          \* bound on the rows made for an entity

Type == {"pipelines", "stages", "custom_fields", "companies", "contacts", "deals", "tasks"}

VARIABLES
    types,          \* the types in play
    row,            \* row[t][r]: the r-th row made for the entity of type t
    parent,         \* parent[t][r]: what the row refers to
    points,         \* contact rows with ContactPoints
    mapped,         \* mapped[t]: the row the ExternalEntityMap names, or 0
    page,           \* page[p]: what the page has read
    overtaken       \* history: rows and types that changed after a page read them

vars == <<types, row, parent, points, mapped, page, overtaken>>

Row == 1..MaxRow

(* The mappings without which the entity is refused *)
Needs == [t \in Type |-> CASE t = "stages" -> {"pipelines"}
                           [] t = "deals" -> {"pipelines", "stages"}
                           [] OTHER -> {}]

Unmapped == 0
NoParent == [t \in {} |-> 0]
Idle == [stage |-> "idle"]

TypeOK ==
    /\ types \in Types
    /\ row \in [Type -> [Row -> {"none", "live", "deleted", "gone"}]]
    /\ \A t \in Type, r \in Row :
          parent[t][r] = NoParent \/ parent[t][r] \in [Needs[t] -> Row]
    /\ points \subseteq Row
    /\ mapped \in [Type -> 0..MaxRow]
    /\ overtaken \in [types : SUBSET Type, contacts : SUBSET Row]

Init ==
    /\ types \in Types
    /\ row = [t \in Type |-> [r \in Row |-> "none"]]
    /\ parent = [t \in Type |-> [r \in Row |-> NoParent]]
    /\ points = {}
    /\ mapped = [t \in Type |-> Unmapped]
    /\ page = [p \in Page |-> Idle]
    /\ overtaken = [types |-> {}, contacts |-> {}]

Exists(t, r) == r # 0 /\ row[t][r] \in {"live", "deleted"}
Proceeds(p, record) == page' = [page EXCEPT ![p] = record]

-------------------------------------------------------------------------------
(* Users *)

Removed(t, r, status) == row' = [row EXCEPT ![t][r] = status]

(* Deals in the stage, deleted ones too, keep it. *)
DeleteStage(r) ==
    /\ row["stages"][r] = "live"
    /\ \A d \in Row : Exists("deals", d) => parent["deals"][d]["stages"] # r
    /\ Removed("stages", r, "gone")
    /\ mapped' = [mapped EXCEPT !["stages"] = IF @ = r THEN Unmapped ELSE @]
    /\ UNCHANGED <<types, parent, points, page, overtaken>>

(* Its stages, and the mappings of all, go in the same transaction. *)
StagesOf(r) == {s \in Row : row["stages"][s] = "live" /\ parent["stages"][s]["pipelines"] = r}

(* Faulty variant of DeletePipeline: the mappings of its stages are left. *)
DeletePipelineOnly(r) ==
    /\ row["pipelines"][r] = "live"
    /\ \A d \in Row : Exists("deals", d) => parent["deals"][d]["pipelines"] # r
    /\ row' = [row EXCEPT !["pipelines"][r] = "gone",
                          !["stages"] = [s \in Row |-> IF s \in StagesOf(r) THEN "gone" ELSE @[s]]]
    /\ mapped' = [mapped EXCEPT !["pipelines"] = IF @ = r THEN Unmapped ELSE @]
    /\ UNCHANGED <<types, parent, points, page, overtaken>>

DeletePipeline(r) ==
    /\ row["pipelines"][r] = "live"
    /\ \A d \in Row : Exists("deals", d) => parent["deals"][d]["pipelines"] # r
    /\ row' = [row EXCEPT !["pipelines"][r] = "gone",
                          !["stages"] = [s \in Row |-> IF s \in StagesOf(r) THEN "gone" ELSE @[s]]]
    /\ mapped' = [mapped EXCEPT !["pipelines"] = IF @ = r THEN Unmapped ELSE @,
                                !["stages"] = IF @ \in StagesOf(r) THEN Unmapped ELSE @]
    /\ UNCHANGED <<types, parent, points, page, overtaken>>

(* Rows that are kept, with deleted_at or is_active = false *)
DeleteSoftly(t, r) ==
    /\ t \in {"custom_fields", "companies", "deals"} /\ row[t][r] = "live"
    /\ Removed(t, r, "deleted")
    /\ UNCHANGED <<types, parent, points, mapped, page, overtaken>>

DeleteContact(r) ==
    /\ row["contacts"][r] = "live"
    /\ Removed("contacts", r, "deleted")
    /\ points' = points \ {r}
    /\ overtaken' = [overtaken EXCEPT !.contacts =
          IF \E p \in Page : page[p] # Idle /\ page[p].type = "contacts" /\ page[p].status = "live"
          THEN @ \cup {r} ELSE @]
    /\ UNCHANGED <<types, parent, mapped, page>>

DeleteTask(r) ==
    /\ row["tasks"][r] = "live"
    /\ Removed("tasks", r, "gone")
    /\ UNCHANGED <<types, parent, points, mapped, page, overtaken>>

-------------------------------------------------------------------------------
(* apply_import_page with PulseAmoWriter.  An entity whose fingerprint is  *)
(* the mapping's is left alone, which is no step.                          *)

ReadMapping(p, t) ==
    /\ page[p] = Idle /\ t \in types
    /\ Proceeds(p, [stage |-> "applying", type |-> t, seen |-> mapped[t],
                    status |-> IF mapped[t] = 0 THEN "none" ELSE row[t][mapped[t]],
                    refs |-> NoParent])
    /\ UNCHANGED <<types, row, parent, points, mapped, overtaken>>

(* _mapped_internal_id, of the pipeline before the stage *)
ResolveReference(p, t) ==
    /\ page[p] # Idle
    /\ LET q == page[p]
       IN  /\ t \in Needs[q.type] \ DOMAIN q.refs
           /\ t = "stages" => "pipelines" \in DOMAIN q.refs
           /\ mapped[t] # 0
           /\ Proceeds(p, [q EXCEPT !.refs =
                    [d \in DOMAIN q.refs \cup {t} |->
                        IF d = t THEN mapped[t] ELSE q.refs[d]]])
    /\ UNCHANGED <<types, row, parent, points, mapped, overtaken>>

(* Faulty variant of Applicable: a mapping that came since is replaced. *)
ApplicableToAny(q) ==
    /\ DOMAIN q.refs = Needs[q.type]
    /\ \A d \in DOMAIN q.refs : row[d][q.refs[d]] = "live"
    /\ q.type \in {"pipelines", "stages"} /\ q.seen # 0 => mapped[q.type] = q.seen

(* The foreign keys, the unique key of a new mapping, and the mapping that *)
(* an UPDATE no longer finds *)
Applicable(q) ==
    /\ DOMAIN q.refs = Needs[q.type]
    /\ \A d \in DOMAIN q.refs : row[d][q.refs[d]] = "live"
    /\ q.seen = 0 => mapped[q.type] = 0
    /\ q.type \in {"pipelines", "stages"} => mapped[q.type] = q.seen

(* The next row of the type *)
NextRow(t) == Cardinality({r \in Row : row[t][r] # "none"}) + 1

(* A page that creates or updates the row.  amoCRM may have removed a      *)
(* custom field; one that is not active here stays so.                     *)
Upsert(t, r, removed) ==
    row' = [row EXCEPT ![t][r] =
              IF t = "custom_fields" /\ removed THEN "deleted"
              ELSE IF @ = "none" THEN "live" ELSE @]

(* The contact points follow the contact as it was read. *)
SyncPoints(q, r) ==
    points' = IF q.type # "contacts" THEN points
              ELSE IF q.status = "deleted" THEN points \ {r} ELSE points \cup {r}

ApplyEntity(p, type, removed) ==
    LET q == page[p]
        known == Exists(q.type, q.seen)
        r == IF known THEN q.seen ELSE NextRow(q.type)
    IN
    /\ q # Idle /\ q.type = type /\ Applicable(q) /\ r \in Row
    /\ Upsert(q.type, r, removed)
    /\ SyncPoints(q, r)
    /\ parent' = [parent EXCEPT ![q.type][r] = q.refs]
    /\ mapped' = [mapped EXCEPT ![q.type] = r]
    /\ overtaken' = [overtaken EXCEPT !.types =
          IF mapped[q.type] # q.seen THEN @ \cup {q.type} ELSE @]
    /\ Proceeds(p, Idle)
    /\ UNCHANGED types

ApplyPipeline(p) == ApplyEntity(p, "pipelines", FALSE)
ApplyStage(p) == ApplyEntity(p, "stages", FALSE)
ApplyCustomField(p, removed) == ApplyEntity(p, "custom_fields", removed)
ApplyCompany(p) == ApplyEntity(p, "companies", FALSE)
ApplyContact(p) == ApplyEntity(p, "contacts", FALSE)
ApplyDeal(p) == ApplyEntity(p, "deals", FALSE)
ApplyTask(p) == ApplyEntity(p, "tasks", FALSE)

(* A dependency that is missing, a conflict, or the end of the process:    *)
(* the page is rolled back.                                                *)
FailPage(p) ==
    /\ page[p] # Idle
    /\ Proceeds(p, Idle)
    /\ UNCHANGED <<types, row, parent, points, mapped, overtaken>>

Next ==
    \/ \E r \in Row :
          \/ DeleteStage(r) \/ DeletePipeline(r) \/ DeleteContact(r) \/ DeleteTask(r)
          \/ \E t \in Type : DeleteSoftly(t, r)
    \/ \E p \in Page :
          \/ \E t \in Type :
                ResolveReference(p, t) \/ ReadMapping(p, t)
          \/ \E removed \in BOOLEAN : ApplyCustomField(p, removed)
          \/ ApplyPipeline(p) \/ ApplyStage(p) \/ ApplyCompany(p)
          \/ ApplyContact(p) \/ ApplyDeal(p) \/ ApplyTask(p)
          \/ FailPage(p)

Spec == Init /\ [][Next]_vars

-------------------------------------------------------------------------------
(* Imports beside one another and beside deletions: the mapping of a       *)
(* pipeline or a stage names a row that is there, a stage's in the mapped  *)
(* pipeline, and a deal's stage is one of its pipeline; an entity has one  *)
(* row, unless two pages at a time made anew a task that had been deleted; *)
(* and a deleted contact keeps no addresses, unless it was deleted between *)
(* a page's read and its write (match_contact_point passes those over).    *)
MappingsHold ==
    /\ \A t \in {"pipelines", "stages"} : mapped[t] # 0 => row[t][mapped[t]] = "live"
    /\ mapped["stages"] # 0 =>
          parent["stages"][mapped["stages"]]["pipelines"] = mapped["pipelines"]
    /\ \A d \in Row : Exists("deals", d) =>
          LET refs == parent["deals"][d]
          IN  /\ row["stages"][refs["stages"]] = "live"
              /\ parent["stages"][refs["stages"]]["pipelines"] = refs["pipelines"]
    /\ \A t \in Type \ overtaken.types : Cardinality({r \in Row : Exists(t, r)}) <= 1
    /\ \A r \in points : row["contacts"][r] = "live" \/ r \in overtaken.contacts

(* And no import brings back what was deleted. *)
RecordsKept ==
    /\ MappingsHold'
    /\ \A t \in Type, r \in Row :
          row[t][r] \in {"deleted", "gone"} => row'[t][r] = row[t][r]

RecordsHold == [][RecordsKept]_vars
===============================================================================
