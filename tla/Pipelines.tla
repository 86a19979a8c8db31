------------------------------- MODULE Pipelines -------------------------------
(***************************************************************************)
(* Pipelines, their stages and the fields a stage requires, with the deals *)
(* that stand on them: the administration in app.api.crm, the moves of     *)
(* deals, and the pages of an amoCRM import, which write the same tables.  *)
(* Reads that lock nothing are steps of their own.                         *)
(*                                                                         *)
(* Names and colours are left out, and with them the versions of pipelines *)
(* and stages, which guard nothing else.                                   *)
(***************************************************************************)
EXTENDS Integers, FiniteSets, FiniteSetsExt, Functions

CONSTANTS
    Pipeline,
    AmoPipeline,    \* those of them that an import makes
    Deal,
    Field,          \* custom field definitions
    Request,        \* requests at a time
    MaxStage,       \* bound on the stages ever made
    MaxVersion      \* bound on the versions of deals

VARIABLES
    pipeline,       \* pipelines that exist
    archived,       \* pipelines with is_active FALSE
    stage,          \* stage[s]: the stages that exist
    lastStage,      \* ids drawn so far; an id is never used again
    deal,           \* deal[d]: pipeline and stage of a deal, and its version
    active,         \* custom fields that are active
    required,       \* required[s]: fields required on entering s
    renumbering,    \* create_stage, between its statements
    request         \* request[r]: what a request has read

vars == <<pipeline, archived, stage, lastStage, deal, active, required, renumbering, request>>

StageId == 1..MaxStage
Idle == [op |-> "idle"]
NoRenumbering == [pipeline |-> "none", shift |-> <<>>, place |-> <<>>]
Kind == {"open", "closed"}      \* won and lost are alike here
Sort == {0, 2}                  \* bound on amoCRM's sort, with a gap

Stages(p) == {s \in DOMAIN stage : stage[s].pipeline = p}
Active == pipeline \ archived
OpenStages(p) == {s \in Stages(p) : stage[s].kind = "open"}

TypeOK ==
    /\ pipeline \subseteq Pipeline /\ archived \subseteq pipeline \cap AmoPipeline
    /\ lastStage \in 0..MaxStage /\ DOMAIN stage \subseteq 1..lastStage
    /\ \A s \in DOMAIN stage :
          /\ stage[s].pipeline \in pipeline /\ stage[s].position \in Nat
          /\ stage[s].kind \in Kind
    /\ DOMAIN deal \subseteq Deal
    /\ active \subseteq Field /\ required \in [StageId -> SUBSET Field]
    /\ DOMAIN renumbering.shift \subseteq DOMAIN stage
    /\ \A r \in Request : request[r].op \in {"idle", "delete stage", "move deal", "require fields",
                                             "delete pipeline"}

(* bootstrap makes the first pipeline. *)
First == CHOOSE p \in Pipeline : p \notin AmoPipeline

Init ==
    /\ pipeline = {First} /\ archived = {}
    /\ stage = [s \in 1..2 |-> [pipeline |-> First, position |-> s - 1, imported |-> FALSE,
                                kind |-> IF s = 1 THEN "open" ELSE "closed"]]
    /\ lastStage = 2
    /\ deal = <<>>
    /\ active \in SUBSET Field
    /\ required = [s \in StageId |-> {}]
    /\ renumbering = NoRenumbering
    /\ request = [r \in Request |-> Idle]

(* The row lock of a pipeline: create_stage holds it over its statements,  *)
(* delete_pipeline from its count to its end.                              *)
Locked(p) ==
    \/ renumbering.pipeline = p
    \/ \E r \in Request : request[r].op = "delete pipeline" /\ request[r].pipeline = p

LockedFields == UNION {request[r].fields : r \in {q \in Request : request[q].op = "require fields"}}

Starts(r, record) == request[r] = Idle /\ request' = [request EXCEPT ![r] = record]
Ends(r) == request' = [request EXCEPT ![r] = Idle]

-------------------------------------------------------------------------------
(* Pipelines.  The positions come with the request, in any order.          *)

CreatePipeline(p, closedFirst) ==
    /\ p \in Pipeline \ (AmoPipeline \cup pipeline) /\ lastStage + 2 <= MaxStage
    /\ pipeline' = pipeline \cup {p}
    /\ stage' = [s \in DOMAIN stage \cup {lastStage + 1, lastStage + 2} |->
                    IF s \in DOMAIN stage THEN stage[s]
                    ELSE [pipeline |-> p,
                          position |-> IF closedFirst THEN lastStage + 2 - s ELSE s - lastStage - 1,
                          kind |-> IF s = lastStage + 1 THEN "open" ELSE "closed",
                          imported |-> FALSE]]
    /\ lastStage' = lastStage + 2
    /\ UNCHANGED <<deal, active, required, renumbering, request>> /\ UNCHANGED archived

(* delete_pipeline locks its own row only; the others it counts may go     *)
(* meanwhile, and the last active one with them.                           *)
BeginDeletePipeline(r, p) ==
    /\ p \in pipeline /\ ~Locked(p)
    /\ \A d \in DOMAIN deal : deal[d].pipeline # p /\ deal[d].history \cap Stages(p) = {}
    /\ p \in archived \/ Cardinality(Active) > 1
    /\ Starts(r, [op |-> "delete pipeline", pipeline |-> p])
    /\ UNCHANGED <<pipeline, stage, lastStage, deal, active, required, renumbering>> /\ UNCHANGED archived

(* A deal that comes meanwhile waits for the lock. *)
DeletePipeline(r) ==
    /\ request[r].op = "delete pipeline"
    /\ LET p == request[r].pipeline
       IN  /\ pipeline' = pipeline \ {p} /\ archived' = archived \ {p}
           /\ stage' = Restrict(stage, DOMAIN stage \ Stages(p))
           /\ required' = [s \in StageId |-> IF s \in Stages(p) THEN {} ELSE required[s]]
    /\ Ends(r)
    /\ UNCHANGED <<lastStage, deal, active, renumbering>>

-------------------------------------------------------------------------------
(* A new stage goes before the first that is not open.  All stages of the  *)
(* pipeline are moved out of the way and then to their places, by updates  *)
(* of single rows, each held to the unique key of pipeline and position.   *)

(* Faulty variant of Offset: it reaches the first free position. *)
OffsetOneLess(positions) == IF positions = {} THEN 1 ELSE Max(positions) + 1

Offset(positions) == IF positions = {} THEN 1 ELSE Max(positions) + 2

RankOf(s, ids) == Cardinality({t \in ids : stage[t].position < stage[s].position})

BeginCreateStage(p) ==
    /\ p \in pipeline /\ ~Locked(p) /\ renumbering = NoRenumbering
    /\ lastStage < MaxStage
    /\ LET ids == Stages(p)
           notOpen == ids \ OpenStages(p)
           insertAt == IF notOpen = {} THEN Cardinality(ids)
                       ELSE Min({RankOf(s, ids) : s \in notOpen})
           offset == Offset({stage[s].position : s \in ids})
       IN  renumbering' = [pipeline |-> p,
                           shift |-> [s \in ids |-> stage[s].position + offset],
                           place |-> [s \in ids \cup {lastStage + 1} |->
                                        IF s \notin ids THEN insertAt
                                        ELSE IF RankOf(s, ids) < insertAt THEN RankOf(s, ids)
                                        ELSE RankOf(s, ids) + 1]]
    /\ lastStage' = lastStage + 1
    /\ UNCHANGED <<pipeline, stage, deal, active, required, request>> /\ UNCHANGED archived

ShiftStage(s) ==
    /\ stage' = [stage EXCEPT ![s].position = renumbering.shift[s]]
    /\ renumbering' = [renumbering EXCEPT !.shift = Restrict(@, DOMAIN @ \ {s})]
    /\ UNCHANGED <<pipeline, lastStage, deal, active, required, request>> /\ UNCHANGED archived

PlaceStage(s) ==
    /\ renumbering.shift = <<>>
    /\ stage' = [t \in DOMAIN stage \cup {s} |->
                    IF t # s THEN stage[t]
                    ELSE IF s \in DOMAIN stage
                    THEN [stage[s] EXCEPT !.position = renumbering.place[s]]
                    ELSE [pipeline |-> renumbering.pipeline, kind |-> "open",
                          position |-> renumbering.place[s], imported |-> FALSE]]
    /\ renumbering' = IF DOMAIN renumbering.place = {s} THEN NoRenumbering
                      ELSE [renumbering EXCEPT !.place = Restrict(@, DOMAIN @ \ {s})]
    /\ UNCHANGED <<pipeline, lastStage, deal, active, required, request>> /\ UNCHANGED archived

(* delete_stage finds the pipeline of the stage before it locks it; the    *)
(* row it reads again, locked, is the object it has.                       *)
ReadStage(r, s) ==
    /\ s \in DOMAIN stage
    /\ Starts(r, [op |-> "delete stage", stage |-> s])
    /\ UNCHANGED <<pipeline, stage, lastStage, deal, active, required, renumbering>> /\ UNCHANGED archived

(* Faulty variant of Deletable: the stages are counted with the closed.    *)
DeletableAnyCount(s) ==
    /\ stage[s].kind = "open" /\ Cardinality(Stages(stage[s].pipeline)) > 1
    /\ \A d \in DOMAIN deal : s # deal[d].stage /\ s \notin deal[d].history

(* Open, on no deal and in no deal's history, and not the last open one.   *)
Deletable(s) ==
    /\ stage[s].kind = "open" /\ Cardinality(OpenStages(stage[s].pipeline)) > 1
    /\ \A d \in DOMAIN deal : s # deal[d].stage /\ s \notin deal[d].history

DeleteStage(r) ==
    /\ request[r].op = "delete stage"
    /\ LET s == request[r].stage
       IN  /\ s \in DOMAIN stage => ~Locked(stage[s].pipeline)
           /\ IF s \in DOMAIN stage /\ Deletable(s)
              THEN /\ stage' = Restrict(stage, DOMAIN stage \ {s})
                   /\ required' = [required EXCEPT ![s] = {}]
              ELSE UNCHANGED <<stage, required>>
    /\ Ends(r)
    /\ UNCHANGED <<pipeline, lastStage, deal, active, renumbering>> /\ UNCHANGED archived

-------------------------------------------------------------------------------
(* Deals.  Read first: the deal's pipeline and version, and the target;    *)
(* a stage that is gone when the row is written is missed by a foreign key. *)

CreateDeal(d, s) ==
    /\ d \notin DOMAIN deal
    /\ s \in DOMAIN stage /\ ~Locked(stage[s].pipeline)
    /\ deal' = [e \in DOMAIN deal \cup {d} |->
                   IF e = d THEN [pipeline |-> stage[s].pipeline, stage |-> s,
                                  version |-> 1, history |-> {s}, imported |-> FALSE]
                   ELSE deal[e]]
    /\ UNCHANGED <<pipeline, stage, lastStage, active, required, renumbering, request>> /\ UNCHANGED archived

UpdateDeal(d) ==
    /\ deal[d].version < MaxVersion
    /\ deal' = [deal EXCEPT ![d].version = @ + 1]
    /\ UNCHANGED <<pipeline, stage, lastStage, active, required, renumbering, request>> /\ UNCHANGED archived

ReadTarget(r, d, s) ==
    /\ s \in Stages(deal[d].pipeline) /\ s # deal[d].stage
    /\ Starts(r, [op |-> "move deal", deal |-> d, stage |-> s, expected |-> deal[d].version])
    /\ UNCHANGED <<pipeline, stage, lastStage, deal, active, required, renumbering>> /\ UNCHANGED archived

TransitionDealStage(r) ==
    /\ request[r].op = "move deal"
    /\ LET q == request[r]
       IN  deal' = IF /\ deal[q.deal].version = q.expected /\ q.expected < MaxVersion
                      /\ q.stage \in DOMAIN stage
                   THEN [deal EXCEPT ![q.deal] =
                           [pipeline |-> @.pipeline, stage |-> q.stage, version |-> @.version + 1,
                            history |-> @.history \cup {@.stage, q.stage},
                            imported |-> @.imported]]
                   ELSE deal
    /\ Ends(r)
    /\ UNCHANGED <<pipeline, stage, lastStage, active, required, renumbering>> /\ UNCHANGED archived

-------------------------------------------------------------------------------
(* Pages of an amoCRM import, with one entity each.  What they read is not *)
(* locked: a row that is gone, or a position taken, when they write fails  *)
(* the page by a foreign key or the unique key, which is no step.  A row   *)
(* that refers to a locked pipeline waits for it.                          *)

(* A pipeline comes without stages; amoCRM may have archived it. *)
ImportPipeline(p, archive) ==
    /\ p \in AmoPipeline /\ ~Locked(p)
    /\ pipeline' = pipeline \cup {p}
    /\ archived' = IF archive THEN archived \cup {p} ELSE archived \ {p}
    /\ UNCHANGED <<stage, lastStage, deal, active, required, renumbering, request>>

(* The position is the first free one from amoCRM's sort on.  The kind is  *)
(* told by the id amoCRM gives a stage, so a later page leaves it.         *)
ImportStage(p, kind, position) ==
    /\ p \in pipeline \cap AmoPipeline /\ ~Locked(p) /\ lastStage < MaxStage
    /\ \A s \in Stages(p) : stage[s].position # position
    /\ stage' = [s \in DOMAIN stage \cup {lastStage + 1} |->
                    IF s \in DOMAIN stage THEN stage[s]
                    ELSE [pipeline |-> p, position |-> position, kind |-> kind, imported |-> TRUE]]
    /\ lastStage' = lastStage + 1
    /\ UNCHANGED <<pipeline, archived, deal, active, required, renumbering, request>>

(* A deal follows amoCRM into any imported stage, without a row of history. *)
ImportDeal(d, s) ==
    /\ s \in DOMAIN stage /\ stage[s].imported /\ ~Locked(stage[s].pipeline)
    /\ d \in DOMAIN deal => deal[d].imported /\ deal[d].version < MaxVersion
    /\ deal' = [e \in DOMAIN deal \cup {d} |->
                   IF e # d THEN deal[e]
                   ELSE [pipeline |-> stage[s].pipeline, stage |-> s, imported |-> TRUE,
                         version |-> IF d \in DOMAIN deal THEN deal[d].version + 1 ELSE 1,
                         history |-> IF d \in DOMAIN deal THEN deal[d].history ELSE {}]]
    /\ UNCHANGED <<pipeline, archived, stage, lastStage, active, required, renumbering, request>>

-------------------------------------------------------------------------------
(* Required fields.  The definitions are locked and found active; the old  *)
(* rows are deleted as the statement sees them.                            *)

ReadFields(r, s, fields) ==
    /\ s \in DOMAIN stage
    /\ fields \subseteq active \ LockedFields
    /\ Starts(r, [op |-> "require fields", stage |-> s, fields |-> fields,
                  old |-> required[s]])
    /\ UNCHANGED <<pipeline, stage, lastStage, deal, active, required, renumbering>> /\ UNCHANGED archived

ReplaceRequiredFields(r) ==
    /\ request[r].op = "require fields"
    /\ LET q == request[r]
       IN  required' = IF q.stage \in DOMAIN stage
                       THEN [required EXCEPT ![q.stage] = (@ \ q.old) \cup q.fields]
                       ELSE required
    /\ Ends(r)
    /\ UNCHANGED <<pipeline, stage, lastStage, deal, active, renumbering>> /\ UNCHANGED archived

DeleteCustomField(f) ==
    /\ f \in active \ LockedFields
    /\ active' = active \ {f}
    /\ required' = [s \in StageId |-> required[s] \ {f}]
    /\ UNCHANGED <<pipeline, stage, lastStage, deal, renumbering, request>> /\ UNCHANGED archived

Next ==
    \/ \E p \in Pipeline :
          \/ BeginCreateStage(p)
          \/ \E closedFirst \in BOOLEAN : CreatePipeline(p, closedFirst)
          \/ \E r \in Request : BeginDeletePipeline(r, p)
          \/ \E archive \in BOOLEAN : ImportPipeline(p, archive)
          \/ \E kind \in Kind, position \in Sort : ImportStage(p, kind, position)
    \/ \E s \in DOMAIN renumbering.shift : ShiftStage(s)
    \/ \E s \in DOMAIN renumbering.place : PlaceStage(s)
    \/ \E s \in DOMAIN stage : \E d \in Deal : CreateDeal(d, s) \/ ImportDeal(d, s)
    \/ \E d \in DOMAIN deal : UpdateDeal(d)
    \/ \E f \in Field : DeleteCustomField(f)
    \/ \E r \in Request :
          \/ DeletePipeline(r) \/ DeleteStage(r) \/ TransitionDealStage(r)
          \/ ReplaceRequiredFields(r)
          \/ \E s \in StageId :
                \/ ReadStage(r, s)
                \/ \E d \in DOMAIN deal : ReadTarget(r, d, s)
                \/ \E fields \in SUBSET Field : ReadFields(r, s, fields)

Spec == Init /\ [][Next]_vars

-------------------------------------------------------------------------------
(* No statement of a renumbering, in whatever order the rows are written,  *)
(* meets a position that is taken.                                         *)
PositionsDistinct ==
    \A s, t \in DOMAIN stage :
        s # t /\ stage[s].pipeline = stage[t].pipeline => stage[s].position # stage[t].position

StagesHold ==
    /\ PositionsDistinct
    /\ \A p \in pipeline \ AmoPipeline : OpenStages(p) # {}
    /\ \A d \in DOMAIN deal : deal[d].stage \in Stages(deal[d].pipeline)
    /\ \A s \in StageId : required[s] \subseteq active

(* An imported pipeline may have no stage yet. *)
OpenStagesKept == \A p \in pipeline \cap pipeline' : OpenStages(p) # {} => OpenStages(p)' # {}

(* Whatever is created, imported, moved and deleted at a time, positions   *)
(* are distinct; a pipeline made here has an open stage, and one that has  *)
(* any keeps one; a deal stands on a stage of its own pipeline, and no     *)
(* field that was deleted is required.                                     *)
PipelinesKept == StagesHold' /\ OpenStagesKept

PipelinesHold == [][PipelinesKept]_vars
===============================================================================
