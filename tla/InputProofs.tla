----------------------------- MODULE InputProofs ------------------------------
(*****************************************************************************)
(* Proofs about the parts of Workspace that take in what comes from outside: *)
(* webhooks and forms, mails, the tokens of amoCRM, the rows of its pages, and*)
(* tables of licences.  Each part has an inductive invariant of its own, which*)
(* a step of another part leaves alone.                                      *)
(*****************************************************************************)
EXTENDS Workspace, FiniteSetTheorems, SequenceTheorems, WellFoundedInduction, TLAPS

(* The types without their bounds, as far as the argument needs them. *)
CallStage == {"idle", "started", "matched", "failing", "ok", "error"}
MatchFound == [contact : Nat, known : BOOLEAN, ambiguous : BOOLEAN, deal : Nat]
Routed == [open : BOOLEAN, contact : Nat]

Shapes ==
    /\ item \in [Item -> {"absent", "accepted", "processed", "failed"}]
    /\ call \in [Item -> [stage : CallStage, match : MatchFound]]
    /\ contact \in Seq(Intakes!Contact)
    /\ identity \in Nat
    /\ lead \in Seq(Routed)
    /\ conversation \in [Intakes!Thread -> [deal : Nat, contact : Nat]]
    /\ stored \in [Intakes!Message -> Nat]

(* A message has a row exactly if an item that carries it is processed. *)
Carried(m) == \E i \in Item : MessageOf[i] = m /\ item[i] = "processed"

Once == \A m \in Intakes!Message : stored[m] = IF Carried(m) THEN 1 ELSE 0

(* A call that has read a new thread still has its item to process: only   *)
(* the item's own call settles it.                                         *)
Waiting == \A i \in Item : call[i].stage = "matched" => item[i] = "accepted"

(* What was processed has left its conversation, which stays; so who finds *)
(* none has a message that nobody stored.                                  *)
Followed == \A i \in Item : item[i] = "processed" => Intakes!Known(i)

IntakeInv == Shapes /\ Once /\ Waiting /\ Followed

LEMMA OnceIsStoredOnce == Once <=> Intakes!StoredOnce
BY DEF Once, Intakes!StoredOnce, Carried

LEMMA KeysAre == \A i \in Item : MessageOf[i] \in Intakes!Message /\ ThreadOf[i] \in Intakes!Thread
BY DEF Intakes!Message, Intakes!Thread

-------------------------------------------------------------------------------
LEMMA AtFound ==
    ASSUME NEW st \in CallStage
    PROVE  Intakes!At(st, Intakes!NoMatch) \in [stage : CallStage, match : MatchFound]
               /\ Intakes!At(st, Intakes!NoMatch).stage = st
BY DEF Intakes!At, Intakes!NoMatch, MatchFound

LEMMA GoesCall ==
    ASSUME Shapes, NEW i \in Item, NEW st \in CallStage, Intakes!Goes(i, st)
    PROVE  /\ call' \in [Item -> [stage : CallStage, match : MatchFound]]
           /\ call'[i].stage = st
           /\ \A j \in Item : j # i => call'[j] = call[j]
BY AtFound DEF Shapes, Intakes!Goes

(* Steps of the queue and its calls that touch no row. *)
LEMMA CallMoves ==
    ASSUME IntakeInv, UNCHANGED <<item, Intakes!crm>>, NEW i \in Item,
           call' \in [Item -> [stage : CallStage, match : MatchFound]],
           \A j \in Item : j # i => call'[j] = call[j],
           call'[i].stage = "matched" => item[i] = "accepted"
    PROVE  IntakeInv'
<1>1. Shapes'
  BY DEF IntakeInv, Shapes, Intakes!crm
<1>2. Once'
  BY DEF IntakeInv, Once, Carried, Intakes!crm
<1>3. Waiting'
  BY DEF IntakeInv, Waiting
<1>4. Followed'
  BY DEF IntakeInv, Followed, Intakes!Known, Intakes!crm
<1> QED BY <1>1, <1>2, <1>3, <1>4 DEF IntakeInv

(* Users' work on contacts and deals. *)
LEMMA UsersKeep ==
    ASSUME IntakeInv, UNCHANGED <<item, call, conversation, stored>>,
           contact' \in Seq(Intakes!Contact), identity' \in Nat, lead' \in Seq(Routed)
    PROVE  IntakeInv'
<1>1. Shapes'
  BY DEF IntakeInv, Shapes
<1>2. Once' /\ Waiting' /\ Followed'
  BY DEF IntakeInv, Once, Carried, Waiting, Followed, Intakes!Known
<1> QED BY <1>1, <1>2 DEF IntakeInv

(* An item whose status changes, but not to or from "processed". *)
LEMMA ItemMoves ==
    ASSUME IntakeInv, UNCHANGED Intakes!crm, NEW i \in Item,
           NEW st \in {"absent", "accepted", "failed"},
           item' = [item EXCEPT ![i] = st], item[i] # "processed",
           call' \in [Item -> [stage : CallStage, match : MatchFound]],
           \A j \in Item : j # i => call'[j] = call[j],
           call'[i].stage = "matched" => st = "accepted"
    PROVE  IntakeInv'
<1>1. /\ item' \in [Item -> {"absent", "accepted", "processed", "failed"}]
      /\ item'[i] = st /\ \A j \in Item : j # i => item'[j] = item[j]
  BY DEF IntakeInv, Shapes
<1>2. Shapes'
  BY <1>1 DEF IntakeInv, Shapes, Intakes!crm
<1>3. \A j \in Item : item'[j] = "processed" <=> item[j] = "processed"
  BY <1>1
<1>4. Once'
  BY <1>3 DEF IntakeInv, Once, Carried, Intakes!crm
<1>5. Waiting'
  BY <1>1 DEF IntakeInv, Waiting
<1>6. Followed'
  BY <1>3 DEF IntakeInv, Followed, Intakes!Known, Intakes!crm
<1> QED BY <1>2, <1>4, <1>5, <1>6 DEF IntakeInv

(* An item is processed; its message is stored now, or was before. *)
LEMMA ItemIsProcessed ==
    ASSUME IntakeInv, NEW i \in Item,
           item' = [item EXCEPT ![i] = "processed"], Intakes!Goes(i, "ok"),
           contact' \in Seq(Intakes!Contact), identity' \in Nat, lead' \in Seq(Routed),
           conversation' \in [Intakes!Thread -> [deal : Nat, contact : Nat]],
           \A t \in Intakes!Thread : conversation[t].deal # 0 \/ t = ThreadOf[i]
                                => conversation'[t].deal # 0,
           \/ UNCHANGED stored /\ stored[MessageOf[i]] > 0
           \/ /\ stored' = [stored EXCEPT ![MessageOf[i]] = @ + 1]
              /\ stored[MessageOf[i]] = 0
    PROVE  IntakeInv'
<1>0. Shapes /\ Once /\ Waiting /\ Followed
  BY DEF IntakeInv
<1>1. /\ item' \in [Item -> {"absent", "accepted", "processed", "failed"}]
      /\ item'[i] = "processed" /\ \A j \in Item : j # i => item'[j] = item[j]
  BY <1>0 DEF Shapes
<1>2. /\ call' \in [Item -> [stage : CallStage, match : MatchFound]]
      /\ call'[i].stage = "ok" /\ \A j \in Item : j # i => call'[j] = call[j]
  BY <1>0, GoesCall DEF CallStage
<1>3. /\ stored' \in [Intakes!Message -> Nat] /\ stored'[MessageOf[i]] = 1
      /\ \A m \in Intakes!Message : m # MessageOf[i] => stored'[m] = stored[m]
  <2>1. MessageOf[i] \in Intakes!Message /\ stored \in [Intakes!Message -> Nat]
    BY <1>0, KeysAre DEF Shapes
  <2>2. stored[MessageOf[i]] \in {0, 1}
    BY <1>0, <2>1 DEF Once
  <2>3. CASE UNCHANGED stored /\ stored[MessageOf[i]] > 0
    BY <2>1, <2>2, <2>3
  <2>4. CASE /\ stored' = [stored EXCEPT ![MessageOf[i]] = @ + 1]
             /\ stored[MessageOf[i]] = 0
    BY <2>1, <2>4
  <2> QED BY <2>3, <2>4
<1>4. Shapes'
  BY <1>1, <1>2, <1>3 DEF Shapes
<1>5. Once'
  <2> SUFFICES ASSUME NEW m \in Intakes!Message
               PROVE  stored'[m] = IF Carried(m)' THEN 1 ELSE 0
    BY DEF Once
  <2>1. CASE m = MessageOf[i]
    BY <1>1, <1>3, <2>1 DEF Carried
  <2>2. CASE m # MessageOf[i]
    <3>1. Carried(m)' <=> Carried(m)
      BY <1>1, <2>2 DEF Carried
    <3>2. QED BY <1>0, <1>3, <2>2, <3>1 DEF Once
  <2> QED BY <2>1, <2>2
<1>6. Waiting'
  BY <1>0, <1>1, <1>2 DEF Waiting
<1>7. Followed'
  BY <1>0, <1>1, KeysAre DEF Followed, Intakes!Known
<1> QED BY <1>4, <1>5, <1>6, <1>7 DEF IntakeInv

-------------------------------------------------------------------------------
LEMMA IntakesCounted == ASSUME NEW S PROVE Intakes!Cardinality(S) = Cardinality(S)
BY DEF Intakes!Cardinality, Cardinality

LEMMA ByAddressFound == Shapes => Intakes!ByAddress \in MatchFound
<1> SUFFICES ASSUME Shapes PROVE Intakes!ByAddress \in MatchFound
  OBVIOUS
<1>1. Intakes!Holders \subseteq Nat
  BY DEF Intakes!Holders, Shapes
<1>2. CASE Intakes!Cardinality(Intakes!Holders) > 1
  <2>1. Intakes!Cardinality(Intakes!Holders) # 1
    BY <1>2
  <2>2. Intakes!ByAddress = [Intakes!NoMatch EXCEPT !.ambiguous = TRUE]
    BY <1>2, <2>1 DEF Intakes!ByAddress
  <2> QED BY <2>2 DEF Intakes!NoMatch, MatchFound
<1>3. CASE ~(Intakes!Cardinality(Intakes!Holders) > 1) /\ Intakes!Cardinality(Intakes!Holders) = 1
  <2>1. Intakes!Holders # {}
    BY <1>3, IntakesCounted, FS_EmptySet
  <2>2. (CHOOSE c \in Intakes!Holders : TRUE) \in Nat
    BY <1>1, <2>1
  <2>3. Intakes!ByAddress = [Intakes!NoMatch EXCEPT !.contact = CHOOSE c \in Intakes!Holders : TRUE]
    BY <1>3 DEF Intakes!ByAddress
  <2> QED BY <2>2, <2>3 DEF Intakes!NoMatch, MatchFound
<1>4. CASE ~(Intakes!Cardinality(Intakes!Holders) > 1) /\ ~(Intakes!Cardinality(Intakes!Holders) = 1)
  BY <1>4 DEF Intakes!ByAddress, Intakes!NoMatch, MatchFound
<1> QED BY <1>2, <1>3, <1>4

LEMMA ResolvedFound == ASSUME Shapes, NEW i PROVE Intakes!Resolved(i) \in MatchFound
<1>1. Intakes!ByAddress \in MatchFound /\ Intakes!ByIdentity \in MatchFound
          /\ Intakes!NoMatch \in MatchFound
  BY ByAddressFound DEF Intakes!ByIdentity, Intakes!NoMatch, MatchFound, Shapes
<1> QED BY <1>1 DEF Intakes!Resolved

LEMMA ReadNewThreadInv == ASSUME IntakeInv, NEW i \in Item, Intakes!ReadNewThread(i) PROVE IntakeInv'
<1>1. Shapes
  BY DEF IntakeInv
<1>2. PICK d \in IF Intakes!OpenDeals(Intakes!Resolved(i).contact) = {} THEN {0}
                 ELSE Intakes!OpenDeals(Intakes!Resolved(i).contact) :
         call' = [call EXCEPT ![i] = Intakes!At("matched", [Intakes!Resolved(i) EXCEPT !.deal = d])]
  BY DEF Intakes!ReadNewThread
<1>3. d \in Nat
  BY <1>1, <1>2 DEF Intakes!OpenDeals, Shapes
<1>4. Intakes!At("matched", [Intakes!Resolved(i) EXCEPT !.deal = d])
        \in [stage : CallStage, match : MatchFound]
  BY <1>1, <1>3, ResolvedFound DEF Intakes!At, CallStage, MatchFound
<1>5. /\ call' \in [Item -> [stage : CallStage, match : MatchFound]]
      /\ \A j \in Item : j # i => call'[j] = call[j]
  BY <1>1, <1>2, <1>4 DEF Shapes
<1>6. UNCHANGED <<item, Intakes!crm>> /\ item[i] = "accepted"
  BY DEF Intakes!ReadNewThread
<1> QED BY <1>5, <1>6, CallMoves

(* The conversation and the deal of what is routed. *)
LEMMA Opened ==
    ASSUME Shapes, NEW t \in Intakes!Thread, NEW d \in Nat, NEW c \in Nat,
           Intakes!OpenConversationDeal(t, lead, d, c)
    PROVE  /\ lead' \in Seq(Routed)
           /\ conversation' \in [Intakes!Thread -> [deal : Nat, contact : Nat]]
           /\ \A u \in Intakes!Thread : conversation[u].deal # 0 \/ u = t => conversation'[u].deal # 0
<1>1. lead \in Seq(Routed) /\ Len(lead) \in Nat
  BY DEF Shapes
<1>2. CASE d # 0 /\ lead[d].open
  BY <1>1, <1>2 DEF Intakes!OpenConversationDeal, Shapes
<1>3. CASE ~(d # 0 /\ lead[d].open)
  <2>1. /\ lead' = Append(lead, [open |-> TRUE, contact |-> c])
        /\ conversation' = [conversation EXCEPT ![t] = [deal |-> Len(lead) + 1, contact |-> c]]
    BY <1>3 DEF Intakes!OpenConversationDeal
  <2>2. lead' \in Seq(Routed)
    BY <1>1, <2>1, AppendProperties DEF Routed
  <2>3. Len(lead) + 1 \in Nat /\ Len(lead) + 1 # 0
    BY <1>1
  <2> QED BY <2>1, <2>2, <2>3 DEF Shapes
<1> QED BY <1>2, <1>3

LEMMA Contacted ==
    ASSUME Shapes, NEW m \in MatchFound, NEW address \in BOOLEAN, Intakes!NewContact(m, address)
    PROVE  contact' \in Seq(Intakes!Contact) /\ Intakes!ContactOf(m) \in Nat
<1>1. contact \in Seq(Intakes!Contact) /\ Len(contact) \in Nat
  BY DEF Shapes
<1>2. [live |-> TRUE, address |-> address] \in Intakes!Contact
  BY DEF Intakes!Contact
<1>3. contact' \in Seq(Intakes!Contact)
  BY <1>1, <1>2, AppendProperties DEF Intakes!NewContact
<1> QED BY <1>1, <1>3 DEF Intakes!ContactOf, MatchFound

LEMMA RouteKnownThreadInv == ASSUME IntakeInv, NEW i \in Item, Intakes!RouteKnownThread(i)
                             PROVE IntakeInv'
<1>1. Shapes /\ ThreadOf[i] \in Intakes!Thread
  BY KeysAre DEF IntakeInv
<1> DEFINE cv == conversation[ThreadOf[i]]
<1>2. cv.deal \in Nat /\ cv.contact \in Nat
  BY <1>1 DEF Shapes
<1>3. Intakes!OpenConversationDeal(ThreadOf[i], lead, cv.deal, cv.contact)
  BY DEF Intakes!RouteKnownThread
<1> HIDE DEF cv
<1>4. /\ lead' \in Seq(Routed)
      /\ conversation' \in [Intakes!Thread -> [deal : Nat, contact : Nat]]
      /\ \A u \in Intakes!Thread : conversation[u].deal # 0 \/ u = ThreadOf[i]
                              => conversation'[u].deal # 0
  BY <1>1, <1>2, <1>3, Opened
<1>5. /\ contact' \in Seq(Intakes!Contact) /\ identity' \in Nat
      /\ item' = [item EXCEPT ![i] = "processed"] /\ Intakes!Goes(i, "ok")
      /\ stored' = [stored EXCEPT ![MessageOf[i]] = @ + 1] /\ stored[MessageOf[i]] = 0
  BY <1>1 DEF Intakes!RouteKnownThread, Intakes!Stores, Shapes
<1> QED BY <1>4, <1>5, ItemIsProcessed

(* Who finds no conversation stores what nobody has stored. *)
LEMMA RouteNewInv ==
    ASSUME IntakeInv, NEW i \in Item, Intakes!RouteNewThread(i) \/ Intakes!RouteLead(i)
    PROVE  IntakeInv'
<1>1. Shapes /\ Once /\ Followed /\ ThreadOf[i] \in Intakes!Thread /\ MessageOf[i] \in Intakes!Message
  BY KeysAre DEF IntakeInv
<1> DEFINE m == call[i].match
<1>2. m \in MatchFound /\ m.deal \in Nat
  BY <1>1 DEF Shapes, MatchFound
<1>3. \E address \in BOOLEAN : Intakes!NewContact(m, address)
  <2>1. CASE Intakes!RouteLead(i)
    BY <2>1 DEF Intakes!RouteLead
  <2>2. CASE Intakes!RouteNewThread(i)
    <3>1. Intakes!NewContact(m, ByEmail)
      BY <2>2 DEF Intakes!RouteNewThread
    <3> QED BY <3>1, IntakeAssumption
  <2> QED BY <2>1, <2>2
<1>4. /\ Intakes!OpenConversationDeal(ThreadOf[i], lead, m.deal, Intakes!ContactOf(m))
      /\ identity' = identity \/ identity' = Intakes!ContactOf(m)
      /\ item' = [item EXCEPT ![i] = "processed"] /\ Intakes!Goes(i, "ok")
      /\ stored' = [stored EXCEPT ![MessageOf[i]] = @ + 1]
      /\ ~Intakes!Known(i)
  BY DEF Intakes!RouteLead, Intakes!RouteNewThread, Intakes!Stores, Intakes!Collides
<1> HIDE DEF m
<1>5. contact' \in Seq(Intakes!Contact) /\ Intakes!ContactOf(m) \in Nat
  BY <1>1, <1>2, <1>3, Contacted
<1>6. /\ lead' \in Seq(Routed)
      /\ conversation' \in [Intakes!Thread -> [deal : Nat, contact : Nat]]
      /\ \A u \in Intakes!Thread : conversation[u].deal # 0 \/ u = ThreadOf[i]
                              => conversation'[u].deal # 0
  BY <1>1, <1>2, <1>4, <1>5, Opened
<1>7. stored[MessageOf[i]] = 0
  <2>1. ~Carried(MessageOf[i])
    BY <1>1, <1>4, IntakeAssumption DEF Carried, Followed, Intakes!Known
  <2> QED BY <1>1, <2>1 DEF Once
<1>8. identity' \in Nat
  BY <1>1, <1>4, <1>5 DEF Shapes
<1> QED BY <1>4, <1>5, <1>6, <1>7, <1>8, ItemIsProcessed

LEMMA DropDuplicateInv == ASSUME IntakeInv, NEW i \in Item, Intakes!DropDuplicate(i) PROVE IntakeInv'
<1>1. Shapes /\ ThreadOf[i] \in Intakes!Thread
  BY KeysAre DEF IntakeInv
<1>2. /\ item' = [item EXCEPT ![i] = "processed"] /\ Intakes!Goes(i, "ok") /\ Intakes!Known(i)
      /\ UNCHANGED Intakes!crm /\ stored[MessageOf[i]] > 0
  BY DEF Intakes!DropDuplicate
<1>3. /\ contact' \in Seq(Intakes!Contact) /\ identity' \in Nat /\ lead' \in Seq(Routed)
      /\ conversation' = conversation /\ stored' = stored
      /\ conversation' \in [Intakes!Thread -> [deal : Nat, contact : Nat]]
  BY <1>1, <1>2 DEF Shapes, Intakes!crm
<1>4. \A t \in Intakes!Thread : conversation[t].deal # 0 \/ t = ThreadOf[i]
                           => conversation'[t].deal # 0
  BY <1>2, <1>3 DEF Intakes!Known
<1> QED BY <1>2, <1>3, <1>4, ItemIsProcessed

-------------------------------------------------------------------------------
(* What a handler call does besides routing. *)
LEMMA HandleInv ==
    ASSUME IntakeInv, NEW i \in Item, Intakes!Handle(i)
    PROVE  IntakeInv'
<1>0. Shapes
  BY DEF IntakeInv
<1>1. ASSUME NEW st \in {"ok", "error", "failing"}, Intakes!Goes(i, st), UNCHANGED <<item, Intakes!crm>>
      PROVE  IntakeInv'
  BY <1>0, <1>1, GoesCall, CallMoves DEF CallStage
<1>2. CASE Intakes!ReturnSettled(i)
  BY <1>1, <1>2 DEF Intakes!ReturnSettled
<1>3. CASE Intakes!Refuse(i)
  BY <1>1, <1>3 DEF Intakes!Refuse
<1>4. CASE Intakes!Timeout(i)
  BY <1>1, <1>4 DEF Intakes!Timeout
<1>5. CASE Intakes!MarkFailedIfTerminal(i)
  <2>1. CASE intakeJob[i].attempts >= MaxAttempts /\ item[i] # "processed"
    <3>1. /\ item' = [item EXCEPT ![i] = "failed"] /\ item[i] # "processed"
          /\ Intakes!Goes(i, "error") /\ UNCHANGED Intakes!crm
      BY <1>5, <2>1 DEF Intakes!MarkFailedIfTerminal
    <3>2. /\ call' \in [Item -> [stage : CallStage, match : MatchFound]]
          /\ call'[i].stage = "error" /\ \A j \in Item : j # i => call'[j] = call[j]
      BY <1>0, <3>1, GoesCall DEF CallStage
    <3> QED BY <3>1, <3>2, ItemMoves
  <2>2. CASE ~(intakeJob[i].attempts >= MaxAttempts /\ item[i] # "processed")
    BY <1>1, <1>5, <2>2 DEF Intakes!MarkFailedIfTerminal
  <2> QED BY <2>1, <2>2
<1> QED
  BY <1>2, <1>3, <1>4, <1>5, DropDuplicateInv, RouteKnownThreadInv, ReadNewThreadInv,
     RouteNewInv DEF Intakes!Handle

LEMMA ItemInv ==
    ASSUME IntakeInv, NEW i \in Item,
           \/ Intakes!ProviderWebhook(i) \/ Intakes!GenericWebhook(i) \/ Intakes!SubmitForm(i)
           \/ Intakes!Enqueue(i) \/ Intakes!RetryJob(i) \/ Intakes!Claim(i) \/ Intakes!Acknowledge(i)
                  \/ Intakes!Recover(i)
    PROVE  IntakeInv'
<1>0. Shapes
  BY DEF IntakeInv
<1>1. CASE Intakes!ProviderWebhook(i) \/ Intakes!GenericWebhook(i) \/ Intakes!SubmitForm(i)
  <2>1. /\ item[i] = "absent" /\ item' = [item EXCEPT ![i] = "accepted"]
        /\ UNCHANGED call /\ UNCHANGED Intakes!crm
    BY <1>1 DEF Intakes!ProviderWebhook, Intakes!GenericWebhook, Intakes!SubmitForm, Intakes!Accepted
  <2>2. call' \in [Item -> [stage : CallStage, match : MatchFound]]
    BY <1>0, <2>1 DEF Shapes
  <2> QED BY <2>1, <2>2, ItemMoves
<1>2. ASSUME UNCHANGED call, UNCHANGED <<item, Intakes!crm>> PROVE IntakeInv'
  <2>1. call' \in [Item -> [stage : CallStage, match : MatchFound]]
    BY <1>0, <1>2 DEF Shapes
  <2>2. call'[i].stage = "matched" => item[i] = "accepted"
    BY <1>2 DEF IntakeInv, Waiting
  <2> QED BY <1>2, <2>1, <2>2, CallMoves
<1>3. ASSUME NEW st \in {"started", "idle"}, Intakes!Goes(i, st), UNCHANGED <<item, Intakes!crm>>
      PROVE IntakeInv'
  BY <1>0, <1>3, GoesCall, CallMoves DEF CallStage
<1>4. CASE Intakes!Enqueue(i) \/ Intakes!RetryJob(i) \/ Intakes!Recover(i)
  BY <1>2, <1>4 DEF Intakes!Enqueue, Intakes!RetryJob, Intakes!Recover
<1>5. CASE Intakes!Claim(i) \/ Intakes!Acknowledge(i)
  BY <1>2, <1>3, <1>5 DEF Intakes!Claim, Intakes!Acknowledge
<1> QED BY <1>1, <1>4, <1>5

LEMMA UserInv ==
    ASSUME IntakeInv,
           \/ \E d \in DOMAIN lead : Intakes!MoveDeal(d)
           \/ \E c \in DOMAIN contact : Intakes!UpdateContact(c) \/ Intakes!DeleteContact(c)
           \/ \E address \in BOOLEAN : Intakes!CreateContact(address)
    PROVE  IntakeInv'
<1>0. /\ contact \in Seq(Intakes!Contact) /\ identity \in Nat /\ lead \in Seq(Routed)
  BY DEF IntakeInv, Shapes
<1>1. ASSUME NEW d \in DOMAIN lead, Intakes!MoveDeal(d) PROVE IntakeInv'
  <2>1. d \in 1..Len(lead) /\ lead[d] \in Routed
    BY <1>0
  <2> DEFINE r == [lead[d] EXCEPT !.open = ~@]
  <2>2. r \in Routed
    BY <2>1 DEF Routed
  <2>3. lead' = [lead EXCEPT ![d] = r]
    BY <1>1 DEF Intakes!MoveDeal
  <2> HIDE DEF r
  <2>4. lead' \in Seq(Routed)
    BY <1>0, <2>1, <2>2, <2>3, ExceptSeq
  <2>5. UNCHANGED <<item, call, conversation, stored, contact, identity>>
    BY <1>1 DEF Intakes!MoveDeal
  <2> QED BY <1>0, <2>4, <2>5, UsersKeep
<1>2. ASSUME NEW c \in DOMAIN contact, Intakes!UpdateContact(c) \/ Intakes!DeleteContact(c)
      PROVE IntakeInv'
  <2>1. c \in 1..Len(contact) /\ contact[c] \in Intakes!Contact
    BY <1>0
  <2>2. \E r \in Intakes!Contact : contact' = [contact EXCEPT ![c] = r]
    <3>1. [live |-> FALSE, address |-> FALSE] \in Intakes!Contact
      BY DEF Intakes!Contact
    <3>2. [contact[c] EXCEPT !.address = ~@] \in Intakes!Contact
      BY <2>1 DEF Intakes!Contact
    <3>3. \/ contact' = [contact EXCEPT ![c] = [live |-> FALSE, address |-> FALSE]]
          \/ contact' = [contact EXCEPT ![c] = [contact[c] EXCEPT !.address = ~@]]
      BY <1>2 DEF Intakes!UpdateContact, Intakes!DeleteContact
    <3> QED BY <3>1, <3>2, <3>3
  <2>3. contact' \in Seq(Intakes!Contact)
    BY <1>0, <2>1, <2>2, ExceptSeq
  <2>4. /\ UNCHANGED <<item, call, conversation, stored, lead>>
        /\ identity' \in Nat
    BY <1>0, <1>2 DEF Intakes!UpdateContact, Intakes!DeleteContact
  <2> QED BY <1>0, <2>3, <2>4, UsersKeep
<1>3. ASSUME NEW address \in BOOLEAN, Intakes!CreateContact(address) PROVE IntakeInv'
  <2>1. [live |-> TRUE, address |-> address] \in Intakes!Contact
    BY DEF Intakes!Contact
  <2>2. contact' \in Seq(Intakes!Contact)
    BY <1>0, <1>3, <2>1, AppendProperties DEF Intakes!CreateContact
  <2>3. UNCHANGED <<item, call, conversation, stored, lead, identity>>
    BY <1>3 DEF Intakes!CreateContact
  <2> QED BY <1>0, <2>2, <2>3, UsersKeep
<1> QED BY <1>1, <1>2, <1>3

-------------------------------------------------------------------------------
LEMMA IntakeInit == Intakes!Init => IntakeInv
<1> SUFFICES ASSUME Intakes!Init PROVE IntakeInv
  OBVIOUS
<1>1. call \in [Item -> [stage : CallStage, match : MatchFound]] /\ \A i \in Item : call[i].stage = "idle"
  BY AtFound DEF Intakes!Init, Intakes!Idle, CallStage
<1>2. Shapes
  BY <1>1 DEF Intakes!Init, Shapes
<1>3. Once /\ Waiting /\ Followed
  BY <1>1 DEF Intakes!Init, Once, Carried, Waiting, Followed
<1> QED BY <1>2, <1>3 DEF IntakeInv

LEMMA IntakeStep == IntakeInv /\ [Intakes!Next]_intakeVars => IntakeInv'
<1> SUFFICES ASSUME IntakeInv, [Intakes!Next]_intakeVars PROVE IntakeInv'
  OBVIOUS
<1>1. CASE Intakes!Crash
  <2>1. /\ call' = [i \in Item |-> Intakes!Idle] /\ UNCHANGED <<item, Intakes!crm>>
    BY <1>1 DEF Intakes!Crash
  <2>2. call' \in [Item -> [stage : CallStage, match : MatchFound]]
        /\ \A i \in Item : call'[i].stage # "matched"
    BY <2>1, AtFound DEF Intakes!Idle, CallStage
  <2>3. Shapes' /\ Once' /\ Waiting' /\ Followed'
    BY <2>1, <2>2 DEF IntakeInv, Shapes, Once, Carried, Waiting, Followed, Intakes!Known, Intakes!crm
  <2> QED BY <2>3 DEF IntakeInv
<1>2. CASE UNCHANGED intakeVars
  BY <1>2 DEF intakeVars, IntakeInv, Shapes, Once, Carried, Waiting, Followed, Intakes!Known
<1> QED BY <1>1, <1>2, HandleInv, ItemInv, UserInv DEF Intakes!Next

LEMMA IntakePart == [Next]_vars => [Intakes!Next]_intakeVars
BY DEF Next, vars, intakeVars

LEMMA IntakeAlways == Spec => []IntakeInv
<1>1. Init => IntakeInv
  BY IntakeInit DEF Init
<1>2. IntakeInv /\ [Next]_vars => IntakeInv'
  BY IntakeStep, IntakePart
<1> QED BY <1>1, <1>2, PTL DEF Spec

(* However often a delivery comes, is claimed, fails, crashes or is        *)
(* retried, a provider message has one row, for any items and threads.     *)
THEOREM StoredAlwaysOnce == Spec => []StoredOnce
<1>1. IntakeInv => StoredOnce
  BY OnceIsStoredOnce DEF IntakeInv, StoredOnce
<1> QED BY <1>1, IntakeAlways, PTL

(* The rows that exist: a contact or a deal is made with an item that is   *)
(* processed, or by users within their bound, and nothing names a row that *)
(* was not made.                                                            *)
Done == {i \in Item : item[i] = "processed"}

JobRows == intakeJob \in [Item -> Intakes!JobRowType]

Bounds ==
    /\ Len(contact) <= MaxContacts + Cardinality(Done) /\ identity <= Len(contact)
    /\ Len(lead) <= Cardinality(Done)
    /\ \A d \in 1..Len(lead) : lead[d].contact <= Len(contact)
    /\ \A t \in Intakes!Thread : conversation[t].deal <= Len(lead)
           /\ conversation[t].contact <= Len(contact)
    /\ \A i \in Item : call[i].match.contact <= Len(contact) /\ call[i].match.deal <= Len(lead)

LEMMA DoneCounted == IsFiniteSet(Done) /\ Cardinality(Done) \in Nat
    /\ Cardinality(Done) <= Cardinality(Item)
BY IntakeAssumption, FS_Subset, FS_CardinalityType DEF Done

LEMMA MoreDone ==
    ASSUME \A i \in Item : item[i] = "processed" => item'[i] = "processed"
    PROVE  Cardinality(Done) <= Cardinality(Done') /\ Cardinality(Done') \in Nat
<1>1. Done \subseteq Done' /\ IsFiniteSet(Done')
  BY IntakeAssumption, FS_Subset DEF Done
<1> QED BY <1>1, FS_Subset, FS_CardinalityType

LEMMA OneMoreDone ==
    ASSUME Shapes, NEW i \in Item, item[i] # "processed", item' = [item EXCEPT ![i] = "processed"]
    PROVE  Cardinality(Done') = Cardinality(Done) + 1
<1>1. Done' = Done \cup {i} /\ i \notin Done
  BY DEF Shapes, Done
<1> QED BY <1>1, DoneCounted, FS_AddElement

(* No row is made. *)
NoneMade ==
    /\ \A i \in Item : item[i] = "processed" => item'[i] = "processed"
    /\ Len(contact') = Len(contact) /\ Len(lead') = Len(lead) /\ identity' <= Len(contact)
    /\ \A d \in 1..Len(lead) : lead'[d].contact = lead[d].contact
    /\ UNCHANGED conversation

LEMMA BoundsKept ==
    ASSUME IntakeInv, Bounds, NoneMade,
           \A i \in Item : call'[i].match.contact <= Len(contact) /\ call'[i].match.deal <= Len(lead)
    PROVE  Bounds'
<1>1. /\ Cardinality(Done) <= Cardinality(Done')
      /\ Cardinality(Done) \in Nat /\ Cardinality(Done') \in Nat
  BY MoreDone, DoneCounted DEF NoneMade
<1>2. Len(contact) \in Nat /\ Len(lead) \in Nat
  BY DEF IntakeInv, Shapes
<1>3. Len(contact') <= MaxContacts + Cardinality(Done') /\ Len(lead') <= Cardinality(Done')
  BY <1>1, <1>2, IntakeAssumption DEF Bounds, NoneMade
<1> HIDE DEF Done
<1> QED BY <1>3 DEF Bounds, NoneMade

LEMMA CallFits ==
    ASSUME IntakeInv, Bounds, NEW i \in Item, NEW st \in CallStage, Intakes!Goes(i, st) \/ UNCHANGED call
    PROVE  \A j \in Item : call'[j].match.contact <= Len(contact) /\ call'[j].match.deal <= Len(lead)
<1>1. Len(contact) \in Nat /\ Len(lead) \in Nat
  BY DEF IntakeInv, Shapes
<1>2. CASE Intakes!Goes(i, st)
  <2>1. \A j \in Item : call'[j].match = IF j = i THEN Intakes!NoMatch ELSE call[j].match
    BY <1>2 DEF IntakeInv, Shapes, Intakes!Goes, Intakes!At
  <2> QED BY <1>1, <2>1 DEF Bounds, Intakes!NoMatch
<1>3. CASE UNCHANGED call
  BY <1>3 DEF Bounds
<1> QED BY <1>2, <1>3

(* What a call reads is there. *)
LEMMA ResolvedFits ==
    ASSUME IntakeInv, Bounds, NEW i
    PROVE  Intakes!Resolved(i).contact <= Len(contact)
<1>1. /\ contact \in Seq(Intakes!Contact) /\ Len(contact) \in Nat /\ identity \in Nat
      /\ identity <= Len(contact)
  BY DEF IntakeInv, Shapes, Bounds
<1>2. Intakes!Holders \subseteq 1..Len(contact)
  BY <1>1 DEF Intakes!Holders
<1>3. Intakes!ByAddress.contact <= Len(contact)
  <2>1. CASE Intakes!Cardinality(Intakes!Holders) > 1
    <3>1. Intakes!ByAddress = [Intakes!NoMatch EXCEPT !.ambiguous = TRUE]
      BY <2>1 DEF Intakes!ByAddress
    <3> QED BY <1>1, <3>1 DEF Intakes!NoMatch
  <2>2. CASE ~(Intakes!Cardinality(Intakes!Holders) > 1) /\ Intakes!Cardinality(Intakes!Holders) = 1
    <3>1. Intakes!Holders # {}
      BY <2>2, IntakesCounted, FS_EmptySet
    <3>2. (CHOOSE c \in Intakes!Holders : TRUE) \in 1..Len(contact)
      BY <1>2, <3>1
    <3>3. Intakes!ByAddress = [Intakes!NoMatch EXCEPT !.contact = CHOOSE c \in Intakes!Holders : TRUE]
      BY <2>2 DEF Intakes!ByAddress
    <3> QED BY <3>2, <3>3 DEF Intakes!NoMatch
  <2>3. CASE ~(Intakes!Cardinality(Intakes!Holders) > 1) /\ ~(Intakes!Cardinality(Intakes!Holders) = 1)
    BY <1>1, <2>3 DEF Intakes!ByAddress, Intakes!NoMatch
  <2> QED BY <2>1, <2>2, <2>3
<1>4. Intakes!ByIdentity.contact <= Len(contact) /\ Intakes!NoMatch.contact <= Len(contact)
  BY <1>1 DEF Intakes!ByIdentity, Intakes!NoMatch
<1> QED BY <1>3, <1>4 DEF Intakes!Resolved

LEMMA ReadNewThreadBounds ==
    ASSUME IntakeInv, Bounds, NEW i \in Item, Intakes!ReadNewThread(i)
    PROVE  Bounds'
<1>1. PICK d \in IF Intakes!OpenDeals(Intakes!Resolved(i).contact) = {} THEN {0}
                 ELSE Intakes!OpenDeals(Intakes!Resolved(i).contact) :
         call' = [call EXCEPT ![i] = Intakes!At("matched", [Intakes!Resolved(i) EXCEPT !.deal = d])]
  BY DEF Intakes!ReadNewThread
<1>2. lead \in Seq(Routed) /\ Len(lead) \in Nat
  BY DEF IntakeInv, Shapes
<1>3. d <= Len(lead)
  BY <1>1, <1>2 DEF Intakes!OpenDeals
<1> DEFINE m == [Intakes!Resolved(i) EXCEPT !.deal = d]
<1>4. m.contact = Intakes!Resolved(i).contact /\ m.deal = d
  BY ResolvedFound DEF IntakeInv, MatchFound
<1> HIDE DEF m
<1>5. \A j \in Item : call'[j].match = IF j = i THEN m ELSE call[j].match
  BY <1>1 DEF IntakeInv, Shapes, Intakes!At, m
<1>6. \A j \in Item : call'[j].match.contact <= Len(contact) /\ call'[j].match.deal <= Len(lead)
  BY <1>3, <1>4, <1>5, ResolvedFits DEF Bounds
<1>7. NoneMade
  BY DEF NoneMade, Intakes!ReadNewThread, Intakes!crm, Bounds
<1> QED BY <1>6, <1>7, BoundsKept

(* What is routed: one contact more or none, one deal more or none, and    *)
(* one item more is processed.                                             *)
LEMMA RoutedBounds ==
    ASSUME IntakeInv, Bounds, NEW i \in Item, item[i] # "processed",
           item' = [item EXCEPT ![i] = "processed"], Intakes!Goes(i, "ok"),
           NEW k \in {0, 1}, Len(contact') = Len(contact) + k, identity' <= Len(contact'),
           NEW d \in Nat, NEW c \in Nat, d <= Len(lead), c <= Len(contact'),
           Intakes!OpenConversationDeal(ThreadOf[i], lead, d, c)
    PROVE  Bounds'
<1>1. /\ Cardinality(Done') = Cardinality(Done) + 1 /\ Cardinality(Done) \in Nat
      /\ Len(contact) \in Nat /\ Len(lead) \in Nat /\ lead \in Seq(Routed)
      /\ conversation \in [Intakes!Thread -> [deal : Nat, contact : Nat]]
      /\ ThreadOf[i] \in Intakes!Thread
  <2>1. Shapes
    BY DEF IntakeInv
  <2>2. Cardinality(Done') = Cardinality(Done) + 1
    BY <2>1, OneMoreDone
  <2> QED BY <2>1, <2>2, DoneCounted, KeysAre DEF Shapes
<1>2. Len(contact') <= MaxContacts + Cardinality(Done')
  BY <1>1, IntakeAssumption DEF Bounds
<1>3. \A e \in 1..Len(lead) : lead[e].contact <= Len(contact')
  <2>1. \A e \in 1..Len(lead) : lead[e] \in Routed
    BY <1>1, ElementOfSeq
  <2>2. Len(contact') \in Nat /\ Len(contact) <= Len(contact') /\ Len(contact) \in Nat
    BY <1>1
  <2>3. ASSUME NEW e \in 1..Len(lead) PROVE lead[e].contact <= Len(contact')
    <3>1. lead[e].contact \in Nat /\ lead[e].contact <= Len(contact)
      BY <2>1 DEF Routed, Bounds
    <3> QED BY <2>2, <3>1
  <2> QED BY <2>3
<1>4. /\ Len(lead') <= Cardinality(Done')
      /\ Len(lead) <= Len(lead') /\ Len(lead') \in Nat
      /\ \A e \in 1..Len(lead') : lead'[e].contact <= Len(contact')
      /\ \A t \in Intakes!Thread : t # ThreadOf[i] => conversation'[t] = conversation[t]
      /\ conversation'[ThreadOf[i]].contact = c
      /\ conversation'[ThreadOf[i]].deal <= Len(lead')
  <2>1. CASE d # 0 /\ lead[d].open
    <3>1. lead' = lead
              /\ conversation' = [conversation EXCEPT ![ThreadOf[i]] = [deal |-> d, contact |-> c]]
      BY <2>1 DEF Intakes!OpenConversationDeal
    <3>2. \A e \in 1..Len(lead') : lead'[e].contact <= Len(contact')
      BY <1>3, <3>1
    <3>3. Len(lead') <= Cardinality(Done')
      BY <1>1, <3>1 DEF Bounds
    <3> QED BY <1>1, <3>1, <3>2, <3>3
  <2>2. CASE ~(d # 0 /\ lead[d].open)
    <3> DEFINE x == [open |-> TRUE, contact |-> c]
    <3>1. /\ lead' = Append(lead, x)
          /\ conversation' = [conversation EXCEPT ![ThreadOf[i]] = [deal |-> Len(lead) + 1,
                 contact |-> c]]
      BY <2>2 DEF Intakes!OpenConversationDeal
    <3>2. x \in Routed /\ x.contact = c
      BY DEF Routed
    <3> HIDE DEF x
    <3>3. /\ Len(lead') = Len(lead) + 1 /\ lead'[Len(lead) + 1] = x
          /\ \A e \in 1..Len(lead) : lead'[e] = lead[e]
      BY <1>1, <3>1, <3>2, AppendProperties
    <3>4. \A e \in 1..Len(lead') : lead'[e].contact <= Len(contact')
      <4>1. lead'[Len(lead) + 1].contact <= Len(contact')
        BY <3>2, <3>3
      <4>2. \A e \in 1..Len(lead) : lead'[e].contact <= Len(contact')
        BY <1>1, <1>3, <3>3
      <4>3. \A e \in 1..Len(lead') : e = Len(lead) + 1 \/ e \in 1..Len(lead)
        BY <1>1, <3>3
      <4> QED BY <4>1, <4>2, <4>3
    <3>5. Len(lead') <= Cardinality(Done')
      BY <1>1, <3>3 DEF Bounds
    <3> QED BY <1>1, <3>1, <3>3, <3>4, <3>5
  <2> QED BY <2>1, <2>2
<1>5. ASSUME NEW t \in Intakes!Thread
      PROVE  conversation'[t].deal <= Len(lead') /\ conversation'[t].contact <= Len(contact')
  <2>1. CASE t = ThreadOf[i]
    BY <1>4, <2>1
  <2>2. CASE t # ThreadOf[i]
    <3>1. conversation'[t] = conversation[t] /\ conversation[t].deal \in Nat
              /\ conversation[t].contact \in Nat
      BY <1>1, <1>4, <2>2
    <3>2. conversation[t].deal <= Len(lead) /\ conversation[t].contact <= Len(contact)
      BY DEF Bounds
    <3>3. Len(contact') \in Nat /\ Len(contact) <= Len(contact')
      BY <1>1
    <3> QED BY <1>1, <1>4, <3>1, <3>2, <3>3
  <2> QED BY <2>1, <2>2
<1>6. ASSUME NEW j \in Item
      PROVE  call'[j].match.contact <= Len(contact') /\ call'[j].match.deal <= Len(lead')
  <2>1. call'[j].match.contact <= Len(contact) /\ call'[j].match.deal <= Len(lead)
    BY CallFits DEF CallStage
  <2>2. call'[j].match.contact \in Nat /\ call'[j].match.deal \in Nat
    BY GoesCall DEF IntakeInv, CallStage, MatchFound
  <2>3. /\ Len(contact) \in Nat /\ Len(contact') \in Nat /\ Len(contact) <= Len(contact')
        /\ Len(lead) \in Nat /\ Len(lead') \in Nat /\ Len(lead) <= Len(lead')
    BY <1>1, <1>4
  <2>4. \A a, b, e \in Nat : a <= b /\ b <= e => a <= e
    OBVIOUS
  <2>5. call'[j].match.contact <= Len(contact')
    BY <2>1, <2>2, <2>3, <2>4, Zenon
  <2>6. call'[j].match.deal <= Len(lead')
    BY <2>1, <2>2, <2>3, <2>4, Zenon
  <2> QED BY <2>5, <2>6
<1> QED BY <1>2, <1>4, <1>5, <1>6 DEF Bounds

LEMMA RouteBounds ==
    ASSUME IntakeInv, Bounds, NEW i \in Item,
           Intakes!RouteKnownThread(i) \/ Intakes!RouteNewThread(i) \/ Intakes!RouteLead(i)
    PROVE  Bounds'
<1>1. /\ Shapes /\ contact \in Seq(Intakes!Contact) /\ Len(contact) \in Nat
      /\ ThreadOf[i] \in Intakes!Thread
  BY KeysAre DEF IntakeInv, Shapes
<1>2. CASE Intakes!RouteKnownThread(i)
  <2> DEFINE cv == conversation[ThreadOf[i]]
  <2>1. cv.deal \in Nat /\ cv.contact \in Nat /\ cv.deal <= Len(lead) /\ cv.contact <= Len(contact)
    BY <1>1 DEF Shapes, Bounds
  <2>2. /\ Intakes!OpenConversationDeal(ThreadOf[i], lead, cv.deal, cv.contact)
        /\ item[i] # "processed" /\ item' = [item EXCEPT ![i] = "processed"] /\ Intakes!Goes(i, "ok")
        /\ contact' = contact /\ identity' = identity
    BY <1>2 DEF Intakes!RouteKnownThread, Intakes!Stores
  <2> HIDE DEF cv
  <2>3. Len(contact') = Len(contact) + 0 /\ identity' <= Len(contact') /\ cv.contact <= Len(contact')
    BY <1>1, <2>1, <2>2 DEF Bounds
  <2> QED BY <2>1, <2>2, <2>3, RoutedBounds
<1>3. CASE Intakes!RouteNewThread(i) \/ Intakes!RouteLead(i)
  <2> DEFINE m == call[i].match
             c == Intakes!ContactOf(m)
  <2>1. m \in MatchFound /\ m.deal \in Nat /\ m.contact <= Len(contact) /\ m.deal <= Len(lead)
    BY <1>1 DEF Shapes, MatchFound, Bounds
  <2>2. PICK address \in BOOLEAN : Intakes!NewContact(m, address)
    <3>1. Intakes!NewContact(m, TRUE) \/ Intakes!NewContact(m, ByEmail)
      BY <1>3 DEF Intakes!RouteLead, Intakes!RouteNewThread
    <3> QED BY <3>1, IntakeAssumption
  <2>3. /\ Intakes!OpenConversationDeal(ThreadOf[i], lead, m.deal, c)
        /\ identity' = identity \/ identity' = c
        /\ item[i] # "processed" /\ item' = [item EXCEPT ![i] = "processed"] /\ Intakes!Goes(i, "ok")
    BY <1>3 DEF Intakes!RouteLead, Intakes!RouteNewThread, Intakes!Stores, IntakeInv, Waiting
  <2> HIDE DEF m
  <2>4. PICK k \in {0, 1} : Len(contact') = Len(contact) + k /\ c \in Nat /\ c <= Len(contact')
    <3>1. CASE Intakes!Creates(m)
      <4>1. contact' = Append(contact, [live |-> TRUE, address |-> address]) /\ c = Len(contact) + 1
        BY <2>2, <3>1 DEF Intakes!NewContact, Intakes!ContactOf
      <4>2. [live |-> TRUE, address |-> address] \in Intakes!Contact
        BY DEF Intakes!Contact
      <4>3. Len(contact') = Len(contact) + 1
        BY <1>1, <4>1, <4>2, AppendProperties
      <4> QED BY <1>1, <4>1, <4>3
    <3>2. CASE ~Intakes!Creates(m)
      BY <1>1, <2>1, <2>2, <3>2 DEF Intakes!NewContact, Intakes!ContactOf, MatchFound
    <3> QED BY <3>1, <3>2
  <2> HIDE DEF c
  <2>5. identity' <= Len(contact')
    BY <1>1, <2>3, <2>4 DEF Shapes, Bounds
  <2> QED BY <2>1, <2>3, <2>4, <2>5, RoutedBounds
<1> QED BY <1>2, <1>3

(* Jobs keep their shape: JobRow's operators give rows. *)
LEMMA IntakeRows ==
    ASSUME NEW r \in Intakes!JobRowType
    PROVE  /\ Intakes!Enqueued(r) \in Intakes!JobRowType /\ Intakes!Reset(r) \in Intakes!JobRowType
           /\ Intakes!Claimable(r) => Intakes!Claimed(r) \in Intakes!JobRowType
           /\ r.status = "running" => Intakes!RetriedOrFailed(r) \in Intakes!JobRowType
           /\ Intakes!Completed(r) \in Intakes!JobRowType /\ Intakes!Failed(r) \in Intakes!JobRowType
<1>1. \A st \in Intakes!Terminal \cup {"queued"} :
         Intakes!Ended(st) = [status |-> st, attempts |-> 0]
             /\ [status |-> st, attempts |-> 0] \in Intakes!JobRowType
  BY IntakeAssumption DEF Intakes!Ended, Intakes!NoJob, Intakes!JobRowType, Intakes!Terminal
<1>2. Intakes!Enqueued(r) \in Intakes!JobRowType /\ Intakes!Reset(r) \in Intakes!JobRowType
  BY <1>1 DEF Intakes!Enqueued, Intakes!Reset, Intakes!Ended
<1>3. ASSUME Intakes!Claimable(r) PROVE Intakes!Claimed(r) \in Intakes!JobRowType
  <2>1. r.attempts \in 0..(MaxAttempts - 1)
    BY <1>3 DEF Intakes!Claimable, Intakes!JobRowType, Intakes!Terminal
  <2>2. r.attempts + 1 \in 1..MaxAttempts
    BY <2>1, IntakeAssumption
  <2> QED BY <2>2 DEF Intakes!Claimed, Intakes!JobRowType
<1>4. ASSUME r.status = "running" PROVE Intakes!RetriedOrFailed(r) \in Intakes!JobRowType
  <2>1. r.attempts \in 1..MaxAttempts /\ r = [status |-> "running", attempts |-> r.attempts]
    BY <1>4 DEF Intakes!JobRowType, Intakes!Terminal
  <2>2. CASE r.attempts < MaxAttempts
    <3>1. Intakes!RetriedOrFailed(r) = [status |-> "queued", attempts |-> r.attempts]
      BY <2>1, <2>2 DEF Intakes!RetriedOrFailed
    <3>2. r.attempts \in 0..(MaxAttempts - 1)
      BY <2>1, <2>2, IntakeAssumption
    <3> QED BY <3>1, <3>2 DEF Intakes!JobRowType
  <2>3. CASE ~(r.attempts < MaxAttempts)
    BY <1>1, <2>3 DEF Intakes!RetriedOrFailed, Intakes!Terminal
  <2> QED BY <2>2, <2>3
<1>5. Intakes!Completed(r) \in Intakes!JobRowType /\ Intakes!Failed(r) \in Intakes!JobRowType
  BY <1>1, <1>4 DEF Intakes!Completed, Intakes!Failed, Intakes!Terminal
<1> QED BY <1>2, <1>3, <1>4, <1>5

LEMMA JobRowsInv == JobRows /\ [Intakes!Next]_intakeVars => JobRows'
<1> SUFFICES ASSUME JobRows, [Intakes!Next]_intakeVars PROVE JobRows'
  OBVIOUS
<1>1. ASSUME NEW i \in Item, NEW r \in Intakes!JobRowType, intakeJob' = [intakeJob EXCEPT ![i] = r]
      PROVE JobRows'
  BY <1>1 DEF JobRows
<1>2. \A i \in Item : intakeJob[i] \in Intakes!JobRowType
  BY DEF JobRows
<1>3. CASE UNCHANGED intakeJob
  BY <1>3 DEF JobRows
<1>4. ASSUME NEW i \in Item,
             \/ Intakes!Enqueue(i) \/ Intakes!RetryJob(i) \/ Intakes!Claim(i)
             \/ Intakes!Acknowledge(i) \/ Intakes!Recover(i)
      PROVE  JobRows'
  <2>1. \E r \in Intakes!JobRowType : intakeJob' = [intakeJob EXCEPT ![i] = r]
    <3>1. CASE Intakes!Enqueue(i)
      BY <1>2, <3>1, IntakeRows DEF Intakes!Enqueue
    <3>2. CASE Intakes!RetryJob(i)
      BY <1>2, <3>2, IntakeRows DEF Intakes!RetryJob
    <3>3. CASE Intakes!Claim(i)
      BY <1>2, <3>3, IntakeRows DEF Intakes!Claim
    <3>4. CASE Intakes!Acknowledge(i)
      BY <1>2, <3>4, IntakeRows DEF Intakes!Acknowledge
    <3>5. CASE Intakes!Recover(i)
      BY <1>2, <3>5, IntakeRows DEF Intakes!Recover
    <3> QED BY <1>4, <3>1, <3>2, <3>3, <3>4, <3>5
  <2> QED BY <1>1, <2>1
<1>5. ASSUME NEW i \in Item, Intakes!Handle(i) PROVE UNCHANGED intakeJob
  BY <1>5 DEF Intakes!Handle, Intakes!ReturnSettled, Intakes!DropDuplicate, Intakes!RouteKnownThread,
     Intakes!ReadNewThread, Intakes!RouteNewThread, Intakes!RouteLead, Intakes!Refuse,
     Intakes!MarkFailedIfTerminal, Intakes!Timeout
<1>6. ASSUME \/ \E i \in Item : Intakes!ProviderWebhook(i) \/ Intakes!GenericWebhook(i)
                    \/ Intakes!SubmitForm(i)
             \/ Intakes!Crash
             \/ \E d \in DOMAIN lead : Intakes!MoveDeal(d)
             \/ \E c \in DOMAIN contact : Intakes!UpdateContact(c) \/ Intakes!DeleteContact(c)
             \/ \E address \in BOOLEAN : Intakes!CreateContact(address)
             \/ UNCHANGED intakeVars
      PROVE  UNCHANGED intakeJob
  BY <1>6 DEF Intakes!ProviderWebhook, Intakes!GenericWebhook, Intakes!SubmitForm, Intakes!Accepted,
     Intakes!Crash, Intakes!MoveDeal, Intakes!UpdateContact, Intakes!DeleteContact, Intakes!CreateContact,
     intakeVars
<1> QED BY <1>3, <1>4, <1>5, <1>6 DEF Intakes!Next

LEMMA BoundsStep == IntakeInv /\ Bounds /\ [Intakes!Next]_intakeVars => Bounds'
<1> SUFFICES ASSUME IntakeInv, Bounds, [Intakes!Next]_intakeVars PROVE Bounds'
  OBVIOUS
<1>0. /\ contact \in Seq(Intakes!Contact) /\ Len(contact) \in Nat /\ identity \in Nat
      /\ lead \in Seq(Routed) /\ Len(lead) \in Nat /\ Shapes
  BY DEF IntakeInv, Shapes
<1>1. ASSUME NEW i \in Item, NEW st \in CallStage, Intakes!Goes(i, st) \/ UNCHANGED call,
             UNCHANGED Intakes!crm, \A j \in Item : item[j] = "processed" => item'[j] = "processed"
      PROVE  Bounds'
  <2>1. \A j \in Item : call'[j].match.contact <= Len(contact) /\ call'[j].match.deal <= Len(lead)
    BY <1>1, CallFits
  <2>2. NoneMade
    BY <1>1 DEF NoneMade, Intakes!crm, Bounds
  <2> QED BY <2>1, <2>2, BoundsKept
<1>2. ASSUME NEW i \in Item, Intakes!Handle(i) PROVE Bounds'
  <2>1. CASE Intakes!ReturnSettled(i) \/ Intakes!Refuse(i) \/ Intakes!Timeout(i)
    BY <1>1, <2>1 DEF Intakes!ReturnSettled, Intakes!Refuse, Intakes!Timeout, CallStage
  <2>2. CASE Intakes!DropDuplicate(i)
    <3>1. Intakes!Goes(i, "ok") /\ UNCHANGED Intakes!crm /\ item' = [item EXCEPT ![i] = "processed"]
      BY <2>2 DEF Intakes!DropDuplicate
    <3>2. \A j \in Item : item[j] = "processed" => item'[j] = "processed"
      BY <1>0, <3>1 DEF Shapes
    <3> QED BY <1>1, <3>1, <3>2 DEF CallStage
  <2>3. CASE Intakes!MarkFailedIfTerminal(i)
    <3>1. /\ Intakes!Goes(i, "error") /\ UNCHANGED Intakes!crm
          /\ UNCHANGED item \/ (item[i] # "processed" /\ item' = [item EXCEPT ![i] = "failed"])
      BY <2>3 DEF Intakes!MarkFailedIfTerminal
    <3>2. \A j \in Item : item[j] = "processed" => item'[j] = "processed"
      BY <1>0, <3>1 DEF Shapes
    <3> QED BY <1>1, <3>1, <3>2 DEF CallStage
  <2> QED BY <1>2, <2>1, <2>2, <2>3, ReadNewThreadBounds, RouteBounds DEF Intakes!Handle
<1>3. ASSUME NEW i \in Item,
             \/ Intakes!ProviderWebhook(i) \/ Intakes!GenericWebhook(i) \/ Intakes!SubmitForm(i)
             \/ Intakes!Enqueue(i) \/ Intakes!RetryJob(i) \/ Intakes!Claim(i)
             \/ Intakes!Acknowledge(i) \/ Intakes!Recover(i)
      PROVE  Bounds'
  <2>1. CASE Intakes!ProviderWebhook(i) \/ Intakes!GenericWebhook(i) \/ Intakes!SubmitForm(i)
    <3>1. item[i] = "absent" /\ item' = [item EXCEPT ![i] = "accepted"] /\ UNCHANGED <<call, Intakes!crm>>
      BY <2>1 DEF Intakes!ProviderWebhook, Intakes!GenericWebhook, Intakes!SubmitForm, Intakes!Accepted
    <3>2. \A j \in Item : item[j] = "processed" => item'[j] = "processed"
      BY <1>0, <3>1 DEF Shapes
    <3> QED BY <1>1, <3>1, <3>2 DEF CallStage
  <2>2. CASE Intakes!Enqueue(i) \/ Intakes!RetryJob(i) \/ Intakes!Claim(i) \/ Intakes!Acknowledge(i)
                 \/ Intakes!Recover(i)
    <3>1. /\ UNCHANGED <<item, Intakes!crm>>
          /\ Intakes!Goes(i, "started") \/ Intakes!Goes(i, "idle") \/ UNCHANGED call
      BY <2>2 DEF Intakes!Enqueue, Intakes!RetryJob, Intakes!Claim, Intakes!Acknowledge, Intakes!Recover
    <3> QED BY <1>1, <3>1 DEF CallStage
  <2> QED BY <1>3, <2>1, <2>2
<1>4. CASE Intakes!Crash
  <2>1. \A j \in Item : call'[j].match.contact <= Len(contact) /\ call'[j].match.deal <= Len(lead)
    BY <1>0, <1>4 DEF Intakes!Crash, Intakes!Idle, Intakes!At, Intakes!NoMatch
  <2>2. NoneMade
    BY <1>4 DEF Intakes!Crash, NoneMade, Intakes!crm, Bounds
  <2> QED BY <2>1, <2>2, BoundsKept
<1>5. ASSUME UNCHANGED call, NoneMade PROVE Bounds'
  <2>1. \A j \in Item : call'[j].match.contact <= Len(contact) /\ call'[j].match.deal <= Len(lead)
    BY <1>5 DEF Bounds
  <2> QED BY <1>5, <2>1, BoundsKept
<1>6. ASSUME NEW d \in DOMAIN lead, Intakes!MoveDeal(d) PROVE Bounds'
  <2>1. d \in 1..Len(lead) /\ lead[d] \in Routed
    BY <1>0, ElementOfSeq
  <2> DEFINE r == [lead[d] EXCEPT !.open = ~@]
  <2>2. r \in Routed /\ r.contact = lead[d].contact
    BY <2>1 DEF Routed
  <2>3. lead' = [lead EXCEPT ![d] = r]
    BY <1>6 DEF Intakes!MoveDeal
  <2> HIDE DEF r
  <2>4. /\ Len(lead') = Len(lead)
        /\ \A e \in 1..Len(lead) : lead'[e] = IF e = d THEN r ELSE lead[e]
    BY <1>0, <2>1, <2>2, <2>3, ExceptSeq
  <2>5. NoneMade
    BY <1>6, <2>2, <2>4 DEF NoneMade, Intakes!MoveDeal, Bounds
  <2> QED BY <1>5, <1>6, <2>5 DEF Intakes!MoveDeal
<1>7. ASSUME NEW c \in DOMAIN contact, Intakes!UpdateContact(c) \/ Intakes!DeleteContact(c) PROVE Bounds'
  <2>1. Len(contact') = Len(contact)
    <3>1. PICK x : contact' = [contact EXCEPT ![c] = x]
      BY <1>7 DEF Intakes!UpdateContact, Intakes!DeleteContact
    <3>2. DOMAIN contact' = 1..Len(contact)
      BY <1>0, <3>1
    <3>3. contact' \in Seq(Intakes!Contact)
      <4>1. IntakeInv'
        BY <1>7, UserInv
      <4> QED BY <4>1 DEF IntakeInv, Shapes
    <3>4. Len(contact') \in Nat /\ DOMAIN contact' = 1..Len(contact')
      BY <3>3, LenProperties
    <3>5. Len(contact') \notin DOMAIN contact' => Len(contact') = 0
      BY <3>4
    <3>6. Len(contact) \notin DOMAIN contact => Len(contact) = 0
      BY <1>0
    <3>7. Len(contact') <= Len(contact)
      BY <1>0, <3>2, <3>4, <3>5
    <3>8. Len(contact) <= Len(contact')
      BY <1>0, <3>2, <3>4, <3>6
    <3> QED BY <1>0, <3>4, <3>7, <3>8
  <2>2. identity' <= Len(contact)
    BY <1>0, <1>7 DEF Intakes!UpdateContact, Intakes!DeleteContact, Bounds
  <2>3. UNCHANGED <<item, call, lead, conversation>>
    BY <1>7 DEF Intakes!UpdateContact, Intakes!DeleteContact
  <2> QED BY <1>5, <2>1, <2>2, <2>3 DEF NoneMade
<1>8. ASSUME NEW address \in BOOLEAN, Intakes!CreateContact(address) PROVE Bounds'
  <2>1. /\ Len(contact) < MaxContacts /\ contact' = Append(contact, [live |-> TRUE, address |-> address])
        /\ UNCHANGED <<item, call, identity, lead, conversation>>
    BY <1>8 DEF Intakes!CreateContact
  <2>2. Len(contact') = Len(contact) + 1
    BY <1>0, <2>1, AppendProperties DEF Intakes!Contact
  <2>3. Done' = Done /\ Cardinality(Done) \in Nat
    BY <2>1, DoneCounted DEF Done
  <2>4. Len(contact') <= MaxContacts + Cardinality(Done')
    BY <1>0, <2>1, <2>2, <2>3, IntakeAssumption
  <2>5. \A n \in Nat : n <= Len(contact) => n <= Len(contact')
    BY <1>0, <2>2
  <2>6. /\ \A d \in 1..Len(lead) : lead[d].contact \in Nat
        /\ \A t \in Intakes!Thread : conversation[t].contact \in Nat
        /\ \A i \in Item : call[i].match.contact \in Nat
    <3>1. \A d \in 1..Len(lead) : lead[d] \in Routed
      BY <1>0, ElementOfSeq
    <3> QED BY <1>0, <3>1 DEF Shapes, Routed, MatchFound
  <2> HIDE DEF Done
  <2> QED BY <1>0, <2>1, <2>3, <2>4, <2>5, <2>6 DEF Bounds
<1>9. CASE UNCHANGED intakeVars
  <2>1. NoneMade /\ UNCHANGED call
    BY <1>9 DEF NoneMade, intakeVars, Bounds
  <2> QED BY <1>5, <2>1
<1> QED BY <1>2, <1>3, <1>4, <1>6, <1>7, <1>8, <1>9 DEF Intakes!Next

LEMMA BoundsInit == Intakes!Init => Bounds /\ JobRows
<1> SUFFICES ASSUME Intakes!Init PROVE Bounds /\ JobRows
  OBVIOUS
<1>1. /\ Len(contact) = 0 /\ Len(lead) = 0 /\ identity = 0
      /\ \A i \in Item : call[i].match.contact = 0 /\ call[i].match.deal = 0
      /\ \A t \in Intakes!Thread : conversation[t].deal = 0 /\ conversation[t].contact = 0
  BY DEF Intakes!Init, Intakes!Idle, Intakes!At, Intakes!NoMatch
<1>2. JobRows
  BY DEF Intakes!Init, JobRows, Intakes!NoJob, Intakes!JobRowType, Intakes!Terminal
<1> QED BY <1>1, <1>2, DoneCounted, IntakeAssumption DEF Bounds

LEMMA BoundsAlways == Spec => []((IntakeInv /\ Bounds) /\ JobRows)
<1>1. Init => (IntakeInv /\ Bounds) /\ JobRows
  BY IntakeInit, BoundsInit DEF Init
<1>2. (IntakeInv /\ Bounds) /\ JobRows /\ [Next]_vars => ((IntakeInv /\ Bounds) /\ JobRows)'
  BY IntakePart, IntakeStep, BoundsStep, JobRowsInv
<1> QED BY <1>1, <1>2, PTL DEF Spec

LEMMA IntakeTypesAre == (IntakeInv /\ Bounds) /\ JobRows => Intakes!TypeOK
<1> SUFFICES ASSUME IntakeInv, Bounds, JobRows PROVE Intakes!TypeOK
  OBVIOUS
<1>1. /\ Cardinality(Done) \in Nat /\ Cardinality(Done) <= Cardinality(Item)
      /\ Cardinality(Item) \in Nat /\ Intakes!Cardinality(Item) = Cardinality(Item)
      /\ Len(contact) \in Nat /\ Len(lead) \in Nat /\ contact \in Seq(Intakes!Contact)
      /\ lead \in Seq(Routed) /\ identity \in Nat /\ MaxContacts \in Nat
  BY DoneCounted, IntakesCounted, FS_CardinalityType, IntakeAssumption DEF IntakeInv, Shapes
<1> HIDE DEF Done
<1>2. /\ Len(contact) <= MaxContacts + Cardinality(Item) /\ Len(lead) <= Cardinality(Item)
      /\ identity \in 0..Len(contact)
  BY <1>1 DEF Bounds
<1>3. /\ \A n \in Nat : n <= Len(contact) => n \in Intakes!ContactId \cup {0}
      /\ \A n \in Nat : n <= Len(lead) => n \in Intakes!LeadId \cup {0}
  BY <1>1, <1>2 DEF Intakes!ContactId, Intakes!LeadId
<1>4. /\ \A i \in Item : call[i] \in [stage : CallStage, match : MatchFound]
      /\ \A t \in Intakes!Thread : conversation[t] \in [deal : Nat, contact : Nat]
      /\ DOMAIN call = Item /\ call = [i \in Item |-> call[i]]
      /\ conversation = [t \in Intakes!Thread |-> conversation[t]]
  BY DEF IntakeInv, Shapes
<1>5. call \in [Item -> [stage : CallStage, match : Intakes!Match]]
  <2>1. ASSUME NEW i \in Item PROVE call[i].match \in Intakes!Match
    BY <1>3, <1>4 DEF Bounds, MatchFound, Intakes!Match
  <2>2. ASSUME NEW i \in Item PROVE call[i] \in [stage : CallStage, match : Intakes!Match]
    BY <1>4, <2>1
  <2> QED BY <1>4, <2>2
<1>6. conversation \in [Intakes!Thread -> Intakes!Conversation]
  <2>1. ASSUME NEW t \in Intakes!Thread PROVE conversation[t] \in Intakes!Conversation
    BY <1>3, <1>4 DEF Bounds, Intakes!Conversation
  <2> QED BY <1>4, <2>1
<1>7. lead \in Seq(Intakes!LeadDeal)
  <2>1. \A d \in 1..Len(lead) : lead[d] \in Routed
    BY <1>1, ElementOfSeq
  <2>2. \A d \in 1..Len(lead) : lead[d] \in Intakes!LeadDeal
    BY <1>3, <2>1 DEF Bounds, Routed, Intakes!LeadDeal
  <2>3. lead = [d \in 1..Len(lead) |-> lead[d]]
    BY <1>1
  <2>4. [d \in 1..Len(lead) |-> lead[d]] \in Seq(Intakes!LeadDeal)
    BY <1>1, <2>2, IsASeq
  <2> QED BY <2>3, <2>4
<1>8. stored \in [Intakes!Message -> 0..2]
  BY DEF IntakeInv, Shapes, Once
<1> QED BY <1>1, <1>2, <1>5, <1>6, <1>7, <1>8 DEF Intakes!TypeOK, JobRows, IntakeInv, Shapes, CallStage

-------------------------------------------------------------------------------
(* MailPolling: whoever has a cursor of the mailbox's validity, the channel *)
(* or a poll that read it, has one with nothing unstored before it; and     *)
(* what a poll is about to store as the cursor is beyond no mail but the    *)
(* stored ones and those it still has to store.                             *)
Cursor == [validity : 0..MaxValidity, uid : Nat]

PollRow == [stage : {"idle", "polling", "restarting", "storing", "attaching"},
            previous : Cursor, batch : Cursor, todo : Seq(Mail)]

(* The mails up to a cursor's UID, if it has the mailbox's validity, are    *)
(* among those.                                                             *)
UpTo(cursor, mails) ==
    /\ cursor.validity <= mailbox.validity
    /\ cursor.validity = 0 => cursor.uid = 0
    /\ cursor.validity = mailbox.validity =>
          \A u \in 1..cursor.uid : u \in 1..Len(mailbox.mails) /\ mailbox.mails[u] \in mails

Todo(p) == {poll[p].todo[i] : i \in 1..Len(poll[p].todo)}

MailInv ==
    /\ mailbox \in [validity : 1..MaxValidity, mails : Seq(Mail)]
    /\ imapState \in Cursor
    /\ poll \in [Poller -> PollRow]
    /\ kept \subseteq Mail /\ filed \subseteq kept
    /\ UpTo(imapState, filed)
    /\ \A p \in Poller :
          /\ UpTo(poll[p].previous, filed)
          /\ UpTo(poll[p].batch, filed \cup Todo(p))
          /\ poll[p].stage = "attaching" => poll[p].todo # <<>> /\ Head(poll[p].todo) \in kept

-------------------------------------------------------------------------------
LEMMA PollRows ==
    /\ \A q \in PollRow : q.previous \in Cursor /\ q.batch \in Cursor /\ q.todo \in Seq(Mail)
    /\ \A st \in {"idle", "polling", "restarting", "storing", "attaching"}, a \in Cursor, b \in Cursor,
          s \in Seq(Mail) : [stage |-> st, previous |-> a, batch |-> b, todo |-> s] \in PollRow
BY DEF PollRow

LEMMA Cursors ==
    /\ \A c \in Cursor : c.validity \in Nat /\ c.uid \in Nat /\ c.validity <= MaxValidity
    /\ \A v \in 0..MaxValidity, u \in Nat : [validity |-> v, uid |-> u] \in Cursor
BY MailAssumption DEF Cursor

LEMMA NoCursors ==
    ASSUME MailInv
    PROVE  /\ Mails!NoCursor \in Cursor
           /\ \A mails : UpTo(Mails!NoCursor, mails)
BY MailAssumption DEF MailInv, Cursor, UpTo, Mails!NoCursor

(* A poll moves; what it changes elsewhere adds to what is stored. *)
LEMMA PollMoves ==
    ASSUME MailInv, NEW p \in Poller, NEW q \in PollRow, poll' = [poll EXCEPT ![p] = q],
           mailbox' = mailbox, imapState' \in Cursor, UpTo(imapState', filed),
           kept \subseteq kept', kept' \subseteq Mail, filed \subseteq filed', filed' \subseteq kept',
           UpTo(q.previous, filed),
           UpTo(q.batch, filed' \cup {q.todo[i] : i \in 1..Len(q.todo)}),
           q.stage = "attaching" => q.todo # <<>> /\ Head(q.todo) \in kept'
    PROVE  MailInv'
<1>1. /\ poll' \in [Poller -> PollRow] /\ poll'[p] = q /\ \A r \in Poller : r # p => poll'[r] = poll[r]
  BY DEF MailInv
<1>2. UpTo(imapState, filed)'
  BY DEF UpTo
<1>3. ASSUME NEW r \in Poller
      PROVE  (/\ UpTo(poll[r].previous, filed)
              /\ UpTo(poll[r].batch, filed \cup Todo(r))
              /\ poll[r].stage = "attaching" => poll[r].todo # <<>> /\ Head(poll[r].todo) \in kept)'
  <2>1. CASE r = p
    BY <1>1, <2>1 DEF UpTo, Todo
  <2>2. CASE r # p
    <3>1. /\ UpTo(poll[r].previous, filed) /\ UpTo(poll[r].batch, filed \cup Todo(r))
          /\ poll[r].stage = "attaching" => poll[r].todo # <<>> /\ Head(poll[r].todo) \in kept
      BY DEF MailInv
    <3>2. poll'[r] = poll[r] /\ Todo(r)' = Todo(r)
      BY <1>1, <2>2 DEF Todo
    <3> QED BY <3>1, <3>2 DEF UpTo
  <2> QED BY <2>1, <2>2
<1> QED BY <1>1, <1>2, <1>3 DEF MailInv

LEMMA IdlePoll ==
    ASSUME MailInv
    PROVE  /\ Mails!Idle \in PollRow /\ Mails!Idle.stage = "idle"
           /\ \A mails : UpTo(Mails!Idle.previous, mails) /\ UpTo(Mails!Idle.batch, mails)
<1>1. Mails!Idle = [stage |-> "idle", previous |-> Mails!NoCursor, batch |-> Mails!NoCursor,
          todo |-> <<>>]
  BY DEF Mails!Idle, Mails!At
<1>2. <<>> \in Seq(Mail)
  OBVIOUS
<1> QED BY <1>1, <1>2, NoCursors, PollRows

LEMMA ServerInv ==
    ASSUME MailInv, (\E m \in Mail : Mails!Arrive(m)) \/ Mails!Renumber
    PROVE  MailInv'
<1>0. mailbox \in [validity : 1..MaxValidity, mails : Seq(Mail)]
      /\ UNCHANGED <<imapState, poll, kept, filed>>
  BY DEF MailInv, Mails!Arrive, Mails!Renumber, Mails!channel
<1>1. /\ mailbox' \in [validity : 1..MaxValidity, mails : Seq(Mail)]
      /\ \/ /\ mailbox'.validity = mailbox.validity
            /\ \A u \in 1..Len(mailbox.mails) : /\ u \in 1..Len(mailbox'.mails)
                                                /\ mailbox'.mails[u] = mailbox.mails[u]
         \/ mailbox'.validity = mailbox.validity + 1
  <2>1. ASSUME NEW m \in Mail, Mails!Arrive(m) PROVE <1>1
    <3> DEFINE s == Append(mailbox.mails, m)
    <3>1. mailbox' = [mailbox EXCEPT !.mails = s]
      BY <2>1 DEF Mails!Arrive
    <3>2. mailbox.mails \in Seq(Mail)
      BY <1>0
    <3>3. s \in Seq(Mail) /\ Len(s) = Len(mailbox.mails) + 1
          /\ \A u \in 1..Len(mailbox.mails) : s[u] = mailbox.mails[u]
      BY <3>2
    <3>4. Len(mailbox.mails) \in Nat
      BY <3>2
    <3> HIDE DEF s
    <3>5. mailbox' \in [validity : 1..MaxValidity, mails : Seq(Mail)]
          /\ mailbox'.validity = mailbox.validity /\ mailbox'.mails = s
      BY <1>0, <3>1, <3>3, Zenon
    <3> QED BY <3>3, <3>4, <3>5
  <2>2. CASE Mails!Renumber
    <3>1. PICK s \in {Mails!Reverse(mailbox.mails), <<>>} :
             mailbox' = [validity |-> mailbox.validity + 1, mails |-> s]
      BY <2>2 DEF Mails!Renumber
    <3>2. mailbox.validity + 1 \in 1..MaxValidity
      BY <1>0, <2>2, MailAssumption DEF Mails!Renumber
    <3>3. mailbox.mails \in Seq(Mail)
      BY <1>0
    <3>4. Mails!Reverse(mailbox.mails) \in Seq(Mail)
      <4> DEFINE w == mailbox.mails
                 n == Len(w)
      <4>1. n \in Nat /\ \A i \in 1..n : w[(n - i) + 1] \in Mail
        BY <3>3
      <4>2. Mails!Reverse(w) = [i \in 1..n |-> w[(n - i) + 1]]
        BY DEF Mails!Reverse
      <4> HIDE DEF w, n
      <4>3. [i \in 1..n |-> w[(n - i) + 1]] \in [1..n -> Mail]
        BY <4>1
      <4> QED BY <4>1, <4>2, <4>3, SeqDef DEF w
    <3>5. s \in Seq(Mail)
      <4>1. <<>> \in Seq(Mail)
        OBVIOUS
      <4> QED BY <3>1, <3>4, <4>1, Zenon
    <3>6. /\ mailbox' \in [validity : 1..MaxValidity, mails : Seq(Mail)]
          /\ mailbox'.validity = mailbox.validity + 1
      BY <3>1, <3>2, <3>5
    <3> QED BY <3>6
  <2> QED BY <2>1, <2>2
<1>2. ASSUME NEW c \in Cursor, NEW mails, UpTo(c, mails) PROVE UpTo(c, mails)'
  <2>1. c.validity \in Int /\ mailbox.validity \in Int
    BY <1>0, Cursors
  <2> QED BY <1>1, <1>2, <2>1 DEF UpTo
<1>3. UpTo(imapState, filed)'
  BY <1>0, <1>2 DEF MailInv, UpTo
<1>4. ASSUME NEW p \in Poller
      PROVE  UpTo(poll[p].previous, filed)' /\ UpTo(poll[p].batch, filed \cup Todo(p))'
  <2>1. /\ poll[p].previous \in Cursor /\ poll[p].batch \in Cursor
        /\ UpTo(poll[p].previous, filed) /\ UpTo(poll[p].batch, filed \cup Todo(p))
    BY PollRows DEF MailInv
  <2>2. PICK c, d, k : c = poll[p].previous /\ d = poll[p].batch /\ k = filed \cup Todo(p)
    OBVIOUS
  <2>3. UpTo(c, k)' /\ UpTo(d, k)' /\ UpTo(c, filed)'
    <3>1. UpTo(c, filed) /\ UpTo(d, k) /\ c \in Cursor /\ d \in Cursor
      BY <2>1, <2>2
    <3>2. UpTo(c, k)
      BY <2>2, <3>1 DEF UpTo
    <3>3. PICK f : f = filed
      OBVIOUS
    <3>4. UpTo(c, f)'
      BY <1>2, <3>1, <3>3
    <3> QED BY <1>0, <1>2, <3>1, <3>2, <3>3, <3>4 DEF UpTo
  <2>4. poll'[p].previous = c /\ poll'[p].batch = d /\ (filed \cup Todo(p))' = k
    BY <1>0, <2>2 DEF Todo
  <2> QED BY <2>3, <2>4, <1>0 DEF UpTo
<1> QED BY <1>0, <1>1, <1>3, <1>4 DEF MailInv

(* The part of a sequence behind a place. *)
LEMMA PartOf ==
    ASSUME NEW S, NEW m \in Seq(S), NEW a \in Nat, NEW b \in Nat, a <= b, b <= Len(m)
    PROVE  /\ SubSeq(m, a + 1, b) \in Seq(S) /\ Len(SubSeq(m, a + 1, b)) = b - a
           /\ \A i \in 1..Len(SubSeq(m, a + 1, b)) : SubSeq(m, a + 1, b)[i] = m[a + i]
OBVIOUS

(* What a fetch receives begins where what is stored ends. *)
LEMMA ReceivedInv ==
    ASSUME MailInv, NEW p \in Poller, NEW after \in Nat, Mails!Received(p, after),
           \A u \in 1..after : u \in 1..Len(mailbox.mails) /\ mailbox.mails[u] \in filed,
           after <= Len(mailbox.mails), UNCHANGED <<mailbox, imapState, kept, filed>>
    PROVE  MailInv'
<1> DEFINE o == poll[p]
           n == Len(mailbox.mails)
           last == IF after + PageSize < n THEN after + PageSize ELSE n
           s == SubSeq(mailbox.mails, after + 1, last)
           uid == Mails!LastUid(o.previous, after)
           c == [validity |-> mailbox.validity, uid |-> uid]
           q == [stage |-> "storing", previous |-> o.previous, todo |-> s, batch |-> c]
<1>0. /\ o.previous \in Cursor /\ UpTo(o.previous, filed) /\ mailbox.mails \in Seq(Mail)
      /\ mailbox.validity \in 1..MaxValidity /\ n \in Nat
  <2>1. mailbox.mails \in Seq(Mail) /\ mailbox.validity \in 1..MaxValidity
    BY DEF MailInv
  <2>2. n \in Nat
    BY <2>1
  <2>3. o \in PollRow /\ UpTo(o.previous, filed)
    BY DEF MailInv
  <2> QED BY <2>1, <2>2, <2>3, PollRows
<1>1. poll' = [poll EXCEPT ![p] = q] /\ uid = IF s # <<>> THEN after + Len(s)
                                             ELSE IF o.previous.validity = mailbox.validity THEN o.previous.uid
                                             ELSE 0
  BY DEF Mails!Received, Mails!LastUid, Mails!NextPage
<1>2. last \in Nat /\ after <= last /\ last <= n
  BY <1>0, MailAssumption
<1>3. /\ s \in Seq(Mail) /\ Len(s) = last - after
      /\ \A i \in 1..Len(s) : s[i] = mailbox.mails[after + i]
  <2>1. mailbox.mails \in Seq(Mail) /\ after \in Nat /\ last <= Len(mailbox.mails)
    BY <1>0, <1>2
  <2> QED BY <1>2, <2>1, PartOf
<1> HIDE DEF last, s
<1>4. uid \in Nat /\ o.previous.uid \in Nat
  BY <1>0, <1>1, <1>2, <1>3, Cursors
<1> HIDE DEF uid
<1>5. \A u \in 1..uid : u \in 1..n /\ mailbox.mails[u] \in filed \cup {s[i] : i \in 1..Len(s)}
  <2>1. CASE s # <<>>
    <3>1. uid = last
      BY <1>1, <1>2, <1>3, <2>1
    <3>2. ASSUME NEW u \in 1..uid, u > after PROVE mailbox.mails[u] \in {s[i] : i \in 1..Len(s)}
      <4>1. (u - after) \in 1..Len(s) /\ after + (u - after) = u
        BY <1>2, <1>3, <3>1, <3>2
      <4>2. s[u - after] = mailbox.mails[u]
        BY <1>3, <4>1
      <4> QED BY <4>1, <4>2
    <3> QED BY <1>2, <3>1, <3>2
  <2>2. CASE s = <<>>
    <3>1. CASE o.previous.validity = mailbox.validity
      BY <1>0, <1>1, <2>2, <3>1 DEF UpTo
    <3>2. CASE o.previous.validity # mailbox.validity
      BY <1>1, <2>2, <3>2
    <3> QED BY <3>1, <3>2
  <2> QED BY <2>1, <2>2
<1>6. c \in Cursor
  BY <1>0, <1>4, MailAssumption, Cursors
<1>7. UpTo(c, filed \cup {s[i] : i \in 1..Len(s)})
  BY <1>0, <1>5 DEF UpTo
<1>8. q.stage = "storing" /\ q.previous = o.previous /\ q.todo = s /\ q.batch = c
  OBVIOUS
<1> HIDE DEF c
<1>9. q \in PollRow
  BY <1>0, <1>3, <1>6, PollRows
<1> HIDE DEF q
<1>10. /\ imapState' \in Cursor /\ UpTo(imapState', filed) /\ kept \subseteq Mail /\ filed \subseteq kept
  BY DEF MailInv
<1> QED BY <1>0, <1>1, <1>7, <1>8, <1>9, <1>10, PollMoves

LEMMA FetchInv ==
    ASSUME MailInv, NEW p \in Poller, Mails!Fetch(p) \/ Mails!FetchFromStart(p)
    PROVE  MailInv'
<1> DEFINE o == poll[p]
<1>0. /\ UNCHANGED <<mailbox, imapState, kept, filed>> /\ o \in PollRow
      /\ mailbox.mails \in Seq(Mail) /\ mailbox.validity \in 1..MaxValidity
      /\ UpTo(o.previous, filed) /\ UpTo(o.batch, filed \cup Todo(p))
      /\ imapState \in Cursor /\ UpTo(imapState, filed) /\ kept \subseteq Mail /\ filed \subseteq kept
  <2>1. mailbox.mails \in Seq(Mail) /\ mailbox.validity \in 1..MaxValidity
    BY DEF MailInv
  <2> QED BY <2>1 DEF MailInv, Mails!Fetch, Mails!FetchFromStart, Mails!channel
<1>1. Len(mailbox.mails) \in Nat /\ o.previous \in Cursor /\ o.previous.uid \in Nat
  BY <1>0, PollRows, Cursors
<1>2. CASE Mails!FetchFromStart(p)
  <2>1. Mails!Received(p, 0)
    BY <1>2 DEF Mails!FetchFromStart
  <2> QED BY <1>0, <1>1, <2>1, ReceivedInv
<1>3. CASE Mails!Fetch(p) /\ o.previous.validity \in {0, mailbox.validity}
  <2>1. Mails!Received(p, o.previous.uid)
    BY <1>3 DEF Mails!Fetch
  <2>2. \A u \in 1..o.previous.uid : u \in 1..Len(mailbox.mails) /\ mailbox.mails[u] \in filed
    BY <1>0, <1>1, <1>3 DEF UpTo
  <2>3. o.previous.uid <= Len(mailbox.mails)
    BY <1>1, <2>2
  <2> QED BY <1>0, <1>1, <2>1, <2>2, <2>3, ReceivedInv
<1>4. CASE Mails!Fetch(p) /\ o.previous.validity \notin {0, mailbox.validity}
  <2> DEFINE q == [o EXCEPT !.stage = "restarting"]
  <2>1. poll' = [poll EXCEPT ![p] = q]
    BY <1>4 DEF Mails!Fetch
  <2>2. q \in PollRow /\ q.stage = "restarting" /\ q.previous = o.previous /\ q.batch = o.batch
        /\ q.todo = o.todo
    BY <1>0, Zenon DEF PollRow
  <2>3. UpTo(q.batch, filed \cup {q.todo[i] : i \in 1..Len(q.todo)})
    BY <1>0, <2>2 DEF Todo
  <2> HIDE DEF q
  <2> QED BY <1>0, <2>1, <2>2, <2>3, PollMoves
<1> QED BY <1>2, <1>3, <1>4

LEMMA StoreInv ==
    ASSUME MailInv, NEW p \in Poller,
           Mails!PersistEmailEnvelope(p) \/ Mails!StoreEmailAttachments(p)
    PROVE  MailInv'
<1> DEFINE o == poll[p]
<1>0. /\ UNCHANGED <<mailbox, imapState>> /\ o \in PollRow /\ o.todo \in Seq(Mail)
      /\ UpTo(o.previous, filed) /\ UpTo(o.batch, filed \cup Todo(p))
      /\ imapState \in Cursor /\ UpTo(imapState, filed) /\ kept \subseteq Mail /\ filed \subseteq kept
      /\ o.stage = "attaching" => o.todo # <<>> /\ Head(o.todo) \in kept
  <2>1. o \in PollRow
    BY DEF MailInv
  <2> QED BY <2>1, PollRows DEF MailInv, Mails!PersistEmailEnvelope, Mails!StoreEmailAttachments
<1>1. CASE Mails!PersistEmailEnvelope(p)
  <2> DEFINE q == [o EXCEPT !.stage = "attaching"]
  <2>1. /\ poll' = [poll EXCEPT ![p] = q] /\ o.todo # <<>> /\ kept' = kept \cup {Head(o.todo)}
        /\ filed' = filed
    BY <1>1 DEF Mails!PersistEmailEnvelope
  <2>2. Head(o.todo) \in Mail
    BY <1>0, <2>1
  <2>3. q \in PollRow /\ q.stage = "attaching" /\ q.previous = o.previous /\ q.batch = o.batch
        /\ q.todo = o.todo
    BY <1>0, Zenon DEF PollRow
  <2>4. UpTo(q.batch, filed' \cup {q.todo[i] : i \in 1..Len(q.todo)})
    BY <1>0, <2>1, <2>3 DEF Todo
  <2> HIDE DEF q
  <2> QED BY <1>0, <2>1, <2>2, <2>3, <2>4, PollMoves
<1>2. CASE Mails!StoreEmailAttachments(p)
  <2> DEFINE q == [o EXCEPT !.stage = "storing", !.todo = Tail(o.todo)]
  <2>1. /\ poll' = [poll EXCEPT ![p] = q] /\ o.stage = "attaching" /\ filed' = filed \cup {Head(o.todo)}
        /\ kept' = kept
    BY <1>2 DEF Mails!StoreEmailAttachments
  <2>2. /\ Tail(o.todo) \in Seq(Mail)
        /\ {o.todo[i] : i \in 1..Len(o.todo)}
              \subseteq {Head(o.todo)} \cup {Tail(o.todo)[i] : i \in 1..Len(Tail(o.todo))}
    <3>1. o.todo # <<>>
      BY <1>0, <2>1
    <3>2. Tail(o.todo) \in Seq(Mail) /\ Len(Tail(o.todo)) = Len(o.todo) - 1 /\ Len(o.todo) \in Nat
          /\ \A i \in 1..Len(Tail(o.todo)) : Tail(o.todo)[i] = o.todo[i + 1]
      BY <1>0, <3>1
    <3>3. ASSUME NEW i \in 1..Len(o.todo), i # 1
          PROVE  o.todo[i] \in {Tail(o.todo)[j] : j \in 1..Len(Tail(o.todo))}
      <4>1. (i - 1) \in 1..Len(Tail(o.todo)) /\ (i - 1) + 1 = i
        BY <3>2, <3>3
      <4>2. Tail(o.todo)[i - 1] = o.todo[i]
        BY <3>2, <4>1
      <4> QED BY <4>1, <4>2
    <3>4. o.todo[1] = Head(o.todo)
      BY <3>1
    <3> QED BY <3>2, <3>3, <3>4
  <2>3. q \in PollRow /\ q.stage = "storing" /\ q.previous = o.previous /\ q.batch = o.batch
        /\ q.todo = Tail(o.todo)
    BY <1>0, <2>2, Zenon DEF PollRow
  <2>4. UpTo(q.batch, filed' \cup {q.todo[i] : i \in 1..Len(q.todo)})
    <3>1. filed \cup Todo(p) \subseteq filed' \cup {q.todo[i] : i \in 1..Len(q.todo)}
      BY <2>1, <2>2, <2>3 DEF Todo
    <3> QED BY <1>0, <2>3, <3>1 DEF UpTo
  <2> HIDE DEF q
  <2> QED BY <1>0, <2>1, <2>3, <2>4, PollMoves
<1> QED BY <1>1, <1>2

LEMMA CursorInv ==
    ASSUME MailInv, NEW p \in Poller,
           Mails!ReadState(p) \/ Mails!UpdateImapState(p) \/ Mails!Abandon(p)
    PROVE  MailInv'
<1> DEFINE o == poll[p]
<1>0. /\ mailbox' = mailbox /\ kept' = kept /\ filed' = filed /\ o \in PollRow /\ o.batch \in Cursor
      /\ UpTo(o.batch, filed \cup Todo(p))
      /\ imapState \in Cursor /\ UpTo(imapState, filed) /\ kept \subseteq Mail /\ filed \subseteq kept
      /\ Mails!Idle \in PollRow /\ Mails!Idle.stage = "idle"
      /\ \A mails : UpTo(Mails!Idle.previous, mails) /\ UpTo(Mails!Idle.batch, mails)
  <2>1. o \in PollRow
    BY DEF MailInv
  <2> QED BY <2>1, PollRows, IdlePoll
          DEF MailInv, Mails!ReadState, Mails!UpdateImapState, Mails!Abandon, Mails!channel
<1>1. CASE Mails!ReadState(p)
  <2> DEFINE q == [stage |-> "polling", previous |-> imapState, batch |-> Mails!NoCursor, todo |-> <<>>]
  <2>0. [Mails!At("polling") EXCEPT !.previous = imapState] = q
    BY DEF Mails!At
  <2>1. poll' = [poll EXCEPT ![p] = q] /\ imapState' = imapState
    BY <1>1, <2>0 DEF Mails!ReadState, Mails!channel
  <2>2. <<>> \in Seq(Mail)
    OBVIOUS
  <2>3. q \in PollRow
    BY <1>0, <2>2, NoCursors, PollRows
  <2>4. q.stage = "polling" /\ q.previous = imapState /\ q.batch = Mails!NoCursor
    OBVIOUS
  <2> HIDE DEF q
  <2> QED BY <1>0, <2>1, <2>3, <2>4, NoCursors, PollMoves
<1>2. CASE Mails!UpdateImapState(p)
  <2>1. /\ o.todo = <<>> /\ imapState' = o.batch /\ poll' = [poll EXCEPT ![p] = Mails!Idle]
    BY <1>2 DEF Mails!UpdateImapState
  <2>2. Todo(p) = {}
    BY <2>1 DEF Todo
  <2>3. UpTo(imapState', filed)
    BY <1>0, <2>1, <2>2 DEF UpTo
  <2> QED BY <1>0, <2>1, <2>3, PollMoves
<1>3. CASE Mails!Abandon(p)
  <2>1. imapState' = imapState /\ poll' = [poll EXCEPT ![p] = Mails!Idle]
    BY <1>3 DEF Mails!Abandon, Mails!channel
  <2> QED BY <1>0, <2>1, PollMoves
<1> QED BY <1>1, <1>2, <1>3

LEMMA UpdateChannelInv == ASSUME MailInv, Mails!UpdateChannel PROVE MailInv'
<1>1. imapState' = Mails!NoCursor /\ UNCHANGED <<mailbox, poll, kept, filed>>
  BY DEF Mails!UpdateChannel
<1>2. Mails!NoCursor \in Cursor /\ UpTo(Mails!NoCursor, filed)
  BY NoCursors
<1> QED BY <1>1, <1>2 DEF MailInv, UpTo, Todo

LEMMA MailPart == [Next]_vars => [Mails!Next]_mailVars
BY DEF Next, vars, mailVars

LEMMA MailStep == ASSUME MailInv, [Mails!Next]_mailVars PROVE MailInv'
<1>1. CASE Mails!Next
  BY <1>1, ServerInv, UpdateChannelInv, FetchInv, StoreInv, CursorInv DEF Mails!Next
<1>2. CASE UNCHANGED mailVars
  BY <1>2 DEF mailVars, MailInv, UpTo, Todo
<1> QED BY <1>1, <1>2

LEMMA MailAlways == Spec => []MailInv
<1>1. Init => MailInv
  <2> SUFFICES ASSUME Init PROVE MailInv
    OBVIOUS
  <2>1. /\ mailbox = [validity |-> 1, mails |-> <<>>] /\ imapState = Mails!NoCursor
        /\ poll = [p \in Poller |-> Mails!Idle] /\ kept = {} /\ filed = {}
    BY DEF Init, Mails!Init
  <2>2. <<>> \in Seq(Mail) /\ 1 \in 1..MaxValidity
    BY MailAssumption
  <2>3. mailbox \in [validity : 1..MaxValidity, mails : Seq(Mail)] /\ mailbox.validity = 1
    BY <2>1, <2>2
  <2>4. Mails!NoCursor \in Cursor /\ Mails!NoCursor.validity = 0 /\ Mails!NoCursor.uid = 0
    BY MailAssumption DEF Cursor, Mails!NoCursor
  <2>5. \A mails : UpTo(Mails!NoCursor, mails)
    BY <2>3, <2>4 DEF UpTo
  <2>6. /\ Mails!Idle = [stage |-> "idle", previous |-> Mails!NoCursor, batch |-> Mails!NoCursor,
               todo |-> <<>>]
    BY DEF Mails!Idle, Mails!At
  <2>7. Mails!Idle \in PollRow
    BY <2>2, <2>4, <2>6, PollRows
  <2>8. poll \in [Poller -> PollRow] /\ \A p \in Poller : poll[p] = Mails!Idle
    BY <2>1, <2>7
  <2> QED BY <2>1, <2>3, <2>4, <2>5, <2>6, <2>8 DEF MailInv
<1>2. MailInv /\ [Next]_vars => MailInv'
  BY MailStep, MailPart
<1> QED BY <1>1, <1>2, PTL DEF Spec

(* A cursor that is valid stands beyond no mail that was not stored with its *)
(* attachments: for any number of polls and mails, renumberings at any point *)
(* and pages of any size.                                                    *)
THEOREM NoMailIsPassedOver == Spec => []NoMailPassedOver
<1>1. MailInv => NoMailPassedOver
  <2> SUFFICES ASSUME MailInv PROVE Mails!NoMailPassedOver
    BY DEF NoMailPassedOver
  <2>1. mailbox.mails \in Seq(Mail)
    BY DEF MailInv
  <2>2. DOMAIN mailbox.mails = 1..Len(mailbox.mails)
    BY <2>1
  <2> QED BY <2>2 DEF MailInv, UpTo, Mails!NoMailPassedOver
<1> QED BY <1>1, MailAlways, PTL

LEMMA MailTypes == MailInv => Mails!TypeOK
<1> SUFFICES ASSUME MailInv PROVE Mails!TypeOK
  OBVIOUS
<1>1. mailbox.validity \in 1..MaxValidity /\ mailbox.mails \in Seq(Mail)
      /\ imapState.validity \in 0..MaxValidity /\ imapState.uid \in Nat
  <2>1. imapState \in Cursor /\ mailbox \in [validity : 1..MaxValidity, mails : Seq(Mail)]
    BY DEF MailInv
  <2> QED BY <2>1 DEF Cursor
<1>2. \A s \in Seq(Mail) : Mails!Range(s) \subseteq Mail
  BY DEF Mails!Range
<1>3. \A p \in Poller : /\ poll[p].stage \in {"idle", "polling", "restarting", "storing", "attaching"}
                        /\ poll[p].todo \in Seq(Mail)
  BY DEF MailInv, PollRow
<1> QED BY <1>1, <1>2, <1>3 DEF MailInv, Mails!TypeOK

-------------------------------------------------------------------------------
(* AmoConnection: while no write has met a changed row, a refresh that has *)
(* the row's version was made from its tokens; and the last tokens of the  *)
(* connected account are in the row, lost, or with who will bring them.    *)
OauthRow ==
    [stage : {"none", "issued", "used"}] \cup [stage : {"consumed"}]
    \cup [stage : {"exchanged"}, tokens : Accounts!Tokens]
    \cup [stage : {"loaded"}, tokens : Accounts!Tokens, version : 0..MaxConnectionVersion,
          status : {"absent", "connected", "disconnected"}]

RefreshRow == [stage : {"loaded", "received"}, tokens : Accounts!Tokens,
               version : 0..MaxConnectionVersion]

ConnectionRow == [status : {"absent", "connected", "disconnected"},
                  account : Account \cup {"none"},
                  tokens : Accounts!Tokens \cup {Accounts!NoTokens},
                  version : 0..MaxConnectionVersion]

ConnectionTypes ==
    /\ connection \in ConnectionRow
    /\ oauth \in [State -> OauthRow]
    /\ refresh \in [Process -> RefreshRow \cup {Accounts!Idle}]
    /\ amo \in [Account -> 0..MaxToken]
    /\ lost \subseteq Account /\ crossed \in BOOLEAN

(* Who brings the last tokens of an account *)
Brings(a) ==
    \/ \E p \in Process : refresh[p].stage = "received"
           /\ refresh[p].tokens = [account |-> a, number |-> amo[a]]
    \/ \E s \in State : /\ oauth[s].stage \in {"exchanged", "loaded"}
                        /\ oauth[s].tokens = [account |-> a, number |-> amo[a]]

Connected == connection.status = "connected"

RowFits ==
    Connected =>
        /\ connection.tokens \in Accounts!Tokens
        /\ ~crossed => LET a == connection.tokens.account
                       IN  /\ a = connection.account
                           /\ connection.tokens.number = amo[a] \/ a \in lost \/ Brings(a)

RefreshFits(p) ==
    refresh[p] # Accounts!Idle =>
        /\ refresh[p].stage = "received" => refresh[p].tokens.number <= amo[refresh[p].tokens.account]
        /\ ~crossed => refresh[p].version <= connection.version
        /\ ~crossed /\ refresh[p].version = connection.version =>
              /\ Connected
              /\ refresh[p].tokens.account = connection.tokens.account
              /\ connection.tokens.number <= refresh[p].tokens.number
              /\ refresh[p].stage = "received" => connection.tokens.number # refresh[p].tokens.number

ConnectionInv == ConnectionTypes /\ RowFits /\ \A p \in Process : RefreshFits(p)

-------------------------------------------------------------------------------
LEMMA ConnectionTypesAre == ConnectionTypes => Accounts!TypeOK
BY Zenon DEF ConnectionTypes, Accounts!TypeOK, ConnectionRow, OauthRow, RefreshRow

(* What is in the row of an authorization or of a refresh, by its stage. *)
LEMMA OauthRows ==
    ASSUME NEW q \in OauthRow, q.stage \in {"exchanged", "loaded"}
    PROVE  /\ q.tokens \in Accounts!Tokens
           /\ q.tokens.account \in Account /\ q.tokens.number \in 1..MaxToken
           /\ q.stage = "loaded" => q.version \in 0..MaxConnectionVersion
<1>1. /\ q.tokens \in Accounts!Tokens
      /\ q.stage = "loaded" => q.version \in 0..MaxConnectionVersion
  BY DEF OauthRow
<1>2. q.tokens.account \in Account /\ q.tokens.number \in 1..MaxToken
  BY <1>1 DEF Accounts!Tokens
<1> QED BY <1>1, <1>2

LEMMA OauthRowsMade ==
    /\ \A st \in {"none", "issued", "used", "consumed"} : [stage |-> st] \in OauthRow
    /\ \A t \in Accounts!Tokens :
          /\ [stage |-> "exchanged", tokens |-> t] \in OauthRow
          /\ \A v \in 0..MaxConnectionVersion, st \in {"absent", "connected", "disconnected"} :
                [stage |-> "loaded", tokens |-> t, version |-> v, status |-> st] \in OauthRow
BY DEF OauthRow

LEMMA RefreshRows ==
    ASSUME NEW q \in RefreshRow \cup {Accounts!Idle}
    PROVE  /\ q # Accounts!Idle <=> q.stage \in {"loaded", "received"}
           /\ q # Accounts!Idle => /\ q \in RefreshRow
                                   /\ q.tokens \in Accounts!Tokens
                                   /\ q.tokens.account \in Account /\ q.tokens.number \in 1..MaxToken
                                   /\ q.version \in 0..MaxConnectionVersion
<1>1. CASE q = Accounts!Idle
  BY <1>1 DEF Accounts!Idle
<1>2. CASE q \in RefreshRow
  <2>1. q.stage \in {"loaded", "received"} /\ q.tokens \in Accounts!Tokens
        /\ q.version \in 0..MaxConnectionVersion
    BY <1>2 DEF RefreshRow
  <2>2. q.tokens.account \in Account /\ q.tokens.number \in 1..MaxToken
    BY <2>1 DEF Accounts!Tokens
  <2>3. q # Accounts!Idle
    BY <2>1 DEF Accounts!Idle
  <2> QED BY <1>2, <2>1, <2>2, <2>3
<1> QED BY <1>1, <1>2

LEMMA ConnectionRows ==
    ASSUME NEW c \in ConnectionRow
    PROVE  /\ c.status \in {"absent", "connected", "disconnected"}
           /\ c.tokens \in Accounts!Tokens \cup {Accounts!NoTokens}
           /\ c.version \in 0..MaxConnectionVersion
BY DEF ConnectionRow

(* A step of an authorization that neither brings tokens nor loses them. *)
LEMMA OauthMoves ==
    ASSUME ConnectionInv, NEW s \in State, NEW q \in OauthRow, oauth' = [oauth EXCEPT ![s] = q],
           UNCHANGED <<connection, refresh, amo, crossed>>, lost \subseteq lost', lost' \subseteq Account,
           \/ oauth[s].stage \notin {"exchanged", "loaded"}
           \/ q.stage \in {"exchanged", "loaded"} /\ q.tokens = oauth[s].tokens
           \/ oauth[s].tokens.account \in lost'
    PROVE  ConnectionInv'
<1>0. ConnectionTypes /\ RowFits /\ \A p \in Process : RefreshFits(p)
  BY DEF ConnectionInv
<1>1. /\ oauth' \in [State -> OauthRow] /\ oauth'[s] = q
      /\ \A t \in State : t # s => oauth'[t] = oauth[t]
  BY <1>0 DEF ConnectionTypes
<1>2. ConnectionTypes'
  BY <1>0, <1>1 DEF ConnectionTypes
<1>3. \A a : Brings(a) => Brings(a)' \/ a \in lost'
  BY <1>1 DEF Brings
<1>4. RowFits'
  BY <1>0, <1>3 DEF RowFits, Connected
<1>5. \A p \in Process : RefreshFits(p)'
  BY <1>0 DEF RefreshFits, Connected
<1> QED BY <1>2, <1>4, <1>5 DEF ConnectionInv

LEMMA OauthStep ==
    ASSUME ConnectionInv, NEW s \in State,
           \/ Accounts!StartOAuth(s) \/ Accounts!ConsumeState(s) \/ Accounts!LoadConnection(s)
           \/ Accounts!AbandonCallback(s)
    PROVE  ConnectionInv'
<1> USE DEF Accounts!Proceeds
<1>0. /\ oauth[s] \in OauthRow /\ connection \in ConnectionRow /\ lost \subseteq Account
  BY DEF ConnectionInv, ConnectionTypes
<1>1. CASE Accounts!StartOAuth(s)
  <2>1. /\ oauth[s].stage = "none" /\ oauth' = [oauth EXCEPT ![s] = [stage |-> "issued"]]
        /\ UNCHANGED <<connection, refresh, amo, lost, crossed>>
    BY <1>1 DEF Accounts!StartOAuth
  <2> QED BY <1>0, <2>1, OauthMoves, OauthRowsMade
<1>2. CASE Accounts!ConsumeState(s)
  <2>1. /\ oauth[s].stage = "issued" /\ oauth' = [oauth EXCEPT ![s] = [stage |-> "consumed"]]
        /\ UNCHANGED <<connection, refresh, amo, lost, crossed>>
    BY <1>2 DEF Accounts!ConsumeState
  <2> QED BY <1>0, <2>1, OauthMoves, OauthRowsMade
<1>3. CASE Accounts!LoadConnection(s)
  <2> DEFINE q == [stage |-> "loaded", tokens |-> oauth[s].tokens,
                   version |-> connection.version, status |-> connection.status]
  <2>1. /\ oauth[s].stage = "exchanged" /\ oauth' = [oauth EXCEPT ![s] = q]
        /\ UNCHANGED <<connection, refresh, amo, lost, crossed>>
    BY <1>3 DEF Accounts!LoadConnection
  <2>2. q \in OauthRow
    BY <1>0, <2>1, OauthRows, ConnectionRows, OauthRowsMade
  <2>3. q.stage = "loaded" /\ q.tokens = oauth[s].tokens
    OBVIOUS
  <2> HIDE DEF q
  <2> QED BY <1>0, <2>1, <2>2, <2>3, OauthMoves
<1>4. CASE Accounts!AbandonCallback(s)
  <2>1. /\ oauth[s].stage \in {"consumed", "exchanged", "loaded"}
        /\ lost' = IF oauth[s].stage = "consumed" THEN lost ELSE lost \cup {oauth[s].tokens.account}
        /\ oauth' = [oauth EXCEPT ![s] = [stage |-> "used"]]
        /\ UNCHANGED <<connection, refresh, amo, crossed>>
    BY <1>4 DEF Accounts!AbandonCallback
  <2>2. oauth[s].stage # "consumed" => oauth[s].tokens.account \in Account
    BY <1>0, <2>1, OauthRows
  <2>3. lost \subseteq lost' /\ lost' \subseteq Account
    BY <1>0, <2>1, <2>2
  <2>4. \/ oauth[s].stage \notin {"exchanged", "loaded"}
        \/ oauth[s].tokens.account \in lost'
    BY <2>1
  <2> QED BY <1>0, <2>1, <2>3, <2>4, OauthMoves, OauthRowsMade
<1> QED BY <1>1, <1>2, <1>3, <1>4

LEMMA ExchangeInv ==
    ASSUME ConnectionInv, NEW s \in State, NEW a \in Account, Accounts!Exchange(s, a)
    PROVE  ConnectionInv'
<1>0. ConnectionTypes /\ RowFits /\ \A p \in Process : RefreshFits(p)
  BY DEF ConnectionInv
<1> DEFINE t == [account |-> a, number |-> amo[a] + 1]
<1>1. /\ oauth[s].stage = "consumed" /\ amo[a] < MaxToken
      /\ amo' = [amo EXCEPT ![a] = @ + 1]
      /\ UNCHANGED <<connection, refresh, lost, crossed>>
  BY DEF Accounts!Exchange, Accounts!Issued
<1>2. amo[a] + 1 \in 1..MaxToken /\ amo' \in [Account -> 0..MaxToken] /\ amo'[a] = amo[a] + 1
      /\ \A b \in Account : b # a => amo'[b] = amo[b]
  BY <1>0, <1>1, ConnectionAssumption DEF ConnectionTypes
<1>3. oauth' = [oauth EXCEPT ![s] = [stage |-> "exchanged", tokens |-> t]]
  BY <1>2 DEF Accounts!Exchange, Accounts!Proceeds
<1>4. t \in Accounts!Tokens /\ t = [account |-> a, number |-> amo'[a]]
  BY <1>2 DEF Accounts!Tokens
<1> HIDE DEF t
<1>5. [stage |-> "exchanged", tokens |-> t] \in OauthRow
  BY <1>4, OauthRowsMade
<1>6. /\ oauth' \in [State -> OauthRow] /\ oauth'[s] = [stage |-> "exchanged", tokens |-> t]
      /\ \A u \in State : u # s => oauth'[u] = oauth[u]
  BY <1>0, <1>3, <1>5 DEF ConnectionTypes
<1>7. ConnectionTypes'
  BY <1>0, <1>1, <1>2, <1>6 DEF ConnectionTypes
<1>8. Brings(a)'
  BY <1>4, <1>6 DEF Brings
<1>9. \A b \in Account : b # a /\ Brings(b) => Brings(b)'
  BY <1>1, <1>2, <1>6 DEF Brings
<1>10. RowFits'
  <2>1. Connected => connection.tokens.account \in Account
    BY <1>0 DEF RowFits, Accounts!Tokens
  <2> QED BY <1>0, <1>1, <1>2, <1>8, <1>9, <2>1 DEF RowFits, Connected
<1>11. ASSUME NEW p \in Process PROVE RefreshFits(p)'
  <2>1. CASE refresh[p] = Accounts!Idle
    BY <1>1, <2>1 DEF RefreshFits
  <2>2. CASE refresh[p] # Accounts!Idle
    <3>1. refresh[p].tokens.account \in Account /\ refresh[p].tokens.number \in 1..MaxToken
      BY <1>0, <2>2, RefreshRows DEF ConnectionTypes
    <3>2. amo[refresh[p].tokens.account] <= amo'[refresh[p].tokens.account]
          /\ amo[refresh[p].tokens.account] \in Int /\ amo'[refresh[p].tokens.account] \in Int
      BY <1>0, <1>2, <3>1 DEF ConnectionTypes
    <3> QED BY <1>0, <1>1, <2>2, <3>1, <3>2 DEF RefreshFits, Connected
  <2> QED BY <2>1, <2>2
<1> QED BY <1>7, <1>10, <1>11 DEF ConnectionInv

LEMMA CallbackInv ==
    ASSUME ConnectionInv, NEW s \in State, Accounts!OauthCallback(s)
    PROVE  ConnectionInv'
<1>0. ConnectionTypes /\ RowFits /\ \A p \in Process : RefreshFits(p)
  BY DEF ConnectionInv
<1> DEFINE q == oauth[s]
           refused == q.status = "absent" /\ connection.status # "absent"
           a == q.tokens.account
           c == [status |-> IF q.status = "connected" THEN connection.status ELSE "connected",
                 account |-> q.tokens.account, tokens |-> q.tokens, version |-> q.version + 1]
<1>1. /\ q.stage = "loaded" /\ q.version < MaxConnectionVersion
      /\ connection' = IF refused THEN connection ELSE c
      /\ crossed' = (crossed \/ (~refused /\ q.version # connection.version))
      /\ lost' = IF refused \/ q.tokens.number # amo[q.tokens.account]
                 THEN lost \cup {q.tokens.account} ELSE lost \ {q.tokens.account}
      /\ oauth' = [oauth EXCEPT ![s] = [stage |-> "used"]]
      /\ UNCHANGED <<refresh, amo>>
  BY DEF Accounts!OauthCallback, Accounts!MayBump, Accounts!Proceeds
<1>2. /\ q.tokens \in Accounts!Tokens /\ a \in Account /\ q.tokens.number \in 1..MaxToken
      /\ q.version \in 0..MaxConnectionVersion
  BY <1>0, <1>1, OauthRows DEF ConnectionTypes
<1>3. CASE refused
  <2>1. /\ UNCHANGED <<connection, refresh, amo, crossed>> /\ lost \subseteq lost'
        /\ lost' \subseteq Account /\ q.tokens.account \in lost'
    BY <1>0, <1>1, <1>2, <1>3 DEF ConnectionTypes
  <2> QED BY <1>1, <2>1, OauthMoves, OauthRowsMade
<1>4. CASE ~refused
  <2>1. connection' = c /\ crossed' = (crossed \/ q.version # connection.version)
    BY <1>1, <1>4
  <2>2. c \in ConnectionRow
    <3>1. connection.status \in {"absent", "connected", "disconnected"}
      BY <1>0, ConnectionRows DEF ConnectionTypes
    <3>2. q.version + 1 \in 0..MaxConnectionVersion
      BY <1>1, <1>2, ConnectionAssumption
    <3> QED BY <1>2, <3>1, <3>2 DEF ConnectionRow
  <2>3. c.tokens = q.tokens /\ c.account = a /\ c.version = q.version + 1
    OBVIOUS
  <2>4. /\ oauth' \in [State -> OauthRow]
        /\ \A u \in State : u # s => oauth'[u] = oauth[u]
    BY <1>0, <1>1, OauthRowsMade DEF ConnectionTypes
  <2>5. crossed' \in BOOLEAN /\ lost' \subseteq Account
    BY <1>0, <1>1, <1>2, <2>1 DEF ConnectionTypes
  <2> HIDE DEF c, refused
  <2>6. ConnectionTypes'
    BY <1>0, <1>1, <2>1, <2>2, <2>4, <2>5 DEF ConnectionTypes
  <2>7. RowFits'
    <3>1. q.tokens.number = amo[a] \/ a \in lost'
      BY <1>1
    <3> QED BY <1>1, <1>2, <2>1, <2>3, <3>1 DEF RowFits, Connected
  <2>8. ASSUME NEW p \in Process PROVE RefreshFits(p)'
    <3>1. CASE refresh[p] = Accounts!Idle
      BY <1>1, <3>1 DEF RefreshFits
    <3>2. CASE refresh[p] # Accounts!Idle
      <4>1. refresh[p].version \in Int /\ connection.version \in Int /\ q.version \in Int
        BY <1>0, <1>2, <3>2, RefreshRows, ConnectionRows DEF ConnectionTypes
      <4>2. ~crossed' => refresh[p].version <= q.version
        BY <1>0, <2>1, <3>2 DEF RefreshFits
      <4>3. ~crossed' => refresh[p].version < connection'.version
        BY <2>1, <2>3, <4>1, <4>2
      <4>4. ~crossed' => refresh[p].version <= connection'.version
                /\ refresh[p].version # connection'.version
        BY <2>1, <2>3, <4>1, <4>3
      <4>5. refresh[p].stage = "received" => refresh[p].tokens.number <= amo[refresh[p].tokens.account]
        BY <1>0, <3>2 DEF RefreshFits
      <4> QED BY <1>1, <4>4, <4>5 DEF RefreshFits
    <3> QED BY <3>1, <3>2
  <2> QED BY <2>6, <2>7, <2>8 DEF ConnectionInv
<1> QED BY <1>3, <1>4

LEMMA DisconnectInv ==
    ASSUME ConnectionInv, Accounts!Disconnect(connection.version)
    PROVE  ConnectionInv'
<1>0. ConnectionTypes /\ RowFits /\ \A p \in Process : RefreshFits(p)
  BY DEF ConnectionInv
<1>1. /\ connection.version < MaxConnectionVersion
      /\ connection' = [connection EXCEPT !.status = "disconnected", !.tokens = Accounts!NoTokens,
                                          !.version = connection.version + 1]
      /\ UNCHANGED <<oauth, refresh, amo, lost, crossed>>
  BY DEF Accounts!Disconnect, Accounts!MayBump
<1>2. connection.version + 1 \in 0..MaxConnectionVersion /\ connection.version \in Int
  BY <1>0, <1>1, ConnectionAssumption, ConnectionRows DEF ConnectionTypes
<1>3. /\ connection' \in ConnectionRow /\ connection'.status = "disconnected"
      /\ connection'.version = connection.version + 1
  BY <1>0, <1>1, <1>2, Zenon DEF ConnectionTypes, ConnectionRow
<1>4. ConnectionTypes'
  BY <1>0, <1>1, <1>3 DEF ConnectionTypes
<1>5. RowFits'
  BY <1>3 DEF RowFits, Connected
<1>6. ASSUME NEW p \in Process PROVE RefreshFits(p)'
  <2>1. CASE refresh[p] = Accounts!Idle
    BY <1>1, <2>1 DEF RefreshFits
  <2>2. CASE refresh[p] # Accounts!Idle
    <3>1. refresh[p].version \in Int
      BY <1>0, <2>2, RefreshRows DEF ConnectionTypes
    <3>2. ~crossed => refresh[p].version <= connection'.version
              /\ refresh[p].version # connection'.version
      BY <1>0, <1>2, <1>3, <2>2, <3>1 DEF RefreshFits
    <3> QED BY <1>0, <1>1, <2>2, <3>2 DEF RefreshFits
  <2> QED BY <2>1, <2>2
<1> QED BY <1>4, <1>5, <1>6 DEF ConnectionInv

(* A refresh that begins, or that ends and loses what it brings. *)
LEMMA RefreshMoves ==
    ASSUME ConnectionInv, NEW p \in Process, NEW q \in RefreshRow \cup {Accounts!Idle},
           refresh' = [refresh EXCEPT ![p] = q],
           UNCHANGED <<connection, oauth, amo, crossed>>, lost \subseteq lost', lost' \subseteq Account,
           refresh[p].stage = "received" => refresh[p].tokens.account \in lost',
           \/ q = Accounts!Idle
           \/ Connected /\ q.stage = "loaded" /\ q.tokens = connection.tokens
              /\ q.version = connection.version
    PROVE  ConnectionInv'
<1>0. ConnectionTypes /\ RowFits /\ \A r \in Process : RefreshFits(r)
  BY DEF ConnectionInv
<1>1. /\ refresh' \in [Process -> RefreshRow \cup {Accounts!Idle}] /\ refresh'[p] = q
      /\ \A r \in Process : r # p => refresh'[r] = refresh[r]
  BY <1>0 DEF ConnectionTypes
<1>2. ConnectionTypes'
  BY <1>0, <1>1 DEF ConnectionTypes
<1>3. \A a : Brings(a) => Brings(a)' \/ a \in lost'
  BY <1>1 DEF Brings
<1>4. RowFits'
  BY <1>0, <1>3 DEF RowFits, Connected
<1>5. ASSUME NEW r \in Process PROVE RefreshFits(r)'
  <2>1. CASE r # p
    BY <1>0, <1>1, <2>1 DEF RefreshFits, Connected
  <2>2. CASE r = p /\ q = Accounts!Idle
    BY <1>1, <2>2 DEF RefreshFits
  <2>3. CASE r = p /\ q # Accounts!Idle
    <3>1. q.version \in Int /\ q.tokens.number \in Int /\ q.stage = "loaded"
      BY <2>3, RefreshRows
    <3> QED BY <1>1, <2>3, <3>1 DEF RefreshFits, Connected
  <2> QED BY <2>1, <2>2, <2>3
<1> QED BY <1>2, <1>4, <1>5 DEF ConnectionInv

LEMMA TokensRenewed ==
    ASSUME NEW S, NEW T, NEW u \in [account : S, number : T], NEW n
    PROVE  [u EXCEPT !.number = n] = [account |-> u.account, number |-> n]
OBVIOUS

LEMMA RefreshedRow ==
    ASSUME NEW q \in RefreshRow, NEW n \in 1..MaxToken
    PROVE  [q EXCEPT !.stage = "received", !.tokens = [q.tokens EXCEPT !.number = n]]
              = [stage |-> "received", tokens |-> [account |-> q.tokens.account, number |-> n],
                 version |-> q.version]
<1> DEFINE k == [q.tokens EXCEPT !.number = n]
           w == [q EXCEPT !.stage = "received", !.tokens = k]
<1>1. q.tokens \in [account : Account, number : 1..MaxToken]
  BY DEF RefreshRow, Accounts!Tokens
<1>2. k = [account |-> q.tokens.account, number |-> n]
  BY <1>1, TokensRenewed
<1>3. k \in Accounts!Tokens
  BY <1>1, <1>2 DEF Accounts!Tokens
<1> HIDE DEF k
<1>4. w \in [stage : {"loaded", "received"}, tokens : Accounts!Tokens, version : 0..MaxConnectionVersion]
  BY <1>3, Zenon DEF RefreshRow
<1>5. w.stage = "received" /\ w.tokens = k /\ w.version = q.version
  BY Zenon DEF RefreshRow
<1> HIDE DEF w
<1>6. w = [stage |-> w.stage, tokens |-> w.tokens, version |-> w.version]
  BY <1>4
<1>7. w = [stage |-> "received", tokens |-> k, version |-> q.version]
  BY <1>5, <1>6
<1> QED BY <1>2, <1>7 DEF k, w

LEMMA RefreshTokensInv ==
    ASSUME ConnectionInv, NEW p \in Process, Accounts!RefreshTokens(p)
    PROVE  ConnectionInv'
<1>0. ConnectionTypes /\ RowFits /\ \A r \in Process : RefreshFits(r)
  BY DEF ConnectionInv
<1> DEFINE o == refresh[p]
<1>1. /\ o \in RefreshRow /\ o # Accounts!Idle /\ o.stage = "loaded" /\ o.tokens \in Accounts!Tokens
      /\ o.tokens.account \in Account /\ o.tokens.number \in 1..MaxToken
             /\ o.version \in 0..MaxConnectionVersion
  <2>1. o \in RefreshRow \cup {Accounts!Idle} /\ o.stage = "loaded"
    BY <1>0 DEF Accounts!RefreshTokens, ConnectionTypes
  <2> QED BY <2>1, RefreshRows
<1>a. PICK a \in Account : a = o.tokens.account
  BY <1>1
<1>2. CASE o.tokens.number # amo[a]
  <2>1. /\ refresh' = [refresh EXCEPT ![p] = Accounts!Idle]
        /\ UNCHANGED <<connection, oauth, amo, lost, crossed>>
    BY <1>2, <1>a DEF Accounts!RefreshTokens, Accounts!Continues
  <2>2. lost \subseteq lost' /\ lost' \subseteq Account
    BY <1>0, <2>1 DEF ConnectionTypes
  <2> QED BY <1>1, <2>1, <2>2, RefreshMoves
<1>3. CASE o.tokens.number = amo[a]
  <2> DEFINE n == [o EXCEPT !.stage = "received", !.tokens.number = @ + 1]
             t == [account |-> a, number |-> amo[a] + 1]
  <2>1. /\ amo[a] < MaxToken /\ amo' = [amo EXCEPT ![a] = @ + 1]
        /\ refresh' = [refresh EXCEPT ![p] = n]
        /\ UNCHANGED <<connection, oauth, lost, crossed>>
    BY <1>3, <1>a DEF Accounts!RefreshTokens, Accounts!Continues, Accounts!Issued
  <2>2. /\ amo[a] + 1 \in 1..MaxToken /\ amo' \in [Account -> 0..MaxToken] /\ amo'[a] = amo[a] + 1
        /\ \A b \in Account : b # a => amo'[b] = amo[b]
    BY <1>0, <1>1, <2>1, ConnectionAssumption DEF ConnectionTypes
  <2>3. t \in Accounts!Tokens /\ t.account = a /\ t.number = amo'[a]
        /\ t = [account |-> a, number |-> amo'[a]]
    BY <1>1, <2>2 DEF Accounts!Tokens
  <2>4. n = [stage |-> "received", tokens |-> t, version |-> o.version]
    <3>1. n = [o EXCEPT !.stage = "received", !.tokens = [o.tokens EXCEPT !.number = amo[a] + 1]]
      BY <1>3, Zenon
    <3> QED BY <1>1, <1>a, <2>2, <3>1, RefreshedRow, Zenon
  <2> HIDE DEF t, n
  <2>6. n \in RefreshRow /\ n.stage = "received" /\ n.tokens = t /\ n.version = o.version
    BY <1>1, <2>3, <2>4 DEF RefreshRow
  <2>7. /\ refresh' \in [Process -> RefreshRow \cup {Accounts!Idle}] /\ refresh'[p] = n
        /\ \A r \in Process : r # p => refresh'[r] = refresh[r]
    BY <1>0, <2>1, <2>6 DEF ConnectionTypes
  <2>8. ConnectionTypes'
    BY <1>0, <2>1, <2>2, <2>7 DEF ConnectionTypes
  <2>9. Brings(a)' /\ \A b \in Account : b # a /\ Brings(b) => Brings(b)'
    BY <1>1, <2>1, <2>2, <2>3, <2>6, <2>7 DEF Brings
  <2>10. RowFits'
    <3>1. Connected => connection.tokens.account \in Account
      BY <1>0 DEF RowFits, Accounts!Tokens
    <3> QED BY <1>0, <1>1, <2>1, <2>2, <2>9, <3>1 DEF RowFits, Connected
  <2>11. ASSUME NEW r \in Process PROVE RefreshFits(r)'
    <3>1. CASE r = p
      <4>1. refresh'[p].tokens.number <= amo'[refresh'[p].tokens.account]
        BY <2>2, <2>3, <2>6, <2>7
      <4>2. ~crossed => o.version <= connection.version
        BY <1>0, <1>1 DEF RefreshFits
      <4>3. ~crossed /\ o.version = connection.version =>
               /\ Connected /\ a = connection.tokens.account
        BY <1>0, <1>1, <1>a DEF RefreshFits
      <4>4. ~crossed /\ o.version = connection.version =>
               connection.tokens.number <= t.number /\ connection.tokens.number # t.number
        <5> SUFFICES ASSUME ~crossed, o.version = connection.version
                     PROVE  connection.tokens.number <= t.number /\ connection.tokens.number # t.number
          OBVIOUS
        <5>1. Connected /\ connection.tokens.number <= amo[a]
          BY <1>0, <1>1, <1>3 DEF RefreshFits
        <5>2. connection.tokens.number \in Int /\ amo[a] \in Int
          BY <1>0, <1>1, <5>1 DEF RowFits, Accounts!Tokens, ConnectionTypes
        <5> QED BY <2>2, <2>3, <5>1, <5>2
      <4> QED BY <2>1, <2>3, <2>6, <2>7, <3>1, <4>1, <4>2, <4>3, <4>4 DEF RefreshFits, Connected
    <3>2. CASE r # p /\ refresh[r] = Accounts!Idle
      BY <2>7, <3>2 DEF RefreshFits
    <3>3. CASE r # p /\ refresh[r] # Accounts!Idle
      <4>1. refresh[r].tokens.account \in Account /\ refresh[r].tokens.number \in 1..MaxToken
        BY <1>0, <3>3, RefreshRows DEF ConnectionTypes
      <4>2. amo[refresh[r].tokens.account] <= amo'[refresh[r].tokens.account]
            /\ amo[refresh[r].tokens.account] \in Int /\ amo'[refresh[r].tokens.account] \in Int
        BY <1>0, <2>2, <4>1 DEF ConnectionTypes
      <4> QED BY <1>0, <2>1, <2>7, <3>3, <4>1, <4>2 DEF RefreshFits, Connected
    <3> QED BY <3>1, <3>2, <3>3
  <2> QED BY <2>8, <2>10, <2>11 DEF ConnectionInv
<1> QED BY <1>2, <1>3

LEMMA StoreTokensInv ==
    ASSUME ConnectionInv, NEW p \in Process, Accounts!StoreTokens(p)
    PROVE  ConnectionInv'
<1>0. ConnectionTypes /\ RowFits /\ \A r \in Process : RefreshFits(r)
  BY DEF ConnectionInv
<1> DEFINE o == refresh[p]
<1>1. /\ o.stage = "received" /\ Connected /\ connection.version < MaxConnectionVersion
      /\ connection' = [connection EXCEPT !.tokens = o.tokens, !.version = @ + 1]
      /\ crossed' = (crossed \/ o.version # connection.version)
      /\ refresh' = [refresh EXCEPT ![p] = Accounts!Idle]
      /\ UNCHANGED <<oauth, amo, lost>>
  BY DEF Accounts!StoreTokens, Accounts!MayBump, Accounts!Continues, Connected
<1>2. /\ o # Accounts!Idle /\ o.tokens \in Accounts!Tokens
      /\ o.tokens.account \in Account /\ o.tokens.number \in 1..MaxToken
      /\ o.version \in 0..MaxConnectionVersion
  <2>1. o \in RefreshRow \cup {Accounts!Idle}
    BY <1>0 DEF ConnectionTypes
  <2> QED BY <1>1, <2>1, RefreshRows
<1>3. connection.version + 1 \in 0..MaxConnectionVersion /\ connection.version \in Int
  BY <1>0, <1>1, ConnectionAssumption, ConnectionRows DEF ConnectionTypes
<1>4. /\ connection' \in ConnectionRow /\ connection'.status = "connected"
      /\ connection'.version = connection.version + 1 /\ connection'.tokens = o.tokens
      /\ connection'.account = connection.account
  <2>1. connection \in ConnectionRow
    BY <1>0 DEF ConnectionTypes
  <2>2. connection' = [connection EXCEPT !.tokens = o.tokens, !.version = connection.version + 1]
    BY <1>1
  <2> QED BY <1>1, <1>2, <1>3, <2>1, <2>2, Zenon DEF ConnectionRow, Connected
<1>5. /\ refresh' \in [Process -> RefreshRow \cup {Accounts!Idle}] /\ refresh'[p] = Accounts!Idle
      /\ \A r \in Process : r # p => refresh'[r] = refresh[r]
  BY <1>0, <1>1 DEF ConnectionTypes
<1>6. ConnectionTypes'
  BY <1>0, <1>1, <1>4, <1>5 DEF ConnectionTypes
<1>7. RowFits'
  <2>1. PICK a \in Account : a = o.tokens.account
    BY <1>2
  <2>2. SUFFICES ASSUME ~crossed'
                 PROVE  a = connection.account
                        /\ (o.tokens.number = amo[a] \/ a \in lost \/ Brings(a)')
    BY <1>1, <1>2, <1>4, <2>1 DEF RowFits, Connected
  <2>3. ~crossed /\ o.version = connection.version
    BY <1>1, <2>2
  <2>4. /\ a = connection.tokens.account
        /\ connection.tokens.number <= o.tokens.number /\ connection.tokens.number # o.tokens.number
        /\ o.tokens.number <= amo[a]
    BY <1>0, <1>1, <1>2, <2>1, <2>3 DEF RefreshFits
  <2>5. /\ a = connection.account
        /\ connection.tokens.number = amo[a] \/ a \in lost \/ Brings(a)
    BY <1>0, <1>1, <2>3, <2>4 DEF RowFits
  <2>6. connection.tokens.number # amo[a]
    <3>1. connection.tokens.number \in Int
      BY <1>0, <1>1 DEF RowFits, Accounts!Tokens
    <3>2. amo[a] \in Int
      BY <1>0 DEF ConnectionTypes
    <3> QED BY <1>2, <2>4, <3>1, <3>2
  <2>7. Brings(a) => o.tokens.number = amo[a] \/ Brings(a)'
    BY <1>1, <1>5 DEF Brings
  <2> QED BY <2>5, <2>6, <2>7
<1>8. ASSUME NEW r \in Process PROVE RefreshFits(r)'
  <2>1. CASE r = p \/ refresh[r] = Accounts!Idle
    BY <1>5, <2>1 DEF RefreshFits
  <2>2. CASE r # p /\ refresh[r] # Accounts!Idle
    <3>1. refresh[r].version \in Int
      BY <1>0, <2>2, RefreshRows DEF ConnectionTypes
    <3>2. ~crossed' => refresh[r].version <= connection'.version
              /\ refresh[r].version # connection'.version
      <4>1. ~crossed' => ~crossed
        BY <1>1
      <4>2. ~crossed => refresh[r].version <= connection.version
        BY <1>0, <2>2 DEF RefreshFits
      <4> QED BY <1>3, <1>4, <3>1, <4>1, <4>2
    <3> QED BY <1>0, <1>1, <1>5, <2>2, <3>2 DEF RefreshFits
  <2> QED BY <2>1, <2>2
<1> QED BY <1>6, <1>7, <1>8 DEF ConnectionInv

LEMMA RefreshStep ==
    ASSUME ConnectionInv, NEW p \in Process,
           \/ Accounts!Load(p) \/ Accounts!RefreshTokens(p) \/ Accounts!StoreTokens(p)
           \/ Accounts!AbandonRefresh(p)
    PROVE  ConnectionInv'
<1>0. /\ refresh[p] \in RefreshRow \cup {Accounts!Idle} /\ connection \in ConnectionRow
      /\ lost \subseteq Account
  BY DEF ConnectionInv, ConnectionTypes
<1>1. CASE Accounts!Load(p)
  <2> DEFINE q == [stage |-> "loaded", tokens |-> connection.tokens, version |-> connection.version]
  <2>1. /\ refresh[p] = Accounts!Idle /\ Connected /\ refresh' = [refresh EXCEPT ![p] = q]
        /\ UNCHANGED <<connection, oauth, amo, lost, crossed>>
    BY <1>1 DEF Accounts!Load, Accounts!Continues, Connected
  <2>2. connection.tokens \in Accounts!Tokens
    BY <2>1 DEF ConnectionInv, RowFits
  <2>3. q \in RefreshRow /\ q.stage = "loaded" /\ q.tokens = connection.tokens
        /\ q.version = connection.version
    BY <1>0, <2>2, ConnectionRows DEF RefreshRow
  <2>4. refresh[p].stage # "received"
    BY <2>1 DEF Accounts!Idle
  <2> HIDE DEF q
  <2> QED BY <1>0, <2>1, <2>3, <2>4, RefreshMoves
<1>2. CASE Accounts!AbandonRefresh(p)
  <2>1. /\ refresh[p] # Accounts!Idle /\ refresh' = [refresh EXCEPT ![p] = Accounts!Idle]
        /\ lost' = IF refresh[p].stage = "received" THEN lost \cup {refresh[p].tokens.account} ELSE lost
        /\ UNCHANGED <<connection, oauth, amo, crossed>>
    BY <1>2 DEF Accounts!AbandonRefresh, Accounts!Continues
  <2>2. refresh[p].tokens.account \in Account
    BY <1>0, <2>1, RefreshRows
  <2>3. lost \subseteq lost' /\ lost' \subseteq Account
        /\ (refresh[p].stage = "received" => refresh[p].tokens.account \in lost')
    BY <1>0, <2>1, <2>2
  <2> QED BY <2>1, <2>3, RefreshMoves
<1> QED BY <1>1, <1>2, RefreshTokensInv, StoreTokensInv

LEMMA ConnectionPart == [Next]_vars => [Accounts!Next]_connectionVars
BY DEF Next, vars, connectionVars

LEMMA ConnectionStep == ASSUME ConnectionInv, [Accounts!Next]_connectionVars PROVE ConnectionInv'
<1>1. CASE Accounts!Next
  BY <1>1, OauthStep, ExchangeInv, CallbackInv, DisconnectInv, RefreshStep DEF Accounts!Next
<1>2. CASE UNCHANGED connectionVars
  <2>1. UNCHANGED <<connection, oauth, refresh, amo, lost, crossed>>
    BY <1>2 DEF connectionVars
  <2> QED BY <2>1 DEF ConnectionInv, ConnectionTypes, RowFits, RefreshFits, Brings, Connected
<1> QED BY <1>1, <1>2

LEMMA ConnectionAlways == Spec => []ConnectionInv
<1>1. Init => ConnectionInv
  <2> SUFFICES ASSUME Init PROVE ConnectionInv
    OBVIOUS
  <2>1. /\ connection = [status |-> "absent", account |-> "none", tokens |-> Accounts!NoTokens,
                         version |-> 0]
        /\ oauth = [s \in State |-> [stage |-> "none"]]
        /\ refresh = [p \in Process |-> Accounts!Idle]
        /\ amo = [a \in Account |-> 0] /\ lost = {} /\ crossed = FALSE
    BY DEF Init, Accounts!Init
  <2>2. connection \in ConnectionRow /\ connection.status = "absent"
    BY <2>1, ConnectionAssumption DEF ConnectionRow
  <2>3. /\ oauth \in [State -> OauthRow] /\ amo \in [Account -> 0..MaxToken]
        /\ refresh \in [Process -> RefreshRow \cup {Accounts!Idle}]
    BY <2>1, OauthRowsMade, ConnectionAssumption
  <2>4. ConnectionTypes /\ RowFits /\ \A p \in Process : RefreshFits(p)
    BY <2>1, <2>2, <2>3 DEF ConnectionTypes, RowFits, RefreshFits, Connected
  <2> QED BY <2>4 DEF ConnectionInv
<1>2. ConnectionInv /\ [Next]_vars => ConnectionInv'
  BY ConnectionStep, ConnectionPart
<1> QED BY <1>1, <1>2, PTL DEF Spec

(* The tokens in the row are the connected account's, the last that amoCRM *)
(* gave, unless newer ones are under way or were lost, or a write met a    *)
(* row that had changed: for any accounts, authorizations and processes.   *)
THEOREM CredentialsAlwaysFit == Spec => []CredentialsFit
<1>1. ConnectionInv => CredentialsFit
  <2> SUFFICES ASSUME ConnectionInv, Connected PROVE Accounts!CredentialsFit
    BY DEF CredentialsFit, Accounts!CredentialsFit, Connected
  <2>1. RowFits /\ connection.tokens \in Accounts!Tokens
    BY DEF ConnectionInv, RowFits
  <2>2. connection.tokens # Accounts!NoTokens
    BY <2>1, ConnectionAssumption DEF Accounts!Tokens, Accounts!NoTokens
  <2>3. \A a : Brings(a) => Accounts!Carries(a)
    BY DEF Brings, Accounts!Carries
  <2> QED BY <2>1, <2>2, <2>3 DEF RowFits, Connected, Accounts!CredentialsFit
<1> QED BY <1>1, ConnectionAlways, PTL

-------------------------------------------------------------------------------
(* AmoRecords: the row of an entity that exists is the one its mapping     *)
(* names, unless a page met another mapping than it had read; mappings of  *)
(* pipelines and stages go with their rows, and no page overtakes those.   *)
RowStatus == {"none", "live", "deleted", "gone"}
Refs == UNION {[D -> Imports!Row] : D \in SUBSET Imports!Type}
PageRow == [stage : {"applying"}, type : Imports!Type, seen : 0..MaxRow, status : RowStatus, refs : Refs]
Owned == {"pipelines", "stages"}
Ended(t) == IF t \in Owned \cup {"tasks"} THEN "gone" ELSE "deleted"

RecordTypes ==
    /\ row \in [Imports!Type -> [Imports!Row -> RowStatus]]
    /\ parent \in [Imports!Type -> [Imports!Row -> Refs]]
    /\ record \in [Imports!Type -> 0..MaxRow]
    /\ page \in [Page -> {Imports!Idle} \cup PageRow]
    /\ points \subseteq Imports!Row
    /\ outrun \in [types : SUBSET Imports!Type, contacts : SUBSET Imports!Row]
    /\ types \in Types

(* Rows are made in order, each with what it refers to, and end one way. *)
RowsFit(t) ==
    /\ \A r \in Imports!Row :
          /\ row[t][r] \in {"none", "live", Ended(t)}
          /\ IF row[t][r] = "none" THEN parent[t][r] = Imports!NoParent
             ELSE parent[t][r] \in [Imports!Needs[t] -> Imports!Row]
          /\ \A x \in Imports!Row : x < r /\ row[t][x] = "none" => row[t][r] = "none"
    /\ record[t] # 0 => row[t][record[t]] # "none"

OneRow(t) ==
    t \notin outrun.types => \A r \in Imports!Row : row[t][r] \in {"live", "deleted"} => record[t] = r

OwnedFit ==
    /\ \A t \in Owned : t \notin outrun.types /\ (record[t] # 0 => row[t][record[t]] = "live")
    /\ record["stages"] # 0 => parent["stages"][record["stages"]]["pipelines"] = record["pipelines"]

DealsFit ==
    \A d \in Imports!Row : row["deals"][d] \in {"live", "deleted"} =>
        /\ row["stages"][parent["deals"][d]["stages"]] = "live"
        /\ parent["stages"][parent["deals"][d]["stages"]]["pipelines"] = parent["deals"][d]["pipelines"]

PointsFit == \A r \in points : row["contacts"][r] = "live" \/ r \in outrun.contacts

(* What a page has read of a contact is so still, or it was overtaken. *)
PageFits(p) ==
    page[p] # Imports!Idle =>
        /\ DOMAIN page[p].refs \subseteq Imports!Needs[page[p].type]
        /\ page[p].seen # 0 => row[page[p].type][page[p].seen] # "none"
        /\ page[p].type = "contacts" /\ page[p].seen # 0 =>
              /\ page[p].status \in {"live", "deleted"}
              /\ page[p].status = "deleted" => row["contacts"][page[p].seen] = "deleted"
              /\ page[p].status = "live" => \/ row["contacts"][page[p].seen] = "live"
                                            \/ page[p].seen \in outrun.contacts

RecordsInv ==
    /\ RecordTypes
    /\ \A t \in Imports!Type : RowsFit(t) /\ OneRow(t)
    /\ OwnedFit /\ DealsFit /\ PointsFit
    /\ \A p \in Page : PageFits(p)

-------------------------------------------------------------------------------
LEMMA TypesNamed ==
    /\ {"pipelines", "stages", "custom_fields", "companies", "contacts", "deals", "tasks"} = Imports!Type
    /\ Owned \subseteq Imports!Type
    /\ Imports!Needs["stages"] = {"pipelines"} /\ Imports!Needs["deals"] = {"pipelines", "stages"}
    /\ \A t \in Imports!Type : Imports!Needs[t] \subseteq Owned
    /\ \A t \in Imports!Type \ {"stages", "deals"} : Imports!Needs[t] = {}
    /\ \A t \in Owned \cup {"tasks"} : Ended(t) = "gone"
    /\ \A t \in {"custom_fields", "companies", "contacts", "deals"} : Ended(t) = "deleted"
BY DEF Imports!Type, Imports!Needs, Owned, Ended

LEMMA RowNumbers == \A r \in Imports!Row : r \in Nat /\ r # 0 /\ r <= MaxRow /\ r \in 0..MaxRow
BY PushAssumption DEF Imports!Row

LEMMA NumberedRows == \A r \in 0..MaxRow : r # 0 => r \in Imports!Row
BY PushAssumption DEF Imports!Row

LEMMA RecordsCounted == ASSUME NEW S PROVE Imports!Cardinality(S) = Cardinality(S)
BY DEF Imports!Cardinality, Cardinality

(* One row is written. *)
Put(t, r, v) == row' = [row EXCEPT ![t][r] = v]

LEMMA RowWritten ==
    ASSUME RecordTypes, NEW t \in Imports!Type, NEW r \in Imports!Row, NEW v \in RowStatus, Put(t, r, v)
    PROVE  /\ row' \in [Imports!Type -> [Imports!Row -> RowStatus]]
           /\ row'[t][r] = v
           /\ \A u \in Imports!Type, x \in Imports!Row : u # t \/ x # r => row'[u][x] = row[u][x]
BY DEF RecordTypes, Put

(* A page that begins, reads a reference, or ends with nothing written. *)
LEMMA PagesOnly ==
    ASSUME RecordsInv, NEW p \in Page, NEW x \in {Imports!Idle} \cup PageRow,
           page' = [page EXCEPT ![p] = x],
           UNCHANGED <<types, row, parent, points, record, outrun>>,
           PageFits(p)'
    PROVE  RecordsInv'
<1>1. page'[p] = x /\ (\A q \in Page : q # p => page'[q] = page[q])
          /\ page' \in [Page -> {Imports!Idle} \cup PageRow]
  BY DEF RecordsInv, RecordTypes
<1>2. RecordTypes'
  BY <1>1 DEF RecordsInv, RecordTypes
<1>3. OwnedFit' /\ DealsFit' /\ PointsFit'
  BY DEF RecordsInv, OwnedFit, DealsFit, PointsFit
<1>4. ASSUME NEW t \in Imports!Type PROVE (RowsFit(t) /\ OneRow(t))'
  BY DEF RecordsInv, RowsFit, OneRow
<1>5. ASSUME NEW q \in Page PROVE PageFits(q)'
  BY <1>1 DEF RecordsInv, PageFits
<1> QED BY <1>2, <1>3, <1>4, <1>5 DEF RecordsInv

(* What users delete: rows end, and mappings of pipelines and stages go.   *)
RowsEnd ==
    /\ row' \in [Imports!Type -> [Imports!Row -> RowStatus]]
    /\ \A t \in Imports!Type, r \in Imports!Row :
          row'[t][r] # row[t][r] => row[t][r] = "live" /\ row'[t][r] = Ended(t)
    /\ record' \in [Imports!Type -> 0..MaxRow]
    /\ \A t \in Imports!Type : record'[t] # record[t]
           => t \in Owned /\ record'[t] = 0 /\ row'[t][record[t]] = "gone"
    /\ \A t \in Owned : record'[t] # 0 => row'[t][record'[t]] = "live"
    /\ record'["stages"] # 0 => record'["pipelines"] = record["pipelines"]
    /\ \A d \in Imports!Row : row["deals"][d] \in {"live", "deleted"} =>
          row'["stages"][parent["deals"][d]["stages"]] = row["stages"][parent["deals"][d]["stages"]]
    /\ points' \subseteq points /\ \A r \in points' : row'["contacts"][r] = row["contacts"][r]
    /\ outrun' \in [types : SUBSET Imports!Type, contacts : SUBSET Imports!Row]
    /\ outrun'.types = outrun.types /\ outrun.contacts \subseteq outrun'.contacts
    /\ \A p \in Page : page[p] # Imports!Idle /\ page[p].type = "contacts" /\ page[p].status = "live" =>
          \A r \in Imports!Row : row'["contacts"][r] = row["contacts"][r] \/ r \in outrun'.contacts
    /\ UNCHANGED <<types, parent, page>>

LEMMA RowsEndInv == ASSUME RecordsInv, RowsEnd PROVE RecordsInv'
<1>1. RecordTypes'
  BY DEF RecordsInv, RecordTypes, RowsEnd
<1>2. /\ \A t \in Imports!Type, r \in Imports!Row :
            row'[t][r] # row[t][r] => row[t][r] = "live" /\ row'[t][r] = Ended(t)
      /\ \A t \in Imports!Type : Ended(t) \in {"deleted", "gone"}
      /\ parent' = parent /\ page' = page
      /\ \A t \in Imports!Type : record[t] \in 0..MaxRow /\ record'[t] \in 0..MaxRow
  BY DEF RowsEnd, RecordsInv, RecordTypes, Ended
<1>3. ASSUME NEW t \in Imports!Type PROVE RowsFit(t)'
  <2>1. RowsFit(t)
    BY DEF RecordsInv
  <2>2. \A r \in Imports!Row :
           /\ row'[t][r] \in {"none", "live", Ended(t)}
           /\ row'[t][r] = "none" <=> row[t][r] = "none"
    BY <1>2, <2>1 DEF RowsFit
  <2>3. record'[t] # 0 => row'[t][record'[t]] # "none"
    <3>1. record'[t] # record[t] => record'[t] = 0
      BY DEF RowsEnd
    <3> QED BY <1>2, <2>1, <2>2, <3>1, NumberedRows DEF RowsFit
  <2> QED BY <1>2, <2>1, <2>2, <2>3 DEF RowsFit
<1>4. ASSUME NEW t \in Imports!Type PROVE OneRow(t)'
  <2>1. OneRow(t) /\ outrun'.types = outrun.types
    BY DEF RecordsInv, RowsEnd
  <2>2. ASSUME t \notin outrun.types, NEW r \in Imports!Row, row'[t][r] \in {"live", "deleted"}
        PROVE  record'[t] = r
    <3>1. row[t][r] \in {"live", "deleted"}
      BY <1>2, <2>2
    <3>2. record[t] = r
      BY <2>1, <2>2, <3>1 DEF OneRow
    <3>3. record'[t] # record[t] => row'[t][r] = "gone"
      BY <3>2 DEF RowsEnd
    <3> QED BY <2>2, <3>2, <3>3
  <2> QED BY <2>1, <2>2 DEF OneRow
<1>5. OwnedFit'
  <2>1. \A t \in Owned : t \notin outrun'.types /\ (record'[t] # 0 => row'[t][record'[t]] = "live")
    BY DEF RecordsInv, OwnedFit, RowsEnd
  <2>2. record'["stages"] # 0
            => record'["stages"] = record["stages"] /\ record'["pipelines"] = record["pipelines"]
    BY TypesNamed DEF RowsEnd
  <2> QED BY <1>2, <2>1, <2>2 DEF RecordsInv, OwnedFit
<1>6. DealsFit'
  <2>1. ASSUME NEW d \in Imports!Row, row'["deals"][d] \in {"live", "deleted"}
        PROVE  /\ row'["stages"][parent["deals"][d]["stages"]] = "live"
               /\ parent["stages"][parent["deals"][d]["stages"]]["pipelines"] = parent["deals"][d]["pipelines"]
    <3>1. row["deals"][d] \in {"live", "deleted"}
      BY <1>2, <2>1, TypesNamed
    <3> QED BY <3>1 DEF RecordsInv, DealsFit, RowsEnd
  <2> QED BY <1>2, <2>1 DEF DealsFit
<1>7. PointsFit'
  BY DEF RecordsInv, PointsFit, RowsEnd
<1>8. ASSUME NEW p \in Page, page[p] # Imports!Idle PROVE PageFits(p)'
  <2>1. page[p] \in PageRow /\ PageFits(p)
    BY <1>8 DEF RecordsInv, RecordTypes
  <2>2. PICK t \in Imports!Type, s \in 0..MaxRow : page[p].type = t /\ page[p].seen = s
    BY <2>1 DEF PageRow
  <2>3. s # 0 => s \in Imports!Row
    BY NumberedRows
  <2>4. /\ DOMAIN page[p].refs \subseteq Imports!Needs[t]
        /\ s # 0 => row[t][s] # "none"
        /\ t = "contacts" /\ s # 0 =>
              /\ page[p].status \in {"live", "deleted"}
              /\ page[p].status = "deleted" => row["contacts"][s] = "deleted"
              /\ page[p].status = "live" => row["contacts"][s] = "live" \/ s \in outrun.contacts
    BY <1>8, <2>1, <2>2 DEF PageFits
  <2>5. s # 0 => row'[t][s] # "none"
    BY <1>2, <2>3, <2>4
  <2>6. t = "contacts" /\ s # 0 =>
              /\ page[p].status = "deleted" => row'["contacts"][s] = "deleted"
              /\ page[p].status = "live" => row'["contacts"][s] = "live" \/ s \in outrun'.contacts
    <3>1. outrun.contacts \subseteq outrun'.contacts
      BY DEF RowsEnd
    <3>2. t = "contacts" /\ page[p].status = "live" =>
             \A r \in Imports!Row : row'["contacts"][r] = row["contacts"][r] \/ r \in outrun'.contacts
      BY <1>8, <2>2 DEF RowsEnd
    <3> QED BY <1>2, <2>3, <2>4, <3>1, <3>2
  <2> QED BY <1>2, <2>2, <2>4, <2>5, <2>6 DEF PageFits
<1>9. ASSUME NEW p \in Page, page[p] = Imports!Idle PROVE PageFits(p)'
  BY <1>2, <1>9 DEF PageFits
<1> QED BY <1>1, <1>3, <1>4, <1>5, <1>6, <1>7, <1>8, <1>9 DEF RecordsInv

(* A row that a page finds no row for is the next, which is nobody's. *)
LEMMA NextIsFree ==
    ASSUME RecordsInv, NEW t \in Imports!Type, Imports!NextRow(t) \in Imports!Row
    PROVE  /\ row[t][Imports!NextRow(t)] = "none"
           /\ \A x \in Imports!Row : x < Imports!NextRow(t) => row[t][x] # "none"
<1> DEFINE S == {r \in Imports!Row : row[t][r] # "none"}
<1>1. \A r, x \in Imports!Row : x < r /\ row[t][x] = "none" => row[t][r] = "none"
  BY DEF RecordsInv, RowsFit
<1>2. PICK n \in Imports!Row : n = Imports!NextRow(t)
  OBVIOUS
<1>3. n \in Nat /\ n # 0
  BY RowNumbers
<1>4. \A k \in Nat : IsFiniteSet(1..k) /\ Cardinality(1..k) = k
  <2> TAKE k \in Nat
  <2>1. 1 \in Int /\ k \in Int
    OBVIOUS
  <2>2. IsFiniteSet(1..k) /\ Cardinality(1..k) = IF 1 > k THEN 0 ELSE k - 1 + 1
    BY <2>1, FS_Interval
  <2> QED BY <2>2
<1>5. IsFiniteSet(S) /\ Cardinality(S) \in Nat
  <2>1. IsFiniteSet(Imports!Row)
    BY <1>4, PushAssumption DEF Imports!Row
  <2>2. S \subseteq Imports!Row
    OBVIOUS
  <2>3. IsFiniteSet(S)
    BY <2>1, <2>2, FS_Subset
  <2> QED BY <2>3, FS_CardinalityType
<1>6. n = Cardinality(S) + 1
  BY <1>2, RecordsCounted DEF Imports!NextRow
<1>7. row[t][n] = "none"
  <2> SUFFICES ASSUME row[t][n] # "none" PROVE FALSE
    OBVIOUS
  <2>1. 1..n \subseteq S
    BY <1>1, PushAssumption DEF Imports!Row
  <2>2. Cardinality(1..n) <= Cardinality(S)
    BY <1>5, <2>1, FS_Subset
  <2> QED BY <1>3, <1>4, <1>5, <1>6, <2>2
<1>8. ASSUME NEW x \in Imports!Row, x < n, row[t][x] = "none" PROVE FALSE
  <2>1. PICK k \in Nat : k = x - 1
    BY RowNumbers
  <2>2. S \subseteq 1..k
    <3>1. \A r \in S : r \in Nat /\ r # 0 /\ ~(x < r) /\ r # x
      BY <1>1, <1>8, RowNumbers
    <3> QED BY <2>1, <3>1, RowNumbers
  <2>3. Cardinality(S) <= Cardinality(1..k)
    BY <1>4, <2>2, FS_Subset
  <2>4. x \in Nat
    BY RowNumbers
  <2> HIDE DEF S
  <2> QED BY <1>3, <1>4, <1>5, <1>6, <1>8, <2>1, <2>3, <2>4
<1> QED BY <1>2, <1>7, <1>8

(* Rows that have ended stay as they are. *)
Buried ==
    \A t \in Imports!Type, r \in Imports!Row : row[t][r] \in {"deleted", "gone"} => row'[t][r] = row[t][r]

LEMMA EndedStay == ASSUME RecordsInv, RowsEnd PROVE Buried
BY DEF RowsEnd, Buried

(* What a live row of a pipeline or a stage says, and what refers to it. *)
LEMMA OwnedAre ==
    ASSUME RecordsInv
    PROVE  /\ \A t \in Owned, r \in Imports!Row :
                 /\ row[t][r] \in {"none", "live", "gone"}
                 /\ row[t][r] = "live" => record[t] = r
           /\ \A d \in Imports!Row : row["deals"][d] \in {"live", "deleted"} =>
                 /\ parent["deals"][d]["stages"] \in Imports!Row
                 /\ parent["deals"][d]["pipelines"] \in Imports!Row
           /\ record["stages"] # 0 => record["pipelines"] # 0
<1>1. ASSUME NEW t \in Owned, NEW r \in Imports!Row
      PROVE  row[t][r] \in {"none", "live", "gone"} /\ (row[t][r] = "live" => record[t] = r)
  <2>1. t \in Imports!Type /\ Ended(t) = "gone"
    BY TypesNamed
  <2>2. RowsFit(t) /\ OneRow(t) /\ t \notin outrun.types
    BY <2>1 DEF RecordsInv, OwnedFit
  <2> QED BY <2>1, <2>2 DEF RowsFit, OneRow
<1>2. ASSUME NEW d \in Imports!Row, row["deals"][d] \in {"live", "deleted"}
      PROVE  /\ parent["deals"][d]["stages"] \in Imports!Row
             /\ parent["deals"][d]["pipelines"] \in Imports!Row
  <2>1. "deals" \in Imports!Type /\ Imports!Needs["deals"] = {"pipelines", "stages"}
    BY TypesNamed
  <2>2. parent["deals"][d] \in [Imports!Needs["deals"] -> Imports!Row]
    BY <1>2, <2>1 DEF RecordsInv, RowsFit
  <2> QED BY <2>1, <2>2
<1>3. ASSUME record["stages"] # 0 PROVE record["pipelines"] # 0
  <2>1. "stages" \in Imports!Type /\ Imports!Needs["stages"] = {"pipelines"}
    BY TypesNamed
  <2>2. record["stages"] \in Imports!Row
    BY <1>3, <2>1, NumberedRows DEF RecordsInv, RecordTypes
  <2>3. row["stages"][record["stages"]] # "none"
    BY <1>3, <2>1 DEF RecordsInv, RowsFit
  <2>4. parent["stages"][record["stages"]] \in [Imports!Needs["stages"] -> Imports!Row]
    BY <2>1, <2>2, <2>3 DEF RecordsInv, RowsFit
  <2>5. parent["stages"][record["stages"]]["pipelines"] \in Imports!Row
    BY <2>1, <2>4
  <2>6. parent["stages"][record["stages"]]["pipelines"] = record["pipelines"]
    BY <1>3 DEF RecordsInv, OwnedFit
  <2> QED BY <2>5, <2>6, RowNumbers
<1> QED BY <1>1, <1>2, <1>3

LEMMA DeleteStageEnds == ASSUME RecordsInv, NEW r \in Imports!Row, Imports!DeleteStage(r) PROVE RowsEnd
<1>1. /\ row["stages"][r] = "live"
      /\ \A d \in Imports!Row : row["deals"][d] \in {"live", "deleted"}
             => parent["deals"][d]["stages"] # r
      /\ row' = [row EXCEPT !["stages"][r] = "gone"]
      /\ record' = [record EXCEPT !["stages"] = IF @ = r THEN 0 ELSE @]
      /\ UNCHANGED <<types, parent, points, page, outrun>>
  BY RowNumbers DEF Imports!DeleteStage, Imports!Removed, Imports!Exists, Imports!Unmapped
<1>2. /\ row' \in [Imports!Type -> [Imports!Row -> RowStatus]]
      /\ row'["stages"][r] = "gone"
      /\ \A u \in Imports!Type, x \in Imports!Row : u # "stages" \/ x # r => row'[u][x] = row[u][x]
  <2>1. Put("stages", r, "gone") /\ RecordTypes
    BY <1>1 DEF RecordsInv, Put
  <2>2. "stages" \in Imports!Type /\ "gone" \in RowStatus
    BY TypesNamed DEF RowStatus
  <2> QED BY <2>1, <2>2, RowWritten
<1>3. record \in [Imports!Type -> 0..MaxRow] /\ record["stages"] = r /\ r # 0
  BY <1>1, OwnedAre, RowNumbers DEF Owned, RecordsInv, RecordTypes
<1>4. /\ record' \in [Imports!Type -> 0..MaxRow] /\ record'["stages"] = 0
      /\ \A u \in Imports!Type : u # "stages" => record'[u] = record[u]
  <2>1. record' = [record EXCEPT !["stages"] = 0]
    BY <1>1, <1>3
  <2>2. 0 \in 0..MaxRow /\ "stages" \in Imports!Type
    BY PushAssumption, TypesNamed
  <2> QED BY <1>3, <2>1, <2>2
<1>5. record["pipelines"] # 0
          => record["pipelines"] \in Imports!Row /\ row["pipelines"][record["pipelines"]] = "live"
  BY <1>3, TypesNamed, NumberedRows DEF RecordsInv, OwnedFit, Owned
<1>6. \A d \in Imports!Row : row["deals"][d] \in {"live", "deleted"} =>
        row'["stages"][parent["deals"][d]["stages"]] = row["stages"][parent["deals"][d]["stages"]]
  BY <1>1, <1>2, OwnedAre, TypesNamed
<1>7. \A x \in Imports!Row : row'["contacts"][x] = row["contacts"][x]
  BY <1>2, TypesNamed
<1>8. /\ \A t \in Imports!Type, x \in Imports!Row :
            row'[t][x] # row[t][x] => row[t][x] = "live" /\ row'[t][x] = Ended(t)
      /\ \A t \in Imports!Type : record'[t] # record[t]
             => t \in Owned /\ record'[t] = 0 /\ row'[t][record[t]] = "gone"
  BY <1>1, <1>2, <1>3, <1>4, TypesNamed DEF Owned
<1>9. \A t \in Owned : record'[t] # 0 => row'[t][record'[t]] = "live"
  BY <1>2, <1>4, <1>5, TypesNamed DEF Owned
<1> QED BY <1>1, <1>2, <1>4, <1>6, <1>7, <1>8, <1>9 DEF RowsEnd, RecordsInv, RecordTypes

LEMMA DeletePipelineEnds == ASSUME RecordsInv, NEW r \in Imports!Row, Imports!DeletePipeline(r)
                            PROVE RowsEnd
<1> DEFINE S == Imports!StagesOf(r)
<1>1. /\ row["pipelines"][r] = "live"
      /\ \A d \in Imports!Row : row["deals"][d] \in {"live", "deleted"}
             => parent["deals"][d]["pipelines"] # r
      /\ UNCHANGED <<types, parent, points, page, outrun>>
  BY RowNumbers DEF Imports!DeletePipeline, Imports!Exists
<1>2. /\ row \in [Imports!Type -> [Imports!Row -> RowStatus]]
      /\ record \in [Imports!Type -> 0..MaxRow]
      /\ "pipelines" \in Imports!Type /\ "stages" \in Imports!Type
  BY TypesNamed DEF RecordsInv, RecordTypes
<1>3. row' = [row EXCEPT !["pipelines"][r] = "gone",
                         !["stages"] = [s \in Imports!Row |-> IF s \in S THEN "gone"
                             ELSE row["stages"][s]]]
  BY <1>2 DEF Imports!DeletePipeline
<1>4. record' = [record EXCEPT !["pipelines"] = IF @ = r THEN 0 ELSE @,
                               !["stages"] = IF @ \in S THEN 0 ELSE @]
  BY DEF Imports!DeletePipeline, Imports!Unmapped
<1>5. \A s \in S : s \in Imports!Row /\ row["stages"][s] = "live" /\ parent["stages"][s]["pipelines"] = r
  BY DEF Imports!StagesOf
<1> HIDE DEF S
<1>6. /\ row' \in [Imports!Type -> [Imports!Row -> RowStatus]]
      /\ row'["pipelines"][r] = "gone" /\ \A s \in S : row'["stages"][s] = "gone"
      /\ \A u \in Imports!Type, x \in Imports!Row :
            ~(u = "pipelines" /\ x = r) /\ ~(u = "stages" /\ x \in S) => row'[u][x] = row[u][x]
  BY <1>2, <1>3, <1>5 DEF RowStatus
<1>7. record["pipelines"] = r /\ r # 0
  BY <1>1, OwnedAre, RowNumbers DEF Owned
<1>8. record["stages"] # 0 => record["stages"] \in S
  <2>1. ASSUME record["stages"] # 0
        PROVE  /\ record["stages"] \in Imports!Row /\ row["stages"][record["stages"]] = "live"
               /\ parent["stages"][record["stages"]]["pipelines"] = r
    BY <1>2, <1>7, <2>1, NumberedRows DEF RecordsInv, OwnedFit, Owned
  <2> QED BY <2>1 DEF S, Imports!StagesOf
<1>9. /\ record' \in [Imports!Type -> 0..MaxRow] /\ record'["pipelines"] = 0 /\ record'["stages"] = 0
      /\ \A u \in Imports!Type : u \notin Owned => record'[u] = record[u]
  <2>1. record' = [record EXCEPT !["pipelines"] = 0, !["stages"] = 0]
    BY <1>2, <1>4, <1>7, <1>8
  <2>2. 0 \in 0..MaxRow
    BY PushAssumption
  <2> QED BY <1>2, <2>1, <2>2 DEF Owned
<1>10. \A d \in Imports!Row : row["deals"][d] \in {"live", "deleted"} =>
        row'["stages"][parent["deals"][d]["stages"]] = row["stages"][parent["deals"][d]["stages"]]
  <2>1. ASSUME NEW d \in Imports!Row, row["deals"][d] \in {"live", "deleted"}
        PROVE  parent["deals"][d]["stages"] \in Imports!Row \ S
    BY <1>1, <1>5, <2>1, OwnedAre DEF RecordsInv, DealsFit
  <2> QED BY <1>2, <1>6, <2>1
<1>11. \A x \in Imports!Row : row'["contacts"][x] = row["contacts"][x]
  BY <1>6, TypesNamed
<1>12. \A t \in Imports!Type, x \in Imports!Row :
            row'[t][x] # row[t][x] => row[t][x] = "live" /\ row'[t][x] = Ended(t)
  BY <1>1, <1>5, <1>6, TypesNamed DEF Owned
<1>13. \A t \in Imports!Type : record'[t] # record[t]
           => t \in Owned /\ record'[t] = 0 /\ row'[t][record[t]] = "gone"
  BY <1>6, <1>7, <1>8, <1>9 DEF Owned
<1>14. \A t \in Owned : record'[t] = 0
  BY <1>9 DEF Owned
<1>15. record'["stages"] = 0 /\ row' \in [Imports!Type -> [Imports!Row -> RowStatus]]
           /\ record' \in [Imports!Type -> 0..MaxRow]
  BY <1>6, <1>9
<1> QED BY <1>1, <1>10, <1>11, <1>12, <1>13, <1>14, <1>15 DEF RowsEnd, RecordsInv, RecordTypes

(* A row is deleted whose mapping stays. *)
LEMMA RowEnds ==
    ASSUME RecordsInv, NEW t \in Imports!Type \ Owned, NEW r \in Imports!Row, row[t][r] = "live",
           row' = [row EXCEPT ![t][r] = Ended(t)],
           points' \subseteq points, t = "contacts" => r \notin points',
           outrun' \in [types : SUBSET Imports!Type, contacts : SUBSET Imports!Row],
           outrun'.types = outrun.types, outrun.contacts \subseteq outrun'.contacts,
           t = "contacts" =>
              \A p \in Page : page[p] # Imports!Idle /\ page[p].type = "contacts"
                  /\ page[p].status = "live"
                                 => r \in outrun'.contacts,
           UNCHANGED <<types, parent, record, page>>
    PROVE  RowsEnd
<1>1. t \in Imports!Type /\ Ended(t) \in RowStatus
  BY DEF Ended, RowStatus
<1>2. /\ row' \in [Imports!Type -> [Imports!Row -> RowStatus]]
      /\ row'[t][r] = Ended(t)
      /\ \A u \in Imports!Type, x \in Imports!Row : u # t \/ x # r => row'[u][x] = row[u][x]
  <2>1. PICK v \in RowStatus : v = Ended(t)
    BY <1>1
  <2>2. Put(t, r, v) /\ RecordTypes
    BY <2>1 DEF RecordsInv, Put
  <2>3. /\ row' \in [Imports!Type -> [Imports!Row -> RowStatus]]
        /\ row'[t][r] = v
        /\ \A u \in Imports!Type, x \in Imports!Row : u # t \/ x # r => row'[u][x] = row[u][x]
    BY <1>1, <2>2, RowWritten
  <2> QED BY <2>1, <2>3
<1>3. /\ \A u \in Owned, x \in Imports!Row : row'[u][x] = row[u][x]
      /\ \A x \in Imports!Row : row'["contacts"][x] = row["contacts"][x] \/ (t = "contacts" /\ x = r)
  BY <1>2, TypesNamed
<1>4. \A u \in Owned : record'[u] # 0 => row'[u][record'[u]] = "live"
  <2>1. \A u \in Owned : record'[u] = record[u] /\ record[u] \in 0..MaxRow
    BY TypesNamed DEF RecordsInv, RecordTypes
  <2>2. \A u \in Owned : record[u] # 0 => row[u][record[u]] = "live"
    BY DEF RecordsInv, OwnedFit
  <2> QED BY <1>3, <2>1, <2>2, NumberedRows
<1>5. \A d \in Imports!Row : row["deals"][d] \in {"live", "deleted"} =>
        row'["stages"][parent["deals"][d]["stages"]] = row["stages"][parent["deals"][d]["stages"]]
  BY <1>3, OwnedAre DEF Owned
<1>6. \A u \in Imports!Type, x \in Imports!Row :
            row'[u][x] # row[u][x] => row[u][x] = "live" /\ row'[u][x] = Ended(u)
  BY <1>2
<1>7. points' \subseteq points /\ \A x \in points' : row'["contacts"][x] = row["contacts"][x]
  BY <1>3 DEF RecordsInv, RecordTypes
<1>8. \A p \in Page : page[p] # Imports!Idle /\ page[p].type = "contacts" /\ page[p].status = "live" =>
          \A x \in Imports!Row : row'["contacts"][x] = row["contacts"][x] \/ x \in outrun'.contacts
  BY <1>3
<1> QED BY <1>2, <1>4, <1>5, <1>6, <1>7, <1>8 DEF RowsEnd, RecordsInv, RecordTypes

LEMMA DeletedSoftly ==
    ASSUME RecordsInv, NEW r \in Imports!Row, NEW t \in Imports!Type,
           Imports!DeleteSoftly(t, r) \/ Imports!DeleteTask(r) \/ Imports!DeleteContact(r)
    PROVE  RowsEnd
<1>1. CASE Imports!DeleteSoftly(t, r)
  <2>1. t \in Imports!Type \ Owned /\ Ended(t) = "deleted" /\ t # "contacts"
    BY <1>1, TypesNamed DEF Imports!DeleteSoftly, Owned
  <2> QED BY <1>1, <2>1, RowEnds DEF Imports!DeleteSoftly, Imports!Removed, RecordsInv, RecordTypes
<1>2. CASE Imports!DeleteTask(r)
  <2>1. "tasks" \in Imports!Type \ Owned /\ Ended("tasks") = "gone"
    BY TypesNamed DEF Owned
  <2> QED BY <1>2, <2>1, RowEnds DEF Imports!DeleteTask, Imports!Removed, RecordsInv, RecordTypes
<1>3. CASE Imports!DeleteContact(r)
  <2>1. "contacts" \in Imports!Type \ Owned /\ Ended("contacts") = "deleted"
    BY TypesNamed DEF Owned
  <2>2. outrun \in [types : SUBSET Imports!Type, contacts : SUBSET Imports!Row]
    BY DEF RecordsInv, RecordTypes
  <2>3. PICK C \in SUBSET Imports!Row :
           /\ outrun' = [outrun EXCEPT !.contacts = C] /\ outrun.contacts \subseteq C
           /\ \A p \in Page : page[p] # Imports!Idle /\ page[p].type = "contacts"
                  /\ page[p].status = "live"
                 => r \in C
    <3> DEFINE C == IF \E p \in Page : page[p] # Imports!Idle /\ page[p].type = "contacts"
                   /\ page[p].status = "live"
                    THEN outrun.contacts \cup {r} ELSE outrun.contacts
    <3>1. outrun' = [outrun EXCEPT !.contacts = C]
      BY <1>3 DEF Imports!DeleteContact
    <3>2. C \in SUBSET Imports!Row /\ outrun.contacts \subseteq C
      BY <2>2
    <3>3. \A p \in Page : page[p] # Imports!Idle /\ page[p].type = "contacts"
              /\ page[p].status = "live" => r \in C
      OBVIOUS
    <3> HIDE DEF C
    <3> QED BY <3>1, <3>2, <3>3
  <2>4. outrun' \in [types : SUBSET Imports!Type, contacts : SUBSET Imports!Row]
            /\ outrun'.types = outrun.types /\ outrun'.contacts = C
    BY <2>2, <2>3
  <2> QED BY <1>3, <2>1, <2>3, <2>4, RowEnds DEF Imports!DeleteContact, Imports!Removed
<1> QED BY <1>1, <1>2, <1>3

(* What a page writes, from what it has read: of type t, of the row r.     *)
Applied(p, t, r, s, v, refs) ==
    /\ page[p] \in PageRow /\ page[p] # Imports!Idle
    /\ page[p].type = t /\ page[p].seen = s
    /\ refs \in [Imports!Needs[t] -> Imports!Row] /\ \A d \in Imports!Needs[t] : row[d][refs[d]] = "live"
    /\ s = 0 => record[t] = 0
    /\ t \in Owned => record[t] = s
    /\ \/ s # 0 /\ s = r /\ row[t][s] \in {"live", "deleted"}
       \/ /\ row[t][r] = "none" /\ \A x \in Imports!Row : x < r => row[t][x] # "none"
          /\ s # 0 => row[t][s] \notin {"live", "deleted"}
    /\ v = row[t][r] \/ (t = "custom_fields" /\ v = "deleted") \/ (row[t][r] = "none" /\ v = "live")
    /\ v \in {"live", Ended(t)} /\ v \in RowStatus
    /\ row[t][r] = "none" /\ t \in Owned => v = "live"
    /\ t = "contacts" /\ row[t][r] = "none" => v = "live"
    /\ Put(t, r, v)
    /\ parent' = [parent EXCEPT ![t][r] = refs]
    /\ record' = [record EXCEPT ![t] = r]
    /\ points' = IF t # "contacts" THEN points
                 ELSE IF page[p].status = "deleted" THEN points \ {r} ELSE points \cup {r}
    /\ outrun' = [outrun EXCEPT !.types = IF record[t] # s THEN @ \cup {t} ELSE @]
    /\ page' = [page EXCEPT ![p] = Imports!Idle]
    /\ UNCHANGED types

LEMMA ApplyWrites ==
    ASSUME RecordsInv, NEW p \in Page, NEW t \in Imports!Type, NEW removed \in BOOLEAN,
           removed => t = "custom_fields",
           Imports!ApplyEntity(p, t, removed)
    PROVE  \E r \in Imports!Row, s \in 0..MaxRow, v \in RowStatus, refs \in Refs :
               Applied(p, t, r, s, v, refs)
<1> DEFINE q == page[p]
           known == Imports!Exists(q.type, q.seen)
           row0 == IF known THEN q.seen ELSE Imports!NextRow(q.type)
<1>1. /\ q # Imports!Idle /\ q.type = t /\ Imports!Applicable(q) /\ row0 \in Imports!Row
      /\ Imports!Upsert(q.type, row0, removed)
      /\ Imports!SyncPoints(q, row0)
      /\ parent' = [parent EXCEPT ![q.type][row0] = q.refs]
      /\ record' = [record EXCEPT ![q.type] = row0]
      /\ outrun' = [outrun EXCEPT !.types = IF record[q.type] # q.seen THEN @ \cup {q.type} ELSE @]
      /\ page' = [page EXCEPT ![p] = Imports!Idle]
      /\ UNCHANGED types
  BY DEF Imports!ApplyEntity, Imports!Proceeds
<1>2. q \in PageRow
  BY <1>1 DEF RecordsInv, RecordTypes
<1>3. PICK r \in Imports!Row, s \in 0..MaxRow, refs \in Refs : r = row0 /\ s = q.seen /\ refs = q.refs
  BY <1>1, <1>2 DEF PageRow
<1>4. /\ DOMAIN refs = Imports!Needs[t] /\ \A d \in DOMAIN refs : row[d][refs[d]] = "live"
      /\ s = 0 => record[t] = 0
      /\ t \in Owned => record[t] = s
  BY <1>1, <1>3 DEF Imports!Applicable, Owned
<1>5. refs \in [Imports!Needs[t] -> Imports!Row]
  BY <1>3, <1>4 DEF Refs
<1>6. \/ s # 0 /\ s = r /\ row[t][s] \in {"live", "deleted"}
      \/ /\ row[t][r] = "none" /\ \A x \in Imports!Row : x < r => row[t][x] # "none"
         /\ s # 0 => row[t][s] \notin {"live", "deleted"}
  <2>1. CASE known
    BY <1>1, <1>3, <2>1 DEF Imports!Exists
  <2>2. CASE ~known
    <3>1. r = Imports!NextRow(t)
      BY <1>1, <1>3, <2>2
    <3>2. row[t][r] = "none" /\ \A x \in Imports!Row : x < r => row[t][x] # "none"
      BY <3>1, NextIsFree
    <3> QED BY <1>1, <1>3, <2>2, <3>2 DEF Imports!Exists
  <2> QED BY <2>1, <2>2
<1>7. PICK v : v = IF t = "custom_fields" /\ removed THEN "deleted"
                   ELSE IF row[t][r] = "none" THEN "live" ELSE row[t][r]
  OBVIOUS
<1>8. Put(t, r, v)
  <2>1. row \in [Imports!Type -> [Imports!Row -> RowStatus]]
    BY DEF RecordsInv, RecordTypes
  <2>2. row' = [row EXCEPT ![t][r] = IF t = "custom_fields" /\ removed THEN "deleted"
                                     ELSE IF row[t][r] = "none" THEN "live" ELSE row[t][r]]
    BY <1>1, <1>3, <2>1 DEF Imports!Upsert
  <2> QED BY <1>7, <2>2 DEF Put
<1>9. v \in {"live", Ended(t)} /\ v \in RowStatus
  <2>1. row[t][r] \in {"none", "live", Ended(t)}
    BY DEF RecordsInv, RowsFit
  <2>2. t = "custom_fields" => Ended(t) = "deleted"
    BY TypesNamed
  <2>3. Ended(t) \in RowStatus
    BY DEF Ended, RowStatus
  <2> QED BY <1>7, <2>1, <2>2, <2>3 DEF RowStatus
<1>10. /\ v = row[t][r] \/ (t = "custom_fields" /\ v = "deleted") \/ (row[t][r] = "none" /\ v = "live")
       /\ row[t][r] = "none" /\ t \in Owned => v = "live"
       /\ t = "contacts" /\ row[t][r] = "none" => v = "live"
  BY <1>7 DEF Owned
<1>11. points' = IF t # "contacts" THEN points
                 ELSE IF q.status = "deleted" THEN points \ {r} ELSE points \cup {r}
  BY <1>1, <1>3 DEF Imports!SyncPoints
<1>12. /\ parent' = [parent EXCEPT ![t][r] = refs]
       /\ record' = [record EXCEPT ![t] = r]
       /\ outrun' = [outrun EXCEPT !.types = IF record[t] # s THEN @ \cup {t} ELSE @]
       /\ page' = [page EXCEPT ![p] = Imports!Idle]
       /\ UNCHANGED types
  BY <1>1, <1>3
<1>13. page[p] \in PageRow /\ page[p] # Imports!Idle /\ page[p].type = t /\ page[p].seen = s
  BY <1>1, <1>2, <1>3
<1> HIDE DEF q, known, row0
<1>14. Applied(p, t, r, s, v, refs)
  BY <1>4, <1>5, <1>6, <1>8, <1>9, <1>10, <1>11, <1>12, <1>13 DEF Applied, q
<1>15. v \in RowStatus /\ refs \in Refs
  BY <1>14 DEF Applied, Imports!Row
<1> QED BY <1>14, <1>15

LEMMA AppliedInv ==
    ASSUME RecordsInv, NEW p \in Page, NEW t \in Imports!Type, NEW r \in Imports!Row, NEW s \in 0..MaxRow,
           NEW v, NEW refs, Applied(p, t, r, s, v, refs)
    PROVE  RecordsInv' /\ Buried
<1>1. /\ row' \in [Imports!Type -> [Imports!Row -> RowStatus]] /\ row'[t][r] = v
      /\ \A u \in Imports!Type, x \in Imports!Row : u # t \/ x # r => row'[u][x] = row[u][x]
  <2>1. v \in RowStatus /\ Put(t, r, v) /\ RecordTypes
    BY DEF Applied, RecordsInv
  <2> QED BY <2>1, RowWritten
<1>2. /\ refs \in [Imports!Needs[t] -> Imports!Row] /\ refs \in Refs
      /\ \A d \in Imports!Needs[t] : refs[d] \in Imports!Row /\ row[d][refs[d]] = "live" /\ d \in Owned
  <2>1. Imports!Needs[t] \in SUBSET Imports!Type /\ Imports!Needs[t] \subseteq Owned
    BY TypesNamed
  <2>2. refs \in [Imports!Needs[t] -> Imports!Row] /\ \A d \in Imports!Needs[t] : row[d][refs[d]] = "live"
    BY DEF Applied
  <2> QED BY <2>1, <2>2 DEF Refs
<1>3. /\ parent' \in [Imports!Type -> [Imports!Row -> Refs]] /\ parent'[t][r] = refs
      /\ \A u \in Imports!Type, x \in Imports!Row : u # t \/ x # r => parent'[u][x] = parent[u][x]
  <2>1. parent \in [Imports!Type -> [Imports!Row -> Refs]] /\ parent' = [parent EXCEPT ![t][r] = refs]
    BY DEF Applied, RecordsInv, RecordTypes
  <2> QED BY <1>2, <2>1
<1>4. /\ record' \in [Imports!Type -> 0..MaxRow] /\ record'[t] = r
      /\ \A u \in Imports!Type : u # t => record'[u] = record[u]
      /\ r \in 0..MaxRow /\ r # 0 /\ r \in Nat
  <2>1. record \in [Imports!Type -> 0..MaxRow] /\ record' = [record EXCEPT ![t] = r]
    BY DEF Applied, RecordsInv, RecordTypes
  <2>2. r \in 0..MaxRow /\ r # 0 /\ r \in Nat
    BY RowNumbers
  <2> QED BY <2>1, <2>2
<1>5. /\ outrun' \in [types : SUBSET Imports!Type, contacts : SUBSET Imports!Row]
      /\ outrun'.contacts = outrun.contacts
      /\ outrun'.types = IF record[t] # s THEN outrun.types \cup {t} ELSE outrun.types
  <2>1. /\ outrun \in [types : SUBSET Imports!Type, contacts : SUBSET Imports!Row]
        /\ outrun' = [outrun EXCEPT !.types = IF record[t] # s THEN outrun.types \cup {t}
               ELSE outrun.types]
    BY DEF Applied, RecordsInv, RecordTypes
  <2>2. PICK T \in SUBSET Imports!Type : T = IF record[t] # s THEN outrun.types \cup {t} ELSE outrun.types
    BY <2>1
  <2> QED BY <2>1, <2>2
<1>6. /\ page' \in [Page -> {Imports!Idle} \cup PageRow] /\ page'[p] = Imports!Idle
      /\ \A q \in Page : q # p => page'[q] = page[q]
  BY DEF Applied, RecordsInv, RecordTypes
<1>7. /\ s = 0 => record[t] = 0
      /\ t \in Owned => record[t] = s
      /\ \/ s # 0 /\ s = r /\ row[t][s] \in {"live", "deleted"}
         \/ /\ row[t][r] = "none" /\ \A x \in Imports!Row : x < r => row[t][x] # "none"
            /\ s # 0 => row[t][s] \notin {"live", "deleted"}
      /\ v = row[t][r] \/ (t = "custom_fields" /\ v = "deleted") \/ (row[t][r] = "none" /\ v = "live")
      /\ v \in {"live", Ended(t)} /\ v # "none"
      /\ row[t][r] = "none" /\ t \in Owned => v = "live"
      /\ t = "contacts" /\ row[t][r] = "none" => v = "live"
  BY DEF Applied, Ended
<1>8. points' = IF t # "contacts" THEN points
                ELSE IF page[p].status = "deleted" THEN points \ {r} ELSE points \cup {r}
  BY DEF Applied
<1>9. RecordTypes'
  <2>1. points' \subseteq Imports!Row /\ types' \in Types
    BY <1>8 DEF Applied, RecordsInv, RecordTypes
  <2> QED BY <1>1, <1>3, <1>4, <1>5, <1>6, <2>1 DEF RecordTypes
<1>10. ASSUME NEW u \in Imports!Type PROVE RowsFit(u)'
  <2>1. RowsFit(u)
    BY DEF RecordsInv
  <2>2. CASE u # t
    <3>1. \A x \in Imports!Row : row'[u][x] = row[u][x] /\ parent'[u][x] = parent[u][x]
      BY <1>1, <1>3, <2>2
    <3>2. record'[u] = record[u] /\ (record[u] # 0 => record[u] \in Imports!Row)
      BY <1>4, <2>2, NumberedRows DEF RecordsInv, RecordTypes
    <3> QED BY <2>1, <3>1, <3>2 DEF RowsFit
  <2>3. CASE u = t
    <3>1. \A x \in Imports!Row : row'[t][x] # "none" <=> row[t][x] # "none" \/ x = r
      BY <1>1, <1>7
    <3>2. \A x \in Imports!Row :
             /\ row'[t][x] \in {"none", "live", Ended(t)}
             /\ IF row'[t][x] = "none" THEN parent'[t][x] = Imports!NoParent
                ELSE parent'[t][x] \in [Imports!Needs[t] -> Imports!Row]
      <4> SUFFICES ASSUME NEW x \in Imports!Row
                   PROVE  /\ row'[t][x] \in {"none", "live", Ended(t)}
                          /\ row'[t][x] = "none" => parent'[t][x] = Imports!NoParent
                          /\ row'[t][x] # "none" => parent'[t][x] \in [Imports!Needs[t] -> Imports!Row]
        OBVIOUS
      <4>1. CASE x = r
        BY <1>1, <1>2, <1>3, <1>7, <4>1
      <4>2. CASE x # r
        <5>1. row'[t][x] = row[t][x] /\ parent'[t][x] = parent[t][x]
          BY <1>1, <1>3, <4>2
        <5>2. /\ row[t][x] \in {"none", "live", Ended(t)}
              /\ row[t][x] = "none" => parent[t][x] = Imports!NoParent
              /\ row[t][x] # "none" => parent[t][x] \in [Imports!Needs[t] -> Imports!Row]
          BY <2>1, <2>3 DEF RowsFit
        <5> QED BY <5>1, <5>2
      <4> QED BY <4>1, <4>2
    <3>3. \A x, y \in Imports!Row : x < y /\ row'[t][x] = "none" => row'[t][y] = "none"
      BY <1>7, <2>1, <2>3, <3>1 DEF RowsFit
    <3>4. row'[t][record'[t]] # "none"
      BY <1>1, <1>4, <1>7
    <3> QED BY <2>3, <3>2, <3>3, <3>4 DEF RowsFit
  <2> QED BY <2>2, <2>3
<1>11. ASSUME NEW u \in Imports!Type PROVE OneRow(u)'
  <2>1. OneRow(u)
    BY DEF RecordsInv
  <2>2. CASE u # t
    BY <1>1, <1>4, <1>5, <2>1, <2>2 DEF OneRow
  <2>3. CASE u = t
    <3>1. ASSUME t \notin outrun'.types, NEW x \in Imports!Row, row'[t][x] \in {"live", "deleted"}, x # r
          PROVE  FALSE
      <4>1. record[t] = s /\ t \notin outrun.types
        BY <1>5, <3>1
      <4>2. row[t][x] \in {"live", "deleted"}
        BY <1>1, <3>1
      <4>3. s = x
        BY <2>1, <2>3, <4>1, <4>2 DEF OneRow
      <4> QED BY <1>7, <3>1, <4>2, <4>3, RowNumbers
    <3> QED BY <1>4, <2>3, <3>1 DEF OneRow
  <2> QED BY <2>2, <2>3
<1>12. \A d \in Imports!Needs[t] : record[d] = refs[d]
  BY <1>2, OwnedAre
<1>13. t \in Owned => v = "live" /\ record[t] = s /\ (s # 0 => s = r /\ row[t][r] = "live")
  <2>1. ASSUME t \in Owned, s # 0 PROVE s = r /\ row[t][r] = "live"
    <3>1. row[t][s] = "live"
      BY <1>7, <2>1 DEF RecordsInv, OwnedFit
    <3> QED BY <1>7, <2>1, <3>1
  <2>2. t \in Owned => t # "custom_fields"
    BY DEF Owned
  <2> QED BY <1>7, <2>1, <2>2
<1>14. OwnedFit'
  <2>1. ASSUME NEW u \in Owned
        PROVE u \notin outrun'.types /\ (record'[u] # 0 => row'[u][record'[u]] = "live")
    <3>1. u \in Imports!Type /\ u \notin outrun.types /\ (record[u] # 0 => row[u][record[u]] = "live")
      BY TypesNamed DEF RecordsInv, OwnedFit
    <3>2. record[u] # 0 => record[u] \in Imports!Row
      BY <3>1, NumberedRows DEF RecordsInv, RecordTypes
    <3> QED BY <1>1, <1>4, <1>5, <1>13, <3>1, <3>2
  <2>2. ASSUME record'["stages"] # 0
        PROVE  parent'["stages"][record'["stages"]]["pipelines"] = record'["pipelines"]
    <3>0. /\ "stages" \in Imports!Type /\ "pipelines" \in Imports!Type
                 /\ "pipelines" \in Imports!Needs["stages"]
          /\ "stages" \in Owned /\ "pipelines" \in Owned
      BY TypesNamed DEF Owned
    <3>1. CASE t = "stages"
      BY <1>3, <1>4, <1>12, <3>0, <3>1
    <3>2. CASE t # "stages"
      <4>1. /\ record'["stages"] = record["stages"] /\ record["stages"] \in Imports!Row
            /\ parent'["stages"][record["stages"]] = parent["stages"][record["stages"]]
        BY <1>3, <1>4, <2>2, <3>0, <3>2, NumberedRows DEF RecordsInv, RecordTypes
      <4>2. parent["stages"][record["stages"]]["pipelines"] = record["pipelines"]
                /\ record["pipelines"] # 0
        BY <2>2, <4>1, OwnedAre DEF RecordsInv, OwnedFit
      <4>3. record'["pipelines"] = record["pipelines"]
        BY <1>4, <1>13, <3>0, <4>2
      <4> QED BY <4>1, <4>2, <4>3
    <3> QED BY <3>1, <3>2
  <2> QED BY <2>1, <2>2 DEF OwnedFit
<1>15. \A x \in Imports!Row : row["stages"][x] = "live" =>
          /\ row'["stages"][x] = "live"
          /\ parent'["stages"][x]["pipelines"] = parent["stages"][x]["pipelines"]
  <2> SUFFICES ASSUME NEW x \in Imports!Row, row["stages"][x] = "live"
               PROVE  /\ row'["stages"][x] = "live"
                      /\ parent'["stages"][x]["pipelines"] = parent["stages"][x]["pipelines"]
    OBVIOUS
  <2>0. "stages" \in Imports!Type /\ "stages" \in Owned /\ "pipelines" \in Imports!Needs["stages"]
    BY TypesNamed DEF Owned
  <2>1. CASE t # "stages" \/ x # r
    BY <1>1, <1>3, <2>0, <2>1
  <2>2. CASE t = "stages" /\ x = r
    <3>1. record["stages"] = x /\ x # 0
      BY <2>0, OwnedAre, RowNumbers
    <3>2. parent["stages"][x]["pipelines"] = record["pipelines"]
      BY <3>1 DEF RecordsInv, OwnedFit
    <3> QED BY <1>1, <1>3, <1>12, <1>13, <2>0, <2>2, <3>2
  <2> QED BY <2>1, <2>2
<1>16. DealsFit'
  <2>0. "deals" \in Imports!Type /\ Imports!Needs["deals"] = {"pipelines", "stages"} /\ Imports!Type # {}
    BY TypesNamed
  <2>1. ASSUME NEW d \in Imports!Row, row'["deals"][d] \in {"live", "deleted"}
        PROVE  /\ row'["stages"][parent'["deals"][d]["stages"]] = "live"
               /\ parent'["stages"][parent'["deals"][d]["stages"]]["pipelines"] = parent'["deals"][d]["pipelines"]
    <3>1. CASE t = "deals" /\ d = r
      <4>1. parent'["deals"][d] = refs
        BY <1>3, <3>1
      <4>2. /\ refs["stages"] \in Imports!Row /\ row["stages"][refs["stages"]] = "live"
            /\ record["stages"] = refs["stages"] /\ record["pipelines"] = refs["pipelines"]
        BY <1>2, <1>12, <2>0, <3>1
      <4>3. parent["stages"][refs["stages"]]["pipelines"] = refs["pipelines"]
        BY <4>2, RowNumbers DEF RecordsInv, OwnedFit
      <4> QED BY <1>15, <4>1, <4>2, <4>3
    <3>2. CASE t # "deals" \/ d # r
      <4>1. parent'["deals"][d] = parent["deals"][d] /\ row["deals"][d] \in {"live", "deleted"}
        BY <1>1, <1>3, <2>0, <2>1, <3>2
      <4>2. /\ parent["deals"][d]["stages"] \in Imports!Row
            /\ row["stages"][parent["deals"][d]["stages"]] = "live"
            /\ parent["stages"][parent["deals"][d]["stages"]]["pipelines"] = parent["deals"][d]["pipelines"]
        BY <4>1, OwnedAre DEF RecordsInv, DealsFit
      <4> QED BY <1>15, <4>1, <4>2
    <3> QED BY <3>1, <3>2
  <2> QED BY <2>1 DEF DealsFit
<1>17. ASSUME t = "contacts"
       PROVE  /\ row[t][r] # "none" => v = row[t][r]
              /\ page[p].status # "deleted" => v = "live" \/ r \in outrun.contacts
  <2>1. row[t][r] # "none" => v = row[t][r]
    BY <1>7, <1>17
  <2>2. CASE row[t][r] = "none"
    BY <1>7, <1>17, <2>1, <2>2
  <2>3. CASE row[t][r] # "none"
    <3>1. s # 0 /\ s = r
      BY <1>7, <2>3
    <3>2. PageFits(p) /\ page[p] # Imports!Idle /\ page[p].type = "contacts" /\ page[p].seen = r /\ r # 0
      BY <1>17, <3>1 DEF RecordsInv, Applied
    <3>3. page[p].status # "deleted" => row["contacts"][r] = "live" \/ r \in outrun.contacts
      BY <3>2 DEF PageFits
    <3> QED BY <1>17, <2>1, <2>3, <3>3
  <2> QED BY <2>2, <2>3
<1>18. PointsFit'
  <2>1. ASSUME NEW x \in points' PROVE row'["contacts"][x] = "live" \/ x \in outrun'.contacts
    <3>0. "contacts" \in Imports!Type /\ points \subseteq Imports!Row
      BY TypesNamed DEF RecordsInv, RecordTypes
    <3>1. CASE t = "contacts" /\ x = r
      <4>1. page[p].status # "deleted"
        BY <1>8, <2>1, <3>1
      <4> QED BY <1>1, <1>5, <1>17, <3>1, <4>1
    <3>2. CASE t # "contacts" \/ x # r
      <4>1. x \in points /\ x \in Imports!Row
        BY <1>8, <2>1, <3>0, <3>2
      <4>2. row'["contacts"][x] = row["contacts"][x]
        BY <1>1, <3>0, <3>2, <4>1
      <4> QED BY <1>5, <4>1, <4>2 DEF RecordsInv, PointsFit
    <3> QED BY <3>1, <3>2
  <2> QED BY <2>1 DEF PointsFit
<1>19. ASSUME NEW q \in Page PROVE PageFits(q)'
  <2>1. CASE q = p \/ page[q] = Imports!Idle
    BY <1>6, <2>1 DEF PageFits
  <2>2. CASE q # p /\ page[q] # Imports!Idle
    <3>1. page'[q] = page[q] /\ page[q] \in PageRow /\ PageFits(q)
      BY <1>6, <2>2 DEF RecordsInv, RecordTypes
    <3>2. PICK u \in Imports!Type, n \in 0..MaxRow : page[q].type = u /\ page[q].seen = n
      BY <3>1 DEF PageRow
    <3>3. /\ DOMAIN page[q].refs \subseteq Imports!Needs[u]
          /\ n # 0 => row[u][n] # "none" /\ n \in Imports!Row
          /\ u = "contacts" /\ n # 0 =>
                /\ page[q].status \in {"live", "deleted"}
                /\ page[q].status = "deleted" => row["contacts"][n] = "deleted"
                /\ page[q].status = "live" => row["contacts"][n] = "live" \/ n \in outrun.contacts
      BY <2>2, <3>1, <3>2, NumberedRows DEF PageFits
    <3>4. n # 0 => row'[u][n] # "none"
      BY <1>1, <1>7, <3>3
    <3>5. u = "contacts" /\ n # 0 => row'["contacts"][n] = row["contacts"][n]
      BY <1>1, <1>17, <3>3
    <3> QED BY <1>5, <3>1, <3>2, <3>3, <3>4, <3>5 DEF PageFits
  <2> QED BY <2>1, <2>2
<1>20. Buried
  <2>1. ASSUME NEW u \in Imports!Type, NEW x \in Imports!Row, row[u][x] \in {"deleted", "gone"}
        PROVE  row'[u][x] = row[u][x]
    <3>1. CASE u # t \/ x # r
      BY <1>1, <3>1
    <3>2. CASE u = t /\ x = r
      <4>1. row[t][r] = "deleted"
        BY <1>7, <2>1, <3>2
      <4> QED BY <1>1, <1>7, <3>2, <4>1
    <3> QED BY <3>1, <3>2
  <2> QED BY <2>1 DEF Buried
<1> QED BY <1>9, <1>10, <1>11, <1>14, <1>16, <1>18, <1>19, <1>20 DEF RecordsInv

LEMMA ReadMappingInv ==
    ASSUME RecordsInv, NEW p \in Page, NEW t \in Imports!Type, Imports!ReadMapping(p, t)
    PROVE  RecordsInv'
<1> DEFINE st == IF record[t] = 0 THEN "none" ELSE row[t][record[t]]
           x == [stage |-> "applying", type |-> t, seen |-> record[t], status |-> st,
               refs |-> Imports!NoParent]
<1>1. page' = [page EXCEPT ![p] = x] /\ UNCHANGED <<types, row, parent, points, record, outrun>>
  BY DEF Imports!ReadMapping, Imports!Proceeds
<1>2. record[t] \in 0..MaxRow /\ (record[t] # 0 => record[t] \in Imports!Row)
  BY NumberedRows DEF RecordsInv, RecordTypes
<1>3. st \in RowStatus
  BY <1>2 DEF RecordsInv, RecordTypes, RowStatus
<1>4. Imports!NoParent \in Refs /\ DOMAIN Imports!NoParent = {}
  <2>1. Imports!NoParent \in [{} -> Imports!Row] /\ {} \in SUBSET Imports!Type
    BY DEF Imports!NoParent
  <2> QED BY <2>1 DEF Refs
<1> HIDE DEF st
<1>5. /\ x \in PageRow /\ x.type = t /\ x.seen = record[t] /\ x.status = st /\ x.refs = Imports!NoParent
  BY <1>2, <1>3, <1>4 DEF PageRow
<1> HIDE DEF x
<1>6. page'[p] = x
  BY <1>1 DEF RecordsInv, RecordTypes
<1>7. record[t] # 0 => row[t][record[t]] # "none"
  BY DEF RecordsInv, RowsFit
<1>8. t = "contacts" /\ record[t] # 0
          => st = row[t][record[t]] /\ row[t][record[t]] \in {"live", "deleted"}
  <2>1. \A r \in Imports!Row : row[t][r] \in {"none", "live", Ended(t)}
    BY DEF RecordsInv, RowsFit
  <2>2. t = "contacts" => Ended(t) = "deleted"
    BY TypesNamed
  <2> QED BY <1>2, <1>7, <2>1, <2>2 DEF st
<1>9. PageFits(p)'
  BY <1>1, <1>4, <1>5, <1>6, <1>7, <1>8 DEF PageFits
<1> QED BY <1>1, <1>5, <1>9, PagesOnly

LEMMA ResolveReferenceInv ==
    ASSUME RecordsInv, NEW p \in Page, NEW t \in Imports!Type, Imports!ResolveReference(p, t)
    PROVE  RecordsInv'
<1> DEFINE q == page[p]
           refs == [d \in DOMAIN q.refs \cup {t} |-> IF d = t THEN record[t] ELSE q.refs[d]]
           x == [q EXCEPT !.refs = refs]
<1>1. /\ q # Imports!Idle /\ t \in Imports!Needs[q.type] /\ record[t] # 0
      /\ page' = [page EXCEPT ![p] = x] /\ UNCHANGED <<types, row, parent, points, record, outrun>>
  BY DEF Imports!ResolveReference, Imports!Proceeds
<1>2. q \in PageRow /\ record[t] \in Imports!Row /\ PageFits(p)
  BY <1>1, NumberedRows DEF RecordsInv, RecordTypes
<1>3. PICK D \in SUBSET Imports!Type : q.refs \in [D -> Imports!Row]
  BY <1>2 DEF PageRow, Refs
<1>4. refs \in Refs /\ DOMAIN refs = D \cup {t}
  <2>1. refs \in [D \cup {t} -> Imports!Row] /\ D \cup {t} \in SUBSET Imports!Type
    BY <1>2, <1>3
  <2> QED BY <2>1 DEF Refs
<1> HIDE DEF refs
<1>5. x \in PageRow /\ x.type = q.type /\ x.seen = q.seen /\ x.status = q.status /\ x.refs = refs
  BY <1>2, <1>4 DEF PageRow
<1>6. page'[p] = x
  BY <1>1 DEF RecordsInv, RecordTypes
<1>7. DOMAIN refs \subseteq Imports!Needs[q.type]
  BY <1>1, <1>2, <1>3, <1>4 DEF PageFits
<1> HIDE DEF x
<1>8. PageFits(p)'
  BY <1>1, <1>2, <1>5, <1>6, <1>7 DEF PageFits
<1> QED BY <1>1, <1>5, <1>8, PagesOnly

LEMMA FailPageInv == ASSUME RecordsInv, NEW p \in Page, Imports!FailPage(p) PROVE RecordsInv'
<1>1. page' = [page EXCEPT ![p] = Imports!Idle]
      /\ UNCHANGED <<types, row, parent, points, record, outrun>>
  BY DEF Imports!FailPage, Imports!Proceeds
<1>2. page'[p] = Imports!Idle
  BY <1>1 DEF RecordsInv, RecordTypes
<1>3. PageFits(p)'
  BY <1>2 DEF PageFits
<1> QED BY <1>1, <1>3, PagesOnly

LEMMA RecordsStep == ASSUME RecordsInv, [Imports!Next]_recordsVars PROVE RecordsInv' /\ Buried
<1>1. CASE UNCHANGED recordsVars
  <2> USE <1>1 DEF recordsVars
  <2>1. RecordTypes'
    BY DEF RecordsInv, RecordTypes
  <2>2. OwnedFit' /\ DealsFit' /\ PointsFit'
    BY DEF RecordsInv, OwnedFit, DealsFit, PointsFit
  <2>3. ASSUME NEW t \in Imports!Type PROVE (RowsFit(t) /\ OneRow(t))'
    BY DEF RecordsInv, RowsFit, OneRow
  <2>4. ASSUME NEW q \in Page PROVE PageFits(q)'
    BY DEF RecordsInv, PageFits
  <2> QED BY <2>1, <2>2, <2>3, <2>4 DEF RecordsInv, Buried
<1>2. CASE Imports!Next
  <2>1. ASSUME NEW r \in Imports!Row, Imports!DeleteStage(r) PROVE RecordsInv' /\ Buried
    BY <2>1, DeleteStageEnds, RowsEndInv, EndedStay
  <2>2. ASSUME NEW r \in Imports!Row, Imports!DeletePipeline(r) PROVE RecordsInv' /\ Buried
    BY <2>2, DeletePipelineEnds, RowsEndInv, EndedStay
  <2>3. ASSUME NEW r \in Imports!Row, Imports!DeleteContact(r) \/ Imports!DeleteTask(r)
        PROVE  RecordsInv' /\ Buried
    <3>1. PICK t : t \in Imports!Type
      BY TypesNamed
    <3> QED BY <2>3, <3>1, DeletedSoftly, RowsEndInv, EndedStay
  <2>4. ASSUME NEW r \in Imports!Row, NEW t \in Imports!Type, Imports!DeleteSoftly(t, r)
        PROVE  RecordsInv' /\ Buried
    BY <2>4, DeletedSoftly, RowsEndInv, EndedStay
  <2>5. ASSUME NEW p \in Page, NEW t \in Imports!Type, Imports!ResolveReference(p, t)
        PROVE  RecordsInv' /\ Buried
    BY <2>5, ResolveReferenceInv DEF Imports!ResolveReference, Buried
  <2>6. ASSUME NEW p \in Page, NEW t \in Imports!Type, Imports!ReadMapping(p, t)
        PROVE  RecordsInv' /\ Buried
    BY <2>6, ReadMappingInv DEF Imports!ReadMapping, Buried
  <2>7. ASSUME NEW p \in Page, Imports!FailPage(p) PROVE RecordsInv' /\ Buried
    BY <2>7, FailPageInv DEF Imports!FailPage, Buried
  <2>8. ASSUME NEW p \in Page, NEW t \in Imports!Type, NEW removed \in BOOLEAN,
               removed => t = "custom_fields",
               Imports!ApplyEntity(p, t, removed)
        PROVE  RecordsInv' /\ Buried
    BY <2>8, ApplyWrites, AppliedInv
  <2>9. ASSUME NEW p \in Page, NEW removed \in BOOLEAN,
               \/ Imports!ApplyCustomField(p, removed) \/ Imports!ApplyPipeline(p)
                      \/ Imports!ApplyStage(p)
               \/ Imports!ApplyCompany(p) \/ Imports!ApplyContact(p) \/ Imports!ApplyDeal(p)
                      \/ Imports!ApplyTask(p)
        PROVE  RecordsInv' /\ Buried
    <3>1. PICK t \in Imports!Type, gone \in BOOLEAN : (gone => t = "custom_fields")
                   /\ Imports!ApplyEntity(p, t, gone)
      BY <2>9, TypesNamed DEF Imports!ApplyCustomField, Imports!ApplyPipeline, Imports!ApplyStage,
         Imports!ApplyCompany, Imports!ApplyContact, Imports!ApplyDeal, Imports!ApplyTask
    <3> QED BY <2>8, <3>1
  <2> QED BY <1>2, <2>1, <2>2, <2>3, <2>4, <2>5, <2>6, <2>7, <2>9, Zenon DEF Imports!Next
<1> QED BY <1>1, <1>2

LEMMA RecordsInit == Init => RecordsInv
<1> SUFFICES ASSUME Init PROVE RecordsInv
  OBVIOUS
<1>1. /\ types \in Types /\ points = {}
      /\ row = [t \in Imports!Type |-> [r \in Imports!Row |-> "none"]]
      /\ parent = [t \in Imports!Type |-> [r \in Imports!Row |-> Imports!NoParent]]
      /\ record = [t \in Imports!Type |-> 0]
      /\ page = [p \in Page |-> Imports!Idle]
      /\ outrun = [types |-> {}, contacts |-> {}]
  BY DEF Init, Imports!Init, Imports!Unmapped
<1>2. Imports!NoParent \in Refs
  <2>1. Imports!NoParent \in [{} -> Imports!Row] /\ {} \in SUBSET Imports!Type
    BY DEF Imports!NoParent
  <2> QED BY <2>1 DEF Refs
<1>3. RecordTypes
  BY <1>1, <1>2, PushAssumption DEF RecordTypes, RowStatus
<1>4. \A t \in Imports!Type : RowsFit(t) /\ OneRow(t)
  BY <1>1 DEF RowsFit, OneRow
<1>5. OwnedFit /\ DealsFit /\ PointsFit
  BY <1>1, TypesNamed DEF OwnedFit, DealsFit, PointsFit
<1>6. \A p \in Page : PageFits(p)
  BY <1>1 DEF PageFits
<1> QED BY <1>3, <1>4, <1>5, <1>6 DEF RecordsInv

LEMMA MappingsDoHold == RecordsInv => Imports!MappingsHold
<1> SUFFICES ASSUME RecordsInv PROVE Imports!MappingsHold
  OBVIOUS
<1>1. \A t \in {"pipelines", "stages"} : record[t] # 0 => row[t][record[t]] = "live"
  BY DEF RecordsInv, OwnedFit, Owned
<1>2. record["stages"] # 0 => parent["stages"][record["stages"]]["pipelines"] = record["pipelines"]
  BY DEF RecordsInv, OwnedFit
<1>3. \A d \in Imports!Row : Imports!Exists("deals", d) =>
         /\ row["stages"][parent["deals"][d]["stages"]] = "live"
         /\ parent["stages"][parent["deals"][d]["stages"]]["pipelines"] = parent["deals"][d]["pipelines"]
  BY DEF RecordsInv, DealsFit, Imports!Exists
<1>4. ASSUME NEW t \in Imports!Type \ outrun.types
      PROVE  Imports!Cardinality({r \in Imports!Row : Imports!Exists(t, r)}) <= 1
  <2> DEFINE S == {r \in Imports!Row : Imports!Exists(t, r)}
  <2>1. S \subseteq {record[t]}
    BY DEF RecordsInv, OneRow, Imports!Exists
  <2>2. IsFiniteSet({record[t]}) /\ Cardinality({record[t]}) = 1
    BY FS_Singleton
  <2> HIDE DEF S
  <2>3. IsFiniteSet(S) /\ Cardinality(S) <= 1
    BY <2>1, <2>2, FS_Subset
  <2>4. Imports!Cardinality(S) <= 1
    BY <2>3, RecordsCounted
  <2> QED BY <2>4 DEF S
<1>5. \A r \in points : row["contacts"][r] = "live" \/ r \in outrun.contacts
  BY DEF RecordsInv, PointsFit
<1> QED BY <1>1, <1>2, <1>3, <1>4, <1>5 DEF Imports!MappingsHold

LEMMA RecordTypesAre == RecordsInv => Imports!TypeOK
<1> SUFFICES ASSUME RecordsInv PROVE Imports!TypeOK
  OBVIOUS
<1>1. ASSUME NEW t \in Imports!Type, NEW r \in Imports!Row
      PROVE  parent[t][r] = Imports!NoParent \/ parent[t][r] \in [Imports!Needs[t] -> Imports!Row]
  BY DEF RecordsInv, RowsFit
<1> QED BY <1>1 DEF RecordsInv, RecordTypes, RowStatus, Imports!TypeOK

LEMMA RecordsPart == [Next]_vars => [Imports!Next]_recordsVars
BY DEF Next, vars, recordsVars

-------------------------------------------------------------------------------
LEMMA Least == ASSUME NEW T \in SUBSET Nat, T # {} PROVE \E x \in T : \A y \in T : x <= y
<1> DEFINE R == OpToRel(<, Nat)
<1>1. IsWellFoundedOn(R, Nat)
  BY NatLessThanWellFounded
<1>2. PICK x \in T : \A y \in T : <<y, x>> \notin R
  BY <1>1, WFMin, Zenon
<1>3. ASSUME NEW y \in T PROVE x <= y
  <2>1. ~(y < x)
    BY <1>2 DEF OpToRel
  <2> QED BY <2>1
<1> QED BY <1>3

(* Clusters: what folds the licences of a table. *)
Joined(l, clusters) ==
    LET matches == {k \in clusters : k \cap l.addresses # {}}
    IN  (clusters \ matches) \cup {l.addresses \cup UNION matches}

Chosen(s) == CHOOSE i \in s : TRUE
Folding(table, f) ==
    f = [s \in SUBSET (DOMAIN table) |->
            IF s = {} THEN {} ELSE Joined(table[Chosen(s)], f[s \ {Chosen(s)}])]

LEMMA ClustersFold == ASSUME NEW table
                      PROVE Uploads!Clusters(table) = (CHOOSE f : Folding(table, f))[DOMAIN table]
BY DEF Uploads!Clusters, Uploads!FoldSeq, Uploads!FoldFunction, Uploads!FoldFunctionOnSet,
       Uploads!MapThenFoldSet, Joined, Chosen, Folding


(* What the fold says of s, when f says what it is of smaller sets. *)
Folded(table, f, s) == IF s = {} THEN {} ELSE Joined(table[Chosen(s)], f[s \ {Chosen(s)}])

LEMMA ChosenIn == ASSUME NEW s, s # {} PROVE Chosen(s) \in s
BY DEF Chosen

LEMMA FoldingExists ==
    ASSUME NEW table, IsFiniteSet(DOMAIN table)
    PROVE  \E f : Folding(table, f)
<1> DEFINE D == DOMAIN table
           Upto(n) == \E f : \A s \in SUBSET D : Cardinality(s) <= n => f[s] = Folded(table, f, s)
           Bad == {n \in Nat : ~Upto(n)}
<1>1. \A s \in SUBSET D : IsFiniteSet(s) /\ Cardinality(s) \in Nat /\ Cardinality(s) <= Cardinality(D)
  BY FS_Subset, FS_CardinalityType
<1>2. Bad = {}
  <2> SUFFICES ASSUME Bad # {} PROVE FALSE
    OBVIOUS
  <2>1. PICK n \in Bad : \A m \in Bad : n <= m
    BY Least
  <2>2. PICK f : \A s \in SUBSET D : Cardinality(s) < n => f[s] = Folded(table, f, s)
    <3>1. CASE n = 0
      <4>1. \A s \in SUBSET D : ~(Cardinality(s) < n)
        BY <1>1, <3>1
      <4> QED BY <4>1
    <3>2. CASE n # 0
      <4>1. n - 1 \in Nat /\ n - 1 \notin Bad
        BY <2>1, <3>2
      <4>2. PICK f : \A s \in SUBSET D : Cardinality(s) <= n - 1 => f[s] = Folded(table, f, s)
        BY <4>1
      <4>3. \A s \in SUBSET D : Cardinality(s) < n => Cardinality(s) <= n - 1
        BY <1>1, <2>1
      <4> QED BY <4>2, <4>3
    <3> QED BY <3>1, <3>2
  <2> DEFINE g == [s \in SUBSET D |-> Folded(table, f, s)]
  <2>3. ASSUME NEW s \in SUBSET D, Cardinality(s) <= n PROVE g[s] = Folded(table, g, s)
    <3>1. CASE s = {}
      BY <3>1 DEF Folded
    <3>2. CASE s # {}
      <4> DEFINE x == s \ {Chosen(s)}
      <4>1. x \in SUBSET D /\ Cardinality(x) < n
        <5>1. Cardinality(x) = Cardinality(s) - 1
          BY <1>1, <3>2, ChosenIn, FS_RemoveElement
        <5> QED BY <1>1, <2>1, <2>3, <5>1
      <4>2. f[x] = g[x]
        BY <2>2, <4>1
      <4> QED BY <3>2, <4>2 DEF Folded
    <3> QED BY <3>1, <3>2
  <2> HIDE DEF g
  <2>4. Upto(n)
    BY <2>3
  <2> QED BY <2>1, <2>4
<1>3. Cardinality(D) \in Nat
  BY FS_CardinalityType
<1>4. PICK f : \A s \in SUBSET D : Cardinality(s) <= Cardinality(D) => f[s] = Folded(table, f, s)
  BY <1>2, <1>3
<1> DEFINE g == [s \in SUBSET D |-> f[s]]
<1>5. \A s \in SUBSET D : f[s] = Folded(table, f, s)
  BY <1>1, <1>4
<1>6. ASSUME NEW s \in SUBSET D PROVE g[s] = Folded(table, g, s)
  <2>1. s \ {Chosen(s)} \in SUBSET D
    OBVIOUS
  <2>2. g[s \ {Chosen(s)}] = f[s \ {Chosen(s)}]
    BY <2>1
  <2> QED BY <1>5, <2>2 DEF Folded
<1>7. g = [s \in SUBSET D |-> g[s]]
  OBVIOUS
<1> HIDE DEF g
<1>8. g = [s \in SUBSET D |-> Folded(table, g, s)]
  BY <1>6, <1>7
<1>9. Folding(table, g)
  BY <1>8, Zenon DEF Folding, Folded
<1> QED BY <1>9

(* Clusters are sets of addresses, none empty. *)
LEMMA ClustersAre ==
    ASSUME NEW A, NEW table, IsFiniteSet(DOMAIN table),
           \A i \in DOMAIN table : table[i].addresses \in (SUBSET A) \ {{}}
    PROVE  Uploads!Clusters(table) \in SUBSET ((SUBSET A) \ {{}})
<1> DEFINE D == DOMAIN table
           f == CHOOSE h : Folding(table, h)
           Bad == {n \in Nat : \E s \in SUBSET D : Cardinality(s) = n
               /\ f[s] \notin SUBSET ((SUBSET A) \ {{}})}
<1>1. Folding(table, f)
  BY FoldingExists
<1> HIDE DEF f
<1>2. \A s \in SUBSET D : f[s] = Folded(table, f, s)
  BY <1>1 DEF Folding, Folded
<1>3. \A s \in SUBSET D : IsFiniteSet(s) /\ Cardinality(s) \in Nat
  BY FS_Subset, FS_CardinalityType
<1>4. Bad = {}
  <2> SUFFICES ASSUME Bad # {} PROVE FALSE
    OBVIOUS
  <2>1. PICK n \in Bad : \A m \in Bad : n <= m
    BY Least
  <2>2. PICK s \in SUBSET D : Cardinality(s) = n /\ f[s] \notin SUBSET ((SUBSET A) \ {{}})
    OBVIOUS
  <2>3. s # {} /\ f[s] = Joined(table[Chosen(s)], f[s \ {Chosen(s)}])
    BY <1>2, <2>2 DEF Folded
  <2> DEFINE x == s \ {Chosen(s)}
  <2>4. Chosen(s) \in s
    BY <2>3, ChosenIn
  <2>5. x \in SUBSET D /\ Cardinality(x) \in Nat /\ Cardinality(x) < n
    <3>1. Cardinality(x) = Cardinality(s) - 1
      BY <1>3, <2>4, FS_RemoveElement
    <3> QED BY <1>3, <2>2, <3>1
  <2>6. Cardinality(x) \notin Bad
    <3>1. n \in Nat
      OBVIOUS
    <3>2. ~(n <= Cardinality(x))
      BY <2>5, <3>1
    <3> HIDE DEF Bad, x
    <3> QED BY <2>1, <3>2
  <2>7. f[x] \in SUBSET ((SUBSET A) \ {{}})
    BY <2>5, <2>6
  <2>8. table[Chosen(s)].addresses \in (SUBSET A) \ {{}}
    BY <2>4
  <2> HIDE DEF x
  <2>9. Joined(table[Chosen(s)], f[x]) \in SUBSET ((SUBSET A) \ {{}})
    BY <2>7, <2>8 DEF Joined
  <2> QED BY <2>2, <2>3, <2>9 DEF x
<1>5. IsFiniteSet(D) /\ D \in SUBSET D
  OBVIOUS
<1>6. f[D] \in SUBSET ((SUBSET A) \ {{}})
  BY <1>3, <1>4, <1>5
<1> QED BY <1>6, ClustersFold DEF f

(* The licences of a table, one after the other. *)
LEMMA TableSequence ==
    ASSUME NEW S, IsFiniteSet(S)
    PROVE  /\ IsFiniteSet(DOMAIN Uploads!SetToSeq(S))
           /\ \A i \in DOMAIN Uploads!SetToSeq(S) : Uploads!SetToSeq(S)[i] \in S
<1>1. PICK n \in Nat : ExistsBijection(1..n, S)
  BY FS_NatBijection
<1>2. Uploads!Cardinality(S) = n
  <2>1. Cardinality(S) = n
    BY <1>1, FS_CountingElements
  <2> QED BY <2>1 DEF Uploads!Cardinality, Cardinality
<1>3. PICK g \in [1..n -> S] : Uploads!IsInjective(g)
  BY <1>1 DEF ExistsBijection, Bijection, Injection, IsInjective, Uploads!IsInjective
<1>4. Uploads!SetToSeq(S) \in [1..n -> S]
  <2>1. \E f \in [1..Uploads!Cardinality(S) -> S] : Uploads!IsInjective(f)
    BY <1>2, <1>3
  <2> HIDE DEF Uploads!IsInjective
  <2>2. Uploads!SetToSeq(S) \in [1..Uploads!Cardinality(S) -> S]
    BY <2>1 DEF Uploads!SetToSeq
  <2> QED BY <1>2, <2>2
<1>5. IsFiniteSet(1..n)
  BY FS_Interval
<1> QED BY <1>4, <1>5

(* Renewals: what an upload has read of a group is what it writes over, but *)
(* for what "raced" notes.                                                  *)
Cluster == (SUBSET Uploads!Address) \ {{}}
Matches == UNION {[K -> SUBSET Uploads!Contact] : K \in SUBSET Cluster}
LinkRow == [status : {"none", "open", "closed", "deleted"},
            links : SUBSET Uploads!Contact, primary : SUBSET Uploads!Contact]
Found == UNION {[G -> LinkRow] : G \in SUBSET Group}

UploadRow ==
    [stage : {"none", "company", "groups", "mappings", "ended"}, file : File \cup {{}},
     company : Uploads!Company, matches : Matches, error : BOOLEAN, found : Found,
     called : SUBSET Group, at : [Group -> Uploads!LicenceDeal \cup {None}],
     taskAt : [Group -> Upload \cup {None}], known : SUBSET Group, knownTask : SUBSET Group]

RenewalTypes ==
    /\ company \subseteq Uploads!Company
    /\ customer \in [Uploads!Contact -> [live : BOOLEAN, company : Uploads!Company \cup {None},
                                         addresses : SUBSET Uploads!Address]]
    /\ renewal \in [Uploads!LicenceDeal -> LinkRow]
    /\ group \in [Group -> Uploads!LicenceDeal \cup {None}]
    /\ task \in [Group -> Upload \cup {None}]
    /\ calls \in [Group -> SUBSET Upload]
    /\ upload \in [Upload -> UploadRow]
    /\ raced \in [groups : SUBSET Group, deals : SUBSET Uploads!LicenceDeal, company : BOOLEAN]

(* The mappings name rows of the group that were committed; unless they    *)
(* were overtaken, the only live ones.                                      *)
GroupFits(g) ==
    /\ group[g] # None => group[g][2] = g /\ renewal[group[g]].status # "none"
    /\ task[g] # None => upload[task[g]].stage = "ended"
    /\ g \notin raced.groups =>
          /\ \A d \in Uploads!LicenceDeal : d[2] = g /\ Uploads!Live(d) => group[g] = d
          /\ \A u \in calls[g] : task[g] = u

OnePrimary(d) ==
    IF renewal[d].links = {} THEN renewal[d].primary = {}
    ELSE \E c \in Uploads!Contact : renewal[d].primary = {c}

DealFits(d) ==
    /\ renewal[d].status = "none" => renewal[d] = Uploads!NoDeal
    /\ renewal[d].status # "none" => upload[d[1]].stage = "ended"
    /\ renewal[d].primary \subseteq renewal[d].links
    /\ d \notin raced.deals => OnePrimary(d)

ReadFits(u, g) ==
    LET q == upload[u] IN
    /\ q.at[g] # None => q.at[g][2] = g /\ renewal[q.at[g]].status # "none"
    /\ q.found[g] = Uploads!NoDeal => q.at[g] = None \/ renewal[q.at[g]].status = "deleted"
    /\ q.found[g] # Uploads!NoDeal =>
          /\ q.at[g] # None
          /\ q.at[g] \notin raced.deals => /\ q.found[g].links = renewal[q.at[g]].links
                                           /\ q.found[g].primary = renewal[q.at[g]].primary
    /\ q.taskAt[g] # None => upload[q.taskAt[g]].stage = "ended"
    /\ g \notin q.called => q.taskAt[g] \notin calls[g]

UploadFits(u) ==
    upload[u].stage \in {"groups", "mappings"} =>
        /\ DOMAIN upload[u].found = Uploads!GroupsOf(u)
        /\ \A g \in Uploads!GroupsOf(u) : ReadFits(u, g)

CompanyFits ==
    /\ \A o \in company \ {0} : upload[o].stage = "ended"
    /\ ~raced.company =>
          /\ \A a, b \in company \ {0} : a = b
          /\ \A u \in Uploads!Busy : upload[u].company = u => company \subseteq {0}

RenewalsInv ==
    /\ RenewalTypes /\ CompanyFits
    /\ \A g \in Group : GroupFits(g)
    /\ \A d \in Uploads!LicenceDeal : DealFits(d)
    /\ \A u \in Upload : UploadFits(u)

-------------------------------------------------------------------------------
LEMMA DealsAre == \A d \in Uploads!LicenceDeal : d[1] \in Upload /\ d[2] \in Group /\ d # None
BY RenewalsAssumption DEF Uploads!LicenceDeal

LEMMA ReadsAre ==
    ASSUME RenewalTypes, NEW u \in Upload
    PROVE  upload[u] \in UploadRow /\ Uploads!GroupsOf(u) \subseteq Group
<1>1. upload[u].file \in File \cup {{}} /\ upload[u] \in UploadRow
  BY DEF RenewalTypes, UploadRow
<1>2. \A l \in upload[u].file : l.group \in Group
  BY <1>1, RenewalsAssumption
<1> QED BY <1>1, <1>2 DEF Uploads!GroupsOf

(* Companies and contacts come and go; none is an upload's.               *)
PeopleOnly ==
    /\ company' \subseteq company \cup {0}
    /\ customer' \in [Uploads!Contact -> [live : BOOLEAN, company : Uploads!Company \cup {None},
                                          addresses : SUBSET Uploads!Address]]
    /\ UNCHANGED <<renewal, group, task, calls, upload, raced>>

LEMMA PeopleOnlyInv == ASSUME RenewalsInv, PeopleOnly PROVE RenewalsInv'
<1>1. RenewalTypes'
  BY DEF RenewalsInv, RenewalTypes, PeopleOnly, Uploads!Company, Uploads!Manual
<1>2. CompanyFits'
  BY DEF RenewalsInv, CompanyFits, PeopleOnly, Uploads!Busy, Uploads!Stage
<1>3. ASSUME NEW g \in Group PROVE GroupFits(g)'
  BY DEF RenewalsInv, GroupFits, PeopleOnly, Uploads!Live
<1>4. ASSUME NEW d \in Uploads!LicenceDeal PROVE DealFits(d)'
  BY DEF RenewalsInv, DealFits, OnePrimary, PeopleOnly
<1>5. ASSUME NEW u \in Upload PROVE UploadFits(u)'
  BY DEF RenewalsInv, UploadFits, ReadFits, Uploads!GroupsOf, PeopleOnly
<1> QED BY <1>1, <1>2, <1>3, <1>4, <1>5 DEF RenewalsInv

(* Tasks are deleted. *)
CallsOnly ==
    /\ calls' \in [Group -> SUBSET Upload]
    /\ \A g \in Group : calls'[g] \subseteq calls[g]
    /\ UNCHANGED <<company, customer, renewal, group, task, upload, raced>>

LEMMA CallsOnlyInv == ASSUME RenewalsInv, CallsOnly PROVE RenewalsInv'
<1>1. RenewalTypes'
  BY DEF RenewalsInv, RenewalTypes, CallsOnly
<1>2. CompanyFits'
  BY DEF RenewalsInv, CompanyFits, CallsOnly, Uploads!Busy, Uploads!Stage
<1>3. ASSUME NEW g \in Group PROVE GroupFits(g)'
  BY DEF RenewalsInv, GroupFits, CallsOnly, Uploads!Live
<1>4. ASSUME NEW d \in Uploads!LicenceDeal PROVE DealFits(d)'
  BY DEF RenewalsInv, DealFits, OnePrimary, CallsOnly
<1>5. ASSUME NEW u \in Upload PROVE UploadFits(u)'
  <2>0. upload'[u] = upload[u] /\ Uploads!GroupsOf(u)' = Uploads!GroupsOf(u)
    BY DEF Uploads!GroupsOf, CallsOnly
  <2> SUFFICES ASSUME upload[u].stage \in {"groups", "mappings"}
               PROVE  \A g \in Uploads!GroupsOf(u) : ReadFits(u, g)'
    BY <2>0 DEF UploadFits, RenewalsInv
  <2> TAKE g \in Uploads!GroupsOf(u)
  <2>1. DOMAIN upload[u].found = Uploads!GroupsOf(u) /\ ReadFits(u, g)
    BY DEF RenewalsInv, UploadFits
  <2>2. g \in Group
    BY ReadsAre DEF RenewalsInv, UploadRow
  <2> QED BY <2>1, <2>2 DEF ReadFits, CallsOnly
<1> QED BY <1>1, <1>2, <1>3, <1>4, <1>5 DEF RenewalsInv

(* A live deal is closed, opened, deleted, or linked anew. *)
DealWritten(d, x) ==
    /\ renewal[d].status \in {"open", "closed"} /\ x.status # "none"
    /\ x.primary \subseteq x.links
    /\ renewal' = [renewal EXCEPT ![d] = x]
    /\ raced' \in [groups : SUBSET Group, deals : SUBSET Uploads!LicenceDeal, company : BOOLEAN]
    /\ raced'.groups = raced.groups /\ raced'.company = raced.company
           /\ raced.deals \subseteq raced'.deals
    /\ d \notin raced'.deals =>
          /\ IF x.links = {} THEN x.primary = {} ELSE \E c \in Uploads!Contact : x.primary = {c}
          /\ (x.links = renewal[d].links /\ x.primary = renewal[d].primary) \/ Uploads!Busy = {}
    /\ UNCHANGED <<company, customer, group, task, calls, upload>>

LEMMA DealWrittenInv ==
    ASSUME RenewalsInv, NEW d \in Uploads!LicenceDeal, NEW x \in LinkRow, DealWritten(d, x)
    PROVE  RenewalsInv'
<1>1. /\ renewal' \in [Uploads!LicenceDeal -> LinkRow] /\ renewal'[d] = x
      /\ \A e \in Uploads!LicenceDeal : e # d => renewal'[e] = renewal[e]
  BY DEF RenewalsInv, RenewalTypes, DealWritten
<1>2. /\ upload' = upload /\ group' = group /\ task' = task /\ calls' = calls /\ company' = company
      /\ customer' = customer
      /\ raced'.groups = raced.groups /\ raced'.company = raced.company
             /\ raced.deals \subseteq raced'.deals
      /\ raced' \in [groups : SUBSET Group, deals : SUBSET Uploads!LicenceDeal, company : BOOLEAN]
      /\ renewal[d].status \in {"open", "closed"} /\ x.status # "none" /\ x.primary \subseteq x.links
  BY DEF DealWritten
<1>3. RenewalTypes'
  BY <1>1, <1>2 DEF RenewalsInv, RenewalTypes
<1>4. CompanyFits'
  BY <1>2 DEF RenewalsInv, CompanyFits, Uploads!Busy, Uploads!Stage
<1>5. ASSUME NEW g \in Group PROVE GroupFits(g)'
  <2>1. GroupFits(g) /\ group[g] \in Uploads!LicenceDeal \cup {None}
    BY DEF RenewalsInv, RenewalTypes
  <2>2. \A e \in Uploads!LicenceDeal : renewal'[e].status \in {"open", "closed"}
            => renewal[e].status \in {"open", "closed"}
    BY <1>1, <1>2
  <2>3. \A e \in Uploads!LicenceDeal : renewal[e].status # "none" => renewal'[e].status # "none"
    BY <1>1, <1>2
  <2> QED BY <1>2, <2>1, <2>2, <2>3 DEF GroupFits, Uploads!Live
<1>6. ASSUME NEW e \in Uploads!LicenceDeal PROVE DealFits(e)'
  <2>1. DealFits(e) /\ DealFits(d)
    BY DEF RenewalsInv
  <2>2. CASE e # d
    BY <1>1, <1>2, <2>1, <2>2 DEF DealFits, OnePrimary
  <2>3. CASE e = d
    <3>1. d \notin raced'.deals =>
             IF x.links = {} THEN x.primary = {} ELSE \E c \in Uploads!Contact : x.primary = {c}
      BY DEF DealWritten
    <3> QED BY <1>1, <1>2, <2>1, <2>3, <3>1 DEF DealFits, OnePrimary
  <2> QED BY <2>2, <2>3
<1>7. ASSUME NEW u \in Upload PROVE UploadFits(u)'
  <2>0. upload'[u] = upload[u] /\ Uploads!GroupsOf(u)' = Uploads!GroupsOf(u)
    BY <1>2 DEF Uploads!GroupsOf
  <2> SUFFICES ASSUME upload[u].stage \in {"groups", "mappings"}
               PROVE  \A g \in Uploads!GroupsOf(u) : ReadFits(u, g)'
    BY <2>0 DEF UploadFits, RenewalsInv
  <2> TAKE g \in Uploads!GroupsOf(u)
  <2>1. DOMAIN upload[u].found = Uploads!GroupsOf(u) /\ ReadFits(u, g)
    BY DEF RenewalsInv, UploadFits
  <2>2. g \in Group /\ upload[u].at[g] \in Uploads!LicenceDeal \cup {None}
    BY ReadsAre DEF RenewalsInv, UploadRow
  <2>3. Uploads!Busy # {}
    BY DEF Uploads!Busy, Uploads!Stage
  <2>4. d \notin raced'.deals => x.links = renewal[d].links /\ x.primary = renewal[d].primary
    BY <2>3 DEF DealWritten
  <2>5. ASSUME upload[u].at[g] # None
        PROVE  LET a == upload[u].at[g]
               IN  /\ renewal[a].status # "none" => renewal'[a].status # "none"
                   /\ renewal[a].status = "deleted" => renewal'[a].status = "deleted"
                   /\ a \notin raced'.deals => /\ a \notin raced.deals
                                               /\ renewal'[a].links = renewal[a].links
                                               /\ renewal'[a].primary = renewal[a].primary
    BY <1>1, <1>2, <2>2, <2>4, <2>5
  <2> QED BY <1>2, <2>1, <2>5 DEF ReadFits
<1> QED BY <1>3, <1>4, <1>5, <1>6, <1>7 DEF RenewalsInv

(* An upload reads, or fails. *)
UploadReads(u, x) ==
    /\ upload[u].stage # "ended"
    /\ upload' = [upload EXCEPT ![u] = x]
    /\ x.stage \notin {"none", "ended"} /\ x.company = u /\ ~raced.company => company \subseteq {0}
    /\ UNCHANGED <<company, customer, renewal, group, task, calls, raced>>

LEMMA UploadReadsInv ==
    ASSUME RenewalsInv, NEW u \in Upload, NEW x \in UploadRow, UploadReads(u, x), UploadFits(u)'
    PROVE  RenewalsInv'
<1>1. /\ upload' \in [Upload -> UploadRow] /\ upload'[u] = x
      /\ \A v \in Upload : v # u => upload'[v] = upload[v]
      /\ \A v \in Upload : upload[v].stage = "ended" => upload'[v].stage = "ended"
  BY DEF RenewalsInv, RenewalTypes, UploadReads
<1>2. /\ renewal' = renewal /\ group' = group /\ task' = task /\ calls' = calls /\ company' = company
      /\ customer' = customer /\ raced' = raced
  BY DEF UploadReads
<1>3. RenewalTypes'
  BY <1>1, <1>2 DEF RenewalsInv, RenewalTypes
<1>4. CompanyFits'
  <2>1. company \subseteq Upload \cup {0}
    BY DEF RenewalsInv, RenewalTypes, Uploads!Company, Uploads!Manual
  <2>2. \A o \in company \ {0} : upload'[o].stage = "ended"
    BY <1>1, <2>1 DEF RenewalsInv, CompanyFits
  <2>3. ASSUME ~raced.company, NEW v \in Upload, upload'[v].stage \notin {"none", "ended"},
                   upload'[v].company = v
        PROVE  company \subseteq {0}
    <3>1. CASE v = u
      BY <1>1, <2>3, <3>1 DEF UploadReads
    <3>2. CASE v # u
      BY <1>1, <2>3, <3>2 DEF RenewalsInv, CompanyFits, Uploads!Busy, Uploads!Stage
    <3> QED BY <3>1, <3>2
  <2> QED BY <1>2, <2>2, <2>3 DEF RenewalsInv, CompanyFits, Uploads!Busy, Uploads!Stage
<1>5. ASSUME NEW g \in Group PROVE GroupFits(g)'
  BY <1>1, <1>2 DEF RenewalsInv, RenewalTypes, GroupFits, Uploads!Live
<1>6. ASSUME NEW d \in Uploads!LicenceDeal PROVE DealFits(d)'
  BY <1>1, <1>2, DealsAre DEF RenewalsInv, DealFits, OnePrimary
<1>7. ASSUME NEW v \in Upload PROVE UploadFits(v)'
  <2>1. CASE v = u
    BY <2>1
  <2>2. CASE v # u
    <3>0. upload'[v] = upload[v] /\ Uploads!GroupsOf(v)' = Uploads!GroupsOf(v)
      BY <1>1, <2>2 DEF Uploads!GroupsOf
    <3> SUFFICES ASSUME upload[v].stage \in {"groups", "mappings"}
                 PROVE  \A g \in Uploads!GroupsOf(v) : ReadFits(v, g)'
      BY <3>0 DEF UploadFits, RenewalsInv
    <3> TAKE g \in Uploads!GroupsOf(v)
    <3>1. DOMAIN upload[v].found = Uploads!GroupsOf(v) /\ ReadFits(v, g)
      BY DEF RenewalsInv, UploadFits
    <3>2. g \in Group /\ upload[v].taskAt[g] \in Upload \cup {None}
      BY ReadsAre DEF RenewalsInv, UploadRow
    <3> QED BY <1>1, <1>2, <2>2, <3>1, <3>2 DEF ReadFits
  <2> QED BY <2>1, <2>2
<1> QED BY <1>3, <1>4, <1>5, <1>6, <1>7 DEF RenewalsInv

LEMMA NoUploadIs ==
    /\ Uploads!NoUpload \in UploadRow /\ Uploads!NoUpload.stage = "none"
    /\ [Uploads!NoUpload EXCEPT !.stage = "ended"] \in UploadRow
    /\ [Uploads!NoUpload EXCEPT !.stage = "ended"].stage = "ended"
<1>1. [k \in {} |-> {}] \in Matches
  <2>1. [k \in {} |-> {}] \in [{} -> SUBSET Uploads!Contact] /\ {} \in SUBSET Cluster
    OBVIOUS
  <2> QED BY <2>1 DEF Matches
<1>2. [g \in {} |-> Uploads!NoDeal] \in Found
  <2>1. [g \in {} |-> Uploads!NoDeal] \in [{} -> LinkRow] /\ {} \in SUBSET Group
    OBVIOUS
  <2> QED BY <2>1 DEF Found
<1> QED BY <1>1, <1>2 DEF Uploads!NoUpload, UploadRow, Uploads!Company, Uploads!Manual

LEMMA RenewalsInit == Init => RenewalsInv
<1> SUFFICES ASSUME Init PROVE RenewalsInv
  OBVIOUS
<1>1. /\ company = {} /\ customer = [c \in Uploads!Contact |-> Uploads!NoContact]
      /\ renewal = [d \in Uploads!LicenceDeal |-> Uploads!NoDeal]
      /\ group = [g \in Group |-> None] /\ task = [g \in Group |-> None]
      /\ calls = [g \in Group |-> {}]
      /\ upload = [u \in Upload |-> Uploads!NoUpload]
      /\ raced = [groups |-> {}, deals |-> {}, company |-> FALSE]
  BY DEF Init, Uploads!Init
<1>2. RenewalTypes
  BY <1>1, NoUploadIs DEF RenewalTypes, Uploads!NoContact, Uploads!NoDeal, LinkRow
<1>3. CompanyFits
  BY <1>1 DEF CompanyFits
<1>4. ASSUME NEW g \in Group PROVE GroupFits(g)
  BY <1>1 DEF GroupFits, Uploads!Live, Uploads!NoDeal
<1>5. ASSUME NEW d \in Uploads!LicenceDeal PROVE DealFits(d)
  BY <1>1 DEF DealFits, OnePrimary, Uploads!NoDeal
<1>6. ASSUME NEW u \in Upload PROVE UploadFits(u)
  BY <1>1, NoUploadIs DEF UploadFits
<1> QED BY <1>2, <1>3, <1>4, <1>5, <1>6 DEF RenewalsInv

LEMMA AddressesAre ==
    ASSUME NEW file \in File, NEW l \in file
    PROVE  l.addresses \in (SUBSET Uploads!Address) \ {{}}
BY RenewalsAssumption DEF Uploads!Address

LEMMA PeopleInv ==
    ASSUME RenewalsInv,
           \/ Uploads!CreateCompany
           \/ \E o \in Uploads!Company : Uploads!DeleteCompany(o)
           \/ \E c \in Uploads!Contact : Uploads!DeleteContact(c)
    PROVE  RenewalsInv'
<1> DEFINE Person == [live : BOOLEAN, company : Uploads!Company \cup {None},
               addresses : SUBSET Uploads!Address]
<1>1. customer \in [Uploads!Contact -> Person]
  BY DEF RenewalsInv, RenewalTypes
<1> HIDE DEF Person
<1>2. CASE Uploads!CreateCompany
  BY <1>1, <1>2, PeopleOnlyInv DEF Uploads!CreateCompany, PeopleOnly, Person, Uploads!Manual
<1>3. ASSUME NEW o \in Uploads!Company, Uploads!DeleteCompany(o) PROVE RenewalsInv'
  <2>1. \A c \in Uploads!Contact : [customer[c] EXCEPT !.company = None] \in Person
    BY <1>1 DEF Person
  <2>2. customer' \in [Uploads!Contact -> Person]
    BY <1>1, <1>3, <2>1 DEF Uploads!DeleteCompany
  <2>3. PeopleOnly
    BY <1>3, <2>2 DEF PeopleOnly, Uploads!DeleteCompany, Person
  <2> QED BY <2>3, PeopleOnlyInv
<1>4. ASSUME NEW c \in Uploads!Contact, Uploads!DeleteContact(c) PROVE RenewalsInv'
  <2>1. [customer[c] EXCEPT !.live = FALSE, !.addresses = {}] \in Person
    BY <1>1 DEF Person
  <2>2. customer' = [customer EXCEPT ![c] = [customer[c] EXCEPT !.live = FALSE, !.addresses = {}]]
    BY <1>1, <1>4 DEF Uploads!DeleteContact
  <2>3. customer' \in [Uploads!Contact -> Person]
    BY <1>1, <2>1, <2>2
  <2>4. PeopleOnly
    BY <1>4, <2>3 DEF PeopleOnly, Uploads!DeleteContact, Person
  <2> QED BY <2>4, PeopleOnlyInv
<1> QED BY <1>2, <1>3, <1>4

LEMMA DeleteTaskInv ==
    ASSUME RenewalsInv, NEW g \in Group, NEW u \in Upload, Uploads!DeleteTask(g, u)
    PROVE  RenewalsInv'
<1>1. CallsOnly
  BY DEF RenewalsInv, RenewalTypes, Uploads!DeleteTask, CallsOnly
<1> QED BY <1>1, CallsOnlyInv

LEMMA RenewalDealsInv ==
    ASSUME RenewalsInv, NEW d \in Uploads!LicenceDeal,
           \/ Uploads!TransitionDealStage(d) \/ Uploads!DeleteDeal(d)
           \/ \E links \in {{}} \cup {{c} : c \in {k \in Uploads!Contact : customer[k].live}} :
                 Uploads!UpdateDealContacts(d, links, links)
    PROVE  RenewalsInv'
<1>1. /\ renewal \in [Uploads!LicenceDeal -> LinkRow] /\ renewal[d] \in LinkRow
      /\ raced \in [groups : SUBSET Group, deals : SUBSET Uploads!LicenceDeal, company : BOOLEAN]
      /\ renewal[d].primary \subseteq renewal[d].links
      /\ d \notin raced.deals => OnePrimary(d)
  BY DEF RenewalsInv, RenewalTypes, DealFits
<1>2. ASSUME NEW s \in {"open", "closed", "deleted"}, Uploads!Live(d),
             renewal' = [renewal EXCEPT ![d].status = s],
             UNCHANGED <<company, customer, group, task, calls, upload, raced>>
      PROVE  RenewalsInv'
  <2> DEFINE x == [renewal[d] EXCEPT !.status = s]
  <2>1. /\ x \in LinkRow /\ x.status = s /\ x.links = renewal[d].links /\ x.primary = renewal[d].primary
        /\ renewal' = [renewal EXCEPT ![d] = x]
    BY <1>1, <1>2 DEF LinkRow
  <2> HIDE DEF x
  <2>2. DealWritten(d, x)
    BY <1>1, <1>2, <2>1 DEF DealWritten, Uploads!Live, OnePrimary
  <2> QED BY <2>1, <2>2, DealWrittenInv
<1>3. CASE Uploads!TransitionDealStage(d)
  <2>1. renewal' = [renewal EXCEPT ![d].status = IF renewal[d].status = "open" THEN "closed" ELSE "open"]
    BY <1>1, <1>3 DEF Uploads!TransitionDealStage
  <2> QED BY <1>2, <1>3, <2>1 DEF Uploads!TransitionDealStage
<1>4. CASE Uploads!DeleteDeal(d)
  BY <1>2, <1>4 DEF Uploads!DeleteDeal
<1>5. ASSUME NEW links \in {{}} \cup {{c} : c \in {k \in Uploads!Contact : customer[k].live}},
             Uploads!UpdateDealContacts(d, links, links)
      PROVE  RenewalsInv'
  <2> DEFINE x == [renewal[d] EXCEPT !.links = links, !.primary = links]
             D == IF Uploads!Busy = {} THEN raced.deals ELSE raced.deals \cup {d}
  <2>1. links = {} \/ \E c \in Uploads!Contact : links = {c}
    OBVIOUS
  <2>2. /\ x \in LinkRow /\ x.status = renewal[d].status /\ x.links = links /\ x.primary = links
        /\ renewal' = [renewal EXCEPT ![d] = x]
    BY <1>1, <1>5, <2>1, Zenon DEF LinkRow, Uploads!UpdateDealContacts
  <2>3. raced' = [raced EXCEPT !.deals = D]
    BY <1>1, <1>5, Zenon DEF Uploads!UpdateDealContacts
  <2>4. /\ raced' \in [groups : SUBSET Group, deals : SUBSET Uploads!LicenceDeal, company : BOOLEAN]
        /\ raced'.groups = raced.groups /\ raced'.company = raced.company
        /\ raced.deals \subseteq raced'.deals /\ (d \notin raced'.deals => Uploads!Busy = {})
    BY <1>1, <2>3
  <2> HIDE DEF x, D
  <2>5. DealWritten(d, x)
    BY <1>5, <2>1, <2>2, <2>4 DEF DealWritten, Uploads!UpdateDealContacts, Uploads!Live
  <2> QED BY <2>2, <2>5, DealWrittenInv
<1> QED BY <1>3, <1>4, <1>5

LEMMA FailUploadInv ==
    ASSUME RenewalsInv, NEW u \in Upload, Uploads!FailUpload(u)
    PROVE  RenewalsInv'
<1> DEFINE x == [Uploads!NoUpload EXCEPT !.stage = "ended"]
<1>1. x \in UploadRow /\ x.stage = "ended"
  BY NoUploadIs
<1>2. upload' = [upload EXCEPT ![u] = x] /\ upload[u].stage # "ended"
  BY DEF Uploads!FailUpload, Uploads!Ends, Uploads!Proceeds, Uploads!Busy, Uploads!Stage
<1> HIDE DEF x
<1>3. UploadReads(u, x)
  BY <1>1, <1>2 DEF UploadReads, Uploads!FailUpload, Uploads!rows
<1>4. upload'[u].stage = "ended"
  BY <1>1, <1>2 DEF RenewalsInv, RenewalTypes
<1>5. UploadFits(u)'
  BY <1>4 DEF UploadFits
<1> QED BY <1>1, <1>3, <1>5, UploadReadsInv

LEMMA ReadCompanyInv ==
    ASSUME RenewalsInv, NEW u \in Upload, NEW file \in File, Uploads!ReadCompany(u, file)
    PROVE  RenewalsInv'
<1> DEFINE clusters == Uploads!Clusters(Uploads!SetToSeq(file))
           o == IF company = {} THEN u ELSE CHOOSE k \in company : TRUE
           matches == [k \in clusters |->
                          IF Uploads!Cardinality(company) = 1 THEN Uploads!Matching(o, k) ELSE {}]
           error == \/ Uploads!Cardinality(company) > 1
                    \/ \E k \in clusters : Uploads!Cardinality(matches[k]) > 1
           x == [Uploads!NoUpload EXCEPT !.stage = "company", !.file = file, !.company = o,
                                         !.matches = matches, !.error = error]
<1>1. /\ upload' = [upload EXCEPT ![u] = x] /\ upload[u].stage = "none"
      /\ UNCHANGED <<company, customer, renewal, group, task, calls, raced>>
  BY DEF Uploads!ReadCompany, Uploads!Proceeds, Uploads!Stage, Uploads!rows
<1>2. clusters \in SUBSET Cluster
  <2>1. IsFiniteSet(file)
    BY RenewalsAssumption
  <2>2. /\ IsFiniteSet(DOMAIN Uploads!SetToSeq(file))
        /\ \A i \in DOMAIN Uploads!SetToSeq(file) :
              Uploads!SetToSeq(file)[i].addresses \in (SUBSET Uploads!Address) \ {{}}
    BY <2>1, TableSequence, AddressesAre
  <2> QED BY <2>2, ClustersAre DEF Cluster
<1>3. o \in Uploads!Company /\ (o = u => company = {} \/ u \in company)
  BY DEF RenewalsInv, RenewalTypes, Uploads!Company
<1> HIDE DEF clusters, o
<1>4. matches \in [clusters -> SUBSET Uploads!Contact]
  BY DEF Uploads!Matching
<1>5. matches \in Matches
  BY <1>2, <1>4 DEF Matches
<1>6. error \in BOOLEAN
  OBVIOUS
<1> HIDE DEF matches, error
<1>7. x \in UploadRow /\ x.stage = "company" /\ x.company = o
  BY <1>3, <1>5, <1>6, NoUploadIs DEF UploadRow
<1>8. o = u => company = {}
  BY <1>1, <1>3, RenewalsAssumption DEF RenewalsInv, CompanyFits
<1> HIDE DEF x
<1>9. x \in UploadRow /\ UploadReads(u, x)
  BY <1>1, <1>7, <1>8 DEF UploadReads
<1>10. upload'[u].stage = "company"
  BY <1>1, <1>7 DEF RenewalsInv, RenewalTypes
<1>11. UploadFits(u)'
  BY <1>10 DEF UploadFits
<1> QED BY <1>9, <1>11, UploadReadsInv

LEMMA ReadGroupsInv ==
    ASSUME RenewalsInv, NEW u \in Upload, Uploads!ReadGroups(u)
    PROVE  RenewalsInv'
<1> DEFINE G == Uploads!GroupsOf(u)
           found == [g \in G |-> IF Uploads!Live(group[g]) THEN renewal[group[g]] ELSE Uploads!NoDeal]
           called == {g \in G : task[g] \in calls[g]}
           x == [upload[u] EXCEPT !.stage = "groups", !.found = found, !.called = called,
                                  !.at = group, !.taskAt = task]
<1>1. /\ upload' = [upload EXCEPT ![u] = x] /\ upload[u].stage = "company"
      /\ UNCHANGED <<company, customer, renewal, group, task, calls, raced>>
  BY DEF Uploads!ReadGroups, Uploads!Proceeds, Uploads!Stage, Uploads!rows
<1>2. /\ upload[u] \in UploadRow /\ G \in SUBSET Group
      /\ group \in [Group -> Uploads!LicenceDeal \cup {None}] /\ task \in [Group -> Upload \cup {None}]
      /\ renewal \in [Uploads!LicenceDeal -> LinkRow] /\ upload \in [Upload -> UploadRow]
  BY ReadsAre DEF RenewalsInv, RenewalTypes
<1>3. /\ x.stage = "groups" /\ x.file = upload[u].file /\ x.company = upload[u].company
      /\ x.found = found /\ x.called = called /\ x.at = group /\ x.taskAt = task
  BY <1>2 DEF UploadRow
<1>4. found \in Found
  <2>1. Uploads!NoDeal \in LinkRow
    BY DEF Uploads!NoDeal, LinkRow
  <2>2. found \in [G -> LinkRow]
    BY <1>2, <2>1 DEF Uploads!Live
  <2> QED BY <1>2, <2>2 DEF Found
<1>5. called \in SUBSET Group
  BY <1>2
<1>6. \A g \in G : found[g] = IF Uploads!Live(group[g]) THEN renewal[group[g]] ELSE Uploads!NoDeal
  OBVIOUS
<1>7. \A g \in G : g \notin called => task[g] \notin calls[g]
  OBVIOUS
<1>8. DOMAIN found = G
  OBVIOUS
<1> HIDE DEF found, called
<1>9. x \in UploadRow
  BY <1>2, <1>4, <1>5 DEF UploadRow
<1> HIDE DEF x, G
<1>10. UploadReads(u, x)
  BY <1>1, <1>3 DEF UploadReads, RenewalsInv, CompanyFits, Uploads!Busy, Uploads!Stage
<1>11. upload'[u] = x /\ \A v \in Upload : upload[v].stage = "ended" => upload'[v].stage = "ended"
  BY <1>1, <1>2
<1>12. Uploads!GroupsOf(u)' = G
  BY <1>3, <1>11 DEF Uploads!GroupsOf, G
<1>13. ASSUME NEW g \in G PROVE ReadFits(u, g)'
  <2>1. GroupFits(g) /\ g \in Group
    BY <1>2 DEF RenewalsInv
  <2>2. group[g] # None => renewal[group[g]] \in LinkRow
    BY <1>2, <2>1
  <2>3. found[g] = Uploads!NoDeal => group[g] = None \/ renewal[group[g]].status = "deleted"
    BY <1>6, <2>1, <2>2 DEF GroupFits, Uploads!Live, Uploads!NoDeal, LinkRow
  <2>4. found[g] # Uploads!NoDeal => group[g] # None /\ found[g] = renewal[group[g]]
    BY <1>6 DEF Uploads!Live
  <2>5. task[g] # None => upload'[task[g]].stage = "ended"
    BY <1>2, <1>11, <2>1 DEF GroupFits
  <2>6. group[g] # None => group[g][2] = g /\ renewal[group[g]].status # "none"
    BY <2>1 DEF GroupFits
  <2>7. upload'[u].at = group /\ upload'[u].found = found /\ upload'[u].taskAt = task
            /\ upload'[u].called = called
    BY <1>3, <1>11
  <2>8. renewal' = renewal /\ raced' = raced /\ calls' = calls
    BY <1>1
  <2> QED BY <1>7, <2>3, <2>4, <2>5, <2>6, <2>7, <2>8 DEF ReadFits
<1>14. UploadFits(u)'
  BY <1>3, <1>8, <1>11, <1>12, <1>13 DEF UploadFits
<1> QED BY <1>9, <1>10, <1>14, UploadReadsInv

LEMMA ReadMappingsInv ==
    ASSUME RenewalsInv, NEW u \in Upload, Uploads!ReadMappings(u)
    PROVE  RenewalsInv'
<1> DEFINE known == {g \in Group : group[g] # None}
           knownTask == {g \in Group : task[g] # None}
           x == [upload[u] EXCEPT !.stage = "mappings", !.known = known, !.knownTask = knownTask]
<1>1. /\ upload' = [upload EXCEPT ![u] = x] /\ upload[u].stage = "groups"
      /\ UNCHANGED <<company, customer, renewal, group, task, calls, raced>>
  BY DEF Uploads!ReadMappings, Uploads!Proceeds, Uploads!Stage, Uploads!rows
<1>2. upload[u] \in UploadRow /\ upload \in [Upload -> UploadRow]
  BY DEF RenewalsInv, RenewalTypes
<1>3. known \in SUBSET Group /\ knownTask \in SUBSET Group
  OBVIOUS
<1> HIDE DEF known, knownTask
<1>4. /\ x.stage = "mappings" /\ x.file = upload[u].file /\ x.company = upload[u].company
      /\ x.found = upload[u].found /\ x.called = upload[u].called /\ x.at = upload[u].at
      /\ x.taskAt = upload[u].taskAt
  BY <1>2 DEF UploadRow
<1>5. x \in UploadRow
  BY <1>2, <1>3 DEF UploadRow
<1> HIDE DEF x
<1>6. UploadReads(u, x)
  BY <1>1, <1>4 DEF UploadReads, RenewalsInv, CompanyFits, Uploads!Busy, Uploads!Stage
<1>7. upload'[u] = x /\ \A v \in Upload : upload[v].stage = "ended" => upload'[v].stage = "ended"
  BY <1>1, <1>2
<1>8. Uploads!GroupsOf(u)' = Uploads!GroupsOf(u)
  BY <1>4, <1>7 DEF Uploads!GroupsOf
<1>9. ASSUME NEW g \in Uploads!GroupsOf(u) PROVE ReadFits(u, g)'
  <2>1. ReadFits(u, g) /\ upload[u].taskAt[g] \in Upload \cup {None}
    BY <1>1, ReadsAre DEF RenewalsInv, UploadFits, UploadRow
  <2>2. renewal' = renewal /\ raced' = raced /\ calls' = calls
    BY <1>1
  <2> QED BY <1>4, <1>7, <2>1, <2>2 DEF ReadFits
<1>10. UploadFits(u)'
  BY <1>1, <1>4, <1>7, <1>8, <1>9 DEF UploadFits, RenewalsInv
<1> QED BY <1>5, <1>6, <1>10, UploadReadsInv

-------------------------------------------------------------------------------
(* What an upload that has read everything writes. *)
LEMMA ToWrite ==
    ASSUME RenewalsInv, NEW u \in Upload, upload[u].stage = "mappings"
    PROVE  /\ Uploads!Written(u) \subseteq Group /\ Uploads!Called(u) \subseteq Uploads!Written(u)
           /\ \A g \in Uploads!Written(u) :
                 /\ ReadFits(u, g) /\ g \in Uploads!GroupsOf(u)
                 /\ Uploads!DealOf(u, g) \in Uploads!LicenceDeal /\ Uploads!DealOf(u, g)[2] = g
                 /\ upload[u].found[g] = Uploads!NoDeal => renewal[Uploads!DealOf(u, g)] = Uploads!NoDeal
                 /\ upload[u].found[g] # Uploads!NoDeal => renewal[Uploads!DealOf(u, g)].status # "none"
                 /\ Uploads!Added(u, g) \subseteq Uploads!Contact
           /\ u \in Uploads!Busy
<1>1. Uploads!Written(u) \subseteq Uploads!GroupsOf(u) /\ Uploads!Called(u) \subseteq Uploads!Written(u)
  BY DEF Uploads!Written, Uploads!Called
<1>2. upload[u] \in UploadRow /\ Uploads!GroupsOf(u) \subseteq Group
  BY ReadsAre DEF RenewalsInv
<1>3. \A g \in Uploads!GroupsOf(u) : ReadFits(u, g)
  BY DEF RenewalsInv, UploadFits
<1>4. ASSUME NEW g \in Uploads!Written(u)
      PROVE  /\ Uploads!DealOf(u, g) \in Uploads!LicenceDeal /\ Uploads!DealOf(u, g)[2] = g
             /\ upload[u].found[g] = Uploads!NoDeal => renewal[Uploads!DealOf(u, g)] = Uploads!NoDeal
             /\ upload[u].found[g] # Uploads!NoDeal => renewal[Uploads!DealOf(u, g)].status # "none"
  <2>1. ReadFits(u, g) /\ g \in Group /\ upload[u].at[g] \in Uploads!LicenceDeal \cup {None}
    BY <1>1, <1>2, <1>3 DEF UploadRow
  <2>2. CASE upload[u].found[g] = Uploads!NoDeal
    <3>1. Uploads!DealOf(u, g) = <<u, g>> /\ <<u, g>> \in Uploads!LicenceDeal
      BY <2>1, <2>2 DEF Uploads!DealOf, Uploads!LicenceDeal
    <3>2. DealFits(<<u, g>>)
      BY <3>1 DEF RenewalsInv
    <3>3. renewal[<<u, g>>] = Uploads!NoDeal
      BY <3>2 DEF DealFits
    <3> QED BY <2>2, <3>1, <3>3
  <2>3. CASE upload[u].found[g] # Uploads!NoDeal
    BY <2>1, <2>3 DEF ReadFits, Uploads!DealOf
  <2> QED BY <2>2, <2>3
<1>5. ASSUME NEW g \in Uploads!Written(u) PROVE Uploads!Added(u, g) \subseteq Uploads!Contact
  <2>1. PICK K \in SUBSET Cluster : upload[u].matches \in [K -> SUBSET Uploads!Contact]
    BY <1>2 DEF UploadRow, Matches
  <2>2. ASSUME NEW k \in K PROVE Uploads!ContactOf(u, k) \in Uploads!Contact
    <3>1. <<u, k>> \in Uploads!Contact
      BY DEF Uploads!Contact, Cluster
    <3>2. k \notin Uploads!Unmatched(u) => upload[u].matches[k] # {}
      BY <2>1 DEF Uploads!Unmatched
    <3> QED BY <2>1, <3>1, <3>2 DEF Uploads!ContactOf
  <2> QED BY <2>1, <2>2 DEF Uploads!Added
<1>6. u \in Uploads!Busy
  BY DEF Uploads!Busy, Uploads!Stage
<1> QED BY <1>1, <1>2, <1>3, <1>4, <1>5, <1>6

(* The deals of its groups are opened, or linked to more contacts. *)
LEMMA CommitDeals ==
    ASSUME RenewalsInv, NEW u \in Upload, upload[u].stage = "mappings", Uploads!WriteDeals(u)
    PROVE  /\ renewal' \in [Uploads!LicenceDeal -> LinkRow]
           /\ \A d \in Uploads!LicenceDeal :
                 ~(d[2] \in Uploads!Written(u) /\ Uploads!DealOf(u, d[2]) = d) => renewal'[d] = renewal[d]
           /\ \A d \in Uploads!LicenceDeal :
                 d[2] \in Uploads!Written(u) /\ Uploads!DealOf(u, d[2]) = d =>
                    /\ renewal'[d].status = IF renewal[d] = Uploads!NoDeal THEN "open"
                           ELSE renewal[d].status
                    /\ renewal'[d].status # "none"
                    /\ renewal'[d].primary \subseteq renewal'[d].links
                    /\ d \notin raced.deals => OnePrimary(d)'
<1> DEFINE W == Uploads!Written(u)
           Open(g) == Uploads!Added(u, g) # {} /\ upload[u].found[g].primary = {}
           New(d, first) ==
               [status |-> IF renewal[d] = Uploads!NoDeal THEN "open" ELSE renewal[d].status,
                links |-> renewal[d].links \cup Uploads!Added(u, d[2]),
                primary |-> renewal[d].primary \cup IF d[2] \in DOMAIN first THEN {first[d[2]]} ELSE {}]
<1>1. PICK first \in [{g \in W : Open(g)} -> Uploads!Contact] :
         /\ \A g \in DOMAIN first : first[g] \in Uploads!Added(u, g)
         /\ renewal' = [d \in Uploads!LicenceDeal |-> IF \E g \in W : Uploads!DealOf(u, g) = d THEN New(d, first)
                                               ELSE renewal[d]]
  BY DEF Uploads!WriteDeals
<1>2. \A d \in Uploads!LicenceDeal :
         (\E g \in W : Uploads!DealOf(u, g) = d) <=> d[2] \in W /\ Uploads!DealOf(u, d[2]) = d
  BY ToWrite
<1>3. \A d \in Uploads!LicenceDeal :
         renewal'[d] = IF d[2] \in W /\ Uploads!DealOf(u, d[2]) = d THEN New(d, first) ELSE renewal[d]
  BY <1>1, <1>2
<1>4. renewal \in [Uploads!LicenceDeal -> LinkRow]
  BY DEF RenewalsInv, RenewalTypes
<1>5. ASSUME NEW d \in Uploads!LicenceDeal, d[2] \in W, Uploads!DealOf(u, d[2]) = d
      PROVE  /\ New(d, first) \in LinkRow
             /\ New(d, first).status = IF renewal[d] = Uploads!NoDeal THEN "open" ELSE renewal[d].status
             /\ New(d, first).status # "none"
             /\ New(d, first).primary \subseteq New(d, first).links
             /\ d \notin raced.deals =>
                   IF New(d, first).links = {} THEN New(d, first).primary = {}
                   ELSE \E c \in Uploads!Contact : New(d, first).primary = {c}
  <2> DEFINE A == Uploads!Added(u, d[2])
             P == IF d[2] \in DOMAIN first THEN {first[d[2]]} ELSE {}
             L == renewal[d].links \cup A
             R == renewal[d].primary \cup P
             s == IF renewal[d] = Uploads!NoDeal THEN "open" ELSE renewal[d].status
  <2>1. DealFits(d) /\ renewal[d] \in LinkRow
    BY <1>4 DEF RenewalsInv
  <2>2. /\ A \in SUBSET Uploads!Contact /\ ReadFits(u, d[2])
        /\ upload[u].found[d[2]] = Uploads!NoDeal => renewal[d] = Uploads!NoDeal
        /\ upload[u].found[d[2]] # Uploads!NoDeal => d = upload[u].at[d[2]]
    <3>1. /\ A \subseteq Uploads!Contact /\ ReadFits(u, d[2])
          /\ upload[u].found[d[2]] = Uploads!NoDeal => renewal[d] = Uploads!NoDeal
      BY <1>5, ToWrite
    <3>2. upload[u].found[d[2]] # Uploads!NoDeal => d = upload[u].at[d[2]]
      BY <1>5 DEF Uploads!DealOf
    <3> QED BY <3>1, <3>2
  <2>3. /\ P = {} \/ \E c \in A : P = {c}
        /\ P # {} <=> A # {} /\ upload[u].found[d[2]].primary = {}
    BY <1>1, <1>5
  <2>4. New(d, first) = [status |-> s, links |-> L, primary |-> R]
    OBVIOUS
  <2>5. s \in {"open", "closed", "deleted"}
    BY <2>1 DEF DealFits, LinkRow
  <2>6. d \notin raced.deals => upload[u].found[d[2]].primary = renewal[d].primary
    BY <2>2 DEF ReadFits
  <2> HIDE DEF A, P, s
  <2>7. L \in SUBSET Uploads!Contact /\ R \in SUBSET Uploads!Contact /\ R \subseteq L
    BY <2>1, <2>2, <2>3 DEF LinkRow, DealFits
  <2>8. d \notin raced.deals => IF L = {} THEN R = {} ELSE \E c \in Uploads!Contact : R = {c}
    <3> SUFFICES ASSUME d \notin raced.deals
                 PROVE IF L = {} THEN R = {} ELSE \E c \in Uploads!Contact : R = {c}
      OBVIOUS
    <3>1. IF renewal[d].links = {} THEN renewal[d].primary = {}
          ELSE \E c \in Uploads!Contact : renewal[d].primary = {c}
      BY <2>1 DEF DealFits, OnePrimary
    <3>2. P # {} <=> A # {} /\ renewal[d].primary = {}
      BY <2>3, <2>6
    <3>3. P = {} \/ \E c \in Uploads!Contact : P = {c}
      BY <2>2, <2>3
    <3>4. CASE P = {}
      BY <3>1, <3>2, <3>4
    <3>5. CASE P # {}
      BY <3>1, <3>2, <3>3, <3>5
    <3> QED BY <3>4, <3>5
  <2> HIDE DEF L, R, New
  <2> QED BY <2>4, <2>5, <2>7, <2>8 DEF LinkRow, s
<1> HIDE DEF New, W
<1>6. renewal' \in [Uploads!LicenceDeal -> LinkRow]
  <2>1. \A d \in Uploads!LicenceDeal : renewal'[d] \in LinkRow
    BY <1>3, <1>4, <1>5
  <2>2. renewal' = [d \in Uploads!LicenceDeal |-> renewal'[d]]
    BY <1>1
  <2> QED BY <2>1, <2>2
<1> QED BY <1>3, <1>5, <1>6 DEF OnePrimary, W

LEMMA CommitImportInv ==
    ASSUME RenewalsInv, NEW u \in Upload, Uploads!Commit(u)
    PROVE  RenewalsInv'
<1> DEFINE W == Uploads!Written(u)
           C == Uploads!Called(u)
           At(g) == Uploads!DealOf(u, g)
           Is(d) == d[2] \in W /\ At(d[2]) = d
<1>1. /\ upload[u].stage = "mappings" /\ ~Uploads!Conflicts(u) /\ Uploads!WriteDeals(u)
      /\ company' = IF upload[u].company = u THEN company \cup {u} ELSE company
      /\ group' = [g \in Group |-> IF g \in W THEN At(g) ELSE group[g]]
      /\ task' = [g \in Group |-> IF g \in C THEN u ELSE task[g]]
      /\ calls' = [g \in Group |-> IF g \in C THEN calls[g] \cup {u} ELSE calls[g]]
      /\ upload' = [upload EXCEPT ![u] = [Uploads!NoUpload EXCEPT !.stage = "ended"]]
  BY DEF Uploads!Commit, Uploads!Ends, Uploads!Proceeds, Uploads!Stage
<1>2. /\ W \subseteq Group /\ C \subseteq W /\ u \in Uploads!Busy
      /\ \A g \in W : /\ ReadFits(u, g) /\ g \in Uploads!GroupsOf(u)
                      /\ At(g) \in Uploads!LicenceDeal /\ At(g)[2] = g
  BY <1>1, ToWrite
<1>3. /\ renewal' \in [Uploads!LicenceDeal -> LinkRow]
      /\ \A d \in Uploads!LicenceDeal : ~Is(d) => renewal'[d] = renewal[d]
      /\ \A d \in Uploads!LicenceDeal : Is(d) =>
            /\ renewal'[d].status = IF renewal[d] = Uploads!NoDeal THEN "open" ELSE renewal[d].status
            /\ renewal'[d].status # "none"
            /\ renewal'[d].primary \subseteq renewal'[d].links
            /\ d \notin raced.deals => OnePrimary(d)'
  BY <1>1, CommitDeals
<1>4. /\ upload' \in [Upload -> UploadRow] /\ upload'[u].stage = "ended"
      /\ \A v \in Upload : v # u => upload'[v] = upload[v]
      /\ \A v \in Upload : upload[v].stage = "ended" => upload'[v].stage = "ended"
  BY <1>1, NoUploadIs DEF RenewalsInv, RenewalTypes
<1>5. /\ group' \in [Group -> Uploads!LicenceDeal \cup {None}] /\ task' \in [Group -> Upload \cup {None}]
      /\ calls' \in [Group -> SUBSET Upload]
  BY <1>1, <1>2 DEF RenewalsInv, RenewalTypes
<1>6. /\ raced' \in [groups : SUBSET Group, deals : SUBSET Uploads!LicenceDeal, company : BOOLEAN]
      /\ raced.groups \subseteq raced'.groups /\ raced.deals \subseteq raced'.deals
      /\ \A g \in W : upload[u].at[g] # group[g] /\ g \in upload[u].known => g \in raced'.groups
      /\ \A g \in C : upload[u].taskAt[g] # task[g] /\ g \in upload[u].knownTask => g \in raced'.groups
      /\ Uploads!Busy # {u} => \A g \in W : At(g) \in raced'.deals
      /\ raced'.company = (raced.company \/ (upload[u].company = u /\ Uploads!Busy # {u}))
  <2> DEFINE G == raced.groups
                     \cup {g \in W : upload[u].at[g] # group[g] /\ g \in upload[u].known}
                     \cup {g \in C : upload[u].taskAt[g] # task[g] /\ g \in upload[u].knownTask}
             D == IF Uploads!Busy = {u} THEN raced.deals ELSE raced.deals \cup {At(g) : g \in W}
             B == raced.company \/ (upload[u].company = u /\ Uploads!Busy # {u})
  <2>1. raced \in [groups : SUBSET Group, deals : SUBSET Uploads!LicenceDeal, company : BOOLEAN]
    BY DEF RenewalsInv, RenewalTypes
  <2>2. raced' = [raced EXCEPT !.groups = G, !.deals = D, !.company = B]
    BY DEF Uploads!Commit
  <2>3. G \in SUBSET Group /\ D \in SUBSET Uploads!LicenceDeal /\ B \in BOOLEAN
    BY <1>2, <2>1
  <2>4. /\ raced.groups \subseteq G /\ raced.deals \subseteq D
        /\ \A g \in W : upload[u].at[g] # group[g] /\ g \in upload[u].known => g \in G
        /\ \A g \in C : upload[u].taskAt[g] # task[g] /\ g \in upload[u].knownTask => g \in G
        /\ Uploads!Busy # {u} => \A g \in W : At(g) \in D
    OBVIOUS
  <2> HIDE DEF G, D, B
  <2>5. /\ raced' \in [groups : SUBSET Group, deals : SUBSET Uploads!LicenceDeal, company : BOOLEAN]
        /\ raced'.groups = G /\ raced'.deals = D /\ raced'.company = B
    BY <2>1, <2>2, <2>3
  <2> QED BY <2>4, <2>5 DEF B
<1>7. /\ \A g \in W : g \in upload[u].known \/ group[g] = None
      /\ \A g \in C : g \in upload[u].knownTask \/ task[g] = None
  BY <1>1 DEF Uploads!Conflicts
<1>8. \A g \in W : g \notin C => g \in upload[u].called
  BY DEF Uploads!Called
<1>9. \A g \in C : g \notin upload[u].called
  BY DEF Uploads!Called
<1>10. customer' \in [Uploads!Contact -> [live : BOOLEAN, company : Uploads!Company \cup {None},
                                          addresses : SUBSET Uploads!Address]]
  <2> DEFINE Person == [live : BOOLEAN, company : Uploads!Company \cup {None},
                 addresses : SUBSET Uploads!Address]
  <2>1. PICK made \in SUBSET Uploads!Unmatched(u) : Uploads!WriteContacts(u, made)
    BY DEF Uploads!Commit
  <2>2. /\ customer \in [Uploads!Contact -> Person]
        /\ upload[u].company \in Uploads!Company /\ DOMAIN upload[u].matches \subseteq Cluster
    <3>1. upload[u] \in UploadRow
      BY DEF RenewalsInv, RenewalTypes
    <3>2. upload[u].matches \in Matches
      BY <3>1 DEF UploadRow
    <3>3. DOMAIN upload[u].matches \subseteq Cluster
      BY <3>2 DEF Matches
    <3> QED BY <3>1, <3>3 DEF RenewalsInv, RenewalTypes, UploadRow
  <2> DEFINE merged(c) == {k \in DOMAIN upload[u].matches : upload[u].matches[k] = {c}}
             made_(c) == [live |-> TRUE, company |-> upload[u].company, addresses |-> c[2]]
             kept_(c) == [customer[c] EXCEPT !.addresses = customer[c].addresses \cup UNION merged(c)]
  <2>3. customer' = [c \in Uploads!Contact |->
            IF \E k \in made : c = <<u, k>> THEN made_(c) ELSE kept_(c)]
    BY <2>1 DEF Uploads!WriteContacts
  <2>4. ASSUME NEW c \in Uploads!Contact PROVE made_(c) \in Person /\ kept_(c) \in Person
    <3>1. c[2] \in SUBSET Uploads!Address
      BY DEF Uploads!Contact
    <3>2. UNION merged(c) \in SUBSET Uploads!Address
      BY <2>2 DEF Cluster
    <3> QED BY <2>2, <3>1, <3>2
  <2> HIDE DEF made_, kept_, Person
  <2>5. customer' \in [Uploads!Contact -> Person]
    BY <2>3, <2>4
  <2> QED BY <2>5 DEF Person
<1> HIDE DEF W, C, At
<1>11. RenewalTypes'
  <2>1. company' \subseteq Uploads!Company
    BY <1>1 DEF RenewalsInv, RenewalTypes, Uploads!Company
  <2> QED BY <1>3, <1>4, <1>5, <1>6, <1>10, <2>1 DEF RenewalTypes
<1>12. CompanyFits'
  <2>1. CompanyFits /\ company \subseteq Upload \cup {0}
    BY DEF RenewalsInv, RenewalTypes, Uploads!Company, Uploads!Manual
  <2>2. \A o \in company' \ {0} : upload'[o].stage = "ended"
    BY <1>1, <1>4, <2>1 DEF CompanyFits
  <2>3. \A v \in Upload : v \in Uploads!Busy' <=> v \in Uploads!Busy /\ v # u
    BY <1>2, <1>4 DEF Uploads!Busy, Uploads!Stage
  <2>4. Uploads!Busy' \subseteq Upload /\ \A v \in Uploads!Busy' : upload'[v] = upload[v]
    BY <1>4, <2>3 DEF Uploads!Busy
  <2>5. ASSUME ~raced'.company
        PROVE  /\ \A a, b \in company' \ {0} : a = b
               /\ \A v \in Uploads!Busy' : upload'[v].company = v => company' \subseteq {0}
    <3>1. ~raced.company /\ (upload[u].company = u => Uploads!Busy = {u})
      BY <1>6, <2>5
    <3>2. CASE upload[u].company = u
      <4>1. company' = company \cup {u} /\ company \subseteq {0}
        BY <1>1, <1>2, <2>1, <3>1, <3>2 DEF CompanyFits
      <4>2. Uploads!Busy' = {}
        BY <2>3, <2>4, <3>1, <3>2
      <4> QED BY <4>1, <4>2
    <3>3. CASE upload[u].company # u
      <4>1. company' = company
        BY <1>1, <3>3
      <4> QED BY <2>1, <2>3, <2>4, <3>1, <4>1 DEF CompanyFits
    <3> QED BY <3>2, <3>3
  <2> QED BY <2>2, <2>5 DEF CompanyFits
<1>13. ASSUME NEW g \in Group PROVE GroupFits(g)'
  <2>1. GroupFits(g) /\ group[g] \in Uploads!LicenceDeal \cup {None} /\ task[g] \in Upload \cup {None}
    BY DEF RenewalsInv, RenewalTypes
  <2>2. \A d \in Uploads!LicenceDeal : renewal[d].status # "none" => renewal'[d].status # "none"
    BY <1>3
  <2>3. \A d \in Uploads!LicenceDeal : ~Is(d) /\ renewal'[d].status \in {"open", "closed"}
                                   => renewal[d].status \in {"open", "closed"}
    BY <1>3
  <2>4. CASE g \in W
    <3>1. /\ group'[g] = At(g) /\ At(g)[2] = g /\ At(g) \in Uploads!LicenceDeal
                 /\ renewal'[At(g)].status # "none"
      BY <1>1, <1>2, <1>3, <2>4
    <3>2. task'[g] # None => upload'[task'[g]].stage = "ended"
      BY <1>1, <1>4, <2>1 DEF GroupFits
    <3>3. ASSUME g \notin raced'.groups, NEW d \in Uploads!LicenceDeal, d[2] = g, Uploads!Live(d)'
          PROVE  group'[g] = d
      <4> SUFFICES ASSUME d # At(g) PROVE FALSE
        BY <3>1
      <4>1. renewal[d].status \in {"open", "closed"} /\ d # None
        BY <1>3, <2>3, <3>3, DealsAre DEF Uploads!Live
      <4>2. group[g] = d
        BY <1>6, <2>1, <3>3, <4>1 DEF GroupFits, Uploads!Live
      <4>3. upload[u].at[g] = d
        BY <1>6, <1>7, <2>4, <3>3, <4>1, <4>2
      <4>4. ReadFits(u, g)
        BY <1>2, <2>4
      <4>5. upload[u].found[g] # Uploads!NoDeal
        BY <4>1, <4>3, <4>4 DEF ReadFits
      <4> QED BY <4>3, <4>5 DEF Uploads!DealOf, At
    <3>4. ASSUME g \notin raced'.groups, NEW v \in calls'[g] PROVE task'[g] = v
      <4>1. CASE g \in C
        <5>1. task'[g] = u /\ calls'[g] = calls[g] \cup {u}
          BY <1>1, <4>1
        <5>2. v \notin calls[g]
          <6> SUFFICES ASSUME v \in calls[g] PROVE FALSE
            OBVIOUS
          <6>1. task[g] = v /\ v # None
            BY <1>6, <2>1, <3>4, RenewalsAssumption DEF GroupFits, RenewalsInv, RenewalTypes
          <6>2. upload[u].taskAt[g] = v
            BY <1>6, <1>7, <3>4, <4>1, <6>1
          <6>3. ReadFits(u, g)
            BY <1>2, <2>4
          <6> QED BY <1>9, <4>1, <6>2, <6>3 DEF ReadFits
        <5> QED BY <5>1, <5>2
      <4>2. CASE g \notin C
        BY <1>1, <1>6, <2>1, <3>4, <4>2 DEF GroupFits
      <4> QED BY <4>1, <4>2
    <3> QED BY <3>1, <3>2, <3>3, <3>4 DEF GroupFits
  <2>5. CASE g \notin W
    <3>1. group'[g] = group[g] /\ task'[g] = task[g] /\ calls'[g] = calls[g]
      BY <1>1, <1>2, <2>5
    <3>2. \A d \in Uploads!LicenceDeal : d[2] = g => ~Is(d)
      BY <2>5
    <3>3. task[g] # None => upload'[task[g]].stage = "ended"
      BY <1>4, <2>1 DEF GroupFits
    <3>4. \A d \in Uploads!LicenceDeal : d[2] = g /\ Uploads!Live(d)' => Uploads!Live(d)
      BY <2>3, <3>2 DEF Uploads!Live
    <3>5. group[g] # None => group[g][2] = g /\ renewal'[group[g]].status # "none"
      BY <2>1, <2>2 DEF GroupFits
    <3> QED BY <1>6, <2>1, <3>1, <3>3, <3>4, <3>5 DEF GroupFits
  <2> QED BY <2>4, <2>5
<1>14. ASSUME NEW d \in Uploads!LicenceDeal PROVE DealFits(d)'
  <2>1. DealFits(d) /\ d[1] \in Upload
    BY DealsAre DEF RenewalsInv
  <2>2. CASE Is(d)
    <3>1. upload'[d[1]].stage = "ended"
      <4>1. CASE upload[u].found[d[2]] = Uploads!NoDeal
        <5>1. d = <<u, d[2]>>
          BY <2>2, <4>1 DEF Uploads!DealOf, At
        <5>2. d[1] = u
          BY <5>1
        <5> QED BY <1>4, <5>2
      <4>2. CASE upload[u].found[d[2]] # Uploads!NoDeal
        <5>1. renewal[d].status # "none"
          BY <1>1, <2>2, <4>2, ToWrite DEF At, W
        <5> QED BY <1>4, <2>1, <5>1 DEF DealFits
      <4> QED BY <4>1, <4>2
    <3> QED BY <1>3, <1>6, <2>2, <3>1 DEF DealFits
  <2>3. CASE ~Is(d)
    <3>1. renewal'[d] = renewal[d]
      BY <1>3, <2>3
    <3> QED BY <1>4, <1>6, <2>1, <3>1 DEF DealFits, OnePrimary
  <2> QED BY <2>2, <2>3
<1>15. ASSUME NEW v \in Upload PROVE UploadFits(v)'
  <2>1. CASE v = u
    BY <1>4, <2>1 DEF UploadFits
  <2>2. CASE v # u
    <3>1. upload'[v] = upload[v] /\ Uploads!GroupsOf(v)' = Uploads!GroupsOf(v)
      BY <1>4, <2>2 DEF Uploads!GroupsOf
    <3> SUFFICES ASSUME upload[v].stage \in {"groups", "mappings"}
                 PROVE  \A g \in Uploads!GroupsOf(v) : ReadFits(v, g)'
      BY <3>1 DEF UploadFits, RenewalsInv
    <3> TAKE g \in Uploads!GroupsOf(v)
    <3>2. ReadFits(v, g)
      BY DEF RenewalsInv, UploadFits
    <3>3. g \in Group /\ upload[v].at[g] \in Uploads!LicenceDeal \cup {None}
              /\ upload[v].taskAt[g] \in Upload \cup {None}
      BY ReadsAre DEF RenewalsInv, UploadRow
    <3>4. Uploads!Busy # {u}
      BY <2>2 DEF Uploads!Busy, Uploads!Stage
    <3>5. ASSUME upload[v].at[g] # None
          PROVE  LET a == upload[v].at[g]
                 IN  /\ renewal[a].status # "none" => renewal'[a].status # "none"
                     /\ renewal[a].status = "deleted" => renewal'[a].status = "deleted"
                     /\ a \notin raced'.deals => /\ a \notin raced.deals
                                                 /\ renewal'[a].links = renewal[a].links
                                                 /\ renewal'[a].primary = renewal[a].primary
      <4> DEFINE a == upload[v].at[g]
      <4>1. a \in Uploads!LicenceDeal
        BY <3>3, <3>5
      <4>2. CASE Is(a)
        BY <1>3, <1>6, <3>4, <4>1, <4>2 DEF Uploads!NoDeal
      <4>3. CASE ~Is(a)
        BY <1>3, <1>6, <4>1, <4>3
      <4> QED BY <4>2, <4>3
    <3>6. upload[v].taskAt[g] # None => upload[v].taskAt[g] # u
      BY <1>1, <3>2 DEF ReadFits
    <3>7. upload[v].taskAt[g] \notin calls[g] => upload[v].taskAt[g] \notin calls'[g]
      BY <1>1, <3>3, <3>6, RenewalsAssumption
    <3>8. upload[v].taskAt[g] # None => upload'[upload[v].taskAt[g]].stage = "ended"
      BY <1>4, <3>2, <3>3 DEF ReadFits
    <3> QED BY <3>1, <3>2, <3>5, <3>7, <3>8 DEF ReadFits
  <2> QED BY <2>1, <2>2
<1> QED BY <1>11, <1>12, <1>13, <1>14, <1>15 DEF RenewalsInv

-------------------------------------------------------------------------------
LEMMA RenewalsStep == RenewalsInv /\ [Uploads!Next]_renewalsVars => RenewalsInv'
<1> SUFFICES ASSUME RenewalsInv, [Uploads!Next]_renewalsVars PROVE RenewalsInv'
  OBVIOUS
<1>1. CASE Uploads!Next
  <2>1. CASE Uploads!UsersWork
    <3>1. CASE \/ Uploads!CreateCompany
               \/ \E o \in Uploads!Company : Uploads!DeleteCompany(o)
               \/ \E c \in Uploads!Contact : Uploads!DeleteContact(c)
      BY <3>1, PeopleInv
    <3>2. ASSUME NEW d \in Uploads!LicenceDeal,
                 \/ Uploads!TransitionDealStage(d) \/ Uploads!DeleteDeal(d)
                 \/ \E links \in {{}} \cup {{c} : c \in {k \in Uploads!Contact : customer[k].live}} :
                       Uploads!UpdateDealContacts(d, links, links)
          PROVE  RenewalsInv'
      BY <3>2, RenewalDealsInv
    <3>3. ASSUME NEW g \in Group, NEW u \in Upload, Uploads!DeleteTask(g, u) PROVE RenewalsInv'
      BY <3>3, DeleteTaskInv
    <3> QED BY <2>1, <3>1, <3>2, <3>3 DEF Uploads!UsersWork
  <2>2. ASSUME NEW u \in Upload, NEW file \in File, Uploads!ReadCompany(u, file) PROVE RenewalsInv'
    BY <2>2, ReadCompanyInv
  <2>3. ASSUME NEW u \in Upload,
               Uploads!ReadGroups(u) \/ Uploads!ReadMappings(u) \/ Uploads!Commit(u)
                   \/ Uploads!FailUpload(u)
        PROVE  RenewalsInv'
    BY <2>3, ReadGroupsInv, ReadMappingsInv, CommitImportInv, FailUploadInv
  <2> QED BY <1>1, <2>1, <2>2, <2>3 DEF Uploads!Next
<1>2. CASE UNCHANGED renewalsVars
  <2>1. PeopleOnly
    BY <1>2 DEF PeopleOnly, renewalsVars, RenewalsInv, RenewalTypes
  <2> QED BY <2>1, PeopleOnlyInv
<1> QED BY <1>1, <1>2

(* A deal is made by an upload that calls its group, or found it called. *)
LEMMA DealsAreCalled ==
    ASSUME RenewalsInv, [Uploads!Next]_renewalsVars
    PROVE  Uploads!DealsCalled
<1> SUFFICES ASSUME NEW u \in Upload, NEW g \in Group,
                    renewal[<<u, g>>] = Uploads!NoDeal, renewal'[<<u, g>>] # Uploads!NoDeal
             PROVE  u \in calls'[g] \/ g \in upload[u].called
  BY DEF Uploads!DealsCalled
<1>1. <<u, g>> \in Uploads!LicenceDeal /\ <<u, g>>[2] = g /\ renewal[<<u, g>>].status = "none"
  BY DEF Uploads!LicenceDeal, Uploads!NoDeal
<1>2. renewal # renewal'
  OBVIOUS
<1>3. ASSUME NEW d \in Uploads!LicenceDeal, Uploads!Live(d),
             \E x : renewal' = [renewal EXCEPT ![d] = x]
      PROVE  FALSE
  <2>1. <<u, g>> # d
    BY <1>1, <1>3 DEF Uploads!Live
  <2> QED BY <1>3, <2>1, <1>1 DEF RenewalsInv, RenewalTypes
<1>4. ASSUME NEW d \in Uploads!LicenceDeal,
             \/ Uploads!TransitionDealStage(d) \/ Uploads!DeleteDeal(d)
             \/ \E links \in {{}} \cup {{c} : c \in {k \in Uploads!Contact : customer[k].live}} :
                   Uploads!UpdateDealContacts(d, links, links)
      PROVE  FALSE
  <2> DEFINE r == renewal[d]
  <2>1. CASE Uploads!TransitionDealStage(d)
    <3>1. renewal' = [renewal EXCEPT ![d] =
                        [r EXCEPT !.status = IF r.status = "open" THEN "closed" ELSE "open"]]
      BY <2>1 DEF Uploads!TransitionDealStage
    <3> QED BY <1>3, <2>1, <3>1 DEF Uploads!TransitionDealStage
  <2>2. CASE Uploads!DeleteDeal(d)
    <3>1. renewal' = [renewal EXCEPT ![d] = [r EXCEPT !.status = "deleted"]]
      BY <2>2 DEF Uploads!DeleteDeal
    <3> QED BY <1>3, <2>2, <3>1 DEF Uploads!DeleteDeal
  <2>3. ASSUME NEW links, Uploads!UpdateDealContacts(d, links, links) PROVE FALSE
    <3>1. renewal' = [renewal EXCEPT ![d] = [r EXCEPT !.links = links, !.primary = links]]
      BY <2>3 DEF Uploads!UpdateDealContacts
    <3> QED BY <1>3, <2>3, <3>1 DEF Uploads!UpdateDealContacts
  <2> QED BY <1>4, <2>1, <2>2, <2>3
<1>5. ASSUME NEW v \in Upload, Uploads!Commit(v) PROVE u \in calls'[g] \/ g \in upload[u].called
  <2>1. /\ upload[v].stage = "mappings" /\ Uploads!WriteDeals(v)
        /\ calls' = [k \in Group |-> IF k \in Uploads!Called(v) THEN calls[k] \cup {v} ELSE calls[k]]
    BY <1>5 DEF Uploads!Commit, Uploads!Stage
  <2>2. g \in Uploads!Written(v) /\ Uploads!DealOf(v, g) = <<u, g>>
    BY <1>1, <2>1, CommitDeals
  <2>3. upload[v].found[g] = Uploads!NoDeal
    BY <1>1, <2>1, <2>2, ToWrite
  <2>4. v = u
    BY <2>2, <2>3 DEF Uploads!DealOf
  <2> QED BY <2>1, <2>2, <2>4 DEF Uploads!Called
<1>6. CASE Uploads!UsersWork
  BY <1>2, <1>4, <1>6 DEF Uploads!UsersWork, Uploads!CreateCompany, Uploads!DeleteCompany,
     Uploads!DeleteContact, Uploads!DeleteTask
<1>7. ASSUME NEW v \in Upload,
             (\E file \in File : Uploads!ReadCompany(v, file)) \/ Uploads!ReadGroups(v)
                \/ Uploads!ReadMappings(v) \/ Uploads!FailUpload(v)
      PROVE  FALSE
  <2>1. ASSUME NEW file \in File, Uploads!ReadCompany(v, file) PROVE FALSE
    <3>1. UNCHANGED Uploads!rows
      BY <2>1, Zenon DEF Uploads!ReadCompany
    <3> QED BY <1>2, <3>1 DEF Uploads!rows
  <2> QED BY <1>2, <1>7, <2>1 DEF Uploads!ReadGroups, Uploads!ReadMappings, Uploads!FailUpload,
          Uploads!rows
<1>8. CASE UNCHANGED renewalsVars
  BY <1>2, <1>8 DEF renewalsVars
<1> QED BY <1>5, <1>6, <1>7, <1>8 DEF Uploads!Next

LEMMA RenewalsPart == [Next]_vars => [Uploads!Next]_renewalsVars
BY DEF Next, vars, renewalsVars

LEMMA RenewalsCounted == ASSUME NEW S PROVE Uploads!Cardinality(S) = Cardinality(S)
BY DEF Uploads!Cardinality, Cardinality

LEMMA NoneOrOne ==
    ASSUME NEW S, \A a, b \in S : a = b
    PROVE  Uploads!Cardinality(S) <= 1
<1>1. CASE S = {}
  BY <1>1, FS_EmptySet, RenewalsCounted
<1>2. CASE S # {}
  <2>1. PICK a \in S : S = {a}
    BY <1>2
  <2>2. Cardinality(S) = 1
    BY <2>1, FS_Singleton
  <2> QED BY <2>2, RenewalsCounted
<1> QED BY <1>1, <1>2

LEMMA RenewalsDoHold == RenewalsInv => Uploads!RenewalsHold
<1> SUFFICES ASSUME RenewalsInv PROVE Uploads!RenewalsHold
  OBVIOUS
<1>1. ASSUME NEW g \in Group \ raced.groups
      PROVE  /\ Uploads!Cardinality({d \in Uploads!LicenceDeal : d[2] = g /\ Uploads!Live(d)}) <= 1
             /\ Uploads!Cardinality(calls[g]) <= 1
  <2>1. GroupFits(g)
    BY DEF RenewalsInv
  <2>2. \A a, b \in {d \in Uploads!LicenceDeal : d[2] = g /\ Uploads!Live(d)} : a = b
    BY <2>1 DEF GroupFits
  <2>3. \A a, b \in calls[g] : a = b
    BY <2>1 DEF GroupFits
  <2> QED BY <2>2, <2>3, NoneOrOne
<1>2. ~raced.company => Uploads!Cardinality(company \ {Uploads!Manual}) <= 1
  BY NoneOrOne DEF RenewalsInv, CompanyFits, Uploads!Manual
<1>3. ASSUME NEW d \in Uploads!LicenceDeal, d \notin raced.deals
      PROVE  Uploads!Cardinality(renewal[d].primary) = IF renewal[d].links = {} THEN 0 ELSE 1
  <2>1. OnePrimary(d)
    BY <1>3 DEF RenewalsInv, DealFits
  <2>2. CASE renewal[d].links = {}
    BY <2>1, <2>2, FS_EmptySet, RenewalsCounted DEF OnePrimary
  <2>3. CASE renewal[d].links # {}
    <3>1. PICK c : renewal[d].primary = {c}
      BY <2>1, <2>3 DEF OnePrimary
    <3>2. Cardinality({c}) = 1
      BY FS_Singleton
    <3> QED BY <2>3, <3>1, <3>2, RenewalsCounted
  <2> QED BY <2>2, <2>3
<1> QED BY <1>1, <1>2, <1>3 DEF Uploads!RenewalsHold

LEMMA RenewalTypesAre == RenewalsInv => Uploads!TypeOK
BY DEF RenewalsInv, RenewalTypes, DealFits, LinkRow, Uploads!TypeOK

LEMMA ImportsAlways == Spec => [](RenewalsInv /\ RecordsInv)
<1>1. RenewalsInv /\ RecordsInv /\ [Next]_vars => RenewalsInv' /\ RecordsInv'
  BY RenewalsPart, RenewalsStep, RecordsPart, RecordsStep
<1> QED BY <1>1, RenewalsInit, RecordsInit, PTL DEF Spec

(* A group of licences has one live deal and one call task, a table makes  *)
(* one company, and a deal one primary contact, unless an upload was       *)
(* overtaken; a deal that is made has a call task of its upload, unless the *)
(* group's was there; mappings name live rows of the right pipeline, and a *)
(* row that is deleted never comes back: for any tables, groups, uploads,  *)
(* pages and entities.                                                     *)
THEOREM ImportsAlwaysHold == Spec => ImportsHold
<1>1. RenewalsInv /\ RecordsInv /\ [Next]_vars
         => [/\ part = "renewals" => Uploads!RenewalsKept
             /\ part = "records" => Imports!RecordsKept]_vars
  <2> SUFFICES ASSUME RenewalsInv, RecordsInv, [Next]_vars
               PROVE  /\ Uploads!RenewalsKept /\ Imports!RecordsKept
    BY DEF Next
  <2>1. RenewalsInv'
    BY RenewalsPart, RenewalsStep
  <2>2. RecordsInv' /\ Buried
    BY RecordsPart, RecordsStep
  <2>3. Uploads!RenewalsHold'
    BY <2>1, RenewalsDoHold, PTL
  <2>4. Uploads!DealsCalled
    BY RenewalsPart, DealsAreCalled
  <2>5. Imports!MappingsHold'
    BY <2>2, MappingsDoHold, PTL
  <2> QED BY <2>2, <2>3, <2>4, <2>5 DEF Imports!RecordsKept, Uploads!RenewalsKept, Buried
<1> QED BY <1>1, ImportsAlways, PTL DEF Spec, ImportsHold
===============================================================================
