--------------------------- MODULE WorkspaceProofs ----------------------------
(*****************************************************************************)
(* Proofs about the other parts of Workspace: members, the stream of events, *)
(* web push, monitors, and pipelines with their stages and deals; and the types*)
(* of all parts.                                                             *)
(*****************************************************************************)
EXTENDS InputProofs

(* What a request under way knows.  The version it will compare is not     *)
(* beyond the target's, which only grows: if it is the target's still, the *)
(* role that was decided on is the target's still.                         *)
Aware(q) ==
    /\ q.stage \in {"authorized", "decided"} => q.expected <= member[q.target].version
    /\ q.stage = "decided" =>
          /\ q.actor = q.target => q.role = q.seen
          /\ q.as = "admin" => q.seen \notin Team!Elevated /\ q.role \notin Team!Elevated
          /\ q.seen = "owner" /\ q.role # "owner" => q.owners > 1
          /\ member[q.target].version = q.expected => member[q.target].role = q.seen

MembersInv == Team!TypeOK /\ \A r \in Request : Aware(request[r])

(* A value of member: its version tells whether it is a membership.        *)
LEMMA MemberType ==
    ASSUME MaxVersion \in Nat \ {0}, Team!TypeOK, NEW u \in User
    PROVE  /\ member[u].version \in 0..MaxVersion
           /\ member[u] = Team!NoMember <=> member[u].version = 0
           /\ member[u] # Team!NoMember => member[u] \in [role : Team!RoleName, version : 1..MaxVersion]
BY DEF Team!TypeOK, Team!NoMember

(* The requests under way are told apart by their stage.                   *)
LEMMA RequestType ==
    ASSUME Team!TypeOK, NEW r \in Request
    PROVE  /\ request[r].stage \in {"authorized", "decided"} => request[r] \in Team!UpdateRequest
           /\ request[r].stage = "accepting" => request[r] \in Team!AcceptRequest
BY DEF Team!TypeOK, Team!Idle, Team!UpdateRequest, Team!AcceptRequest

LEMMA MembersInit == MaxVersion \in Nat \ {0} /\ Team!Init => MembersInv
BY DEF Team!Init, MembersInv, Team!TypeOK, Aware, Team!Idle, Team!NoMember

(* A request that ends, or changes nothing of what others know.            *)
LEMMA OthersKeep ==
    ASSUME NEW r \in Request, NEW value \in {Team!Idle} \cup Team!UpdateRequest \cup Team!AcceptRequest,
           MembersInv, Team!Becomes(r, value), UNCHANGED <<member, invitation>>,
           Aware(value)
    PROVE  MembersInv'
<1>1. Team!TypeOK'
  BY DEF MembersInv, Team!TypeOK, Team!Becomes
<1>2. \A q \in Request : Aware(request[q])'
  BY DEF MembersInv, Team!TypeOK, Aware, Team!Becomes
<1> QED BY <1>1, <1>2 DEF MembersInv

LEMMA IdleAware == Aware(Team!Idle)
BY DEF Aware, Team!Idle

(* A member's row is written: its version grows.                           *)
LEMMA MemberWritten ==
    ASSUME MaxVersion \in Nat \ {0}, MembersInv, NEW u \in User, NEW role \in Team!RoleName,
           NEW version \in 1..MaxVersion, version > member[u].version,
           member' = [member EXCEPT ![u] = [role |-> role, version |-> version]],
           invitation' \in [User -> Team!RoleName \cup {"none"}],
           \A r \in Request : request'[r] = request[r] \/ request'[r] = Team!Idle,
           request' = [r \in Request |-> request'[r]]
    PROVE  MembersInv'
<1> USE DEF MembersInv
<1>1. Team!TypeOK'
  BY DEF Team!TypeOK
<1>2. ASSUME NEW r \in Request
      PROVE  Aware(request[r])'
  <2>1. CASE request'[r] = Team!Idle
    BY <2>1 DEF Aware, Team!Idle
  <2>2. CASE request'[r] = request[r] /\ request[r].stage \in {"authorized", "decided"}
    <3>1. request[r] \in Team!UpdateRequest
      BY <2>2, RequestType
    <3>2. request[r].target \in User /\ request[r].expected \in 1..MaxVersion
      BY <3>1 DEF Team!UpdateRequest
    <3>3. CASE request[r].target = u
      <4>1. member'[u].version = version /\ request[r].expected <= member[u].version
        BY <2>2, <3>3 DEF Team!TypeOK, Aware
      <4>2. request[r].expected < version
        BY <3>2, <4>1, MemberType
      <4> QED BY <2>2, <3>2, <3>3, <4>1, <4>2 DEF Aware
    <3>4. CASE request[r].target # u
      BY <2>2, <3>2, <3>4 DEF Team!TypeOK, Aware
    <3> QED BY <3>3, <3>4
  <2>3. CASE request'[r] = request[r] /\ request[r].stage \notin {"authorized", "decided"}
    BY <2>3 DEF Aware
  <2> QED BY <2>1, <2>2, <2>3
<1> QED BY <1>1, <1>2

LEMMA InvitationsOnly ==
    ASSUME MembersInv, UNCHANGED <<member, request>>,
           invitation' \in [User -> Team!RoleName \cup {"none"}]
    PROVE  MembersInv'
BY DEF MembersInv, Team!TypeOK, Aware

LEMMA MembersCounted == ASSUME NEW S PROVE Team!Cardinality(S) = Cardinality(S)
BY DEF Team!Cardinality, Cardinality

LEMMA OwnersCount ==
    ASSUME IsFiniteSet(User)
    PROVE  Team!Cardinality(Team!Owners) \in 0..Team!Cardinality(User)
<1>1. Team!Owners \in SUBSET User
  BY DEF Team!Owners
<1> QED BY <1>1, MembersCounted, FS_Subset, FS_CardinalityType

LEMMA MembersStep ==
    ASSUME IsFiniteSet(User), MaxVersion \in Nat \ {0}, MembersInv, [Team!Next]_membersVars
    PROVE  MembersInv'
<1>1. ASSUME NEW u \in User, Team!Bootstrap(u)
      PROVE  MembersInv'
  <2>1. 1 \in 1..MaxVersion /\ 1 > member[u].version
    BY <1>1 DEF Team!Bootstrap, Team!NoMember
  <2>2. /\ invitation' \in [User -> Team!RoleName \cup {"none"}]
        /\ request' = [r \in Request |-> request'[r]]
        /\ "owner" \in Team!RoleName
    BY <1>1 DEF Team!Bootstrap, MembersInv, Team!TypeOK, Team!RoleName, Team!Elevated
  <2> QED BY <1>1, <2>1, <2>2, MemberWritten DEF Team!Bootstrap
<1>2. ASSUME NEW u \in User, Team!ExpireInvitation(u)
      PROVE  MembersInv'
  BY <1>2, InvitationsOnly DEF Team!ExpireInvitation, MembersInv, Team!TypeOK
<1>3. ASSUME NEW actor \in User, NEW u \in User, NEW role \in Team!RoleName,
             Team!InviteUser(actor, u, role)
      PROVE  MembersInv'
  BY <1>3, InvitationsOnly DEF Team!InviteUser, MembersInv, Team!TypeOK
<1>4. ASSUME NEW r \in Request, NEW u \in User, Team!BeginAccept(r, u)
      PROVE  MembersInv'
  <2> DEFINE value == [stage |-> "accepting", target |-> u, role |-> invitation[u],
                       isMember |-> member[u] # Team!NoMember]
  <2>1. value \in Team!AcceptRequest
    BY <1>4 DEF Team!BeginAccept, Team!AcceptRequest, MembersInv, Team!TypeOK
  <2>2. Aware(value)
    BY DEF Aware
  <2> QED BY <1>4, <2>1, <2>2, OthersKeep DEF Team!BeginAccept
<1>5. ASSUME NEW r \in Request, Team!AcceptInvitation(r)
      PROVE  MembersInv'
  <2> DEFINE q == request[r]
  <2>1. q \in Team!AcceptRequest
    BY <1>5, RequestType DEF Team!AcceptInvitation, MembersInv
  <2>2. q.target \in User /\ q.role \in Team!RoleName
    BY <2>1 DEF Team!AcceptRequest
  <2>4. CASE UNCHANGED member
    <3>1. Team!TypeOK'
      BY <1>5, <2>2, <2>4 DEF Team!AcceptInvitation, Team!Becomes, MembersInv, Team!TypeOK
    <3>2. \A s \in Request : Aware(request[s])'
      BY <1>5, <2>4, IdleAware DEF Team!AcceptInvitation, Team!Becomes, MembersInv, Team!TypeOK, Aware
    <3> QED BY <3>1, <3>2 DEF MembersInv
  <2>5. CASE /\ member[q.target] = Team!NoMember
             /\ member' = [member EXCEPT ![q.target] = [role |-> q.role, version |-> 1]]
             /\ invitation' = [invitation EXCEPT ![q.target] = "none"]
    <3>1. invitation' \in [User -> Team!RoleName \cup {"none"}]
      BY <2>5 DEF MembersInv, Team!TypeOK
    <3>2. /\ \A s \in Request : request'[s] = request[s] \/ request'[s] = Team!Idle
          /\ request' = [s \in Request |-> request'[s]]
      BY <1>5 DEF Team!AcceptInvitation, Team!Becomes, MembersInv, Team!TypeOK
    <3>3. 1 \in 1..MaxVersion /\ 1 > member[q.target].version
      BY <2>5 DEF Team!NoMember
    <3> QED BY <2>2, <2>5, <3>1, <3>2, <3>3, MemberWritten
  <2> QED BY <1>5, <2>4, <2>5 DEF Team!AcceptInvitation
<1>6. ASSUME NEW r \in Request, NEW actor \in User, NEW target \in User,
             NEW role \in Team!RoleName, NEW expected \in 1..MaxVersion,
             Team!BeginUpdate(r, actor, target, role, expected)
      PROVE  MembersInv'
  <2> DEFINE value == [stage |-> "authorized", actor |-> actor, as |-> member[actor].role,
                       target |-> target, role |-> role, expected |-> expected,
                       seen |-> "unread", owners |-> 0]
  <2>1. 0 \in 0..Team!Cardinality(User)
    BY MembersCounted, FS_CardinalityType
  <2>a. member[actor].role \in Team!Elevated
    BY <1>6 DEF Team!BeginUpdate
  <2>2. value \in Team!UpdateRequest
    BY <2>1, <2>a DEF Team!UpdateRequest
  <2>3. Aware(value)
    BY <1>6 DEF Team!BeginUpdate, Aware
  <2> QED BY <1>6, <2>2, <2>3, OthersKeep DEF Team!BeginUpdate
<1>7. ASSUME NEW r \in Request, Team!Decide(r)
      PROVE  MembersInv'
  <2> DEFINE q == request[r]
             seen == member[q.target].role
             value == [q EXCEPT !.stage = "decided", !.seen = seen,
                                !.owners = Team!Cardinality(Team!Owners)]
  <2>1. q \in Team!UpdateRequest /\ q.expected <= member[q.target].version
    BY <1>7, RequestType DEF Team!Decide, MembersInv, Aware
  <2>2. q.target \in User /\ q.expected \in 1..MaxVersion
    BY <2>1 DEF Team!UpdateRequest
  <2>3. seen \in Team!RoleName
    BY <2>1, <2>2, MemberType DEF MembersInv
  <2>a. PICK role, owners : role = seen /\ owners = Team!Cardinality(Team!Owners)
    OBVIOUS
  <2>b. owners \in 0..Team!Cardinality(User) /\ role \in Team!RoleName \cup {"unread"}
    BY <2>3, <2>a, OwnersCount
  <2>c. value = [q EXCEPT !.stage = "decided", !.seen = role, !.owners = owners]
    BY <2>a
  <2>4. value \in Team!UpdateRequest
    BY <2>1, <2>b, <2>c, Zenon DEF Team!UpdateRequest
  <2>d. /\ value.stage = "decided" /\ value.seen = seen /\ value.owners = Team!Cardinality(Team!Owners)
        /\ value.actor = q.actor /\ value.target = q.target /\ value.role = q.role
        /\ value.as = q.as /\ value.expected = q.expected
    BY <2>1, Zenon DEF Team!UpdateRequest
  <2> HIDE DEF value
  <2>5. Team!MayUpdate(q, seen) => Aware(value)
    BY <2>1, <2>d DEF Team!MayUpdate, Aware
  <2>e. Team!Becomes(r, IF Team!MayUpdate(q, seen) THEN value ELSE Team!Idle)
        /\ UNCHANGED <<member, invitation>>
    BY <1>7 DEF Team!Decide, value
  <2>6. CASE Team!MayUpdate(q, seen)
    BY <2>4, <2>5, <2>6, <2>e, OthersKeep
  <2>7. CASE ~Team!MayUpdate(q, seen)
    BY <2>7, <2>e, IdleAware, OthersKeep
  <2> QED BY <2>6, <2>7
<1>8. ASSUME NEW r \in Request, Team!UpdateUser(r)
      PROVE  MembersInv'
  <2> DEFINE q == request[r]
  <2>1. q \in Team!UpdateRequest
    BY <1>8, RequestType DEF Team!UpdateUser, MembersInv
  <2>2. q.target \in User /\ q.role \in Team!RoleName /\ q.expected \in 1..MaxVersion
    BY <2>1 DEF Team!UpdateRequest
  <2>3. CASE Team!Matches(q)
    <3>1. q.expected + 1 \in 1..MaxVersion /\ q.expected + 1 > member[q.target].version
      BY <2>2, <2>3 DEF Team!Matches
    <3>2. member' = [member EXCEPT ![q.target] = [role |-> q.role, version |-> q.expected + 1]]
      BY <1>8, <2>3 DEF Team!UpdateUser
    <3>3. /\ \A s \in Request : request'[s] = request[s] \/ request'[s] = Team!Idle
          /\ request' = [s \in Request |-> request'[s]]
      BY <1>8 DEF Team!UpdateUser, Team!Becomes, MembersInv, Team!TypeOK
    <3>4. invitation' \in [User -> Team!RoleName \cup {"none"}]
      BY <1>8 DEF Team!UpdateUser, MembersInv, Team!TypeOK
    <3> QED BY <2>2, <3>1, <3>2, <3>3, <3>4, MemberWritten
  <2>4. CASE ~Team!Matches(q)
    BY <1>8, <2>4, IdleAware, OthersKeep DEF Team!UpdateUser
  <2> QED BY <2>3, <2>4
<1>9. CASE UNCHANGED membersVars
  BY <1>9 DEF membersVars, MembersInv, Team!TypeOK, Aware
<1> QED
  BY <1>1, <1>2, <1>3, <1>4, <1>5, <1>6, <1>7, <1>8, <1>9 DEF Team!Next

(* A step that changes a role is the update of a request that was entitled *)
(* to it.                                                                  *)
LEMMA MembersGrant ==
    ASSUME MaxVersion \in Nat \ {0}, MembersInv, [Team!Next]_membersVars
    PROVE  Team!RolesGranted
<1> SUFFICES ASSUME NEW u \in User, member[u] # Team!NoMember, member'[u].role # member[u].role
             PROVE  Team!RoleChange(u)
  BY DEF Team!RolesGranted
<1>1. PICK r \in Request : Team!UpdateUser(r) /\ request[r].target = u /\ Team!Matches(request[r])
  <2>1. ASSUME NEW r \in Request, Team!AcceptInvitation(r)
        PROVE  FALSE
    BY <2>1 DEF Team!AcceptInvitation, MembersInv, Team!TypeOK
  <2>2. ASSUME NEW r \in Request, Team!UpdateUser(r)
        PROVE  request[r].target = u /\ Team!Matches(request[r])
    BY <2>2 DEF Team!UpdateUser, MembersInv, Team!TypeOK
  <2>3. ASSUME NEW v \in User, Team!Bootstrap(v)
        PROVE  FALSE
    BY <2>3 DEF Team!Bootstrap
  <2> QED BY <2>1, <2>2, <2>3, Zenon DEF Team!Next, membersVars, Team!ExpireInvitation,
                 Team!InviteUser, Team!Decide,
                                 Team!BeginAccept, Team!BeginUpdate
<1> DEFINE q == request[r]
<1>2. q \in Team!UpdateRequest /\ q.stage = "decided"
  BY <1>1, RequestType DEF Team!UpdateUser, MembersInv
<1>3. member[u].role = q.seen /\ member'[u].role = q.role
  BY <1>1, <1>2 DEF Team!UpdateUser, Team!Matches, MembersInv, Aware, Team!TypeOK
<1>4. q # Team!Idle /\ request'[r] = Team!Idle
  BY <1>1, <1>2 DEF Team!UpdateUser, Team!Becomes, Team!Idle, MembersInv, Team!TypeOK
<1>5. q.actor # u
  BY <1>1, <1>2, <1>3 DEF MembersInv, Aware
<1>6. q.as = "owner" \/ {member[u].role, member'[u].role} \cap Team!Elevated = {}
  BY <1>1, <1>2, <1>3 DEF MembersInv, Aware, Team!UpdateRequest, Team!Elevated
<1>7. Team!Owners = {u} /\ Team!Owners' = {} => q.owners > 1
  <2> SUFFICES ASSUME Team!Owners = {u}, Team!Owners' = {}
               PROVE  q.owners > 1
    OBVIOUS
  <2>1. q.seen = "owner"
    BY <1>3 DEF Team!Owners
  <2>2. q.role # "owner"
    BY <1>3 DEF Team!Owners
  <2> QED BY <1>2, <2>1, <2>2 DEF MembersInv, Aware
<1> QED BY <1>1, <1>2, <1>4, <1>5, <1>6, <1>7 DEF Team!RoleChange

LEMMA MembersPart == [Next]_vars => [Team!Next]_membersVars
BY DEF Next, vars, membersVars

LEMMA MembersAlways == Spec => []MembersInv
<1>1. Init => MembersInv
  BY MembersInit, MembersAssumption DEF Init
<1>2. MembersInv /\ [Next]_vars => MembersInv'
  BY MembersStep, MembersPart, MembersAssumption
<1> QED BY <1>1, <1>2, PTL DEF Spec

(* PATCH /users/{id} and the rest of app.api.auth change a role only when  *)
(* RoleChange allows it, however requests interleave: the version that is  *)
(* compared stands for the role that was read.                             *)
THEOREM RolesAreAlwaysGranted == Spec => RolesAreGranted
<1>1. MembersInv /\ [Next]_vars => (part = "members" => Team!RolesGranted)
  BY MembersGrant, MembersPart, MembersAssumption
<1> QED BY <1>1, MembersAlways, PTL DEF Spec, RolesAreGranted

-------------------------------------------------------------------------------
(* An id is of one event, whether its transaction is open or committed. *)
Ids ==
    /\ \A e \in log : e.id <= lastId
    /\ \A s \in Streams!Subject : writing[s] # 0 =>
          /\ writing[s] <= lastId
          /\ \A e \in log : e.id # writing[s]
          /\ \A t \in Streams!Subject : t # s => writing[t] # writing[s]

(* Who has the revision that is the last shows only what may be seen. *)
RevisionFits ==
    /\ browser.revision <= Streams!AccessRevision
    /\ ~late.byAccess /\ browser.revision = Streams!AccessRevision
           => browser.shown \subseteq Streams!Visible

(* What is shown and may not be seen any more is cleared by an access       *)
(* change that a stream without a gap has still to read.                    *)
StreamFits ==
    /\ browser.last <= stream.cursor /\ stream.cursor <= Streams!Tail
    /\ ~late.byEvent /\ stream.whole =>
          \A d \in browser.shown \ Streams!Visible : \E e \in log : e.access /\ e.id > stream.cursor

RealtimeInv == Streams!TypeOK /\ Ids /\ RevisionFits /\ StreamFits
-------------------------------------------------------------------------------
LEMMA Greatest == ASSUME NEW S \in SUBSET Nat, S # {}, NEW n \in Nat, \A x \in S : x <= n
                  PROVE \E x \in S : \A y \in S : y <= x
<1> DEFINE T == {n - x : x \in S}
<1>1. T \in SUBSET Nat /\ T # {}
  <2>1. \A x \in S : n - x \in Nat
    OBVIOUS
  <2>2. PICK x \in S : TRUE
    OBVIOUS
  <2>3. n - x \in T
    OBVIOUS
  <2> QED BY <2>1, <2>3
<1>2. PICK t \in T : \A u \in T : t <= u
  BY <1>1, Least
<1>3. PICK x \in S : t = n - x
  OBVIOUS
<1>4. ASSUME NEW y \in S PROVE y <= x
  <2>1. n - y \in T
    OBVIOUS
  <2>2. n - x <= n - y
    BY <1>2, <1>3, <2>1
  <2> QED BY <2>2
<1> QED BY <1>4

LEMMA MaxOfs ==
    ASSUME NEW S \in SUBSET (0..MaxEvent)
    PROVE  /\ Streams!MaxOf(S) \in 0..MaxEvent
           /\ \A x \in S : x <= Streams!MaxOf(S)
           /\ S # {} => Streams!MaxOf(S) \in S
<1>1. CASE S = {}
  BY <1>1, RealtimeAssumption DEF Streams!MaxOf
<1>2. CASE S # {}
  <2>1. S \in SUBSET Nat /\ MaxEvent \in Nat /\ \A x \in S : x <= MaxEvent
    BY RealtimeAssumption
  <2>2. \E x \in S : \A y \in S : y <= x
    BY <1>2, <2>1, Greatest
  <2>3. \E x \in S : \A y \in S : x >= y
    BY <2>1, <2>2
  <2>4. Streams!Max(S) \in S /\ \A y \in S : Streams!Max(S) >= y
    BY <2>3 DEF Streams!Max
  <2>5. Streams!MaxOf(S) = Streams!Max(S)
    BY <1>2 DEF Streams!MaxOf
  <2> QED BY <2>4, <2>5, <2>1
<1> QED BY <1>1, <1>2

LEMMA MaxOfWith ==
    ASSUME NEW S \in SUBSET (0..MaxEvent), NEW x \in 0..MaxEvent
    PROVE  Streams!MaxOf(S \cup {x}) = IF x > Streams!MaxOf(S) THEN x ELSE Streams!MaxOf(S)
<1> DEFINE T == S \cup {x}
<1>1. T \in SUBSET (0..MaxEvent) /\ T # {}
  OBVIOUS
<1>2. /\ Streams!MaxOf(S) \in Int /\ \A y \in S : y <= Streams!MaxOf(S)
      /\ S # {} => Streams!MaxOf(S) \in S
      /\ S = {} => Streams!MaxOf(S) = 0
  BY MaxOfs DEF Streams!MaxOf
<1>3. Streams!MaxOf(T) \in T /\ (\A y \in T : y <= Streams!MaxOf(T)) /\ Streams!MaxOf(T) \in Int
  BY <1>1, MaxOfs
<1> QED BY <1>2, <1>3

(* The latest of what is committed. *)
EventIds == {e.id : e \in log}
AccessIds == {e.id : e \in {x \in log : x.access}}

LEMMA Latest ==
    ASSUME Streams!TypeOK
    PROVE  /\ EventIds \in SUBSET (0..MaxEvent) /\ AccessIds \in SUBSET (0..MaxEvent)
           /\ Streams!Tail = Streams!MaxOf(EventIds)
           /\ Streams!AccessRevision = Streams!MaxOf(AccessIds)
           /\ Streams!Tail \in 0..MaxEvent /\ Streams!AccessRevision \in 0..MaxEvent
           /\ \A e \in log : e.id <= Streams!Tail
           /\ \A e \in log : e.access => e.id <= Streams!AccessRevision
           /\ Streams!Tail # 0 => \E e \in log : e.id = Streams!Tail
           /\ Streams!AccessRevision # 0 => \E e \in log : e.id = Streams!AccessRevision
<1>1. \A e \in log : e.id \in 1..MaxEvent
  BY DEF Streams!TypeOK, Streams!Event
<1>2. EventIds \in SUBSET (0..MaxEvent) /\ AccessIds \in SUBSET (0..MaxEvent)
  BY <1>1 DEF EventIds, AccessIds
<1>3. Streams!Tail = Streams!MaxOf(EventIds) /\ Streams!AccessRevision = Streams!MaxOf(AccessIds)
  BY DEF Streams!Tail, Streams!AccessRevision, EventIds, AccessIds
<1>4. /\ EventIds = {} => Streams!Tail = 0
      /\ AccessIds = {} => Streams!AccessRevision = 0
  BY <1>3 DEF Streams!MaxOf
<1> HIDE DEF EventIds, AccessIds
<1>5. /\ Streams!Tail \in 0..MaxEvent /\ \A x \in EventIds : x <= Streams!Tail
      /\ EventIds # {} => Streams!Tail \in EventIds
  BY <1>2, <1>3, MaxOfs
<1>6. /\ Streams!AccessRevision \in 0..MaxEvent /\ \A x \in AccessIds : x <= Streams!AccessRevision
      /\ AccessIds # {} => Streams!AccessRevision \in AccessIds
  BY <1>2, <1>3, MaxOfs
<1> QED BY <1>2, <1>3, <1>4, <1>5, <1>6 DEF EventIds, AccessIds

(* What does not touch the log. *)
LEMMA LatestStays == ASSUME log' = log
                     PROVE  Streams!Tail' = Streams!Tail
                                /\ Streams!AccessRevision' = Streams!AccessRevision
BY DEF Streams!Tail, Streams!AccessRevision

(* A transaction writes its event: the id that it drew is of no other one. *)
LEMMA EventWritten ==
    ASSUME RealtimeInv, NEW s \in Streams!Subject, NEW access \in BOOLEAN,
           writing[s] # 0, writing' = [writing EXCEPT ![s] = 0], lastId' = lastId,
           Streams!Recorded(s, access)
    PROVE  /\ writing[s] \in 1..MaxEvent
           /\ writing' \in [Streams!Subject -> 0..MaxEvent] /\ log' \subseteq Streams!Event
           /\ Ids'
           /\ \E e \in Streams!Event : /\ log' = log \cup {e} /\ e.id = writing[s] /\ e.access = access
           /\ Streams!Tail <= Streams!Tail' /\ Streams!Tail' \in 0..MaxEvent
           /\ Streams!AccessRevision' = IF access /\ writing[s] > Streams!AccessRevision
                                        THEN writing[s] ELSE Streams!AccessRevision
           /\ writing[s] # Streams!Tail /\ writing[s] # Streams!AccessRevision
<1> DEFINE n == writing[s]
           e == [id |-> n, subject |-> s, access |-> access]
<1>0. Streams!TypeOK /\ Ids
  BY DEF RealtimeInv
<1>1. n # 0 /\ writing' = [writing EXCEPT ![s] = 0] /\ log' = log \cup {e} /\ lastId' = lastId
  BY DEF Streams!Recorded
<1>2. n \in 1..MaxEvent
  BY <1>0, <1>1 DEF Streams!TypeOK
<1>3. e \in Streams!Event /\ e.id = n /\ e.access = access
  BY <1>2 DEF Streams!Event
<1>4. /\ Streams!Tail \in 0..MaxEvent /\ Streams!AccessRevision \in 0..MaxEvent
      /\ Streams!Tail # 0 => \E f \in log : f.id = Streams!Tail
      /\ Streams!AccessRevision # 0 => \E f \in log : f.id = Streams!AccessRevision
      /\ Streams!Tail = Streams!MaxOf(EventIds) /\ EventIds \in SUBSET (0..MaxEvent)
      /\ Streams!AccessRevision = Streams!MaxOf(AccessIds) /\ AccessIds \in SUBSET (0..MaxEvent)
  BY <1>0, Latest
<1>5. n # Streams!Tail /\ n # Streams!AccessRevision
  BY <1>0, <1>1, <1>4 DEF Ids
<1>6. writing' \in [Streams!Subject -> 0..MaxEvent] /\ log' \subseteq Streams!Event
  <2>1. writing' \in [Streams!Subject -> 0..MaxEvent]
    BY <1>0, <1>1, RealtimeAssumption DEF Streams!TypeOK
  <2>2. log' \subseteq Streams!Event
    BY <1>0, <1>1, <1>3 DEF Streams!TypeOK
  <2> QED BY <2>1, <2>2
<1>7. Ids'
  <2>1. \A f \in log' : f.id <= lastId'
    BY <1>0, <1>1, <1>3 DEF Ids
  <2>2. ASSUME NEW t \in Streams!Subject, writing'[t] # 0
        PROVE  /\ writing'[t] <= lastId'
               /\ \A f \in log' : f.id # writing'[t]
               /\ \A u \in Streams!Subject : u # t => writing'[u] # writing'[t]
    <3>1. t # s /\ writing'[t] = writing[t] /\ writing[t] # 0
      BY <1>0, <1>1, <2>2 DEF Streams!TypeOK
    <3>2. \A u \in Streams!Subject : writing'[u] = IF u = s THEN 0 ELSE writing[u]
      BY <1>0, <1>1 DEF Streams!TypeOK
    <3> QED BY <1>0, <1>1, <1>3, <3>1, <3>2 DEF Ids
  <2> QED BY <2>1, <2>2 DEF Ids
<1> HIDE DEF e
<1>8. EventIds' = EventIds \cup {n} /\ AccessIds' = IF access THEN AccessIds \cup {n} ELSE AccessIds
  BY <1>1, <1>3 DEF EventIds, AccessIds
<1>9. Streams!Tail' = Streams!MaxOf(EventIds \cup {n})
      /\ Streams!AccessRevision' = Streams!MaxOf(IF access THEN AccessIds \cup {n} ELSE AccessIds)
  <2>1. Streams!Tail' = Streams!MaxOf(EventIds') /\ Streams!AccessRevision' = Streams!MaxOf(AccessIds')
    BY DEF Streams!Tail, Streams!AccessRevision, EventIds, AccessIds
  <2> QED BY <1>8, <2>1
<1>10. Streams!Tail' = IF n > Streams!Tail THEN n ELSE Streams!Tail
  BY <1>2, <1>4, <1>9, MaxOfWith
<1>11. Streams!AccessRevision' = IF access /\ n > Streams!AccessRevision THEN n
           ELSE Streams!AccessRevision
  <2>1. CASE access
    BY <1>2, <1>4, <1>9, <2>1, MaxOfWith
  <2>2. CASE ~access
    BY <1>4, <1>9, <2>2
  <2> QED BY <2>1, <2>2
<1> QED BY <1>1, <1>2, <1>3, <1>4, <1>5, <1>6, <1>7, <1>10, <1>11

(* A transaction commits, and marks the access event that comes late. *)
LEMMA Committed ==
    ASSUME RealtimeInv, NEW s \in Streams!Subject, NEW access \in BOOLEAN, Streams!Commit(s, access)
    PROVE  /\ writing[s] \in 1..MaxEvent
           /\ writing' \in [Streams!Subject -> 0..MaxEvent] /\ log' \subseteq Streams!Event
           /\ late' \in [byEvent : BOOLEAN, byAccess : BOOLEAN]
           /\ Ids'
           /\ \E e \in Streams!Event : /\ log' = log \cup {e} /\ e.id = writing[s] /\ e.access = access
           /\ Streams!Tail <= Streams!Tail' /\ Streams!Tail' \in 0..MaxEvent
           /\ Streams!AccessRevision' = IF access /\ writing[s] > Streams!AccessRevision
                                        THEN writing[s] ELSE Streams!AccessRevision
           /\ writing[s] # Streams!Tail /\ writing[s] # Streams!AccessRevision
           /\ ~late'.byEvent => ~late.byEvent /\ (access => writing[s] > Streams!Tail)
           /\ ~late'.byAccess => ~late.byAccess /\ (access => writing[s] > Streams!AccessRevision)
<1> DEFINE n == writing[s]
<1>0. Streams!TypeOK
  BY DEF RealtimeInv
<1>1. /\ n # 0 /\ writing' = [writing EXCEPT ![s] = 0] /\ lastId' = lastId
      /\ Streams!Recorded(s, access)
      /\ late' = IF ~access THEN late
                 ELSE [byEvent |-> late.byEvent \/ Streams!Tail > n,
                       byAccess |-> late.byAccess \/ Streams!AccessRevision > n]
  BY DEF Streams!Commit
<1>2. /\ n \in 1..MaxEvent
      /\ writing' \in [Streams!Subject -> 0..MaxEvent] /\ log' \subseteq Streams!Event
      /\ Ids'
      /\ \E e \in Streams!Event : /\ log' = log \cup {e} /\ e.id = n /\ e.access = access
      /\ Streams!Tail <= Streams!Tail' /\ Streams!Tail' \in 0..MaxEvent
      /\ Streams!AccessRevision' = IF access /\ n > Streams!AccessRevision
                                   THEN n ELSE Streams!AccessRevision
      /\ n # Streams!Tail /\ n # Streams!AccessRevision
  BY <1>1, EventWritten
<1>3. late' \in [byEvent : BOOLEAN, byAccess : BOOLEAN]
  BY <1>0, <1>1 DEF Streams!TypeOK
<1>4. Streams!Tail \in 0..MaxEvent /\ Streams!AccessRevision \in 0..MaxEvent
  BY <1>0, Latest
<1>5. /\ ~late'.byEvent => ~late.byEvent /\ (access => n > Streams!Tail)
      /\ ~late'.byAccess => ~late.byAccess /\ (access => n > Streams!AccessRevision)
  BY <1>1, <1>2, <1>4
<1> QED BY <1>2, <1>3, <1>5

(* What a transaction does to what may be seen. *)
LEMMA CommitInv ==
    ASSUME RealtimeInv,
           \/ Streams!UpdateRole
           \/ \E d \in Deal : Streams!UpdateDeal(d) \/ Streams!ReassignDeal(d)
    PROVE  RealtimeInv'
<1>0. Streams!TypeOK /\ Ids /\ RevisionFits /\ StreamFits
  BY DEF RealtimeInv
<1> DEFINE Moves(s, access) == /\ Streams!Commit(s, access)
                               /\ ~access => UNCHANGED <<assigned, employee>>
                               /\ assigned' \subseteq Deal /\ employee' \in BOOLEAN
<1>1. \E s \in Streams!Subject, access \in BOOLEAN : Moves(s, access)
  <2>1. ASSUME NEW d \in Deal, Streams!UpdateDeal(d) PROVE Moves(d, FALSE) /\ d \in Streams!Subject
    BY <1>0, <2>1 DEF Streams!UpdateDeal, Streams!TypeOK, Streams!Subject
  <2>2. ASSUME NEW d \in Deal, Streams!ReassignDeal(d) PROVE Moves(d, TRUE) /\ d \in Streams!Subject
    BY <1>0, <2>2 DEF Streams!ReassignDeal, Streams!TypeOK, Streams!Subject
  <2>3. ASSUME Streams!UpdateRole PROVE Moves(Streams!Role, TRUE) /\ Streams!Role \in Streams!Subject
    BY <1>0, <2>3 DEF Streams!UpdateRole, Streams!TypeOK, Streams!Subject
  <2> HIDE DEF Moves
  <2> QED BY <2>1, <2>2, <2>3
<1>p. PICK s \in Streams!Subject, access \in BOOLEAN : Moves(s, access)
  BY <1>1
<1> DEFINE n == writing[s]
<1>2. /\ n \in 1..MaxEvent
      /\ writing' \in [Streams!Subject -> 0..MaxEvent] /\ log' \subseteq Streams!Event
      /\ late' \in [byEvent : BOOLEAN, byAccess : BOOLEAN]
      /\ Ids'
      /\ \E e \in Streams!Event : /\ log' = log \cup {e} /\ e.id = n /\ e.access = access
      /\ Streams!Tail <= Streams!Tail' /\ Streams!Tail' \in 0..MaxEvent
      /\ Streams!AccessRevision' = IF access /\ n > Streams!AccessRevision THEN n
             ELSE Streams!AccessRevision
      /\ n # Streams!Tail /\ n # Streams!AccessRevision
      /\ ~late'.byEvent => ~late.byEvent /\ (access => n > Streams!Tail)
      /\ ~late'.byAccess => ~late.byAccess /\ (access => n > Streams!AccessRevision)
  BY <1>p, Committed
<1>3. UNCHANGED <<lastId, session, stream, browser>>
  BY <1>p DEF Streams!Commit
<1>4. Streams!TypeOK'
  BY <1>0, <1>p, <1>2, <1>3 DEF Streams!TypeOK
<1>5. /\ Streams!Tail \in Int /\ Streams!AccessRevision \in Int /\ browser.revision \in Int
      /\ browser.last \in Int /\ stream.cursor \in Int
  <2>1. Streams!Tail \in 0..MaxEvent /\ Streams!AccessRevision \in 0..MaxEvent
    BY <1>0, Latest
  <2>2. browser.revision \in 0..MaxEvent /\ browser.last \in 0..MaxEvent /\ stream.cursor \in 0..MaxEvent
    BY <1>0 DEF Streams!TypeOK
  <2> QED BY <2>1, <2>2
<1>6. RevisionFits'
  <2>1. browser.revision <= Streams!AccessRevision'
    BY <1>0, <1>2, <1>5 DEF RevisionFits
  <2>2. ASSUME ~late'.byAccess, browser.revision = Streams!AccessRevision'
        PROVE  browser.shown \subseteq Streams!Visible'
    <3>1. ~access
      BY <1>0, <1>2, <1>5, <2>2 DEF RevisionFits
    <3>2. Streams!Visible' = Streams!Visible
      BY <1>p, <3>1 DEF Streams!Visible
    <3> QED BY <1>0, <1>2, <2>2, <3>1, <3>2 DEF RevisionFits
  <2> QED BY <1>3, <2>1, <2>2 DEF RevisionFits
<1>7. StreamFits'
  <2>1. browser.last <= stream.cursor /\ stream.cursor <= Streams!Tail'
    BY <1>0, <1>2, <1>5 DEF StreamFits
  <2>2. ASSUME ~late'.byEvent, stream.whole, NEW d \in browser.shown \ Streams!Visible'
        PROVE  \E e \in log' : e.access /\ e.id > stream.cursor
    <3>1. CASE access
      <4>1. n > stream.cursor
        BY <1>0, <1>2, <1>5, <2>2, <3>1 DEF StreamFits
      <4> QED BY <1>2, <3>1, <4>1
    <3>2. CASE ~access
      <4>1. Streams!Visible' = Streams!Visible
        BY <1>p, <3>2 DEF Streams!Visible
      <4> QED BY <1>0, <1>2, <2>2, <4>1 DEF StreamFits
    <3> QED BY <3>1, <3>2
  <2> QED BY <1>3, <2>1, <2>2 DEF StreamFits
<1> QED BY <1>2, <1>4, <1>6, <1>7 DEF RealtimeInv

(* A table of licences reassigns a deal: from then on nothing is said of   *)
(* what is shown.                                                          *)
LEMMA ImportSubscriptionsInv ==
    ASSUME RealtimeInv, NEW d \in Deal, Streams!ImportSubscriptions(d)
    PROVE  RealtimeInv'
<1>0. Streams!TypeOK /\ RevisionFits /\ StreamFits
  BY DEF RealtimeInv
<1>1. /\ writing[d] # 0 /\ writing' = [writing EXCEPT ![d] = 0]
      /\ Streams!Recorded(d, FALSE)
      /\ assigned' = IF d \in assigned THEN assigned \ {d} ELSE assigned \cup {d}
      /\ late' = [byEvent |-> TRUE, byAccess |-> TRUE]
      /\ UNCHANGED <<employee, lastId, session, stream, browser>>
  BY DEF Streams!ImportSubscriptions
<1>2. d \in Streams!Subject
  BY DEF Streams!Subject
<1>3. /\ writing' \in [Streams!Subject -> 0..MaxEvent] /\ log' \subseteq Streams!Event
      /\ Ids'
      /\ Streams!Tail <= Streams!Tail' /\ Streams!Tail' \in 0..MaxEvent
      /\ Streams!AccessRevision' = Streams!AccessRevision
  BY <1>1, <1>2, EventWritten
<1>4. assigned' \subseteq Deal
  BY <1>0, <1>1 DEF Streams!TypeOK
<1>5. late' \in [byEvent : BOOLEAN, byAccess : BOOLEAN] /\ late'.byEvent /\ late'.byAccess
  BY <1>1
<1>6. Streams!TypeOK'
  BY <1>0, <1>1, <1>3, <1>4, <1>5 DEF Streams!TypeOK
<1>7. RevisionFits'
  BY <1>0, <1>1, <1>3, <1>5 DEF RevisionFits
<1>8. StreamFits'
  <2>1. Streams!Tail \in 0..MaxEvent /\ stream.cursor \in 0..MaxEvent
    BY <1>0, Latest DEF Streams!TypeOK
  <2>2. browser.last <= stream.cursor /\ stream.cursor <= Streams!Tail'
    BY <1>0, <1>3, <2>1 DEF StreamFits
  <2> QED BY <1>1, <1>5, <2>2 DEF StreamFits
<1> QED BY <1>3, <1>6, <1>7, <1>8 DEF RealtimeInv

LEMMA FlushInv ==
    ASSUME RealtimeInv, NEW s \in Streams!Subject, Streams!Flush(s)
    PROVE  RealtimeInv'
<1>0. Streams!TypeOK /\ Ids /\ RevisionFits /\ StreamFits
  BY DEF RealtimeInv
<1>1. /\ lastId < MaxEvent /\ lastId' = lastId + 1 /\ writing' = [writing EXCEPT ![s] = lastId + 1]
      /\ UNCHANGED <<assigned, employee, log, late, session, stream, browser>>
  BY DEF Streams!Flush
<1>2. lastId \in 0..MaxEvent /\ lastId + 1 \in 1..MaxEvent
  BY <1>0, <1>1, RealtimeAssumption DEF Streams!TypeOK
<1>3. /\ writing' \in [Streams!Subject -> 0..MaxEvent] /\ writing'[s] = lastId + 1
      /\ \A t \in Streams!Subject : t # s => writing'[t] = writing[t]
  BY <1>0, <1>1, <1>2 DEF Streams!TypeOK
<1>4. Streams!TypeOK'
  BY <1>0, <1>1, <1>2, <1>3 DEF Streams!TypeOK
<1>5. Ids'
  <2>1. \A e \in log : e.id \in Int /\ e.id < lastId + 1
    BY <1>0, <1>2 DEF Ids, Streams!TypeOK, Streams!Event
  <2>2. \A t \in Streams!Subject : writing[t] \in Int /\ writing[t] < lastId + 1
    BY <1>0, <1>2 DEF Ids, Streams!TypeOK
  <2>3. \A e \in log' : e.id <= lastId'
    BY <1>1, <1>2, <2>1
  <2>4. ASSUME NEW t \in Streams!Subject, writing'[t] # 0
        PROVE  /\ writing'[t] <= lastId'
               /\ \A e \in log' : e.id # writing'[t]
               /\ \A u \in Streams!Subject : u # t => writing'[u] # writing'[t]
    <3>1. CASE t = s
      BY <1>1, <1>2, <1>3, <2>1, <2>2, <3>1
    <3>2. CASE t # s
      BY <1>0, <1>1, <1>2, <1>3, <2>1, <2>2, <2>4, <3>2 DEF Ids
    <3> QED BY <3>1, <3>2
  <2> QED BY <2>3, <2>4 DEF Ids
<1>6. RevisionFits' /\ StreamFits'
  BY <1>0, <1>1, LatestStays DEF RevisionFits, StreamFits, Streams!Visible
<1> QED BY <1>4, <1>5, <1>6 DEF RealtimeInv

(* What the browser does of itself. *)
LEMMA BrowserInv ==
    ASSUME RealtimeInv, Streams!Revoke \/ Streams!Me \/ Streams!Disconnect \/ Streams!StreamEnds
                        \/ \E d \in Deal : Streams!Show(d)
    PROVE  RealtimeInv'
<1>0. Streams!TypeOK /\ Ids /\ RevisionFits /\ StreamFits
  BY DEF RealtimeInv
<1>1. UNCHANGED <<assigned, employee, lastId, writing, log, late>>
  BY DEF Streams!Revoke, Streams!Me, Streams!Disconnect, Streams!StreamEnds, Streams!Show, Streams!records
<1>2. Ids' /\ Streams!Visible' = Streams!Visible
  BY <1>0, <1>1 DEF Ids, Streams!Visible
<1>3. Streams!Tail' = Streams!Tail /\ Streams!AccessRevision' = Streams!AccessRevision
      /\ Streams!AccessRevision \in 0..MaxEvent
  BY <1>0, <1>1, LatestStays, Latest
<1>4. /\ browser \in [shown : SUBSET Deal, revision : 0..MaxEvent, last : 0..MaxEvent]
      /\ stream \in [open : BOOLEAN, cursor : 0..MaxEvent, employee : BOOLEAN, whole : BOOLEAN]
      /\ assigned \subseteq Deal
  BY <1>0 DEF Streams!TypeOK
<1>5. CASE Streams!Revoke
  <2>1. session' = "revoked" /\ UNCHANGED <<stream, browser>>
    BY <1>5 DEF Streams!Revoke
  <2> QED BY <1>0, <1>1, <1>2, <1>3, <2>1 DEF RealtimeInv, Streams!TypeOK, RevisionFits, StreamFits
<1>6. CASE Streams!Disconnect
  <2>1. stream' = [stream EXCEPT !.open = FALSE] /\ UNCHANGED <<session, browser>>
    BY <1>6 DEF Streams!Disconnect
  <2>2. stream' \in [open : BOOLEAN, cursor : 0..MaxEvent, employee : BOOLEAN, whole : BOOLEAN]
        /\ stream'.cursor = stream.cursor /\ stream'.whole = stream.whole
    BY <1>4, <2>1, Zenon
  <2> QED BY <1>0, <1>1, <1>2, <1>3, <2>1, <2>2 DEF RealtimeInv, Streams!TypeOK, RevisionFits, StreamFits
<1>7. CASE Streams!StreamEnds
  <2>1. stream' = [stream EXCEPT !.open = FALSE] /\ session' = session
        /\ browser' = [browser EXCEPT !.shown = {}]
    BY <1>7 DEF Streams!StreamEnds
  <2>2. stream' \in [open : BOOLEAN, cursor : 0..MaxEvent, employee : BOOLEAN, whole : BOOLEAN]
        /\ stream'.cursor = stream.cursor /\ stream'.whole = stream.whole
    BY <1>4, <2>1, Zenon
  <2>3. browser' \in [shown : SUBSET Deal, revision : 0..MaxEvent, last : 0..MaxEvent]
        /\ browser'.revision = browser.revision /\ browser'.last = browser.last /\ browser'.shown = {}
    BY <1>4, <2>1
  <2> QED BY <1>0, <1>1, <1>2, <1>3, <2>1, <2>2, <2>3
          DEF RealtimeInv, Streams!TypeOK, RevisionFits, StreamFits
<1>8. CASE Streams!Me
  <2> DEFINE shown == IF browser.revision = Streams!AccessRevision THEN browser.shown ELSE {}
  <2>1. browser' = [browser EXCEPT !.shown = shown, !.revision = Streams!AccessRevision]
        /\ UNCHANGED <<session, stream>>
    BY <1>8 DEF Streams!Me
  <2>2. PICK sh, r : sh = shown /\ r = Streams!AccessRevision
    OBVIOUS
  <2>3. sh \in SUBSET Deal /\ r \in 0..MaxEvent
    BY <1>3, <1>4, <2>2
  <2>4. browser' = [browser EXCEPT !.shown = sh, !.revision = r]
    BY <2>1, <2>2
  <2>5. browser' \in [shown : SUBSET Deal, revision : 0..MaxEvent, last : 0..MaxEvent]
        /\ browser'.revision = r /\ browser'.last = browser.last /\ browser'.shown = sh
    BY <1>4, <2>3, <2>4, Zenon
  <2>6. sh \subseteq browser.shown
    BY <2>2
  <2>7. RevisionFits'
    BY <1>0, <1>1, <1>2, <1>3, <2>2, <2>5 DEF RevisionFits
  <2> QED BY <1>0, <1>1, <1>2, <1>3, <2>1, <2>5, <2>6, <2>7 DEF RealtimeInv, Streams!TypeOK, StreamFits
<1>9. ASSUME NEW d \in Deal, Streams!Show(d) PROVE RealtimeInv'
  <2>1. browser' = [browser EXCEPT !.shown = browser.shown \cup {d}] /\ UNCHANGED <<session, stream>>
        /\ d \in Streams!Visible
    BY <1>9 DEF Streams!Show
  <2>2. PICK sh : sh = browser.shown \cup {d}
    OBVIOUS
  <2>3. browser' \in [shown : SUBSET Deal, revision : 0..MaxEvent, last : 0..MaxEvent]
        /\ browser'.revision = browser.revision /\ browser'.last = browser.last /\ browser'.shown = sh
    <3>1. sh \in SUBSET Deal
      BY <1>4, <2>2
    <3>2. browser' = [browser EXCEPT !.shown = sh]
      BY <2>1, <2>2
    <3> QED BY <1>4, <3>1, <3>2, Zenon
  <2> QED BY <1>0, <1>1, <1>2, <1>3, <2>1, <2>2, <2>3
          DEF RealtimeInv, Streams!TypeOK, RevisionFits, StreamFits
<1> QED BY <1>5, <1>6, <1>7, <1>8, <1>9

LEMMA ConnectInv ==
    ASSUME RealtimeInv, NEW replay \in BOOLEAN, Streams!Connect(replay)
    PROVE  RealtimeInv'
<1>0. Streams!TypeOK /\ Ids /\ RevisionFits /\ StreamFits
  BY DEF RealtimeInv
<1> DEFINE c == Streams!InitialCursor(replay)
           w == browser.shown = {} \/ (stream.whole /\ c = browser.last)
<1>1. /\ stream' = [open |-> TRUE, cursor |-> c, employee |-> employee, whole |-> w]
      /\ UNCHANGED <<assigned, employee, lastId, writing, log, late, session, browser>>
  BY DEF Streams!Connect, Streams!records
<1>2. /\ Streams!Tail \in 0..MaxEvent /\ browser.last \in 0..MaxEvent /\ stream.cursor \in 0..MaxEvent
      /\ stream.whole \in BOOLEAN /\ employee \in BOOLEAN
  BY <1>0, Latest DEF Streams!TypeOK
<1>3. browser.last <= stream.cursor /\ stream.cursor <= Streams!Tail
  BY <1>0 DEF StreamFits
<1>4. c \in 0..MaxEvent /\ browser.last <= c /\ c <= Streams!Tail
  BY <1>2, <1>3, RealtimeAssumption DEF Streams!InitialCursor
<1> HIDE DEF c
<1>5. w \in BOOLEAN
  OBVIOUS
<1> HIDE DEF w
<1>6. stream' \in [open : BOOLEAN, cursor : 0..MaxEvent, employee : BOOLEAN, whole : BOOLEAN]
      /\ stream'.cursor = c /\ stream'.whole = w
  BY <1>1, <1>2, <1>4, <1>5
<1>7. Streams!TypeOK' /\ Ids' /\ RevisionFits'
  BY <1>0, <1>1, <1>6, LatestStays DEF Streams!TypeOK, Ids, RevisionFits, Streams!Visible
<1>8. StreamFits'
  <2>1. browser.last <= stream'.cursor /\ stream'.cursor <= Streams!Tail'
    BY <1>1, <1>4, <1>6, LatestStays
  <2>2. ASSUME ~late.byEvent, w, NEW d \in browser.shown \ Streams!Visible
        PROVE  \E e \in log : e.access /\ e.id > c
    <3>1. stream.whole /\ c = browser.last
      BY <2>2 DEF w
    <3>2. PICK e \in log : e.access /\ e.id > stream.cursor
      BY <1>0, <2>2, <3>1 DEF StreamFits
    <3>3. e.id \in Int
      BY <1>0 DEF Streams!TypeOK, Streams!Event
    <3> QED BY <1>2, <1>3, <3>1, <3>2, <3>3
  <2>3. Streams!Visible' = Streams!Visible
    BY <1>1 DEF Streams!Visible
  <2> QED BY <1>1, <1>6, <2>1, <2>2, <2>3 DEF StreamFits
<1> QED BY <1>7, <1>8 DEF RealtimeInv

LEMMA StreamsCounted == ASSUME NEW S PROVE Streams!Cardinality(S) = Cardinality(S)
BY DEF Streams!Cardinality, Cardinality

(* What a turn leaves for the next comes after all it has read. *)
LEMMA BatchIsFirst ==
    ASSUME Streams!TypeOK, NEW e \in log, e.id > stream.cursor, e \notin Streams!Batch,
               NEW g \in Streams!Batch
    PROVE  g.id < e.id
<1> DEFINE after == {f \in log : f.id > stream.cursor}
           below(x) == {f \in after : f.id < x.id}
<1>1. IsFiniteSet(log)
  <2>1. \A f \in log : f.id \in 1..MaxEvent /\ f.subject \in Streams!Subject /\ f.access \in BOOLEAN
                       /\ f = [id |-> f.id, subject |-> f.subject, access |-> f.access]
    BY DEF Streams!TypeOK, Streams!Event
  <2> DEFINE T == (1..MaxEvent) \X (Streams!Subject \X BOOLEAN)
             h == [f \in log |-> <<f.id, <<f.subject, f.access>>>>]
  <2>2. IsFiniteSet(T)
    <3>1. IsFiniteSet(1..MaxEvent)
      BY RealtimeAssumption, FS_Interval
    <3>2. IsFiniteSet(Streams!Subject)
      BY RealtimeAssumption, FS_AddElement DEF Streams!Subject
    <3>3. IsFiniteSet({TRUE} \cup {FALSE}) /\ BOOLEAN = {TRUE} \cup {FALSE}
      <4>1. IsFiniteSet({TRUE})
        BY FS_Singleton
      <4> QED BY <4>1, FS_AddElement
    <3>4. IsFiniteSet(Streams!Subject \X BOOLEAN)
      BY <3>2, <3>3, FS_Product
    <3> QED BY <3>1, <3>4, FS_Product
  <2>3. h \in Injection(log, T)
    <3>1. h \in [log -> T]
      BY <2>1
    <3>2. ASSUME NEW a \in log, NEW b \in log, h[a] = h[b] PROVE a = b
      BY <2>1, <3>2
    <3> QED BY <3>1, <3>2 DEF Injection, IsInjective
  <2> QED BY <2>2, <2>3, FS_Injection
<1>2. e \in after /\ g \in after
  BY DEF Streams!Batch
<1>3. Streams!Cardinality(below(g)) < BatchSize /\ ~(Streams!Cardinality(below(e)) < BatchSize)
  BY <1>2 DEF Streams!Batch
<1>4. SUFFICES ASSUME ~(g.id < e.id) PROVE FALSE
  OBVIOUS
<1>5. \A f \in log : f.id \in Int
  BY DEF Streams!TypeOK, Streams!Event
<1>6. below(e) \subseteq below(g)
  BY <1>2, <1>4, <1>5
<1>7. IsFiniteSet(below(g))
  BY <1>1, FS_Subset
<1>8. IsFiniteSet(below(e)) /\ Cardinality(below(e)) <= Cardinality(below(g))
  BY <1>6, <1>7, FS_Subset
<1>9. Cardinality(below(e)) \in Nat /\ Cardinality(below(g)) \in Nat
  BY <1>7, <1>8, FS_CardinalityType
<1> HIDE DEF below
<1> QED BY <1>3, <1>8, <1>9, StreamsCounted, RealtimeAssumption

LEMMA StreamTurnInv == ASSUME RealtimeInv, Streams!StreamTurn PROVE RealtimeInv'
<1>0. Streams!TypeOK /\ Ids /\ RevisionFits /\ StreamFits
  BY DEF RealtimeInv
<1> DEFINE sent == {e.id : e \in Streams!Sent}
           batch == {e.id : e \in Streams!Batch}
<1>a. PICK sh, last, cursor, w :
         /\ sh = IF Streams!Clears THEN {}
                 ELSE {d \in browser.shown : d \in Streams!Visible
                     \/ \A e \in Streams!Sent : e.subject # d}
         /\ last = IF Streams!Sent = {} THEN browser.last ELSE Streams!MaxOf(sent)
         /\ cursor = IF Streams!Batch = {} THEN stream.cursor ELSE Streams!MaxOf(batch)
         /\ w = (stream.whole \/ Streams!Clears)
  OBVIOUS
<1>1. /\ browser' = [browser EXCEPT !.shown = sh, !.last = last]
      /\ stream' = [stream EXCEPT !.cursor = cursor, !.employee = employee, !.whole = w]
      /\ UNCHANGED <<assigned, employee, lastId, writing, log, late, session>>
  BY <1>a DEF Streams!StreamTurn, Streams!records
<1>2. /\ Streams!Tail \in 0..MaxEvent /\ \A e \in log : e.id <= Streams!Tail /\ e.id \in 1..MaxEvent
      /\ browser.last \in 0..MaxEvent /\ stream.cursor \in 0..MaxEvent
      /\ stream.whole \in BOOLEAN /\ employee \in BOOLEAN
      /\ browser \in [shown : SUBSET Deal, revision : 0..MaxEvent, last : 0..MaxEvent]
      /\ stream \in [open : BOOLEAN, cursor : 0..MaxEvent, employee : BOOLEAN, whole : BOOLEAN]
  BY <1>0, Latest DEF Streams!TypeOK, Streams!Event
<1>3. browser.last <= stream.cursor /\ stream.cursor <= Streams!Tail
  BY <1>0 DEF StreamFits
<1>4. Streams!Sent \subseteq Streams!Batch /\ Streams!Batch \subseteq log
      /\ \A e \in Streams!Batch : e.id > stream.cursor
  BY DEF Streams!Sent, Streams!Batch
<1>5. sent \in SUBSET (0..MaxEvent) /\ batch \in SUBSET (0..MaxEvent) /\ sent \subseteq batch
  BY <1>2, <1>4
<1>6. /\ Streams!Batch # {} => /\ cursor \in batch
                               /\ \A x \in batch : x <= cursor
      /\ Streams!Sent # {} => last \in sent
  <2>1. (Streams!Batch # {} => batch # {}) /\ (Streams!Sent # {} => sent # {})
    OBVIOUS
  <2>2. batch # {} => /\ Streams!MaxOf(batch) \in batch
                      /\ \A x \in batch : x <= Streams!MaxOf(batch)
    BY <1>5, MaxOfs
  <2>3. sent # {} => Streams!MaxOf(sent) \in sent
    BY <1>5, MaxOfs
  <2> HIDE DEF batch, sent
  <2> QED BY <1>a, <2>1, <2>2, <2>3
<1>7. /\ cursor \in 0..MaxEvent /\ last \in 0..MaxEvent
      /\ stream.cursor <= cursor /\ cursor <= Streams!Tail /\ last <= cursor
  <2>1. CASE Streams!Batch = {}
    <3>1. Streams!Sent = {}
      BY <1>4, <2>1
    <3> QED BY <1>2, <1>3, <1>a, <2>1, <3>1
  <2>2. CASE Streams!Batch # {}
    <3>1. PICK e \in Streams!Batch : cursor = e.id
      BY <1>6, <2>2
    <3>2. cursor \in 0..MaxEvent /\ stream.cursor <= cursor /\ cursor <= Streams!Tail
      BY <1>2, <1>4, <3>1
    <3>3. CASE Streams!Sent = {}
      BY <1>2, <1>3, <1>a, <3>2, <3>3
    <3>4. CASE Streams!Sent # {}
      BY <1>5, <1>6, <2>2, <3>2, <3>4
    <3> QED BY <3>2, <3>3, <3>4
  <2> QED BY <2>1, <2>2
<1>8. sh \subseteq browser.shown /\ sh \in SUBSET Deal
  BY <1>2, <1>a
<1>9. w \in BOOLEAN
  BY <1>a
<1>10. browser' \in [shown : SUBSET Deal, revision : 0..MaxEvent, last : 0..MaxEvent]
       /\ browser'.shown = sh /\ browser'.last = last /\ browser'.revision = browser.revision
  BY <1>1, <1>2, <1>7, <1>8, Zenon
<1>11. stream' \in [open : BOOLEAN, cursor : 0..MaxEvent, employee : BOOLEAN, whole : BOOLEAN]
       /\ stream'.cursor = cursor /\ stream'.whole = w
  <2>1. PICK b : b = employee
    OBVIOUS
  <2> QED BY <1>1, <1>2, <1>7, <1>9, <2>1, Zenon
<1>12. Streams!TypeOK' /\ Ids' /\ RevisionFits'
  BY <1>0, <1>1, <1>8, <1>10, <1>11, LatestStays DEF Streams!TypeOK, Ids, RevisionFits, Streams!Visible
<1>13. ASSUME ~late.byEvent, w, NEW d \in sh \ Streams!Visible
       PROVE  \E e \in log : e.access /\ e.id > cursor
  <2>1. ~Streams!Clears /\ stream.whole
    BY <1>13, <1>a
  <2>2. PICK e \in log : e.access /\ e.id > stream.cursor
    BY <1>0, <1>8, <1>13, <2>1 DEF StreamFits
  <2>3. e \notin Streams!Batch
    BY <2>1, <2>2 DEF Streams!Clears, Streams!Sent
  <2>4. \A g \in Streams!Batch : g.id < e.id
    BY <1>0, <2>2, <2>3, BatchIsFirst
  <2>5. cursor < e.id
    BY <1>6, <1>a, <2>2, <2>4, <1>2
  <2> QED BY <1>2, <1>7, <2>2, <2>5
<1>14. StreamFits'
  <2>1. Streams!Visible' = Streams!Visible /\ Streams!Tail' = Streams!Tail
    BY <1>1, LatestStays DEF Streams!Visible
  <2> QED BY <1>1, <1>7, <1>10, <1>11, <1>13, <2>1 DEF StreamFits
<1> QED BY <1>12, <1>14 DEF RealtimeInv

LEMMA RealtimePart == [Next]_vars => [Streams!Next]_realtimeVars
BY DEF Next, vars, realtimeVars

LEMMA RealtimeStep == ASSUME RealtimeInv, [Streams!Next]_realtimeVars PROVE RealtimeInv'
<1>1. CASE Streams!Next
  BY <1>1, FlushInv, CommitInv, ImportSubscriptionsInv, BrowserInv, ConnectInv, StreamTurnInv DEF Streams!Next
<1>2. CASE UNCHANGED realtimeVars
  <2>1. UNCHANGED <<assigned, employee, lastId, writing, log, late, session, stream, browser>>
    BY <1>2 DEF realtimeVars
  <2> QED BY <2>1, LatestStays DEF RealtimeInv, Streams!TypeOK, Ids, RevisionFits, StreamFits,
                 Streams!Visible
<1> QED BY <1>1, <1>2

LEMMA RealtimeAlways == Spec => []RealtimeInv
<1>1. Init => RealtimeInv
  <2> SUFFICES ASSUME Init PROVE RealtimeInv
    OBVIOUS
  <2>1. /\ assigned = Deal /\ employee = TRUE /\ lastId = 0
        /\ writing = [s \in Streams!Subject |-> 0] /\ log = {}
        /\ late = [byEvent |-> FALSE, byAccess |-> FALSE] /\ session = "live"
        /\ stream = [open |-> FALSE, cursor |-> 0, employee |-> TRUE, whole |-> FALSE]
        /\ browser = [shown |-> {}, revision |-> 0, last |-> 0]
    BY DEF Init, Streams!Init
  <2>2. Streams!TypeOK
    BY <2>1, RealtimeAssumption DEF Streams!TypeOK
  <2>3. Streams!Tail = 0 /\ Streams!AccessRevision = 0
    <3>1. {e.id : e \in log} = {} /\ {e.id : e \in {x \in log : x.access}} = {}
      BY <2>1
    <3> QED BY <3>1 DEF Streams!Tail, Streams!AccessRevision, Streams!MaxOf
  <2>4. Ids
    BY <2>1 DEF Ids
  <2>5. RevisionFits /\ StreamFits
    BY <2>1, <2>3 DEF RevisionFits, StreamFits
  <2> QED BY <2>2, <2>4, <2>5 DEF RealtimeInv
<1>2. RealtimeInv /\ [Next]_vars => RealtimeInv'
  BY RealtimeStep, RealtimePart
<1> QED BY <1>1, <1>2, PTL DEF Spec

(* A browser whose answer of /auth/me is current, or that reads a stream    *)
(* without a gap to its end, shows only what its user may see, unless an    *)
(* event committed behind a later one: for any deals, transactions and      *)
(* sizes of a batch and a replay.                                           *)
THEOREM NothingStaleIsEverShown == Spec => []NothingStaleIsShown
<1>1. RealtimeInv => NothingStaleIsShown
  <2> SUFFICES ASSUME RealtimeInv PROVE Streams!NothingStaleIsShown
    BY DEF NothingStaleIsShown
  <2>0. Streams!TypeOK /\ RevisionFits /\ StreamFits
    BY DEF RealtimeInv
  <2>1. \A e \in log : e.id <= Streams!Tail /\ e.id \in Int
    BY <2>0, Latest DEF Streams!TypeOK, Streams!Event
  <2>2. Streams!Tail \in Int
    BY <2>0, Latest
  <2>3. stream.whole /\ stream.cursor = Streams!Tail /\ ~late.byEvent
            => browser.shown \subseteq Streams!Visible
    BY <2>0, <2>1, <2>2 DEF StreamFits
  <2> QED BY <2>0, <2>3 DEF RevisionFits, Streams!NothingStaleIsShown
<1> QED BY <1>1, RealtimeAlways, PTL

-------------------------------------------------------------------------------
(* WebPush: a registration that will commit leaves room for its row, and    *)
(* its endpoint and its row are nobody else's.                              *)
RegistrationRow == [endpoint : Endpoint, row : Devices!Row, dead : SUBSET Devices!Row,
                    stale : SUBSET Devices!Row]

PushTypes ==
    /\ lastRow \in 0..MaxRow /\ DOMAIN subscription \subseteq 1..lastRow
    /\ subscription \in [DOMAIN subscription -> Devices!Subscription]
    /\ registering \in [User -> {Devices!Idle} \cup RegistrationRow]
    /\ queued \subseteq User /\ tested \subseteq User
    /\ push \in [User -> [running : BOOLEAN, rows : SUBSET Devices!Row]]

(* What stays of a user's rows when his registration q commits *)
Remaining(u, q) == Devices!RowsOf(u) \ ({q.row} \cup q.dead \cup q.stale)

Registers(u) ==
    registering[u] # Devices!Idle =>
        LET q == registering[u]
        IN  /\ q.row <= lastRow
            /\ Devices!RowsAt(q.endpoint) \subseteq {q.row}
            /\ \A v \in User : v # u /\ registering[v] # Devices!Idle =>
                  registering[v].endpoint # q.endpoint /\ registering[v].row # q.row
            /\ Devices!Cardinality(Remaining(u, q)) + 1 <= Cap

PushInv ==
    /\ PushTypes
    /\ \A u \in User : Devices!Cardinality(Devices!RowsOf(u)) <= Cap /\ Registers(u)
    /\ \A m, n \in DOMAIN subscription : subscription[m].endpoint = subscription[n].endpoint => m = n
-------------------------------------------------------------------------------
LEMMA DevicesCounted == ASSUME NEW S PROVE Devices!Cardinality(S) = Cardinality(S)
BY DEF Devices!Cardinality, Cardinality

LEMMA FewerRows ==
    ASSUME NEW S, NEW T, S \subseteq Devices!Row, T \subseteq S
    PROVE  /\ Devices!Cardinality(T) <= Devices!Cardinality(S)
           /\ Devices!Cardinality(S) \in Nat /\ Devices!Cardinality(T) \in Nat
<1>1. IsFiniteSet(Devices!Row)
  BY PushAssumption, FS_Interval DEF Devices!Row
<1>2. IsFiniteSet(S)
  BY <1>1, FS_Subset
<1>3. IsFiniteSet(T) /\ Cardinality(T) <= Cardinality(S) /\ Cardinality(S) \in Nat
          /\ Cardinality(T) \in Nat
  BY <1>2, FS_Subset, FS_CardinalityType
<1> QED BY <1>3, DevicesCounted

LEMMA RowsAreRows == ASSUME PushTypes PROVE DOMAIN subscription \subseteq Devices!Row
BY PushAssumption DEF PushTypes, Devices!Row

(* No row changes hands or comes, and a registration stays or is given up. *)
LEMMA RowsShrink ==
    ASSUME PushInv, PushTypes', lastRow' = lastRow,
           DOMAIN subscription' \subseteq DOMAIN subscription,
           \A n \in DOMAIN subscription' : /\ subscription'[n].user = subscription[n].user
                                           /\ subscription'[n].endpoint = subscription[n].endpoint,
           \A u \in User : registering'[u] \in {registering[u], Devices!Idle}
    PROVE  PushInv'
<1>1. ASSUME NEW u \in User PROVE Devices!RowsOf(u)' \subseteq Devices!RowsOf(u)
  BY DEF Devices!RowsOf
<1>2. ASSUME NEW u \in User PROVE Devices!RowsOf(u) \subseteq Devices!Row
  BY RowsAreRows DEF PushInv, Devices!RowsOf
<1>3. ASSUME NEW u \in User PROVE Devices!Cardinality(Devices!RowsOf(u)') <= Cap
  <2>1. Devices!Cardinality(Devices!RowsOf(u)') <= Devices!Cardinality(Devices!RowsOf(u))
        /\ Devices!Cardinality(Devices!RowsOf(u)) \in Nat
               /\ Devices!Cardinality(Devices!RowsOf(u)') \in Nat
    BY <1>1, <1>2, FewerRows
  <2>2. Devices!Cardinality(Devices!RowsOf(u)) <= Cap
    BY DEF PushInv
  <2> QED BY <2>1, <2>2, PushAssumption
<1>4. ASSUME NEW u \in User, registering'[u] # Devices!Idle
      PROVE  Registers(u)'
  <2>1. registering'[u] = registering[u] /\ Registers(u)
    BY <1>4 DEF PushInv
  <2> DEFINE q == registering[u]
  <2>2. q.row <= lastRow' /\ (Devices!RowsAt(q.endpoint))' \subseteq {q.row}
    <3>1. q.row <= lastRow /\ Devices!RowsAt(q.endpoint) \subseteq {q.row}
      BY <1>4, <2>1 DEF Registers
    <3>2. PICK e : e = q.endpoint
      OBVIOUS
    <3>3. registering'[u].endpoint = e
      BY <2>1, <3>2
    <3>4. Devices!RowsAt(e)' \subseteq Devices!RowsAt(e)
      BY DEF Devices!RowsAt
    <3>5. (Devices!RowsAt(q.endpoint))' = Devices!RowsAt(e)'
      BY <2>1, <3>2, <3>3 DEF Devices!RowsAt
    <3> QED BY <3>1, <3>2, <3>4, <3>5
  <2>3. ASSUME NEW v \in User, v # u, registering'[v] # Devices!Idle
        PROVE  registering'[v].endpoint # q.endpoint /\ registering'[v].row # q.row
    <3>1. registering'[v] = registering[v]
      BY <2>3
    <3> QED BY <1>4, <2>1, <2>3, <3>1 DEF Registers
  <2>4. Devices!Cardinality(Remaining(u, q)') + 1 <= Cap
    <3>1. Devices!Cardinality(Remaining(u, q)) + 1 <= Cap
      BY <1>4, <2>1 DEF Registers
    <3>2. Remaining(u, q)' \subseteq Remaining(u, q) /\ Remaining(u, q) \subseteq Devices!Row
      BY <1>1, <1>2, <2>1 DEF Remaining
    <3>3. Devices!Cardinality(Remaining(u, q)') <= Devices!Cardinality(Remaining(u, q))
          /\ Devices!Cardinality(Remaining(u, q)) \in Nat /\ Devices!Cardinality(Remaining(u, q)') \in Nat
      BY <3>2, FewerRows
    <3> QED BY <3>1, <3>3, PushAssumption
  <2>5. (registering[u] = registering[u])'
    OBVIOUS
  <2> QED BY <2>1, <2>2, <2>3, <2>4 DEF Registers
<1>5. \A u \in User : Registers(u)'
  BY <1>4 DEF Registers
<1>6. (\A u \in User : Devices!Cardinality(Devices!RowsOf(u)) <= Cap)'
  BY <1>3
<1>7. (\A m, n \in DOMAIN subscription : subscription[m].endpoint = subscription[n].endpoint => m = n)'
  BY DEF PushInv
<1> QED BY <1>5, <1>6, <1>7 DEF PushInv

LEMMA OtherPushInv ==
    ASSUME PushInv, PushTypes', UNCHANGED <<subscription, lastRow, registering>>
    PROVE  PushInv'
<1>1. \A u \in User : registering'[u] \in {registering[u], Devices!Idle}
  OBVIOUS
<1> QED BY <1>1, RowsShrink

LEMMA RollBackInv == ASSUME PushInv, NEW u \in User, Devices!RollBack(u) PROVE PushInv'
<1>1. PushTypes'
  BY DEF PushInv, PushTypes, Devices!RollBack
<1>2. \A v \in User : registering'[v] \in {registering[v], Devices!Idle}
  BY DEF PushInv, PushTypes, Devices!RollBack
<1>3. UNCHANGED <<subscription, lastRow>>
  BY DEF Devices!RollBack
<1> QED BY <1>1, <1>2, <1>3, RowsShrink

LEMMA DeleteSubscriptionInv ==
    ASSUME PushInv, NEW u \in User, NEW e \in Endpoint, Devices!DeleteSubscription(u, e)
    PROVE  PushInv'
<1> DEFINE D == DOMAIN subscription \ Devices!RowsAt(e)
<1>1. subscription' = [n \in D |-> subscription[n]]
  BY DEF Devices!DeleteSubscription, Devices!Restrict
<1>2. DOMAIN subscription' = D /\ \A n \in D : subscription'[n] = subscription[n]
  BY <1>1
<1>3. PushTypes'
  <2>1. D \subseteq DOMAIN subscription
    OBVIOUS
  <2> HIDE DEF D
  <2>2. subscription' \in [D -> Devices!Subscription]
    BY <1>1, <2>1 DEF PushInv, PushTypes
  <2> QED BY <1>2, <2>1, <2>2 DEF PushInv, PushTypes, Devices!DeleteSubscription
<1>4. \A v \in User : registering'[v] \in {registering[v], Devices!Idle}
  BY DEF Devices!DeleteSubscription
<1>5. lastRow' = lastRow
  BY DEF Devices!DeleteSubscription
<1> QED BY <1>2, <1>3, <1>4, <1>5, RowsShrink

LEMMA ExpireInv ==
    ASSUME PushInv, NEW n \in DOMAIN subscription, Devices!Expire(n)
    PROVE  PushInv' /\ \A m \in DOMAIN subscription : subscription'[m].active = subscription[m].active
<1> DEFINE x == [subscription[n] EXCEPT !.expired = TRUE]
<1>1. subscription[n] \in Devices!Subscription
  BY DEF PushInv, PushTypes
<1>2. /\ x \in Devices!Subscription
      /\ x.user = subscription[n].user /\ x.endpoint = subscription[n].endpoint
      /\ x.active = subscription[n].active
  BY <1>1 DEF Devices!Subscription
<1>3. subscription' = [subscription EXCEPT ![n] = x]
  BY DEF Devices!Expire
<1> HIDE DEF x
<1>4. DOMAIN subscription' = DOMAIN subscription
  BY <1>3
<1>5. \A m \in DOMAIN subscription : /\ subscription'[m].user = subscription[m].user
                                     /\ subscription'[m].endpoint = subscription[m].endpoint
                                     /\ subscription'[m].active = subscription[m].active
  BY <1>2, <1>3
<1>6. PushTypes'
  BY <1>2, <1>3, <1>4 DEF PushInv, PushTypes, Devices!Expire
<1>7. lastRow' = lastRow /\ \A v \in User : registering'[v] \in {registering[v], Devices!Idle}
  BY DEF Devices!Expire
<1> QED BY <1>4, <1>5, <1>6, <1>7, RowsShrink

(* Results are written to the user's own rows. *)
LEMMA RecordResultsInv ==
    ASSUME PushInv, NEW u \in User, NEW taken, NEW later, Devices!RecordResults(u, taken, later)
    PROVE  /\ PushInv'
           /\ \A n \in DOMAIN subscription :
                 subscription'[n].active # subscription[n].active => subscription[n].user = u
<1> DEFINE on(n) == n \in taken \cup later
           x(n) == [subscription[n] EXCEPT !.active = on(n)]
           W == Devices!Written(u)
<1>1. subscription' = [n \in DOMAIN subscription |-> IF n \in W THEN x(n) ELSE subscription[n]]
  BY DEF Devices!RecordResults
<1>2. ASSUME NEW n \in DOMAIN subscription
      PROVE  /\ subscription'[n] \in Devices!Subscription
             /\ subscription'[n].user = subscription[n].user
             /\ subscription'[n].endpoint = subscription[n].endpoint
             /\ subscription'[n].active # subscription[n].active => n \in W
  <2>1. subscription[n] \in Devices!Subscription
    BY DEF PushInv, PushTypes
  <2>2. PICK b \in BOOLEAN : b = on(n)
    <3>1. on(n) \in BOOLEAN
      OBVIOUS
    <3> HIDE DEF on
    <3> QED BY <3>1
  <2> HIDE DEF on, W
  <2>3. x(n) \in Devices!Subscription /\ x(n).user = subscription[n].user
            /\ x(n).endpoint = subscription[n].endpoint
    BY <2>1, <2>2 DEF Devices!Subscription
  <2> QED BY <1>1, <2>1, <2>3
<1>3. DOMAIN subscription' = DOMAIN subscription
  BY <1>1
<1>4. \A n \in W : n \in DOMAIN subscription /\ subscription[n].user = u
  BY DEF Devices!Written, Devices!RowsOf
<1>5. PushTypes'
  <2>1. subscription' \in [DOMAIN subscription' -> Devices!Subscription]
    <3> DEFINE f(n) == IF n \in W THEN x(n) ELSE subscription[n]
    <3>1. \A n \in DOMAIN subscription : f(n) \in Devices!Subscription
      BY <1>1, <1>2
    <3>2. subscription' = [n \in DOMAIN subscription |-> f(n)]
      BY <1>1
    <3> HIDE DEF f
    <3> QED BY <3>1, <3>2
  <2>2. queued' \subseteq User
    BY DEF PushInv, PushTypes, Devices!RecordResults
  <2>3. push' \in [User -> [running : BOOLEAN, rows : SUBSET Devices!Row]]
    BY DEF PushInv, PushTypes, Devices!RecordResults
  <2> QED BY <1>3, <2>1, <2>2, <2>3 DEF PushInv, PushTypes, Devices!RecordResults
<1>6. lastRow' = lastRow /\ \A v \in User : registering'[v] \in {registering[v], Devices!Idle}
  BY DEF Devices!RecordResults
<1>7. PushInv'
  BY <1>2, <1>3, <1>5, <1>6, RowsShrink
<1> QED BY <1>2, <1>4, <1>7

(* The rows that are kept and the registered one are Cap at most. *)
LEMMA SurplusLeavesRoom ==
    ASSUME NEW S, S \subseteq Devices!Row, NEW stale \in SUBSET S,
           Devices!Cardinality(stale) = Devices!Surplus(S)
    PROVE  Devices!Cardinality(S \ stale) + 1 <= Cap
<1>1. IsFiniteSet(Devices!Row)
  BY PushAssumption, FS_Interval DEF Devices!Row
<1>2. IsFiniteSet(S)
  BY <1>1, FS_Subset
<1>3. Cardinality(S \ stale) = Cardinality(S) - Cardinality(S \cap stale) /\ Cardinality(S) \in Nat
  BY <1>2, FS_Difference, FS_CardinalityType
<1>4. S \cap stale = stale
  OBVIOUS
<1>5. Cardinality(S \ stale) = Cardinality(S) - Devices!Surplus(S)
  BY <1>3, <1>4, DevicesCounted
<1>6. Devices!Surplus(S) = IF Cardinality(S) + 1 > Cap THEN Cardinality(S) + 1 - Cap ELSE 0
  BY DevicesCounted DEF Devices!Surplus
<1> QED BY <1>3, <1>5, <1>6, PushAssumption, DevicesCounted

LEMMA LockedRows ==
    ASSUME NEW v \in User, registering[v] # Devices!Idle
    PROVE  registering[v].row \in Devices!Locked
BY DEF Devices!Locked, Devices!LockedBy

LEMMA RegisterInv ==
    ASSUME PushInv, NEW u \in User, NEW e \in Endpoint, Devices!Register(u, e)
    PROVE  PushInv'
<1>1. /\ PushTypes
      /\ \A m, n \in DOMAIN subscription : subscription[m].endpoint = subscription[n].endpoint => m = n
  BY DEF PushInv
<1> DEFINE own == IF Devices!RowsAt(e) = {} THEN lastRow + 1 ELSE CHOOSE n \in Devices!RowsAt(e) : TRUE
           others == Devices!RowsOf(u) \ {own}
           dead == others \ Devices!ActiveRows(u)
<1>2. PICK stale \in SUBSET (others \ dead) :
         /\ Devices!Cardinality(stale) = Devices!Surplus(others \ dead)
         /\ registering' = [registering EXCEPT ![u] = [endpoint |-> e, row |-> own, dead |-> dead,
                stale |-> stale]]
  BY DEF Devices!Register
<1>3. /\ own <= MaxRow
      /\ lastRow' = IF own > lastRow THEN own ELSE lastRow
      /\ Devices!RowsAt(e) \cap Devices!Locked = {}
      /\ \A v \in User : registering[v].endpoint # e
      /\ UNCHANGED <<subscription, queued, tested, push>>
  BY DEF Devices!Register
<1>4. /\ own \in 1..MaxRow /\ Devices!RowsAt(e) \subseteq {own}
      /\ own > lastRow \/ own \in Devices!RowsAt(e)
  <2>1. CASE Devices!RowsAt(e) = {}
    <3>1. own = lastRow + 1 /\ lastRow \in Nat
      BY <1>1, <2>1 DEF PushTypes
    <3> QED BY <1>3, <2>1, <3>1
  <2>2. CASE Devices!RowsAt(e) # {}
    <3>1. own \in Devices!RowsAt(e)
      BY <2>2
    <3>2. \A n \in Devices!RowsAt(e) : n \in DOMAIN subscription /\ subscription[n].endpoint = e
      BY DEF Devices!RowsAt
    <3> HIDE DEF own
    <3>3. Devices!RowsAt(e) \subseteq {own} /\ own \in DOMAIN subscription
      BY <1>1, <3>1, <3>2
    <3>4. own \in Devices!Row
      BY <1>1, <3>3, RowsAreRows
    <3> QED BY <3>1, <3>3, <3>4 DEF Devices!Row
  <2> QED BY <2>1, <2>2
<1> HIDE DEF own
<1>5. /\ others \subseteq Devices!Row /\ others = Devices!RowsOf(u) \ {own}
      /\ dead \subseteq others
  <2>1. Devices!RowsOf(u) \subseteq Devices!Row
    BY <1>1, RowsAreRows DEF Devices!RowsOf
  <2> QED BY <2>1
<1>6. Devices!Cardinality((others \ dead) \ stale) + 1 <= Cap
  BY <1>2, <1>5, SurplusLeavesRoom
<1> HIDE DEF others, dead
<1> DEFINE q == [endpoint |-> e, row |-> own, dead |-> dead, stale |-> stale]
<1>7. q \in RegistrationRow /\ q.endpoint = e /\ q.row = own /\ q.dead = dead /\ q.stale = stale
  BY <1>2, <1>4, <1>5 DEF RegistrationRow, Devices!Row
<1>8. registering' = [registering EXCEPT ![u] = q]
  BY <1>2
<1> HIDE DEF q
<1>9. lastRow \in Nat /\ lastRow' \in Nat /\ lastRow <= lastRow' /\ own <= lastRow' /\ lastRow' <= MaxRow
  BY <1>1, <1>3, <1>4, PushAssumption DEF PushTypes
<1>10. PushTypes'
  <2>1. registering' \in [User -> {Devices!Idle} \cup RegistrationRow]
    BY <1>1, <1>7, <1>8 DEF PushTypes
  <2>2. DOMAIN subscription' \subseteq 1..lastRow'
    BY <1>1, <1>3, <1>9 DEF PushTypes
  <2>3. lastRow' \in 0..MaxRow
    BY <1>9, PushAssumption
  <2> QED BY <1>1, <1>3, <2>1, <2>2, <2>3 DEF PushTypes
<1>11. registering'[u] = q /\ \A v \in User : v # u => registering'[v] = registering[v]
  BY <1>1, <1>8 DEF PushTypes
<1>12. ASSUME NEW v \in User, v # u, registering[v] # Devices!Idle
       PROVE  /\ registering[v].endpoint # e /\ registering[v].row # own
              /\ Registers(v) /\ registering[v].row \in Nat /\ registering[v].row <= lastRow
  <2>1. registering[v].row \in Devices!Locked
    BY <1>12, LockedRows
  <2>2. Registers(v) /\ registering[v] \in RegistrationRow
    BY <1>1, <1>12 DEF PushInv, PushTypes
  <2>3. registering[v].row \in Nat /\ registering[v].row <= lastRow
    BY <1>12, <2>2 DEF Registers, RegistrationRow, Devices!Row
  <2>4. registering[v].row # own
    <3>1. CASE own > lastRow
      BY <1>4, <1>9, <2>3, <3>1
    <3>2. CASE own \in Devices!RowsAt(e)
      BY <1>3, <2>1, <3>2
    <3> QED BY <1>4, <3>1, <3>2
  <2> QED BY <1>3, <2>2, <2>3, <2>4
<1>13. Registers(u)'
  <2>1. (Devices!RowsAt(registering[u].endpoint) \subseteq {registering[u].row})'
    <3>1. Devices!RowsAt(e)' = Devices!RowsAt(e)
      BY <1>3 DEF Devices!RowsAt
    <3>2. (Devices!RowsAt(registering[u].endpoint))' = Devices!RowsAt(e)'
      BY <1>7, <1>11 DEF Devices!RowsAt
    <3> QED BY <1>4, <1>7, <1>11, <3>1, <3>2
  <2>2. (Devices!Cardinality(Remaining(u, registering[u])) + 1 <= Cap)'
    <3>1. Devices!RowsOf(u)' = Devices!RowsOf(u)
      BY <1>3 DEF Devices!RowsOf
    <3>2. (Remaining(u, registering[u]))' = (others \ dead) \ stale
      BY <1>5, <1>7, <1>11, <3>1 DEF Remaining
    <3>3. (Devices!Cardinality(Remaining(u, registering[u])))'
            = Devices!Cardinality((others \ dead) \ stale)
      BY <3>2 DEF Devices!Cardinality
    <3> QED BY <1>6, <3>3
  <2>3. (registering[u].row <= lastRow)'
    BY <1>7, <1>9, <1>11
  <2>4. (\A v \in User : v # u /\ registering[v] # Devices!Idle =>
           registering[v].endpoint # registering[u].endpoint /\ registering[v].row # registering[u].row)'
    BY <1>7, <1>11, <1>12
  <2> QED BY <2>1, <2>2, <2>3, <2>4 DEF Registers
<1>14. ASSUME NEW v \in User, v # u, registering[v] # Devices!Idle PROVE Registers(v)'
  <2>1. registering'[v] = registering[v]
    BY <1>11, <1>14
  <2>2. /\ registering[v].row <= lastRow'
        /\ registering[v].endpoint # e /\ registering[v].row # own
    BY <1>9, <1>12, <1>14
  <2>3. (Devices!RowsAt(registering[v].endpoint))' = Devices!RowsAt(registering[v].endpoint)
    BY <1>3, <2>1 DEF Devices!RowsAt
  <2>4. (Devices!Cardinality(Remaining(v, registering[v])))'
            = Devices!Cardinality(Remaining(v, registering[v]))
    <3>1. (Remaining(v, registering[v]))' = Remaining(v, registering[v])
      BY <1>3, <2>1 DEF Remaining, Devices!RowsOf
    <3> QED BY <3>1 DEF Devices!Cardinality
  <2>5. Registers(v)
    BY <1>12, <1>14
  <2> DEFINE r == registering[v]
  <2>6. /\ Devices!RowsAt(r.endpoint) \subseteq {r.row}
        /\ \A w \in User : w # v /\ registering[w] # Devices!Idle =>
                  registering[w].endpoint # r.endpoint /\ registering[w].row # r.row
        /\ Devices!Cardinality(Remaining(v, r)) + 1 <= Cap
    BY <2>5, <1>14 DEF Registers
  <2>7. (\A w \in User : w # v /\ registering[w] # Devices!Idle =>
           registering[w].endpoint # registering[v].endpoint /\ registering[w].row # registering[v].row)'
    BY <1>7, <1>11, <2>1, <2>2, <2>6
  <2> QED BY <2>1, <2>2, <2>3, <2>4, <2>6, <2>7 DEF Registers
<1>15. \A v \in User : Registers(v)'
  BY <1>11, <1>13, <1>14 DEF Registers
<1>16. (\A v \in User : Devices!Cardinality(Devices!RowsOf(v)) <= Cap)'
  <2>1. ASSUME NEW v \in User
        PROVE (Devices!Cardinality(Devices!RowsOf(v)))' = Devices!Cardinality(Devices!RowsOf(v))
    BY <1>3 DEF Devices!RowsOf, Devices!Cardinality
  <2> QED BY <2>1 DEF PushInv
<1>17. (\A m, n \in DOMAIN subscription : subscription[m].endpoint = subscription[n].endpoint => m = n)'
  BY <1>1, <1>3
<1> QED BY <1>10, <1>15, <1>16, <1>17 DEF PushInv

LEMMA CommitRegistrationInv ==
    ASSUME PushInv, NEW u \in User, Devices!CommitRegistration(u)
    PROVE  /\ PushInv'
           /\ \A n \in DOMAIN subscription \cap DOMAIN subscription' :
                 n # registering[u].row => subscription'[n] = subscription[n]
<1>1. /\ PushTypes
      /\ \A m, n \in DOMAIN subscription : subscription[m].endpoint = subscription[n].endpoint => m = n
  BY DEF PushInv
<1> DEFINE q == registering[u]
           D == (DOMAIN subscription \cup {q.row}) \ (q.dead \cup q.stale)
           own == [user |-> u, endpoint |-> q.endpoint, active |-> TRUE, expired |-> FALSE]
<1>2. /\ registering[u] # Devices!Idle
      /\ subscription' = [n \in D |-> IF n = q.row THEN own ELSE subscription[n]]
      /\ registering' = [registering EXCEPT ![u] = Devices!Idle]
      /\ UNCHANGED <<lastRow, queued, tested, push>>
  BY DEF Devices!CommitRegistration
<1>3. PICK r \in RegistrationRow : q = r
  BY <1>1, <1>2 DEF PushTypes
<1>4. r.endpoint \in Endpoint /\ r.row \in 1..MaxRow
  BY DEF RegistrationRow, Devices!Row
<1>5. /\ r.row <= lastRow /\ Devices!RowsAt(r.endpoint) \subseteq {r.row}
      /\ \A v \in User : v # u /\ registering[v] # Devices!Idle =>
            registering[v].endpoint # r.endpoint /\ registering[v].row # r.row
      /\ Devices!Cardinality(Remaining(u, r)) + 1 <= Cap
  BY <1>2, <1>3 DEF PushInv, Registers
<1> DEFINE C == (DOMAIN subscription \cup {r.row}) \ (r.dead \cup r.stale)
           x == [user |-> u, endpoint |-> r.endpoint, active |-> TRUE, expired |-> FALSE]
<1>6. /\ DOMAIN subscription' = C
      /\ \A n \in C : subscription'[n] = IF n = r.row THEN x ELSE subscription[n]
  BY <1>2, <1>3
<1>7. x \in Devices!Subscription /\ x.user = u /\ x.endpoint = r.endpoint
  BY <1>4 DEF Devices!Subscription
<1>8. C \subseteq DOMAIN subscription \cup {r.row}
  OBVIOUS
<1>9. subscription' = [n \in C |-> IF n = r.row THEN x ELSE subscription[n]]
  BY <1>2, <1>3
<1>10. C \ {r.row} \subseteq DOMAIN subscription /\ (C \ {r.row}) \cap (r.dead \cup r.stale) = {}
  OBVIOUS
<1> HIDE DEF q, D, own, C, x
<1>11. PushTypes'
  <2>1. \A n \in C : (IF n = r.row THEN x ELSE subscription[n]) \in Devices!Subscription
    BY <1>1, <1>7, <1>8 DEF PushTypes
  <2>2. subscription' \in [C -> Devices!Subscription]
    BY <1>9, <2>1
  <2>3. DOMAIN subscription' \subseteq 1..lastRow'
    BY <1>1, <1>2, <1>4, <1>5, <1>6, <1>8, PushAssumption DEF PushTypes
  <2>4. registering' \in [User -> {Devices!Idle} \cup RegistrationRow]
    BY <1>1, <1>2 DEF PushTypes
  <2> QED BY <1>1, <1>2, <1>6, <2>2, <2>3, <2>4 DEF PushTypes
<1>12. DOMAIN subscription \subseteq Devices!Row
  BY <1>1, RowsAreRows
<1>13. /\ Devices!RowsOf(u)' \subseteq Remaining(u, r) \cup {r.row}
       /\ \A v \in User : v # u => Devices!RowsOf(v)' \subseteq Devices!RowsOf(v) \ (r.dead \cup r.stale)
  BY <1>6, <1>7, <1>10 DEF Devices!RowsOf, Remaining
<1>14. ASSUME NEW v \in User PROVE Devices!Cardinality(Devices!RowsOf(v)') <= Cap
  <2>1. CASE v = u
    <3> DEFINE S == Remaining(u, r)
    <3>1. S \subseteq Devices!Row /\ S \cup {r.row} \subseteq Devices!Row
      BY <1>4, <1>12 DEF Remaining, Devices!RowsOf, Devices!Row
    <3>2. IsFiniteSet(S)
      <4>1. IsFiniteSet(Devices!Row)
        BY FS_Interval, PushAssumption DEF Devices!Row
      <4> QED BY <3>1, <4>1, FS_Subset
    <3>3. Devices!RowsOf(u)' \subseteq S \cup {r.row}
      BY <1>13
    <3>4. Devices!Cardinality(S) + 1 <= Cap
      BY <1>5
    <3> HIDE DEF S
    <3>5. /\ Cardinality(S) \in Nat
          /\ Cardinality(S \cup {r.row}) = IF r.row \in S THEN Cardinality(S) ELSE Cardinality(S) + 1
      BY <3>2, FS_AddElement, FS_CardinalityType
    <3>6. Devices!Cardinality(S \cup {r.row}) <= Cap
      BY <3>4, <3>5, DevicesCounted, PushAssumption
    <3>7. /\ Devices!Cardinality(Devices!RowsOf(u)') <= Devices!Cardinality(S \cup {r.row})
          /\ Devices!Cardinality(S \cup {r.row}) \in Nat
                 /\ Devices!Cardinality(Devices!RowsOf(u)') \in Nat
      BY <3>1, <3>3, FewerRows
    <3> QED BY <2>1, <3>6, <3>7, PushAssumption
  <2>2. CASE v # u
    <3>1. Devices!RowsOf(v)' \subseteq Devices!RowsOf(v) /\ Devices!RowsOf(v) \subseteq Devices!Row
      BY <1>12, <1>13, <2>2 DEF Devices!RowsOf
    <3>2. /\ Devices!Cardinality(Devices!RowsOf(v)') <= Devices!Cardinality(Devices!RowsOf(v))
          /\ Devices!Cardinality(Devices!RowsOf(v)) \in Nat
                 /\ Devices!Cardinality(Devices!RowsOf(v)') \in Nat
      BY <3>1, FewerRows
    <3>3. Devices!Cardinality(Devices!RowsOf(v)) <= Cap
      BY DEF PushInv
    <3> QED BY <3>2, <3>3, PushAssumption
  <2> QED BY <2>1, <2>2
<1>15. ASSUME NEW v \in User, v # u, registering[v] # Devices!Idle PROVE Registers(v)'
  <2>1. registering'[v] = registering[v]
    BY <1>1, <1>2, <1>15 DEF PushTypes
  <2>2. PICK p \in RegistrationRow : registering[v] = p
    BY <1>1, <1>15 DEF PushTypes
  <2>3. /\ p.row <= lastRow /\ Devices!RowsAt(p.endpoint) \subseteq {p.row}
        /\ \A w \in User : w # v /\ registering[w] # Devices!Idle =>
              registering[w].endpoint # p.endpoint /\ registering[w].row # p.row
        /\ Devices!Cardinality(Remaining(v, p)) + 1 <= Cap
    BY <1>15, <2>2 DEF PushInv, Registers
  <2>4. p.endpoint # r.endpoint
    BY <1>5, <1>15, <2>2
  <2>5. Devices!RowsAt(p.endpoint)' \subseteq {p.row}
    <3>1. Devices!RowsAt(p.endpoint)' \subseteq Devices!RowsAt(p.endpoint)
      BY <1>6, <1>7, <1>10, <2>4 DEF Devices!RowsAt
    <3> QED BY <2>3, <3>1
  <2>6. Devices!Cardinality(Remaining(v, p)') + 1 <= Cap
    <3>1. Remaining(v, p)' \subseteq Remaining(v, p) /\ Remaining(v, p) \subseteq Devices!Row
      BY <1>12, <1>13, <1>15 DEF Remaining, Devices!RowsOf
    <3>2. /\ Devices!Cardinality(Remaining(v, p)') <= Devices!Cardinality(Remaining(v, p))
          /\ Devices!Cardinality(Remaining(v, p)) \in Nat /\ Devices!Cardinality(Remaining(v, p)') \in Nat
      BY <3>1, FewerRows
    <3> QED BY <2>3, <3>2, PushAssumption
  <2>7. \A w \in User : w # v /\ registering'[w] # Devices!Idle =>
              registering'[w].endpoint # p.endpoint /\ registering'[w].row # p.row
    BY <1>1, <1>2, <2>3 DEF PushTypes
  <2>8. registering'[v] = p
    BY <2>1, <2>2
  <2>9. /\ (Devices!RowsAt(registering[v].endpoint))' = Devices!RowsAt(p.endpoint)'
        /\ (Devices!Cardinality(Remaining(v, registering[v])))' = Devices!Cardinality(Remaining(v, p)')
    <3>1. (Devices!RowsAt(registering[v].endpoint))' = Devices!RowsAt(p.endpoint)'
      BY <2>8 DEF Devices!RowsAt
    <3>2. (Remaining(v, registering[v]))' = Remaining(v, p)'
      BY <2>8 DEF Remaining
    <3> QED BY <3>1, <3>2 DEF Devices!Cardinality
  <2> QED BY <1>2, <2>3, <2>5, <2>6, <2>7, <2>8, <2>9 DEF Registers
<1>16. \A v \in User : Registers(v)'
  <2>1. registering'[u] = Devices!Idle /\ \A v \in User : v # u => registering'[v] = registering[v]
    BY <1>1, <1>2 DEF PushTypes
  <2> QED BY <1>15, <2>1 DEF Registers
<1>17. ASSUME NEW m \in C, NEW n \in C, subscription'[m].endpoint = subscription'[n].endpoint PROVE m = n
  <2>1. ASSUME NEW k \in C, k # r.row
        PROVE  k \in DOMAIN subscription /\ subscription'[k] = subscription[k]
                   /\ subscription[k].endpoint # r.endpoint
    BY <1>5, <1>6, <1>10, <2>1 DEF Devices!RowsAt
  <2>2. r.row \in C => subscription'[r.row].endpoint = r.endpoint
    BY <1>6, <1>7
  <2> QED BY <1>1, <1>17, <2>1, <2>2
<1>18. \A n \in DOMAIN subscription \cap DOMAIN subscription' : n # registering[u].row
           => subscription'[n] = subscription[n]
  BY <1>3, <1>6 DEF q
<1>19. (\A v \in User : Devices!Cardinality(Devices!RowsOf(v)) <= Cap)'
  <2>1. ASSUME NEW v \in User
        PROVE (Devices!Cardinality(Devices!RowsOf(v)))' = Devices!Cardinality(Devices!RowsOf(v)')
    BY DEF Devices!Cardinality
  <2> QED BY <1>14, <2>1
<1> QED BY <1>6, <1>11, <1>16, <1>17, <1>18, <1>19 DEF PushInv

LEMMA PushPart == [Next]_vars => [Devices!Next]_pushVars
BY DEF Next, vars, pushVars

LEMMA PushTypesAre == PushInv => Devices!TypeOK
BY DEF PushInv, PushTypes, RegistrationRow, Devices!TypeOK

LEMMA PushIsCapped == PushInv => Devices!DevicesCapped
<1> SUFFICES ASSUME PushInv PROVE Devices!DevicesCapped
  OBVIOUS
<1>1. ASSUME NEW e \in Endpoint PROVE Devices!Cardinality(Devices!RowsAt(e)) <= 1
  <2>1. CASE Devices!RowsAt(e) = {}
    BY <2>1, FS_EmptySet, DevicesCounted
  <2>2. CASE Devices!RowsAt(e) # {}
    <3>1. PICK n : Devices!RowsAt(e) = {n}
      BY <2>2 DEF PushInv, Devices!RowsAt
    <3>2. Devices!Cardinality({n}) = 1
      BY FS_Singleton, DevicesCounted
    <3> QED BY <3>1, <3>2
  <2> QED BY <2>1, <2>2
<1> QED BY <1>1 DEF PushInv, Devices!DevicesCapped

LEMMA PushStep ==
    ASSUME PushInv, [Devices!Next]_pushVars
    PROVE  PushInv' /\ (UNCHANGED pushVars \/ Devices!DevicesKept)
<1>1. CASE UNCHANGED pushVars
  <2>1. PushTypes'
    BY <1>1 DEF PushInv, PushTypes, pushVars
  <2> QED BY <1>1, <2>1, OtherPushInv DEF pushVars
<1>2. CASE Devices!Next
  <2> DEFINE Kept == \A n \in DOMAIN subscription \cap DOMAIN subscription' :
                        subscription'[n].active # subscription[n].active => Devices!SwitchedByOwn(n)
  <2>1. ASSUME PushTypes', UNCHANGED <<subscription, lastRow, registering>> PROVE PushInv' /\ Kept
    BY <2>1, OtherPushInv
  <2>2. ASSUME Devices!NextMinute PROVE PushInv' /\ Kept
    <3>1. PushTypes' /\ UNCHANGED <<subscription, lastRow, registering>>
      BY <2>2 DEF PushInv, PushTypes, Devices!NextMinute
    <3> QED BY <2>1, <3>1
  <2>3. ASSUME NEW n \in DOMAIN subscription, Devices!Expire(n) PROVE PushInv' /\ Kept
    BY <2>3, ExpireInv
  <2>4. ASSUME NEW u \in User, Devices!CommitRegistration(u) PROVE PushInv' /\ Kept
    <3>1. registering[u] # Devices!Idle
      BY <2>4 DEF Devices!CommitRegistration
    <3> QED BY <2>4, <3>1, CommitRegistrationInv DEF Devices!SwitchedByOwn
  <2>5. ASSUME NEW u \in User, Devices!RollBack(u) PROVE PushInv' /\ Kept
    <3>1. subscription' = subscription
      BY <2>5 DEF Devices!RollBack
    <3> QED BY <2>5, <3>1, RollBackInv
  <2>6. ASSUME NEW u \in User, Devices!QueueTestPush(u) \/ Devices!Mirror(u) PROVE PushInv' /\ Kept
    <3>1. PushTypes' /\ UNCHANGED <<subscription, lastRow, registering>>
      BY <2>6 DEF PushInv, PushTypes, Devices!QueueTestPush, Devices!Mirror
    <3> QED BY <2>1, <3>1
  <2>7. ASSUME NEW u \in User, Devices!BeginPush(u) \/ Devices!AbandonPush(u) PROVE PushInv' /\ Kept
    <3>1. Devices!ActiveRows(u) \in SUBSET Devices!Row
      BY RowsAreRows DEF PushInv, Devices!ActiveRows, Devices!RowsOf
    <3>2. push' \in [User -> [running : BOOLEAN, rows : SUBSET Devices!Row]]
      <4>1. PICK R \in SUBSET Devices!Row : R = Devices!ActiveRows(u)
        BY <3>1
      <4>2. \/ push' = [push EXCEPT ![u] = [running |-> TRUE, rows |-> R]]
            \/ push' = [push EXCEPT ![u] = [running |-> FALSE, rows |-> {}]]
        BY <2>7, <4>1 DEF Devices!BeginPush, Devices!AbandonPush
      <4>3. /\ [running |-> TRUE, rows |-> R] \in [running : BOOLEAN, rows : SUBSET Devices!Row]
            /\ [running |-> FALSE, rows |-> {}] \in [running : BOOLEAN, rows : SUBSET Devices!Row]
        OBVIOUS
      <4>4. PICK y \in [running : BOOLEAN, rows : SUBSET Devices!Row] : push' = [push EXCEPT ![u] = y]
        BY <4>2, <4>3, Zenon
      <4>5. push \in [User -> [running : BOOLEAN, rows : SUBSET Devices!Row]]
        BY DEF PushInv, PushTypes
      <4> QED BY <4>4, <4>5
    <3>3. PushTypes' /\ UNCHANGED <<subscription, lastRow, registering>>
      BY <2>7, <3>2 DEF PushInv, PushTypes, Devices!BeginPush, Devices!AbandonPush
    <3> QED BY <2>1, <3>3
  <2>8. ASSUME NEW u \in User, NEW e \in Endpoint, Devices!DeleteSubscription(u, e) PROVE PushInv' /\ Kept
    <3>1. \A n \in DOMAIN subscription \cap DOMAIN subscription' : subscription'[n] = subscription[n]
      BY <2>8 DEF Devices!DeleteSubscription, Devices!Restrict
    <3> QED BY <2>8, <3>1, DeleteSubscriptionInv
  <2>9. ASSUME NEW u \in User, NEW e \in Endpoint, Devices!Register(u, e) PROVE PushInv' /\ Kept
    <3>1. subscription' = subscription
      BY <2>9 DEF Devices!Register
    <3> QED BY <2>9, <3>1, RegisterInv
  <2>10. ASSUME NEW u \in User, NEW taken, NEW later, Devices!RecordResults(u, taken, later)
         PROVE PushInv' /\ Kept
    <3>1. push[u].running /\ ~push'[u].running
      BY <2>10 DEF PushInv, PushTypes, Devices!RecordResults
    <3>2. /\ PushInv'
          /\ \A n \in DOMAIN subscription :
                subscription'[n].active # subscription[n].active => subscription[n].user = u
      BY <2>10, RecordResultsInv
    <3> QED BY <3>1, <3>2 DEF Devices!SwitchedByOwn
  <2>11. PushInv' /\ Kept
    BY <1>2, <2>2, <2>3, <2>4, <2>5, <2>6, <2>7, <2>8, <2>9, <2>10, Zenon DEF Devices!Next
  <2>12. Devices!DevicesCapped'
    BY <2>11, PushIsCapped, PTL
  <2> QED BY <2>11, <2>12 DEF Devices!DevicesKept
<1> QED BY <1>1, <1>2

LEMMA PushAlways == Spec => []PushInv
<1>1. Init => PushInv
  <2>1. SUFFICES ASSUME Init PROVE PushInv
    OBVIOUS
  <2>2. Devices!Init
    BY <2>1 DEF Init
  <2>3. DOMAIN subscription = {}
    BY <2>2 DEF Devices!Init
  <2>4. \A u \in User : Devices!RowsOf(u) = {} /\ registering[u] = Devices!Idle
    BY <2>2, <2>3 DEF Devices!Init, Devices!RowsOf
  <2>5. Devices!Cardinality({}) = 0
    BY FS_EmptySet, DevicesCounted
  <2>6. PushTypes
    BY <2>2, <2>3, PushAssumption DEF Devices!Init, PushTypes
  <2> QED BY <2>3, <2>4, <2>5, <2>6, PushAssumption DEF PushInv, Registers
<1>2. PushInv /\ [Next]_vars => PushInv'
  BY PushPart, PushStep
<1> QED BY <1>1, <1>2, PTL DEF Spec

(* No user has more browsers than the cap, a browser has one row, and a    *)
(* row is switched only by a push to its owner or a registration: for any  *)
(* users, endpoints and cap.                                                *)
THEOREM DevicesAlwaysHold == Spec => DevicesHold
<1>1. PushInv /\ [Next]_vars => [part = "push" => Devices!DevicesKept]_vars
  <2> SUFFICES ASSUME PushInv, [Next]_vars PROVE [part = "push" => Devices!DevicesKept]_vars
    OBVIOUS
  <2>1. PushInv' /\ (UNCHANGED pushVars \/ Devices!DevicesKept)
    BY PushPart, PushStep
  <2>2. CASE UNCHANGED pushVars
    <3>1. Devices!DevicesCapped'
      BY <2>1, PushIsCapped, PTL
    <3> QED BY <2>1, <2>2, <3>1 DEF Devices!DevicesKept, pushVars
  <2> QED BY <2>1, <2>2
<1> QED BY <1>1, PushAlways, PTL DEF Spec, DevicesHold

-------------------------------------------------------------------------------
(* Monitors: an event is emitted with its marker, and a call that is about *)
(* to report success, or a job that has succeeded, has left one, or found  *)
(* another occurrence.                                                     *)
OccurrenceInv ==
    \A o \in Reminders!Time :
        /\ emitted[o] = IF o \in marked THEN 1 ELSE 0
        /\ monitor[o] # "idle" => job[o].status = "running"
        /\ monitor[o] = "ok" \/ job[o].status = "succeeded" => o \in marked \cup passed

MonitorInv == Reminders!TypeOK /\ OccurrenceInv

(* The rows that the steps of the reminders' jobs make. *)
ReminderRow(r) ==
    /\ Reminders!Enqueued(r) \in Reminders!JobRowType
    /\ \/ Reminders!Enqueued(r) = r
       \/ r.status = "absent" /\ Reminders!Enqueued(r).status = "queued"
    /\ r.status = "failed" => /\ Reminders!Reset(r) \in Reminders!JobRowType
                              /\ Reminders!Reset(r).status = "queued"
    /\ Reminders!Claimable(r) => /\ Reminders!Claimed(r) \in Reminders!JobRowType
                                 /\ r.status = "queued" /\ Reminders!Claimed(r).status = "running"
    /\ r.status = "running" => /\ Reminders!RetriedOrFailed(r) \in Reminders!JobRowType
                               /\ Reminders!RetriedOrFailed(r).status \in {"queued", "failed"}
    /\ Reminders!Completed(r) \in Reminders!JobRowType
    /\ Reminders!Failed(r) \in Reminders!JobRowType
    /\ r.status = "running" => /\ Reminders!Completed(r).status = "succeeded"
                               /\ Reminders!Failed(r).status \in {"queued", "failed"}

LEMMA ReminderEnds ==
    /\ Reminders!NoJob \in Reminders!JobRowType /\ Reminders!NoJob.status = "absent"
    /\ \A st \in Reminders!Terminal :
          Reminders!Ended(st) \in Reminders!JobRowType /\ Reminders!Ended(st).status = st
BY DEF Reminders!JobRowType, Reminders!Terminal, Reminders!NoJob, Reminders!Ended

LEMMA ReminderRows == ASSUME NEW r \in Reminders!JobRowType PROVE ReminderRow(r)
<1> USE MonitorsAssumption DEF Reminders!Terminal, Reminders!NoJob
<1>1. /\ Reminders!Enqueued(r) \in Reminders!JobRowType
      /\ \/ Reminders!Enqueued(r) = r
         \/ r.status = "absent" /\ Reminders!Enqueued(r).status = "queued"
  BY DEF Reminders!Enqueued, Reminders!JobRowType
<1>2. r.status = "failed" =>
         Reminders!Reset(r) \in Reminders!JobRowType /\ Reminders!Reset(r).status = "queued"
  BY DEF Reminders!Reset, Reminders!JobRowType
<1>3. Reminders!Claimable(r) => /\ Reminders!Claimed(r) \in Reminders!JobRowType
                                /\ r.status = "queued" /\ Reminders!Claimed(r).status = "running"
  BY DEF Reminders!Claimable, Reminders!Claimed, Reminders!JobRowType
<1>4. r.status = "running" => /\ Reminders!RetriedOrFailed(r) \in Reminders!JobRowType
                              /\ Reminders!RetriedOrFailed(r).status \in {"queued", "failed"}
  BY ReminderEnds DEF Reminders!RetriedOrFailed, Reminders!JobRowType
<1>5. /\ Reminders!Completed(r) \in Reminders!JobRowType
      /\ Reminders!Failed(r) \in Reminders!JobRowType
      /\ r.status = "running" => /\ Reminders!Completed(r).status = "succeeded"
                                 /\ Reminders!Failed(r).status \in {"queued", "failed"}
  BY <1>4, ReminderEnds DEF Reminders!Completed, Reminders!Failed
<1> QED BY <1>1, <1>2, <1>3, <1>4, <1>5 DEF ReminderRow

(* Users and the import move the subject. *)
LEMMA SubjectMoves ==
    ASSUME subject \in Reminders!Subject, NEW open \in BOOLEAN,
           NEW at \in {0} \cup Reminders!Time, NEW until \in Reminders!Time,
           \/ subject' = [subject EXCEPT !.open = open]
           \/ subject' = [subject EXCEPT !.at = at]
           \/ subject' = [subject EXCEPT !.open = open, !.at = at]
           \/ subject' = [subject EXCEPT !.open = open, !.at = at, !.until = until]
    PROVE  subject' \in Reminders!Subject
<1> USE DEF Reminders!Subject
<1>1. CASE subject' = [subject EXCEPT !.open = open]
  BY <1>1, Zenon
<1>2. CASE subject' = [subject EXCEPT !.at = at]
  BY <1>2, Zenon
<1>3. CASE subject' = [subject EXCEPT !.open = open, !.at = at]
  BY <1>3, Zenon
<1>4. CASE subject' = [subject EXCEPT !.open = open, !.at = at, !.until = until]
  BY <1>4, Zenon
<1> QED BY <1>1, <1>2, <1>3, <1>4, Zenon

(* A step that changes one occurrence's job and call. *)
LEMMA ReminderMoves ==
    ASSUME MonitorInv, NEW o \in Reminders!Time, UNCHANGED <<now, subject, marked, emitted, passed>>,
           NEW r \in Reminders!JobRowType, NEW st \in {"idle", "started", "error"},
           job' = [job EXCEPT ![o] = r], monitor' = [monitor EXCEPT ![o] = st],
           st # "idle" => r.status = "running",
           r.status = "succeeded" => o \in marked \cup passed
    PROVE  MonitorInv'
<1>1. Reminders!TypeOK'
  BY DEF MonitorInv, Reminders!TypeOK
<1>2. OccurrenceInv'
  BY DEF MonitorInv, OccurrenceInv, Reminders!TypeOK
<1> QED BY <1>1, <1>2 DEF MonitorInv

(* What an emission leaves, if it reports success. *)
LEMMA EmitInv ==
    ASSUME MonitorInv, NEW o \in Reminders!Time, Reminders!Emit(o)
    PROVE  MonitorInv'
<1> USE DEF Reminders!Goes
<1>1. Reminders!TypeOK'
  BY DEF MonitorInv, OccurrenceInv, Reminders!TypeOK, Reminders!Emit
<1>2. OccurrenceInv'
  BY DEF MonitorInv, OccurrenceInv, Reminders!TypeOK, Reminders!Emit, Reminders!Occurs
<1> QED BY <1>1, <1>2 DEF MonitorInv

LEMMA MonitorStep ==
    ASSUME MonitorInv, [Reminders!Next]_monitorsVars
    PROVE  MonitorInv'
<1> USE DEF Reminders!Goes, Reminders!queue, Reminders!events
<1>0. /\ Reminders!TypeOK /\ OccurrenceInv
      /\ job \in [Reminders!Time -> Reminders!JobRowType]
      /\ monitor \in [Reminders!Time -> {"idle", "started", "ok", "error"}]
  BY DEF MonitorInv, Reminders!TypeOK
<1>1. ASSUME UNCHANGED <<job, monitor, marked, emitted, passed>>,
             now' \in {0} \cup Reminders!Time, subject' \in Reminders!Subject
      PROVE  MonitorInv'
  BY <1>0, <1>1 DEF MonitorInv, OccurrenceInv, Reminders!TypeOK
<1>2. CASE \/ Reminders!Tick \/ UNCHANGED monitorsVars
           \/ \E open \in BOOLEAN :
                 \/ Reminders!TouchDeal(open)
                 \/ \E at \in {0} \cup Reminders!Time, until \in Reminders!Time :
                       Reminders!UpdateTask(open, at, until)
           \/ \E o \in Reminders!Time : Reminders!ImportDeal(o)
  <2>1. /\ now \in {0} \cup Reminders!Time /\ subject \in Reminders!Subject
        /\ now < MaxTime => now + 1 \in Reminders!Time
    BY <1>0, MonitorsAssumption DEF Reminders!TypeOK, Reminders!Time
  <2>2. CASE Reminders!Tick
    BY <1>1, <2>1, <2>2 DEF Reminders!Tick
  <2>3. CASE UNCHANGED monitorsVars
    BY <1>1, <2>1, <2>3 DEF monitorsVars
  <2>4. ASSUME NEW open \in BOOLEAN, Reminders!TouchDeal(open) PROVE MonitorInv'
    <3>1. /\ now < MaxTime /\ subject' = [subject EXCEPT !.open = open, !.at = now + 1]
          /\ UNCHANGED <<now, job, monitor, marked, emitted, passed>>
      BY <2>4 DEF Reminders!TouchDeal
    <3>2. subject' \in Reminders!Subject
      BY <2>1, <3>1, SubjectMoves, Zenon
    <3> QED BY <1>1, <2>1, <3>1, <3>2
  <2>5. ASSUME NEW open \in BOOLEAN, NEW at \in {0} \cup Reminders!Time,
               NEW until \in Reminders!Time, Reminders!UpdateTask(open, at, until)
        PROVE  MonitorInv'
    <3>1. /\ subject' = [subject EXCEPT !.open = open, !.at = at, !.until = until]
          /\ UNCHANGED <<now, job, monitor, marked, emitted, passed>>
      BY <2>5, Zenon DEF Reminders!UpdateTask
    <3>2. subject' \in Reminders!Subject
      BY <2>1, <3>1, SubjectMoves, Zenon
    <3> QED BY <1>1, <2>1, <3>1, <3>2
  <2>6. ASSUME NEW o \in Reminders!Time, Reminders!ImportDeal(o) PROVE MonitorInv'
    <3>1. /\ subject' = [subject EXCEPT !.at = o]
          /\ UNCHANGED <<now, job, monitor, marked, emitted, passed>>
      BY <2>6 DEF Reminders!ImportDeal
    <3>2. subject' \in Reminders!Subject
      BY <2>1, <3>1, SubjectMoves, Zenon
    <3> QED BY <1>1, <2>1, <3>1, <3>2
  <2> QED BY <1>2, <2>2, <2>3, <2>4, <2>5, <2>6
<1>3. CASE Reminders!DeleteDeal
  <2> DEFINE settled == {o \in Reminders!Time : subject.kind # "inactive" /\ job[o].status = "queued"}
  <2>1. /\ job' = [o \in Reminders!Time |->
                      IF o \in settled THEN Reminders!Ended("succeeded") ELSE job[o]]
        /\ passed' = passed \cup settled
        /\ subject' = [subject EXCEPT !.open = FALSE]
        /\ UNCHANGED <<now, monitor, marked, emitted>>
    BY <1>3 DEF Reminders!DeleteDeal
  <2>2. /\ Reminders!Ended("succeeded") \in Reminders!JobRowType
        /\ Reminders!Ended("succeeded").status = "succeeded"
    BY ReminderEnds DEF Reminders!Terminal
  <2>3. Reminders!TypeOK'
    <3>1. subject' \in Reminders!Subject
      BY <1>0, <2>1, Zenon DEF Reminders!TypeOK, Reminders!Subject
    <3>2. settled \subseteq Reminders!Time
      OBVIOUS
    <3> HIDE DEF settled
    <3> QED BY <1>0, <2>1, <2>2, <3>1, <3>2 DEF Reminders!TypeOK
  <2>4. OccurrenceInv'
    BY <1>0, <2>1, <2>2 DEF OccurrenceInv
  <2> QED BY <2>3, <2>4 DEF MonitorInv
<1>4. CASE Reminders!Crash
  BY <1>0, <1>4 DEF Reminders!Crash, MonitorInv, OccurrenceInv, Reminders!TypeOK
<1>5. ASSUME NEW o \in Reminders!Time,
             \/ Reminders!ScheduleTaskEvent(o) \/ Reminders!ScheduleInactiveDeal(o)
             \/ Reminders!Claim(o) \/ Reminders!EmitTaskEvent(o) \/ Reminders!EmitDealInactive(o)
             \/ Reminders!EmitFails(o) \/ Reminders!Acknowledge(o) \/ Reminders!Recover(o)
             \/ Reminders!CleanupJob(o) \/ Reminders!RetryJob(o)
      PROVE  MonitorInv'
  <2>0. /\ job[o] \in Reminders!JobRowType /\ monitor[o] \in {"idle", "started", "ok", "error"}
        /\ monitor[o] # "idle" => job[o].status = "running"
        /\ monitor[o] = "ok" \/ job[o].status = "succeeded" => o \in marked \cup passed
    BY <1>0 DEF OccurrenceInv
  <2>1. ASSUME NEW r \in Reminders!JobRowType, monitor[o] = "idle",
               job' = [job EXCEPT ![o] = r],
               UNCHANGED <<now, subject, monitor, marked, emitted, passed>>,
               r = job[o] \/ r.status # "succeeded"
        PROVE  MonitorInv'
    <3>1. monitor' = [monitor EXCEPT ![o] = "idle"]
      BY <1>0, <2>1
    <3> QED BY <2>0, <2>1, <3>1, ReminderMoves
  <2>2. CASE Reminders!ScheduleTaskEvent(o) \/ Reminders!ScheduleInactiveDeal(o)
    <3>1. /\ job' = [job EXCEPT ![o] = Reminders!Enqueued(job[o])]
          /\ UNCHANGED <<now, subject, monitor, marked, emitted, passed>>
      BY <2>2, Zenon DEF Reminders!ScheduleTaskEvent, Reminders!ScheduleInactiveDeal, Reminders!Schedule
    <3>2. CASE Reminders!Enqueued(job[o]) = job[o]
      <4>1. UNCHANGED <<now, subject, job, monitor, marked, emitted, passed>>
        BY <1>0, <3>1, <3>2
      <4> QED BY <1>0, <1>1, <4>1 DEF Reminders!TypeOK
    <3>3. CASE Reminders!Enqueued(job[o]) # job[o]
      <4>1. job[o].status = "absent" /\ Reminders!Enqueued(job[o]).status = "queued"
        BY <2>0, <3>3, ReminderRows DEF ReminderRow
      <4> QED BY <2>0, <2>1, <3>1, <4>1, ReminderRows DEF ReminderRow
    <3> QED BY <3>2, <3>3
  <2>3. CASE Reminders!Claim(o)
    <3>1. /\ Reminders!Claimable(job[o])
          /\ job' = [job EXCEPT ![o] = Reminders!Claimed(job[o])]
          /\ monitor' = [monitor EXCEPT ![o] = "started"]
          /\ UNCHANGED <<now, subject, marked, emitted, passed>>
      BY <2>3 DEF Reminders!Claim
    <3>2. /\ Reminders!Claimed(job[o]) \in Reminders!JobRowType
          /\ Reminders!Claimed(job[o]).status = "running"
      BY <2>0, <3>1, ReminderRows DEF ReminderRow
    <3> QED BY <3>1, <3>2, ReminderMoves
  <2>4. CASE Reminders!EmitTaskEvent(o) \/ Reminders!EmitDealInactive(o)
    BY <2>4, EmitInv DEF Reminders!EmitTaskEvent, Reminders!EmitDealInactive
  <2>5. CASE Reminders!EmitFails(o)
    <3>1. /\ monitor[o] = "started" /\ monitor' = [monitor EXCEPT ![o] = "error"]
          /\ UNCHANGED <<now, subject, job, marked, emitted, passed>>
      BY <2>5 DEF Reminders!EmitFails
    <3>2. job' = [job EXCEPT ![o] = job[o]]
      BY <1>0, <3>1
    <3> QED BY <2>0, <3>1, <3>2, ReminderMoves
  <2>6. CASE Reminders!Acknowledge(o)
    <3>1. /\ monitor[o] \in {"ok", "error"} /\ monitor' = [monitor EXCEPT ![o] = "idle"]
          /\ \/ job' = [job EXCEPT ![o] = IF monitor[o] = "ok" THEN Reminders!Completed(job[o])
                                          ELSE Reminders!Failed(job[o])]
             \/ UNCHANGED job
          /\ UNCHANGED <<now, subject, marked, emitted, passed>>
      BY <2>6 DEF Reminders!Acknowledge
    <3>2. PICK r \in {job[o], Reminders!Completed(job[o]), Reminders!Failed(job[o])} :
             /\ job' = [job EXCEPT ![o] = r]
             /\ r = Reminders!Completed(job[o])
                    => monitor[o] = "ok" \/ r = job[o] \/ r = Reminders!Failed(job[o])
      <4>1. UNCHANGED job => job' = [job EXCEPT ![o] = job[o]]
        BY <1>0
      <4> QED BY <3>1, <4>1
    <3>3. job[o].status = "running"
      BY <2>0, <3>1
    <3>4. r \in Reminders!JobRowType /\ (r.status = "succeeded" => o \in marked \cup passed)
      BY <2>0, <3>2, <3>3, ReminderRows DEF ReminderRow
    <3> QED BY <3>1, <3>2, <3>4, ReminderMoves
  <2>7. CASE Reminders!Recover(o)
    <3>1. /\ job[o].status = "running" /\ monitor[o] = "idle"
          /\ job' = [job EXCEPT ![o] = Reminders!RetriedOrFailed(job[o])]
          /\ UNCHANGED <<now, subject, monitor, marked, emitted, passed>>
      BY <2>7 DEF Reminders!Recover
    <3>2. /\ Reminders!RetriedOrFailed(job[o]) \in Reminders!JobRowType
          /\ Reminders!RetriedOrFailed(job[o]).status # "succeeded"
      BY <2>0, <3>1, ReminderRows DEF ReminderRow
    <3> QED BY <2>1, <3>1, <3>2
  <2>8. CASE Reminders!CleanupJob(o)
    <3>1. /\ job[o].status \in Reminders!Terminal /\ job' = [job EXCEPT ![o] = Reminders!NoJob]
          /\ UNCHANGED <<now, subject, monitor, marked, emitted, passed>>
      BY <2>8 DEF Reminders!CleanupJob
    <3>2. monitor[o] = "idle"
      BY <2>0, <3>1 DEF Reminders!Terminal
    <3>3. Reminders!NoJob \in Reminders!JobRowType /\ Reminders!NoJob.status # "succeeded"
      BY ReminderEnds
    <3> QED BY <2>1, <3>1, <3>2, <3>3
  <2>9. CASE Reminders!RetryJob(o)
    <3>1. /\ job[o].status = "failed" /\ job' = [job EXCEPT ![o] = Reminders!Reset(job[o])]
          /\ UNCHANGED <<now, subject, monitor, marked, emitted, passed>>
      BY <2>9 DEF Reminders!RetryJob
    <3>2. /\ Reminders!Reset(job[o]) \in Reminders!JobRowType
          /\ Reminders!Reset(job[o]).status # "succeeded" /\ monitor[o] = "idle"
      BY <2>0, <3>1, ReminderRows DEF ReminderRow
    <3> QED BY <2>1, <3>1, <3>2
  <2> QED BY <1>5, <2>2, <2>3, <2>4, <2>5, <2>6, <2>7, <2>8, <2>9
<1> QED BY <1>2, <1>3, <1>4, <1>5 DEF Reminders!Next

LEMMA MonitorsPart == [Next]_vars => [Reminders!Next]_monitorsVars
BY DEF Next, vars, monitorsVars

LEMMA MonitorsAlways == Spec => []MonitorInv
<1>1. Init => MonitorInv
  <2> SUFFICES ASSUME Init PROVE MonitorInv
    OBVIOUS
  <2>1. /\ now = 0 /\ marked = {} /\ passed = {}
        /\ job = [o \in Reminders!Time |-> Reminders!NoJob]
        /\ monitor = [o \in Reminders!Time |-> "idle"]
        /\ emitted = [o \in Reminders!Time |-> 0]
    BY Zenon DEF Init, Reminders!Init
  <2>2. subject \in Reminders!Subject
    <3>1. 1 \in Reminders!Time /\ MaxTime \in Reminders!Time
      BY MonitorsAssumption DEF Reminders!Time
    <3>2. subject \in [kind : {"due soon", "overdue", "inactive"}, open : {TRUE}, at : {1},
                       until : {MaxTime}]
      BY Zenon DEF Init, Reminders!Init
    <3> QED BY <3>1, <3>2, Zenon DEF Reminders!Subject
  <2>3. /\ job \in [Reminders!Time -> Reminders!JobRowType]
        /\ monitor \in [Reminders!Time -> {"idle", "started", "ok", "error"}]
    BY <2>1, ReminderEnds
  <2>4. Reminders!TypeOK
    BY <2>1, <2>2, <2>3, ReminderEnds DEF Reminders!TypeOK
  <2>5. OccurrenceInv
    BY <2>1, ReminderEnds DEF OccurrenceInv
  <2> QED BY <2>4, <2>5 DEF MonitorInv
<1>2. MonitorInv /\ [Next]_vars => MonitorInv'
  BY MonitorStep, MonitorsPart
<1> QED BY <1>1, <1>2, PTL DEF Spec

(* An occurrence that stands is told once, and is told if its job is done, *)
(* unless the subject was closed or moved away meanwhile: for any clock    *)
(* and any number of attempts.                                             *)
THEOREM OccurrencesAlwaysHold == Spec => []OccurrencesHold
<1>1. MonitorInv => OccurrencesHold
  BY DEF MonitorInv, OccurrenceInv, OccurrencesHold, Reminders!OccurrencesHold
<1> QED BY <1>1, MonitorsAlways, PTL

-------------------------------------------------------------------------------
(* Pipelines: stages and deals, and what the requests under way have read. *)
StageRow == [pipeline : Pipeline, position : Nat, kind : Boards!Kind, imported : BOOLEAN]
DealRow == [pipeline : Pipeline, stage : Boards!StageId, version : Nat, history : SUBSET Boards!StageId,
    imported : BOOLEAN]

DeletePipelineRequest == [op : {"delete pipeline"}, pipeline : Pipeline]
DeleteStageRequest == [op : {"delete stage"}, stage : Boards!StageId]
MoveDealRequest == [op : {"move deal"}, deal : Deal, stage : Boards!StageId, expected : Nat]
RequireFieldsRequest == [op : {"require fields"}, stage : Boards!StageId, fields : SUBSET Field,
    old : SUBSET Field]
EditRow == {Boards!Idle} \cup DeletePipelineRequest \cup DeleteStageRequest \cup MoveDealRequest \cup RequireFieldsRequest

PipelineTypes ==
    /\ pipeline \subseteq Pipeline
    /\ lastStage \in 0..MaxStage /\ DOMAIN stage \subseteq 1..lastStage
    /\ stage \in [DOMAIN stage -> StageRow]
    /\ \A s \in DOMAIN stage : stage[s].pipeline \in pipeline
    /\ DOMAIN deal \subseteq Deal /\ deal \in [DOMAIN deal -> DealRow]
    /\ active \subseteq Field /\ required \in [Boards!StageId -> SUBSET Field]
    /\ edit \in [Request -> EditRow]

(* StagesHold, part by part *)
OpenStageLeft == \A p \in pipeline \ AmoPipeline : \E s \in DOMAIN stage : stage[s].pipeline = p
    /\ stage[s].kind = "open"
DealsStand == \A d \in DOMAIN deal : deal[d].stage \in DOMAIN stage
    /\ stage[deal[d].stage].pipeline = deal[d].pipeline
RequiredActive == \A s \in Boards!StageId : required[s] \subseteq active

(* While the stages of a pipeline are renumbered, a bound tells positions   *)
(* apart: what is placed and what is not yet shifted is below it, what was  *)
(* shifted is not.                                                          *)
RenumberingTypes ==
    /\ renumbering = [pipeline |-> renumbering.pipeline, shift |-> renumbering.shift,
           place |-> renumbering.place]
    /\ renumbering.pipeline \in pipeline
    /\ renumbering.shift \in [DOMAIN renumbering.shift -> Nat]
    /\ renumbering.place \in [DOMAIN renumbering.place -> Nat]
    /\ DOMAIN renumbering.shift \subseteq DOMAIN renumbering.place \cap DOMAIN stage
    /\ DOMAIN renumbering.place \subseteq 1..lastStage
    /\ \A s \in DOMAIN renumbering.place \cap DOMAIN stage : stage[s].pipeline = renumbering.pipeline

ShiftsApart(bound) ==
    \A s \in DOMAIN renumbering.shift :
        /\ renumbering.shift[s] >= bound /\ stage[s].position < bound
        /\ \A t \in DOMAIN renumbering.shift : s # t => renumbering.shift[s] # renumbering.shift[t]
        /\ \A t \in DOMAIN stage \ DOMAIN renumbering.shift :
              stage[t].pipeline = renumbering.pipeline =>
                 t \in DOMAIN renumbering.place /\ renumbering.shift[s] # stage[t].position

PlacesApart(bound) ==
    \A s \in DOMAIN renumbering.place :
        /\ renumbering.place[s] < bound
        /\ \A t \in DOMAIN renumbering.place : s # t => renumbering.place[s] # renumbering.place[t]
        /\ \A t \in DOMAIN stage \ DOMAIN renumbering.place :
              stage[t].pipeline = renumbering.pipeline => renumbering.place[s] # stage[t].position

RowsApart(bound) ==
    \A t \in DOMAIN stage : stage[t].pipeline = renumbering.pipeline =>
        /\ t \in DOMAIN renumbering.place \ DOMAIN renumbering.shift => stage[t].position >= bound
        /\ t \notin DOMAIN renumbering.place => stage[t].position < bound

RenumberingFits ==
    renumbering # Boards!NoRenumbering =>
        /\ RenumberingTypes
        /\ \E bound \in Nat : ShiftsApart(bound) /\ PlacesApart(bound) /\ RowsApart(bound)

(* No deal stands in a pipeline that is being deleted, nobody else deletes  *)
(* or renumbers it; a stage a deal is to move to is of its pipeline while   *)
(* it exists and the deal's version has not moved, and is not the one that  *)
(* is being made.                                                           *)
DeletesAlone(r) ==
    edit[r].op = "delete pipeline" =>
        /\ edit[r].pipeline \in pipeline /\ renumbering.pipeline # edit[r].pipeline
        /\ \A d \in DOMAIN deal : deal[d].pipeline # edit[r].pipeline
        /\ \A o \in Request : o # r /\ edit[o].op = "delete pipeline"
               => edit[o].pipeline # edit[r].pipeline

MovesWithin(r) ==
    edit[r].op = "move deal" =>
        /\ edit[r].deal \in DOMAIN deal /\ edit[r].stage <= lastStage
        /\ edit[r].expected <= deal[edit[r].deal].version
        /\ edit[r].stage \in DOMAIN stage /\ deal[edit[r].deal].version = edit[r].expected =>
              stage[edit[r].stage].pipeline = deal[edit[r].deal].pipeline
        /\ edit[r].stage \in DOMAIN renumbering.place => edit[r].stage \in DOMAIN stage

RequiresActive(r) == edit[r].op = "require fields" => edit[r].fields \subseteq active

EditsFit == \A r \in Request : DeletesAlone(r) /\ MovesWithin(r) /\ RequiresActive(r)

PipelinesInv ==
    /\ PipelineTypes
    /\ Boards!PositionsDistinct /\ OpenStageLeft /\ DealsStand /\ RequiredActive
    /\ RenumberingFits
    /\ EditsFit
-------------------------------------------------------------------------------
LEMMA StagesDoHold == PipelinesInv => Boards!StagesHold
BY DEF PipelinesInv, OpenStageLeft, DealsStand, RequiredActive, Boards!StagesHold, Boards!OpenStages,
       Boards!Stages

LEMMA StageIdsAre == Boards!StageId \subseteq Nat
BY PipelinesAssumption DEF Boards!StageId

LEMMA StageIds ==
    ASSUME PipelineTypes
    PROVE  /\ lastStage \in Nat /\ MaxStage \in Nat /\ lastStage <= MaxStage
           /\ \A s \in DOMAIN stage : s \in Nat /\ 1 <= s /\ s <= lastStage /\ s \in Boards!StageId
<1>1. lastStage \in 0..MaxStage /\ DOMAIN stage \subseteq 1..lastStage
  BY DEF PipelineTypes
<1>2. MaxStage \in Nat
  BY PipelinesAssumption
<1> QED BY <1>1, <1>2 DEF Boards!StageId

LEMMA EditRows ==
    ASSUME NEW x \in EditRow
    PROVE  /\ x.op = "delete pipeline" => x \in DeletePipelineRequest
           /\ x.op = "delete stage" => x \in DeleteStageRequest
           /\ x.op = "move deal" => x \in MoveDealRequest
           /\ x.op = "require fields" => x \in RequireFieldsRequest
           /\ x = Boards!Idle => x.op = "idle"
<1>1. CASE x = Boards!Idle
  BY <1>1 DEF Boards!Idle
<1>2. CASE x # Boards!Idle
  <2>1. \/ x \in DeletePipelineRequest /\ x.op = "delete pipeline"
        \/ x \in DeleteStageRequest /\ x.op = "delete stage"
        \/ x \in MoveDealRequest /\ x.op = "move deal"
        \/ x \in RequireFieldsRequest /\ x.op = "require fields"
    <3>1. \/ x \in DeletePipelineRequest \/ x \in DeleteStageRequest
          \/ x \in MoveDealRequest \/ x \in RequireFieldsRequest
      BY <1>2 DEF EditRow
    <3>2. ASSUME x \in DeletePipelineRequest PROVE x.op = "delete pipeline"
      BY <3>2, Zenon DEF DeletePipelineRequest
    <3>3. ASSUME x \in DeleteStageRequest PROVE x.op = "delete stage"
      BY <3>3, Zenon DEF DeleteStageRequest
    <3>4. ASSUME x \in MoveDealRequest PROVE x.op = "move deal"
      BY <3>4, Zenon DEF MoveDealRequest
    <3>5. ASSUME x \in RequireFieldsRequest PROVE x.op = "require fields"
      BY <3>5, Zenon DEF RequireFieldsRequest
    <3> QED BY <3>1, <3>2, <3>3, <3>4, <3>5, Zenon
  <2> QED BY <1>2, <2>1, Zenon
<1> QED BY <1>1, <1>2, Zenon

LEMMA EditMoves ==
    ASSUME PipelineTypes, NEW r \in Request, NEW x, edit' = [edit EXCEPT ![r] = x]
    PROVE  /\ edit'[r] = x /\ \A o \in Request : o # r => edit'[o] = edit[o]
           /\ x \in EditRow => edit' \in [Request -> EditRow]
BY DEF PipelineTypes

LEMMA NoneIsRenumbered == renumbering = Boards!NoRenumbering
    => DOMAIN renumbering.place = {} /\ DOMAIN renumbering.shift = {}
<1>1. Boards!NoRenumbering.place = <<>> /\ Boards!NoRenumbering.shift = <<>>
  BY DEF Boards!NoRenumbering
<1>2. DOMAIN <<>> = {}
  OBVIOUS
<1> QED BY <1>1, <1>2

(* A renumbering does not see the stages of other pipelines. *)
RenumberedStay ==
    /\ renumbering' = renumbering
    /\ lastStage \in Nat /\ lastStage' \in Nat /\ lastStage <= lastStage'
    /\ renumbering # Boards!NoRenumbering => renumbering.pipeline \in pipeline'
    /\ \A s \in DOMAIN stage : stage[s].pipeline = renumbering.pipeline =>
          s \in DOMAIN stage' /\ stage'[s] = stage[s]
    /\ \A s \in DOMAIN stage' :
          stage'[s].pipeline = renumbering.pipeline \/ s \in DOMAIN renumbering.place =>
             s \in DOMAIN stage /\ stage[s].pipeline = renumbering.pipeline

LEMMA RenumberingStays == ASSUME RenumberingFits, RenumberedStay PROVE RenumberingFits'
<1> USE DEF RenumberedStay
<1> SUFFICES ASSUME renumbering # Boards!NoRenumbering
             PROVE  RenumberingTypes' /\ \E bound \in Nat : (ShiftsApart(bound) /\ PlacesApart(bound)
                        /\ RowsApart(bound))'
  BY DEF RenumberingFits, Boards!NoRenumbering
<1>1. PICK bound \in Nat : ShiftsApart(bound) /\ PlacesApart(bound) /\ RowsApart(bound)
  BY DEF RenumberingFits
<1>2. RenumberingTypes
  BY DEF RenumberingFits
<1>3. RenumberingTypes'
  BY <1>2 DEF RenumberingTypes
<1>4. \A s \in DOMAIN renumbering.shift : s \in DOMAIN stage /\ stage'[s] = stage[s]
  BY <1>2 DEF RenumberingTypes
<1>5. \A t \in DOMAIN stage' : stage'[t].pipeline = renumbering.pipeline =>
         t \in DOMAIN stage /\ stage[t].pipeline = renumbering.pipeline
             /\ stage'[t].position = stage[t].position
  OBVIOUS
<1>6. ShiftsApart(bound)'
  BY <1>1, <1>4, <1>5 DEF ShiftsApart
<1>7. PlacesApart(bound)'
  BY <1>1, <1>5 DEF PlacesApart
<1>8. RowsApart(bound)'
  BY <1>1, <1>5 DEF RowsApart
<1> QED BY <1>3, <1>6, <1>7, <1>8

(* A request begins, or ends with what it read unused. *)
Edited(r, x) ==
    /\ edit' = [edit EXCEPT ![r] = x]
    /\ UNCHANGED <<pipeline, stage, lastStage, deal, active, required, renumbering>>
    /\ x.op = "delete pipeline" =>
          /\ x.pipeline \in pipeline /\ renumbering.pipeline # x.pipeline
          /\ \A d \in DOMAIN deal : deal[d].pipeline # x.pipeline
          /\ \A o \in Request : o # r /\ edit[o].op = "delete pipeline" => edit[o].pipeline # x.pipeline
    /\ x.op = "move deal" =>
          /\ x.deal \in DOMAIN deal /\ x.stage \in DOMAIN stage
          /\ x.expected <= deal[x.deal].version
          /\ stage[x.stage].pipeline = deal[x.deal].pipeline
    /\ x.op = "require fields" => x.fields \subseteq active

LEMMA EditedInv ==
    ASSUME PipelinesInv, NEW r \in Request, NEW x \in EditRow, Edited(r, x)
    PROVE  PipelinesInv'
<1>0. edit' = [edit EXCEPT ![r] = x]
      /\ UNCHANGED <<pipeline, stage, lastStage, deal, active, required, renumbering>>
  BY Zenon DEF Edited
<1>1. edit'[r] = x /\ (\A o \in Request : o # r => edit'[o] = edit[o]) /\ edit' \in [Request -> EditRow]
  BY <1>0, EditMoves DEF PipelinesInv
<1>2. PipelineTypes'
  BY <1>0, <1>1 DEF PipelinesInv, PipelineTypes
<1>3. /\ Boards!PositionsDistinct' /\ OpenStageLeft' /\ DealsStand' /\ RequiredActive'
  BY <1>0 DEF PipelinesInv, Boards!PositionsDistinct, OpenStageLeft, DealsStand, RequiredActive
<1>4. RenumberingFits'
  <2>1. renumbering # Boards!NoRenumbering => renumbering.pipeline \in pipeline
    BY DEF PipelinesInv, RenumberingFits, RenumberingTypes
  <2>2. \A s \in DOMAIN stage : s \in DOMAIN renumbering.place => stage[s].pipeline = renumbering.pipeline
    BY NoneIsRenumbered DEF PipelinesInv, RenumberingFits, RenumberingTypes
  <2>3. RenumberingFits /\ lastStage \in Nat
    BY StageIds DEF PipelinesInv
  <2>4. RenumberedStay
    BY <1>0, <2>1, <2>2, <2>3 DEF RenumberedStay
  <2> QED BY <2>3, <2>4, RenumberingStays
<1>5. x.op = "move deal" => x.stage <= lastStage
  BY StageIds, Zenon DEF PipelinesInv, Edited
<1>6. ASSUME NEW o \in Request PROVE (DeletesAlone(o) /\ MovesWithin(o) /\ RequiresActive(o))'
  <2>1. CASE o = r
    BY <1>0, <1>1, <1>5, <2>1, Zenon DEF Edited, DeletesAlone, MovesWithin, RequiresActive
  <2>2. CASE o # r
    <3>1. edit'[o] = edit[o] /\ DeletesAlone(o) /\ MovesWithin(o) /\ RequiresActive(o)
      BY <1>1, <2>2 DEF PipelinesInv, EditsFit
    <3>2. DeletesAlone(o)'
      BY <1>0, <1>1, <2>2, <3>1, Zenon DEF Edited, DeletesAlone
    <3>3. MovesWithin(o)' /\ RequiresActive(o)'
      BY <1>0, <3>1, Zenon DEF MovesWithin, RequiresActive
    <3> QED BY <3>2, <3>3
  <2> QED BY <2>1, <2>2
<1> QED BY <1>2, <1>3, <1>4, <1>6 DEF PipelinesInv, EditsFit

LEMMA IdleIsEdit == Boards!Idle \in EditRow /\ Boards!Idle.op = "idle"
BY DEF EditRow, Boards!Idle

LEMMA ReadStageInv ==
    ASSUME PipelinesInv, NEW r \in Request, NEW s \in Boards!StageId, Boards!ReadStage(r, s)
    PROVE  PipelinesInv'
<1> DEFINE x == [op |-> "delete stage", stage |-> s]
<1>1. x \in EditRow /\ x.op = "delete stage"
  BY Zenon DEF EditRow, DeleteStageRequest
<1>2. edit' = [edit EXCEPT ![r] = x]
      /\ UNCHANGED <<pipeline, stage, lastStage, deal, active, required, renumbering>>
  BY Zenon DEF Boards!ReadStage, Boards!Starts
<1> HIDE DEF x
<1>9. Edited(r, x)
  BY <1>1, <1>2, Zenon DEF Edited
<1> QED BY <1>1, <1>9, EditedInv, Zenon

LEMMA ReadTargetInv ==
    ASSUME PipelinesInv, NEW r \in Request, NEW s \in Boards!StageId, NEW d \in DOMAIN deal,
               Boards!ReadTarget(r, d, s)
    PROVE  PipelinesInv'
<1>1. PICK n \in Nat : n = deal[d].version
  BY DEF PipelinesInv, PipelineTypes, DealRow
<1> DEFINE x == [op |-> "move deal", deal |-> d, stage |-> s, expected |-> n]
<1>2. d \in Deal
  BY DEF PipelinesInv, PipelineTypes
<1>3. x \in EditRow /\ x.op = "move deal" /\ x.deal = d /\ x.stage = s /\ x.expected = n
  BY <1>2, Zenon DEF EditRow, MoveDealRequest
<1>4. edit' = [edit EXCEPT ![r] = x]
      /\ UNCHANGED <<pipeline, stage, lastStage, deal, active, required, renumbering>>
  BY <1>1, Zenon DEF Boards!ReadTarget, Boards!Starts
<1>5. s \in DOMAIN stage /\ stage[s].pipeline = deal[d].pipeline
  BY Zenon DEF Boards!ReadTarget, Boards!Stages
<1>6. n <= n /\ n = deal[d].version
  BY <1>1
<1> HIDE DEF x
<1>9. Edited(r, x)
  BY <1>3, <1>4, <1>5, <1>6, Zenon DEF Edited
<1> QED BY <1>3, <1>9, EditedInv, Zenon

LEMMA ReadFieldsInv ==
    ASSUME PipelinesInv, NEW r \in Request, NEW s \in Boards!StageId, NEW fields \in SUBSET Field,
           Boards!ReadFields(r, s, fields)
    PROVE  PipelinesInv'
<1>1. PICK old \in SUBSET Field : old = required[s]
  BY DEF PipelinesInv, PipelineTypes
<1> DEFINE x == [op |-> "require fields", stage |-> s, fields |-> fields, old |-> old]
<1>2. x \in EditRow /\ x.op = "require fields" /\ x.fields = fields
  BY Zenon DEF EditRow, RequireFieldsRequest
<1>3. edit' = [edit EXCEPT ![r] = x]
      /\ UNCHANGED <<pipeline, stage, lastStage, deal, active, required, renumbering>>
  BY <1>1, Zenon DEF Boards!ReadFields, Boards!Starts
<1>4. fields \subseteq active
  BY Zenon DEF Boards!ReadFields
<1> HIDE DEF x
<1>9. Edited(r, x)
  BY <1>2, <1>3, <1>4, Zenon DEF Edited
<1> QED BY <1>2, <1>9, EditedInv, Zenon

(* A pipeline is deleted by one request at a time. *)
LEMMA BeginDeletePipelineInv ==
    ASSUME PipelinesInv, NEW r \in Request, NEW p \in Pipeline, Boards!BeginDeletePipeline(r, p)
    PROVE  PipelinesInv'
<1>1. /\ p \in pipeline /\ ~Boards!Locked(p)
      /\ \A d \in DOMAIN deal : deal[d].pipeline # p
      /\ UNCHANGED <<pipeline, stage, lastStage, deal, active, required, renumbering>>
  BY Zenon DEF Boards!BeginDeletePipeline
<1> DEFINE x == [op |-> "delete pipeline", pipeline |-> p]
<1>3. x \in EditRow /\ x.op = "delete pipeline" /\ x.pipeline = p
  BY Zenon DEF EditRow, DeletePipelineRequest
<1>4. edit' = [edit EXCEPT ![r] = x]
  BY Zenon DEF Boards!BeginDeletePipeline, Boards!Starts
<1>5. renumbering.pipeline # p /\ \A o \in Request : edit[o].op = "delete pipeline"
          => edit[o].pipeline # p
  BY <1>1, Zenon DEF Boards!Locked
<1> HIDE DEF x
<1>9. Edited(r, x)
  BY <1>1, <1>3, <1>4, <1>5, Zenon DEF Edited
<1> QED BY <1>3, <1>9, EditedInv, Zenon

(* Stages that nothing refers to are deleted, with their pipeline or alone. *)
StagesGo(r, D, P) ==
    /\ D \subseteq DOMAIN stage /\ P \subseteq pipeline
    /\ stage' = [s \in D |-> stage[s]] /\ pipeline' = P
    /\ required' \in [Boards!StageId -> SUBSET Field]
    /\ \A s \in Boards!StageId : required'[s] \subseteq required[s]
    /\ edit' = [edit EXCEPT ![r] = Boards!Idle]
    /\ UNCHANGED <<lastStage, deal, active, renumbering>>
    /\ \A s \in D : stage[s].pipeline \in P
    /\ \A s \in DOMAIN stage \ D : renumbering.pipeline # stage[s].pipeline
    /\ renumbering # Boards!NoRenumbering => renumbering.pipeline \in P
    /\ \A d \in DOMAIN deal : deal[d].stage \in D
    /\ \A p \in P \ AmoPipeline : \E s \in D : stage[s].pipeline = p /\ stage[s].kind = "open"
    /\ \A o \in Request \ {r} : edit[o].op = "delete pipeline" => edit[o].pipeline \in P

LEMMA StagesGoInv ==
    ASSUME PipelinesInv, NEW r \in Request, NEW D, NEW P, StagesGo(r, D, P)
    PROVE  PipelinesInv'
<1>0. /\ D \subseteq DOMAIN stage /\ pipeline' = P /\ P \subseteq pipeline
      /\ UNCHANGED <<lastStage, deal, active, renumbering>>
  BY Zenon DEF StagesGo
<1>1. DOMAIN stage' = D /\ \A s \in D : stage'[s] = stage[s]
  BY Zenon DEF StagesGo
<1>2. edit'[r] = Boards!Idle /\ (\A o \in Request : o # r => edit'[o] = edit[o])
          /\ edit' \in [Request -> EditRow]
  BY EditMoves, IdleIsEdit, Zenon DEF PipelinesInv, StagesGo
<1>3. PipelineTypes'
  <2>1. stage' \in [D -> StageRow]
    BY Zenon DEF PipelinesInv, PipelineTypes, StagesGo
  <2>2. \A s \in D : stage'[s].pipeline \in P
    BY <1>1, Zenon DEF StagesGo
  <2>3. required' \in [Boards!StageId -> SUBSET Field]
    BY Zenon DEF StagesGo
  <2> QED BY <1>0, <1>1, <1>2, <2>1, <2>2, <2>3 DEF PipelinesInv, PipelineTypes
<1>4. Boards!PositionsDistinct' /\ OpenStageLeft' /\ DealsStand' /\ RequiredActive'
  <2>1. Boards!PositionsDistinct'
    <3>1. Boards!PositionsDistinct
      BY DEF PipelinesInv
    <3>2. ASSUME NEW s \in D, NEW t \in D, s # t, stage'[s].pipeline = stage'[t].pipeline
          PROVE  stage'[s].position # stage'[t].position
      <4>1. s \in DOMAIN stage /\ t \in DOMAIN stage /\ stage'[s] = stage[s] /\ stage'[t] = stage[t]
        BY <1>0, <1>1
      <4> QED BY <3>1, <3>2, <4>1 DEF Boards!PositionsDistinct
    <3> QED BY <1>1, <3>2 DEF Boards!PositionsDistinct
  <2>2. OpenStageLeft'
    BY <1>0, <1>1, Zenon DEF OpenStageLeft, StagesGo
  <2>3. DealsStand'
    BY <1>0, <1>1, Zenon DEF PipelinesInv, DealsStand, StagesGo
  <2>4. RequiredActive'
    <3>1. ASSUME NEW s \in Boards!StageId PROVE required'[s] \subseteq active'
      BY <1>0, Zenon DEF PipelinesInv, RequiredActive, StagesGo
    <3>2. Boards!StageId' = Boards!StageId
      BY DEF Boards!StageId
    <3> QED BY <3>1, <3>2 DEF RequiredActive
  <2> QED BY <2>1, <2>2, <2>3, <2>4
<1>5. RenumberingFits'
  <2>1. \A s \in DOMAIN stage : s \in DOMAIN renumbering.place => stage[s].pipeline = renumbering.pipeline
    BY NoneIsRenumbered DEF PipelinesInv, RenumberingFits, RenumberingTypes
  <2>2. RenumberingFits /\ lastStage \in Nat
    BY StageIds DEF PipelinesInv
  <2>3. \A s \in DOMAIN stage : stage[s].pipeline = renumbering.pipeline =>
          s \in DOMAIN stage' /\ stage'[s] = stage[s]
    BY <1>1, Zenon DEF StagesGo
  <2>4. \A s \in DOMAIN stage' :
          stage'[s].pipeline = renumbering.pipeline \/ s \in DOMAIN renumbering.place =>
             s \in DOMAIN stage /\ stage[s].pipeline = renumbering.pipeline
    BY <1>0, <1>1, <2>1
  <2>5. /\ renumbering' = renumbering /\ lastStage' = lastStage
        /\ renumbering # Boards!NoRenumbering => renumbering.pipeline \in pipeline'
    BY Zenon DEF StagesGo
  <2>6. RenumberedStay
    BY <2>2, <2>3, <2>4, <2>5 DEF RenumberedStay
  <2> QED BY <2>2, <2>6, RenumberingStays
<1>6. ASSUME NEW o \in Request PROVE (DeletesAlone(o) /\ MovesWithin(o) /\ RequiresActive(o))'
  <2>1. CASE o = r
    BY <1>2, <2>1, IdleIsEdit, Zenon DEF DeletesAlone, MovesWithin, RequiresActive
  <2>2. CASE o # r
    <3>1. edit'[o] = edit[o] /\ DeletesAlone(o) /\ MovesWithin(o) /\ RequiresActive(o)
      BY <1>2, <2>2 DEF PipelinesInv, EditsFit
    <3>2. DeletesAlone(o)'
      BY <1>0, <1>2, <2>2, <3>1, IdleIsEdit, Zenon DEF DeletesAlone, StagesGo
    <3>3. RequiresActive(o)'
      BY <1>0, <3>1, Zenon DEF RequiresActive
    <3>4. edit[o].stage \in DOMAIN renumbering.place /\ edit[o].stage \in DOMAIN stage
              => edit[o].stage \in D
      <4>1. CASE renumbering = Boards!NoRenumbering
        BY <4>1, NoneIsRenumbered
      <4>2. CASE renumbering # Boards!NoRenumbering
        BY <4>2, Zenon DEF PipelinesInv, RenumberingFits, RenumberingTypes, StagesGo
      <4> QED BY <4>1, <4>2
    <3>5. MovesWithin(o)'
      BY <1>0, <1>1, <3>1, <3>4, Zenon DEF MovesWithin
    <3> QED BY <3>2, <3>3, <3>5
  <2> QED BY <2>1, <2>2
<1> QED BY <1>3, <1>4, <1>5, <1>6 DEF PipelinesInv, EditsFit

LEMMA DeletePipelineInv ==
    ASSUME PipelinesInv, NEW r \in Request, Boards!DeletePipeline(r)
    PROVE  PipelinesInv' /\ Boards!OpenStagesKept
<1>1. edit[r].op = "delete pipeline" /\ DeletesAlone(r)
  BY Zenon DEF Boards!DeletePipeline, PipelinesInv, EditsFit
<1>2. PICK p : p = edit[r].pipeline
  OBVIOUS
<1>3. /\ p \in pipeline /\ renumbering.pipeline # p
      /\ \A d \in DOMAIN deal : deal[d].pipeline # p
      /\ \A o \in Request : o # r /\ edit[o].op = "delete pipeline" => edit[o].pipeline # p
  BY <1>1, <1>2, Zenon DEF DeletesAlone
<1> DEFINE D == DOMAIN stage \ Boards!Stages(p)
           P == pipeline \ {p}
<1>4. /\ pipeline' = P /\ stage' = [s \in D |-> stage[s]]
      /\ required' = [s \in Boards!StageId |-> IF s \in Boards!Stages(p) THEN {} ELSE required[s]]
      /\ edit' = [edit EXCEPT ![r] = Boards!Idle]
      /\ UNCHANGED <<lastStage, deal, active, renumbering>>
  BY <1>2, Zenon DEF Boards!DeletePipeline, Boards!Restrict, Boards!Ends
<1>5. D \subseteq DOMAIN stage /\ P \subseteq pipeline
          /\ \A s \in DOMAIN stage : s \in D <=> stage[s].pipeline # p
  BY DEF Boards!Stages
<1>6. required \in [Boards!StageId -> SUBSET Field]
  BY DEF PipelinesInv, PipelineTypes
<1>7. required' \in [Boards!StageId -> SUBSET Field]
          /\ \A s \in Boards!StageId : required'[s] \subseteq required[s]
  BY <1>4, <1>6
<1>8. \A s \in D : stage[s].pipeline \in P
  BY <1>5 DEF PipelinesInv, PipelineTypes
<1>9. \A d \in DOMAIN deal : deal[d].stage \in D
  BY <1>3, <1>5, Zenon DEF PipelinesInv, DealsStand
<1>10. \A q \in P \ AmoPipeline : \E s \in D : stage[s].pipeline = q /\ stage[s].kind = "open"
  BY <1>5 DEF PipelinesInv, OpenStageLeft
<1>11. renumbering # Boards!NoRenumbering => renumbering.pipeline \in P
  BY <1>3, Zenon DEF PipelinesInv, RenumberingFits, RenumberingTypes
<1>12. \A o \in Request \ {r} : edit[o].op = "delete pipeline" => edit[o].pipeline \in P
  BY <1>3, Zenon DEF PipelinesInv, EditsFit, DeletesAlone
<1>13. \A s \in DOMAIN stage \ D : renumbering.pipeline # stage[s].pipeline
  BY <1>3, <1>5, Zenon
<1>15. Boards!OpenStagesKept
  <2>1. DOMAIN stage' = D /\ \A s \in D : stage'[s] = stage[s]
    BY <1>4
  <2>2. \A q \in pipeline' : \A s \in Boards!Stages(q) : s \in D
    BY <1>4, <1>5 DEF Boards!Stages
  <2> HIDE DEF D, P
  <2> QED BY <2>1, <2>2 DEF Boards!OpenStagesKept, Boards!OpenStages, Boards!Stages
<1> HIDE DEF D, P
<1>14. StagesGo(r, D, P)
  BY <1>4, <1>5, <1>7, <1>8, <1>9, <1>10, <1>11, <1>12, <1>13, Zenon DEF StagesGo
<1> QED BY <1>14, <1>15, StagesGoInv, Zenon

(* A request that ends with nothing written. *)
LEMMA EndedInv ==
    ASSUME PipelinesInv, NEW r \in Request, edit' = [edit EXCEPT ![r] = Boards!Idle],
           UNCHANGED <<pipeline, stage, lastStage, deal, active, required, renumbering>>
    PROVE  PipelinesInv'
<1>1. Edited(r, Boards!Idle)
  BY IdleIsEdit DEF Edited
<1> QED BY <1>1, IdleIsEdit, EditedInv

LEMMA DeleteStageInv ==
    ASSUME PipelinesInv, NEW r \in Request, Boards!DeleteStage(r)
    PROVE  PipelinesInv' /\ Boards!OpenStagesKept
<1>1. PICK s : s = edit[r].stage
  OBVIOUS
<1>2. /\ s \in DOMAIN stage => ~Boards!Locked(stage[s].pipeline)
      /\ IF s \in DOMAIN stage /\ Boards!Deletable(s)
         THEN /\ stage' = [t \in DOMAIN stage \ {s} |-> stage[t]]
              /\ required' = [required EXCEPT ![s] = {}]
         ELSE UNCHANGED <<stage, required>>
      /\ edit' = [edit EXCEPT ![r] = Boards!Idle]
      /\ UNCHANGED <<pipeline, lastStage, deal, active, renumbering>>
  BY <1>1, Zenon DEF Boards!DeleteStage, Boards!Restrict, Boards!Ends
<1>3. CASE ~(s \in DOMAIN stage /\ Boards!Deletable(s))
  BY <1>2, <1>3, EndedInv DEF Boards!OpenStagesKept, Boards!OpenStages, Boards!Stages
<1>4. CASE s \in DOMAIN stage /\ Boards!Deletable(s)
  <2> DEFINE D == DOMAIN stage \ {s}
  <2>1. stage' = [t \in D |-> stage[t]] /\ required' = [required EXCEPT ![s] = {}]
    BY <1>2, <1>4
  <2>2. required' \in [Boards!StageId -> SUBSET Field]
            /\ \A t \in Boards!StageId : required'[t] \subseteq required[t]
    BY <2>1 DEF PipelinesInv, PipelineTypes
  <2>3. \A t \in D : stage[t].pipeline \in pipeline
    BY DEF PipelinesInv, PipelineTypes
  <2>4. renumbering.pipeline # stage[s].pipeline
    BY <1>2, <1>4, Zenon DEF Boards!Locked
  <2>5. renumbering # Boards!NoRenumbering => renumbering.pipeline \in pipeline
    BY DEF PipelinesInv, RenumberingFits, RenumberingTypes
  <2>6. \A d \in DOMAIN deal : deal[d].stage \in D
    BY <1>4 DEF PipelinesInv, DealsStand, Boards!Deletable
  <2>7. ASSUME NEW p \in pipeline, Boards!OpenStages(p) # {}
        PROVE  \E t \in D : stage[t].pipeline = p /\ stage[t].kind = "open"
    <3>1. CASE p # stage[s].pipeline
      BY <2>7, <3>1 DEF Boards!OpenStages, Boards!Stages
    <3>2. CASE p = stage[s].pipeline
      <4>1. Boards!Cardinality(Boards!OpenStages(p)) > 1
        BY <1>4, <3>2 DEF Boards!Deletable
      <4>2. Boards!Cardinality({s}) = 1 /\ Boards!Cardinality({}) = 0
        BY FS_Singleton, FS_EmptySet DEF Boards!Cardinality, Cardinality
      <4>3. Boards!OpenStages(p) # {s} /\ Boards!OpenStages(p) # {}
        BY <4>1, <4>2
      <4>4. PICK t \in Boards!OpenStages(p) : t # s
        BY <4>3
      <4> QED BY <4>4 DEF Boards!OpenStages, Boards!Stages
    <3> QED BY <3>1, <3>2
  <2>8. \A o \in Request \ {r} : edit[o].op = "delete pipeline" => edit[o].pipeline \in pipeline
    BY Zenon DEF PipelinesInv, EditsFit, DeletesAlone
  <2>9. D \subseteq DOMAIN stage /\ \A t \in DOMAIN stage \ D : t = s
    OBVIOUS
  <2>11. \A p \in pipeline \ AmoPipeline : \E t \in D : stage[t].pipeline = p /\ stage[t].kind = "open"
    <3>1. \A p \in pipeline \ AmoPipeline : Boards!OpenStages(p) # {}
      BY StagesDoHold DEF Boards!StagesHold
    <3> QED BY <2>7, <3>1
  <2>12. Boards!OpenStagesKept
    <3>1. DOMAIN stage' = D /\ \A t \in D : stage'[t] = stage[t]
      BY <2>1
    <3> HIDE DEF D
    <3> QED BY <2>7, <3>1 DEF Boards!OpenStagesKept, Boards!OpenStages, Boards!Stages
  <2> HIDE DEF D
  <2>10. StagesGo(r, D, pipeline)
    BY <1>2, <2>1, <2>2, <2>3, <2>4, <2>5, <2>6, <2>8, <2>9, <2>11, Zenon DEF StagesGo
  <2> QED BY <2>10, <2>12, StagesGoInv
<1> QED BY <1>3, <1>4

(* What is said of stages alone *)
LEMMA StagesStay ==
    ASSUME PipelinesInv, UNCHANGED <<pipeline, stage, lastStage, renumbering>>
    PROVE  Boards!PositionsDistinct' /\ OpenStageLeft' /\ RenumberingFits'
<1>1. Boards!PositionsDistinct' /\ OpenStageLeft'
  BY DEF PipelinesInv, Boards!PositionsDistinct, OpenStageLeft
<1>2. renumbering # Boards!NoRenumbering => renumbering.pipeline \in pipeline
  BY DEF PipelinesInv, RenumberingFits, RenumberingTypes
<1>3. \A s \in DOMAIN stage : s \in DOMAIN renumbering.place => stage[s].pipeline = renumbering.pipeline
  BY NoneIsRenumbered DEF PipelinesInv, RenumberingFits, RenumberingTypes
<1>4. RenumberingFits /\ lastStage \in Nat
  BY StageIds DEF PipelinesInv
<1>5. RenumberedStay
  BY <1>2, <1>3, <1>4 DEF RenumberedStay
<1> QED BY <1>1, <1>4, <1>5, RenumberingStays

LEMMA VersionsGrow ==
    ASSUME NEW n \in Nat, NEW m \in Nat, NEW k \in Nat, n <= m, m <= k
    PROVE  n <= k /\ (k = n => m = n)
OBVIOUS

(* Deals come, and go, where no deletion is under way; one that leaves its  *)
(* pipeline has another version.                                            *)
LEMMA DealsInv ==
    ASSUME PipelinesInv, DealsStand', DOMAIN deal' \subseteq Deal, deal' \in [DOMAIN deal' -> DealRow],
           UNCHANGED <<pipeline, stage, lastStage, active, required, renumbering>>,
           DOMAIN deal \subseteq DOMAIN deal',
           \A d \in DOMAIN deal : /\ deal[d].version <= deal'[d].version
                                  /\ deal'[d].version = deal[d].version =>
                                        deal'[d].pipeline = deal[d].pipeline,
           \A d \in DOMAIN deal' : \/ ~Boards!Locked(deal'[d].pipeline)
                                   \/ d \in DOMAIN deal /\ deal'[d].pipeline = deal[d].pipeline,
           edit' \in [Request -> EditRow],
           \A r \in Request : edit'[r] \in {edit[r], Boards!Idle}
    PROVE  PipelinesInv'
<1>1. Boards!PositionsDistinct' /\ OpenStageLeft' /\ RenumberingFits'
  BY StagesStay
<1>2. PipelineTypes' /\ RequiredActive'
  BY DEF PipelinesInv, PipelineTypes, RequiredActive
<1>3. ASSUME NEW r \in Request PROVE (DeletesAlone(r) /\ MovesWithin(r) /\ RequiresActive(r))'
  <2>1. CASE edit'[r] = Boards!Idle
    BY <2>1, IdleIsEdit, Zenon DEF DeletesAlone, MovesWithin, RequiresActive
  <2>2. CASE edit'[r] = edit[r]
    <3>1. DeletesAlone(r) /\ MovesWithin(r) /\ RequiresActive(r) /\ edit[r] \in EditRow
      BY DEF PipelinesInv, EditsFit, PipelineTypes
    <3>2. \A o \in Request : edit'[o].op = "delete pipeline" => edit'[o] = edit[o]
      BY IdleIsEdit, Zenon
    <3>3. \A d \in DOMAIN deal' : edit[r].op = "delete pipeline" => deal'[d].pipeline # edit[r].pipeline
      BY <3>1, Zenon DEF DeletesAlone, Boards!Locked
    <3>4. DeletesAlone(r)'
      BY <2>2, <3>1, <3>2, <3>3, Zenon DEF DeletesAlone
    <3>7. ASSUME NEW n \in Nat, NEW d \in DOMAIN deal, n <= deal[d].version
          PROVE  /\ n <= deal'[d].version
                 /\ deal'[d].version = n => deal[d].version = n /\ deal'[d].pipeline = deal[d].pipeline
      <4>1. deal[d].version \in Nat /\ deal'[d].version \in Nat
        BY DEF PipelinesInv, PipelineTypes, DealRow
      <4>2. n <= deal'[d].version /\ (deal'[d].version = n => deal[d].version = n)
        BY <3>7, <4>1, VersionsGrow
      <4> QED BY <4>2
    <3>5. MovesWithin(r)'
      <4> SUFFICES ASSUME edit[r].op = "move deal" PROVE MovesWithin(r)'
        BY <2>2, Zenon DEF MovesWithin
      <4>1. PICK n \in Nat : n = edit[r].expected
        BY <3>1, EditRows, Zenon DEF MoveDealRequest
      <4>2. PICK d \in DOMAIN deal : d = edit[r].deal /\ n <= deal[d].version
        BY <3>1, <4>1, Zenon DEF MovesWithin
      <4>4. /\ n <= deal'[d].version
            /\ deal'[d].version = n => deal[d].version = n /\ deal'[d].pipeline = deal[d].pipeline
        BY <3>7, <4>2, Zenon
      <4> QED BY <2>2, <3>1, <4>1, <4>2, <4>4, Zenon DEF MovesWithin
    <3>6. RequiresActive(r)'
      BY <2>2, <3>1, Zenon DEF RequiresActive
    <3> QED BY <3>4, <3>5, <3>6
  <2> QED BY <2>1, <2>2
<1> QED BY <1>1, <1>2, <1>3 DEF PipelinesInv, EditsFit

LEMMA CreateDealInv ==
    ASSUME PipelinesInv, NEW d \in Deal, NEW s \in DOMAIN stage, Boards!CreateDeal(d, s)
    PROVE  PipelinesInv'
<1>1. PICK p \in Pipeline : p = stage[s].pipeline
  BY DEF PipelinesInv, PipelineTypes, StageRow
<1> DEFINE x == [pipeline |-> p, stage |-> s, version |-> 1, history |-> {s}, imported |-> FALSE]
           E == DOMAIN deal \cup {d}
<1>2. /\ d \notin DOMAIN deal /\ ~Boards!Locked(p)
      /\ deal' = [e \in E |-> IF e = d THEN x ELSE deal[e]]
      /\ UNCHANGED <<pipeline, stage, lastStage, active, required, renumbering, edit>>
  BY <1>1 DEF Boards!CreateDeal
<1>3. s \in Boards!StageId
  BY StageIds DEF PipelinesInv
<1>4. x \in DealRow /\ x.pipeline = p /\ x.stage = s
  BY <1>3 DEF DealRow
<1>5. DOMAIN deal \subseteq Deal /\ deal \in [DOMAIN deal -> DealRow] /\ edit \in [Request -> EditRow]
  BY DEF PipelinesInv, PipelineTypes
<1> HIDE DEF x
<1>6. DOMAIN deal' = E /\ deal' \in [E -> DealRow]
  BY <1>2, <1>4, <1>5
<1>7. deal'[d] = x /\ \A e \in DOMAIN deal : deal'[e] = deal[e] /\ deal[e].version \in Nat
  BY <1>2, <1>5 DEF DealRow
<1>8. DealsStand'
  BY <1>1, <1>2, <1>4, <1>6, <1>7 DEF PipelinesInv, DealsStand
<1>9. edit' \in [Request -> EditRow] /\ \A r \in Request : edit'[r] \in {edit[r], Boards!Idle}
  BY <1>2, <1>5
<1>10. DOMAIN deal' \subseteq Deal /\ DOMAIN deal \subseteq DOMAIN deal'
           /\ \A e \in DOMAIN deal' \ DOMAIN deal : e = d
  BY <1>5, <1>6
<1> QED BY <1>2, <1>4, <1>6, <1>7, <1>8, <1>9, <1>10, DealsInv

LEMMA UpdateDealInv ==
    ASSUME PipelinesInv, NEW d \in DOMAIN deal, Boards!UpdateDeal(d)
    PROVE  PipelinesInv'
<1>1. DOMAIN deal \subseteq Deal /\ deal \in [DOMAIN deal -> DealRow] /\ edit \in [Request -> EditRow]
  BY DEF PipelinesInv, PipelineTypes
<1> DEFINE x == [deal[d] EXCEPT !.version = @ + 1]
<1>2. x \in DealRow /\ x.pipeline = deal[d].pipeline /\ x.stage = deal[d].stage
          /\ deal[d].version <= x.version
  BY <1>1 DEF DealRow
<1>3. deal' = [deal EXCEPT ![d] = x]
      /\ UNCHANGED <<pipeline, stage, lastStage, active, required, renumbering, edit>>
  BY DEF Boards!UpdateDeal
<1> HIDE DEF x
<1>4. /\ DOMAIN deal' = DOMAIN deal /\ deal' \in [DOMAIN deal -> DealRow]
      /\ \A e \in DOMAIN deal : deal'[e].pipeline = deal[e].pipeline /\ deal'[e].stage = deal[e].stage
             /\ deal[e].version <= deal'[e].version
  <2>1. \A e \in DOMAIN deal : deal[e].version \in Nat
    BY <1>1 DEF DealRow
  <2> QED BY <1>1, <1>2, <1>3, <2>1
<1>5. DealsStand'
  BY <1>3, <1>4 DEF PipelinesInv, DealsStand
<1>6. edit' \in [Request -> EditRow] /\ \A r \in Request : edit'[r] \in {edit[r], Boards!Idle}
  BY <1>1, <1>3
<1> QED BY <1>1, <1>3, <1>4, <1>5, <1>6, DealsInv

LEMMA TransitionInv ==
    ASSUME PipelinesInv, NEW r \in Request, Boards!TransitionDealStage(r)
    PROVE  PipelinesInv'
<1>1. DOMAIN deal \subseteq Deal /\ deal \in [DOMAIN deal -> DealRow] /\ edit \in [Request -> EditRow]
  BY DEF PipelinesInv, PipelineTypes
<1>2. edit[r].op = "move deal"
  BY Zenon DEF Boards!TransitionDealStage
<1>3. PICK q \in MoveDealRequest : q = edit[r]
  BY <1>1, <1>2, EditRows, Zenon
<1>4. PICK d, s : d = q.deal /\ s = q.stage
  OBVIOUS
<1>5. s \in Boards!StageId /\ q.expected \in Nat
  BY <1>4, Zenon DEF MoveDealRequest
<1>6. /\ d \in DOMAIN deal
      /\ s \in DOMAIN stage /\ deal[d].version = q.expected => stage[s].pipeline = deal[d].pipeline
  BY <1>2, <1>3, <1>4, Zenon DEF PipelinesInv, EditsFit, MovesWithin
<1>7. PICK p \in Pipeline, n \in Nat, h \in SUBSET Boards!StageId, z \in Boards!StageId, b \in BOOLEAN :
         deal[d] = [pipeline |-> p, stage |-> z, version |-> n, history |-> h, imported |-> b]
  BY <1>1, <1>6 DEF DealRow
<1> DEFINE moves == deal[d].version = q.expected /\ q.expected < MaxDealVersion /\ s \in DOMAIN stage
           x == [pipeline |-> p, stage |-> s, version |-> n + 1, history |-> h \cup {z, s},
                 imported |-> b]
<1>10. /\ edit' = [edit EXCEPT ![r] = Boards!Idle]
       /\ UNCHANGED <<pipeline, stage, lastStage, active, required, renumbering>>
       /\ ~moves => deal' = deal
       /\ moves => deal' = [deal EXCEPT ![d] = [pipeline |-> @.pipeline, stage |-> s,
              version |-> @.version + 1, history |-> @.history \cup {@.stage, s},
              imported |-> @.imported]]
  BY <1>3, <1>4, Zenon DEF Boards!TransitionDealStage, Boards!Ends
<1>11. moves => deal' = [deal EXCEPT ![d] = x]
  <2> HIDE DEF moves
  <2> QED BY <1>7, <1>10
<1>8. CASE ~moves
  BY <1>10, <1>8, EndedInv
<1>9. CASE moves
  <2>1. s \in DOMAIN stage /\ deal' = [deal EXCEPT ![d] = x]
    BY <1>11, <1>9
  <2>2. x \in DealRow /\ x.pipeline = deal[d].pipeline /\ x.stage = s /\ deal[d].version <= x.version
    <3>1. n + 1 \in Nat /\ n <= n + 1 /\ h \cup {z, s} \in SUBSET Boards!StageId
      BY <1>5
    <3> QED BY <1>5, <1>7, <3>1 DEF DealRow
  <2>7. stage[s].pipeline = deal[d].pipeline
    BY <1>6, <1>9
  <2>8. \A e \in DOMAIN deal : deal[e].version \in Nat
    BY <1>1 DEF DealRow
  <2> HIDE DEF x, moves
  <2>3. /\ DOMAIN deal' = DOMAIN deal /\ deal' \in [DOMAIN deal -> DealRow]
        /\ \A e \in DOMAIN deal : deal'[e].pipeline = deal[e].pipeline
               /\ deal[e].version <= deal'[e].version
        /\ \A e \in DOMAIN deal : e # d => deal'[e].stage = deal[e].stage
        /\ deal'[d].stage = s
    BY <1>1, <1>6, <2>1, <2>2, <2>8
  <2>4. DealsStand'
    BY <1>6, <1>10, <2>7, <2>1, <2>3 DEF PipelinesInv, DealsStand
  <2>5. edit' \in [Request -> EditRow] /\ \A o \in Request : edit'[o] \in {edit[o], Boards!Idle}
    BY <1>1, <1>10, IdleIsEdit
  <2>6. UNCHANGED <<pipeline, stage, lastStage, active, required, renumbering>>
    BY <1>10
  <2> QED BY <1>1, <2>3, <2>4, <2>5, <2>6, DealsInv
<1> QED BY <1>8, <1>9

(* A deal that an import moves has a new version. *)
LEMMA ImportDealInv ==
    ASSUME PipelinesInv, NEW d \in Deal, NEW s \in DOMAIN stage, Boards!ImportDeal(d, s)
    PROVE  PipelinesInv'
<1>1. DOMAIN deal \subseteq Deal /\ deal \in [DOMAIN deal -> DealRow] /\ edit \in [Request -> EditRow]
  BY DEF PipelinesInv, PipelineTypes
<1>2. PICK p \in Pipeline : p = stage[s].pipeline
  BY DEF PipelinesInv, PipelineTypes, StageRow
<1>3. PICK n \in Nat, h \in SUBSET Boards!StageId :
         /\ n = IF d \in DOMAIN deal THEN deal[d].version + 1 ELSE 1
         /\ h = IF d \in DOMAIN deal THEN deal[d].history ELSE {}
  <2>1. d \in DOMAIN deal => deal[d].version \in Nat /\ deal[d].history \in SUBSET Boards!StageId
    BY <1>1 DEF DealRow
  <2>2. CASE d \in DOMAIN deal
    BY <2>1, <2>2
  <2>3. CASE d \notin DOMAIN deal
    BY <2>3
  <2> QED BY <2>2, <2>3
<1> DEFINE x == [pipeline |-> p, stage |-> s, imported |-> TRUE, version |-> n, history |-> h]
           E == DOMAIN deal \cup {d}
<1>4. /\ deal' = [e \in E |-> IF e # d THEN deal[e] ELSE x] /\ ~Boards!Locked(p)
      /\ UNCHANGED <<pipeline, stage, lastStage, active, required, renumbering, edit>>
  BY <1>2, <1>3 DEF Boards!ImportDeal
<1>5. x \in DealRow /\ x.pipeline = p /\ x.stage = s /\ x.version = n
  BY StageIds DEF PipelinesInv, DealRow
<1> HIDE DEF x
<1>6. /\ DOMAIN deal' = E /\ deal' \in [E -> DealRow] /\ deal'[d] = x
      /\ \A e \in DOMAIN deal : e # d => deal'[e] = deal[e]
  BY <1>1, <1>4, <1>5
<1>7. DealsStand'
  BY <1>2, <1>4, <1>5, <1>6 DEF PipelinesInv, DealsStand
<1>8. \A e \in DOMAIN deal : /\ deal[e].version <= deal'[e].version
                             /\ deal'[e].version = deal[e].version =>
                                   deal'[e].pipeline = deal[e].pipeline
  <2>1. \A e \in DOMAIN deal : deal[e].version \in Nat
    BY <1>1 DEF DealRow
  <2> QED BY <1>3, <1>5, <1>6, <2>1
<1>9. edit' \in [Request -> EditRow] /\ \A r \in Request : edit'[r] \in {edit[r], Boards!Idle}
  BY <1>1, <1>4
<1>10. DOMAIN deal' \subseteq Deal /\ DOMAIN deal \subseteq DOMAIN deal'
           /\ \A e \in DOMAIN deal' \ DOMAIN deal : e = d
  BY <1>1, <1>6
<1>11. \A e \in DOMAIN deal' : \/ ~Boards!Locked(deal'[e].pipeline)
                               \/ e \in DOMAIN deal /\ deal'[e].pipeline = deal[e].pipeline
  BY <1>4, <1>5, <1>6, <1>10
<1> QED BY <1>4, <1>6, <1>7, <1>8, <1>9, <1>10, <1>11, DealsInv

LEMMA ReplaceRequiredFieldsInv ==
    ASSUME PipelinesInv, NEW r \in Request, Boards!ReplaceRequiredFields(r)
    PROVE  PipelinesInv'
<1>1. required \in [Boards!StageId -> SUBSET Field] /\ edit \in [Request -> EditRow]
  BY DEF PipelinesInv, PipelineTypes
<1>2. edit[r].op = "require fields" /\ edit[r].fields \subseteq active
  BY Zenon DEF Boards!ReplaceRequiredFields, PipelinesInv, EditsFit, RequiresActive
<1>3. PICK q \in RequireFieldsRequest : q = edit[r]
  BY <1>1, <1>2, EditRows, Zenon
<1>4. PICK s \in Boards!StageId, F \in SUBSET Field, O \in SUBSET Field : s = q.stage /\ F = q.fields
               /\ O = q.old
  BY Zenon DEF RequireFieldsRequest
<1>5. F \subseteq active
  BY <1>2, <1>3, <1>4, Zenon
<1>6. /\ required' = IF s \in DOMAIN stage THEN [required EXCEPT ![s] = (@ \ O) \cup F] ELSE required
      /\ edit' = [edit EXCEPT ![r] = Boards!Idle]
      /\ UNCHANGED <<pipeline, stage, lastStage, deal, active, renumbering>>
  BY <1>3, <1>4, Zenon DEF Boards!ReplaceRequiredFields, Boards!Ends
<1>7. edit'[r] = Boards!Idle /\ (\A o \in Request : o # r => edit'[o] = edit[o])
          /\ edit' \in [Request -> EditRow]
  BY <1>6, EditMoves, IdleIsEdit DEF PipelinesInv
<1>8. required' \in [Boards!StageId -> SUBSET Field]
  BY <1>1, <1>6
<1>9. RequiredActive'
  <2>1. \A z \in Boards!StageId : required'[z] \subseteq active
    BY <1>1, <1>5, <1>6 DEF PipelinesInv, RequiredActive
  <2> QED BY <1>6, <2>1 DEF RequiredActive, Boards!StageId
<1>10. Boards!PositionsDistinct' /\ OpenStageLeft' /\ RenumberingFits' /\ DealsStand'
  BY <1>6, StagesStay DEF PipelinesInv, DealsStand
<1>11. PipelineTypes'
  BY <1>6, <1>7, <1>8 DEF PipelinesInv, PipelineTypes
<1>12. ASSUME NEW o \in Request PROVE (DeletesAlone(o) /\ MovesWithin(o) /\ RequiresActive(o))'
  <2>1. CASE o = r
    BY <1>7, <2>1, IdleIsEdit, Zenon DEF DeletesAlone, MovesWithin, RequiresActive
  <2>2. CASE o # r
    BY <1>6, <1>7, <2>2, IdleIsEdit, Zenon DEF PipelinesInv, EditsFit, DeletesAlone, MovesWithin,
           RequiresActive
  <2> QED BY <2>1, <2>2
<1> QED BY <1>9, <1>10, <1>11, <1>12 DEF PipelinesInv, EditsFit

LEMMA DeleteCustomFieldInv ==
    ASSUME PipelinesInv, NEW f \in Field, Boards!DeleteCustomField(f)
    PROVE  PipelinesInv'
<1>1. /\ f \notin Boards!LockedFields /\ active' = active \ {f}
      /\ required' = [s \in Boards!StageId |-> required[s] \ {f}]
      /\ UNCHANGED <<pipeline, stage, lastStage, deal, renumbering, edit>>
  BY DEF Boards!DeleteCustomField
<1>2. required' \in [Boards!StageId -> SUBSET Field] /\ active' \subseteq Field
  BY <1>1 DEF PipelinesInv, PipelineTypes
<1>3. RequiredActive'
  <2>1. \A z \in Boards!StageId : required'[z] \subseteq active'
    BY <1>1 DEF PipelinesInv, RequiredActive
  <2> QED BY <2>1 DEF RequiredActive, Boards!StageId
<1>4. Boards!PositionsDistinct' /\ OpenStageLeft' /\ RenumberingFits' /\ DealsStand'
  BY <1>1, StagesStay DEF PipelinesInv, DealsStand
<1>5. PipelineTypes'
  BY <1>1, <1>2 DEF PipelinesInv, PipelineTypes
<1>6. ASSUME NEW o \in Request PROVE (DeletesAlone(o) /\ MovesWithin(o) /\ RequiresActive(o))'
  <2>1. DeletesAlone(o) /\ MovesWithin(o) /\ RequiresActive(o)
    BY DEF PipelinesInv, EditsFit
  <2>2. edit[o].op = "require fields" => f \notin edit[o].fields
    BY <1>1, Zenon DEF Boards!LockedFields
  <2>3. DeletesAlone(o)' /\ MovesWithin(o)'
    BY <1>1, <2>1, Zenon DEF DeletesAlone, MovesWithin
  <2>4. RequiresActive(o)'
    BY <1>1, <2>1, <2>2, Zenon DEF RequiresActive
  <2> QED BY <2>3, <2>4
<1> QED BY <1>3, <1>4, <1>5, <1>6 DEF PipelinesInv, EditsFit

LEMMA Later ==
    ASSUME NEW k \in Nat, NEW m \in Nat, NEW n \in Nat, k <= m, m <= n
    PROVE  k <= n /\ \A a \in Nat : a > m => k # a
OBVIOUS

(* Stages with new ids come, where no renumbering is under way. *)
StagesCome(A, n) ==
    /\ n \in 0..MaxStage /\ lastStage <= n /\ lastStage' = n
    /\ \A a \in A : a \in 1..n /\ a > lastStage
    /\ DOMAIN stage' = DOMAIN stage \cup A /\ stage' = [s \in DOMAIN stage \cup A |-> stage'[s]]
    /\ \A s \in DOMAIN stage : stage'[s] = stage[s]
    /\ \A a \in A : /\ stage'[a] \in StageRow
                    /\ stage'[a].pipeline \in pipeline'
                    /\ stage'[a].pipeline # renumbering.pipeline
    /\ \A a \in A, t \in DOMAIN stage' : a # t /\ stage'[a].pipeline = stage'[t].pipeline
           => stage'[a].position # stage'[t].position
    /\ pipeline \subseteq pipeline' /\ pipeline' \subseteq Pipeline
    /\ UNCHANGED <<deal, active, required, renumbering, edit>>

LEMMA StagesComeInv ==
    ASSUME PipelinesInv, NEW A, NEW n, StagesCome(A, n), OpenStageLeft'
    PROVE  PipelinesInv'
<1> USE DEF StagesCome
<1>1. /\ lastStage \in Nat /\ n \in Nat
      /\ \A s \in DOMAIN stage : s \in 1..lastStage /\ s \in 1..n
      /\ \A a \in A : a \in Nat /\ a \notin DOMAIN stage
  BY StageIds DEF PipelinesInv
<1>2. PipelineTypes'
  <2>1. \A s \in DOMAIN stage' : stage'[s] \in StageRow /\ stage'[s].pipeline \in pipeline'
    BY DEF PipelinesInv, PipelineTypes
  <2>2. stage' \in [DOMAIN stage' -> StageRow]
    BY <2>1
  <2>3. DOMAIN stage' \subseteq 1..lastStage'
    BY <1>1
  <2> QED BY <2>1, <2>2, <2>3 DEF PipelinesInv, PipelineTypes
<1>3. Boards!PositionsDistinct'
  <2>1. ASSUME NEW s \in DOMAIN stage', NEW t \in DOMAIN stage', s # t,
               stage'[s].pipeline = stage'[t].pipeline
        PROVE  stage'[s].position # stage'[t].position
    <3>1. CASE s \in DOMAIN stage /\ t \in DOMAIN stage
      BY <2>1, <3>1 DEF PipelinesInv, Boards!PositionsDistinct
    <3>2. CASE s \in A
      BY <2>1, <3>2
    <3>3. CASE t \in A
      BY <2>1, <3>3
    <3> QED BY <3>1, <3>2, <3>3
  <2> QED BY <2>1 DEF Boards!PositionsDistinct
<1>4. DealsStand' /\ RequiredActive'
  BY DEF PipelinesInv, DealsStand, RequiredActive, Boards!StageId
<1>5. \A s \in DOMAIN renumbering.place : s \notin A
  <2>1. CASE renumbering = Boards!NoRenumbering
    BY <2>1, NoneIsRenumbered
  <2>2. CASE renumbering # Boards!NoRenumbering
    <3>1. DOMAIN renumbering.place \subseteq 1..lastStage
      BY <2>2 DEF PipelinesInv, RenumberingFits, RenumberingTypes
    <3> QED BY <1>1, <3>1
  <2> QED BY <2>1, <2>2
<1>6. RenumberingFits'
  <2>1. renumbering # Boards!NoRenumbering => renumbering.pipeline \in pipeline'
    BY DEF PipelinesInv, RenumberingFits, RenumberingTypes
  <2>2. \A s \in DOMAIN stage : s \in DOMAIN renumbering.place => stage[s].pipeline = renumbering.pipeline
    BY NoneIsRenumbered DEF PipelinesInv, RenumberingFits, RenumberingTypes
  <2>3. RenumberedStay
    BY <1>1, <1>5, <2>1, <2>2 DEF RenumberedStay
  <2> QED BY <2>3, RenumberingStays DEF PipelinesInv
<1>7. ASSUME NEW o \in Request PROVE (DeletesAlone(o) /\ MovesWithin(o) /\ RequiresActive(o))'
  <2>1. DeletesAlone(o) /\ MovesWithin(o) /\ RequiresActive(o) /\ edit'[o] = edit[o]
            /\ edit[o] \in EditRow
    BY DEF PipelinesInv, EditsFit, PipelineTypes
  <2>2. DeletesAlone(o)'
    BY <2>1, Zenon DEF DeletesAlone
  <2>5. UNCHANGED <<deal, active, required, renumbering, edit>>
    BY Zenon
  <2>6. ASSUME NEW k \in Nat, k <= lastStage
        PROVE  /\ k <= lastStage'
               /\ k \in DOMAIN stage' => k \in DOMAIN stage /\ stage'[k] = stage[k]
               /\ k \in DOMAIN stage => k \in DOMAIN stage'
    <3>1. k <= n /\ k \notin A
      BY <1>1, <2>6, Later
    <3> QED BY <3>1
  <2>3. MovesWithin(o)'
    <3> SUFFICES ASSUME edit[o].op = "move deal" PROVE MovesWithin(o)'
      BY <2>5, Zenon DEF MovesWithin
    <3>1. PICK k \in Boards!StageId : edit[o].stage = k
      BY <2>1, EditRows, Zenon DEF MoveDealRequest
    <3>2. k \in Nat /\ k <= lastStage
      BY <2>1, <3>1, StageIdsAre, Zenon DEF MovesWithin
    <3>3. k <= lastStage' /\ (k \in DOMAIN stage' => k \in DOMAIN stage /\ stage'[k] = stage[k])
              /\ (k \in DOMAIN stage => k \in DOMAIN stage')
      BY <2>6, <3>2, Zenon
    <3> QED BY <2>1, <2>5, <3>1, <3>3, Zenon DEF MovesWithin
  <2>4. RequiresActive(o)'
    BY <2>1, Zenon DEF RequiresActive
  <2> QED BY <2>2, <2>3, <2>4
<1> QED BY <1>2, <1>3, <1>4, <1>6, <1>7 DEF PipelinesInv, EditsFit

(* What is renumbered is a pipeline that exists. *)
LEMMA RenumberedExists == PipelinesInv => renumbering.pipeline \in pipeline \cup {"none"}
BY DEF PipelinesInv, RenumberingFits, RenumberingTypes, Boards!NoRenumbering

LEMMA CreatePipelineInv ==
    ASSUME PipelinesInv, NEW p \in Pipeline, NEW closedFirst \in BOOLEAN,
               Boards!CreatePipeline(p, closedFirst)
    PROVE  PipelinesInv'
<1>1. p \notin pipeline /\ p # "none" /\ lastStage + 2 <= MaxStage
  BY PipelinesAssumption DEF Boards!CreatePipeline
<1>2. PICK a \in Nat, b \in Nat : a = lastStage + 1 /\ b = lastStage + 2
  BY StageIds DEF PipelinesInv
<1>3. /\ a # b /\ a > lastStage /\ b > lastStage /\ a \in 1..b /\ b \in 1..b /\ b \in 0..MaxStage
      /\ lastStage \in Nat /\ lastStage <= b
      /\ a \notin DOMAIN stage /\ b \notin DOMAIN stage
  BY <1>1, <1>2, StageIds DEF PipelinesInv
<1>4. PICK m \in Nat, n \in Nat : m # n
               /\ m = (IF closedFirst THEN lastStage + 2 - a ELSE a - lastStage - 1)
                                  /\ n = (IF closedFirst THEN lastStage + 2 - b ELSE b - lastStage - 1)
  BY <1>2, <1>3
<1> DEFINE x == [pipeline |-> p, position |-> m, kind |-> "open", imported |-> FALSE]
           y == [pipeline |-> p, position |-> n, kind |-> "closed", imported |-> FALSE]
           E == DOMAIN stage \cup {a, b}
<1>5. /\ pipeline' = pipeline \cup {p}
      /\ DOMAIN stage' = E /\ stage'[a] = x /\ stage'[b] = y
      /\ \A s \in DOMAIN stage : stage'[s] = stage[s]
      /\ stage' = [s \in E |-> stage'[s]]
      /\ lastStage' = b
      /\ UNCHANGED <<deal, active, required, renumbering, edit>>
  BY <1>2, <1>3, <1>4 DEF Boards!CreatePipeline
<1>6. /\ x \in StageRow /\ x.pipeline = p /\ x.position = m /\ x.kind = "open"
      /\ y \in StageRow /\ y.pipeline = p /\ y.position = n
  BY DEF StageRow, Boards!Kind
<1> HIDE DEF x, y
<1>7. pipeline \subseteq Pipeline /\ \A s \in DOMAIN stage : stage[s].pipeline # p
  BY <1>1 DEF PipelinesInv, PipelineTypes
<1>8. OpenStageLeft'
  <2>1. \A q \in pipeline \ AmoPipeline :
           \E s \in DOMAIN stage : stage[s].pipeline = q /\ stage[s].kind = "open"
    BY DEF PipelinesInv, OpenStageLeft
  <2>2. \A q \in pipeline' \ AmoPipeline :
           \E s \in E : stage'[s].pipeline = q /\ stage'[s].kind = "open"
    BY <1>5, <1>6, <2>1
  <2> QED BY <1>5, <2>2 DEF OpenStageLeft
<1>9. p # renumbering.pipeline
  BY <1>1, RenumberedExists
<1>10. \A s \in {a, b}, t \in DOMAIN stage' : s # t /\ stage'[s].pipeline = stage'[t].pipeline
           => stage'[s].position # stage'[t].position
  BY <1>4, <1>5, <1>6, <1>7
<1>11. \A s \in {a, b} : /\ stage'[s] \in StageRow /\ stage'[s].pipeline \in pipeline'
                         /\ stage'[s].pipeline # renumbering.pipeline
  BY <1>5, <1>6, <1>9
<1>12. /\ \A s \in {a, b} : s \in 1..b /\ s > lastStage
       /\ pipeline \subseteq pipeline' /\ pipeline' \subseteq Pipeline
  BY <1>3, <1>5, <1>7
<1>13. StagesCome({a, b}, b)
  BY <1>3, <1>5, <1>10, <1>11, <1>12 DEF StagesCome
<1> QED BY <1>8, <1>13, StagesComeInv

LEMMA ImportPipelineInv ==
    ASSUME PipelinesInv, NEW p \in Pipeline, NEW archive \in BOOLEAN, Boards!ImportPipeline(p, archive)
    PROVE  PipelinesInv'
<1>1. /\ pipeline' = pipeline \cup {p} /\ p \in AmoPipeline
      /\ UNCHANGED <<stage, lastStage, deal, active, required, renumbering, edit>>
  BY DEF Boards!ImportPipeline
<1>2. lastStage \in 0..MaxStage /\ lastStage <= lastStage /\ pipeline \subseteq Pipeline
          /\ stage = [s \in DOMAIN stage |-> stage[s]]
  BY StageIds DEF PipelinesInv, PipelineTypes
<1>3. OpenStageLeft'
  BY <1>1 DEF PipelinesInv, OpenStageLeft
<1>4. StagesCome({}, lastStage)
  BY <1>1, <1>2 DEF StagesCome
<1> QED BY <1>3, <1>4, StagesComeInv

LEMMA ImportStageInv ==
    ASSUME PipelinesInv, NEW p \in Pipeline, NEW kind \in Boards!Kind, NEW position \in Boards!Sort,
           Boards!ImportStage(p, kind, position)
    PROVE  PipelinesInv'
<1>1. PICK a \in Nat : a = lastStage + 1
  BY StageIds DEF PipelinesInv
<1> DEFINE x == [pipeline |-> p, position |-> position, kind |-> kind, imported |-> TRUE]
           E == DOMAIN stage \cup {a}
<1>2. /\ p \in pipeline /\ ~Boards!Locked(p) /\ lastStage < MaxStage /\ lastStage' = a
      /\ \A s \in DOMAIN stage : stage[s].pipeline = p => stage[s].position # position
      /\ stage' = [s \in E |-> IF s \in DOMAIN stage THEN stage[s] ELSE x]
      /\ UNCHANGED <<pipeline, deal, active, required, renumbering, edit>>
  BY <1>1 DEF Boards!ImportStage, Boards!Stages
<1>3. /\ a \in 0..MaxStage /\ a \in 1..a /\ a > lastStage /\ lastStage <= a /\ a \notin DOMAIN stage
  BY <1>1, <1>2, StageIds DEF PipelinesInv
<1>4. x \in StageRow /\ x.pipeline = p /\ x.position = position
  BY DEF StageRow, Boards!Sort
<1> HIDE DEF x
<1>5. /\ DOMAIN stage' = E /\ stage' = [s \in E |-> stage'[s]] /\ stage'[a] = x
      /\ \A s \in DOMAIN stage : stage'[s] = stage[s]
  BY <1>2, <1>3
<1>6. OpenStageLeft'
  BY <1>2, <1>5 DEF PipelinesInv, OpenStageLeft
<1>7. \A s \in {a} : /\ stage'[s] \in StageRow /\ stage'[s].pipeline \in pipeline'
                     /\ stage'[s].pipeline # renumbering.pipeline
  <2>1. renumbering.pipeline # p
    BY <1>2, Zenon DEF Boards!Locked
  <2> QED BY <1>2, <1>4, <1>5, <2>1
<1>8. \A s \in {a}, t \in DOMAIN stage' : s # t /\ stage'[s].pipeline = stage'[t].pipeline
           => stage'[s].position # stage'[t].position
  BY <1>2, <1>4, <1>5
<1>9. /\ \A s \in {a} : s \in 1..a /\ s > lastStage
      /\ pipeline \subseteq pipeline' /\ pipeline' \subseteq Pipeline
  BY <1>2, <1>3 DEF PipelinesInv, PipelineTypes
<1>10. StagesCome({a}, a)
  BY <1>2, <1>3, <1>5, <1>7, <1>8, <1>9 DEF StagesCome
<1> QED BY <1>6, <1>10, StagesComeInv

(* A row is written: its position alone changes. *)
LEMMA PositionWritten ==
    ASSUME PipelineTypes, NEW s \in DOMAIN stage, NEW n \in Nat,
           stage' = [stage EXCEPT ![s].position = n]
    PROVE  /\ DOMAIN stage' = DOMAIN stage /\ stage' \in [DOMAIN stage -> StageRow]
           /\ \A t \in DOMAIN stage : stage'[t].pipeline = stage[t].pipeline
                  /\ stage'[t].kind = stage[t].kind
           /\ stage'[s].position = n
           /\ \A t \in DOMAIN stage : t # s => stage'[t].position = stage[t].position
<1>1. stage \in [DOMAIN stage -> StageRow]
  BY DEF PipelineTypes
<1>2. PICK p \in Pipeline, m \in Nat, k \in Boards!Kind, b \in BOOLEAN :
         stage[s] = [pipeline |-> p, position |-> m, kind |-> k, imported |-> b]
  BY <1>1 DEF StageRow
<1> DEFINE x == [pipeline |-> p, position |-> n, kind |-> k, imported |-> b]
<1>3. stage' = [stage EXCEPT ![s] = x]
  <2>1. [stage[s] EXCEPT !.position = n] = x
    BY <1>2
  <2>2. stage' = [stage EXCEPT ![s] = [stage[s] EXCEPT !.position = n]]
    OBVIOUS
  <2> HIDE DEF x
  <2> QED BY <2>1, <2>2
<1>4. x \in StageRow /\ x.pipeline = stage[s].pipeline /\ x.kind = stage[s].kind /\ x.position = n
  BY <1>2 DEF StageRow
<1> HIDE DEF x
<1> QED BY <1>1, <1>3, <1>4

(* Rows keep pipeline and kind, and the stage that is being made may come. *)
LEMMA PositionsOnly ==
    ASSUME PipelinesInv, UNCHANGED <<pipeline, lastStage, deal, active, required, edit>>,
           DOMAIN stage \subseteq DOMAIN stage', DOMAIN stage' \subseteq 1..lastStage,
               stage' \in [DOMAIN stage' -> StageRow],
           \A t \in DOMAIN stage' \ DOMAIN stage : t \in DOMAIN renumbering.place
               /\ stage'[t].pipeline \in pipeline,
           \A t \in DOMAIN stage : stage'[t].pipeline = stage[t].pipeline
               /\ stage'[t].kind = stage[t].kind,
           DOMAIN renumbering'.place \subseteq DOMAIN renumbering.place,
           renumbering'.pipeline \in {renumbering.pipeline, "none"}
    PROVE  PipelineTypes' /\ OpenStageLeft' /\ DealsStand' /\ RequiredActive' /\ EditsFit'
               /\ Boards!OpenStagesKept
<1>1. PipelineTypes'
  BY DEF PipelinesInv, PipelineTypes
<1>2. OpenStageLeft'
  BY DEF PipelinesInv, OpenStageLeft
<1>3. DealsStand'
  BY DEF PipelinesInv, DealsStand
<1>4. RequiredActive'
  BY DEF PipelinesInv, RequiredActive, Boards!StageId
<1>5. ASSUME NEW o \in Request PROVE (DeletesAlone(o) /\ MovesWithin(o) /\ RequiresActive(o))'
  <2>1. DeletesAlone(o) /\ MovesWithin(o) /\ RequiresActive(o)
    BY DEF PipelinesInv, EditsFit
  <2>2. "none" \notin pipeline
    BY PipelinesAssumption DEF PipelinesInv, PipelineTypes
  <2>3. DeletesAlone(o)'
    BY <2>1, <2>2, Zenon DEF DeletesAlone
  <2>4. MovesWithin(o)'
    BY <2>1, Zenon DEF MovesWithin
  <2>5. RequiresActive(o)'
    BY <2>1, Zenon DEF RequiresActive
  <2> QED BY <2>3, <2>4, <2>5
<1>6. Boards!OpenStagesKept
  BY DEF Boards!OpenStagesKept, Boards!OpenStages, Boards!Stages
<1> QED BY <1>1, <1>2, <1>3, <1>4, <1>5, <1>6 DEF EditsFit

LEMMA ShiftStageInv ==
    ASSUME PipelinesInv, NEW s \in DOMAIN renumbering.shift, Boards!ShiftStage(s)
    PROVE  PipelinesInv' /\ Boards!OpenStagesKept
<1>1. renumbering # Boards!NoRenumbering
  BY NoneIsRenumbered
<1>2. RenumberingTypes /\ PipelineTypes
  BY <1>1 DEF PipelinesInv, RenumberingFits
<1>3. PICK bound \in Nat : ShiftsApart(bound) /\ PlacesApart(bound) /\ RowsApart(bound)
  BY <1>1 DEF PipelinesInv, RenumberingFits
<1>4. PICK p, f, g : p = renumbering.pipeline /\ f = renumbering.shift /\ g = renumbering.place
  OBVIOUS
<1>5. renumbering = [pipeline |-> p, shift |-> f, place |-> g]
  BY <1>2, <1>4 DEF RenumberingTypes
<1>6. s \in DOMAIN stage /\ f[s] \in Nat /\ s \in DOMAIN f /\ s \in DOMAIN g /\ stage[s].pipeline = p
  BY <1>2, <1>4 DEF RenumberingTypes
<1> DEFINE h == [t \in DOMAIN f \ {s} |-> f[t]]
<1>7. /\ stage' = [stage EXCEPT ![s].position = f[s]]
      /\ renumbering' = [renumbering EXCEPT !.shift = h]
      /\ UNCHANGED <<pipeline, lastStage, deal, active, required, edit>>
  BY <1>4 DEF Boards!ShiftStage, Boards!Restrict
<1>8. renumbering' = [pipeline |-> p, shift |-> h, place |-> g]
  BY <1>5, <1>7
<1>9. DOMAIN h = DOMAIN f \ {s} /\ \A t \in DOMAIN h : h[t] = f[t]
  OBVIOUS
<1> HIDE DEF h
<1>10. renumbering'.pipeline = p /\ renumbering'.shift = h /\ renumbering'.place = g
  BY <1>8
<1>11. /\ DOMAIN stage' = DOMAIN stage /\ stage' \in [DOMAIN stage -> StageRow]
       /\ \A t \in DOMAIN stage : stage'[t].pipeline = stage[t].pipeline /\ stage'[t].kind = stage[t].kind
       /\ stage'[s].position = f[s]
       /\ \A t \in DOMAIN stage : t # s => stage'[t].position = stage[t].position
  BY <1>2, <1>6, <1>7, PositionWritten
<1>12. PipelineTypes' /\ OpenStageLeft' /\ DealsStand' /\ RequiredActive' /\ EditsFit'
           /\ Boards!OpenStagesKept
  <2>1. DOMAIN stage \subseteq 1..lastStage
    BY <1>2 DEF PipelineTypes
  <2>2. /\ DOMAIN stage \subseteq DOMAIN stage' /\ DOMAIN stage' \subseteq 1..lastStage
        /\ stage' \in [DOMAIN stage' -> StageRow]
    BY <1>11, <2>1
  <2> QED BY <1>4, <1>7, <1>10, <1>11, <2>2, PositionsOnly
<1>13. /\ f \in [DOMAIN f -> Nat] /\ g \in [DOMAIN g -> Nat] /\ p \in pipeline
       /\ DOMAIN f \subseteq DOMAIN g \cap DOMAIN stage /\ DOMAIN g \subseteq 1..lastStage
       /\ \A t \in DOMAIN g \cap DOMAIN stage : stage[t].pipeline = p
  BY <1>2, <1>4 DEF RenumberingTypes
<1>14. \A t \in DOMAIN f :
          /\ f[t] >= bound /\ stage[t].position < bound
          /\ \A u \in DOMAIN f : t # u => f[t] # f[u]
          /\ \A u \in DOMAIN stage \ DOMAIN f :
                stage[u].pipeline = p => u \in DOMAIN g /\ f[t] # stage[u].position
  BY <1>3, <1>4 DEF ShiftsApart
<1>15. \A t \in DOMAIN g :
          /\ g[t] < bound
          /\ \A u \in DOMAIN g : t # u => g[t] # g[u]
          /\ \A u \in DOMAIN stage \ DOMAIN g : stage[u].pipeline = p => g[t] # stage[u].position
  BY <1>3, <1>4 DEF PlacesApart
<1>16. \A t \in DOMAIN stage : stage[t].pipeline = p =>
          /\ t \in DOMAIN g \ DOMAIN f => stage[t].position >= bound
          /\ t \notin DOMAIN g => stage[t].position < bound
  BY <1>3, <1>4 DEF RowsApart
<1>17. \A t \in DOMAIN stage : stage[t].pipeline = p => t \in DOMAIN g
  BY <1>6, <1>13, <1>14
<1>18. RenumberingTypes'
  <2>1. renumbering' = [pipeline |-> renumbering'.pipeline, shift |-> renumbering'.shift,
            place |-> renumbering'.place]
    BY <1>8
  <2>2. h \in [DOMAIN h -> Nat]
    BY <1>9, <1>13 DEF h
  <2>3. DOMAIN h \subseteq DOMAIN g \cap DOMAIN stage
    BY <1>9, <1>13
  <2>4. \A t \in DOMAIN g \cap DOMAIN stage' : stage'[t].pipeline = p
    BY <1>11, <1>13
  <2> QED BY <1>7, <1>10, <1>11, <1>13, <2>1, <2>2, <2>3, <2>4 DEF RenumberingTypes
<1>19. ShiftsApart(bound)'
  <2>1. \A t \in DOMAIN h :
          /\ h[t] >= bound /\ stage'[t].position < bound
          /\ \A u \in DOMAIN h : t # u => h[t] # h[u]
          /\ \A u \in DOMAIN stage \ DOMAIN h :
                stage'[u].pipeline = p => u \in DOMAIN g /\ h[t] # stage'[u].position
    BY <1>6, <1>9, <1>11, <1>13, <1>14, <1>17
  <2> QED BY <1>10, <1>11, <2>1 DEF ShiftsApart
<1>20. PlacesApart(bound)'
  BY <1>10, <1>11, <1>15, <1>17 DEF PlacesApart
<1>21. RowsApart(bound)'
  <2>1. \A t \in DOMAIN stage : stage'[t].pipeline = p =>
          /\ t \in DOMAIN g \ DOMAIN h => stage'[t].position >= bound
          /\ t \notin DOMAIN g => stage'[t].position < bound
    BY <1>6, <1>9, <1>11, <1>14, <1>16, <1>17
  <2> QED BY <1>10, <1>11, <2>1 DEF RowsApart
<1>22. Boards!PositionsDistinct'
  <2>1. ASSUME NEW t \in DOMAIN stage, t # s, stage[t].pipeline = p PROVE stage[t].position # f[s]
    <3>1. CASE t \in DOMAIN f
      <4>1. stage[t].position < bound /\ f[s] >= bound /\ stage[t].position \in Nat
        BY <1>6, <1>14, <2>1, <3>1 DEF PipelinesInv, PipelineTypes, StageRow
      <4> QED BY <1>6, <4>1
    <3>2. CASE t \notin DOMAIN f
      BY <1>6, <1>14, <2>1, <3>2
    <3> QED BY <3>1, <3>2
  <2>2. Boards!PositionsDistinct
    BY DEF PipelinesInv
  <2>3. ASSUME NEW t \in DOMAIN stage, NEW u \in DOMAIN stage, t # u,
                   stage'[t].pipeline = stage'[u].pipeline
        PROVE  stage'[t].position # stage'[u].position
    BY <1>6, <1>11, <2>1, <2>2, <2>3 DEF Boards!PositionsDistinct
  <2> QED BY <1>11, <2>3 DEF Boards!PositionsDistinct
<1> QED BY <1>12, <1>18, <1>19, <1>20, <1>21, <1>22 DEF PipelinesInv, RenumberingFits

LEMMA PlaceStageInv ==
    ASSUME PipelinesInv, NEW s \in DOMAIN renumbering.place, Boards!PlaceStage(s)
    PROVE  PipelinesInv' /\ Boards!OpenStagesKept
<1>1. renumbering # Boards!NoRenumbering
  BY NoneIsRenumbered
<1>2. RenumberingTypes /\ PipelineTypes
  BY <1>1 DEF PipelinesInv, RenumberingFits
<1>3. PICK bound \in Nat : ShiftsApart(bound) /\ PlacesApart(bound) /\ RowsApart(bound)
  BY <1>1 DEF PipelinesInv, RenumberingFits
<1>4. PICK p, f, g : p = renumbering.pipeline /\ f = renumbering.shift /\ g = renumbering.place
  OBVIOUS
<1>5. renumbering = [pipeline |-> p, shift |-> f, place |-> g]
  BY <1>2, <1>4 DEF RenumberingTypes
<1>6. /\ f \in [DOMAIN f -> Nat] /\ g \in [DOMAIN g -> Nat] /\ p \in pipeline /\ p \in Pipeline
      /\ DOMAIN g \subseteq 1..lastStage
      /\ \A t \in DOMAIN g \cap DOMAIN stage : stage[t].pipeline = p
      /\ s \in DOMAIN g /\ g[s] \in Nat
  BY <1>2, <1>4 DEF RenumberingTypes, PipelineTypes
<1>7. DOMAIN f = {}
  <2>1. f = <<>>
    BY <1>4 DEF Boards!PlaceStage
  <2> QED BY <2>1
<1> DEFINE E == DOMAIN stage \cup {s}
           h == [t \in DOMAIN g \ {s} |-> g[t]]
           new == [pipeline |-> p, kind |-> "open", position |-> g[s], imported |-> FALSE]
<1>8. /\ stage' = [t \in E |-> IF t # s THEN stage[t]
                               ELSE IF s \in DOMAIN stage THEN [stage[s] EXCEPT !.position = g[s]]
                                   ELSE new]
      /\ renumbering' = IF DOMAIN g = {s} THEN Boards!NoRenumbering ELSE [renumbering EXCEPT !.place = h]
      /\ UNCHANGED <<pipeline, lastStage, deal, active, required, edit>>
  BY <1>4 DEF Boards!PlaceStage, Boards!Restrict
<1>9. DOMAIN h = DOMAIN g \ {s} /\ (\A t \in DOMAIN h : h[t] = g[t]) /\ h \in [DOMAIN h -> Nat]
  BY <1>6
<1> HIDE DEF h
<1>10. new \in StageRow /\ new.pipeline = p /\ new.position = g[s]
  BY <1>6 DEF StageRow, Boards!Kind
<1>11. /\ DOMAIN stage' = E /\ stage' \in [E -> StageRow]
       /\ \A t \in DOMAIN stage : stage'[t].pipeline = stage[t].pipeline /\ stage'[t].kind = stage[t].kind
       /\ stage'[s].position = g[s] /\ stage'[s].pipeline = p
       /\ \A t \in DOMAIN stage : t # s => stage'[t].position = stage[t].position
  <2>1. CASE s \in DOMAIN stage
    <3>1. stage' = [stage EXCEPT ![s].position = g[s]] /\ E = DOMAIN stage
      BY <1>8, <2>1
    <3>2. stage[s].pipeline = p
      BY <1>6, <2>1
    <3> HIDE DEF new, E
    <3> QED BY <1>2, <1>6, <2>1, <3>1, <3>2, PositionWritten
  <2>2. CASE s \notin DOMAIN stage
    <3>1. stage' = [t \in E |-> IF t # s THEN stage[t] ELSE new]
      BY <1>8, <2>2
    <3>2. stage \in [DOMAIN stage -> StageRow]
      BY <1>2 DEF PipelineTypes
    <3> HIDE DEF new
    <3> QED BY <1>10, <2>2, <3>1, <3>2
  <2> QED BY <2>1, <2>2
<1> HIDE DEF new
<1>12. /\ renumbering'.pipeline \in {p, "none"} /\ DOMAIN renumbering'.place \subseteq DOMAIN g
       /\ renumbering' # Boards!NoRenumbering => renumbering' = [pipeline |-> p, shift |-> f, place |-> h]
  <2>1. CASE DOMAIN g = {s}
    <3>1. renumbering' = Boards!NoRenumbering
      BY <1>8, <2>1
    <3>2. Boards!NoRenumbering.pipeline = "none" /\ Boards!NoRenumbering.place = <<>>
      BY DEF Boards!NoRenumbering
    <3>3. DOMAIN <<>> = {}
      OBVIOUS
    <3> QED BY <3>1, <3>2, <3>3
  <2>2. CASE DOMAIN g # {s}
    <3>1. renumbering' = [pipeline |-> p, shift |-> f, place |-> h]
      BY <1>5, <1>8, <2>2
    <3> QED BY <1>9, <3>1
  <2> QED BY <2>1, <2>2
<1>13. PipelineTypes' /\ OpenStageLeft' /\ DealsStand' /\ RequiredActive' /\ EditsFit'
           /\ Boards!OpenStagesKept
  <2>1. DOMAIN stage \subseteq 1..lastStage
    BY <1>2 DEF PipelineTypes
  <2>2. /\ DOMAIN stage \subseteq DOMAIN stage' /\ DOMAIN stage' \subseteq 1..lastStage
        /\ stage' \in [DOMAIN stage' -> StageRow]
        /\ \A t \in DOMAIN stage' \ DOMAIN stage : t \in DOMAIN renumbering.place
               /\ stage'[t].pipeline \in pipeline
    BY <1>4, <1>6, <1>11, <2>1
  <2> QED BY <1>4, <1>8, <1>11, <1>12, <2>2, PositionsOnly
<1>14. \A t \in DOMAIN g :
          /\ g[t] < bound
          /\ \A u \in DOMAIN g : t # u => g[t] # g[u]
          /\ \A u \in DOMAIN stage \ DOMAIN g : stage[u].pipeline = p => g[t] # stage[u].position
  BY <1>3, <1>4 DEF PlacesApart
<1>15. \A t \in DOMAIN stage : stage[t].pipeline = p =>
          /\ t \in DOMAIN g => stage[t].position >= bound /\ stage[t].position \in Nat
          /\ t \notin DOMAIN g => stage[t].position < bound
  BY <1>2, <1>3, <1>4, <1>7 DEF RowsApart, PipelineTypes, StageRow
<1>16. Boards!PositionsDistinct'
  <2>1. ASSUME NEW t \in DOMAIN stage, t # s, stage[t].pipeline = p PROVE stage[t].position # g[s]
    <3>1. CASE t \in DOMAIN g
      <4>1. stage[t].position \in Nat /\ stage[t].position >= bound /\ g[s] < bound
        BY <1>6, <1>14, <1>15, <2>1, <3>1
      <4> QED BY <1>6, <4>1
    <3>2. CASE t \notin DOMAIN g
      BY <1>6, <1>14, <2>1, <3>2
    <3> QED BY <3>1, <3>2
  <2>2. Boards!PositionsDistinct
    BY DEF PipelinesInv
  <2>3. ASSUME NEW t \in E, NEW u \in E, t # u, stage'[t].pipeline = stage'[u].pipeline
        PROVE  stage'[t].position # stage'[u].position
    <3>1. CASE t = s
      BY <1>11, <2>1, <2>3, <3>1
    <3>2. CASE u = s
      BY <1>11, <2>1, <2>3, <3>2
    <3>3. CASE t # s /\ u # s
      BY <1>11, <2>2, <2>3, <3>3 DEF Boards!PositionsDistinct
    <3> QED BY <3>1, <3>2, <3>3
  <2> QED BY <1>11, <2>3 DEF Boards!PositionsDistinct
<1>17. RenumberingFits'
  <2> SUFFICES ASSUME renumbering' = [pipeline |-> p, shift |-> f, place |-> h]
               PROVE  RenumberingTypes' /\ \E b \in Nat : (ShiftsApart(b) /\ PlacesApart(b)
                          /\ RowsApart(b))'
    BY <1>12 DEF RenumberingFits, Boards!NoRenumbering
  <2>1. renumbering'.pipeline = p /\ renumbering'.shift = f /\ renumbering'.place = h
    OBVIOUS
  <2>2. RenumberingTypes'
    <3>1. renumbering' = [pipeline |-> renumbering'.pipeline, shift |-> renumbering'.shift,
              place |-> renumbering'.place]
      OBVIOUS
    <3>2. \A t \in DOMAIN h \cap E : stage'[t].pipeline = p
      BY <1>6, <1>9, <1>11
    <3>3. DOMAIN h \subseteq 1..lastStage /\ DOMAIN f \subseteq DOMAIN h \cap E
      BY <1>6, <1>7, <1>9
    <3> QED BY <1>6, <1>8, <1>9, <1>11, <2>1, <3>1, <3>2, <3>3 DEF RenumberingTypes
  <2>3. ShiftsApart(bound)'
    BY <1>7, <2>1 DEF ShiftsApart
  <2>4. PlacesApart(bound)'
    <3>1. \A t \in DOMAIN h :
            /\ h[t] < bound
            /\ \A u \in DOMAIN h : t # u => h[t] # h[u]
            /\ \A u \in E \ DOMAIN h : stage'[u].pipeline = p => h[t] # stage'[u].position
      BY <1>6, <1>9, <1>11, <1>14
    <3> QED BY <1>11, <2>1, <3>1 DEF PlacesApart
  <2>5. RowsApart(bound)'
    <3>1. \A t \in E : stage'[t].pipeline = p =>
            /\ t \in DOMAIN h \ DOMAIN f => stage'[t].position >= bound
            /\ t \notin DOMAIN h => stage'[t].position < bound
      BY <1>6, <1>9, <1>11, <1>14, <1>15
    <3> QED BY <1>11, <2>1, <3>1 DEF RowsApart
  <2> QED BY <2>2, <2>3, <2>4, <2>5
<1> QED BY <1>13, <1>16, <1>17 DEF PipelinesInv

LEMMA BoardsCounted == ASSUME NEW S PROVE Boards!Cardinality(S) = Cardinality(S)
BY DEF Boards!Cardinality, Cardinality

LEMMA StagesAre ==
    ASSUME PipelinesInv, NEW p \in pipeline
    PROVE  /\ Boards!Stages(p) \subseteq DOMAIN stage
           /\ \A s \in Boards!Stages(p) : stage[s].position \in Nat
           /\ \A s, t \in Boards!Stages(p) : s # t => stage[s].position # stage[t].position
           /\ IsFiniteSet(Boards!Stages(p)) /\ Cardinality(Boards!Stages(p)) \in Nat
<1>1. Boards!Stages(p) \subseteq DOMAIN stage
  BY DEF Boards!Stages
<1>2. \A s \in Boards!Stages(p) : stage[s].position \in Nat
  BY <1>1 DEF PipelinesInv, PipelineTypes, StageRow
<1>3. \A s, t \in Boards!Stages(p) : s # t => stage[s].position # stage[t].position
  BY DEF PipelinesInv, Boards!PositionsDistinct, Boards!Stages
<1>4. IsFiniteSet(Boards!StageId)
  BY PipelinesAssumption, FS_Interval DEF Boards!StageId
<1>5. Boards!Stages(p) \subseteq Boards!StageId
  BY <1>1, StageIds DEF PipelinesInv
<1>6. IsFiniteSet(Boards!Stages(p))
  BY <1>4, <1>5, FS_Subset
<1> QED BY <1>1, <1>2, <1>3, <1>6, FS_CardinalityType

(* Ranks tell the stages of a pipeline apart as their positions do. *)
LEMMA Ranks ==
    ASSUME PipelinesInv, NEW p \in pipeline
    PROVE  /\ \A s \in Boards!Stages(p) :
                 /\ Boards!RankOf(s, Boards!Stages(p)) \in Nat
                 /\ Boards!RankOf(s, Boards!Stages(p)) < Cardinality(Boards!Stages(p))
           /\ \A s, t \in Boards!Stages(p) : stage[s].position < stage[t].position =>
                 Boards!RankOf(s, Boards!Stages(p)) < Boards!RankOf(t, Boards!Stages(p))
           /\ \A s, t \in Boards!Stages(p) : s # t =>
                 Boards!RankOf(s, Boards!Stages(p)) # Boards!RankOf(t, Boards!Stages(p))
<1> DEFINE ids == Boards!Stages(p)
           below(s) == {t \in ids : stage[t].position < stage[s].position}
<1>1. /\ IsFiniteSet(ids) /\ Cardinality(ids) \in Nat
      /\ \A s \in ids : stage[s].position \in Nat
      /\ \A s, t \in ids : s # t => stage[s].position # stage[t].position
  BY StagesAre
<1>2. \A s : Boards!RankOf(s, ids) = Cardinality(below(s))
  BY BoardsCounted DEF Boards!RankOf
<1> HIDE DEF ids
<1>3. ASSUME NEW s \in ids
      PROVE  IsFiniteSet(below(s)) /\ Cardinality(below(s)) \in Nat
                 /\ Cardinality(below(s)) < Cardinality(ids)
  <2>1. below(s) \subseteq ids /\ s \notin below(s)
    BY <1>1
  <2>2. IsFiniteSet(below(s)) /\ Cardinality(below(s)) <= Cardinality(ids)
        /\ (Cardinality(ids) = Cardinality(below(s)) => ids = below(s))
    BY <1>1, <2>1, FS_Subset
  <2>3. Cardinality(below(s)) \in Nat
    BY <2>2, FS_CardinalityType
  <2>4. ids # below(s)
    BY <2>1
  <2> HIDE DEF below
  <2> QED BY <1>1, <2>2, <2>3, <2>4
<1>4. ASSUME NEW s \in ids, NEW t \in ids, stage[s].position < stage[t].position
      PROVE  Cardinality(below(s)) < Cardinality(below(t))
  <2>1. below(s) \subseteq below(t) /\ s \in below(t) /\ s \notin below(s)
    BY <1>1, <1>4
  <2>2. /\ Cardinality(below(s)) <= Cardinality(below(t))
        /\ Cardinality(below(t)) = Cardinality(below(s)) => below(t) = below(s)
    BY <1>3, <2>1, FS_Subset
  <2>3. below(t) # below(s)
    BY <2>1
  <2>4. Cardinality(below(s)) \in Nat /\ Cardinality(below(t)) \in Nat
    BY <1>3
  <2> HIDE DEF below
  <2> QED BY <2>2, <2>3, <2>4
<1>5. ASSUME NEW s \in ids, NEW t \in ids, s # t
      PROVE  Cardinality(below(s)) # Cardinality(below(t))
  <2>1. stage[s].position < stage[t].position \/ stage[t].position < stage[s].position
    BY <1>1, <1>5
  <2>2. Cardinality(below(s)) < Cardinality(below(t)) \/ Cardinality(below(t)) < Cardinality(below(s))
    BY <1>4, <2>1
  <2>3. Cardinality(below(s)) \in Nat /\ Cardinality(below(t)) \in Nat
    BY <1>3
  <2> HIDE DEF below
  <2> QED BY <2>2, <2>3
<1> HIDE DEF below
<1>6. \A s \in ids : Boards!RankOf(s, ids) \in Nat /\ Boards!RankOf(s, ids) < Cardinality(ids)
  BY <1>2, <1>3
<1>7. \A s, t \in ids : stage[s].position < stage[t].position
          => Boards!RankOf(s, ids) < Boards!RankOf(t, ids)
  BY <1>2, <1>4
<1>8. \A s, t \in ids : s # t => Boards!RankOf(s, ids) # Boards!RankOf(t, ids)
  BY <1>2, <1>5
<1> QED BY <1>6, <1>7, <1>8 DEF ids

(* As many numbers up to n as n and zero. *)
LEMMA UpToCounted ==
    ASSUME NEW n \in Nat
    PROVE  IsFiniteSet(0..n) /\ Cardinality(0..n) = n + 1
<1>1. 0 \in Int /\ n \in Int /\ 0 <= n
  OBVIOUS
<1>2. Cardinality(0..n) = IF 0 > n THEN 0 ELSE n - 0 + 1
  BY <1>1, FS_Interval
<1>3. IsFiniteSet(0..n)
  BY <1>1, FS_Interval
<1> QED BY <1>1, <1>2, <1>3

(* The highest position leaves no more stages than there are places below. *)
LEMMA Highest ==
    ASSUME PipelinesInv, NEW p \in pipeline, Boards!Stages(p) # {}
    PROVE  \E top \in Nat :
              /\ top = Boards!Max({stage[s].position : s \in Boards!Stages(p)})
              /\ \A s \in Boards!Stages(p) : stage[s].position <= top
              /\ Cardinality(Boards!Stages(p)) <= top + 1
<1> DEFINE ids == Boards!Stages(p)
           rank(s) == Boards!RankOf(s, ids)
           R == {rank(s) : s \in ids}
           P == {stage[s].position : s \in ids}
<1>1. /\ ids # {} /\ IsFiniteSet(ids) /\ Cardinality(ids) \in Nat
      /\ \A s \in ids : stage[s].position \in Nat
      /\ \A s, t \in ids : s # t => stage[s].position # stage[t].position
  BY StagesAre
<1>2. /\ \A s \in ids : rank(s) \in Nat /\ rank(s) < Cardinality(ids)
      /\ \A s, t \in ids : stage[s].position < stage[t].position => rank(s) < rank(t)
  BY Ranks
<1> HIDE DEF ids, rank
<1>3. PICK s \in ids : \A t \in ids : rank(t) <= rank(s)
  <2>1. R \in SUBSET Nat /\ R # {} /\ \A x \in R : x <= Cardinality(ids)
    <3>1. PICK s \in ids : TRUE
      BY <1>1
    <3>2. rank(s) \in R
      OBVIOUS
    <3> QED BY <1>1, <1>2, <3>2
  <2>2. PICK x \in R : \A y \in R : y <= x
    BY <1>1, <2>1, Greatest
  <2> QED BY <2>2
<1>4. \A t \in ids : stage[t].position <= stage[s].position
  BY <1>1, <1>2, <1>3
<1>5. stage[s].position \in P /\ \A x \in P : stage[s].position >= x
  BY <1>1, <1>4
<1>6. Boards!Max(P) \in P /\ \A x \in P : Boards!Max(P) >= x
  BY <1>5 DEF Boards!Max
<1>7. PICK top \in Nat : top = Boards!Max(P)
  BY <1>1, <1>6
<1>8. \A t \in ids : stage[t].position <= top /\ stage[t].position \in Nat
  BY <1>1, <1>6, <1>7
<1>9. Cardinality(ids) <= top + 1
  <2> DEFINE f == [t \in ids |-> stage[t].position]
  <2>1. f \in [ids -> 0..top]
    BY <1>8
  <2>2. f \in Injection(ids, 0..top)
    BY <1>1, <2>1 DEF Injection, IsInjective
  <2>3. IsFiniteSet(0..top) /\ Cardinality(0..top) = top + 1
    BY <1>7, UpToCounted
  <2> HIDE DEF f
  <2>4. Cardinality(ids) <= Cardinality(0..top)
    BY <2>2, <2>3, FS_Injection
  <2> QED BY <2>3, <2>4
<1> QED BY <1>7, <1>8, <1>9 DEF ids

(* Stages are moved beyond all their positions. *)
LEMMA OffsetReaches ==
    ASSUME PipelinesInv, NEW p \in pipeline
    PROVE  \E top \in Nat :
              /\ \A s \in Boards!Stages(p) :
                    /\ Boards!Offset({stage[t].position : t \in Boards!Stages(p)}) = top + 2
                    /\ stage[s].position <= top
              /\ Cardinality(Boards!Stages(p)) <= top + 1
<1>1. CASE Boards!Stages(p) = {}
  <2>1. Cardinality(Boards!Stages(p)) = 0
    BY <1>1, FS_EmptySet
  <2> WITNESS 0 \in Nat
  <2> QED BY <1>1, <2>1
<1>2. CASE Boards!Stages(p) # {}
  <2>1. PICK top \in Nat :
           /\ top = Boards!Max({stage[s].position : s \in Boards!Stages(p)})
           /\ \A s \in Boards!Stages(p) : stage[s].position <= top
           /\ Cardinality(Boards!Stages(p)) <= top + 1
    BY <1>2, Highest
  <2>2. {stage[t].position : t \in Boards!Stages(p)} # {}
    BY <1>2
  <2>3. Boards!Offset({stage[t].position : t \in Boards!Stages(p)}) = top + 2
    BY <2>1, <2>2 DEF Boards!Offset
  <2> QED BY <2>1, <2>3
<1> QED BY <1>1, <1>2

InsertsAt(p, k) ==
    LET ids == Boards!Stages(p)
        notOpen == ids \ Boards!OpenStages(p)
    IN  /\ k <= Cardinality(ids)
        /\ k = IF notOpen = {} THEN Boards!Cardinality(ids)
               ELSE Boards!Min({Boards!RankOf(s, ids) : s \in notOpen})

(* The place of a new stage is among the ranks of the others, or after them. *)
LEMMA InsertsWithin ==
    ASSUME PipelinesInv, NEW p \in pipeline
    PROVE  \E k \in Nat : InsertsAt(p, k)
<1> DEFINE ids == Boards!Stages(p)
           notOpen == ids \ Boards!OpenStages(p)
<1>1. Cardinality(ids) \in Nat /\ Boards!Cardinality(ids) = Cardinality(ids)
  BY StagesAre, BoardsCounted
<1>2. CASE notOpen = {}
  BY <1>1, <1>2 DEF InsertsAt
<1>3. CASE notOpen # {}
  <2> DEFINE R == {Boards!RankOf(s, ids) : s \in notOpen}
  <2>1. \A s \in ids : Boards!RankOf(s, ids) \in Nat /\ Boards!RankOf(s, ids) < Cardinality(ids)
    BY Ranks
  <2>2. R \in SUBSET Nat /\ R # {} /\ \A x \in R : x <= Cardinality(ids)
    <3>1. PICK s \in notOpen : TRUE
      BY <1>3
    <3>2. Boards!RankOf(s, ids) \in R
      OBVIOUS
    <3>3. notOpen \subseteq ids
      OBVIOUS
    <3>4. \A x \in R : x \in Nat /\ x <= Cardinality(ids)
      BY <1>1, <2>1, <3>3
    <3> QED BY <3>2, <3>4
  <2> HIDE DEF R
  <2>3. \E x \in R : \A y \in R : x <= y
    BY <2>2, Least
  <2>4. Boards!Min(R) \in R
    BY <2>3 DEF Boards!Min
  <2> QED BY <1>3, <2>2, <2>4 DEF R, InsertsAt
<1> QED BY <1>2, <1>3

(* What ranks tell apart and a place in between keeps apart. *)
LEMMA PlacesGo ==
    ASSUME NEW ids, NEW new, new \notin ids, NEW rank, NEW k \in Nat, NEW top \in Nat, NEW n \in Nat,
           rank \in [ids -> Nat], \A s \in ids : rank[s] < n,
           \A s, t \in ids : s # t => rank[s] # rank[t], k <= n, n <= top + 1,
           NEW place,
           place = [s \in ids \cup {new} |-> IF s \notin ids THEN k
                                             ELSE IF rank[s] < k THEN rank[s] ELSE rank[s] + 1]
    PROVE  /\ place \in [ids \cup {new} -> Nat]
           /\ \A s \in ids \cup {new} : place[s] < top + 2
           /\ \A s, t \in ids \cup {new} : s # t => place[s] # place[t]
<1>1. place[new] = k
  OBVIOUS
<1>2. ASSUME NEW s \in ids
      PROVE  rank[s] \in Nat /\ place[s] = (IF rank[s] < k THEN rank[s] ELSE rank[s] + 1)
  OBVIOUS
<1>3. \A s \in ids : place[s] \in Nat /\ place[s] < top + 2 /\ place[s] # k
  BY <1>2
<1>4. \A s, t \in ids : s # t => place[s] # place[t]
  BY <1>2
<1> QED BY <1>1, <1>3, <1>4

LEMMA Below == ASSUME NEW k \in Nat, NEW m \in Nat, NEW n \in Nat, k <= m, m < n PROVE k # n /\ k <= n
OBVIOUS

LEMMA BeginCreateStageInv ==
    ASSUME PipelinesInv, NEW p \in Pipeline, Boards!BeginCreateStage(p)
    PROVE  PipelinesInv'
<1>1. /\ p \in pipeline /\ ~Boards!Locked(p) /\ renumbering = Boards!NoRenumbering /\ lastStage < MaxStage
      /\ lastStage' = lastStage + 1
      /\ UNCHANGED <<pipeline, stage, deal, active, required, edit>>
  BY DEF Boards!BeginCreateStage
<1>2. PICK new \in Nat : new = lastStage + 1
  BY StageIds DEF PipelinesInv
<1>3. /\ lastStage \in Nat /\ lastStage < new /\ new \in 0..MaxStage /\ 1 <= new
      /\ \A s \in DOMAIN stage : s \in 1..lastStage /\ s \in 1..new /\ s # new
  BY <1>1, <1>2, StageIds DEF PipelinesInv
<1>4. PICK ids : ids = Boards!Stages(p)
  OBVIOUS
<1>5. PICK top \in Nat :
         /\ \A s \in ids : /\ Boards!Offset({stage[t].position : t \in ids}) = top + 2
                           /\ stage[s].position <= top
         /\ Cardinality(ids) <= top + 1
  BY <1>1, <1>4, OffsetReaches
<1>6. PICK k \in Nat : InsertsAt(p, k)
  BY <1>1, InsertsWithin
<1> DEFINE rank == [s \in ids |-> Boards!RankOf(s, ids)]
           f == [s \in ids |-> stage[s].position + (top + 2)]
           g == [s \in ids \cup {new} |-> IF s \notin ids THEN k
                                          ELSE IF rank[s] < k THEN rank[s] ELSE rank[s] + 1]
<1>7. renumbering' = [pipeline |-> p, shift |-> f, place |-> g]
  <2>1. g = [s \in ids \cup {new} |-> IF s \notin ids THEN k
                                      ELSE IF Boards!RankOf(s, ids) < k THEN Boards!RankOf(s, ids)
                                      ELSE Boards!RankOf(s, ids) + 1]
    OBVIOUS
  <2>2. f = [s \in ids |-> stage[s].position + Boards!Offset({stage[t].position : t \in ids})]
    BY <1>5
  <2> HIDE DEF f, g
  <2> QED BY <1>2, <1>4, <1>6, <2>1, <2>2 DEF InsertsAt, Boards!BeginCreateStage
<1>8. /\ ids \subseteq DOMAIN stage
      /\ \A s \in ids : stage[s].position \in Nat /\ stage[s].pipeline = p
      /\ \A s \in DOMAIN stage : stage[s].pipeline = p => s \in ids
      /\ \A s, t \in ids : s # t => stage[s].position # stage[t].position
      /\ Cardinality(ids) \in Nat /\ new \notin ids
  BY <1>1, <1>3, <1>4, StagesAre DEF Boards!Stages
<1>9. /\ rank \in [ids -> Nat] /\ \A s \in ids : rank[s] < Cardinality(ids)
      /\ \A s, t \in ids : s # t => rank[s] # rank[t]
  BY <1>1, <1>4, Ranks
<1>10. PICK n \in Nat : n = Cardinality(ids)
  BY <1>8
<1>11. /\ g \in [ids \cup {new} -> Nat]
       /\ \A s \in ids \cup {new} : g[s] < top + 2
       /\ \A s, t \in ids \cup {new} : s # t => g[s] # g[t]
  <2>1. k <= n /\ n <= top + 1 /\ new \notin ids /\ \A s \in ids : rank[s] < n
    BY <1>4, <1>5, <1>6, <1>8, <1>9, <1>10 DEF InsertsAt
  <2> HIDE DEF rank
  <2>2. PICK place : place = g
    OBVIOUS
  <2>3. place = [s \in ids \cup {new} |-> IF s \notin ids THEN k
                                          ELSE IF rank[s] < k THEN rank[s] ELSE rank[s] + 1]
    BY <2>2
  <2> HIDE DEF g
  <2>4. /\ place \in [ids \cup {new} -> Nat]
        /\ \A s \in ids \cup {new} : place[s] < top + 2
        /\ \A s, t \in ids \cup {new} : s # t => place[s] # place[t]
    BY <1>9, <2>1, <2>3, PlacesGo
  <2> QED BY <2>2, <2>4
<1>12. PICK bound \in Nat : bound = top + 2
  OBVIOUS
<1>13. /\ DOMAIN f = ids /\ f \in [ids -> Nat]
       /\ \A s \in ids : f[s] >= bound /\ stage[s].position < bound
       /\ \A s, t \in ids : s # t => f[s] # f[t]
  <2>4. ASSUME NEW m \in Nat, m <= top PROVE m + (top + 2) \in Nat /\ m + (top + 2) >= top + 2 /\ m < top + 2
    BY <2>4
  <2>1. \A s \in ids : f[s] \in Nat /\ f[s] >= bound /\ stage[s].position < bound
    <3>1. \A s \in ids : stage[s].position <= top /\ stage[s].position \in Nat
      BY <1>5, <1>8
    <3> QED BY <1>12, <2>4, <3>1
  <2>2. ASSUME NEW s \in ids, NEW t \in ids, s # t PROVE f[s] # f[t]
    <3>1. stage[s].position \in Nat /\ stage[t].position \in Nat /\ stage[s].position # stage[t].position
      BY <1>8, <2>2
    <3>2. f[s] = stage[s].position + (top + 2) /\ f[t] = stage[t].position + (top + 2)
      OBVIOUS
    <3> HIDE DEF f
    <3> QED BY <3>1, <3>2
  <2>3. DOMAIN f = ids /\ f \in [ids -> Nat]
    BY <2>1
  <2> HIDE DEF f
  <2> QED BY <2>1, <2>2, <2>3
<1>14. DOMAIN g = ids \cup {new}
  OBVIOUS
<1> HIDE DEF f, g, rank
<1>15. renumbering'.pipeline = p /\ renumbering'.shift = f /\ renumbering'.place = g
  BY <1>7
<1>16. PipelineTypes'
  <2>1. lastStage' = new /\ DOMAIN stage \subseteq 1..new
    BY <1>1, <1>2, <1>3
  <2>2. lastStage' \in 0..MaxStage /\ DOMAIN stage' \subseteq 1..lastStage'
    BY <1>1, <1>3, <2>1
  <2> QED BY <1>1, <2>2 DEF PipelinesInv, PipelineTypes
<1>17. Boards!PositionsDistinct' /\ OpenStageLeft' /\ DealsStand' /\ RequiredActive'
  BY <1>1 DEF PipelinesInv, Boards!PositionsDistinct, OpenStageLeft, DealsStand, RequiredActive,
         Boards!StageId
<1>18. RenumberingTypes'
  <2>1. renumbering' = [pipeline |-> renumbering'.pipeline, shift |-> renumbering'.shift,
            place |-> renumbering'.place]
    BY <1>7
  <2>2. DOMAIN g \subseteq 1..lastStage'
    <3>1. \A s \in ids \cup {new} : s \in 1..new
      BY <1>3, <1>8
    <3> QED BY <1>1, <1>2, <1>14, <3>1
  <2>3. \A s \in DOMAIN g \cap DOMAIN stage' : stage'[s].pipeline = p
    BY <1>1, <1>3, <1>8, <1>14
  <2> QED BY <1>1, <1>8, <1>11, <1>13, <1>14, <1>15, <2>1, <2>2, <2>3 DEF RenumberingTypes
<1>19. ShiftsApart(bound)'
  BY <1>1, <1>8, <1>13, <1>14, <1>15 DEF ShiftsApart
<1>20. PlacesApart(bound)'
  <2>1. \A s \in DOMAIN g :
          /\ g[s] < bound
          /\ \A t \in DOMAIN g : s # t => g[s] # g[t]
          /\ \A t \in DOMAIN stage \ DOMAIN g : stage[t].pipeline = p => g[s] # stage[t].position
    BY <1>8, <1>11, <1>12, <1>14
  <2> QED BY <1>1, <1>15, <2>1 DEF PlacesApart
<1>21. RowsApart(bound)'
  <2>1. \A t \in DOMAIN stage : stage[t].pipeline = p =>
          t \in DOMAIN g /\ t \in DOMAIN f
    BY <1>8, <1>13, <1>14
  <2> QED BY <1>1, <1>15, <2>1 DEF RowsApart
<1>22. ASSUME NEW o \in Request PROVE (DeletesAlone(o) /\ MovesWithin(o) /\ RequiresActive(o))'
  <2>1. DeletesAlone(o) /\ MovesWithin(o) /\ RequiresActive(o) /\ edit'[o] = edit[o]
            /\ edit[o] \in EditRow
    BY <1>1 DEF PipelinesInv, EditsFit, PipelineTypes
  <2>2. edit[o].op = "delete pipeline" => edit[o].pipeline # p
    BY <1>1, Zenon DEF Boards!Locked
  <2>3. DeletesAlone(o)'
    BY <1>1, <1>15, <2>1, <2>2, Zenon DEF DeletesAlone
  <2>4. MovesWithin(o)'
    <3> SUFFICES ASSUME edit[o].op = "move deal" PROVE MovesWithin(o)'
      BY <1>1, Zenon DEF MovesWithin
    <3>1. PICK s \in Boards!StageId : edit[o].stage = s
      BY <2>1, EditRows, Zenon DEF MoveDealRequest
    <3>2. s \in Nat /\ s <= lastStage
      BY <2>1, <3>1, StageIdsAre, Zenon DEF MovesWithin
    <3>3. s # new /\ s <= new
      BY <1>3, <3>2, Below, Zenon
    <3>4. s \in DOMAIN g => s \in DOMAIN stage
      BY <1>8, <1>14, <3>3, Zenon
    <3>5. edit[o].stage <= lastStage'
      BY <1>1, <1>2, <3>1, <3>3, Zenon
    <3> QED BY <1>1, <1>15, <2>1, <3>1, <3>4, <3>5, Zenon DEF MovesWithin
  <2>5. RequiresActive(o)'
    BY <1>1, <2>1, Zenon DEF RequiresActive
  <2> QED BY <2>3, <2>4, <2>5
<1> QED BY <1>16, <1>17, <1>18, <1>19, <1>20, <1>21, <1>22 DEF PipelinesInv, RenumberingFits, EditsFit

(* Only an import archives pipelines.                                      *)
ArchivedFits == archived \subseteq pipeline \cap AmoPipeline

BoardsInv == PipelinesInv /\ ArchivedFits

(* What the invariant says of types. *)
LEMMA PipelineTypesAre == BoardsInv => Boards!TypeOK
<1> SUFFICES ASSUME BoardsInv PROVE Boards!TypeOK
  OBVIOUS
<1>0. PipelinesInv /\ archived \subseteq pipeline \cap AmoPipeline
  BY DEF BoardsInv, ArchivedFits
<1>1. PipelineTypes
  BY <1>0 DEF PipelinesInv
<1>2. \A s \in DOMAIN stage :
         /\ stage[s].pipeline \in pipeline /\ stage[s].position \in Nat
         /\ stage[s].kind \in Boards!Kind
  BY <1>1 DEF PipelineTypes, StageRow
<1>3. DOMAIN renumbering.shift \subseteq DOMAIN stage
  BY <1>0, NoneIsRenumbered DEF PipelinesInv, RenumberingFits, RenumberingTypes
<1>4. ASSUME NEW r \in Request
      PROVE  edit[r].op \in {"idle", "delete stage", "move deal", "require fields", "delete pipeline"}
  <2>1. edit[r] \in EditRow
    BY <1>1 DEF PipelineTypes
  <2>2. /\ Boards!Idle.op = "idle"
        /\ \A x \in DeletePipelineRequest : x.op = "delete pipeline"
        /\ \A x \in DeleteStageRequest : x.op = "delete stage"
        /\ \A x \in MoveDealRequest : x.op = "move deal"
        /\ \A x \in RequireFieldsRequest : x.op = "require fields"
    BY IdleIsEdit, Zenon DEF DeletePipelineRequest, DeleteStageRequest, MoveDealRequest,
           RequireFieldsRequest
  <2> QED BY <2>1, <2>2, Zenon DEF EditRow
<1> QED BY <1>0, <1>1, <1>2, <1>3, <1>4, Zenon DEF PipelineTypes, Boards!TypeOK

LEMMA PipelinesInit == Init => BoardsInv
<1> SUFFICES ASSUME Init PROVE BoardsInv
  OBVIOUS
<1>1. Boards!Init
  BY DEF Init
<1>2. PICK p : p = Boards!First
  OBVIOUS
<1>3. p \in Pipeline
  BY <1>2, PipelinesAssumption DEF Boards!First
<1>4. /\ pipeline = {p} /\ lastStage = 2 /\ deal = <<>> /\ active \subseteq Field
      /\ required = [s \in Boards!StageId |-> {}]
      /\ renumbering = Boards!NoRenumbering
      /\ edit = [r \in Request |-> Boards!Idle]
      /\ stage = [s \in 1..2 |-> [pipeline |-> p, position |-> s - 1, imported |-> FALSE,
                                  kind |-> IF s = 1 THEN "open" ELSE "closed"]]
      /\ archived = {}
  BY <1>1, <1>2 DEF Boards!Init
<1>5. /\ DOMAIN stage = 1..2
      /\ \A s \in 1..2 : /\ stage[s].pipeline = p /\ stage[s].position = s - 1 /\ stage[s] \in StageRow
                         /\ stage[s].kind = IF s = 1 THEN "open" ELSE "closed"
  <2>1. \A s \in 1..2 : s - 1 \in Nat
    OBVIOUS
  <2> QED BY <1>3, <1>4, <2>1 DEF StageRow, Boards!Kind
<1>6. DOMAIN deal = {}
  <2>1. DOMAIN <<>> = {}
    OBVIOUS
  <2> QED BY <1>4, <2>1
<1>7. stage = [s \in 1..2 |-> stage[s]]
  BY <1>4
<1>8. PipelineTypes
  <2>1. lastStage \in 0..MaxStage /\ DOMAIN stage \subseteq 1..lastStage
    BY <1>4, <1>5, PipelinesAssumption
  <2>2. stage \in [DOMAIN stage -> StageRow]
    BY <1>5, <1>7
  <2>3. deal \in [DOMAIN deal -> DealRow]
    <3>1. deal = [d \in {} |-> 0]
      BY <1>4
    <3> QED BY <1>6, <3>1
  <2>4. required \in [Boards!StageId -> SUBSET Field] /\ edit \in [Request -> EditRow]
    BY <1>4, IdleIsEdit
  <2> QED BY <1>3, <1>4, <1>5, <1>6, <2>1, <2>2, <2>3, <2>4 DEF PipelineTypes
<1>9. Boards!PositionsDistinct
  BY <1>5 DEF Boards!PositionsDistinct
<1>10. OpenStageLeft
  <2>1. 1 \in DOMAIN stage /\ stage[1].pipeline = p /\ stage[1].kind = "open"
    BY <1>5
  <2> QED BY <1>4, <2>1 DEF OpenStageLeft
<1>11. DealsStand
  BY <1>6 DEF DealsStand
<1>12. RequiredActive
  BY <1>4 DEF RequiredActive
<1>13. RenumberingFits
  BY <1>4 DEF RenumberingFits
<1>14. EditsFit
  <2>1. \A r \in Request : edit[r].op = "idle"
    BY <1>4, IdleIsEdit
  <2> QED BY <2>1, Zenon DEF EditsFit, DeletesAlone, MovesWithin, RequiresActive
<1>15. ArchivedFits
  BY <1>4 DEF ArchivedFits
<1> QED BY <1>8, <1>9, <1>10, <1>11, <1>12, <1>13, <1>14, <1>15 DEF PipelinesInv, BoardsInv

StepKept == ArchivedFits' /\ Boards!OpenStagesKept

LEMMA RowsKept ==
    ASSUME \A s \in DOMAIN stage : s \in DOMAIN stage' /\ stage'[s] = stage[s]
    PROVE  Boards!OpenStagesKept
BY DEF Boards!OpenStagesKept, Boards!OpenStages, Boards!Stages

(* Pipelines come, and none goes or is archived. *)
LEMMA PipelinesComeStep ==
    ASSUME BoardsInv, archived' = archived, pipeline \subseteq pipeline', Boards!OpenStagesKept
    PROVE  StepKept
BY DEF BoardsInv, ArchivedFits, StepKept

LEMMA RowsStayStep ==
    ASSUME BoardsInv, UNCHANGED <<pipeline, archived, stage>>
    PROVE  StepKept
BY RowsKept, PipelinesComeStep

LEMMA DeleteStep ==
    ASSUME BoardsInv, NEW r \in Request, Boards!DeletePipeline(r)
    PROVE  StepKept
<1>1. ArchivedFits'
  BY DEF Boards!DeletePipeline, BoardsInv, ArchivedFits
<1>2. Boards!OpenStagesKept
  BY DeletePipelineInv DEF BoardsInv
<1> QED BY <1>1, <1>2 DEF StepKept

LEMMA ImportPipelineStep ==
    ASSUME BoardsInv, NEW p \in Pipeline, NEW archive \in BOOLEAN, Boards!ImportPipeline(p, archive)
    PROVE  StepKept
<1>1. ArchivedFits'
  BY DEF Boards!ImportPipeline, BoardsInv, ArchivedFits
<1>2. Boards!OpenStagesKept
  BY RowsKept DEF Boards!ImportPipeline
<1> QED BY <1>1, <1>2 DEF StepKept

LEMMA PipelinesStep ==
    ASSUME BoardsInv, [Boards!Next]_pipelinesVars
    PROVE  PipelinesInv' /\ StepKept
<1>0. PipelinesInv
  BY DEF BoardsInv
<1>1. CASE UNCHANGED pipelinesVars
  <2> USE <1>0, <1>1 DEF pipelinesVars
  <2>1. PipelineTypes'
    BY DEF PipelinesInv, PipelineTypes
  <2>2. Boards!PositionsDistinct' /\ OpenStageLeft' /\ DealsStand' /\ RequiredActive'
    BY DEF PipelinesInv, Boards!PositionsDistinct, OpenStageLeft, DealsStand, RequiredActive
  <2>3. RenumberingFits'
    BY DEF PipelinesInv, RenumberingFits, RenumberingTypes, ShiftsApart, PlacesApart, RowsApart
  <2>4. EditsFit'
    BY Zenon DEF PipelinesInv, EditsFit, DeletesAlone, MovesWithin, RequiresActive
  <2>5. StepKept
    BY RowsStayStep
  <2> QED BY <2>1, <2>2, <2>3, <2>4, <2>5 DEF PipelinesInv
<1>2. CASE Boards!Next
  <2> USE <1>0
  <2>1. ASSUME NEW p \in Pipeline, Boards!BeginCreateStage(p) PROVE PipelinesInv' /\ StepKept
    BY <2>1, BeginCreateStageInv, RowsStayStep DEF Boards!BeginCreateStage
  <2>2. ASSUME NEW p \in Pipeline, NEW closedFirst \in BOOLEAN, Boards!CreatePipeline(p, closedFirst)
        PROVE  PipelinesInv' /\ StepKept
    <3>1. /\ pipeline' = pipeline \cup {p} /\ archived' = archived
          /\ \A s \in DOMAIN stage : s \in DOMAIN stage' /\ stage'[s] = stage[s]
      BY <2>2 DEF Boards!CreatePipeline
    <3> QED BY <2>2, <3>1, CreatePipelineInv, RowsKept, PipelinesComeStep
  <2>3. ASSUME NEW r \in Request, NEW p \in Pipeline, Boards!BeginDeletePipeline(r, p)
        PROVE  PipelinesInv' /\ StepKept
    BY <2>3, BeginDeletePipelineInv, RowsStayStep DEF Boards!BeginDeletePipeline
  <2>4. ASSUME NEW s \in DOMAIN renumbering.shift, Boards!ShiftStage(s) PROVE PipelinesInv' /\ StepKept
    <3>1. UNCHANGED <<pipeline, archived>>
      BY <2>4 DEF Boards!ShiftStage
    <3> QED BY <2>4, <3>1, ShiftStageInv, PipelinesComeStep
  <2>5. ASSUME NEW s \in DOMAIN renumbering.place, Boards!PlaceStage(s) PROVE PipelinesInv' /\ StepKept
    <3>1. UNCHANGED <<pipeline, archived>>
      BY <2>5 DEF Boards!PlaceStage
    <3> QED BY <2>5, <3>1, PlaceStageInv, PipelinesComeStep
  <2>6. ASSUME NEW s \in DOMAIN stage, NEW d \in Deal, Boards!CreateDeal(d, s)
        PROVE  PipelinesInv' /\ StepKept
    BY <2>6, CreateDealInv, RowsStayStep DEF Boards!CreateDeal
  <2>7. ASSUME NEW d \in DOMAIN deal, Boards!UpdateDeal(d) PROVE PipelinesInv' /\ StepKept
    BY <2>7, UpdateDealInv, RowsStayStep DEF Boards!UpdateDeal
  <2>8. ASSUME NEW f \in Field, Boards!DeleteCustomField(f) PROVE PipelinesInv' /\ StepKept
    BY <2>8, DeleteCustomFieldInv, RowsStayStep DEF Boards!DeleteCustomField
  <2>9. ASSUME NEW r \in Request, Boards!DeletePipeline(r) PROVE PipelinesInv' /\ StepKept
    BY <2>9, DeletePipelineInv, DeleteStep
  <2>10. ASSUME NEW r \in Request, Boards!DeleteStage(r) PROVE PipelinesInv' /\ StepKept
    <3>1. UNCHANGED <<pipeline, archived>>
      BY <2>10 DEF Boards!DeleteStage
    <3> QED BY <2>10, <3>1, DeleteStageInv, PipelinesComeStep
  <2>11. ASSUME NEW r \in Request, Boards!TransitionDealStage(r) PROVE PipelinesInv' /\ StepKept
    BY <2>11, TransitionInv, RowsStayStep DEF Boards!TransitionDealStage
  <2>12. ASSUME NEW r \in Request, Boards!ReplaceRequiredFields(r) PROVE PipelinesInv' /\ StepKept
    BY <2>12, ReplaceRequiredFieldsInv, RowsStayStep DEF Boards!ReplaceRequiredFields
  <2>13. ASSUME NEW r \in Request, NEW s \in Boards!StageId, Boards!ReadStage(r, s)
         PROVE  PipelinesInv' /\ StepKept
    BY <2>13, ReadStageInv, RowsStayStep DEF Boards!ReadStage
  <2>14. ASSUME NEW r \in Request, NEW s \in Boards!StageId, NEW d \in DOMAIN deal,
                    Boards!ReadTarget(r, d, s)
         PROVE  PipelinesInv' /\ StepKept
    BY <2>14, ReadTargetInv, RowsStayStep DEF Boards!ReadTarget
  <2>15. ASSUME NEW r \in Request, NEW s \in Boards!StageId, NEW fields \in SUBSET Field,
                Boards!ReadFields(r, s, fields)
         PROVE  PipelinesInv' /\ StepKept
    BY <2>15, ReadFieldsInv, RowsStayStep DEF Boards!ReadFields
  <2>16. ASSUME NEW p \in Pipeline, NEW archive \in BOOLEAN, Boards!ImportPipeline(p, archive)
         PROVE  PipelinesInv' /\ StepKept
    BY <2>16, ImportPipelineInv, ImportPipelineStep
  <2>17. ASSUME NEW p \in Pipeline, NEW kind \in Boards!Kind, NEW position \in Boards!Sort,
                Boards!ImportStage(p, kind, position)
         PROVE  PipelinesInv' /\ StepKept
    <3>1. /\ pipeline' = pipeline /\ archived' = archived
          /\ \A s \in DOMAIN stage : s \in DOMAIN stage' /\ stage'[s] = stage[s]
      BY <2>17 DEF Boards!ImportStage
    <3> QED BY <2>17, <3>1, ImportStageInv, RowsKept, PipelinesComeStep
  <2>18. ASSUME NEW s \in DOMAIN stage, NEW d \in Deal, Boards!ImportDeal(d, s)
         PROVE  PipelinesInv' /\ StepKept
    BY <2>18, ImportDealInv, RowsStayStep DEF Boards!ImportDeal
  <2> QED BY <1>2, <2>1, <2>2, <2>3, <2>4, <2>5, <2>6, <2>7, <2>8, <2>9, <2>10, <2>11, <2>12, <2>13,
             <2>14, <2>15, <2>16, <2>17, <2>18 DEF Boards!Next
<1> QED BY <1>1, <1>2

LEMMA PipelinesPart == [Next]_vars => [Boards!Next]_pipelinesVars
BY DEF Next, vars, pipelinesVars

LEMMA PipelinesAlways == Spec => []BoardsInv
<1>1. BoardsInv /\ [Next]_vars => BoardsInv'
  BY PipelinesPart, PipelinesStep DEF StepKept, BoardsInv
<1> QED BY <1>1, PipelinesInit, PTL DEF Spec

(* Positions are distinct, a pipeline made here has an open stage and one  *)
(* that has any keeps one, deals stand on stages of their own pipeline and *)
(* no deleted field is required: for any number of pipelines, stages,      *)
(* deals, fields and requests at a time, and while pages of an import      *)
(* write the same rows.                                                    *)
THEOREM PipelinesAlwaysHold == Spec => PipelinesHold
<1>1. BoardsInv /\ [Next]_vars => [part = "pipelines" \/ part = "fields" => Boards!PipelinesKept]_vars
  <2> SUFFICES ASSUME BoardsInv, [Next]_vars
               PROVE  [part = "pipelines" \/ part = "fields" => Boards!PipelinesKept]_vars
    OBVIOUS
  <2>1. PipelinesInv' /\ StepKept
    BY PipelinesPart, PipelinesStep
  <2>2. Boards!StagesHold'
    BY <2>1, StagesDoHold, PTL
  <2> QED BY <2>1, <2>2 DEF Boards!PipelinesKept, StepKept
<1> QED BY <1>1, PipelinesAlways, PTL DEF Spec, PipelinesHold

-------------------------------------------------------------------------------
(* Every part keeps its types: a row is of a status and a shape the code   *)
(* knows, and counters and lists stay within what created them.            *)
THEOREM TypesAreAlwaysOK == Spec => []TypeOK
<1>1. ConnectionInv => Accounts!TypeOK
  BY ConnectionTypesAre DEF ConnectionInv
<1>2. MembersInv => Team!TypeOK
  BY DEF MembersInv
<1>3. RealtimeInv => Streams!TypeOK
  BY DEF RealtimeInv
<1>4. MonitorInv => Reminders!TypeOK
  BY DEF MonitorInv
<1>5. /\ Intakes!TypeOK /\ Mails!TypeOK /\ Streams!TypeOK /\ Team!TypeOK /\ Boards!TypeOK
      /\ Devices!TypeOK /\ Accounts!TypeOK /\ Reminders!TypeOK /\ Uploads!TypeOK /\ Imports!TypeOK
      => TypeOK
  BY DEF TypeOK
<1> QED BY <1>1, <1>2, <1>3, <1>4, <1>5, BoundsAlways, IntakeTypesAre, MailAlways, MailTypes,
           RealtimeAlways, MembersAlways, PipelinesAlways, PipelineTypesAre, PushAlways, PushTypesAre,
           ConnectionAlways, MonitorsAlways, ImportsAlways, RenewalTypesAre, RecordTypesAre, PTL
===============================================================================
