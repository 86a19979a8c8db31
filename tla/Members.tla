------------------------------- MODULE Members --------------------------------
(***************************************************************************)
(* Who belongs to the workspace, with which role: bootstrap, invitations   *)
(* and PATCH /users/{id}.  A request reads its session and the actor's     *)
(* role first, then the rows it decides on, none of them locked, and       *)
(* writes last; others come in between.                                    *)
(*                                                                         *)
(* Managers have no part in what is decided here; "employee" is both.      *)
(***************************************************************************)
EXTENDS Naturals, FiniteSets

CONSTANTS
    User,           \* e-mail addresses
    Request,        \* requests at a time
    MaxVersion      \* bound on memberships.version

VARIABLES
    member,         \* member[u]: the membership, role "none" if absent
    invitation,     \* invitation[u]: an unexpired one that is not accepted
    request         \* request[r]: a request under way

vars == <<member, invitation, request>>

Elevated == {"owner", "admin"}
RoleName == Elevated \cup {"employee"}

NoMember == [role |-> "none", version |-> 0]

Idle == [stage |-> "idle"]

(* What PATCH has read: the actor's role, then the target's row, and how   *)
(* many owners there were.  expected is the version the client has seen.   *)
UpdateRequest ==
    [stage : {"authorized", "decided"}, actor : User, as : Elevated, target : User,
     role : RoleName, expected : 1..MaxVersion, seen : RoleName \cup {"unread"},
     owners : 0..Cardinality(User)]

AcceptRequest == [stage : {"accepting"}, target : User, isMember : BOOLEAN,
                  role : RoleName]

TypeOK ==
    /\ member \in [User -> {NoMember} \cup [role : RoleName, version : 1..MaxVersion]]
    /\ invitation \in [User -> RoleName \cup {"none"}]
    /\ request \in [Request -> {Idle} \cup UpdateRequest \cup AcceptRequest]

Init ==
    /\ member = [u \in User |-> NoMember]
    /\ invitation = [u \in User |-> "none"]
    /\ request = [r \in Request |-> Idle]

Owners == {u \in User : member[u].role = "owner"}

Becomes(r, value) == request' = [request EXCEPT ![r] = value]

-------------------------------------------------------------------------------
Bootstrap(u) ==
    /\ \A v \in User : member[v] = NoMember
    /\ member' = [member EXCEPT ![u] = [role |-> "owner", version |-> 1]]
    /\ UNCHANGED <<invitation, request>>

InviteUser(actor, u, role) ==
    /\ member[actor].role \in Elevated
    /\ role # "owner"
    /\ member[actor].role = "admin" => role # "admin"
    /\ member[u] = NoMember /\ invitation[u] = "none"
    /\ invitation' = [invitation EXCEPT ![u] = role]
    /\ UNCHANGED <<member, request>>

(* It expires, or is left unused. *)
ExpireInvitation(u) ==
    /\ invitation[u] # "none"
    /\ invitation' = [invitation EXCEPT ![u] = "none"]
    /\ UNCHANGED <<member, request>>

BeginAccept(r, u) ==
    /\ request[r] = Idle
    /\ invitation[u] # "none"
    /\ Becomes(r, [stage |-> "accepting", target |-> u, role |-> invitation[u],
                   isMember |-> member[u] # NoMember])
    /\ UNCHANGED <<member, invitation>>

(* A membership that was there when it was looked for is left alone; one   *)
(* made since then, or a user row, is found by its unique key.             *)
AcceptInvitation(r) ==
    /\ request[r].stage = "accepting"
    /\ LET q == request[r]
       IN  \/ /\ q.isMember
              /\ invitation' = [invitation EXCEPT ![q.target] = "none"]
              /\ UNCHANGED member
           \/ /\ ~q.isMember /\ member[q.target] = NoMember
              /\ member' = [member EXCEPT ![q.target] = [role |-> q.role, version |-> 1]]
              /\ invitation' = [invitation EXCEPT ![q.target] = "none"]
           \/ /\ ~q.isMember /\ member[q.target] # NoMember
              /\ UNCHANGED <<member, invitation>>
    /\ Becomes(r, Idle)

-------------------------------------------------------------------------------
(* PATCH /users/{id} *)

(* get_auth_context, in a session of its own *)
BeginUpdate(r, actor, target, role, expected) ==
    /\ request[r] = Idle
    /\ member[actor].role \in Elevated
    /\ expected <= member[target].version
    /\ Becomes(r, [stage |-> "authorized", actor |-> actor, as |-> member[actor].role,
                   target |-> target, role |-> role, expected |-> expected,
                   seen |-> "unread", owners |-> 0])
    /\ UNCHANGED <<member, invitation>>

(* Faulty variant of MayUpdate: an owner is not protected from an admin. *)
MayUpdateOwner(q, seen) ==
    /\ q.as = "admin" => seen # "admin" /\ q.role \notin Elevated
    /\ q.actor = q.target => q.role = seen
    /\ seen = "owner" /\ q.role # "owner" => Cardinality(Owners) > 1

(* An administrator neither edits nor makes owners and administrators;     *)
(* nobody changes their own role; one owner must be left.                  *)
MayUpdate(q, seen) ==
    /\ q.as = "admin" => seen \notin Elevated /\ q.role \notin Elevated
    /\ q.actor = q.target => q.role = seen
    /\ seen = "owner" /\ q.role # "owner" => Cardinality(Owners) > 1

Decide(r) ==
    /\ request[r].stage = "authorized"
    /\ LET q == request[r]
           seen == member[q.target].role
       IN  Becomes(r, IF MayUpdate(q, seen)
                      THEN [q EXCEPT !.stage = "decided", !.seen = seen,
                                     !.owners = Cardinality(Owners)]
                      ELSE Idle)
    /\ UNCHANGED <<member, invitation>>

(* Faulty variant of Matches: the update does not compare the version. *)
MatchesAnyVersion(q) == member[q.target].version < MaxVersion

(* UPDATE ... WHERE version = expected_version *)
Matches(q) == member[q.target].version = q.expected /\ q.expected < MaxVersion

UpdateUser(r) ==
    /\ request[r].stage = "decided"
    /\ LET q == request[r]
       IN  IF Matches(q)
           THEN member' = [member EXCEPT ![q.target] =
                              [role |-> q.role, version |-> q.expected + 1]]
           ELSE UNCHANGED member
    /\ Becomes(r, Idle)
    /\ UNCHANGED invitation

Next ==
    \/ \E u \in User : Bootstrap(u) \/ ExpireInvitation(u)
    \/ \E actor, u \in User, role \in RoleName : InviteUser(actor, u, role)
    \/ \E r \in Request :
          \/ Decide(r) \/ UpdateUser(r) \/ AcceptInvitation(r)
          \/ \E u \in User : BeginAccept(r, u)
          \/ \E actor, target \in User, role \in RoleName, expected \in 1..MaxVersion :
                BeginUpdate(r, actor, target, role, expected)

Spec == Init /\ [][Next]_vars

-------------------------------------------------------------------------------
(* However requests interleave, a member's role changes only by someone    *)
(* who was, when the request was authorized, entitled to change the very   *)
(* role the member has, an owner or an administrator among those below,    *)
(* and never by the member; and the last owner goes only when an update    *)
(* that had counted another one overtook the update of that one.           *)
RoleChange(u) ==
    \E r \in Request :
        LET q == request[r]
        IN  /\ q # Idle /\ request'[r] = Idle
            /\ q.stage = "decided" /\ q.target = u /\ q.actor # u
            /\ q.as = "owner" \/ {member[u].role, member'[u].role} \cap Elevated = {}
            /\ Owners = {u} /\ Owners' = {} => q.owners > 1

RolesGranted ==
    \A u \in User :
        member[u] # NoMember /\ member'[u].role # member[u].role => RoleChange(u)

RolesAreGranted == [][RolesGranted]_vars

(* A workspace that has an owner keeps one: the documentation of PATCH     *)
(* /users/{id}, and the guard in update_user.                              *)
AnOwnerStays == [][Owners # {} => Owners' # {}]_vars
===============================================================================
