-------------------------------- MODULE Team --------------------------------
(***************************************************************************)
(* The members of one merchant, their roles and assigned locations, and the *)
(* requests that invite, change, assign, revoke and accept them             *)
(* (accounts.services).                                                    *)
(*                                                                         *)
(* A request is authorised by a role read before any lock.  It then locks   *)
(* the Merchant row, reads what it decides on, and writes; the lock is held *)
(* to its commit.  An invitation's number stands for its invited_at, the    *)
(* number of a row's first invitation for the row's id.                    *)
(***************************************************************************)
EXTENDS Naturals

CONSTANTS
  Users,
  Founder,    \* the OWNER the merchant was created with
  Locations,
  Requests,
  Free,
  MaxInvites  \* bound on the invitations sent

TeamAssumption ==
  /\ Founder \in Users
  /\ Free \notin Requests
  /\ MaxInvites \in Nat

VARIABLES
  member,   \* the rows of TeamMember, role "none" without one
  invites,  \* tokens handed out
  lock,     \* the request that holds the Merchant row
  request

vars == <<member, invites, lock, request>>

Roles == {"OWNER", "ADMIN", "MANAGER", "VIEWER"}

Members == [role : Roles \cup {"none"}, accepted : BOOLEAN, id : 0..MaxInvites,
            invite : 0..MaxInvites, locations : SUBSET Locations]

NoMember == [role |-> "none", accepted |-> FALSE, id |-> 0, invite |-> 0, locations |-> {}]

Idle == [pc |-> "idle", op |-> "none", actor |-> Founder, target |-> Founder,
         role |-> "none", locations |-> {}, invite |-> 0, actorId |-> 0, targetId |-> 0]

\* create_merchant_with_owner
Init ==
  /\ member = [u \in Users |-> IF u = Founder
                               THEN [NoMember EXCEPT !.role = "OWNER", !.accepted = TRUE]
                               ELSE NoMember]
  /\ invites = {}
  /\ lock = Free
  /\ request = [r \in Requests |-> Idle]

Is(u, role) == member[u].accepted /\ member[u].role = role

-----------------------------------------------------------------------------
(* Before the lock *)

Manages(u) == Is(u, "OWNER") \/ Is(u, "ADMIN")

Operations(a) ==
  [op : {"invite", "change"}, actor : {a}, target : Users, role : Roles, locations : {{}}]
    \cup [op : {"revoke"}, actor : {a}, target : Users, role : {"none"}, locations : {{}}]
    \cup [op : {"assign"}, actor : {a}, target : Users, role : {"none"},
          locations : SUBSET Locations]

\* IsOwnerOrAdmin, on the membership the permission class read.
Authorise(r, a) ==
  /\ request[r].pc = "idle"
  /\ Manages(a)
  /\ \E o \in Operations(a) :
       request' = [request EXCEPT ![r] =
         [pc |-> "authorised", op |-> o.op, actor |-> a, target |-> o.target, role |-> o.role,
          locations |-> o.locations, invite |-> 0,
          actorId |-> member[a].id, targetId |-> member[o.target].id]]
  /\ UNCHANGED <<member, invites, lock>>

\* accept_invite looks the pending row up without a tenant or a lock.
OpenInvite(r) ==
  /\ request[r].pc = "idle"
  /\ \E i \in invites :
       /\ member[i.user].role # "none" /\ ~member[i.user].accepted
       /\ request' = [request EXCEPT ![r] =
            [Idle EXCEPT !.pc = "authorised", !.op = "accept", !.actor = i.user,
                         !.target = i.user, !.invite = i.number,
                         !.targetId = member[i.user].id]]
  /\ UNCHANGED <<member, invites, lock>>

-----------------------------------------------------------------------------
(* Under the lock of the Merchant row *)

\* Mutant: the Merchant row is read without FOR UPDATE.
NeverWaits == TRUE

LockIsFree == lock = Free

\* _would_orphan_owners
WouldOrphan(u) ==
  /\ member[u].role = "OWNER"
  /\ ~\E v \in Users \ {u} : Is(v, "OWNER")

\* The memberships the request named are still there.
SameActor(q) == member[q.actor].accepted /\ member[q.actor].id = q.actorId

SameTarget(q) == member[q.target].role # "none" /\ member[q.target].id = q.targetId

\* _check_can_manage
MayManage(q) ==
  /\ q.target # q.actor
  /\ Is(q.actor, "OWNER") \/ (member[q.target].role # "OWNER" /\ q.role # "OWNER")

SameInvite(q) == ~member[q.target].accepted /\ member[q.target].invite = q.invite

\* What _lock_team, _lock_target and the checks of each operation let through.
Permitted(q) ==
  CASE q.op = "invite" -> /\ SameActor(q)
                          /\ q.role = "OWNER" => Is(q.actor, "OWNER")
                          /\ ~member[q.target].accepted
    [] q.op = "change" -> /\ SameActor(q) /\ SameTarget(q)
                          /\ MayManage(q)
                          /\ member[q.target].role # q.role
                          /\ q.role # "OWNER" => ~WouldOrphan(q.target)
    [] q.op = "revoke" -> /\ SameActor(q) /\ SameTarget(q)
                          /\ MayManage(q)
                          /\ ~WouldOrphan(q.target)
    [] q.op = "assign" -> /\ SameActor(q) /\ SameTarget(q)
                          /\ Manages(q.actor) /\ member[q.target].role = "MANAGER"
    [] q.op = "accept" -> SameTarget(q) /\ SameInvite(q)

LockTeam(r) ==
  /\ request[r].pc = "authorised"
  /\ LockIsFree
  /\ IF Permitted(request[r])
     THEN /\ lock' = r
          /\ request' = [request EXCEPT ![r].pc = "writing"]
     ELSE /\ request' = [request EXCEPT ![r] = Idle]
          /\ UNCHANGED lock
  /\ UNCHANGED <<member, invites>>

\* A former MANAGER's assignments go with the role.
RoleChanged(m, role) ==
  [m EXCEPT !.role = role,
            !.locations = IF m.role = "MANAGER" /\ role # "MANAGER" THEN {} ELSE @]

\* A pending member is invited again with a new role and a new invited_at.
Invited(m, role, number) ==
  [m EXCEPT !.role = role, !.invite = number, !.id = IF m.role = "none" THEN number ELSE @]

Written(q, number) ==
  LET m == member[q.target] IN
  CASE q.op = "invite" -> Invited(m, q.role, number)
    [] q.op = "change" -> RoleChanged(m, q.role)
    [] q.op = "revoke" -> NoMember
    [] q.op = "assign" -> [m EXCEPT !.locations = q.locations]
    [] q.op = "accept" -> [m EXCEPT !.accepted = TRUE]

NextInvite == {n \in 1..MaxInvites : \A i \in invites : i.number < n}

Number == CHOOSE n \in NextInvite : \A k \in NextInvite : n <= k

End(r) ==
  /\ lock' = IF lock = r THEN Free ELSE lock
  /\ request' = [request EXCEPT ![r] = Idle]

CommitTeam(r) ==
  LET q == request[r] IN
  /\ q.pc = "writing"
  /\ IF q.op = "invite"
     THEN /\ NextInvite # {}
          /\ member' = [member EXCEPT ![q.target] = Written(q, Number)]
          /\ invites' = invites \cup {[user |-> q.target, number |-> Number]}
     ELSE member' = [member EXCEPT ![q.target] = Written(q, 0)] /\ UNCHANGED invites
  /\ End(r)

\* A wrong password, a failed validation, an error: ROLLBACK.
RequestFails(r) ==
  /\ request[r].pc # "idle"
  /\ End(r)
  /\ UNCHANGED <<member, invites>>

Next == \E r \in Requests :
          \/ \E a \in Users : Authorise(r, a)
          \/ OpenInvite(r) \/ LockTeam(r) \/ CommitTeam(r) \/ RequestFails(r)

Spec == Init /\ [][Next]_vars

-----------------------------------------------------------------------------
(* Properties *)

TypeOK ==
  /\ member \in [Users -> Members]
  /\ invites \subseteq [user : Users, number : 1..MaxInvites]
  /\ lock \in Requests \cup {Free}

\* A merchant keeps an accepted OWNER, though two owners demote or revoke each
\* other at once (_lock_team, _would_orphan_owners).
OwnerRemains == \E u \in Users : Is(u, "OWNER")

\* What gives or takes the OWNER role is committed by an OWNER: an actor demoted
\* between the permission check and the lock does not (_check_can_manage).
TouchesOwner(q) ==
  \/ q.op \in {"invite", "change"} /\ q.role = "OWNER"
  \/ q.op \in {"change", "revoke"} /\ member[q.target].role = "OWNER"

OnlyOwnersTouchOwners ==
  \A r \in Requests :
    request[r].pc = "writing" /\ TouchesOwner(request[r]) => Is(request[r].actor, "OWNER")

\* A membership is accepted with the newest invitation only: one that was
\* refreshed or revoked after the lookup is refused (accept_invite).
AcceptsNewest ==
  \A r \in Requests : request[r].pc = "writing" /\ request[r].op = "accept" =>
    \A i \in invites : i.user = request[r].target => i.number <= request[r].invite

TeamInv == TypeOK /\ OwnerRemains /\ OnlyOwnersTouchOwners /\ AcceptsNewest

\* What the comment in change_team_member_role says: who becomes a MANAGER has
\* no locations left over from an earlier time as one.
NoAssignmentCarriesOver ==
  [][\A u \in Users :
       member[u].role # "MANAGER" /\ member'[u].role = "MANAGER" => member'[u].locations = {}]_vars
=============================================================================
