---------------------------- MODULE AccountsProofs ----------------------------
(***************************************************************************)
(* The Merchant row's lock and the User row's, for any number of requests:  *)
(* what a request was permitted when it took the lock is still so when it   *)
(* writes, because whoever would change it must hold the lock too.  That is *)
(* the inductive invariant of Team (TeamIInv), and of Totp (TotpIInv).      *)
(***************************************************************************)
EXTENDS Components, WellFoundedInduction, TLAPS

\* The variables of Team.
member == v1
invites == v2
lock == v3
request == v4

\* The other variables of Totp.
user == v2
secrets == v5
now == v6
used == v7

USE DEF member, invites, lock, request, user, secrets, now, used


-----------------------------------------------------------------------------
(* Team *)

TeamRequests == [pc : {"idle", "authorised", "writing"},
                 op : {"none", "invite", "change", "revoke", "assign", "accept"},
                 actor : Users, target : Users, role : Team!Roles \cup {"none"},
                 locations : SUBSET Assignable, invite : 0..MaxInvites,
                 actorId : 0..MaxInvites, targetId : 0..MaxInvites]

\* A request names users and an invitation that exist, and changes nothing to
\* something a member cannot be.
TeamTyped ==
  /\ Team!TypeOK
  /\ request \in [Requests -> TeamRequests]
  /\ \A r \in Requests : /\ request[r].op \in {"invite", "change"} => request[r].role # "none"
                         /\ request[r].op = "none" => request[r].pc = "idle"

\* The request that writes is the one that holds the Merchant row.
TeamHolding == \A r \in Requests : request[r].pc = "writing" <=> lock = r

\* What let it through is still so.
TeamPermitted ==
  \A r \in Requests : request[r].pc = "writing" => Team!Permitted(request[r])

\* A member's row carries the newest of the invitations sent to it.
NewestOnRow ==
  \A i \in invites : member[i.user].role # "none" => i.number <= member[i.user].invite

TeamIInv == TeamTyped /\ TeamHolding /\ TeamPermitted /\ Team!OwnerRemains /\ NewestOnRow

\* A set of naturals that has an element has a least one: the number that the
\* next invitation gets.
LEMMA LeastExists ==
  ASSUME NEW S \in SUBSET Nat, S # {}
  PROVE  \E n \in S : \A m \in S : n <= m
<1> DEFINE Less == OpToRel(<, Nat)
<1>1. ASSUME NEW m \in Nat, NEW n \in Nat, m < n
      PROVE  <<m, n>> \in Less
  BY <1>1 DEF OpToRel
<1>2. PICK n \in S : \A m \in S : <<m, n>> \notin Less
  <2> HIDE DEF Less
  <2>1. IsWellFoundedOn(Less, Nat)
    BY NatLessThanWellFounded DEF Less
  <2> QED
    BY <2>1, WFMin
<1>3. ASSUME NEW m \in S, m < n PROVE FALSE
  <2> HIDE DEF Less
  <2>1. m \in Nat /\ n \in Nat
    OBVIOUS
  <2> QED
    BY <1>1, <1>2, <1>3, <2>1
<1>4. \A m \in S : m \in Nat /\ n \in Nat
  OBVIOUS
<1> QED
  BY <1>3, <1>4

\* Init establishes it.
LEMMA TeamStarts ==
  ASSUME Team!TeamAssumption, Team!Init
  PROVE  TeamIInv
<1> USE DEF Team!TeamAssumption, Team!Init
<1>1. TeamTyped
  <2>1. Team!NoMember \in Team!Members
    BY DEF Team!NoMember, Team!Members, Team!Roles
  <2> DEFINE owner == [Team!NoMember EXCEPT !.role = "OWNER", !.accepted = TRUE]
  <2>2. owner \in Team!Members
    <3>1. ASSUME NEW m \in Team!Members
          PROVE  [m EXCEPT !.role = "OWNER", !.accepted = TRUE] \in Team!Members
      BY DEF Team!Members, Team!Roles
    <3> QED
      BY <2>1, <3>1
  <2>3. Team!TypeOK
    <3>1. member = [u \in Users |-> IF u = Founder THEN owner ELSE Team!NoMember]
      OBVIOUS
    <3> HIDE DEF owner
    <3>2. member \in [Users -> Team!Members]
      BY <2>1, <2>2, <3>1
    <3>3. invites \subseteq [user : Users, number : 1..MaxInvites]
      OBVIOUS
    <3>4. lock \in Requests \cup {Free}
      OBVIOUS
    <3> QED
      BY <3>2, <3>3, <3>4 DEF Team!TypeOK
  <2>4. Team!Idle \in TeamRequests /\ Team!Idle.op = "none" /\ Team!Idle.pc = "idle"
    BY DEF TeamRequests, Team!Idle
  <2> QED
    BY <2>3, <2>4 DEF TeamTyped
<1>2. TeamHolding /\ TeamPermitted
  BY DEF TeamHolding, TeamPermitted, Team!Idle
<1>3. Team!OwnerRemains
  BY DEF Team!OwnerRemains, Team!Is, Team!NoMember
<1>4. NewestOnRow
  BY DEF NewestOnRow
<1>5. QED
  BY <1>1, <1>2, <1>3, <1>4 DEF TeamIInv

\* The number of the next invitation is above every one sent.
LEMMA NextNumber ==
  ASSUME Team!TeamAssumption, Team!NextInvite # {}
  PROVE  Team!Number \in 1..MaxInvites /\ \A i \in invites : i.number < Team!Number
<1>1. Team!NextInvite \in SUBSET Nat
  BY DEF Team!NextInvite
<1>2. \E n \in Team!NextInvite : \A k \in Team!NextInvite : n <= k
  BY <1>1, LeastExists
<1>3. Team!Number \in Team!NextInvite
  BY <1>2 DEF Team!Number
<1> QED
  BY <1>3 DEF Team!NextInvite

\* A request ends: it lets the lock go and is forgotten.
LEMMA TeamEnds ==
  ASSUME Team!TeamAssumption, TeamTyped, TeamHolding, TeamPermitted,
         NEW r \in Requests, Team!End(r)
  PROVE  /\ request' \in [Requests -> TeamRequests]
         /\ \A x \in Requests :
              /\ request'[x].op \in {"invite", "change"} => request'[x].role # "none"
              /\ request'[x].op = "none" => request'[x].pc = "idle"
         /\ lock' \in Requests \cup {Free}
         /\ TeamHolding'
         /\ \A x \in Requests : request'[x].pc = "writing" =>
              /\ x # r /\ request'[x] = request[x]
              /\ request[x].pc = "writing" /\ request[r].pc # "writing"
<1> USE DEF Team!TeamAssumption, Team!End, TeamTyped
<1>1. Team!Idle \in TeamRequests /\ Team!Idle.op = "none" /\ Team!Idle.pc = "idle"
  BY DEF TeamRequests, Team!Idle
<1>2. request' = [request EXCEPT ![r] = Team!Idle]
  OBVIOUS
<1>3. request' \in [Requests -> TeamRequests]
  BY <1>1, <1>2
<1>4. \A x \in Requests :
        /\ request'[x].op \in {"invite", "change"} => request'[x].role # "none"
        /\ request'[x].op = "none" => request'[x].pc = "idle"
  BY <1>1, <1>2
<1>5. lock' \in Requests \cup {Free}
  BY DEF Team!TypeOK
<1>6. TeamHolding'
  BY <1>1, <1>2 DEF TeamHolding
<1>7. \A x \in Requests : request'[x].pc = "writing" =>
              /\ x # r /\ request'[x] = request[x]
              /\ request[x].pc = "writing" /\ request[r].pc # "writing"
  BY <1>1, <1>2, <1>6 DEF TeamHolding
<1> QED
  BY <1>3, <1>4, <1>5, <1>6, <1>7

\* While nobody writes to the team, what a request is permitted does not change.
LEMMA PermittedStays ==
  ASSUME member' = member, TeamPermitted,
         \A x \in Requests : request'[x].pc = "writing" =>
           request'[x] = request[x] /\ request[x].pc = "writing"
  PROVE  TeamPermitted'
<1>1. ASSUME NEW x \in Requests, request'[x].pc = "writing"
      PROVE  Team!Permitted(request[x])'
  <2>1. Team!Permitted(request[x]) /\ request'[x] = request[x]
    BY <1>1 DEF TeamPermitted
  <2> QED
    BY <2>1 DEF Team!Permitted, Team!SameActor, Team!SameTarget, Team!MayManage, Team!Is,
         Team!SameInvite, Team!WouldOrphan, Team!Manages
<1> QED
  BY <1>1 DEF TeamPermitted

\* The row that a permitted request writes, and an owner that remains after it.
LEMMA TeamWrites ==
  ASSUME Team!TeamAssumption, TeamTyped, Team!OwnerRemains,
         NEW q \in TeamRequests, Team!Permitted(q), q.op # "none",
         q.op \in {"invite", "change"} => q.role # "none",
         NEW number \in 0..MaxInvites,
         member' = [member EXCEPT ![q.target] = Team!Written(q, number)]
  PROVE  Team!Written(q, number) \in Team!Members /\ Team!OwnerRemains'
<1> DEFINE m == member[q.target]
<1>1. m \in Team!Members /\ q.target \in Users /\ q.actor \in Users
  BY DEF TeamTyped, Team!TypeOK, TeamRequests
<1>2. member \in [Users -> Team!Members]
  BY DEF TeamTyped, Team!TypeOK
<1>3. PICK o \in Users : member[o].accepted /\ member[o].role = "OWNER"
  BY DEF Team!OwnerRemains, Team!Is
<1>4. Team!OwnerRemains' <=> \E u \in Users : member'[u].accepted /\ member'[u].role = "OWNER"
  BY DEF Team!OwnerRemains, Team!Is
<1> HIDE DEF m
<1>5. CASE q.op = "invite"
  <2>1. Team!Written(q, number)
          = [m EXCEPT !.role = q.role, !.invite = number, !.id = IF m.role = "none" THEN number ELSE @]
    BY <1>5 DEF Team!Written, Team!Invited, m
  <2>2. Team!Written(q, number) \in Team!Members
    BY <1>1, <2>1 DEF Team!Members, TeamRequests
  <2>3. ~member[q.target].accepted
    BY <1>5 DEF Team!Permitted
  <2>4. member'[o] = member[o]
    BY <1>2, <1>3, <2>3
  <2> QED
    BY <1>3, <1>4, <2>2, <2>4
<1>6. CASE q.op = "change"
  <2>1. Team!Written(q, number)
          = [m EXCEPT !.role = q.role,
                      !.locations = IF m.role = "MANAGER" /\ q.role # "MANAGER" THEN {} ELSE @]
    BY <1>6 DEF Team!Written, Team!RoleChanged, m
  <2>2. Team!Written(q, number) \in Team!Members
    BY <1>1, <1>6, <2>1 DEF Team!Members, TeamRequests
  <2>3. Team!MayManage(q) /\ (q.role # "OWNER" => ~Team!WouldOrphan(q.target))
    BY <1>6 DEF Team!Permitted
  <2>4. CASE q.role = "OWNER"
    <3>1. o # q.target => member'[o] = member[o]
      BY <1>2, <1>3
    <3>2. member'[q.target] = Team!Written(q, number)
      BY <1>1, <1>2
    <3>3. o = q.target => member'[o].accepted /\ member'[o].role = "OWNER"
      BY <1>1, <1>3, <2>1, <2>4, <3>2 DEF m, Team!Members
    <3> QED
      BY <1>3, <1>4, <2>2, <3>1, <3>3
  <2>5. CASE q.role # "OWNER"
    <3>1. PICK v \in Users : v # q.target /\ member[v].accepted /\ member[v].role = "OWNER"
      BY <1>3, <2>3, <2>5 DEF Team!WouldOrphan, Team!Is
    <3>2. member'[v] = member[v]
      BY <1>2, <3>1
    <3> QED
      BY <1>4, <2>2, <3>1, <3>2
  <2> QED
    BY <2>4, <2>5
<1>7. CASE q.op = "revoke"
  <2>1. Team!Written(q, number) \in Team!Members
    BY <1>7 DEF Team!Written, Team!NoMember, Team!Members, Team!Roles, Team!TeamAssumption
  <2>2. PICK v \in Users : v # q.target /\ member[v].accepted /\ member[v].role = "OWNER"
    BY <1>3, <1>7 DEF Team!Permitted, Team!WouldOrphan, Team!Is
  <2>3. member'[v] = member[v]
    BY <1>2, <2>2
  <2> QED
    BY <1>4, <2>1, <2>2, <2>3
<1>8. CASE q.op = "assign"
  <2>1. Team!Written(q, number) = [m EXCEPT !.locations = q.locations] /\ m.role = "MANAGER"
    BY <1>8 DEF Team!Written, Team!Permitted, m
  <2>2. Team!Written(q, number) \in Team!Members
    BY <1>1, <2>1 DEF Team!Members, TeamRequests
  <2>3. o # q.target
    BY <1>3, <2>1 DEF m
  <2>4. member'[o] = member[o]
    BY <1>2, <1>3, <2>3
  <2> QED
    BY <1>3, <1>4, <2>2, <2>4
<1>9. CASE q.op = "accept"
  <2>1. Team!Written(q, number) = [m EXCEPT !.accepted = TRUE] /\ ~m.accepted
    BY <1>9 DEF Team!Written, Team!Permitted, Team!SameInvite, m
  <2>2. Team!Written(q, number) \in Team!Members
    BY <1>1, <2>1 DEF Team!Members
  <2>3. o # q.target
    BY <1>3, <2>1 DEF m
  <2>4. member'[o] = member[o]
    BY <1>2, <1>3, <2>3
  <2> QED
    BY <1>3, <1>4, <2>2, <2>4
<1> QED
  BY <1>5, <1>6, <1>7, <1>8, <1>9 DEF TeamRequests

\* Each step keeps the invariant.
LEMMA TeamStep ==
  ASSUME Team!TeamAssumption, TeamIInv, [Team!Next]_(Team!vars)
  PROVE  TeamIInv'
<1> USE DEF Team!TeamAssumption, TeamIInv
<1>1. ASSUME NEW r \in Requests, NEW a \in Users, Team!Authorise(r, a)
      PROVE  TeamIInv'
  <2> USE <1>1
  <2>1. member' = member /\ invites' = invites /\ lock' = lock
    BY DEF Team!Authorise
  <2>2. PICK o \in Team!Operations(a) :
          request' = [request EXCEPT ![r] =
            [pc |-> "authorised", op |-> o.op, actor |-> a, target |-> o.target, role |-> o.role,
             locations |-> o.locations, invite |-> 0,
             actorId |-> member[a].id, targetId |-> member[o.target].id]]
    BY DEF Team!Authorise
  <2> DEFINE q == [pc |-> "authorised", op |-> o.op, actor |-> a, target |-> o.target,
                   role |-> o.role, locations |-> o.locations, invite |-> 0,
                   actorId |-> member[a].id, targetId |-> member[o.target].id]
  <2>3. q \in TeamRequests /\ q.pc = "authorised" /\ q.op # "none"
          /\ (q.op \in {"invite", "change"} => q.role # "none")
    BY DEF TeamRequests, Team!Operations, TeamTyped, Team!TypeOK, Team!Members, Team!Roles
  <2>4. request' = [request EXCEPT ![r] = q]
    BY <2>2
  <2> HIDE DEF q
  <2>5. TeamTyped'
    BY <2>1, <2>3, <2>4 DEF TeamTyped, Team!TypeOK
  <2>6. request[r].pc = "idle"
    BY DEF Team!Authorise
  <2>7. TeamHolding'
    BY <2>1, <2>3, <2>4, <2>6 DEF TeamHolding, TeamTyped
  <2>8. TeamPermitted'
    BY <2>1, <2>3, <2>4, PermittedStays DEF TeamTyped
  <2>9. Team!OwnerRemains' /\ NewestOnRow'
    BY <2>1 DEF Team!OwnerRemains, Team!Is, NewestOnRow
  <2> QED
    BY <2>5, <2>7, <2>8, <2>9
<1>2. ASSUME NEW r \in Requests, Team!OpenInvite(r)
      PROVE  TeamIInv'
  <2> USE <1>2
  <2>1. member' = member /\ invites' = invites /\ lock' = lock
    BY DEF Team!OpenInvite
  <2>2. PICK i \in invites :
          request' = [request EXCEPT ![r] =
            [Team!Idle EXCEPT !.pc = "authorised", !.op = "accept", !.actor = i.user,
                         !.target = i.user, !.invite = i.number,
                         !.targetId = member[i.user].id]]
    BY DEF Team!OpenInvite
  <2> DEFINE q == [Team!Idle EXCEPT !.pc = "authorised", !.op = "accept", !.actor = i.user,
                         !.target = i.user, !.invite = i.number,
                         !.targetId = member[i.user].id]
  <2>3. q \in TeamRequests /\ q.pc = "authorised" /\ q.op = "accept"
    <3>1. /\ i.user \in Users /\ i.number \in 0..MaxInvites
          /\ member[i.user].id \in 0..MaxInvites
      BY DEF TeamTyped, Team!TypeOK, Team!Members
    <3>2. Team!Idle \in TeamRequests
      BY DEF Team!Idle, TeamRequests
    <3> QED
      BY <3>1, <3>2 DEF TeamRequests
  <2>4. request' = [request EXCEPT ![r] = q]
    BY <2>2
  <2> HIDE DEF q
  <2>5. TeamTyped'
    BY <2>1, <2>3, <2>4 DEF TeamTyped, Team!TypeOK
  <2>6. request[r].pc = "idle"
    BY DEF Team!OpenInvite
  <2>7. TeamHolding'
    BY <2>1, <2>3, <2>4, <2>6 DEF TeamHolding, TeamTyped
  <2>8. TeamPermitted'
    BY <2>1, <2>3, <2>4, PermittedStays DEF TeamTyped
  <2>9. Team!OwnerRemains' /\ NewestOnRow'
    BY <2>1 DEF Team!OwnerRemains, Team!Is, NewestOnRow
  <2> QED
    BY <2>5, <2>7, <2>8, <2>9
<1>3. ASSUME NEW r \in Requests, Team!LockTeam(r)
      PROVE  TeamIInv'
  <2> USE <1>3
  <2>1. member' = member /\ invites' = invites
    BY DEF Team!LockTeam
  <2>2. Team!OwnerRemains' /\ NewestOnRow'
    BY <2>1 DEF Team!OwnerRemains, Team!Is, NewestOnRow
  <2>3. CASE Team!Permitted(request[r])
    <3>1. lock' = r /\ lock = Free /\ request' = [request EXCEPT ![r].pc = "writing"]
            /\ request[r].pc = "authorised"
      BY <2>3 DEF Team!LockTeam, Team!LockIsFree
    <3>2. TeamTyped'
      BY <2>1, <3>1 DEF TeamTyped, Team!TypeOK, TeamRequests
    <3>3. TeamHolding'
      BY <3>1 DEF TeamHolding, TeamTyped, TeamRequests
    <3>4. ASSUME NEW x \in Requests, request'[x].pc = "writing"
          PROVE  Team!Permitted(request[x])'
      <4>1. x = r
        BY <3>1, <3>4 DEF TeamHolding, TeamTyped, TeamRequests
      <4>2. /\ request'[r].op = request[r].op /\ request'[r].actor = request[r].actor
            /\ request'[r].target = request[r].target /\ request'[r].role = request[r].role
            /\ request'[r].actorId = request[r].actorId
            /\ request'[r].targetId = request[r].targetId
            /\ request'[r].invite = request[r].invite
        BY <3>1 DEF TeamTyped, TeamRequests
      <4>3. request[r].op \in {"invite", "change", "revoke", "assign", "accept"}
        BY <3>1 DEF TeamTyped, TeamRequests
      <4> QED
        BY <2>1, <2>3, <4>1, <4>2, <4>3 DEF Team!Permitted, Team!SameActor, Team!SameTarget,
           Team!MayManage, Team!Is, Team!SameInvite, Team!WouldOrphan, Team!Manages
    <3> QED
      BY <2>2, <3>2, <3>3, <3>4 DEF TeamPermitted
  <2>4. CASE ~Team!Permitted(request[r])
    <3>1. Team!End(r) /\ lock' = lock
      BY <2>4 DEF Team!LockTeam, Team!LockIsFree, Team!End
    <3> QED
      BY <2>1, <2>2, <3>1, TeamEnds, PermittedStays DEF TeamTyped, Team!TypeOK
  <2> QED
    BY <2>3, <2>4
<1>4. ASSUME NEW r \in Requests, Team!CommitTeam(r)
      PROVE  TeamIInv'
  <2> USE <1>4
  <2> DEFINE q == request[r]
  <2>1. /\ q.pc = "writing" /\ q \in TeamRequests /\ Team!Permitted(q)
        /\ q.op # "none"
        /\ q.op \in {"invite", "change"} => q.role # "none"
        /\ Team!End(r)
    BY DEF Team!CommitTeam, TeamPermitted, TeamTyped
  <2>2. TeamPermitted' /\ TeamHolding'
    BY <2>1, TeamEnds DEF TeamPermitted, TeamHolding
  <2>3. /\ request' \in [Requests -> TeamRequests] /\ lock' \in Requests \cup {Free}
        /\ \A x \in Requests :
              /\ request'[x].op \in {"invite", "change"} => request'[x].role # "none"
              /\ request'[x].op = "none" => request'[x].pc = "idle"
    BY <2>1, TeamEnds
  <2>4. member \in [Users -> Team!Members] /\ q.target \in Users
    BY <2>1 DEF TeamTyped, Team!TypeOK, TeamRequests
  <2>5. CASE q.op = "invite"
    <3> DEFINE n == Team!Number
    <3>1. /\ member' = [member EXCEPT ![q.target] = Team!Written(q, n)]
          /\ invites' = invites \cup {[user |-> q.target, number |-> n]}
          /\ Team!NextInvite # {}
      BY <2>5 DEF Team!CommitTeam
    <3>2. n \in 1..MaxInvites /\ \A i \in invites : i.number < n
      BY <3>1, NextNumber
    <3> HIDE DEF n
    <3>3. n \in 0..MaxInvites
      BY <3>2
    <3>4. Team!Written(q, n) \in Team!Members /\ Team!OwnerRemains'
      BY <2>1, <3>1, <3>3, TeamWrites
    <3>5. Team!Written(q, n).invite = n
      BY <2>4, <2>5 DEF Team!Written, Team!Invited, Team!Members
    <3>6. member' \in [Users -> Team!Members]
      BY <2>4, <3>1, <3>4
    <3>7. [user |-> q.target, number |-> n] \in [user : Users, number : 1..MaxInvites]
      BY <2>4, <3>2
    <3>8. TeamTyped'
      BY <2>3, <3>1, <3>6, <3>7 DEF TeamTyped, Team!TypeOK
    <3>9. NewestOnRow'
      <4> SUFFICES ASSUME NEW i \in invites', member'[i.user].role # "none"
                   PROVE  i.number <= member'[i.user].invite
        BY DEF NewestOnRow
      <4>1. CASE i \in invites /\ i.user # q.target
        BY <2>4, <3>1, <4>1 DEF NewestOnRow, TeamTyped, Team!TypeOK
      <4>2. CASE i \in invites /\ i.user = q.target
        BY <2>4, <3>1, <3>2, <3>5, <4>2 DEF TeamTyped, Team!TypeOK
      <4>3. CASE i = [user |-> q.target, number |-> n]
        BY <2>4, <3>1, <3>2, <3>5, <4>3
      <4> QED
        BY <3>1, <4>1, <4>2, <4>3
    <3> QED
      BY <2>2, <3>4, <3>8, <3>9
  <2>6. CASE q.op # "invite"
    <3>1. member' = [member EXCEPT ![q.target] = Team!Written(q, 0)] /\ invites' = invites
      BY <2>6 DEF Team!CommitTeam
    <3>2. Team!Written(q, 0) \in Team!Members /\ Team!OwnerRemains'
      <4>1. 0 \in 0..MaxInvites
        OBVIOUS
      <4> QED
        BY <2>1, <3>1, <4>1, TeamWrites
    <3>3. Team!Written(q, 0).role # "none" =>
            /\ member[q.target].role # "none"
            /\ Team!Written(q, 0).invite = member[q.target].invite
      <4> DEFINE m == member[q.target]
      <4>1. m \in Team!Members
        BY <2>4
      <4>2. m.role # "none" \/ q.op = "revoke"
        BY <2>1, <2>6 DEF TeamRequests, Team!Permitted, Team!SameTarget
      <4> HIDE DEF m
      <4>3. Team!RoleChanged(m, q.role).invite = m.invite /\ [m EXCEPT !.locations = q.locations].invite = m.invite
            /\ [m EXCEPT !.accepted = TRUE].invite = m.invite /\ Team!NoMember.role = "none"
        BY <4>1 DEF Team!RoleChanged, Team!Members, Team!NoMember
      <4>4. \/ q.op = "revoke" /\ Team!Written(q, 0) = Team!NoMember
            \/ q.op # "revoke" /\ Team!Written(q, 0).invite = m.invite
        BY <2>1, <2>6, <4>3 DEF m, Team!Written, TeamRequests
      <4> QED
        BY <4>2, <4>3, <4>4 DEF m
    <3>4. TeamTyped'
      BY <2>3, <2>4, <3>1, <3>2 DEF TeamTyped, Team!TypeOK
    <3>5. NewestOnRow'
      BY <2>4, <3>1, <3>3 DEF NewestOnRow, TeamTyped, Team!TypeOK
    <3> QED
      BY <2>2, <3>2, <3>4, <3>5
  <2> QED
    BY <2>5, <2>6
<1>5. ASSUME NEW r \in Requests, Team!RequestFails(r)
      PROVE  TeamIInv'
  <2>1. member' = member /\ invites' = invites /\ Team!End(r)
    BY <1>5 DEF Team!RequestFails
  <2>2. Team!OwnerRemains' /\ NewestOnRow'
    BY <2>1 DEF Team!OwnerRemains, Team!Is, NewestOnRow
  <2> QED
    BY <2>1, <2>2, TeamEnds, PermittedStays DEF TeamTyped, Team!TypeOK
<1>6. CASE UNCHANGED Team!vars
  <2>1. member' = member /\ invites' = invites /\ lock' = lock /\ request' = request
    BY <1>6 DEF Team!vars
  <2>2. TeamTyped' /\ TeamHolding' /\ NewestOnRow' /\ Team!OwnerRemains'
    BY <2>1 DEF TeamTyped, Team!TypeOK, TeamHolding, NewestOnRow, Team!OwnerRemains, Team!Is
  <2>3. TeamPermitted'
    BY <2>1, PermittedStays
  <2> QED
    BY <2>2, <2>3
<1> QED
  BY <1>1, <1>2, <1>3, <1>4, <1>5, <1>6 DEF Team!Next

\* TeamIInv implies TeamInv.
LEMMA TeamSuffices ==
  ASSUME Team!TeamAssumption, TeamIInv
  PROVE  Team!TeamInv
<1> USE DEF TeamIInv
<1>1. Team!OnlyOwnersTouchOwners
  BY DEF TeamTyped, TeamRequests, TeamPermitted, Team!Permitted, Team!MayManage,
     Team!OnlyOwnersTouchOwners, Team!TouchesOwner
<1>2. Team!AcceptsNewest
  BY DEF TeamPermitted, Team!Permitted, Team!SameTarget, Team!SameInvite, NewestOnRow,
     Team!AcceptsNewest
<1> QED
  BY <1>1, <1>2 DEF TeamTyped, Team!TeamInv

\* For any users, requests and locations the parts of TeamInv hold: an owner
\* remains, only owners touch owners, and an invitation is accepted by its newest
\* token (change_team_member_role, revoke_team_member, accept_invite).
THEOREM TeamCorrect ==
  ASSUME Team!TeamAssumption
  PROVE  Team!Spec => []Team!TeamInv
<1>1. Team!Init => TeamIInv
  BY TeamStarts
<1>2. TeamIInv /\ [Team!Next]_(Team!vars) => TeamIInv'
  BY TeamStep
<1>3. TeamIInv => Team!TeamInv
  BY TeamSuffices
<1> QED
  BY <1>1, <1>2, <1>3, PTL DEF Team!Spec

\* In Components, whose behaviours run one component each, every state keeps
\* TeamInv, the invariant that the run checks: the same promise of
\* change_team_member_role, revoke_team_member, accept_invite.
THEOREM TeamHolds == Spec => []TeamInv
<1> DEFINE Held == focus = "team" => TeamIInv
<1>1. Team!TeamAssumption
  BY ComponentsAssumption DEF ComponentsAssumption
<1>2. Init => Held
  BY <1>1, TeamStarts DEF Init
<1>3. Held /\ [Next]_allVars => Held'
  <2> SUFFICES ASSUME Held, [Next]_allVars, focus' = "team" PROVE TeamIInv'
    OBVIOUS
  <2>1. focus = "team" /\ [Team!Next]_(Team!vars)
    BY DEF Next, allVars, Team!vars
  <2> QED
    BY <1>1, <2>1, TeamStep
<1>4. Held => TeamInv
  BY <1>1, TeamSuffices DEF TeamInv
<1> QED
  BY <1>2, <1>3, <1>4, PTL DEF Spec

-----------------------------------------------------------------------------
(* Totp *)

CodeOps == {"confirm", "login", "staffLogin", "disable"}

TotpRequests == [pc : {"idle", "submitted", "locked"}, op : {"none", "begin"} \cup CodeOps,
                 code : Totp!Codes \cup {Totp!NoCode}, seen : Totp!UserRows]

TotpTyped ==
  /\ Totp!TypeOK
  /\ request \in [Requests -> TotpRequests]
  /\ \A r \in Requests : request[r].op \in CodeOps => request[r].code \in Totp!Codes
  /\ user.secret <= secrets

\* The request that decides is the one that holds the User row, and what it read
\* there is still so.
TotpHolding == \A r \in Requests : request[r].pc = "locked" <=> lock = r

SeenIsCurrent == \A r \in Requests : request[r].pc = "locked" => request[r].seen = user

\* A code that was accepted is spent for good: of an enrolment that is over, at
\* a step the row remembers, or no longer among its recovery codes.
SpentForGood ==
  \A c \in Totp!Codes : used[c] # 0 =>
    /\ used[c] = 1
    /\ c.secret <= secrets
    /\ c.kind = "totp" /\ c.secret = user.secret => c.step <= user.lastUsed
    /\ c.kind = "recovery" /\ c.secret = user.secret => user.confirmed

TotpIInv == /\ TotpTyped /\ TotpHolding /\ SeenIsCurrent /\ SpentForGood
            /\ Totp!CodesAreCurrent /\ Totp!LoginIsMembers

\* Init establishes it.
LEMMA TotpStarts ==
  ASSUME Totp!TotpAssumption, Totp!Init
  PROVE  TotpIInv
<1> USE DEF Totp!TotpAssumption, Totp!Init
<1>1. Totp!NotEnrolled \in Totp!UserRows /\ Totp!NotEnrolled.secret = 0
  BY DEF Totp!NotEnrolled, Totp!UserRows
<1>2. Totp!Idle \in TotpRequests /\ Totp!Idle.op = "none" /\ Totp!Idle.pc = "idle"
  BY <1>1 DEF Totp!Idle, TotpRequests
<1>3. TotpTyped
  BY <1>1, <1>2 DEF TotpTyped, Totp!TypeOK, CodeOps
<1>4. TotpHolding /\ SeenIsCurrent /\ Totp!LoginIsMembers
  BY <1>2 DEF TotpHolding, SeenIsCurrent, Totp!LoginIsMembers
<1>5. Totp!CodesAreCurrent
  BY DEF Totp!CodesAreCurrent, Totp!NotEnrolled
<1>6. SpentForGood
  BY DEF SpentForGood
<1> QED
  BY <1>3, <1>4, <1>5, <1>6 DEF TotpIInv

\* A request ends: it lets the lock go and is forgotten.
LEMMA TotpEnds ==
  ASSUME Totp!TotpAssumption, TotpIInv, NEW r \in Requests, Totp!End(r)
  PROVE  /\ request' \in [Requests -> TotpRequests]
         /\ \A x \in Requests : request'[x].op \in CodeOps => request'[x].code \in Totp!Codes
         /\ lock' \in Requests \cup {Free}
         /\ TotpHolding'
         /\ \A x \in Requests : request'[x].pc = "locked" =>
              /\ request'[x] = request[x]
              /\ request[r].pc # "locked"
<1> USE DEF Totp!TotpAssumption, Totp!End, TotpIInv, TotpTyped
<1>1. Totp!NotEnrolled \in Totp!UserRows
  BY DEF Totp!NotEnrolled, Totp!UserRows
<1>2. Totp!Idle \in TotpRequests /\ Totp!Idle.op = "none" /\ Totp!Idle.pc = "idle"
  BY <1>1 DEF Totp!Idle, TotpRequests
<1>3. request' \in [Requests -> TotpRequests]
  BY <1>2
<1>4. \A x \in Requests : request'[x].op \in CodeOps => request'[x].code \in Totp!Codes
  BY <1>2 DEF CodeOps
<1>5. lock' \in Requests \cup {Free}
  BY DEF Totp!TypeOK
<1>6. TotpHolding'
  BY <1>2 DEF TotpHolding
<1>7. \A x \in Requests : request'[x].pc = "locked" =>
              request'[x] = request[x] /\ request[r].pc # "locked"
  BY <1>2, <1>6 DEF TotpHolding
<1> QED
  BY <1>3, <1>4, <1>5, <1>6, <1>7

\* A code that the row lets pass has not been accepted before.
LEMMA PassesUnspent ==
  ASSUME Totp!TotpAssumption, TotpIInv, NEW c \in Totp!Codes, Totp!FactorPasses(user, c)
  PROVE  /\ used[c] = 0
         /\ c.secret = user.secret
         /\ c.kind = "totp" => c.step \in 1..MaxStep /\ c.step > user.lastUsed
         /\ c.kind = "totp" \/ c \in user.codes
<1> USE DEF TotpIInv
<1>1. CASE c.kind = "totp" /\ Totp!TotpPasses(user, c)
  BY <1>1 DEF Totp!TotpPasses, Totp!StepIsNew, SpentForGood, TotpTyped, Totp!TypeOK,
     Totp!UserRows, Totp!Codes, Totp!TotpCodes, Totp!RecoveryCodes
<1>2. CASE c \in user.codes
  BY <1>2 DEF Totp!CodesAreCurrent, TotpTyped, Totp!TypeOK, Totp!UserRows, Totp!RecoveryCodes
<1> QED
  BY <1>1, <1>2 DEF Totp!FactorPasses, Totp!TotpPasses

\* Each step keeps the invariant.
LEMMA TotpStep ==
  ASSUME Totp!TotpAssumption, TotpIInv, [Totp!Next]_(Totp!vars)
  PROVE  TotpIInv'
<1> USE DEF Totp!TotpAssumption, TotpIInv
<1> DEFINE Rows == /\ user' = user /\ secrets' = secrets /\ used' = used
<1>1. ASSUME Rows PROVE SpentForGood' /\ Totp!CodesAreCurrent'
  BY <1>1 DEF SpentForGood, Totp!CodesAreCurrent
<1>2. ASSUME NEW r \in Requests, NEW op \in CodeOps \cup {"begin"},
             NEW c \in Totp!Codes \cup {Totp!NoCode}, Totp!Submit(r, op, c),
             op \in CodeOps => c \in Totp!Codes
      PROVE  TotpIInv'
  <2>1. /\ Rows /\ member' = member /\ now' = now /\ lock' = lock /\ request[r].pc = "idle"
        /\ request' = [request EXCEPT ![r] =
             [Totp!Idle EXCEPT !.pc = "submitted", !.op = op, !.code = c]]
    BY <1>2 DEF Totp!Submit
  <2> DEFINE q == [Totp!Idle EXCEPT !.pc = "submitted", !.op = op, !.code = c]
  <2>2. q \in TotpRequests /\ q.pc = "submitted" /\ q.op = op /\ q.code = c
    <3>1. Totp!NotEnrolled \in Totp!UserRows
      BY DEF Totp!NotEnrolled, Totp!UserRows
    <3>2. Totp!Idle \in TotpRequests
      BY <3>1 DEF Totp!Idle, TotpRequests
    <3> QED
      BY <3>2 DEF TotpRequests
  <2>3. request' = [request EXCEPT ![r] = q]
    BY <2>1
  <2> HIDE DEF q
  <2>4. TotpTyped'
    BY <1>2, <2>1, <2>2, <2>3 DEF TotpTyped, Totp!TypeOK
  <2>5. TotpHolding' /\ SeenIsCurrent' /\ Totp!LoginIsMembers'
    BY <2>1, <2>2, <2>3 DEF TotpHolding, SeenIsCurrent, Totp!LoginIsMembers, TotpTyped
  <2> QED
    BY <1>1, <2>1, <2>4, <2>5
<1>3. ASSUME NEW r \in Requests, Totp!LockUser(r)
      PROVE  TotpIInv'
  <2>1. Rows /\ member' = member /\ now' = now /\ lock = Free /\ request[r].pc = "submitted"
    BY <1>3 DEF Totp!LockUser, Totp!LockIsFree
  <2>2. CASE Totp!Admitted(r)
    <3>1. lock' = r /\ request' = [request EXCEPT ![r] = [@ EXCEPT !.pc = "locked", !.seen = user]]
      BY <1>3, <2>2 DEF Totp!LockUser
    <3>2. request[r] \in TotpRequests /\ user \in Totp!UserRows
      BY DEF TotpTyped, Totp!TypeOK
    <3> DEFINE q == [request[r] EXCEPT !.pc = "locked", !.seen = user]
    <3>3. /\ q \in TotpRequests /\ q.pc = "locked" /\ q.seen = user /\ q.op = request[r].op
          /\ q.code = request[r].code
      BY <3>2 DEF TotpRequests
    <3>4. request' = [request EXCEPT ![r] = q]
      BY <3>1
    <3> HIDE DEF q
    <3>5. TotpTyped'
      BY <2>1, <3>1, <3>3, <3>4 DEF TotpTyped, Totp!TypeOK
    <3>6. TotpHolding' /\ SeenIsCurrent'
      BY <2>1, <3>1, <3>3, <3>4 DEF TotpHolding, SeenIsCurrent, TotpTyped
    <3>7. Totp!LoginIsMembers'
      BY <2>1, <2>2, <3>3, <3>4 DEF Totp!LoginIsMembers, Totp!Admitted, TotpTyped
    <3> QED
      BY <1>1, <2>1, <3>5, <3>6, <3>7
  <2>3. CASE ~Totp!Admitted(r)
    <3>1. Totp!End(r)
      BY <1>3, <2>3 DEF Totp!LockUser
    <3> QED
      BY <1>1, <2>1, <3>1, TotpEnds DEF TotpTyped, Totp!TypeOK, SeenIsCurrent, Totp!LoginIsMembers
  <2> QED
    BY <2>2, <2>3
<1>4. ASSUME NEW r \in Requests, Totp!RequestFails(r)
      PROVE  TotpIInv'
  <2>1. Rows /\ member' = member /\ now' = now /\ Totp!End(r)
    BY <1>4 DEF Totp!RequestFails
  <2> QED
    BY <1>1, <2>1, TotpEnds DEF TotpTyped, Totp!TypeOK, SeenIsCurrent, Totp!LoginIsMembers
<1>5. CASE Totp!Revoke
  <2>1. Rows /\ request' = request /\ now' = now /\ lock' = lock /\ member' = FALSE
    BY <1>5 DEF Totp!Revoke
  <2>2. TotpTyped' /\ TotpHolding' /\ SeenIsCurrent'
    BY <2>1 DEF TotpTyped, Totp!TypeOK, TotpHolding, SeenIsCurrent
  <2>3. Totp!LoginIsMembers'
    BY <1>5, <2>1 DEF Totp!Revoke, Totp!LoginIsMembers
  <2> QED
    BY <1>1, <2>1, <2>2, <2>3
<1>6. CASE Totp!Tick
  <2>1. Rows /\ member' = member /\ request' = request /\ lock' = lock /\ now < MaxStep /\ now' = now + 1
    BY <1>6 DEF Totp!Tick
  <2>2. TotpTyped'
    BY <2>1 DEF TotpTyped, Totp!TypeOK
  <2>3. TotpHolding' /\ SeenIsCurrent' /\ Totp!LoginIsMembers'
    BY <2>1 DEF TotpHolding, SeenIsCurrent, Totp!LoginIsMembers
  <2> QED
    BY <1>1, <2>1, <2>2, <2>3
<1>7. CASE UNCHANGED Totp!vars
  <2>1. Rows /\ member' = member /\ request' = request /\ lock' = lock /\ now' = now
    BY <1>7 DEF Totp!vars
  <2>2. TotpTyped'
    BY <2>1 DEF TotpTyped, Totp!TypeOK
  <2>3. TotpHolding' /\ SeenIsCurrent' /\ Totp!LoginIsMembers'
    BY <2>1 DEF TotpHolding, SeenIsCurrent, Totp!LoginIsMembers
  <2> QED
    BY <1>1, <2>1, <2>2, <2>3
\* The four that write the row.
<1>8. ASSUME NEW r \in Requests, request[r].pc = "locked", Totp!End(r), member' = member,
             now' = now, user' \in Totp!UserRows, secrets' \in 0..MaxSecrets,
             user'.secret <= secrets', used' \in [Totp!Codes -> Nat], SpentForGood',
             Totp!CodesAreCurrent'
      PROVE  TotpIInv'
  <2>1. /\ request' \in [Requests -> TotpRequests]
        /\ \A x \in Requests : request'[x].op \in CodeOps => request'[x].code \in Totp!Codes
        /\ lock' \in Requests \cup {Free}
        /\ TotpHolding'
        /\ \A x \in Requests : request'[x].pc # "locked"
    BY <1>8, TotpEnds
  <2>2. TotpTyped'
    BY <1>8, <2>1 DEF TotpTyped, Totp!TypeOK
  <2>3. SeenIsCurrent' /\ Totp!LoginIsMembers'
    BY <2>1 DEF SeenIsCurrent, Totp!LoginIsMembers
  <2> QED
    BY <1>8, <2>1, <2>2, <2>3
<1>9. \A r \in Requests : request[r].pc = "locked" =>
        /\ request[r].seen = user
        /\ request[r].op \in CodeOps => request[r].code \in Totp!Codes
  BY DEF SeenIsCurrent, TotpTyped
<1>10. ASSUME NEW r \in Requests, Totp!BeginSetup(r)
       PROVE  TotpIInv'
  <2>1. /\ request[r].pc = "locked" /\ Totp!End(r) /\ member' = member /\ now' = now
        /\ used' = used /\ ~user.confirmed /\ secrets < MaxSecrets /\ secrets' = secrets + 1
        /\ user' = [user EXCEPT !.secret = secrets + 1]
    BY <1>9, <1>10 DEF Totp!BeginSetup
  <2>2. user \in Totp!UserRows /\ secrets \in 0..MaxSecrets
    BY DEF TotpTyped, Totp!TypeOK
  <2>3. /\ user' \in Totp!UserRows /\ user'.secret = secrets + 1 /\ user'.codes = user.codes
        /\ user'.confirmed = user.confirmed
    BY <2>1, <2>2 DEF Totp!UserRows
  <2>4. secrets' \in 0..MaxSecrets /\ user'.secret <= secrets'
    BY <2>1, <2>2, <2>3
  <2>5. SpentForGood'
    BY <2>1, <2>2, <2>3 DEF SpentForGood, Totp!Codes, Totp!TotpCodes, Totp!RecoveryCodes, Totp!Secrets
  <2>6. Totp!CodesAreCurrent'
    BY <2>1, <2>3 DEF Totp!CodesAreCurrent
  <2> QED
    BY <1>8, <2>1, <2>3, <2>4, <2>5, <2>6 DEF TotpTyped, Totp!TypeOK
<1>11. ASSUME NEW r \in Requests, Totp!ConfirmSetup(r)
       PROVE  TotpIInv'
  <2> DEFINE c == request[r].code
  <2>1. /\ request[r].pc = "locked" /\ Totp!End(r) /\ member' = member /\ now' = now
        /\ secrets' = secrets /\ ~user.confirmed /\ user.secret # 0 /\ Totp!TotpPasses(user, c)
        /\ user' = Totp!Enrolled(user, c) /\ c \in Totp!Codes /\ used' = [used EXCEPT ![c] = @ + 1]
    BY <1>9, <1>11 DEF Totp!ConfirmSetup, CodeOps, Totp!Accept
  <2> HIDE DEF c
  <2>2. used[c] = 0 /\ c.secret = user.secret /\ c.kind = "totp" /\ c.step \in 1..MaxStep
    BY <2>1, PassesUnspent DEF Totp!FactorPasses, Totp!TotpPasses
  <2>3. user \in Totp!UserRows /\ used \in [Totp!Codes -> Nat] /\ secrets \in 0..MaxSecrets
          /\ user.secret <= secrets
    BY DEF TotpTyped, Totp!TypeOK
  <2>4. /\ user' \in Totp!UserRows /\ user'.secret = user.secret /\ user'.confirmed
        /\ user'.lastUsed = c.step /\ c.step > user.lastUsed
        /\ user'.codes = {k \in Totp!RecoveryCodes : k.secret = user.secret}
    <3> DEFINE K == {k \in Totp!RecoveryCodes : k.secret = user.secret}
    <3>1. /\ user' = [user EXCEPT !.confirmed = TRUE, !.lastUsed = c.step, !.codes = K]
          /\ K \in SUBSET Totp!RecoveryCodes
      BY <2>1 DEF Totp!Enrolled
    <3>2. c.step > user.lastUsed
      BY <2>1 DEF Totp!TotpPasses, Totp!StepIsNew
    <3> HIDE DEF K
    <3>3. user'.secret = user.secret /\ user'.lastUsed = c.step /\ user'.codes = K
      BY <2>3, <3>1 DEF Totp!UserRows
    <3>4. user'.confirmed
      BY <2>3, <3>1 DEF Totp!UserRows
    <3>5. user' \in Totp!UserRows
      <4>1. ASSUME NEW u \in Totp!UserRows, NEW n \in 0..MaxStep
            PROVE  [u EXCEPT !.confirmed = TRUE, !.lastUsed = n, !.codes = K] \in Totp!UserRows
        BY <3>1 DEF Totp!UserRows
      <4>2. c.step \in 0..MaxStep
        BY <2>2
      <4> QED
        BY <2>3, <3>1, <4>1, <4>2
    <3> QED
      BY <3>2, <3>3, <3>4, <3>5 DEF K
  <2>5. SpentForGood'
    BY <2>1, <2>2, <2>3, <2>4 DEF SpentForGood, Totp!Codes, Totp!TotpCodes, Totp!RecoveryCodes,
       Totp!UserRows
  <2>6. Totp!CodesAreCurrent'
    <3>1. ASSUME NEW k \in Totp!RecoveryCodes, k.secret = user.secret
          PROVE  used'[k] = 0
      <4>1. k \in Totp!Codes /\ k # c
        BY <2>2 DEF Totp!Codes, Totp!RecoveryCodes
      <4>2. used[k] = 0
        BY <2>1, <3>1, <4>1 DEF SpentForGood, Totp!RecoveryCodes
      <4> QED
        BY <2>1, <2>3, <4>1, <4>2
    <3> QED
      BY <2>4, <3>1 DEF Totp!CodesAreCurrent
  <2> QED
    BY <1>8, <2>1, <2>3, <2>4, <2>5, <2>6
<1>12. ASSUME NEW r \in Requests, Totp!VerifyLogin(r)
       PROVE  TotpIInv'
  <2> DEFINE c == request[r].code
  <2>1. /\ request[r].pc = "locked" /\ Totp!End(r) /\ member' = member /\ now' = now
        /\ secrets' = secrets /\ user.confirmed /\ Totp!FactorPasses(user, c)
        /\ user' = Totp!Consumed(user, c) /\ c \in Totp!Codes /\ used' = [used EXCEPT ![c] = @ + 1]
    BY <1>9, <1>12 DEF Totp!VerifyLogin, CodeOps, Totp!Accept
  <2> HIDE DEF c
  <2>2. /\ used[c] = 0 /\ c.secret = user.secret
        /\ c.kind = "totp" => c.step \in 1..MaxStep /\ c.step > user.lastUsed
        /\ c.kind = "totp" \/ c \in user.codes
    BY <2>1, PassesUnspent
  <2>3. /\ user \in Totp!UserRows /\ used \in [Totp!Codes -> Nat] /\ secrets \in 0..MaxSecrets
        /\ user.secret <= secrets
    BY DEF TotpTyped, Totp!TypeOK
  <2>4. /\ user' \in Totp!UserRows /\ user'.secret = user.secret /\ user'.confirmed
        /\ c.kind = "totp" => user'.lastUsed = c.step /\ user'.codes = user.codes
        /\ c.kind # "totp" => user'.lastUsed = user.lastUsed /\ user'.codes = user.codes \ {c}
    BY <2>1, <2>2, <2>3 DEF Totp!Consumed, Totp!UserRows
  <2>5. SpentForGood'
    BY <2>1, <2>2, <2>3, <2>4 DEF SpentForGood, Totp!Codes, Totp!TotpCodes, Totp!RecoveryCodes,
       Totp!UserRows
  <2>6. Totp!CodesAreCurrent'
    <3>1. \A k \in user'.codes : k \in user.codes /\ k # c /\ k \in Totp!Codes
      BY <2>2, <2>3, <2>4 DEF Totp!UserRows, Totp!RecoveryCodes, Totp!Codes
    <3> QED
      BY <2>1, <2>3, <2>4, <3>1 DEF Totp!CodesAreCurrent
  <2> QED
    BY <1>8, <2>1, <2>3, <2>4, <2>5, <2>6
<1>13. ASSUME NEW r \in Requests, Totp!Disable(r)
       PROVE  TotpIInv'
  <2> DEFINE c == request[r].code
  <2>1. /\ request[r].pc = "locked" /\ Totp!End(r) /\ member' = member /\ now' = now
        /\ secrets' = secrets /\ Totp!FactorPasses(user, c)
        /\ user' = Totp!NotEnrolled /\ c \in Totp!Codes /\ used' = [used EXCEPT ![c] = @ + 1]
    BY <1>9, <1>13 DEF Totp!Disable, CodeOps, Totp!Accept
  <2> HIDE DEF c
  <2>2. used[c] = 0 /\ c.secret = user.secret
    BY <2>1, PassesUnspent
  <2>3. /\ user \in Totp!UserRows /\ used \in [Totp!Codes -> Nat] /\ secrets \in 0..MaxSecrets
        /\ user.secret <= secrets
    BY DEF TotpTyped, Totp!TypeOK
  <2>4. user' \in Totp!UserRows /\ user'.secret = 0 /\ user'.codes = {}
    BY <2>1 DEF Totp!NotEnrolled, Totp!UserRows
  <2>5. SpentForGood'
    BY <2>1, <2>2, <2>3, <2>4 DEF SpentForGood, Totp!Codes, Totp!TotpCodes, Totp!RecoveryCodes,
       Totp!UserRows, Totp!Secrets
  <2>6. Totp!CodesAreCurrent'
    BY <2>4 DEF Totp!CodesAreCurrent
  <2> QED
    BY <1>8, <2>1, <2>3, <2>4, <2>5, <2>6
<1>14. ASSUME NEW r \in Requests, Totp!Operate(r)
       PROVE  TotpIInv'
  BY <1>2, <1>3, <1>4, <1>10, <1>11, <1>12, <1>13, <1>14 DEF Totp!Operate, CodeOps
<1> QED
  BY <1>5, <1>6, <1>7, <1>14 DEF Totp!Next

\* TotpIInv implies TotpInv.
LEMMA TotpSuffices ==
  ASSUME Totp!TotpAssumption, TotpIInv
  PROVE  Totp!TotpInv
  BY DEF TotpIInv, TotpTyped, Totp!TypeOK, SpentForGood, Totp!TotpInv, Totp!EachCodeOnce

\* For any requests, clock and enrolments no code is accepted twice, no recovery
\* code outlives its use or its enrolment, and a second factor is verified for a
\* member only (_verify_totp, _consume_recovery_code, complete_totp_login).
THEOREM TotpCorrect ==
  ASSUME Totp!TotpAssumption
  PROVE  Totp!Spec => []Totp!TotpInv
<1>1. Totp!Init => TotpIInv
  BY TotpStarts
<1>2. TotpIInv /\ [Totp!Next]_(Totp!vars) => TotpIInv'
  BY TotpStep
<1>3. TotpIInv => Totp!TotpInv
  BY TotpSuffices
<1> QED
  BY <1>1, <1>2, <1>3, PTL DEF Totp!Spec

\* In Components, whose behaviours run one component each, every state keeps
\* TotpInv, the invariant that the run checks: the same promise of _verify_totp,
\* _consume_recovery_code, complete_totp_login.
THEOREM TotpHolds == Spec => []TotpInv
<1> DEFINE Held == focus = "totp" => TotpIInv
<1>1. Totp!TotpAssumption
  BY ComponentsAssumption DEF ComponentsAssumption
<1>2. Init => Held
  BY <1>1, TotpStarts DEF Init
<1>3. Held /\ [Next]_allVars => Held'
  <2> SUFFICES ASSUME Held, [Next]_allVars, focus' = "totp" PROVE TotpIInv'
    OBVIOUS
  <2>1. focus = "totp" /\ [Totp!Next]_(Totp!vars)
    BY DEF Next, allVars, Totp!vars
  <2> QED
    BY <1>1, <2>1, TotpStep
<1>4. Held => TotpInv
  BY <1>1, TotpSuffices DEF TotpInv
<1> QED
  BY <1>2, <1>3, <1>4, PTL DEF Spec

=============================================================================
