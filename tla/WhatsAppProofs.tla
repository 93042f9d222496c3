--------------------------- MODULE WhatsAppProofs ---------------------------
(***************************************************************************)
(* What the WhatsApp components promise, for any number of accounts,        *)
(* locations, templates, merchants, requests and workers: WhatsAppSenders,  *)
(* MessageTemplates and OptOut.                                            *)
(*                                                                         *)
(* Of the senders, the locks carry the argument: a request that maps a      *)
(* number of the merchant's holds its row from the check to the commit, and *)
(* so does the disconnect.  Of the templates, what makes an answer true     *)
(* for good: Meta never forgets a template, reviews it once, and what it    *)
(* refuses for its content it never comes to hold.  Of STOP, that a fan-out *)
(* under way knows every merchant its message is still to reach.            *)
(***************************************************************************)
EXTENDS Components, FiniteSets, TLAPS

\* The variables of WhatsAppSenders.
account == v1
mapping == v2
lock == v3
request == v4
activator == v5

\* The variables of MessageTemplates.
template == v1
queued == v2
acceptable == v3
meta == v4
submitter == v5
poller == v6

\* The variables of OptOut.
stops == v1
customers == v2
mapped == v3
webhook == v4
tasks == v5
worker == v6
optedOut == v7
reported == v8
deaths == v9

USE DEF account, mapping, lock, request, activator, template, queued, acceptable, meta,
        submitter, poller, stops, customers, mapped, webhook, tasks, worker, optedOut,
        reported, deaths


-----------------------------------------------------------------------------
(* WhatsAppSenders *)

HoldsAccount == {"locked", "inserting", "rereading", "repointing"}

SenderRequests ==
  {q \in [pc : HoldsAccount \cup {"idle", "checked", "disconnecting"},
          account : Senders!Accounts \cup {None}, location : Locations \cup {None}] :
     /\ q.pc \in HoldsAccount \cup {"checked"} => q.account \in Senders!Accounts /\ q.location \in Locations
     /\ q.pc = "disconnecting" => q.account \in OwnNumbers}

ActivatorStates ==
  {q \in [pc : {"idle", "subscribing", "refused", "subscribed"}, account : OwnNumbers \cup {None}] :
     q.pc # "idle" => q.account \in OwnNumbers}

SendersTyped ==
  /\ Senders!TypeOK
  /\ request \in [SenderCalls -> SenderRequests]
  /\ activator \in [Activators -> ActivatorStates]

\* A number that is being mapped or disconnected is locked by the request, and one
\* that is being mapped is still active.
HoldsItsNumber(r) ==
  /\ request[r].pc = "disconnecting" => lock[request[r].account] = r
  /\ request[r].pc \in HoldsAccount /\ request[r].account \in OwnNumbers =>
       lock[request[r].account] = r /\ Senders!Active(request[r].account)

NumbersHeld == \A r \in SenderCalls : HoldsItsNumber(r)

\* A number loses its token only as it is suspended.
TokenUntilSuspended == \A a \in OwnNumbers : account[a].status # "SUSPENDED" => account[a].token

SendersIInv == /\ SendersTyped /\ NumbersHeld /\ TokenUntilSuspended
               /\ Senders!MappedIsActive

\* Init establishes it.
LEMMA SendersStart ==
  ASSUME Senders!WhatsAppSendersAssumption, Senders!Init
  PROVE  SendersIInv
<1> USE DEF Senders!WhatsAppSendersAssumption, Senders!Init, Senders!Accounts, Senders!AccountRows
<1>1. Senders!Idle \in SenderRequests /\ Senders!Idle.pc = "idle"
  BY DEF Senders!Idle, SenderRequests, HoldsAccount
<1>2. Senders!IdleActivator \in ActivatorStates
  BY DEF Senders!IdleActivator, ActivatorStates
<1>3. SendersTyped
  BY <1>1, <1>2 DEF SendersTyped, Senders!TypeOK
<1>4. NumbersHeld /\ TokenUntilSuspended /\ Senders!MappedIsActive
  BY <1>1 DEF NumbersHeld, HoldsItsNumber, HoldsAccount, TokenUntilSuspended, Senders!MappedIsActive
<1> QED
  BY <1>3, <1>4 DEF SendersIInv

\* A step of one request leaves to the others what they hold.
LEMMA OthersHold ==
  ASSUME Senders!WhatsAppSendersAssumption, SendersIInv, NEW r \in SenderCalls,
         NEW q \in SenderRequests, request' = [request EXCEPT ![r] = q],
         lock' \in [OwnNumbers \cup Locations -> SenderCalls \cup {None}],
         \A row \in OwnNumbers \cup Locations :
           lock[row] \notin {r, None} => lock'[row] = lock[row],
         \A a \in OwnNumbers : Senders!Active(a) /\ lock[a] \notin {r, None} => Senders!Active(a)',
         HoldsItsNumber(r)'
  PROVE  request' \in [SenderCalls -> SenderRequests] /\ NumbersHeld'
<1> USE DEF SendersIInv
<1>1. request' \in [SenderCalls -> SenderRequests] /\ \A x \in SenderCalls \ {r} : request'[x] = request[x]
  BY DEF SendersTyped
<1>2. ASSUME NEW x \in SenderCalls \ {r} PROVE HoldsItsNumber(x)'
  BY <1>1, <1>2 DEF NumbersHeld, HoldsItsNumber, Senders!WhatsAppSendersAssumption,
     SendersTyped, SenderRequests
<1> QED
  BY <1>1, <1>2 DEF NumbersHeld

\* Its end leaves its own locks, and no others.
LEMMA RequestEnds ==
  ASSUME Senders!WhatsAppSendersAssumption, SendersIInv, NEW r \in SenderCalls, Senders!End(r),
         \A a \in OwnNumbers : Senders!Active(a) /\ lock[a] \notin {r, None} => Senders!Active(a)'
  PROVE  /\ request' \in [SenderCalls -> SenderRequests] /\ NumbersHeld'
         /\ lock' \in [OwnNumbers \cup Locations -> SenderCalls \cup {None}]
<1> USE DEF SendersIInv
<1>1. Senders!Idle \in SenderRequests /\ Senders!Idle.pc = "idle"
  BY DEF Senders!Idle, SenderRequests, HoldsAccount, Senders!WhatsAppSendersAssumption
<1>2. lock' \in [OwnNumbers \cup Locations -> SenderCalls \cup {None}]
        /\ \A row \in OwnNumbers \cup Locations : lock[row] \notin {r, None} => lock'[row] = lock[row]
  BY DEF Senders!End, Senders!Released, SendersTyped, Senders!TypeOK
<1>3. request' = [request EXCEPT ![r] = Senders!Idle]
  BY DEF Senders!End
<1>4. HoldsItsNumber(r)'
  BY <1>1, <1>3 DEF HoldsItsNumber, HoldsAccount, SendersTyped
<1> QED
  BY <1>1, <1>2, <1>3, <1>4, OthersHold

\* A request that changes neither accounts nor mappings.
LEMMA RequestMoves ==
  ASSUME Senders!WhatsAppSendersAssumption, SendersIInv, NEW r \in SenderCalls,
         \/ \E a \in Senders!Accounts, l \in Locations : Senders!CheckSender(r, a, l)
         \/ \E a \in OwnNumbers : Senders!LockNumber(r, a)
         \/ Senders!LockActiveAccount(r) \/ Senders!LockMapping(r)
         \/ Senders!MappedMeanwhile(r) \/ Senders!ReadWinner(r) \/ Senders!RequestFails(r)
  PROVE  SendersIInv'
<1> USE DEF SendersIInv, Senders!WhatsAppSendersAssumption
<1>1. UNCHANGED <<account, mapping, activator>>
  BY DEF Senders!CheckSender, Senders!LockNumber, Senders!LockActiveAccount, Senders!LockMapping,
     Senders!MappedMeanwhile, Senders!ReadWinner, Senders!RequestFails
<1>2. SUFFICES /\ request' \in [SenderCalls -> SenderRequests] /\ NumbersHeld'
               /\ lock' \in [OwnNumbers \cup Locations -> SenderCalls \cup {None}]
  BY <1>1 DEF SendersTyped, Senders!TypeOK, TokenUntilSuspended, Senders!MappedIsActive,
     Senders!Active
<1>3. /\ \A a : Senders!Active(a)' <=> Senders!Active(a)
      /\ lock \in [OwnNumbers \cup Locations -> SenderCalls \cup {None}]
      /\ request[r] \in SenderRequests /\ request \in [SenderCalls -> SenderRequests]
  BY <1>1 DEF Senders!Active, SendersTyped, Senders!TypeOK
<1>4. CASE Senders!End(r)
  BY <1>3, <1>4, RequestEnds
\* On with the account it has: a row is locked that was free.
<1>5. ASSUME NEW stage \in HoldsAccount, Senders!Goto(r, stage),
             request[r].pc \in HoldsAccount \cup {"checked"},
             NEW rows \in SUBSET (OwnNumbers \cup Locations), \A row \in rows : lock[row] = None,
             lock' = [row \in DOMAIN lock |-> IF row \in rows THEN r ELSE lock[row]],
             request[r].account \in OwnNumbers =>
               lock'[request[r].account] = r /\ Senders!Active(request[r].account)
      PROVE  /\ request' \in [SenderCalls -> SenderRequests] /\ NumbersHeld'
             /\ lock' \in [OwnNumbers \cup Locations -> SenderCalls \cup {None}]
  <2> DEFINE q == [request[r] EXCEPT !.pc = stage]
  <2>1. request' = [request EXCEPT ![r] = q]
    BY <1>3, <1>5 DEF Senders!Goto
  <2>2. q \in SenderRequests /\ q.pc = stage /\ q.account = request[r].account
    BY <1>3, <1>5 DEF SenderRequests, HoldsAccount
  <2> HIDE DEF q
  <2>3. /\ lock' \in [OwnNumbers \cup Locations -> SenderCalls \cup {None}]
        /\ \A row \in OwnNumbers \cup Locations : lock[row] \notin {r, None} => lock'[row] = lock[row]
    BY <1>3, <1>5
  <2>4. HoldsItsNumber(r)'
    BY <1>3, <1>5, <2>1, <2>2 DEF HoldsItsNumber, HoldsAccount
  <2> QED
    BY <1>3, <2>1, <2>2, <2>3, <2>4, OthersHold
<1>6. ASSUME NEW stage \in HoldsAccount, Senders!Goto(r, stage),
             request[r].pc \in HoldsAccount, UNCHANGED lock
      PROVE  request' \in [SenderCalls -> SenderRequests] /\ NumbersHeld'
  <2>1. lock' = [row \in DOMAIN lock |-> IF row \in {} THEN r ELSE lock[row]]
    BY <1>3, <1>6
  <2>2. request[r].account \in OwnNumbers =>
          lock'[request[r].account] = r /\ Senders!Active(request[r].account)
    BY <1>6 DEF NumbersHeld, HoldsItsNumber
  <2>3. {} \in SUBSET (OwnNumbers \cup Locations) /\ \A row \in {} : lock[row] = None
    OBVIOUS
  <2> QED
    BY <1>5, <1>6, <2>1, <2>2, <2>3
<1>7. ASSUME NEW l \in Locations, request[r].pc \in HoldsAccount, lock[l] = None,
             lock' = [lock EXCEPT ![l] = r], Senders!Goto(r, "repointing")
      PROVE  /\ request' \in [SenderCalls -> SenderRequests] /\ NumbersHeld'
             /\ lock' \in [OwnNumbers \cup Locations -> SenderCalls \cup {None}]
  <2>1. lock' = [row \in DOMAIN lock |-> IF row \in {l} THEN r ELSE lock[row]]
    BY <1>3, <1>7
  <2>2. request[r].account \in OwnNumbers =>
          lock'[request[r].account] = r /\ Senders!Active(request[r].account)
    BY <1>3, <1>7 DEF NumbersHeld, HoldsItsNumber
  <2>3. {l} \in SUBSET (OwnNumbers \cup Locations) /\ \A row \in {l} : lock[row] = None
    BY <1>7
  <2>4. "repointing" \in HoldsAccount
    BY DEF HoldsAccount
  <2> QED
    BY <1>5, <1>7, <2>1, <2>2, <2>3, <2>4
<1>8. ASSUME NEW a \in Senders!Accounts, NEW l \in Locations, Senders!CheckSender(r, a, l)
      PROVE  /\ request' \in [SenderCalls -> SenderRequests] /\ NumbersHeld'
             /\ lock' \in [OwnNumbers \cup Locations -> SenderCalls \cup {None}]
  <2> DEFINE q == [pc |-> "checked", account |-> a, location |-> l]
  <2>1. q \in SenderRequests /\ q.pc = "checked"
    BY DEF SenderRequests, HoldsAccount
  <2>2. request' = [request EXCEPT ![r] = q] /\ UNCHANGED lock
    BY <1>8 DEF Senders!CheckSender
  <2> HIDE DEF q
  <2>3. HoldsItsNumber(r)'
    BY <1>3, <2>1, <2>2 DEF HoldsItsNumber, HoldsAccount
  <2> QED
    BY <1>3, <2>1, <2>2, <2>3, OthersHold
<1>9. ASSUME NEW a \in OwnNumbers, Senders!LockNumber(r, a)
      PROVE  /\ request' \in [SenderCalls -> SenderRequests] /\ NumbersHeld'
             /\ lock' \in [OwnNumbers \cup Locations -> SenderCalls \cup {None}]
  <2> DEFINE q == [pc |-> "disconnecting", account |-> a, location |-> None]
  <2>1. q \in SenderRequests /\ q.pc = "disconnecting" /\ q.account = a
    BY DEF SenderRequests, HoldsAccount, Senders!Accounts
  <2>2. request' = [request EXCEPT ![r] = q] /\ lock[a] = None /\ lock' = [lock EXCEPT ![a] = r]
    BY <1>9 DEF Senders!LockNumber
  <2> HIDE DEF q
  <2>3. HoldsItsNumber(r)'
    BY <1>3, <2>1, <2>2 DEF HoldsItsNumber, HoldsAccount
  <2> QED
    BY <1>3, <2>1, <2>2, <2>3, OthersHold
<1>10. CASE Senders!LockActiveAccount(r)
  <2> DEFINE a == request[r].account
             rows == {a} \cap OwnNumbers
  <2>1. CASE ~Senders!Active(a)
    BY <1>4, <1>10, <2>1 DEF Senders!LockActiveAccount
  <2>2. CASE Senders!Active(a)
    <3>1. /\ request[r].pc = "checked" /\ \A row \in rows : lock[row] = None
          /\ lock' = [row \in DOMAIN lock |-> IF row \in rows THEN r ELSE lock[row]]
          /\ Senders!Goto(r, "locked")
      BY <1>10, <2>2 DEF Senders!LockActiveAccount, Senders!LockedForMapping
    <3>2. a \in OwnNumbers => lock'[a] = r /\ Senders!Active(a)
      BY <1>3, <2>2, <3>1
    <3>3. "locked" \in HoldsAccount /\ rows \in SUBSET (OwnNumbers \cup Locations)
      BY DEF HoldsAccount
    <3> HIDE DEF rows
    <3> QED
      BY <1>5, <3>1, <3>2, <3>3
  <2> QED
    BY <2>1, <2>2
<1>11. CASE Senders!LockMapping(r)
  <2>1. request[r].pc \in HoldsAccount /\ request[r].location \in Locations /\ "inserting" \in HoldsAccount
    BY <1>3, <1>11 DEF Senders!LockMapping, SenderRequests, HoldsAccount
  <2> QED
    BY <1>3, <1>6, <1>7, <1>11, <2>1 DEF Senders!LockMapping
<1>12. CASE Senders!MappedMeanwhile(r)
  <2>1. request[r].pc \in HoldsAccount /\ "rereading" \in HoldsAccount
    BY <1>12 DEF Senders!MappedMeanwhile, HoldsAccount
  <2> QED
    BY <1>3, <1>6, <1>12, <2>1 DEF Senders!MappedMeanwhile
<1>13. CASE Senders!ReadWinner(r)
  <2>1. request[r].pc \in HoldsAccount /\ request[r].location \in Locations
    BY <1>3, <1>13 DEF Senders!ReadWinner, SenderRequests, HoldsAccount
  <2> QED
    BY <1>4, <1>7, <1>13, <2>1 DEF Senders!ReadWinner
<1> QED
  BY <1>4, <1>8, <1>9, <1>10, <1>11, <1>12, <1>13 DEF Senders!RequestFails

\* The mapping is written while its number is locked, or cleared.
LEMMA MappingWritten ==
  ASSUME Senders!WhatsAppSendersAssumption, SendersIInv,
         \/ \E r \in SenderCalls : Senders!InsertMapping(r) \/ Senders!Repoint(r)
         \/ \E l \in Locations : Senders!ClearSender(l)
  PROVE  SendersIInv'
<1> USE DEF SendersIInv, Senders!WhatsAppSendersAssumption
<1>1. UNCHANGED <<account, activator>>
  BY DEF Senders!InsertMapping, Senders!Repoint, Senders!ClearSender
<1>2. \A a : Senders!Active(a)' <=> Senders!Active(a)
  BY <1>1 DEF Senders!Active
<1>3. ASSUME NEW r \in SenderCalls, Senders!InsertMapping(r) \/ Senders!Repoint(r)
      PROVE  SendersIInv'
  <2> DEFINE a == request[r].account
             l == request[r].location
  <2>1. request[r].pc \in HoldsAccount /\ mapping' = [mapping EXCEPT ![l] = a] /\ Senders!End(r)
    BY <1>3 DEF Senders!InsertMapping, Senders!Repoint, HoldsAccount
  <2>2. a \in Senders!Accounts /\ l \in Locations /\ (a \in OwnNumbers => Senders!Active(a))
    BY <2>1 DEF SendersTyped, SenderRequests, NumbersHeld, HoldsItsNumber
  <2>3. /\ request' \in [SenderCalls -> SenderRequests] /\ NumbersHeld'
        /\ lock' \in [OwnNumbers \cup Locations -> SenderCalls \cup {None}]
    BY <1>2, <2>1, RequestEnds
  <2>4. SendersTyped' /\ Senders!MappedIsActive'
    BY <1>1, <1>2, <2>1, <2>2, <2>3 DEF SendersTyped, Senders!TypeOK, Senders!MappedIsActive
  <2> QED
    BY <1>1, <2>3, <2>4 DEF TokenUntilSuspended
<1>4. ASSUME NEW l \in Locations, Senders!ClearSender(l)
      PROVE  SendersIInv'
  <2>1. mapping' = [mapping EXCEPT ![l] = None] /\ UNCHANGED <<lock, request>>
    BY <1>4 DEF Senders!ClearSender
  <2>2. SendersTyped' /\ Senders!MappedIsActive'
    BY <1>1, <1>2, <2>1 DEF SendersTyped, Senders!TypeOK, Senders!MappedIsActive
  <2> QED
    BY <1>1, <1>2, <2>1, <2>2 DEF TokenUntilSuspended, NumbersHeld, HoldsItsNumber
<1> QED
  BY <1>3, <1>4

\* A disconnect suspends a number that it holds and no location uses.
LEMMA NumberDisconnected ==
  ASSUME Senders!WhatsAppSendersAssumption, SendersIInv, NEW r \in SenderCalls,
         Senders!Disconnect(r)
  PROVE  SendersIInv'
<1> USE DEF SendersIInv, Senders!WhatsAppSendersAssumption
<1> DEFINE a == request[r].account
           gone == [status |-> "SUSPENDED", token |-> FALSE]
<1>1. Senders!End(r) /\ UNCHANGED <<mapping, activator>> /\ a \in OwnNumbers /\ lock[a] = r
  BY DEF Senders!Disconnect, SendersTyped, SenderRequests, NumbersHeld, HoldsItsNumber
<1>2. gone \in Senders!AccountRows /\ gone.status = "SUSPENDED"
  BY DEF Senders!AccountRows
<1>3. account' = account \/ (~Senders!InUse(a) /\ account' = [account EXCEPT ![a] = gone])
  BY DEF Senders!Disconnect
<1> HIDE DEF gone
<1>4. /\ account' \in [Senders!Accounts -> Senders!AccountRows]
      /\ \A n \in Senders!Accounts : account'[n] = account[n] \/ (n = a /\ ~Senders!InUse(a))
      /\ \A n \in Senders!Accounts : account'[n] = account[n] \/ account'[n].status = "SUSPENDED"
  BY <1>1, <1>2, <1>3 DEF SendersTyped, Senders!TypeOK
<1>5. OwnNumbers \subseteq Senders!Accounts
  BY DEF Senders!Accounts
<1>6. /\ request' \in [SenderCalls -> SenderRequests] /\ NumbersHeld'
      /\ lock' \in [OwnNumbers \cup Locations -> SenderCalls \cup {None}]
  BY <1>1, <1>4, <1>5, RequestEnds DEF Senders!Active
<1>7. SendersTyped'
  BY <1>1, <1>4, <1>6 DEF SendersTyped, Senders!TypeOK
<1>8. TokenUntilSuspended' /\ Senders!MappedIsActive'
  BY <1>1, <1>4, <1>5 DEF TokenUntilSuspended, Senders!MappedIsActive, Senders!InUse, Senders!Active
<1> QED
  BY <1>6, <1>7, <1>8

\* An activation changes a number only while it is PENDING, and the shared number
\* is not one of the merchant's.
LEMMA ActivationStep ==
  ASSUME Senders!WhatsAppSendersAssumption, SendersIInv,
         \/ \E t \in Activators : Senders!Activation(t)
         \/ \E status \in {"ACTIVE", "SUSPENDED"} : Senders!ConfigureSharedPool(status)
  PROVE  SendersIInv'
<1> USE DEF SendersIInv, Senders!WhatsAppSendersAssumption
<1>1. UNCHANGED <<mapping, lock, request>>
  BY DEF Senders!Activation, Senders!StartActivation, Senders!SubscribeApp,
     Senders!ApplyActivation, Senders!ActivationFails, Senders!ConfigureSharedPool
\* What either may do to the accounts.
<1>2. ASSUME account' \in [Senders!Accounts -> Senders!AccountRows],
             activator' \in [Activators -> ActivatorStates],
             \A a \in OwnNumbers : \/ account'[a] = account[a]
                                   \/ account[a].status = "PENDING" /\ account'[a].token = account[a].token
      PROVE  SendersIInv'
  <2>1. SendersTyped' /\ TokenUntilSuspended'
    BY <1>1, <1>2 DEF SendersTyped, Senders!TypeOK, TokenUntilSuspended
  <2>2. \A a \in OwnNumbers : Senders!Active(a) => Senders!Active(a)'
    BY <1>2 DEF Senders!Active
  <2> QED
    BY <1>1, <2>1, <2>2 DEF NumbersHeld, HoldsItsNumber, Senders!MappedIsActive
<1>3. ASSUME NEW t \in Activators, NEW q \in ActivatorStates, activator' = [activator EXCEPT ![t] = q]
      PROVE  activator' \in [Activators -> ActivatorStates]
  BY <1>3 DEF SendersTyped
<1>4. Senders!IdleActivator \in ActivatorStates
  BY DEF Senders!IdleActivator, ActivatorStates
<1>5. ASSUME NEW t \in Activators, Senders!ApplyActivation(t) PROVE SendersIInv'
  <2> DEFINE a == activator[t].account
             status == IF activator[t].pc = "subscribed" THEN "ACTIVE" ELSE "SUSPENDED"
             row == [account[a] EXCEPT !.status = status]
  <2>1. a \in OwnNumbers /\ a \in Senders!Accounts /\ account[a] \in Senders!AccountRows
    BY <1>5 DEF Senders!ApplyActivation, SendersTyped, ActivatorStates, Senders!TypeOK, Senders!Accounts
  <2>2. status \in {"ACTIVE", "SUSPENDED"}
    OBVIOUS
  <2>3. account' = account \/ (account[a].status = "PENDING" /\ account' = [account EXCEPT ![a].status = status])
    BY <1>5 DEF Senders!ApplyActivation, Senders!PendingStill
  <2> HIDE DEF status
  <2>4. row \in Senders!AccountRows /\ row.token = account[a].token
    BY <2>1, <2>2 DEF Senders!AccountRows
  <2>5. account' = account \/ (account[a].status = "PENDING" /\ account' = [account EXCEPT ![a] = row])
    BY <2>1, <2>3 DEF SendersTyped, Senders!TypeOK
  <2> HIDE DEF row
  <2>6. account' \in [Senders!Accounts -> Senders!AccountRows]
    BY <2>1, <2>4, <2>5 DEF SendersTyped, Senders!TypeOK
  <2>7. \A n \in OwnNumbers : \/ account'[n] = account[n]
                              \/ account[n].status = "PENDING" /\ account'[n].token = account[n].token
    BY <2>1, <2>4, <2>5 DEF SendersTyped, Senders!TypeOK, Senders!Accounts
  <2> QED
    BY <1>2, <1>3, <1>4, <1>5, <2>6, <2>7 DEF Senders!ApplyActivation
<1>6. ASSUME NEW t \in Activators,
             \/ \E a \in OwnNumbers : Senders!StartActivation(t, a)
             \/ Senders!SubscribeApp(t) \/ Senders!ActivationFails(t)
      PROVE  SendersIInv'
  <2>1. UNCHANGED account
    BY <1>6 DEF Senders!StartActivation, Senders!SubscribeApp, Senders!ActivationFails
  <2>2. SUFFICES activator' \in [Activators -> ActivatorStates]
    BY <1>2, <2>1 DEF SendersTyped, Senders!TypeOK
  <2>3. ASSUME NEW a \in OwnNumbers, Senders!StartActivation(t, a)
        PROVE  activator' \in [Activators -> ActivatorStates]
    <3> DEFINE q == [pc |-> "subscribing", account |-> a]
    <3>1. q \in ActivatorStates
      BY DEF ActivatorStates
    <3> QED
      BY <1>3, <2>3, <3>1 DEF Senders!StartActivation
  <2>4. CASE Senders!SubscribeApp(t)
    <3>1. PICK answer \in {"refused", "subscribed"} : activator' = [activator EXCEPT ![t].pc = answer]
      BY <2>4 DEF Senders!SubscribeApp
    <3> DEFINE q == [activator[t] EXCEPT !.pc = answer]
    <3>2. q \in ActivatorStates
      BY <2>4 DEF ActivatorStates, SendersTyped, Senders!SubscribeApp
    <3>3. activator' = [activator EXCEPT ![t] = q]
      BY <3>1 DEF SendersTyped
    <3> HIDE DEF q
    <3> QED
      BY <1>3, <3>2, <3>3
  <2> QED
    BY <1>3, <1>4, <1>6, <2>3, <2>4 DEF Senders!ActivationFails
<1>7. ASSUME NEW status \in {"ACTIVE", "SUSPENDED"}, Senders!ConfigureSharedPool(status)
      PROVE  SendersIInv'
  <2> DEFINE row == [account[SharedPool] EXCEPT !.status = status]
  <2>1. row \in Senders!AccountRows
    BY DEF SendersTyped, Senders!TypeOK, Senders!Accounts, Senders!AccountRows
  <2>2. account' = [account EXCEPT ![SharedPool] = row] /\ UNCHANGED activator
    BY <1>7 DEF Senders!ConfigureSharedPool, SendersTyped, Senders!TypeOK
  <2> HIDE DEF row
  <2>3. account' \in [Senders!Accounts -> Senders!AccountRows] /\ \A n \in OwnNumbers : account'[n] = account[n]
    BY <2>1, <2>2 DEF SendersTyped, Senders!TypeOK, Senders!Accounts
  <2> QED
    BY <1>2, <2>2, <2>3 DEF SendersTyped
<1> QED
  BY <1>5, <1>6, <1>7 DEF Senders!Activation

\* Every step keeps it.
LEMMA SendersStep ==
  ASSUME Senders!WhatsAppSendersAssumption, SendersIInv, [Senders!Next]_(Senders!vars)
  PROVE  SendersIInv'
<1>1. CASE UNCHANGED Senders!vars
  BY <1>1 DEF Senders!vars, SendersIInv, SendersTyped, Senders!TypeOK, NumbersHeld, HoldsItsNumber,
     TokenUntilSuspended, Senders!MappedIsActive, Senders!Active
<1>2. ASSUME NEW r \in SenderCalls,
             \/ Senders!SetSender(r) \/ Senders!Disconnect(r) \/ Senders!RequestFails(r)
             \/ \E a \in OwnNumbers : Senders!LockNumber(r, a)
      PROVE  SendersIInv'
  BY <1>2, RequestMoves, MappingWritten, NumberDisconnected DEF Senders!SetSender
<1>3. CASE \E l \in Locations : Senders!ClearSender(l)
  BY <1>3, MappingWritten
<1>4. CASE \/ \E t \in Activators : Senders!Activation(t)
           \/ \E status \in {"ACTIVE", "SUSPENDED"} : Senders!ConfigureSharedPool(status)
  BY <1>4, ActivationStep
<1> QED
  BY <1>1, <1>2, <1>3, <1>4 DEF Senders!Next

\* SendersIInv implies SendersInv.
LEMMA SendersSuffices ==
  ASSUME Senders!WhatsAppSendersAssumption, SendersIInv
  PROVE  Senders!SendersInv
  BY DEF SendersIInv, SendersTyped, TokenUntilSuspended, Senders!SendersInv,
     Senders!ActiveHasToken, Senders!Active

\* No location is left mapped to a number of the merchant's that is not active,
\* and no active number is without its token, however many mappings, disconnects
\* and activations run at once (_lock_active_account, disconnect_own_number,
\* activate_own_number).
THEOREM SendersCorrect ==
  ASSUME Senders!WhatsAppSendersAssumption
  PROVE  Senders!Spec => []Senders!SendersInv
<1>1. Senders!Init => SendersIInv
  BY SendersStart
<1>2. SendersIInv /\ [Senders!Next]_(Senders!vars) => SendersIInv'
  BY SendersStep
<1>3. SendersIInv => Senders!SendersInv
  BY SendersSuffices
<1> QED
  BY <1>1, <1>2, <1>3, PTL DEF Senders!Spec

\* In Components, whose behaviours run one component each, every state keeps
\* SendersInv, the invariant that the run checks: the same promise of
\* _lock_active_account, disconnect_own_number, activate_own_number.
THEOREM SendersHold == Spec => []SendersInv
<1> DEFINE Held == focus = "senders" => SendersIInv
<1>1. Senders!WhatsAppSendersAssumption
  BY ComponentsAssumption DEF ComponentsAssumption
<1>2. Init => Held
  BY <1>1, SendersStart DEF Init
<1>3. Held /\ [Next]_allVars => Held'
  <2> SUFFICES ASSUME Held, [Next]_allVars, focus' = "senders" PROVE SendersIInv'
    OBVIOUS
  <2>1. focus = "senders" /\ [Senders!Next]_(Senders!vars)
    BY DEF Next, allVars, Senders!vars
  <2> QED
    BY <1>1, <2>1, SendersStep
<1>4. Held => SendersInv
  BY <1>1, SendersSuffices DEF SendersInv
<1> QED
  BY <1>2, <1>3, <1>4, PTL DEF Spec

-----------------------------------------------------------------------------
(* MessageTemplates *)

SubmitterStates ==
  {q \in [pc : {"idle", "submitting", "looking", "applying"},
          template : Templates \cup {NoTemplate}, answer : {"none", "found", "missing"}] :
     /\ q.pc # "idle" => q.template \in Templates
     /\ q.pc = "applying" => q.answer # "none"}

PollerStates ==
  {q \in [pc : {"idle", "applying"}, template : Templates \cup {NoTemplate},
          answer : {"none", "PENDING", "APPROVED", "REJECTED"}] :
     q.pc = "applying" => q.template \in Templates /\ q.answer \in {"APPROVED", "REJECTED"}}

TemplatesTyped ==
  /\ Message!TypeOK
  /\ submitter \in [Submitters -> SubmitterStates]
  /\ poller \in [Pollers -> PollerStates]

\* Meta does not hold the template, and never will.
Refused(t) == meta[t] = "absent" /\ t \notin acceptable

\* What Meta holds it accepted; a submission that is looking found it there or
\* refused, and what a submission or a poll was told stays true.
AnswersStayTrue ==
  /\ \A t \in Templates : meta[t] # "absent" => t \in acceptable
  /\ \A s \in Submitters :
       LET t == submitter[s].template IN
       /\ submitter[s].pc = "looking" => meta[t] # "absent" \/ Refused(t)
       /\ submitter[s].pc = "applying" =>
            IF submitter[s].answer = "found" THEN meta[t] # "absent" ELSE Refused(t)
  /\ \A p \in Pollers : poller[p].pc = "applying" => meta[poller[p].template] = poller[p].answer

\* A verdict here is Meta's, and REJECTED without an id is a refusal for good.
RowsAgree ==
  \A t \in Templates :
    /\ template[t].submitted => meta[t] # "absent"
    /\ template[t].status = "APPROVED" => meta[t] = "APPROVED"
    /\ template[t].status = "REJECTED" =>
         IF template[t].submitted THEN meta[t] = "REJECTED" ELSE Refused(t)

TemplatesIInv == TemplatesTyped /\ AnswersStayTrue /\ RowsAgree

\* Init establishes it.
LEMMA TemplatesStart ==
  ASSUME Message!Init
  PROVE  TemplatesIInv
<1> USE DEF Message!Init
<1>1. /\ Message!IdleTask \in SubmitterStates /\ Message!IdleTask \in PollerStates
      /\ Message!IdleTask.pc = "idle"
  BY DEF Message!IdleTask, SubmitterStates, PollerStates
<1>2. TemplatesTyped
  BY <1>1 DEF TemplatesTyped, Message!TypeOK, Message!TemplateRows
<1>3. AnswersStayTrue /\ RowsAgree
  BY <1>1 DEF AnswersStayTrue, RowsAgree
<1> QED
  BY <1>2, <1>3 DEF TemplatesIInv

\* What changes neither a row nor Meta, and gives a submission an answer that is
\* true for good.
LEMMA SubmissionMoves ==
  ASSUME TemplatesIInv, NEW s \in Submitters, NEW q \in SubmitterStates,
         submitter' = [submitter EXCEPT ![s] = q],
         q.pc = "looking" => meta[q.template] # "absent" \/ Refused(q.template),
         q.pc = "applying" =>
           IF q.answer = "found" THEN meta[q.template] # "absent" ELSE Refused(q.template),
         queued' \subseteq queued, UNCHANGED <<template, acceptable, meta, poller>>
  PROVE  TemplatesIInv'
<1> USE DEF TemplatesIInv
<1>1. TemplatesTyped'
  BY DEF TemplatesTyped, Message!TypeOK
<1>2. AnswersStayTrue'
  BY DEF AnswersStayTrue, Refused, TemplatesTyped
<1>3. RowsAgree'
  BY DEF RowsAgree, Refused
<1> QED
  BY <1>1, <1>2, <1>3

\* A row is written with what Meta holds, or refuses, of it.
LEMMA RowWritten ==
  ASSUME TemplatesIInv, NEW t \in Templates, NEW row \in Message!TemplateRows,
         template' = [template EXCEPT ![t] = row],
         row.submitted => meta[t] # "absent",
         row.status = "APPROVED" => meta[t] = "APPROVED",
         row.status = "REJECTED" => IF row.submitted THEN meta[t] = "REJECTED" ELSE Refused(t),
         queued' \subseteq Templates, UNCHANGED <<acceptable, meta>>,
         submitter' \in [Submitters -> SubmitterStates],
         poller' \in [Pollers -> PollerStates],
         \A s \in Submitters : submitter'[s].pc = "idle" \/ submitter'[s] = submitter[s],
         \A p \in Pollers : poller'[p].pc = "idle" \/ poller'[p] = poller[p]
  PROVE  TemplatesIInv'
<1> USE DEF TemplatesIInv
<1>1. TemplatesTyped'
  BY DEF TemplatesTyped, Message!TypeOK
<1>2. AnswersStayTrue'
  BY DEF AnswersStayTrue, Refused
<1>3. RowsAgree'
  BY DEF RowsAgree, Refused, TemplatesTyped, Message!TypeOK
<1> QED
  BY <1>1, <1>2, <1>3

\* Meta accepts what it can, and reviews it once.
LEMMA MetaMoves ==
  ASSUME TemplatesIInv, NEW t \in Templates, NEW new \in {"PENDING", "APPROVED", "REJECTED"},
         meta' = [meta EXCEPT ![t] = new], meta[t] \in {"absent", "PENDING"},
         t \in acceptable, UNCHANGED <<template, queued, acceptable, poller>>,
         submitter' \in [Submitters -> SubmitterStates],
         \A s \in Submitters : \/ submitter'[s] = submitter[s]
                               \/ /\ submitter'[s].pc = "applying"
                                  /\ submitter'[s].template = t /\ submitter'[s].answer = "found"
  PROVE  TemplatesIInv'
<1> USE DEF TemplatesIInv
<1>1. TemplatesTyped'
  BY DEF TemplatesTyped, Message!TypeOK
<1>2. /\ \A k \in Templates : k # t => meta'[k] = meta[k]
      /\ meta'[t] = new
  BY DEF TemplatesTyped, Message!TypeOK
<1>3. \A k \in Templates : /\ meta[k] # "absent" => meta'[k] # "absent"
                           /\ Refused(k) => Refused(k)'
                           /\ meta[k] \in {"APPROVED", "REJECTED"} => meta'[k] = meta[k]
  BY <1>2 DEF Refused
<1>4. AnswersStayTrue'
  <2>1. \A k \in Templates : meta'[k] # "absent" => k \in acceptable'
    BY <1>2 DEF AnswersStayTrue
  <2>2. ASSUME NEW s \in Submitters
        PROVE  /\ submitter'[s].pc = "looking" =>
                    meta'[submitter'[s].template] # "absent" \/ Refused(submitter[s].template)'
               /\ submitter'[s].pc = "applying" =>
                    IF submitter'[s].answer = "found" THEN meta'[submitter'[s].template] # "absent"
                    ELSE Refused(submitter[s].template)'
    <3>1. CASE submitter'[s] = submitter[s]
      <4>1. submitter[s].pc # "idle" => submitter[s].template \in Templates
        BY DEF TemplatesTyped, SubmitterStates
      <4> QED
        BY <1>3, <3>1, <4>1 DEF AnswersStayTrue, Refused
    <3>2. CASE submitter'[s].pc = "applying" /\ submitter'[s].template = t /\ submitter'[s].answer = "found"
      BY <1>2, <3>2
    <3> QED
      BY <3>1, <3>2
  <2>3. \A p \in Pollers : poller'[p].pc = "applying" => meta'[poller'[p].template] = poller'[p].answer
    BY <1>3 DEF AnswersStayTrue, TemplatesTyped, PollerStates
  <2> QED
    BY <2>1, <2>2, <2>3 DEF AnswersStayTrue, Refused
<1>5. RowsAgree'
  <2>1. \A k \in Templates : meta[k] = "APPROVED" => meta'[k] = "APPROVED"
    BY <1>3
  <2>2. \A k \in Templates : meta[k] = "REJECTED" => meta'[k] = "REJECTED"
    BY <1>3
  <2> QED
    BY <1>3, <2>1, <2>2 DEF RowsAgree, Refused
<1> QED
  BY <1>1, <1>4, <1>5

\* A submission, and what it applies.
LEMMA SubmissionStep ==
  ASSUME TemplatesIInv, NEW s \in Submitters, Message!Submission(s)
  PROVE  TemplatesIInv'
<1> USE DEF TemplatesIInv
<1> DEFINE t == submitter[s].template
<1>1. submitter[s] \in SubmitterStates /\ submitter \in [Submitters -> SubmitterStates]
        /\ poller \in [Pollers -> PollerStates]
  BY DEF TemplatesTyped
<1>2. Message!IdleTask \in SubmitterStates /\ Message!IdleTask.pc = "idle"
  BY DEF Message!IdleTask, SubmitterStates
<1>3. ASSUME NEW stage \in {"looking", "applying"}, NEW answer \in {"none", "found", "missing"},
             stage = "applying" => answer # "none",
             submitter[s].pc # "idle", Message!AnswerTo(s, stage, answer)
      PROVE  \E q \in SubmitterStates :
               /\ submitter' = [submitter EXCEPT ![s] = q]
               /\ q.pc = stage /\ q.answer = answer /\ q.template = t /\ t \in Templates
  <2> DEFINE q == [submitter[s] EXCEPT !.pc = stage, !.answer = answer]
  <2>1. submitter' = [submitter EXCEPT ![s] = q]
    BY <1>3 DEF Message!AnswerTo
  <2>2. q \in SubmitterStates /\ q.pc = stage /\ q.answer = answer /\ q.template = t /\ t \in Templates
    BY <1>1, <1>3 DEF SubmitterStates
  <2> HIDE DEF q
  <2> QED
    BY <2>1, <2>2
<1>4. ASSUME NEW k \in Templates, Message!StartSubmission(s, k) PROVE TemplatesIInv'
  <2> DEFINE q == [pc |-> "submitting", template |-> k, answer |-> "none"]
  <2>1. q \in SubmitterStates /\ q.pc = "submitting"
    BY DEF SubmitterStates
  <2>2. /\ submitter' = [submitter EXCEPT ![s] = q] /\ queued' \subseteq queued
        /\ UNCHANGED <<template, acceptable, meta, poller>>
    BY <1>4 DEF Message!StartSubmission
  <2> HIDE DEF q
  <2> QED
    BY <2>1, <2>2, SubmissionMoves
<1>5. CASE Message!Submit(s)
  <2>1. CASE meta[t] = "absent" /\ t \in acceptable
    <3>1. meta' = [meta EXCEPT ![t] = "PENDING"] /\ Message!AnswerTo(s, "applying", "found")
            /\ UNCHANGED <<template, queued, acceptable, poller>> /\ submitter[s].pc # "idle"
      BY <1>5, <2>1 DEF Message!Submit
    <3>2. PICK q \in SubmitterStates :
            /\ submitter' = [submitter EXCEPT ![s] = q]
            /\ q.pc = "applying" /\ q.answer = "found" /\ q.template = t /\ t \in Templates
      BY <1>3, <3>1
    <3>3. submitter' \in [Submitters -> SubmitterStates] /\ submitter'[s] = q
            /\ \A x \in Submitters \ {s} : submitter'[x] = submitter[x]
      BY <1>1, <3>2
    <3> QED
      BY <2>1, <3>1, <3>2, <3>3, MetaMoves
  <2>2. CASE ~(meta[t] = "absent" /\ t \in acceptable)
    <3>1. Message!AnswerTo(s, "looking", "none")
            /\ UNCHANGED <<template, queued, acceptable, meta, poller>> /\ submitter[s].pc # "idle"
      BY <1>5, <2>2 DEF Message!Submit
    <3>2. PICK q \in SubmitterStates :
            /\ submitter' = [submitter EXCEPT ![s] = q] /\ q.pc = "looking" /\ q.template = t
      BY <1>3, <3>1
    <3> QED
      BY <2>2, <3>1, <3>2, SubmissionMoves DEF Refused
  <2> QED
    BY <2>1, <2>2
<1>6. CASE Message!FindTemplate(s)
  <2> DEFINE answer == Message!Found(t)
  <2>1. answer \in {"found", "missing"} /\ (answer = "found" <=> meta[t] # "absent")
    BY DEF Message!Found
  <2>2. Message!AnswerTo(s, "applying", answer) /\ submitter[s].pc = "looking"
          /\ UNCHANGED <<template, queued, acceptable, meta, poller>>
    BY <1>6 DEF Message!FindTemplate
  <2>3. meta[t] # "absent" \/ Refused(t)
    BY <2>2 DEF AnswersStayTrue
  <2> HIDE DEF answer
  <2>4. PICK q \in SubmitterStates :
          /\ submitter' = [submitter EXCEPT ![s] = q] /\ q.pc = "applying"
          /\ q.answer = answer /\ q.template = t
    BY <1>3, <2>1, <2>2
  <2> QED
    BY <2>1, <2>2, <2>3, <2>4, SubmissionMoves
<1>7. CASE Message!ApplySubmission(s)
  <2> DEFINE row == IF submitter[s].answer = "found"
                    THEN [status |-> "PENDING", submitted |-> TRUE]
                    ELSE [status |-> "REJECTED", submitted |-> FALSE]
  <2>1. /\ submitter[s].pc = "applying" /\ submitter' = [submitter EXCEPT ![s] = Message!IdleTask]
        /\ UNCHANGED <<queued, acceptable, meta, poller>>
        /\ template' = template \/ template' = [template EXCEPT ![t] = row]
    BY <1>7 DEF Message!ApplySubmission
  <2>2. t \in Templates /\ IF submitter[s].answer = "found" THEN meta[t] # "absent" ELSE Refused(t)
    BY <1>1, <2>1 DEF SubmitterStates, AnswersStayTrue
  <2>3. /\ row \in Message!TemplateRows /\ row.status # "APPROVED"
        /\ row.submitted => meta[t] # "absent"
        /\ row.status = "REJECTED" => ~row.submitted /\ Refused(t)
    BY <2>2 DEF Message!TemplateRows
  <2> HIDE DEF row
  <2>4. CASE template' = template
    BY <1>2, <2>1, <2>4, SubmissionMoves
  <2>5. CASE template' = [template EXCEPT ![t] = row]
    <3>1. submitter' \in [Submitters -> SubmitterStates]
            /\ \A x \in Submitters : submitter'[x].pc = "idle" \/ submitter'[x] = submitter[x]
      BY <1>1, <1>2, <2>1
    <3>2. queued' \subseteq Templates
      BY <2>1 DEF TemplatesTyped, Message!TypeOK
    <3> QED
      BY <1>1, <2>1, <2>2, <2>3, <2>5, <3>1, <3>2, RowWritten
  <2> QED
    BY <2>1, <2>4, <2>5
<1>8. CASE Message!SubmissionFails(s)
  BY <1>2, <1>8, SubmissionMoves DEF Message!SubmissionFails
<1> QED
  BY <1>4, <1>5, <1>6, <1>7, <1>8 DEF Message!Submission

\* A poll reads a verdict, and writes it where it still waits for one.
LEMMA PollStep ==
  ASSUME TemplatesIInv, NEW p \in Pollers,
         Message!ApplyStatus(p) \/ \E t \in Templates : Message!PollTemplate(p, t)
  PROVE  TemplatesIInv'
<1> USE DEF TemplatesIInv
<1>1. /\ poller[p] \in PollerStates /\ submitter \in [Submitters -> SubmitterStates]
      /\ poller \in [Pollers -> PollerStates]
  BY DEF TemplatesTyped
<1>2. Message!IdleTask \in PollerStates /\ Message!IdleTask.pc = "idle"
  BY DEF Message!IdleTask, PollerStates
<1>3. ASSUME NEW q \in PollerStates, poller' = [poller EXCEPT ![p] = q],
             q.pc = "applying" => meta[q.template] = q.answer,
             UNCHANGED <<template, queued, acceptable, meta, submitter>>
      PROVE  TemplatesIInv'
  <2>1. TemplatesTyped'
    BY <1>3 DEF TemplatesTyped, Message!TypeOK
  <2>2. AnswersStayTrue'
    BY <1>1, <1>3 DEF AnswersStayTrue, Refused
  <2> QED
    BY <1>3, <2>1, <2>2 DEF RowsAgree, Refused
<1>4. ASSUME NEW t \in Templates, Message!PollTemplate(p, t) PROVE TemplatesIInv'
  <2> DEFINE q == [pc |-> "applying", template |-> t, answer |-> meta[t]]
  <2>1. meta[t] \in {"APPROVED", "REJECTED"}
    BY <1>4 DEF Message!PollTemplate, TemplatesTyped, Message!TypeOK, RowsAgree
  <2>2. q \in PollerStates /\ q.template = t /\ q.answer = meta[t]
    BY <2>1 DEF PollerStates
  <2>3. /\ poller' = [poller EXCEPT ![p] = q]
        /\ UNCHANGED <<template, queued, acceptable, meta, submitter>>
    BY <1>4 DEF Message!PollTemplate
  <2> HIDE DEF q
  <2> QED
    BY <1>3, <2>2, <2>3
<1>5. CASE Message!ApplyStatus(p)
  <2> DEFINE t == poller[p].template
             row == [template[t] EXCEPT !.status = poller[p].answer]
  <2>1. /\ t \in Templates /\ poller[p].answer \in {"APPROVED", "REJECTED"}
        /\ meta[t] = poller[p].answer /\ poller' = [poller EXCEPT ![p] = Message!IdleTask]
        /\ UNCHANGED <<queued, acceptable, meta, submitter>>
    BY <1>1, <1>5 DEF Message!ApplyStatus, PollerStates, AnswersStayTrue
  <2>2. \/ UNCHANGED template
        \/ template[t].submitted /\ template' = [template EXCEPT ![t].status = poller[p].answer]
    BY <1>5 DEF Message!ApplyStatus
  <2>3. CASE UNCHANGED template
    BY <1>2, <1>3, <2>1, <2>3
  <2>4. CASE template[t].submitted /\ template' = [template EXCEPT ![t].status = poller[p].answer]
    <3>1. /\ row \in Message!TemplateRows /\ row.status = poller[p].answer /\ row.submitted
      BY <2>1, <2>4 DEF Message!TemplateRows, TemplatesTyped, Message!TypeOK
    <3>2. template' = [template EXCEPT ![t] = row]
      BY <2>1, <2>4 DEF TemplatesTyped, Message!TypeOK
    <3> HIDE DEF row
    <3>3. poller' \in [Pollers -> PollerStates]
            /\ \A x \in Pollers : poller'[x].pc = "idle" \/ poller'[x] = poller[x]
      BY <1>1, <1>2, <2>1
    <3>4. queued' \subseteq Templates
      BY <2>1 DEF TemplatesTyped, Message!TypeOK
    <3> QED
      BY <1>1, <2>1, <3>1, <3>2, <3>3, <3>4, RowWritten
  <2> QED
    BY <2>2, <2>3, <2>4
<1> QED
  BY <1>4, <1>5

\* Every step keeps it.
LEMMA TemplatesStep ==
  ASSUME TemplatesIInv, [Message!Next]_(Message!vars)
  PROVE  TemplatesIInv'
<1>1. CASE UNCHANGED Message!vars
  BY <1>1 DEF Message!vars, TemplatesIInv, TemplatesTyped, Message!TypeOK, AnswersStayTrue,
     RowsAgree, Refused
<1>2. ASSUME NEW t \in Templates, Message!CreateTemplate(t) PROVE TemplatesIInv'
  <2> DEFINE row == [template[t] EXCEPT !.status = "PENDING"]
  <2>1. template' = [template EXCEPT ![t] = row] /\ queued' \subseteq Templates
          /\ UNCHANGED <<acceptable, meta, submitter, poller>>
    BY <1>2 DEF Message!CreateTemplate, TemplatesIInv, TemplatesTyped, Message!TypeOK
  <2>2. row \in Message!TemplateRows /\ row.status = "PENDING" /\ row.submitted = template[t].submitted
    BY DEF Message!TemplateRows, TemplatesIInv, TemplatesTyped, Message!TypeOK
  <2> HIDE DEF row
  <2>3. /\ submitter' \in [Submitters -> SubmitterStates] /\ poller' \in [Pollers -> PollerStates]
        /\ row.submitted => meta[t] # "absent"
    BY <2>1, <2>2 DEF TemplatesIInv, TemplatesTyped, RowsAgree
  <2> QED
    BY <2>1, <2>2, <2>3, RowWritten
<1>3. ASSUME NEW t \in Templates, Message!MetaReviews(t) PROVE TemplatesIInv'
  <2>1. PICK verdict \in {"APPROVED", "REJECTED"} : meta' = [meta EXCEPT ![t] = verdict]
    BY <1>3 DEF Message!MetaReviews
  <2>2. /\ meta[t] = "PENDING" /\ UNCHANGED <<template, queued, acceptable, submitter, poller>>
        /\ t \in acceptable /\ submitter \in [Submitters -> SubmitterStates]
    BY <1>3 DEF Message!MetaReviews, TemplatesIInv, TemplatesTyped, AnswersStayTrue
  <2>3. UNCHANGED <<template, queued, acceptable, poller>> /\ UNCHANGED submitter
    BY <2>2
  <2> QED
    BY <2>1, <2>2, <2>3, MetaMoves
<1>4. ASSUME NEW s \in Submitters, Message!Submission(s) PROVE TemplatesIInv'
  BY <1>4, SubmissionStep
<1>5. ASSUME NEW p \in Pollers,
             Message!ApplyStatus(p) \/ \E t \in Templates : Message!PollTemplate(p, t)
      PROVE  TemplatesIInv'
  BY <1>5, PollStep
<1> QED
  BY <1>1, <1>2, <1>3, <1>4, <1>5 DEF Message!Next

\* TemplatesIInv implies TemplatesInv.
LEMMA TemplatesSuffices ==
  ASSUME TemplatesIInv
  PROVE  Message!TemplatesInv
  BY DEF TemplatesIInv, TemplatesTyped, RowsAgree, Refused, Message!TemplatesInv, Message!AgreesWithMeta

\* What the merchant sees of a template is what Meta made of it, however often it
\* is submitted and whichever answers are lost or come late
\* (submit_template_to_provider, sync_template_statuses).
THEOREM TemplatesCorrect ==
  Message!Spec => []Message!TemplatesInv
<1>1. Message!Init => TemplatesIInv
  BY TemplatesStart
<1>2. TemplatesIInv /\ [Message!Next]_(Message!vars) => TemplatesIInv'
  BY TemplatesStep
<1>3. TemplatesIInv => Message!TemplatesInv
  BY TemplatesSuffices
<1> QED
  BY <1>1, <1>2, <1>3, PTL DEF Message!Spec

\* In Components, whose behaviours run one component each, every state keeps
\* TemplatesInv, the invariant that the run checks: the same promise of
\* submit_template_to_provider, sync_template_statuses.
THEOREM TemplatesHold == Spec => []TemplatesInv
<1> DEFINE Held == focus = "templates" => TemplatesIInv
<1>1. Init => Held
  BY TemplatesStart DEF Init
<1>2. Held /\ [Next]_allVars => Held'
  <2> SUFFICES ASSUME Held, [Next]_allVars, focus' = "templates" PROVE TemplatesIInv'
    OBVIOUS
  <2>1. focus = "templates" /\ [Message!Next]_(Message!vars)
    BY DEF Next, allVars, Message!vars
  <2> QED
    BY <2>1, TemplatesStep
<1>3. Held => TemplatesInv
  BY TemplatesSuffices DEF TemplatesInv
<1> QED
  BY <1>1, <1>2, <1>3, PTL DEF Spec

-----------------------------------------------------------------------------
(* OptOut *)

FanOutWorkers ==
  [pc : {"idle", "running", "done"}, task : Stop!Tasks,
   todo : SUBSET Merchants, failed : SUBSET Merchants]

StopTyped ==
  /\ Stop!TypeOK
  /\ worker \in [FanOuts -> FanOutWorkers]
  /\ stops \subseteq Stop!Numbers /\ customers \subseteq Merchants
  /\ webhook.todo \subseteq stops

\* Every message is about a number of the delivery, and reaches only where that
\* number's STOP may.
OfTheDelivery ==
  /\ \A t \in tasks : t.number \in stops
  /\ \A w \in FanOuts : worker[w].pc # "idle" =>
       /\ worker[w].task.number \in stops
       /\ worker[w].todo \subseteq Stop!Universe(worker[w].task.number)

\* What the STOP to number n owes merchant m.
IsOwed(n, m) == m \in Stop!Universe(n) /\ Stop!Applies(n, m)

Settled(m) == m \in optedOut \cup reported

CarriedLater(t, m) ==
  \E x \in tasks : x.number = t.number /\ m \in x.merchants /\ x.retries > t.retries

\* A fan-out that runs knows whom it has still to reach or to retry; one that is
\* done has left a later retry, or a report, for them.
FanOutsCover ==
  \A w \in FanOuts : \A m \in worker[w].task.merchants : IsOwed(worker[w].task.number, m) =>
    /\ worker[w].pc = "running" => m \in optedOut \cup worker[w].todo \cup worker[w].failed
    /\ worker[w].pc = "done" => Settled(m) \/ CarriedLater(worker[w].task, m)

\* What has been published of the delivery is settled, or carried.
PublishedIsKept ==
  webhook.pc # "due" => \A n \in stops \ webhook.todo : \A m \in Merchants :
    IsOwed(n, m) => Settled(m) \/ Stop!Carried(n, m)

Acknowledged == webhook.pc = "acknowledged" => webhook.todo = {}

StopIInv == /\ StopTyped /\ OfTheDelivery /\ FanOutsCover /\ PublishedIsKept
            /\ Acknowledged /\ Stop!OnlyWhereOwed

\* A published message is for every merchant, and a STOP reaches merchants only.
LEMMA PublishedForAll ==
  ASSUME Stop!OptOutAssumption, NEW n \in Stop!Numbers
  PROVE  /\ Stop!Published(n) \in Stop!Tasks /\ Stop!Published(n).number = n
         /\ Stop!Published(n).merchants = Merchants
         /\ Stop!Universe(n) \subseteq Merchants
         /\ Stop!IdleWorker \in FanOutWorkers /\ Stop!IdleWorker.pc = "idle"
<1> USE DEF Stop!OptOutAssumption
<1>1. \A k \in Stop!Numbers : /\ Stop!Published(k) \in Stop!Tasks /\ Stop!Published(k).number = k
                              /\ Stop!Published(k).merchants = Merchants
  BY DEF Stop!Published, Stop!Tasks
<1>2. Stop!Shared \in Stop!Numbers
  BY DEF Stop!Numbers
<1>3. Stop!IdleWorker \in FanOutWorkers /\ Stop!IdleWorker.pc = "idle"
  BY <1>1, <1>2 DEF Stop!IdleWorker, FanOutWorkers
<1> QED
  BY <1>1, <1>3 DEF Stop!Universe

\* Init establishes it.
LEMMA StopStarts ==
  ASSUME Stop!OptOutAssumption, Stop!Init
  PROVE  StopIInv
<1> USE DEF Stop!Init
<1>1. Stop!IdleWorker \in FanOutWorkers /\ Stop!IdleWorker.pc = "idle"
  BY PublishedForAll DEF Stop!Numbers
<1>2. StopTyped
  BY <1>1 DEF StopTyped, Stop!TypeOK
<1>3. OfTheDelivery /\ FanOutsCover
  BY <1>1 DEF OfTheDelivery, FanOutsCover
<1>4. PublishedIsKept /\ Acknowledged /\ Stop!OnlyWhereOwed
  BY DEF PublishedIsKept, Acknowledged, Stop!OnlyWhereOwed
<1> QED
  BY <1>2, <1>3, <1>4 DEF StopIInv

\* Messages that are only added leave covered what was.
LEMMA CoverageGrows ==
  ASSUME Stop!OptOutAssumption, StopIInv, tasks \subseteq tasks',
         optedOut \subseteq optedOut', reported \subseteq reported',
         UNCHANGED <<stops, customers, mapped>>
  PROVE  /\ \A n, m : IsOwed(n, m)' <=> IsOwed(n, m)
         /\ \A m : Settled(m) => Settled(m)'
         /\ \A n, m : Stop!Carried(n, m) => Stop!Carried(n, m)'
         /\ \A t, m : CarriedLater(t, m) => CarriedLater(t, m)'
         /\ \A n, m : Stop!Applies(n, m)' <=> Stop!Applies(n, m)
  BY DEF IsOwed, Stop!Universe, Stop!Applies, Settled, Stop!Carried, CarriedLater

\* The webhook publishes, fails, and is answered.
LEMMA WebhookStep ==
  ASSUME Stop!OptOutAssumption, StopIInv, Stop!Webhook \/ Stop!WebhookDies
  PROVE  StopIInv'
<1> USE DEF StopIInv
<1> DEFINE pcs == {"due", "publishing", "acknowledged"}
<1>1. UNCHANGED <<stops, customers, mapped, worker, optedOut, reported>>
  BY DEF Stop!Webhook, Stop!ReceiveWebhook, Stop!PublishFanOut, Stop!AcknowledgeWebhook,
     Stop!WebhookDies
<1>2. /\ webhook \in [pc : pcs, todo : SUBSET Stop!Numbers] /\ tasks \subseteq Stop!Tasks
      /\ stops \subseteq Stop!Numbers /\ webhook.todo \subseteq stops
  BY DEF StopTyped, Stop!TypeOK
\* What either message or answer may do.
<1>3. ASSUME webhook' \in [pc : pcs, todo : SUBSET Stop!Numbers], webhook'.todo \subseteq stops,
             NEW sent \in SUBSET stops, tasks' = tasks \cup {Stop!Published(n) : n \in sent},
             webhook'.pc = "acknowledged" => webhook'.todo = {},
             webhook'.pc # "due" =>
               \/ webhook'.todo = stops
               \/ webhook.pc # "due" /\ webhook.todo \subseteq webhook'.todo \cup sent
      PROVE  StopIInv'
  <2>1. tasks \subseteq tasks' /\ tasks' \subseteq Stop!Tasks /\ \A t \in tasks' \ tasks : t.number \in stops
    BY <1>2, <1>3, PublishedForAll
  <2>2. StopTyped' /\ OfTheDelivery' /\ Acknowledged' /\ Stop!OnlyWhereOwed'
    BY <1>1, <1>3, <2>1 DEF StopTyped, Stop!TypeOK, OfTheDelivery, Acknowledged, Stop!OnlyWhereOwed,
       Stop!Owed, Stop!Universe, Stop!Applies
  <2>3. FanOutsCover'
    BY <1>1, <2>1, CoverageGrows DEF FanOutsCover
  <2>4. PublishedIsKept'
    <3>1. ASSUME webhook'.pc # "due", NEW n \in stops \ webhook'.todo, NEW m \in Merchants, IsOwed(n, m)
          PROVE  Settled(m)' \/ Stop!Carried(n, m)'
      <4>1. CASE n \in sent
        <5>1. Stop!Published(n) \in tasks' /\ Stop!Published(n).number = n /\ m \in Stop!Published(n).merchants
          BY <1>2, <1>3, <4>1, PublishedForAll
        <5> QED
          BY <5>1 DEF Stop!Carried
      <4>2. CASE n \notin sent
        <5>1. webhook.pc # "due" /\ n \in stops \ webhook.todo
          BY <1>3, <3>1, <4>2
        <5>2. Settled(m) \/ Stop!Carried(n, m)
          BY <3>1, <5>1 DEF PublishedIsKept
        <5> QED
          BY <1>1, <2>1, <5>2, CoverageGrows
      <4> QED
        BY <4>1, <4>2
    <3> QED
      BY <1>1, <2>1, <3>1, CoverageGrows DEF PublishedIsKept
  <2> QED
    BY <2>2, <2>3, <2>4
<1>4. tasks = tasks \cup {Stop!Published(n) : n \in {}} /\ {} \in SUBSET stops
  OBVIOUS
<1>5. CASE Stop!ReceiveWebhook
  <2>1. webhook' = [pc |-> "publishing", todo |-> stops] /\ tasks' = tasks
    BY <1>5 DEF Stop!ReceiveWebhook
  <2>2. webhook' \in [pc : pcs, todo : SUBSET Stop!Numbers] /\ webhook'.todo = stops
          /\ webhook'.pc = "publishing"
    BY <1>2, <2>1
  <2> QED
    BY <1>3, <1>4, <2>1, <2>2
<1>6. CASE Stop!AcknowledgeWebhook
  <2>1. webhook' = [webhook EXCEPT !.pc = "acknowledged"] /\ tasks' = tasks
          /\ webhook.todo = {} /\ webhook.pc = "publishing"
    BY <1>6 DEF Stop!AcknowledgeWebhook
  <2>2. webhook' \in [pc : pcs, todo : SUBSET Stop!Numbers] /\ webhook'.todo = {}
    BY <1>2, <2>1
  <2> QED
    BY <1>3, <1>4, <2>1, <2>2
<1>7. CASE Stop!WebhookDies
  <2>1. webhook' = [pc |-> "due", todo |-> {}] /\ tasks' = tasks
    BY <1>7 DEF Stop!WebhookDies, Stop!AnswersUnavailable
  <2>2. webhook' \in [pc : pcs, todo : SUBSET Stop!Numbers] /\ webhook'.todo = {} /\ webhook'.pc = "due"
    BY <2>1
  <2> QED
    BY <1>3, <1>4, <2>1, <2>2
<1>8. CASE Stop!PublishFanOut
  <2>1. PICK n \in webhook.todo :
          \/ /\ tasks' = tasks \cup {Stop!Published(n)}
             /\ webhook' = [webhook EXCEPT !.todo = @ \ {n}]
          \/ /\ tasks' \in {tasks, tasks \cup {Stop!Published(n)}}
             /\ webhook' = [pc |-> "due", todo |-> {}]
    BY <1>8 DEF Stop!PublishFanOut, Stop!AnswersUnavailable
  <2>2. webhook.pc = "publishing" /\ {n} \in SUBSET stops
          /\ tasks \cup {Stop!Published(n)} = tasks \cup {Stop!Published(k) : k \in {n}}
    BY <1>2, <1>8 DEF Stop!PublishFanOut
  <2>3. CASE tasks' = tasks \cup {Stop!Published(n)} /\ webhook' = [webhook EXCEPT !.todo = @ \ {n}]
    <3>1. webhook' \in [pc : pcs, todo : SUBSET Stop!Numbers] /\ webhook'.todo = webhook.todo \ {n}
            /\ webhook'.pc = "publishing"
      BY <1>2, <2>2, <2>3
    <3> QED
      BY <1>2, <1>3, <2>2, <2>3, <3>1
  <2>4. CASE tasks' \in {tasks, tasks \cup {Stop!Published(n)}} /\ webhook' = [pc |-> "due", todo |-> {}]
    <3>1. webhook' \in [pc : pcs, todo : SUBSET Stop!Numbers] /\ webhook'.todo = {} /\ webhook'.pc = "due"
      BY <2>4
    <3> QED
      BY <1>3, <1>4, <2>2, <2>4, <3>1
  <2> QED
    BY <2>1, <2>3, <2>4
<1> QED
  BY <1>5, <1>6, <1>7, <1>8 DEF Stop!Webhook

\* A worker takes on what its message or its progress asks of it.
LEMMA WorkerMoves ==
  ASSUME Stop!OptOutAssumption, StopIInv, NEW w \in FanOuts, NEW q \in FanOutWorkers,
         worker' = [worker EXCEPT ![w] = q],
         q.pc # "idle" => /\ q.task.number \in stops
                          /\ q.todo \subseteq Stop!Universe(q.task.number),
         \A m \in q.task.merchants : IsOwed(q.task.number, m) =>
           /\ q.pc = "running" => m \in optedOut' \cup q.todo \cup q.failed
           /\ q.pc = "done" => Settled(m)' \/ CarriedLater(q.task, m)',
         tasks \subseteq tasks', tasks' \subseteq Stop!Tasks,
         \A t \in tasks' \ tasks : t.number \in stops,
         optedOut \subseteq optedOut', optedOut' \subseteq Stop!Owed,
         reported \subseteq reported', reported' \subseteq Merchants,
         UNCHANGED <<stops, customers, mapped, webhook>>
  PROVE  StopIInv'
<1> USE DEF StopIInv
<1>1. worker' \in [FanOuts -> FanOutWorkers] /\ worker'[w] = q
        /\ \A x \in FanOuts \ {w} : worker'[x] = worker[x]
  BY DEF StopTyped
<1>2. StopTyped'
  BY <1>1 DEF StopTyped, Stop!TypeOK, Stop!Owed
<1>3. OfTheDelivery'
  BY <1>1 DEF OfTheDelivery, Stop!Universe
<1>4. FanOutsCover'
  <2>1. ASSUME NEW m \in q.task.merchants, IsOwed(q.task.number, m)
        PROVE  /\ q.pc = "running" => m \in optedOut' \cup q.todo \cup q.failed
               /\ q.pc = "done" => Settled(m)' \/ CarriedLater(q.task, m)'
    BY <2>1
  <2>2. ASSUME NEW x \in FanOuts \ {w}, NEW m \in worker[x].task.merchants,
               IsOwed(worker[x].task.number, m)
        PROVE  /\ worker[x].pc = "running" => m \in optedOut' \cup worker[x].todo \cup worker[x].failed
               /\ worker[x].pc = "done" => Settled(m)' \/ CarriedLater(worker[x].task, m)'
    <3>1. (Settled(m) => Settled(m)') /\ (CarriedLater(worker[x].task, m) => CarriedLater(worker[x].task, m)')
      BY CoverageGrows
    <3>2. /\ worker[x].pc = "running" => m \in optedOut \cup worker[x].todo \cup worker[x].failed
          /\ worker[x].pc = "done" => Settled(m) \/ CarriedLater(worker[x].task, m)
      BY <2>2 DEF FanOutsCover
    <3> QED
      BY <3>1, <3>2
  <2> QED
    BY <1>1, <2>1, <2>2 DEF FanOutsCover, IsOwed, Stop!Universe, Stop!Applies, CarriedLater, Settled
<1>5. PublishedIsKept'
  BY CoverageGrows DEF PublishedIsKept
<1>6. Acknowledged' /\ Stop!OnlyWhereOwed'
  BY DEF Acknowledged, Stop!OnlyWhereOwed, Stop!Owed, Stop!Universe, Stop!Applies
<1> QED
  BY <1>2, <1>3, <1>4, <1>5, <1>6

\* A message is acknowledged once its worker has reached, or passed on, each
\* merchant it was for.
LEMMA AcknowledgedIsCovered ==
  ASSUME Stop!OptOutAssumption, StopIInv, NEW w \in FanOuts, Stop!AcknowledgeTask(w)
  PROVE  StopIInv'
<1> USE DEF StopIInv
<1> DEFINE t == worker[w].task
<1>1. /\ worker[w].pc = "done" \/ (worker[w].pc = "running" /\ worker[w].todo \cup worker[w].failed = {})
      /\ tasks' = tasks \ {t} /\ worker' = [worker EXCEPT ![w] = Stop!IdleWorker]
      /\ UNCHANGED <<stops, customers, mapped, webhook, optedOut, reported>>
  BY DEF Stop!AcknowledgeTask
<1>2. Stop!IdleWorker \in FanOutWorkers /\ Stop!IdleWorker.pc = "idle"
  BY PublishedForAll DEF Stop!Numbers
<1>3. worker' \in [FanOuts -> FanOutWorkers]
        /\ \A x \in FanOuts : worker'[x].pc = "idle" \/ worker'[x] = worker[x]
  BY <1>1, <1>2 DEF StopTyped
<1>4. StopTyped' /\ OfTheDelivery' /\ Acknowledged' /\ Stop!OnlyWhereOwed'
  BY <1>1, <1>3 DEF StopTyped, Stop!TypeOK, OfTheDelivery, Acknowledged, Stop!OnlyWhereOwed,
     Stop!Owed, Stop!Universe, Stop!Applies
\* Those that only this message carried are settled, or carried by a later one.
<1>5. /\ t \in Stop!Tasks /\ \A x \in tasks : x \in Stop!Tasks
      /\ \A x \in Stop!Tasks : x.retries \in Nat
  BY DEF StopTyped, Stop!TypeOK, FanOutWorkers, Stop!Tasks, Stop!OptOutAssumption
<1>6. ASSUME NEW m \in t.merchants, IsOwed(t.number, m)
      PROVE  Settled(m)' \/ (\E x \in tasks' : /\ x.number = t.number /\ m \in x.merchants
                                               /\ x.retries > t.retries)
  <2>1. m \in optedOut \/ Settled(m) \/ CarriedLater(t, m)
    BY <1>1, <1>6 DEF FanOutsCover
  <2> QED
    BY <1>1, <1>5, <2>1 DEF Settled, CarriedLater
<1>7. ASSUME NEW u \in Stop!Tasks, NEW m, IsOwed(u.number, m), CarriedLater(u, m)
      PROVE  Settled(m)' \/ (\E x \in tasks' : /\ x.number = u.number /\ m \in x.merchants
                                               /\ x.retries > u.retries)
  <2>1. PICK y \in tasks : y.number = u.number /\ m \in y.merchants /\ y.retries > u.retries
    BY <1>7 DEF CarriedLater
  <2>2. CASE y = t
    BY <1>1, <1>5, <1>6, <1>7, <2>1, <2>2
  <2>3. CASE y # t
    BY <1>1, <2>1, <2>3
  <2> QED
    BY <2>2, <2>3
<1>8. FanOutsCover'
  <2>1. ASSUME NEW x \in FanOuts, NEW u, u = worker[x].task, worker'[x] = worker[x],
               NEW m \in u.merchants, IsOwed(u.number, m)
        PROVE  /\ worker[x].pc = "running" => m \in optedOut \cup worker[x].todo \cup worker[x].failed
               /\ worker[x].pc = "done" => Settled(m)' \/ CarriedLater(u, m)'
    <3>1. u \in Stop!Tasks
      BY <2>1 DEF StopTyped, FanOutWorkers
    <3>2. /\ worker[x].pc = "running" => m \in optedOut \cup worker[x].todo \cup worker[x].failed
          /\ worker[x].pc = "done" => Settled(m) \/ CarriedLater(u, m)
      BY <2>1 DEF FanOutsCover
    <3>3. Settled(m) => Settled(m)'
      BY <1>1 DEF Settled
    <3> QED
      BY <1>7, <2>1, <3>1, <3>2, <3>3 DEF CarriedLater
  <2>2. \A x \in FanOuts : worker'[x].pc = "idle" \/ worker'[x] = worker[x]
    BY <1>3
  <2> QED
    BY <1>1, <2>1, <2>2 DEF FanOutsCover, IsOwed, Stop!Universe, Stop!Applies, CarriedLater, Settled
<1>9. PublishedIsKept'
  <2>1. ASSUME webhook.pc # "due", NEW n \in stops \ webhook.todo, NEW m \in Merchants, IsOwed(n, m)
        PROVE  Settled(m)' \/ Stop!Carried(n, m)'
    <3>1. Settled(m) \/ Stop!Carried(n, m)
      BY <2>1 DEF PublishedIsKept
    <3>2. CASE n = t.number /\ m \in t.merchants
      BY <1>6, <2>1, <3>2 DEF Stop!Carried
    <3>3. CASE ~(n = t.number /\ m \in t.merchants)
      BY <1>1, <3>1, <3>3 DEF Settled, Stop!Carried
    <3> QED
      BY <3>2, <3>3
  <2> QED
    BY <1>1, <2>1 DEF PublishedIsKept, IsOwed, Stop!Universe, Stop!Applies
<1> QED
  BY <1>4, <1>8, <1>9

\* What a running fan-out does for one merchant, as it starts, and as it retries.
LEMMA FanOutStep ==
  ASSUME Stop!OptOutAssumption, StopIInv, NEW w \in FanOuts,
         Stop!FanOut(w) \/ Stop!WorkerDies(w)
  PROVE  StopIInv'
<1> USE DEF StopIInv
<1> DEFINE t == worker[w].task
<1>1. /\ worker \in [FanOuts -> FanOutWorkers] /\ worker[w] \in FanOutWorkers /\ t \in Stop!Tasks
      /\ tasks \subseteq Stop!Tasks /\ reported \subseteq Merchants /\ optedOut \subseteq Stop!Owed
      /\ t.number \in Stop!Numbers /\ t.merchants \subseteq Merchants
  BY DEF StopTyped, Stop!TypeOK, FanOutWorkers, Stop!OnlyWhereOwed, Stop!Tasks
<1>2. worker[w].pc # "idle" => t.number \in stops /\ worker[w].todo \subseteq Stop!Universe(t.number)
  BY DEF OfTheDelivery
<1>3. \A m \in t.merchants :
        IsOwed(t.number, m) /\ worker[w].pc = "running" => m \in optedOut \cup worker[w].todo \cup worker[w].failed
  BY DEF FanOutsCover
<1>4. ASSUME NEW x \in tasks, Stop!StartFanOut(w, x) PROVE StopIInv'
  <2>1. x \in Stop!Tasks /\ x.number \in stops /\ x.number \in Stop!Numbers /\ x.merchants \subseteq Merchants
    BY <1>1 DEF OfTheDelivery, Stop!Tasks
  <2>2. Stop!Universe(x.number) \subseteq Merchants
          /\ UNCHANGED <<stops, customers, mapped, webhook, tasks, optedOut, reported>>
    BY <1>4, <2>1, PublishedForAll DEF Stop!StartFanOut, Stop!HeldWhileRunning
  <2>3. ASSUME NEW q \in FanOutWorkers, worker' = [worker EXCEPT ![w] = q],
               q.pc = "running", q.task = x, q.todo \subseteq Stop!Universe(x.number),
               Stop!Universe(x.number) \cap x.merchants \subseteq q.todo \cup q.failed
        PROVE  StopIInv'
    <3>1. \A m \in q.task.merchants : IsOwed(q.task.number, m) => m \in q.todo \cup q.failed
      BY <2>3 DEF IsOwed
    <3> QED
      BY <1>1, <2>1, <2>2, <2>3, <3>1, WorkerMoves
  <2>4. CASE worker' = [worker EXCEPT ![w] = [pc |-> "running", task |-> x, failed |-> {},
                                              todo |-> Stop!Universe(x.number) \cap x.merchants]]
    <3> DEFINE q == [pc |-> "running", task |-> x, failed |-> {},
                     todo |-> Stop!Universe(x.number) \cap x.merchants]
    <3>1. /\ q \in FanOutWorkers /\ q.pc = "running" /\ q.task = x
          /\ q.todo = Stop!Universe(x.number) \cap x.merchants
      BY <2>1, <2>2 DEF FanOutWorkers
    <3>2. worker' = [worker EXCEPT ![w] = q]
      BY <2>4
    <3> HIDE DEF q
    <3> QED
      BY <2>3, <3>1, <3>2
  <2>5. CASE worker' = [worker EXCEPT ![w] = [pc |-> "running", task |-> x, failed |-> Merchants,
                                              todo |-> {}]]
    <3> DEFINE q == [pc |-> "running", task |-> x, failed |-> Merchants, todo |-> {}]
    <3>1. /\ q \in FanOutWorkers /\ q.pc = "running" /\ q.task = x
          /\ q.todo = {} /\ q.failed = Merchants
      BY <2>1, <2>2 DEF FanOutWorkers
    <3>2. worker' = [worker EXCEPT ![w] = q]
      BY <2>5
    <3> HIDE DEF q
    <3> QED
      BY <2>1, <2>3, <3>1, <3>2
  <2> QED
    BY <1>4, <2>4, <2>5 DEF Stop!StartFanOut
\* One of its merchants is done with, or will be retried.
<1>5. ASSUME NEW m \in worker[w].todo, Stop!OptOutMerchant(w, m) PROVE StopIInv'
  <2> DEFINE q == [worker[w] EXCEPT !.todo = worker[w].todo \ {m}]
  <2>1. /\ q \in FanOutWorkers /\ q.pc = "running" /\ q.task = t
        /\ q.todo = worker[w].todo \ {m} /\ q.failed = worker[w].failed
    BY <1>1, <1>5 DEF FanOutWorkers, Stop!OptOutMerchant
  <2>2. worker' = [worker EXCEPT ![w] = q] /\ UNCHANGED <<stops, customers, mapped, webhook, tasks, reported>>
    BY <1>1, <1>5 DEF Stop!OptOutMerchant
  <2> HIDE DEF q
  <2>3. /\ worker[w].pc = "running" /\ m \in Merchants /\ m \in Stop!Universe(t.number) /\ t.number \in stops
        /\ optedOut' = IF Stop!Applies(t.number, m) THEN optedOut \cup {m} ELSE optedOut
    BY <1>1, <1>2, <1>5, PublishedForAll DEF Stop!OptOutMerchant
  <2>4. optedOut \subseteq optedOut' /\ optedOut' \subseteq Stop!Owed
    BY <1>1, <2>3 DEF Stop!Owed
  <2>5. \A k \in q.task.merchants : IsOwed(q.task.number, k) => k \in optedOut' \cup q.todo \cup q.failed
    BY <1>3, <2>1, <2>3 DEF IsOwed
  <2> QED
    BY <1>1, <1>2, <2>1, <2>2, <2>3, <2>4, <2>5, WorkerMoves
<1>6. ASSUME NEW m \in worker[w].todo, Stop!MerchantFails(w, m) PROVE StopIInv'
  <2> DEFINE q == [worker[w] EXCEPT !.todo = worker[w].todo \ {m}, !.failed = worker[w].failed \cup {m}]
  <2>1. /\ q \in FanOutWorkers /\ q.pc = "running" /\ q.task = t
        /\ q.todo = worker[w].todo \ {m} /\ q.failed = worker[w].failed \cup {m}
    BY <1>1, <1>6 DEF FanOutWorkers, Stop!MerchantFails
  <2>2. worker' = [worker EXCEPT ![w] = q]
          /\ UNCHANGED <<stops, customers, mapped, webhook, tasks, optedOut, reported>>
    BY <1>1, <1>6 DEF Stop!MerchantFails
  <2> HIDE DEF q
  <2>3. \A k \in q.task.merchants : IsOwed(q.task.number, k) => k \in optedOut' \cup q.todo \cup q.failed
    BY <1>3, <1>6, <2>1, <2>2 DEF Stop!MerchantFails
  <2> QED
    BY <1>1, <1>2, <1>6, <2>1, <2>2, <2>3, WorkerMoves DEF Stop!MerchantFails
\* The failed ones are reported, or carried by a retry.
<1>7. CASE Stop!RetryFanOut(w) \/ Stop!RetryRejected(w)
  <2> DEFINE q == [worker[w] EXCEPT !.pc = "done", !.failed = {}]
             retry == Stop!RetryFailed(w)
  <2>1. /\ worker[w].pc = "running" /\ worker[w].todo = {}
        /\ worker' = [worker EXCEPT ![w] = q]
        /\ UNCHANGED <<stops, customers, mapped, webhook, optedOut>>
    BY <1>1, <1>7 DEF Stop!RetryFanOut, Stop!RetryRejected, Stop!Incomplete
  <2>2. /\ q \in FanOutWorkers /\ q.pc = "done" /\ q.task = t /\ q.todo = {}
    BY <1>1, <2>1 DEF FanOutWorkers
  <2> HIDE DEF q
  <2>3. \/ reported' = reported \cup worker[w].failed /\ UNCHANGED tasks
        \/ /\ tasks' = tasks \cup {retry} /\ UNCHANGED reported
           /\ ~(t.retries >= MaxRetries)
    BY <1>7 DEF Stop!RetryFanOut, Stop!RetryRejected
  <2>4. worker[w].failed \subseteq Merchants /\ t.retries \in 0..MaxRetries
    BY <1>1 DEF FanOutWorkers, Stop!Tasks
  <2>5. ~(t.retries >= MaxRetries) =>
          /\ retry \in Stop!Tasks /\ retry.number = t.number /\ retry.merchants = worker[w].failed
          /\ retry.retries > t.retries
    <3>1. ASSUME NEW y \in Stop!Tasks, NEW some \in SUBSET Merchants, NEW k \in 0..MaxRetries,
                 retry = [y EXCEPT !.merchants = some, !.retries = k]
          PROVE  /\ retry \in Stop!Tasks /\ retry.number = y.number
                 /\ retry.merchants = some /\ retry.retries = k
      <4> HIDE DEF retry
      <4> QED
        BY <3>1 DEF Stop!Tasks
    <3>2. ~(t.retries >= MaxRetries) => t.retries + 1 \in 0..MaxRetries /\ t.retries + 1 > t.retries
      BY <2>4 DEF Stop!OptOutAssumption
    <3>3. retry = [t EXCEPT !.merchants = worker[w].failed, !.retries = t.retries + 1]
      BY Zenon DEF Stop!RetryFailed
    <3> HIDE DEF retry
    <3>4. CASE ~(t.retries >= MaxRetries)
      <4> DEFINE some == worker[w].failed
                 k == t.retries + 1
                 y == t
      <4>1. y \in Stop!Tasks /\ some \in SUBSET Merchants /\ k \in 0..MaxRetries
              /\ retry = [y EXCEPT !.merchants = some, !.retries = k]
        BY <1>1, <2>4, <3>2, <3>3, <3>4
      <4> HIDE DEF some, k, y
      <4>2. retry \in Stop!Tasks /\ retry.number = y.number /\ retry.merchants = some /\ retry.retries = k
        BY <3>1, <4>1
      <4> QED
        BY <3>2, <3>4, <4>2 DEF some, k, y
    <3> QED
      BY <3>4
  <2> HIDE DEF retry
  <2>6. /\ tasks \subseteq tasks' /\ tasks' \subseteq Stop!Tasks /\ \A x \in tasks' \ tasks : x.number \in stops
        /\ reported \subseteq reported' /\ reported' \subseteq Merchants
    BY <1>1, <1>2, <2>1, <2>3, <2>4, <2>5
  <2>7. \A m \in t.merchants : IsOwed(t.number, m) => m \in optedOut \cup worker[w].failed
    BY <1>3, <2>1
  <2>8. \A m \in q.task.merchants : IsOwed(q.task.number, m) =>
          \/ m \in optedOut' \cup reported'
          \/ \E x \in tasks' : x.number = q.task.number /\ m \in x.merchants /\ x.retries > q.task.retries
    BY <2>1, <2>2, <2>3, <2>5, <2>7
  <2>9. optedOut' = optedOut /\ UNCHANGED <<stops, customers, mapped, webhook>>
    BY <2>1
  <2>10. \A m \in q.task.merchants : IsOwed(q.task.number, m) =>
           \A u : u = q.task => Settled(m)' \/ CarriedLater(u, m)'
    BY <2>8 DEF Settled, CarriedLater
  <2> QED
    BY <1>1, <1>2, <2>1, <2>2, <2>6, <2>9, <2>10, WorkerMoves
<1>8. CASE Stop!AcknowledgeTask(w)
  BY <1>8, AcknowledgedIsCovered
<1>9. CASE Stop!WorkerDies(w)
  <2>1. Stop!IdleWorker \in FanOutWorkers /\ Stop!IdleWorker.pc = "idle"
    BY PublishedForAll DEF Stop!Numbers
  <2> QED
    BY <1>1, <1>9, <2>1, WorkerMoves DEF Stop!WorkerDies
<1> QED
  BY <1>4, <1>5, <1>6, <1>7, <1>8, <1>9 DEF Stop!FanOut

\* Every step keeps it.
LEMMA StopStep ==
  ASSUME Stop!OptOutAssumption, StopIInv, [Stop!Next]_(Stop!vars)
  PROVE  StopIInv'
<1>1. CASE UNCHANGED Stop!vars
  <2>1. UNCHANGED <<stops, customers, mapped, webhook, tasks, worker, optedOut, reported>>
    BY <1>1 DEF Stop!vars
  <2>2. StopTyped' /\ OfTheDelivery' /\ Acknowledged' /\ Stop!OnlyWhereOwed'
    BY <2>1 DEF StopIInv, StopTyped, Stop!TypeOK, OfTheDelivery, Acknowledged,
       Stop!OnlyWhereOwed, Stop!Owed, Stop!Universe, Stop!Applies
  <2>3. FanOutsCover' /\ PublishedIsKept'
    BY <2>1 DEF StopIInv, FanOutsCover, PublishedIsKept, IsOwed, Settled, CarriedLater,
       Stop!Carried, Stop!Universe, Stop!Applies
  <2> QED
    BY <2>2, <2>3 DEF StopIInv
<1>2. CASE Stop!Webhook \/ Stop!WebhookDies
  BY <1>2, WebhookStep
<1>3. ASSUME NEW w \in FanOuts, Stop!FanOut(w) \/ Stop!WorkerDies(w)
      PROVE  StopIInv'
  BY <1>3, FanOutStep
<1>4. ASSUME NEW m \in Merchants, Stop!Redrive(m) PROVE StopIInv'
  <2>1. /\ optedOut' = optedOut \cup {m} /\ m \in Stop!Owed
        /\ UNCHANGED <<stops, customers, mapped, webhook, tasks, worker, reported>>
    BY <1>4 DEF Stop!Redrive, Stop!Owed
  <2>2. optedOut' \subseteq Stop!Owed /\ optedOut \subseteq optedOut' /\ tasks' = tasks
    BY <2>1 DEF StopIInv, Stop!OnlyWhereOwed
  <2>3. StopTyped' /\ OfTheDelivery' /\ Acknowledged' /\ Stop!OnlyWhereOwed'
    BY <2>1, <2>2 DEF StopIInv, StopTyped, Stop!TypeOK, OfTheDelivery, Acknowledged,
       Stop!OnlyWhereOwed, Stop!Owed, Stop!Universe, Stop!Applies
  <2>4. FanOutsCover'
    BY <2>1, <2>2, CoverageGrows DEF StopIInv, FanOutsCover
  <2>5. PublishedIsKept'
    BY <2>1, <2>2, CoverageGrows DEF StopIInv, PublishedIsKept
  <2> QED
    BY <2>3, <2>4, <2>5 DEF StopIInv
<1> QED
  BY <1>1, <1>2, <1>3, <1>4 DEF Stop!Next

\* StopIInv implies OptOutInv.
LEMMA StopSuffices ==
  ASSUME Stop!OptOutAssumption, StopIInv
  PROVE  Stop!OptOutInv
<1>1. StopIInv => Stop!NoStopLost
  <2> SUFFICES ASSUME StopIInv, webhook.pc = "acknowledged", NEW n \in stops,
                      NEW m \in Stop!Universe(n), Stop!Applies(n, m)
               PROVE  m \in optedOut \cup reported \/ Stop!Carried(n, m)
    BY DEF Stop!NoStopLost
  <2>1. m \in Merchants /\ webhook.todo = {} /\ webhook.pc # "due"
    BY PublishedForAll DEF StopIInv, StopTyped, Acknowledged
  <2> QED
    BY <2>1 DEF StopIInv, PublishedIsKept, IsOwed, Settled
<1> QED
  BY <1>1 DEF StopIInv, StopTyped, Stop!OptOutInv

\* Once Meta has its 200, each merchant a STOP is owed by has honoured it, is named
\* in the log, or is carried by a message the broker holds, whatever fails or dies
\* between; and no other merchant's customer is opted out (receive_webhook,
\* fan_out_inbound_opt_out, _retry_opt_out_fan_out).
THEOREM StopCorrect ==
  ASSUME Stop!OptOutAssumption
  PROVE  Stop!Spec => []Stop!OptOutInv
<1>1. Stop!Init => StopIInv
  BY StopStarts
<1>2. StopIInv /\ [Stop!Next]_(Stop!vars) => StopIInv'
  BY StopStep
<1>3. StopIInv => Stop!OptOutInv
  BY StopSuffices
<1> QED
  BY <1>1, <1>2, <1>3, PTL DEF Stop!Spec

\* In Components, whose behaviours run one component each, every state keeps
\* OptOutInv, the invariant that the run checks: the same promise of
\* receive_webhook, fan_out_inbound_opt_out, _retry_opt_out_fan_out.
THEOREM StopHolds == Spec => []OptOutInv
<1> DEFINE Held == focus = "stop" => StopIInv
<1>1. Stop!OptOutAssumption
  BY ComponentsAssumption DEF ComponentsAssumption
<1>2. Init => Held
  BY <1>1, StopStarts DEF Init
<1>3. Held /\ [Next]_allVars => Held'
  <2> SUFFICES ASSUME Held, [Next]_allVars, focus' = "stop" PROVE StopIInv'
    OBVIOUS
  <2>1. focus = "stop" /\ [Stop!Next]_(Stop!vars)
    BY DEF Next, allVars, Stop!vars
  <2> QED
    BY <1>1, <2>1, StopStep
<1>4. Held => OptOutInv
  BY <1>1, StopSuffices DEF OptOutInv
<1> QED
  BY <1>2, <1>3, <1>4, PTL DEF Spec

=============================================================================
