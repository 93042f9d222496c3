--------------------------- MODULE WhatsAppSenders ---------------------------
(***************************************************************************)
(* The numbers a merchant sends from and the locations mapped to them:      *)
(* whatsapp.services over WhatsAppAccount and WhatsAppLocationMapping.      *)
(*                                                                         *)
(* Mapping a location locks an own number's row and then the mapping; a     *)
(* disconnect locks the number.  The platform's shared number is read       *)
(* without a lock.  Activation asks Meta between its two transactions.      *)
(***************************************************************************)
EXTENDS Naturals

CONSTANTS
  Numbers,     \* OWN_NUMBER accounts of the merchant
  Shared,      \* the SHARED_POOL account
  Locations,
  Requests,    \* set_location_sender, clear_location_sender, disconnect_own_number
  Activators,  \* executions of activate_own_number
  None

WhatsAppSendersAssumption ==
  /\ Shared \notin Numbers
  /\ None \notin Numbers \cup {Shared} \cup Locations \cup Requests

VARIABLES
  account,    \* status and stored token of each account
  mapping,    \* the account each location sends from, None without a mapping
  lock,       \* row locks
  request,
  activator

vars == <<account, mapping, lock, request, activator>>

Accounts == Numbers \cup {Shared}

AccountRows == [status : {"PENDING", "ACTIVE", "SUSPENDED"}, token : BOOLEAN]

Idle == [pc |-> "idle", account |-> None, location |-> None]

IdleActivator == [pc |-> "idle", account |-> None]

Init ==
  /\ account = [a \in Accounts |->
                  IF a = Shared THEN [status |-> "ACTIVE", token |-> FALSE]
                  ELSE [status |-> "PENDING", token |-> TRUE]]
  /\ mapping = [l \in Locations |-> None]
  /\ lock = [row \in Numbers \cup Locations |-> None]
  /\ request = [r \in Requests |-> Idle]
  /\ activator = [t \in Activators |-> IdleActivator]

Active(a) == account[a].status = "ACTIVE"

Goto(r, stage) == request' = [request EXCEPT ![r].pc = stage]

Released(r) == [row \in DOMAIN lock |-> IF lock[row] = r THEN None ELSE lock[row]]

\* COMMIT or ROLLBACK: the locks go with it.
End(r) ==
  /\ lock' = Released(r)
  /\ request' = [request EXCEPT ![r] = Idle]

-----------------------------------------------------------------------------
(* set_location_sender *)

\* The account as the view read it; one that is not ACTIVE is refused at once.
CheckSender(r, a, l) ==
  /\ request[r].pc = "idle"
  /\ Active(a)
  /\ request' = [request EXCEPT ![r] = [pc |-> "checked", account |-> a, location |-> l]]
  /\ UNCHANGED <<account, mapping, lock, activator>>

\* Mutant: the account is mapped as it was first read.
LocksNothing(a) == {}

\* An own number is locked; the shared row is only read again.
LockedForMapping(a) == {a} \cap Numbers

LockActiveAccount(r) ==
  LET a == request[r].account IN
  /\ request[r].pc = "checked"
  /\ \A row \in LockedForMapping(a) : lock[row] = None
  /\ IF Active(a)
     THEN /\ lock' = [row \in DOMAIN lock |-> IF row \in LockedForMapping(a) THEN r ELSE lock[row]]
          /\ Goto(r, "locked")
     ELSE End(r)
  /\ UNCHANGED <<account, mapping, activator>>

LockMapping(r) ==
  LET l == request[r].location IN
  /\ request[r].pc = "locked"
  /\ IF mapping[l] = None
     THEN Goto(r, "inserting") /\ UNCHANGED lock
     ELSE /\ lock[l] = None
          /\ lock' = [lock EXCEPT ![l] = r]
          /\ Goto(r, "repointing")
  /\ UNCHANGED <<account, mapping, activator>>

InsertMapping(r) ==
  /\ request[r].pc = "inserting"
  /\ mapping[request[r].location] = None
  /\ mapping' = [mapping EXCEPT ![request[r].location] = request[r].account]
  /\ End(r)
  /\ UNCHANGED <<account, activator>>

\* UNIQUE(location): back to the savepoint, to read the row of the winner.
MappedMeanwhile(r) ==
  /\ request[r].pc = "inserting"
  /\ mapping[request[r].location] # None
  /\ Goto(r, "rereading")
  /\ UNCHANGED <<account, mapping, lock, activator>>

\* It is read once: cleared again by then, the request fails on None.
ReadWinner(r) ==
  LET l == request[r].location IN
  /\ request[r].pc = "rereading"
  /\ lock[l] = None
  /\ IF mapping[l] = None
     THEN End(r)
     ELSE lock' = [lock EXCEPT ![l] = r] /\ Goto(r, "repointing")
  /\ UNCHANGED <<account, mapping, activator>>

Repoint(r) ==
  /\ request[r].pc = "repointing"
  /\ mapping' = [mapping EXCEPT ![request[r].location] = request[r].account]
  /\ End(r)
  /\ UNCHANGED <<account, activator>>

ClearSender(l) ==
  /\ mapping[l] # None /\ lock[l] = None
  /\ mapping' = [mapping EXCEPT ![l] = None]
  /\ UNCHANGED <<account, lock, request, activator>>

-----------------------------------------------------------------------------
(* disconnect_own_number *)

LockNumber(r, a) ==
  /\ request[r].pc = "idle"
  /\ lock[a] = None
  /\ lock' = [lock EXCEPT ![a] = r]
  /\ request' = [request EXCEPT ![r] = [pc |-> "disconnecting", account |-> a, location |-> None]]
  /\ UNCHANGED <<account, mapping, activator>>

InUse(a) == \E l \in Locations : mapping[l] = a

\* Nothing to do when it is disconnected already; SenderInUse while it is mapped.
Disconnect(r) ==
  LET a == request[r].account IN
  /\ request[r].pc = "disconnecting"
  /\ account' = IF InUse(a) THEN account
                ELSE [account EXCEPT ![a] = [status |-> "SUSPENDED", token |-> FALSE]]
  /\ End(r)
  /\ UNCHANGED <<mapping, activator>>

RequestFails(r) ==
  /\ request[r].pc # "idle"
  /\ End(r)
  /\ UNCHANGED <<account, mapping, activator>>

-----------------------------------------------------------------------------
(* activate_own_number, and the platform's shared number *)

StartActivation(t, a) ==
  /\ activator[t].pc = "idle"
  /\ account[a].status = "PENDING" /\ account[a].token
  /\ activator' = [activator EXCEPT ![t] = [pc |-> "subscribing", account |-> a]]
  /\ UNCHANGED <<account, mapping, lock, request>>

\* Meta refuses for good, or subscribes the app.
SubscribeApp(t) ==
  /\ activator[t].pc = "subscribing"
  /\ \E answer \in {"refused", "subscribed"} : activator' = [activator EXCEPT ![t].pc = answer]
  /\ UNCHANGED <<account, mapping, lock, request>>

PendingStill(a) == account[a].status = "PENDING"

\* One conditional UPDATE, which waits for a disconnect that holds the row.
ApplyActivation(t) ==
  LET a == activator[t].account IN
  /\ activator[t].pc \in {"refused", "subscribed"}
  /\ lock[a] = None
  /\ account' = IF ~PendingStill(a) THEN account
                ELSE [account EXCEPT ![a].status =
                        IF activator[t].pc = "subscribed" THEN "ACTIVE" ELSE "SUSPENDED"]
  /\ activator' = [activator EXCEPT ![t] = IdleActivator]
  /\ UNCHANGED <<mapping, lock, request>>

\* A transient error beyond its retries, or the worker's death: it stays PENDING.
ActivationFails(t) ==
  /\ activator[t].pc # "idle"
  /\ activator' = [activator EXCEPT ![t] = IdleActivator]
  /\ UNCHANGED <<account, mapping, lock, request>>

\* upsert_shared_pool_account; the unique constraint decides between two first
\* runs, and the loser continues as an update.
ConfigureSharedPool(status) ==
  /\ account[Shared].status # status
  /\ account' = [account EXCEPT ![Shared].status = status]
  /\ UNCHANGED <<mapping, lock, request, activator>>

SetSender(r) == \/ \E a \in Accounts, l \in Locations : CheckSender(r, a, l)
                \/ LockActiveAccount(r) \/ LockMapping(r)
                \/ InsertMapping(r) \/ MappedMeanwhile(r) \/ ReadWinner(r)
                \/ Repoint(r)

Activation(t) == \/ \E a \in Numbers : StartActivation(t, a)
                 \/ SubscribeApp(t) \/ ApplyActivation(t) \/ ActivationFails(t)

Next == \/ \E r \in Requests : SetSender(r) \/ Disconnect(r) \/ RequestFails(r)
        \/ \E r \in Requests, a \in Numbers : LockNumber(r, a)
        \/ \E l \in Locations : ClearSender(l)
        \/ \E t \in Activators : Activation(t)
        \/ \E status \in {"ACTIVE", "SUSPENDED"} : ConfigureSharedPool(status)

Spec == Init /\ [][Next]_vars

-----------------------------------------------------------------------------
(* Properties *)

TypeOK ==
  /\ account \in [Accounts -> AccountRows]
  /\ mapping \in [Locations -> Accounts \cup {None}]
  /\ lock \in [Numbers \cup Locations -> Requests \cup {None}]

\* A location is never left mapped to a number of the merchant's that is not
\* active, whatever a disconnect and a mapping do at once (_lock_active_account).
MappedIsActive == \A l \in Locations : mapping[l] \in Numbers => Active(mapping[l])

\* An active number has its token: the answer to an activation never brings
\* back a number disconnected meanwhile (activate_own_number).
ActiveHasToken == \A a \in Numbers : Active(a) => account[a].token

SendersInv == TypeOK /\ MappedIsActive /\ ActiveHasToken
=============================================================================
