----------------------------- MODULE SaleInbox -----------------------------
(***************************************************************************)
(* What the event pipeline promises the merchant: an event that was         *)
(* accepted is settled once, either sold, with the sale of its transaction  *)
(* id in place at the location it was sold at, or dropped; a sale is        *)
(* recorded once, by one event, and never taken back.                       *)
(***************************************************************************)
CONSTANTS Events, Locations, Txns, TxnOf, NoEvent

VARIABLES outcome, sale

inboxVars == <<outcome, sale>>

Open == {"absent", "pending"}

Init ==
  /\ outcome = [e \in Events |-> "absent"]
  /\ sale = [k \in Locations \X Txns |-> NoEvent]

Accept(e) ==
  /\ outcome[e] = "absent"
  /\ outcome' = [outcome EXCEPT ![e] = "pending"]
  /\ UNCHANGED sale

\* The first event of a transaction id records the sale, the others find it.
Sell(e, l) ==
  /\ outcome[e] \in Open
  /\ outcome' = [outcome EXCEPT ![e] = "sold"]
  /\ sale' = [sale EXCEPT ![<<l, TxnOf[e]>>] = IF @ = NoEvent THEN e ELSE @]

\* Dead-lettered, or cancelled by a disconnect with others in one transaction.
Drop(es) ==
  /\ \A e \in es : outcome[e] \in Open
  /\ outcome' = [e \in Events |-> IF e \in es THEN "dropped" ELSE outcome[e]]
  /\ UNCHANGED sale

Next ==
  \/ \E e \in Events : Accept(e)
  \/ \E e \in Events, l \in Locations : Sell(e, l)
  \/ \E es \in SUBSET Events : Drop(es)

Spec == Init /\ [][Next]_inboxVars
=============================================================================
