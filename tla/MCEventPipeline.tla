-------------------------- MODULE MCEventPipeline --------------------------
(* Instances of EventPipeline for TLC. *)
EXTENDS EventPipeline, TLC

CONSTANTS e1, e2, l1, l2, t1, c1

\* Two external events for one POS transaction, one with a phone; e2's
\* payload parses too.
MCTxnOf      == [e \in Events |-> t1]
MCCustomerOf == [e \in Events |-> IF e = e1 THEN c1 ELSE NoCustomer]
MCParsable   == Events

\* Workers are alike, and so are webhook requests, callers and admins.
MCSymmetry == Permutations(Workers) \cup Permutations(Receivers)
              \cup Permutations(Callers)

MCCustomerBoth == [e \in Events |-> c1]
=============================================================================
