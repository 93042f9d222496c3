----------------------------- MODULE QuotaLedger -----------------------------
(* What reserve_quota_unit promises its callers: units are taken one at a    *)
(* time, each under the entitlement in force at that moment.                 *)
EXTENDS Naturals

CONSTANTS Plans, Periods, NoPeriod,
          Quota   \* quota_requests of a plan

VARIABLES
  entitlement, \* the merchant's status, plan and period
  spent        \* units taken in each period, 0 while it has no UsageRecord

ledger == <<entitlement, spent>>

Init ==
  /\ entitlement \in [status : {"INCOMPLETE"}, plan : Plans, period : {NoPeriod}]
  /\ spent = [d \in Periods |-> 0]

\* One unit, of the current period, within the current plan's quota.
Spend(d) ==
  /\ entitlement.status = "ACTIVE"
  /\ entitlement.period = d
  /\ spent[d] < Quota[entitlement.plan]
  /\ spent' = [spent EXCEPT ![d] = @ + 1]
  /\ UNCHANGED entitlement

\* The entitlement moves; what was spent stays spent, in every period.
Move == UNCHANGED spent

Next == (\E d \in Periods : Spend(d)) \/ Move

Spec == Init /\ [][Next]_ledger
=============================================================================
