----------------------------- MODULE QuotaProofs -----------------------------
(***************************************************************************)
(* The theorems of Quota: its invariant is inductive, usage only grows, and *)
(* the locks make every reservation a single step on the ledger.            *)
(***************************************************************************)
EXTENDS Quota, TLAPS

\* The initial states satisfy the invariant: the row is INCOMPLETE and no
\* transaction has begun (_first_checkout).
LEMMA InitInv == Init => QuotaInv
  BY QuotaAssumption
  DEF Init, QuotaInv, TypeOK, PeriodHasItsRecord, GrantedHolds, LocksHeld,
      DraftHasItsRecord, Subs, Statuses, Procs, Rows

\* A step of a reservation keeps the invariant: it takes one free lock, and it
\* spends only what the lock has protected (reserve_quota_unit).
LEMMA ReservationInv ==
  ASSUME QuotaInv, NEW r \in Senders, Reservation(r)
  PROVE  QuotaInv'
  <1> USE QuotaAssumption DEF QuotaInv, TypeOK, PeriodHasItsRecord, GrantedHolds,
        LocksHeld, DraftHasItsRecord, Subs, Procs, Rows, Goto, Acquire
  <1>1. CASE ReadSubscription(r)
    BY <1>1 DEF ReadSubscription, EntitledNow
  <1>2. CASE LockUsage(r)
    BY <1>2 DEF LockUsage, LockedByReservation, locals
  <1>3. CASE Recheck(r)
    BY <1>3 DEF Recheck, LockedByReservation, StillEntitled, EntitledNow, HasQuota
  <1>4. CASE CallerCommits(r)
    BY <1>4 DEF CallerCommits, Released
  <1>5. CASE CallerRollsBack(r)
    BY <1>5 DEF CallerRollsBack, Released
  <1> QED
    BY <1>1, <1>2, <1>3, <1>4, <1>5 DEF Reservation

\* So does a step of a transition: while one may commit it holds the record
\* that every granted reservation holds (_lock_subscription).
LEMMA TransitionInv ==
  ASSUME QuotaInv, NEW t \in Changers, Transition(t)
  PROVE  QuotaInv'
  <1> USE QuotaAssumption DEF QuotaInv, TypeOK, PeriodHasItsRecord, GrantedHolds,
        LocksHeld, DraftHasItsRecord, Subs, Procs, Rows, Goto, Acquire
  <1>1. CASE LockSubscription(t)
    BY <1>1 DEF LockSubscription
  <1>2. CASE LockCurrentUsage(t)
    BY <1>2 DEF LockCurrentUsage, UsageRowsOf
  <1>3. CASE LockAgain(t)
    BY <1>3 DEF LockAgain
  <1>4. CASE Apply(t)
    BY <1>4 DEF Apply, Activated, OpensPeriod, PaymentFailed, Ended, CheckedOutAgain,
                Statuses
  <1>5. CASE Commit(t)
    BY <1>5 DEF Commit, Released, UsageAfterOpening
  <1>6. CASE Rollback(t)
    BY <1>6 DEF Rollback, Released
  <1> QED
    BY <1>1, <1>2, <1>3, <1>4, <1>5, <1>6 DEF Transition

LEMMA StepInv == QuotaInv /\ [Next]_vars => QuotaInv'
  <1> SUFFICES ASSUME QuotaInv, [Next]_vars PROVE QuotaInv'
    OBVIOUS
  <1>1. CASE \E r \in Senders : Reservation(r)
    BY <1>1, ReservationInv
  <1>2. CASE \E t \in Changers : Transition(t)
    BY <1>2, TransitionInv
  <1>3. CASE \E d \in Periods : PeriodEnds(d)
    BY <1>3 DEF PeriodEnds, locals, QuotaInv, TypeOK, PeriodHasItsRecord, GrantedHolds,
                LocksHeld, DraftHasItsRecord
  <1>4. CASE UNCHANGED vars
    BY <1>4 DEF vars, locals, QuotaInv, TypeOK, PeriodHasItsRecord, GrantedHolds,
                LocksHeld, DraftHasItsRecord
  <1> QED
    BY <1>1, <1>2, <1>3, <1>4 DEF Next

-----------------------------------------------------------------------------

\* The inductive invariant holds of every reachable state: lock order, granted
\* reservations and UsageRecords, for any plans, periods and transactions.
THEOREM QuotaCorrect == Spec => []QuotaInv
  BY InitInv, StepInv, PTL DEF Spec

\* A unit that reserve_quota_unit has granted is still covered when its caller
\* commits.
THEOREM GrantsHold == Spec => []GrantedHolds
  BY QuotaCorrect, PTL DEF QuotaInv

\* A Subscription with a period has that period's UsageRecord
\* (reset_usage_period runs in the transaction that takes the period).
THEOREM RecordsFollowPeriods == Spec => []PeriodHasItsRecord
  BY QuotaCorrect, PTL DEF QuotaInv

-----------------------------------------------------------------------------

\* A step that changes a count is the commit of a granted reservation.
LEMMA OnlyCommitsSpend ==
  ASSUME QuotaInv, [Next]_vars
  PROVE  \/ UNCHANGED used
         \/ \E r \in Senders : pc[r] = "reserved" /\ CallerCommits(r)
  BY DEF Next, Reservation, Transition, ReadSubscription, LockUsage, Recheck,
         CallerCommits, CallerRollsBack, LockSubscription, LockCurrentUsage, LockAgain,
         Apply, Commit, UsageAfterOpening, Rollback, PeriodEnds, vars

\* No step gives usage back or starts a count again (reset_usage_period,
\* insert-or-ignore).
LEMMA UsageStep ==
  ASSUME QuotaInv, [Next]_vars
  PROVE  \A d \in Periods : used'[d] >= used[d] /\ (d \in records => d \in records')
  <1>1. records \subseteq records'
    BY DEF Next, Reservation, Transition, ReadSubscription, LockUsage, Recheck,
           CallerCommits, CallerRollsBack, LockSubscription, LockCurrentUsage, LockAgain,
           Apply, Commit, Rollback, PeriodEnds, vars, locals
  <1>2. \A d \in Periods : used'[d] >= used[d]
    <2>1. CASE UNCHANGED used
      BY <2>1 DEF QuotaInv, TypeOK
    <2>2. CASE \E r \in Senders : pc[r] = "reserved" /\ CallerCommits(r)
      BY <2>2 DEF CallerCommits, QuotaInv, TypeOK
    <2> QED
      BY <2>1, <2>2, OnlyCommitsSpend
  <1> QED
    BY <1>1, <1>2

THEOREM UsageNeverFalls == Spec => UsageOnlyGrows
  <1>1. QuotaInv /\ [Next]_vars =>
          [\A d \in Periods : /\ used'[d] >= used[d]
                              /\ d \in records => d \in records']_vars
    BY UsageStep
  <1> QED
    BY <1>1, QuotaCorrect, PTL DEF Spec, UsageOnlyGrows

\* A commit that spends is the ledger's Spend: the row it read again under the
\* lock is the row in force.
LEMMA SpendStep ==
  ASSUME QuotaInv, NEW r \in Senders, pc[r] = "reserved", CallerCommits(r)
  PROVE  /\ seen[r] \in Periods
         /\ Ledger!Spend(seen[r])
         /\ used' = [used EXCEPT ![seen[r]] = @ + 1]
         /\ UNCHANGED sub
  BY DEF QuotaInv, LocksHeld, GrantedHolds, CallerCommits, Ledger!Spend

LEMMA LedgerStep == QuotaInv /\ [Next]_vars => [Ledger!Next]_<<sub, used>>
  BY OnlyCommitsSpend, SpendStep DEF Ledger!Next, Ledger!Move

\* The reservations and transitions, statement by statement, implement the
\* ledger of single steps.
THEOREM LedgerImplemented == Spec => ImplementsLedger
  <1>1. Init => Ledger!Init
    BY DEF Init, Ledger!Init
  <1>2. QuotaInv /\ [Next]_vars => [Ledger!Next]_Ledger!ledger
    BY LedgerStep DEF Ledger!ledger
  <1> QED
    BY <1>1, <1>2, QuotaCorrect, PTL DEF Spec, ImplementsLedger, Ledger!Spec

\* Every unit is spent by an ACTIVE merchant, in its period, within the quota
\* of its plan at that commit.
THEOREM NoOverspend == Spec => SpentUnderEntitlement
  <1>1. QuotaInv /\ [Next]_vars =>
          [\A d \in Periods : used'[d] > used[d] =>
             /\ sub.status = "ACTIVE" /\ sub.period = d
             /\ used'[d] <= Quota[sub.plan]
             /\ sub' = sub]_vars
    <2> SUFFICES ASSUME QuotaInv, [Next]_vars, NEW d \in Periods, used'[d] > used[d]
                 PROVE  /\ sub.status = "ACTIVE" /\ sub.period = d
                        /\ used'[d] <= Quota[sub.plan]
                        /\ sub' = sub
      OBVIOUS
    <2>1. PICK r \in Senders : pc[r] = "reserved" /\ CallerCommits(r)
      BY OnlyCommitsSpend DEF QuotaInv, TypeOK
    <2>2. d = seen[r]
      BY <2>1, SpendStep DEF QuotaInv, TypeOK
    <2> QED
      BY <2>1, <2>2, SpendStep, QuotaAssumption
      DEF QuotaInv, TypeOK, GrantedHolds, Subs
  <1> QED
    BY <1>1, QuotaCorrect, PTL DEF Spec, SpentUnderEntitlement
=============================================================================
