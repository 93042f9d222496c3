-------------------------------- MODULE Quota --------------------------------
(***************************************************************************)
(* The quota of one merchant: reserve_quota_unit against the transactions   *)
(* that change what it reads, the merchant's Subscription row, as billing's *)
(* services order them with two row locks, the Subscription and then the    *)
(* UsageRecord of its current period.                                       *)
(*                                                                         *)
(* A transaction's writes appear at its commit.  A transition, which holds  *)
(* the Subscription lock for the whole of its transaction, works on a       *)
(* draft of the row; a request may apply several before it commits.  A      *)
(* reservation runs inside its caller's transaction and its locks last      *)
(* until that ends.  Billing periods are identified by their bounds; time   *)
(* is the set of the periods that are over.                                 *)
(***************************************************************************)
EXTENDS Naturals

CONSTANTS
  Plans,
  Quota,          \* quota_requests of a plan
  Periods,
  NoPeriod,       \* period columns NULL
  Senders,        \* transactions that reserve a unit
  Changers,       \* transactions that change the Subscription
  SubscriptionRow,
  Free            \* a row nobody has locked

Procs == Senders \cup Changers
Rows  == Periods \cup {SubscriptionRow}

ASSUME QuotaAssumption ==
  /\ Quota \in [Plans -> Nat]
  /\ NoPeriod \notin Periods
  /\ SubscriptionRow \notin Periods
  /\ Senders \cap Changers = {}
  /\ Free \notin Procs

VARIABLES
  sub,      \* committed status, plan and period of the Subscription
  records,  \* periods with a committed UsageRecord
  used,     \* requests_used of each, 0 without one
  over,     \* periods whose end has passed
  lock,     \* row locks
  pc,       \* where each transaction is
  seen,     \* the period a reservation read before its lock
  draft,    \* the Subscription as the transaction holding its lock has it
  opened    \* UsageRecords that transaction has inserted

locals == <<pc, seen, draft, opened>>
vars   == <<sub, records, used, over, lock, locals>>

Statuses == {"INCOMPLETE", "ACTIVE", "PAST_DUE", "CANCELLED", "EXPIRED"}
Subs     == [status : Statuses, plan : Plans, period : Periods \cup {NoPeriod}]

Init ==
  /\ sub \in [status : {"INCOMPLETE"}, plan : Plans, period : {NoPeriod}]
  /\ records = {}
  /\ used = [d \in Periods |-> 0]
  /\ over = {}
  /\ lock = [row \in Rows |-> Free]
  /\ pc = [p \in Procs |-> "idle"]
  /\ seen = [r \in Senders |-> NoPeriod]
  /\ draft = sub
  /\ opened = {}

Goto(p, stage) == pc' = [pc EXCEPT ![p] = stage]

Acquire(p, row) ==
  /\ lock[row] = Free
  /\ lock' = [lock EXCEPT ![row] = p]

\* COMMIT or ROLLBACK.
Released(p) == [row \in Rows |-> IF lock[row] = p THEN Free ELSE lock[row]]

-----------------------------------------------------------------------------
(* reserve_quota_unit, in its caller's transaction *)

EntitledNow(s) == s.status = "ACTIVE" /\ s.period # NoPeriod /\ s.period \notin over

\* The first read, without a lock; a row not entitled ends the call at once.
ReadSubscription(r) ==
  /\ pc[r] = "idle"
  /\ EntitledNow(sub)
  /\ seen' = [seen EXCEPT ![r] = sub.period]
  /\ Goto(r, "reading")
  /\ UNCHANGED <<sub, records, used, over, lock, draft, opened>>

\* Mutant: the reservation takes the Subscription row after the UsageRecord.
LockedWithSubscription(d) == {d, SubscriptionRow}

\* The rows a reservation locks.
LockedByReservation(d) == {d}

\* The early return without a UsageRecord is never taken: PeriodHasItsRecord.
LockUsage(r) ==
  /\ pc[r] = "reading"
  /\ seen[r] \in records
  /\ \E row \in LockedByReservation(seen[r]) : Acquire(r, row)
  /\ UNCHANGED <<sub, records, used, over, locals>>

\* Mutant of StillEntitled: the period is not compared.
EntitledInSomePeriod(r) == EntitledNow(sub)

\* The second read, under the lock: status and period again.
StillEntitled(r) == EntitledNow(sub) /\ sub.period = seen[r]

\* Mutant: the quota may be reached and passed by one.
QuotaReached(r) == used[seen[r]] <= Quota[sub.plan]

HasQuota(r) == used[seen[r]] < Quota[sub.plan]

Recheck(r) ==
  /\ pc[r] = "reading"
  /\ \A row \in LockedByReservation(seen[r]) : lock[row] = r
  /\ Goto(r, IF StillEntitled(r) /\ HasQuota(r) THEN "reserved" ELSE "refused")
  /\ UNCHANGED <<sub, records, used, over, lock, seen, draft, opened>>

\* The caller commits: its increment with it.
CallerCommits(r) ==
  /\ pc[r] \in {"reserved", "refused"}
  /\ used' = IF pc[r] = "reserved" THEN [used EXCEPT ![seen[r]] = @ + 1] ELSE used
  /\ lock' = Released(r)
  /\ Goto(r, "idle")
  /\ seen' = [seen EXCEPT ![r] = NoPeriod]
  /\ UNCHANGED <<sub, records, over, draft, opened>>

\* The caller fails or dies, wherever it is.
CallerRollsBack(r) ==
  /\ pc[r] # "idle"
  /\ lock' = Released(r)
  /\ Goto(r, "idle")
  /\ seen' = [seen EXCEPT ![r] = NoPeriod]
  /\ UNCHANGED <<sub, records, used, over, draft, opened>>

-----------------------------------------------------------------------------
(* The transactions that change the Subscription *)

\* _lock_subscription: the Subscription row, then the row read again.
LockSubscription(t) ==
  /\ pc[t] = "idle"
  /\ Acquire(t, SubscriptionRow)
  /\ Goto(t, "locking")
  /\ draft' = sub
  /\ opened' = {}
  /\ UNCHANGED <<sub, records, used, over, seen>>

\* Mutant: a transition that writes no usage takes no UsageRecord lock.
NoUsageLock(t) == {}

\* The UsageRecord rows _lock_subscription's second query returns: that of the
\* row's current period, one this transaction inserted included.
UsageRowsOf(t) == {draft.period} \cap (records \cup opened)

\* A record of the transaction's own is locked by its insert.
LockCurrentUsage(t) ==
  /\ pc[t] = "locking"
  /\ \A d \in UsageRowsOf(t) : lock[d] \in {Free, t}
  /\ lock' = [row \in Rows |-> IF row \in UsageRowsOf(t) THEN t ELSE lock[row]]
  /\ Goto(t, "applying")
  /\ UNCHANGED <<sub, records, used, over, seen, draft, opened>>

\* A request that reconciles locks again what its own snapshot has left.
LockAgain(t) ==
  /\ pc[t] = "applying"
  /\ Goto(t, "locking")
  /\ UNCHANGED <<sub, records, used, over, lock, seen, draft, opened>>

\* _apply_active: an unchanged period of an ACTIVE row refreshes its plan;
\* anything else needs the period's paid proof, and opens its UsageRecord.
OpensPeriod(pl, d) == ~(draft.status = "ACTIVE" /\ draft.period = d)

Activated(pl, d) ==
  /\ draft' = [status |-> "ACTIVE", plan |-> pl, period |-> d]
  /\ opened' = IF OpensPeriod(pl, d) THEN opened \cup ({d} \ records) ELSE opened

\* _apply_payment_failed
PaymentFailed ==
  /\ draft.status = "ACTIVE"
  /\ draft' = [draft EXCEPT !.status = "PAST_DUE"]
  /\ UNCHANGED opened

\* _apply_terminal, _advance_past_due and _cancel_past_due
Ended ==
  /\ \/ draft.status = "ACTIVE"   /\ draft' = [draft EXCEPT !.status = "CANCELLED"]
     \/ draft.status = "PAST_DUE" /\ \E s \in {"CANCELLED", "EXPIRED"} :
                                       draft' = [draft EXCEPT !.status = s]
  /\ UNCHANGED opened

\* _store_new_provider_subscription
CheckedOutAgain(pl) ==
  /\ draft.status \in {"INCOMPLETE", "CANCELLED", "EXPIRED"}
  /\ draft' = [status |-> "INCOMPLETE", plan |-> pl, period |-> NoPeriod]
  /\ UNCHANGED opened

Apply(t) ==
  /\ pc[t] = "applying"
  /\ \/ \E pl \in Plans, d \in Periods : Activated(pl, d)
     \/ PaymentFailed
     \/ Ended
     \/ \E pl \in Plans : CheckedOutAgain(pl)
  /\ UNCHANGED <<sub, records, used, over, lock, pc, seen>>

\* Mutant: reset_usage_period starts an existing record again from zero.
UsageAfterReset == [d \in Periods |-> IF d = draft.period /\ draft # sub THEN 0 ELSE used[d]]

\* A new record starts at zero; one that exists is left as it is.
UsageAfterOpening == used

Commit(t) ==
  /\ pc[t] = "applying"
  /\ sub' = draft
  /\ records' = records \cup opened
  /\ used' = UsageAfterOpening
  /\ lock' = Released(t)
  /\ Goto(t, "idle")
  /\ opened' = {}
  /\ UNCHANGED <<over, seen, draft>>

Rollback(t) ==
  /\ pc[t] # "idle"
  /\ lock' = Released(t)
  /\ Goto(t, "idle")
  /\ draft' = sub
  /\ opened' = {}
  /\ UNCHANGED <<sub, records, used, over, seen>>

-----------------------------------------------------------------------------

PeriodEnds(d) ==
  /\ d \notin over
  /\ over' = over \cup {d}
  /\ UNCHANGED <<sub, records, used, lock, locals>>

Reservation(r) == \/ ReadSubscription(r)
                  \/ LockUsage(r)
                  \/ Recheck(r)
                  \/ CallerCommits(r)
                  \/ CallerRollsBack(r)

Transition(t) == \/ LockSubscription(t)
                 \/ LockCurrentUsage(t)
                 \/ LockAgain(t)
                 \/ Apply(t)
                 \/ Commit(t)
                 \/ Rollback(t)

Next == \/ \E r \in Senders : Reservation(r)
        \/ \E t \in Changers : Transition(t)
        \/ \E d \in Periods : PeriodEnds(d)

Spec == Init /\ [][Next]_vars

-----------------------------------------------------------------------------
(* Properties *)

TypeOK ==
  /\ sub \in Subs
  /\ records \subseteq Periods
  /\ used \in [Periods -> Nat]
  /\ over \subseteq Periods
  /\ lock \in [Rows -> Procs \cup {Free}]
  /\ pc \in [Procs -> {"idle", "reading", "reserved", "refused",
                       "locking", "applying"}]
  /\ seen \in [Senders -> Periods \cup {NoPeriod}]
  /\ draft \in Subs
  /\ opened \subseteq Periods

\* A Subscription with a period has that period's UsageRecord (the paid proof
\* opens it in the transaction that takes the period): without it an ACTIVE
\* merchant could never send.
PeriodHasItsRecord == sub.period # NoPeriod => sub.period \in records

\* A reservation that was granted is still right when its caller commits: the
\* merchant is ACTIVE in that period with a unit left, whatever transitions
\* ran since the call.
GrantedHolds ==
  \A r \in Senders : pc[r] = "reserved" =>
    /\ sub.status = "ACTIVE"
    /\ sub.period = seen[r]
    /\ used[seen[r]] < Quota[sub.plan]

\* What the locks give: a granted reservation has its period's record, and a
\* transition past its locks has the Subscription and the committed period's
\* record.
LocksHeld ==
  /\ \A r \in Senders :
       /\ pc[r] \in {"idle", "reading", "reserved", "refused"}
       /\ pc[r] \in {"reading", "reserved"} => seen[r] \in Periods
       /\ pc[r] = "reserved" => lock[seen[r]] = r
  /\ \A t \in Changers :
       /\ pc[t] \in {"idle", "locking", "applying"}
       /\ pc[t] # "idle" => lock[SubscriptionRow] = t
       /\ pc[t] = "locking" => \/ draft = sub
                              \/ sub.period = NoPeriod
                              \/ lock[sub.period] = t
       /\ pc[t] = "applying" => sub.period = NoPeriod \/ lock[sub.period] = t

\* A period a transition may commit has its record, or the transition opens it.
DraftHasItsRecord ==
  \A t \in Changers : pc[t] # "idle" /\ draft.period # NoPeriod =>
    draft.period \in records \cup opened

QuotaInv ==
  /\ TypeOK
  /\ PeriodHasItsRecord
  /\ GrantedHolds
  /\ LocksHeld
  /\ DraftHasItsRecord

\* Usage is never given back and never starts again: a renewal of the same
\* period, a recovery or a replayed snapshot leaves the count it found.
UsageOnlyGrows ==
  [][\A d \in Periods : /\ used'[d] >= used[d]
                        /\ d \in records => d \in records']_vars

\* A unit is spent only while the merchant is ACTIVE in that period, within
\* the quota of the plan in force at the commit (the lock of reserve_quota_unit
\* orders it against every transition).
SpentUnderEntitlement ==
  [][\A d \in Periods : used'[d] > used[d] =>
       /\ sub.status = "ACTIVE" /\ sub.period = d
       /\ used'[d] <= Quota[sub.plan]
       /\ sub' = sub]_vars

Ledger == INSTANCE QuotaLedger WITH entitlement <- sub, spent <- used

\* Reservations and transitions, interleaved statement by statement, look like
\* single steps on one ledger.
ImplementsLedger == Ledger!Spec
=============================================================================
