----------------------------- MODULE Subscription -----------------------------
(***************************************************************************)
(* One merchant's Subscription row and its subscriptions at Razorpay: the   *)
(* syncs that fetch and then apply, the dunning task, checkout and cancel,  *)
(* and the sweep that enqueues them.                                        *)
(*                                                                         *)
(* A sync reads the row, calls the provider with no transaction open, then  *)
(* locks and applies; the provider and the row may move at each of these    *)
(* points.  Checkout and cancel call the provider under the row lock, on a  *)
(* draft of the row that their commit publishes.  The order of fetches      *)
(* replaces their times: fetches lists the running ones, oldest first, and  *)
(* an applied one removes those before it, which is what the comparison     *)
(* with provider_synced_at does.  Plans, and the replacement subscription   *)
(* of a plan change, are left out: a checkout asks for the provider's own   *)
(* plan or for another one.                                                 *)
(***************************************************************************)
EXTENDS Naturals, Sequences, FiniteSets

CONSTANTS
  Refs,            \* provider subscription ids
  NoRef,
  MaxCycle,        \* bound on a subscription's billing cycles
  Syncers,         \* workers running a sync
  Dunners,         \* workers running the dunning task
  Owners,          \* checkout and cancel requests
  Free,            \* the row lock when nobody has it
  GRACE,           \* 7 days in the code
  DUNNING_STAGES,  \* {3, 6} in the code
  MaxFaults        \* bound on failed calls, crashes and lost messages

Procs == Syncers \cup Dunners \cup Owners

ASSUME SubscriptionAssumption ==
  /\ IsFiniteSet(Refs)
  /\ NoRef \notin Refs
  /\ MaxCycle \in Nat \ {0}
  /\ GRACE \in Nat \ {0}
  /\ DUNNING_STAGES \subseteq 1..GRACE - 1
  /\ MaxFaults \in Nat
  /\ Free \notin Procs
  /\ Syncers \cap (Dunners \cup Owners) = {}
  /\ Dunners \cap Owners = {}

VARIABLES
  row,      \* the committed Subscription row
  late,     \* its current_period_end has passed
  recent,   \* it was updated within INCOMPLETE_SWEEP_WINDOW
  age,      \* days since past_due_at, up to GRACE
  prov,     \* Razorpay's subscriptions
  offered,  \* refs the payer's browser has been given
  tasks,    \* messages of the default queue
  fetches,  \* syncs under way, in the order their fetches began
  lock,     \* the Subscription row lock
  draft,    \* the row as the request holding the lock has it
  pc,       \* where each process is
  read,     \* the ref, and the period it is ACTIVE in, each task has read
  got,      \* the provider subscription each process has fetched
  asOf,     \* the dunning task's now, as days since past_due_at
  faults    \* faults so far

clocks == <<late, recent, age>>
locals == <<pc, read, got, asOf>>
vars   == <<row, clocks, prov, offered, tasks, fetches, lock, draft, locals, faults>>

Status         == {"NONE", "INCOMPLETE", "ACTIVE", "PAST_DUE", "CANCELLED", "EXPIRED"}
Ended          == {"CANCELLED", "EXPIRED"}

\* "pending" stands for halted too, and "cancelled" for completed and expired:
\* the code tells none of them apart.
ProviderStatus == {"created", "authenticated", "active", "pending", "paused", "cancelled"}

TERMINAL_PROVIDER_STATUSES    == {"cancelled"}
CANCELLABLE_PROVIDER_STATUSES == {"created", "pending", "active"}

\* The stage of a row in no grace period: dunning_stage and past_due_at are
\* set and cleared together.
NoStage == GRACE

\* period is the billing cycle of ref, 0 for none; ending is
\* cancel_at_period_end.
Rows == [status : Status, ref : Refs \cup {NoRef}, period : 0..MaxCycle,
         stage : DUNNING_STAGES \cup {0, NoStage}, ending : BOOLEAN,
         provider_status : ProviderStatus]

NoRow == [status |-> "NONE", ref |-> NoRef, period |-> 0, stage |-> NoStage,
          ending |-> FALSE, provider_status |-> "created"]

\* A provider subscription: its status, cycle, the cycles with a paid invoice,
\* and whether it ends with its cycle.  "absent" is one not yet created.
ProviderSubs == [status : ProviderStatus \cup {"absent"}, cycle : 0..MaxCycle,
                 paid : SUBSET (1..MaxCycle), ending : BOOLEAN]

\* What a fetch returns: the subscription, and whether the invoices fetched
\* with it prove its cycle paid.
Snapshots == [ref : Refs \cup {NoRef}, status : ProviderStatus, cycle : 0..MaxCycle,
              proof : BOOLEAN]

NothingRead == [ref |-> NoRef, period |-> 0]

NoSnapshot == [ref |-> NoRef, status |-> "created", cycle |-> 0, proof |-> FALSE]

Init ==
  /\ row = NoRow
  /\ late = FALSE
  /\ recent = TRUE
  /\ age = 0
  /\ prov = [r \in Refs |-> [status |-> "absent", cycle |-> 0, paid |-> {},
                             ending |-> FALSE]]
  /\ offered = {}
  /\ tasks = {}
  /\ fetches = <<>>
  /\ lock = Free
  /\ draft = NoRow
  /\ pc = [p \in Procs |-> "idle"]
  /\ read = [p \in Syncers \cup Dunners |-> NothingRead]
  /\ got = [p \in Syncers \cup Owners |-> NoSnapshot]
  /\ asOf = [d \in Dunners |-> 0]
  /\ faults = 0

Goto(p, stage) == pc' = [pc EXCEPT ![p] = stage]

Fault == faults < MaxFaults /\ faults' = faults + 1

\* The clocks after the row becomes new: a grace period and a billing period
\* start from nothing, and a dunning task's now is before a grace period that
\* begins after it.
ClocksFollow(new) ==
  /\ late' = /\ late
             /\ new.status = "ACTIVE"
             /\ new.period = row.period
             /\ new.ref = row.ref
  /\ recent' = (recent \/ new.status # row.status \/ new.ref # row.ref)
  /\ age' = IF row.status = "PAST_DUE" /\ new.status = "PAST_DUE" THEN age ELSE 0
  /\ asOf' = IF row.status = "PAST_DUE" /\ new.status = "PAST_DUE" THEN asOf
             ELSE [d \in Dunners |-> 0]

-----------------------------------------------------------------------------
(* _apply_snapshot, on the row as its lock holder has it *)

\* Mutant: Razorpay's active needs no paid invoice (V4).
TakesUnpaid(s, f) == TRUE

\* _apply_active: a new period, or a row that is not ACTIVE, needs the proof.
TakesPeriod(s, f) == f.proof

Activated(s, f) ==
  IF (s.status = "ACTIVE" /\ s.period = f.cycle) \/ ~TakesPeriod(s, f) THEN s
  ELSE [s EXCEPT !.status = "ACTIVE",
                 !.period = f.cycle,
                 !.stage  = NoStage,
                 !.ending = @ /\ s.status \in {"ACTIVE", "PAST_DUE"}]

\* Mutant: every failed payment starts the grace period again.
PaymentFailedAgain(s) ==
  IF s.status \in {"ACTIVE", "PAST_DUE"}
    THEN [s EXCEPT !.status = "PAST_DUE", !.stage = 0] ELSE s

\* _apply_payment_failed
PaymentFailed(s) ==
  IF s.status = "ACTIVE" THEN [s EXCEPT !.status = "PAST_DUE", !.stage = 0] ELSE s

\* _apply_terminal
Terminated(s) ==
  CASE s.status = "ACTIVE"   -> [s EXCEPT !.status = "CANCELLED"]
    [] s.status = "PAST_DUE" -> [s EXCEPT !.status = IF age >= GRACE THEN "EXPIRED"
                                                                    ELSE "CANCELLED",
                                          !.stage = NoStage]
    [] OTHER                 -> s

Applied(s, f) ==
  LET new == CASE f.status = "active"                        -> Activated(s, f)
               [] f.status = "pending"                       -> PaymentFailed(s)
               [] f.status \in TERMINAL_PROVIDER_STATUSES    -> Terminated(s)
               [] OTHER                                      -> s
  IN IF f.ref # s.ref THEN s ELSE [new EXCEPT !.provider_status = f.status]

\* The period an ACTIVE row has already.
ActivePeriod(s) == IF s.status = "ACTIVE" THEN s.period ELSE 0

\* The subscription r, and _fetch_invoices_if_needed: invoices only for an
\* active one in another period than the one the caller has read.  The cycle of
\* any other is not read.
Fetched(r, period) ==
  LET proof == /\ prov[r].status = "active"
               /\ prov[r].cycle # period
               /\ prov[r].cycle \in prov[r].paid
  IN [ref    |-> r,
      status |-> prov[r].status,
      cycle  |-> IF prov[r].status = "active" THEN prov[r].cycle ELSE 0,
      proof  |-> proof]

Running(p) == \E i \in DOMAIN fetches : fetches[i] = p

Place(p) == CHOOSE i \in DOMAIN fetches : fetches[i] = p

\* The fetches that began after p's: an applied snapshot makes the others old.
After(p) == SubSeq(fetches, Place(p) + 1, Len(fetches))

Without(p) == IF Running(p) THEN SubSeq(fetches, 1, Place(p) - 1) \o After(p) ELSE fetches

-----------------------------------------------------------------------------
(* run_billing_maintenance, receive_webhook and sync_subscription *)

\* Mutants: the sweep forgets a row that has ended, has lapsed, is in its grace
\* period, or waits for its first payment.
DueUntilEnded(s) ==
  \/ s.status = "INCOMPLETE" /\ recent
  \/ s.status = "ACTIVE" /\ late
  \/ s.status = "PAST_DUE"

DueUnlessLapsed(s) ==
  \/ s.status = "INCOMPLETE" /\ recent
  \/ s.status = "PAST_DUE"
  \/ s.status \in Ended /\ s.provider_status \notin TERMINAL_PROVIDER_STATUSES

DueUnlessPastDue(s) ==
  \/ s.status = "INCOMPLETE" /\ recent
  \/ s.status = "ACTIVE" /\ late
  \/ s.status \in Ended /\ s.provider_status \notin TERMINAL_PROVIDER_STATUSES

DueUnlessIncomplete(s) ==
  \/ s.status = "ACTIVE" /\ late
  \/ s.status = "PAST_DUE"
  \/ s.status \in Ended /\ s.provider_status \notin TERMINAL_PROVIDER_STATUSES

\* maintenance_due; its unprocessed events are ReceiveWebhook's.
MaintenanceDue(s) ==
  \/ s.status = "INCOMPLETE" /\ recent
  \/ s.status = "ACTIVE" /\ late
  \/ s.status = "PAST_DUE"
  \/ s.status \in Ended /\ s.provider_status \notin TERMINAL_PROVIDER_STATUSES

RunMaintenance ==
  /\ MaintenanceDue(row)
  /\ tasks' = tasks \cup {"sync", "dunning"}
  /\ UNCHANGED <<row, clocks, prov, offered, fetches, lock, draft, locals, faults>>

\* An event whose ref resolves to the row enqueues a sync.
ReceiveWebhook ==
  /\ row.ref # NoRef
  /\ tasks' = tasks \cup {"sync"}
  /\ UNCHANGED <<row, clocks, prov, offered, fetches, lock, draft, locals, faults>>

LoseTask(t) ==
  /\ t \in tasks
  /\ Fault
  /\ tasks' = tasks \ {t}
  /\ UNCHANGED <<row, clocks, prov, offered, fetches, lock, draft, locals>>

\* _sync_main reads the row; its fetch begins.
SyncRead(p) ==
  /\ pc[p] = "idle"
  /\ "sync" \in tasks
  /\ tasks' = tasks \ {"sync"}
  /\ Goto(p, "fetching")
  /\ read' = [read EXCEPT ![p] = [ref |-> row.ref, period |-> ActivePeriod(row)]]
  /\ fetches' = Append(fetches, p)
  /\ UNCHANGED <<row, clocks, prov, offered, lock, draft, got, asOf, faults>>

SyncFetch(p) ==
  /\ pc[p] = "fetching"
  /\ got' = [got EXCEPT ![p] = Fetched(read[p].ref, read[p].period)]
  /\ read' = [read EXCEPT ![p] = NothingRead]
  /\ Goto(p, "fetched")
  /\ UNCHANGED <<row, clocks, prov, offered, tasks, fetches, lock, draft, asOf, faults>>

SyncEnds(p) ==
  /\ Goto(p, "idle")
  /\ read' = [read EXCEPT ![p] = NothingRead]
  /\ got' = [got EXCEPT ![p] = NoSnapshot]

\* A provider error, or the worker dies: nothing is applied.
SyncFails(p) ==
  /\ pc[p] \in {"fetching", "fetched"}
  /\ Fault
  /\ SyncEnds(p)
  /\ fetches' = Without(p)
  /\ UNCHANGED <<row, clocks, prov, offered, tasks, lock, draft, asOf>>

\* Mutant: no comparison with provider_synced_at.
FreshWhenRefMatches(p) == got[p].ref = row.ref

\* The stale-apply guard.
Fresh(p) == got[p].ref = row.ref /\ Running(p)

SyncApply(p) ==
  /\ pc[p] = "fetched"
  /\ lock = Free
  /\ LET new == IF Fresh(p) THEN Applied(row, got[p]) ELSE row
     IN row' = new /\ ClocksFollow(new)
  /\ fetches' = IF Fresh(p) /\ Running(p) THEN After(p) ELSE Without(p)
  /\ SyncEnds(p)
  /\ UNCHANGED <<prov, offered, tasks, lock, draft, faults>>

-----------------------------------------------------------------------------
(* advance_dunning *)

DunningStart(d) ==
  /\ pc[d] = "idle"
  /\ "dunning" \in tasks
  /\ tasks' = tasks \ {"dunning"}
  /\ asOf' = [asOf EXCEPT ![d] = age]
  /\ Goto(d, "dunning")
  /\ UNCHANGED <<row, clocks, prov, offered, fetches, lock, draft, read, got, faults>>

\* Mutant: the grace period ends a day early.
GraceOverEarly(days) == days >= GRACE - 1

GraceOver(days) == days >= GRACE

\* Mutant: a checkpoint is due the day before.
AdvancedEarly(s, days) ==
  LET due == {n \in DUNNING_STAGES : days + 1 >= n /\ n > s.stage}
  IN IF GraceOver(days) THEN [s EXCEPT !.status = "EXPIRED", !.stage = NoStage]
     ELSE IF due = {} THEN s
     ELSE [s EXCEPT !.stage = CHOOSE n \in due : \A m \in due : m <= n]

\* _advance_past_due: expiry, or the highest checkpoint due, never back.
Advanced(s, days) ==
  LET due == {n \in DUNNING_STAGES : days >= n /\ n > s.stage}
  IN IF GraceOver(days) THEN [s EXCEPT !.status = "EXPIRED", !.stage = NoStage]
     ELSE IF due = {} THEN s
     ELSE [s EXCEPT !.stage = CHOOSE n \in due : \A m \in due : m <= n]

AdvanceDunning(d) ==
  /\ pc[d] = "dunning"
  /\ lock = Free
  /\ LET new == IF row.status = "PAST_DUE" THEN Advanced(row, asOf[d]) ELSE row
     IN row' = new /\ ClocksFollow(new)
  /\ Goto(d, "owing")
  /\ UNCHANGED <<prov, offered, tasks, fetches, lock, draft, read, got, faults>>

\* _retry_owed_provider_cancel: the ref of a row that has ended.
OwedCancel(d) ==
  /\ pc[d] = "owing"
  /\ IF row.status \in Ended /\ row.provider_status \in CANCELLABLE_PROVIDER_STATUSES
       THEN /\ Goto(d, "cancelling")
            /\ read' = [read EXCEPT ![d] = [ref |-> row.ref, period |-> 0]]
       ELSE Goto(d, "idle") /\ UNCHANGED read
  /\ UNCHANGED <<row, clocks, prov, offered, tasks, fetches, lock, draft, got, asOf,
                 faults>>

\* What Razorpay has after an immediate cancel; it refuses one that has ended.
MayCancel(r) == prov[r].status \notin TERMINAL_PROVIDER_STATUSES

CancelledNow(r) == [prov EXCEPT ![r].status = "cancelled"]

DunningEnds(d) ==
  /\ Goto(d, "idle")
  /\ read' = [read EXCEPT ![d] = NothingRead]

ProviderCancels(d) ==
  /\ pc[d] = "cancelling"
  /\ MayCancel(read[d].ref)
  /\ prov' = CancelledNow(read[d].ref)
  /\ Goto(d, "recording")
  /\ UNCHANGED <<row, clocks, offered, tasks, fetches, lock, draft, read, got, asOf,
                 faults>>

ProviderRefuses(d) ==
  /\ pc[d] = "cancelling"
  /\ ~MayCancel(read[d].ref)
  /\ DunningEnds(d)
  /\ UNCHANGED <<row, clocks, prov, offered, tasks, fetches, lock, draft, got, asOf,
                 faults>>

\* A failed call, whose outcome is unknown, or the worker dies.
DunningFails(d) ==
  /\ pc[d] # "idle"
  /\ Fault
  /\ DunningEnds(d)
  /\ prov' \in IF pc[d] = "cancelling" /\ MayCancel(read[d].ref)
                THEN {prov, CancelledNow(read[d].ref)} ELSE {prov}
  /\ UNCHANGED <<row, clocks, offered, tasks, fetches, lock, draft, got, asOf>>

\* The answer is recorded only on a row that still has the ref.
RecordCancel(d) ==
  /\ pc[d] = "recording"
  /\ lock = Free
  /\ row' = IF row.ref = read[d].ref
              THEN [row EXCEPT !.provider_status = "cancelled"] ELSE row
  /\ DunningEnds(d)
  /\ UNCHANGED <<clocks, prov, offered, tasks, fetches, lock, draft, got, asOf, faults>>

-----------------------------------------------------------------------------
(* start_checkout and cancel_subscription *)

\* The request ends with what its savepoints have kept.
CommitRequest(o) ==
  /\ pc[o] = "ending"
  /\ row' = draft
  /\ ClocksFollow(draft)
  /\ offered' = IF draft.status = "INCOMPLETE" THEN offered \cup {draft.ref} ELSE offered
  /\ fetches' = IF Running(o) THEN After(o) ELSE fetches
  /\ lock' = Free
  /\ draft' = NoRow
  /\ Goto(o, "idle")
  /\ got' = [got EXCEPT ![o] = NoSnapshot]
  /\ UNCHANGED <<prov, tasks, read, faults>>

\* The process dies: its transaction is rolled back, the provider is not.
CrashRequest(o) ==
  /\ pc[o] # "idle"
  /\ Fault
  /\ fetches' = Without(o)
  /\ lock' = Free
  /\ draft' = NoRow
  /\ Goto(o, "idle")
  /\ got' = [got EXCEPT ![o] = NoSnapshot]
  /\ UNCHANGED <<row, clocks, prov, offered, tasks, read, asOf>>

\* The steps of a request touch its draft and the provider only.
InRequest == UNCHANGED <<row, clocks, offered, tasks, lock, read, asOf>>

Begin(o, stage) ==
  /\ pc[o] = "idle"
  /\ lock = Free
  /\ lock' = o
  /\ draft' = row
  /\ Goto(o, stage)
  /\ UNCHANGED <<row, clocks, prov, offered, tasks, fetches, read, got, asOf, faults>>

\* Without a row the insert of _first_checkout takes the row's unique key; the
\* loser of a race waits for it and finds the row.
StartCheckout(o) ==
  \/ row.status = "NONE" /\ Begin(o, "creating")
  \/ row.status \notin {"NONE", "PAST_DUE"} /\ Begin(o, "reconciling")

CancelSubscription(o) ==
  \/ row.status = "PAST_DUE" /\ Begin(o, "cancelling_past_due")
  \/ row.status = "ACTIVE" /\ ~row.ending /\ Begin(o, "cancel_reconciling")

\* _reconcile: fetch and apply under the lock; the steps after it read the
\* entity's status.
ReconcileDraft(o) ==
  LET f == Fetched(draft.ref, ActivePeriod(draft))
  IN /\ draft' = Applied(draft, f)
     /\ got' = [got EXCEPT ![o] = [NoSnapshot EXCEPT !.status = f.status]]
     /\ fetches' = Append(Without(o), o)

Reconcile(o) ==
  /\ \/ pc[o] = "reconciling" /\ Goto(o, "routing")
     \/ pc[o] = "cancel_reconciling" /\ Goto(o, "cancel_routing")
  /\ ReconcileDraft(o)
  /\ InRequest
  /\ UNCHANGED <<prov, faults>>

\* The request answers without a further step: it is refused, or the provider
\* subscription is kept.  A create fails when Refs, the bound on creates, is
\* used up.
Answers(o) ==
  /\ \/ /\ pc[o] = "routing"
        /\ \/ draft.status \in {"ACTIVE", "PAST_DUE"}
           \/ got[o].status \in {"authenticated", "paused"}
           \/ /\ draft.status = "INCOMPLETE"
              /\ got[o].status \notin TERMINAL_PROVIDER_STATUSES
     \/ /\ pc[o] = "cancel_routing"
        /\ \/ draft.status \in Ended
           \/ draft.status = "ACTIVE" /\ got[o].status = "paused"
     \/ pc[o] = "creating" /\ \A r \in Refs : prov[r].status # "absent"
  /\ Goto(o, "ending")
  /\ InRequest
  /\ UNCHANGED <<prov, draft, got, fetches, faults>>

\* _checkout_active, an upgrade: update_subscription's answer is a snapshot;
\* Razorpay refuses to update one that is not active.
UpgradeNow(o) ==
  /\ pc[o] = "routing"
  /\ draft.status = "ACTIVE" /\ ~draft.ending /\ got[o].status # "paused"
  /\ prov[draft.ref].status = "active"
  /\ ReconcileDraft(o)
  /\ Goto(o, "ending")
  /\ InRequest
  /\ UNCHANGED <<prov, faults>>

\* _checkout_incomplete and _checkout_ended: another subscription replaces the
\* row's, which is cancelled first unless it has ended.
ReplaceSubscription(o) ==
  /\ pc[o] = "routing"
  /\ \/ /\ draft.status \in Ended \cup {"INCOMPLETE"}
        /\ got[o].status \in TERMINAL_PROVIDER_STATUSES
        /\ Goto(o, "creating")
     \/ /\ \/ draft.status = "INCOMPLETE" /\ got[o].status = "created"
           \/ draft.status \in Ended /\ got[o].status \in CANCELLABLE_PROVIDER_STATUSES
        /\ Goto(o, "cancelling_old")
  /\ InRequest
  /\ UNCHANGED <<prov, draft, got, fetches, faults>>

\* Mutant: a new subscription is created whatever the cancel answered.
CreateAnyway == "creating"

\* Where a failed or refused cancel leads: a 502.
AfterFailedCancel == "ending"

CancelOld(o) ==
  /\ pc[o] = "cancelling_old"
  /\ IF MayCancel(draft.ref)
       THEN prov' = CancelledNow(draft.ref) /\ Goto(o, "creating")
       ELSE prov' = prov /\ Goto(o, AfterFailedCancel)
  /\ InRequest
  /\ UNCHANGED <<draft, got, fetches, faults>>

\* Mutant: the flag of the previous lifecycle is kept.
NewRowKeepsFlag(r) ==
  [status |-> "INCOMPLETE", ref |-> r, period |-> 0, stage |-> NoStage,
   ending |-> draft.ending, provider_status |-> "created"]

\* _store_new_provider_subscription
NewRow(r) ==
  [status |-> "INCOMPLETE", ref |-> r, period |-> 0, stage |-> NoStage,
   ending |-> FALSE, provider_status |-> "created"]

Created(r) == [prov EXCEPT ![r].status = "created"]

\* A place in fetches ends with the ref it was for.
CreateNew(o, r) ==
  /\ pc[o] = "creating"
  /\ prov[r].status = "absent"
  /\ prov' = Created(r)
  /\ draft' = NewRow(r)
  /\ Goto(o, "ending")
  /\ InRequest
  /\ UNCHANGED <<got, fetches, faults>>

\* _cancel_at_period_end
CancelAtPeriodEnd(o) ==
  /\ pc[o] = "cancel_routing"
  /\ draft.status = "ACTIVE" /\ got[o].status # "paused"
  /\ Goto(o, "ending")
  /\ IF MayCancel(draft.ref)
       THEN /\ prov' = [prov EXCEPT ![draft.ref].ending = TRUE]
            /\ draft' = [draft EXCEPT !.ending = TRUE]
       ELSE UNCHANGED <<prov, draft>>
  /\ InRequest
  /\ UNCHANGED <<got, fetches, faults>>

\* _cancel_past_due: the row first, then the provider where it may be touched.
CancelPastDue(o) ==
  /\ \/ pc[o] = "cancelling_past_due"
     \/ (pc[o] = "cancel_routing" /\ draft.status = "PAST_DUE")
  /\ draft' = [draft EXCEPT !.status = "CANCELLED", !.stage = NoStage]
  /\ Goto(o, IF draft.provider_status \in CANCELLABLE_PROVIDER_STATUSES
               THEN "cancelling_now" ELSE "ending")
  /\ InRequest
  /\ UNCHANGED <<prov, got, fetches, faults>>

CancelNow(o) ==
  /\ pc[o] = "cancelling_now"
  /\ Goto(o, "ending")
  /\ IF MayCancel(draft.ref)
       THEN /\ prov' = CancelledNow(draft.ref)
            /\ draft' = [draft EXCEPT !.provider_status = "cancelled"]
       ELSE UNCHANGED <<prov, draft>>
  /\ InRequest
  /\ UNCHANGED <<got, fetches, faults>>

\* A provider call fails; what it did at Razorpay is not known.
Outcomes(o) ==
  CASE pc[o] \in {"cancelling_old", "cancelling_now"} ->
         IF MayCancel(draft.ref) THEN {prov, CancelledNow(draft.ref)} ELSE {prov}
    [] pc[o] = "creating" ->
         {prov} \cup {Created(r) : r \in {q \in Refs : prov[q].status = "absent"}}
    [] pc[o] = "cancel_routing" ->
         {prov, [prov EXCEPT ![draft.ref].ending = TRUE]}
    [] OTHER -> {prov}

CallFails(o) ==
  /\ Fault
  /\ \/ pc[o] \in {"reconciling", "cancel_reconciling", "cancelling_old", "creating",
                    "cancelling_now"}
     \/ pc[o] = "cancel_routing" /\ draft.status = "ACTIVE"
  /\ prov' \in Outcomes(o)
  /\ Goto(o, IF pc[o] = "cancelling_old" THEN AfterFailedCancel ELSE "ending")
  /\ InRequest
  /\ UNCHANGED <<draft, got, fetches>>

-----------------------------------------------------------------------------
(* Razorpay, the payer and time *)

Becomes(r, status) == prov' = [prov EXCEPT ![r].status = status]

Bills(r, status, paid) ==
  /\ prov[r].cycle < MaxCycle /\ ~prov[r].ending
  /\ prov' = [prov EXCEPT ![r].status = status,
                          ![r].cycle = @ + 1,
                          ![r].paid = IF paid THEN @ \cup {prov[r].cycle + 1} ELSE @]

Pays(r) == prov' = [prov EXCEPT ![r].status = "active",
                               ![r].paid = @ \cup {prov[r].cycle}]

ProviderMoves(r) ==
  /\ CASE prov[r].status = "created" ->
            \/ Becomes(r, "cancelled")
            \/ r \in offered /\ Becomes(r, "authenticated")
       [] prov[r].status = "authenticated" -> Bills(r, "active", TRUE)
       [] prov[r].status = "active" ->
            \/ Bills(r, "active", TRUE)
            \/ Bills(r, "pending", FALSE)
            \/ prov[r].cycle \notin prov[r].paid /\ Pays(r)
            \/ Becomes(r, "cancelled")
            \/ Becomes(r, "paused")
       [] prov[r].status = "pending" -> Pays(r) \/ Becomes(r, "active")
       [] prov[r].status = "paused"  -> Becomes(r, "active")
       [] OTHER -> FALSE
  /\ UNCHANGED <<row, clocks, offered, tasks, fetches, lock, draft, locals, faults>>

DayPasses ==
  /\ row.status = "PAST_DUE" /\ age < GRACE
  /\ age' = age + 1
  /\ UNCHANGED <<row, late, recent, prov, offered, tasks, fetches, lock, draft, locals,
                 faults>>

PeriodEnds ==
  /\ row.status = "ACTIVE" /\ ~late
  /\ late' = TRUE
  /\ UNCHANGED <<row, recent, age, prov, offered, tasks, fetches, lock, draft, locals,
                 faults>>

WindowEnds ==
  /\ row.status = "INCOMPLETE" /\ recent
  /\ recent' = FALSE
  /\ UNCHANGED <<row, late, age, prov, offered, tasks, fetches, lock, draft, locals,
                 faults>>

-----------------------------------------------------------------------------

Sync(p) == SyncRead(p) \/ SyncFetch(p) \/ SyncFails(p) \/ SyncApply(p)

Dunning(d) == \/ DunningStart(d)
              \/ AdvanceDunning(d)
              \/ OwedCancel(d)
              \/ ProviderCancels(d)
              \/ ProviderRefuses(d)
              \/ DunningFails(d)
              \/ RecordCancel(d)

\* A request that has begun goes on.
RequestStep(o) == \/ Reconcile(o)
                  \/ Answers(o)
                  \/ UpgradeNow(o)
                  \/ ReplaceSubscription(o)
                  \/ CancelOld(o)
                  \/ \E r \in Refs : CreateNew(o, r)
                  \/ CancelAtPeriodEnd(o)
                  \/ CancelPastDue(o)
                  \/ CancelNow(o)
                  \/ CommitRequest(o)

Request(o) == \/ StartCheckout(o)
              \/ CancelSubscription(o)
              \/ RequestStep(o)
              \/ CallFails(o)
              \/ CrashRequest(o)

Next == \/ RunMaintenance
        \/ ReceiveWebhook
        \/ \E t \in tasks : LoseTask(t)
        \/ \E p \in Syncers : Sync(p)
        \/ \E d \in Dunners : Dunning(d)
        \/ \E o \in Owners : Request(o)
        \/ \E r \in Refs : ProviderMoves(r)
        \/ DayPasses
        \/ PeriodEnds
        \/ WindowEnds

Spec == Init /\ [][Next]_vars

-----------------------------------------------------------------------------

Stages == {"idle", "fetching", "fetched", "dunning", "owing", "cancelling", "recording",
           "reconciling", "routing", "cancelling_old", "creating", "cancel_reconciling",
           "cancel_routing", "cancelling_past_due", "cancelling_now", "ending"}

TypeOK ==
  /\ row \in Rows /\ draft \in Rows
  /\ late \in BOOLEAN /\ recent \in BOOLEAN
  /\ age \in 0..GRACE
  /\ prov \in [Refs -> ProviderSubs]
  /\ offered \subseteq Refs
  /\ tasks \subseteq {"sync", "dunning"}
  /\ fetches \in Seq(Syncers \cup Owners)
  /\ lock \in Owners \cup {Free}
  /\ pc \in [Procs -> Stages]
  /\ read \in [Syncers \cup Dunners -> [ref : Refs \cup {NoRef}, period : 0..MaxCycle]]
  /\ got \in [Syncers \cup Owners -> Snapshots]
  /\ asOf \in [Dunners -> 0..GRACE]
  /\ faults \in 0..MaxFaults

\* Fail closed (V4): a row that grants entitlement is in a billing cycle of its
\* own provider subscription with a paid invoice, whichever of sync, checkout
\* and cancel moved it, and however old the snapshot was that they applied.
Entitling(s) == s.status \in {"ACTIVE", "PAST_DUE"}

PaidFor(s) == Entitling(s) => s.ref \in Refs /\ s.period \in prov[s.ref].paid

EntitledIsPaid == PaidFor(row)

\* "Two live provider subscriptions never exist for one merchant": across
\* concurrent checkouts, the owed cancel and calls with an unknown outcome, at
\* most one subscription can be charged, and it is the row's.
Live(r) == prov[r].status \in {"authenticated", "active", "pending", "paused"}

OneLive == \A r \in DOMAIN prov : Live(r) => r = row.ref

\* A row has a dunning stage exactly while it is PAST_DUE, and has reached it
\* in the days of this grace period: a dunning task that began in an earlier one
\* moves nothing.
GraceEpisode ==
  /\ row.status = "PAST_DUE" <=> row.stage # NoStage
  /\ row.status = "PAST_DUE" => row.stage <= age

\* The row's cancel_at_period_end is about the subscription the row has now:
\* Razorpay was asked to end that one, or has ended it.
EndingIsAsked ==
  row.ending => \/ prov[row.ref].ending
                \/ prov[row.ref].status \in TERMINAL_PROVIDER_STATUSES

\* A row is PAST_DUE for a cycle after the last it was paid in: a snapshot that
\* is older than an applied one does not take a recovered row back.
PastDueOwes == row.status = "PAST_DUE" => row.period < prov[row.ref].cycle

\* What it takes of Razorpay when several syncs run at once: of two, the one that
\* began first is answered first.  The code compares the times when fetches began.
AnswersInOrder ==
  \A i, j \in DOMAIN fetches :
    LET p == fetches[i]
        q == fetches[j]
    IN i < j /\ pc[q] = "fetching" /\ pc'[q] = "fetched" => pc[p] # "fetching"

\* Only seven days in the grace period expire a row, whoever does it: the
\* dunning task with its own, earlier now, or a sync of an ended subscription.
ExpiresAfterGrace ==
  row.status # "EXPIRED" /\ row'.status = "EXPIRED"
    => row.status = "PAST_DUE" /\ age >= GRACE

ExpiredOnlyAfterGrace == [][ExpiresAfterGrace]_vars

\* Each failed payment Razorpay reports during a grace period leaves its stage
\* where it is: the period is neither restarted nor extended.
KeepsStage ==
  row.status = "PAST_DUE" /\ row'.status = "PAST_DUE" => row'.stage >= row.stage

GraceNotRestarted == [][KeepsStage]_vars

\* What the documentation says of the owed cancel: it ends no subscription that
\* is active with a paid current period.
OwedCancelSparesPaid ==
  [][\A d \in Dunners :
       LET r == read[d].ref
       IN pc[d] = "cancelling" /\ prov' # prov
            => ~(prov[r].status = "active" /\ prov[r].cycle \in prov[r].paid)]_vars

\* A grace period ends, with or without Razorpay.
GraceEnds == row.status = "PAST_DUE" ~> row.status # "PAST_DUE"

\* A row does not go on granting entitlement on a subscription Razorpay has
\* ended, though its webhook was lost.
ProviderEnded(r) ==
  Entitling(row) /\ row.ref = r /\ prov[r].status \in TERMINAL_PROVIDER_STATUSES

SeesProviderEnd == \A r \in Refs : ProviderEnded(r) ~> ~ProviderEnded(r)

\* Once a row that has ended is known to have a subscription that may still
\* charge its payer, that subscription is cancelled in the end, whatever call
\* failed or task was lost before.
Owed(r) ==
  /\ row.status \in Ended /\ row.ref = r
  /\ row.provider_status \in CANCELLABLE_PROVIDER_STATUSES
  /\ prov[r].status \notin TERMINAL_PROVIDER_STATUSES

OwedCancelDone == \A r \in Refs : Owed(r) ~> ~Owed(r)

\* A paid first checkout is seen within the sweep's window without its webhook.
PaidUnseen(r) ==
  /\ row.status = "INCOMPLETE" /\ row.ref = r /\ recent
  /\ prov[r].status = "active" /\ prov[r].cycle \in prov[r].paid

PaidCheckoutActivates == \A r \in Refs : PaidUnseen(r) ~> ~PaidUnseen(r)

=============================================================================
