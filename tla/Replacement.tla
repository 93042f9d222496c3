----------------------------- MODULE Replacement -----------------------------
(***************************************************************************)
(* Changing the plan of a subscription that Razorpay refuses to update: a   *)
(* second subscription, its replacement, is authorised by the payer and     *)
(* takes over (billing.services, spec 07-plan-change-replacement).          *)
(*                                                                         *)
(* The row begins ACTIVE on the Old subscription.  An owner's request holds *)
(* the row lock across its Razorpay calls and commits its draft at the end. *)
(* A sync takes the lock only for each of its transactions; a re-read under *)
(* the lock decides alone what is committed, so both are one step.  Plans   *)
(* are abstracted to the kind of change, periods to whether the current one *)
(* of the Old subscription is over.  The gates that the shipped settings    *)
(* leave closed are open here.                                             *)
(***************************************************************************)
EXTENDS Naturals

CONSTANTS
  Old,          \* the subscription the row begins with
  Replacements, \* refs of replacements
  NoRef,
  Kinds,        \* of plan change
  Syncers,
  Owner,        \* the request; one at a time, by the row lock
  Free,
  MaxFaults     \* bound on failed Razorpay calls and deaths

ReplacementAssumption ==
  /\ Old \notin Replacements
  /\ NoRef \notin Replacements \cup {Old}
  /\ Free # Owner
  /\ Kinds \subseteq {"UPGRADE", "DOWNGRADE"}
  /\ MaxFaults \in Nat

VARIABLES
  row,      \* the committed Subscription row
  lapsed,   \* replacement_expires_at has passed
  over,     \* the Old subscription's period has ended
  prov,     \* Razorpay's subscriptions
  offered,  \* replacements whose checkout was handed to the payer
  sync,
  lock,
  owner,    \* the request's stage
  draft,    \* what it will commit
  faults

vars == <<row, lapsed, over, prov, offered, sync, lock, owner, draft, faults>>

Refs == {Old} \cup Replacements

Rows == [status : {"ACTIVE", "PAST_DUE", "ENDED", "INCOMPLETE"},   \* ENDED: CANCELLED, EXPIRED
         ref : Refs \cup {NoRef},
         ending : BOOLEAN,                            \* cancel_at_period_end
         repl : Replacements \cup {NoRef},
         kind : {"UPGRADE", "DOWNGRADE"},
         committed : BOOLEAN, confirmed : BOOLEAN,
         retired : Refs \cup {NoRef},
         retiredKind : {"none", "SWITCHED_OLD", "ABANDONED_REPLACEMENT"}]

ProviderSubs == [status : {"absent", "created", "authenticated", "active", "pending", "ended"},
                 paid : BOOLEAN,       \* the current period has its paid invoice
                 ending : {"no", "merchant", "downgrade"}]  \* at its cycle end, and who asked

Absent == [status |-> "absent", paid |-> FALSE, ending |-> "no"]

Nothing == [ref |-> NoRef, entity |-> Absent]

IdleSync == [pc |-> "idle", got |-> Nothing, old |-> NoRef, repl |-> NoRef, fresh |-> TRUE]

FirstRow == [status |-> "ACTIVE", ref |-> Old, ending |-> FALSE, repl |-> NoRef,
             kind |-> "UPGRADE", committed |-> FALSE, confirmed |-> FALSE,
             retired |-> NoRef, retiredKind |-> "none"]

Init ==
  /\ row = FirstRow
  /\ lapsed = FALSE /\ over = FALSE
  /\ prov = [r \in Refs |-> IF r = Old THEN [Absent EXCEPT !.status = "active", !.paid = TRUE]
                            ELSE Absent]
  /\ offered = {}
  /\ sync = [s \in Syncers |-> IdleSync]
  /\ lock = Free
  /\ owner = "idle"
  /\ draft = FirstRow
  /\ faults = 0

Fault == faults < MaxFaults /\ faults' = faults + 1

-----------------------------------------------------------------------------
(* What moves the row *)

Failed(e) == e.status \in {"pending", "ended"}      \* _REPLACEMENT_FAILED
NotActive(e) == e.status \in {"created", "authenticated"} \/ Failed(e)

\* The abandon test for an ACTIVE row.
FailedOrLapsed(e) == Failed(e) \/ (e.status = "created" /\ lapsed)

Cleared(q) == [q EXCEPT !.repl = NoRef, !.committed = FALSE, !.confirmed = FALSE]

\* _retire_replacement
Retired(q) ==
  [Cleared(q) EXCEPT !.retired = q.repl, !.retiredKind = "ABANDONED_REPLACEMENT"]

SlotIsFree(q) == q.retired = NoRef

\* _abandon_unless_active, by the replacement as it is now; the re-read may fail.
MayAbandon(q, abandonable) ==
  q.repl # NoRef /\ ~q.committed /\ abandonable /\ SlotIsFree(q)

\* A row that ends or enters grace takes its uncommitted replacement along.
WithoutReplacement(q) ==
  IF q.repl # NoRef /\ MayAbandon(q, NotActive(prov[q.repl])) THEN Retired(q) ELSE q

\* switch_to_replacement
Switched(q) ==
  [Cleared(q) EXCEPT !.status = "ACTIVE", !.ref = q.repl, !.ending = FALSE,
                     !.retired = q.ref, !.retiredKind = "SWITCHED_OLD"]

\* Mutant: an active replacement needs no paid proof.
ProvedBy(e) == e.status = "active"

Paid(e) == e.status = "active" /\ e.paid

\* Rule 5.
Defers(q) == q.status = "ACTIVE" /\ q.repl # NoRef /\ q.committed

\* _apply_snapshot on the row's own subscription, as far as it matters here.
MainApplied(q, e) ==
  CASE Paid(e) /\ q.status \in {"PAST_DUE", "ENDED"} ->
         [q EXCEPT !.status = "ACTIVE", !.ending = IF q.status = "ENDED" THEN FALSE ELSE @]
    [] e.status = "pending" /\ q.status = "ACTIVE" ->
         WithoutReplacement([q EXCEPT !.status = "PAST_DUE"])
    [] e.status = "ended" /\ q.status \in {"ACTIVE", "PAST_DUE"} /\ ~Defers(q) ->
         WithoutReplacement([q EXCEPT !.status = "ENDED"])
    [] OTHER -> q

-----------------------------------------------------------------------------
(* sync_subscription: the replacement, the main subscription, the retired one *)

Unlocked == lock = Free

Goto(s, stage) == sync' = [sync EXCEPT ![s] = [IdleSync EXCEPT !.pc = stage]]
Answered(s, stage) == sync' = [sync EXCEPT ![s].pc = stage]

Fetched(s, ref, stage) ==
  sync' = [sync EXCEPT ![s] = [@ EXCEPT !.pc = stage, !.fresh = TRUE,
                                        !.got = [ref |-> ref, entity |-> prov[ref]]]]

SyncReplacement(s) ==
  /\ sync[s].pc = "idle"
  /\ IF row.repl # NoRef THEN Fetched(s, row.repl, "applying") ELSE Goto(s, "main")
  /\ UNCHANGED <<row, lapsed, over, prov, offered, lock, owner, draft, faults>>

\* _apply_replacement_snapshot
Applied(e) ==
  CASE e.status = "active" ->
         IF Paid(e) /\ row.status \in {"ACTIVE", "PAST_DUE"} /\ SlotIsFree(row)
         THEN Switched(row) ELSE row
    [] row.committed ->
         IF Failed(e) /\ Failed(prov[row.repl]) /\ SlotIsFree(row) THEN Retired(row) ELSE row
    [] OTHER ->
         LET test(x) == IF row.status = "ACTIVE" THEN FailedOrLapsed(x) ELSE NotActive(x) IN
         IF test(e) /\ MayAbandon(row, test(prov[row.repl])) THEN Retired(row) ELSE row

ApplyReplacement(s) ==
  LET got == sync[s].got IN
  /\ sync[s].pc = "applying" /\ Unlocked
  /\ row' = IF row.repl = got.ref THEN Applied(got.entity) ELSE row
  /\ Goto(s, IF got.entity.status = "authenticated" THEN "committing" ELSE "main")
  /\ UNCHANGED <<lapsed, over, prov, offered, lock, owner, draft, faults>>

Candidate == row.status = "ACTIVE" /\ row.repl # NoRef /\ ~row.committed

Authenticated == Candidate /\ row.kind = "DOWNGRADE" /\ prov[row.repl].status = "authenticated"

Committed == [row EXCEPT !.committed = TRUE]

\* commit_downgrade_replacement, T1; what fails verification is abandoned.
CommitDowngrade(s) ==
  /\ sync[s].pc = "committing" /\ Unlocked
  /\ IF Authenticated /\ ~lapsed
     THEN /\ row' = Committed
          /\ sync' = [sync EXCEPT ![s] = [@ EXCEPT !.pc = "cancelling", !.old = row.ref,
                                                   !.repl = row.repl]]
     ELSE /\ row' = IF Authenticated /\ SlotIsFree(row) THEN Retired(row) ELSE row
          /\ Goto(s, "reissuing")
  /\ UNCHANGED <<lapsed, over, prov, offered, lock, owner, draft, faults>>

\* Razorpay schedules a cancel at the cycle end, also a second time.
Schedulable(ref) == prov[ref].status \in {"authenticated", "active", "pending"}
Scheduled(ref, asked) == [prov EXCEPT ![ref].ending = IF @ = "no" THEN asked ELSE @]

\* The call for the old subscription: confirmed, refused, or with an outcome
\* nobody knows, which counts as committed.
CancelOld(s) ==
  LET old == sync[s].old IN
  /\ sync[s].pc = "cancelling"
  /\ \/ Schedulable(old) /\ prov' = Scheduled(old, "downgrade") /\ Answered(s, "confirmed") /\ UNCHANGED faults
     \/ ~Schedulable(old) /\ Answered(s, "refused") /\ UNCHANGED <<prov, faults>>
     \/ Fault /\ prov[old].ending = "no" /\ Answered(s, "refused") /\ UNCHANGED prov
     \/ /\ Fault /\ Goto(s, "main")
        /\ prov' \in {prov} \cup {p \in {Scheduled(old, "downgrade")} : Schedulable(old)}
  /\ UNCHANGED <<row, lapsed, over, offered, lock, owner, draft>>

SameCommit(s) == row.ref = sync[s].old /\ row.repl = sync[s].repl /\ row.committed

\* T2
RecordOutcome(s) ==
  /\ sync[s].pc \in {"confirmed", "refused"} /\ Unlocked
  /\ row' = IF ~SameCommit(s) THEN row
            ELSE IF sync[s].pc = "confirmed" THEN [row EXCEPT !.confirmed = TRUE]
            ELSE WithoutReplacement([row EXCEPT !.committed = FALSE])
  /\ Goto(s, IF SameCommit(s) /\ sync[s].pc = "confirmed" THEN "main" ELSE "reissuing")
  /\ UNCHANGED <<lapsed, over, prov, offered, lock, owner, draft, faults>>

\* _reissue_committed_cancel
ReissueCancel(s) ==
  /\ sync[s].pc = "reissuing"
  /\ IF row.status = "ACTIVE" /\ row.repl # NoRef /\ row.committed /\ ~row.confirmed
     THEN sync' = [sync EXCEPT ![s] = [@ EXCEPT !.pc = "repeating", !.old = row.ref,
                                                !.repl = row.repl]]
     ELSE Goto(s, "main")
  /\ UNCHANGED <<row, lapsed, over, prov, offered, lock, owner, draft, faults>>

RepeatCancel(s) ==
  LET old == sync[s].old IN
  /\ sync[s].pc = "repeating"
  /\ \/ Schedulable(old) /\ prov' = Scheduled(old, "downgrade") /\ Answered(s, "repeated") /\ UNCHANGED faults
     \/ ~Schedulable(old) /\ Goto(s, "main") /\ UNCHANGED <<prov, faults>>
     \/ Fault /\ Goto(s, "main") /\ UNCHANGED prov
  /\ UNCHANGED <<row, lapsed, over, offered, lock, owner, draft>>

RecordRepeated(s) ==
  /\ sync[s].pc = "repeated" /\ Unlocked
  /\ row' = IF SameCommit(s) THEN [row EXCEPT !.confirmed = TRUE] ELSE row
  /\ Goto(s, "main")
  /\ UNCHANGED <<lapsed, over, prov, offered, lock, owner, draft, faults>>

SyncMain(s) ==
  /\ sync[s].pc = "main"
  /\ IF row.ref # NoRef THEN Fetched(s, row.ref, "applyingMain") ELSE Goto(s, "retired")
  /\ UNCHANGED <<row, lapsed, over, prov, offered, lock, owner, draft, faults>>

\* Not when the row has another ref, or a request reconciled it meanwhile.
ApplyMain(s) ==
  LET got == sync[s].got IN
  /\ sync[s].pc = "applyingMain" /\ Unlocked
  /\ row' = IF row.ref = got.ref /\ sync[s].fresh THEN MainApplied(row, got.entity) ELSE row
  /\ Goto(s, "retired")
  /\ UNCHANGED <<lapsed, over, prov, offered, lock, owner, draft, faults>>

\* _retired_may_be_cancelled
RetiredMayBeCancelled(kind, e) ==
  e.status # "ended" /\ (kind = "SWITCHED_OLD" \/ e.status \in {"created", "authenticated"})

ConfirmedEnded(e) == e.status = "ended"

SyncRetired(s) ==
  LET e == prov[row.retired] IN
  /\ sync[s].pc = "retired"
  /\ IF row.retired # NoRef /\ (e.status = "ended" \/ RetiredMayBeCancelled(row.retiredKind, e))
     THEN Fetched(s, row.retired, IF e.status = "ended" THEN "clearing" ELSE "ending")
     ELSE Goto(s, "idle")
  /\ UNCHANGED <<row, lapsed, over, prov, offered, lock, owner, draft, faults>>

Ended(ref) == [prov EXCEPT ![ref].status = "ended"]

CancelRetired(s) ==
  LET ref == sync[s].got.ref IN
  /\ sync[s].pc = "ending"
  /\ \/ prov' = Ended(ref) /\ Answered(s, "clearing") /\ UNCHANGED faults
     \/ Fault /\ prov' \in {prov, Ended(ref)}
        /\ IF ConfirmedEnded(prov[ref]) THEN Answered(s, "clearing") ELSE Goto(s, "idle")
  /\ UNCHANGED <<row, lapsed, over, offered, lock, owner, draft>>

ClearRetired(s) ==
  /\ sync[s].pc = "clearing" /\ Unlocked
  /\ row' = IF row.retired = sync[s].got.ref
            THEN [row EXCEPT !.retired = NoRef, !.retiredKind = "none"] ELSE row
  /\ Goto(s, "idle")
  /\ UNCHANGED <<lapsed, over, prov, offered, lock, owner, draft, faults>>

\* A failed fetch, a task that dies, a sync that never comes.
SyncFails(s) ==
  /\ sync[s].pc # "idle"
  /\ Fault
  /\ sync' = [sync EXCEPT ![s] = IdleSync]
  /\ UNCHANGED <<row, lapsed, over, prov, offered, lock, owner, draft>>

-----------------------------------------------------------------------------
(* The owner's requests *)

Answer == owner' = "idle" /\ lock' = Free /\ draft' = FirstRow

Begin(stage, q) == lock' = Owner /\ owner' = stage /\ draft' = q

\* start_plan_change_replacement, after Razorpay refused the update.
StartReplacement(kind) ==
  /\ owner = "idle" /\ Unlocked
  /\ row.status = "ACTIVE" /\ ~row.ending /\ row.repl = NoRef /\ row.retired = NoRef
  /\ kind = "DOWNGRADE" => ~over
  /\ Begin("creating", [row EXCEPT !.kind = kind])
  /\ UNCHANGED <<row, lapsed, over, prov, offered, sync, faults>>

CreateReplacement(r) ==
  /\ owner = "creating" /\ prov[r].status = "absent"
  /\ prov' = [prov EXCEPT ![r].status = "created"]
  /\ draft' = [draft EXCEPT !.repl = r]
  /\ owner' = "committing"
  /\ UNCHANGED <<row, lapsed, over, offered, sync, lock, faults>>

\* _cancel_and_retire_replacement: what a request does about a pending one.
Cancellable(e) == e.status \in {"created", "authenticated"}

MayRetire == SlotIsFree(row) /\ NotActive(prov[row.repl])

\* POST /billing/replacement/cancel
CancelReplacement ==
  /\ owner = "idle" /\ Unlocked
  /\ row.repl # NoRef /\ ~row.committed /\ MayRetire
  /\ IF Cancellable(prov[row.repl]) THEN Begin("cancelling", row) ELSE Begin("committing", Retired(row))
  /\ UNCHANGED <<row, lapsed, over, prov, offered, sync, faults>>

\* POST /billing/cancel: a committed downgrade is cancelled like any other.
CancelSubscription ==
  /\ owner = "idle" /\ Unlocked
  /\ row.status \in {"ACTIVE", "PAST_DUE"}
  /\ row.repl # NoRef => MayRetire
  /\ CASE row.repl = NoRef -> Begin("reconciling", row)
       [] row.repl # NoRef /\ Cancellable(prov[row.repl]) -> Begin("cancellingFirst", row)
       [] OTHER -> Begin("reconciling", Retired(row))
  /\ UNCHANGED <<row, lapsed, over, prov, offered, sync, faults>>

CancelAtRazorpay ==
  /\ owner \in {"cancelling", "cancellingFirst"}
  /\ prov' = Ended(draft.repl)
  /\ draft' = Retired(draft)
  /\ owner' = IF owner = "cancelling" THEN "committing" ELSE "reconciling"
  /\ UNCHANGED <<row, lapsed, over, offered, sync, lock, faults>>

\* cancel_subscription's own part: a no-op when the row is ending already;
\* otherwise an ACTIVE row is reconciled first, and a PAST_DUE one ends at once.
Reconcile ==
  /\ owner = "reconciling"
  /\ IF draft.status = "ACTIVE" /\ ~draft.ending
     THEN LET q == MainApplied(draft, prov[draft.ref]) IN
          /\ draft' = CASE q.status = "PAST_DUE" -> WithoutReplacement([q EXCEPT !.status = "ENDED"])
                        [] OTHER -> q
          /\ owner' = IF q.status = "ACTIVE" THEN "scheduling" ELSE "committing"
          /\ sync' = [s \in Syncers |-> [sync[s] EXCEPT !.fresh = sync[s].pc # "applyingMain"]]
     ELSE /\ draft' = IF draft.status = "PAST_DUE"
                      THEN WithoutReplacement([draft EXCEPT !.status = "ENDED"]) ELSE draft
          /\ owner' = "committing"
          /\ UNCHANGED sync
  /\ UNCHANGED <<row, lapsed, over, prov, offered, lock, faults>>

CancelAtPeriodEnd ==
  /\ owner = "scheduling" /\ Schedulable(draft.ref)
  /\ prov' = Scheduled(draft.ref, "merchant")
  /\ draft' = [draft EXCEPT !.ending = TRUE]
  /\ owner' = "committing"
  /\ UNCHANGED <<row, lapsed, over, offered, sync, lock, faults>>

\* A checkout on an ended row whose subscription Razorpay has ended:
\* _clear_replacement_before_reset, and the row starts anew.
ResetEnded ==
  /\ owner = "idle" /\ Unlocked
  /\ row.status = "ENDED" /\ row.ref # NoRef /\ prov[row.ref].status = "ended"
  /\ row.repl # NoRef => MayAbandon(row, NotActive(prov[row.repl]))
  /\ Begin("committing", [WithoutReplacement(row) EXCEPT !.status = "INCOMPLETE", !.ref = NoRef])
  /\ UNCHANGED <<row, lapsed, over, prov, offered, sync, faults>>

CommitRequest ==
  /\ owner = "committing"
  /\ row' = draft
  /\ lapsed' = IF draft.repl # row.repl THEN FALSE ELSE lapsed
  /\ offered' = offered \cup ({draft.repl} \ {NoRef})
  /\ Answer
  /\ UNCHANGED <<over, prov, sync, faults>>

\* A refusal, a failed call with whatever it did, or the process dies: ROLLBACK.
RequestFails ==
  /\ owner # "idle"
  /\ Fault
  /\ prov' \in {prov} \cup
       CASE owner \in {"cancelling", "cancellingFirst"} -> {Ended(draft.repl)}
         [] owner = "scheduling" /\ Schedulable(draft.ref) -> {Scheduled(draft.ref, "merchant")}
         [] owner = "creating" -> {[prov EXCEPT ![r].status = "created"] :
                                     r \in {q \in Replacements : prov[q].status = "absent"}}
         [] OTHER -> {}
  /\ Answer
  /\ UNCHANGED <<row, lapsed, over, offered, sync>>

-----------------------------------------------------------------------------
(* Razorpay, the payer and time *)

Becomes(r, status, paid) == prov' = [prov EXCEPT ![r].status = status, ![r].paid = paid]

ProviderMoves(r) ==
  LET e == prov[r] IN
  /\ \/ e.status = "created" /\ r \in offered /\ ~lapsed /\ Becomes(r, "authenticated", FALSE)
     \/ e.status = "created" /\ lapsed /\ Becomes(r, "ended", FALSE)
     \/ /\ e.status = "authenticated"                  \* the first charge
        /\ r = row.repl /\ row.kind = "DOWNGRADE" => over
        /\ \/ Becomes(r, "active", FALSE) \/ Becomes(r, "pending", FALSE)
     \/ e.status = "active" /\ ~e.paid /\ Becomes(r, "active", TRUE)
     \/ e.status = "active" /\ e.ending = "no" /\ Becomes(r, "pending", e.paid)
     \/ e.status = "active" /\ e.ending # "no" /\ over /\ Becomes(r, "ended", e.paid)
     \/ e.status = "pending" /\ (Becomes(r, "active", TRUE) \/ Becomes(r, "ended", e.paid))
  /\ UNCHANGED <<row, lapsed, over, offered, sync, lock, owner, draft, faults>>

DeadlinePasses ==
  /\ row.repl # NoRef /\ ~lapsed
  /\ lapsed' = TRUE
  /\ UNCHANGED <<row, over, prov, offered, sync, lock, owner, draft, faults>>

\* expires_at and the commit cutoff come before the period's end, by a margin
\* that outlasts the requests and calls that began before them.
PeriodEnds ==
  /\ ~over /\ owner = "idle"
  /\ \A s \in Syncers : sync[s].pc \notin {"cancelling", "confirmed", "refused", "repeating"}
  /\ row.repl # NoRef /\ row.kind = "DOWNGRADE" => lapsed
  /\ over' = TRUE
  /\ UNCHANGED <<row, lapsed, prov, offered, sync, lock, owner, draft, faults>>

SyncStep(s) == \/ SyncReplacement(s) \/ ApplyReplacement(s)
               \/ CommitDowngrade(s) \/ CancelOld(s) \/ RecordOutcome(s)
               \/ ReissueCancel(s) \/ RepeatCancel(s) \/ RecordRepeated(s)
               \/ SyncMain(s) \/ ApplyMain(s)
               \/ SyncRetired(s) \/ CancelRetired(s) \/ ClearRetired(s)

RequestStep == \/ \E r \in Replacements : CreateReplacement(r)
               \/ CancelAtRazorpay \/ Reconcile \/ CancelAtPeriodEnd \/ CommitRequest

Next == \/ \E s \in Syncers : SyncStep(s) \/ SyncFails(s)
        \/ \E kind \in Kinds : StartReplacement(kind)
        \/ CancelReplacement \/ CancelSubscription \/ ResetEnded
        \/ RequestStep \/ RequestFails
        \/ \E r \in Refs : ProviderMoves(r)
        \/ DeadlinePasses \/ PeriodEnds

Spec == Init /\ [][Next]_vars

-----------------------------------------------------------------------------
(* Properties *)

TypeOK ==
  /\ row \in Rows /\ draft \in Rows
  /\ prov \in [Refs -> ProviderSubs]
  /\ offered \subseteq Replacements
  /\ lock \in {Owner, Free}
  /\ faults \in 0..MaxFaults

\* A subscription that can still charge the payer is never forgotten: the row
\* names it as its own, as the replacement or as the retired one, through every
\* switch, abandon, refusal, failed call and lost answer.
Charges(r) == prov[r].status \in {"authenticated", "active", "pending"}

NothingForgotten ==
  \A r \in Refs : Charges(r) => r \in {row.ref, row.repl, row.retired}

\* A row runs on a replacement only when Razorpay has its paid invoice.
SwitchedIsPaid == row.ref \in Replacements => prov[row.ref].paid

\* A downgrade ends the old subscription of an ACTIVE row only under a durable
\* commit; a commit is given up only for a cancel or a replacement that failed.
EndsForAReason ==
  row.status = "ACTIVE" /\ row.ref = Old /\ prov[Old].ending = "downgrade" =>
    row.committed \/ row.ending \/ row.retired # NoRef
    \/ \E r \in Replacements : prov[r].status = "ended"

\* What is recorded as confirmed has been asked of the subscription the row has.
ConfirmedWasAsked ==
  row.confirmed => row.committed /\ (prov[row.ref].ending # "no" \/ prov[row.ref].status = "ended")

ReplacementInv ==
  TypeOK /\ NothingForgotten /\ SwitchedIsPaid /\ EndsForAReason /\ ConfirmedWasAsked
=============================================================================
