----------------------------- MODULE BillingInbox -----------------------------
(***************************************************************************)
(* The inbox of Razorpay's webhooks (billing.services, receive order) and    *)
(* what its syncs observe of it.  A webhook is a signal only: it is stored,  *)
(* a sync is enqueued, and an event is processed once a sync that settled    *)
(* has fetched its subscription after the event was received.                *)
(*                                                                         *)
(* Web hosts stamp events, workers stamp fetches; their clocks are at most   *)
(* Skew apart.  Ages are in ticks and stop at CapAge, where no comparison    *)
(* can tell them apart.  What a snapshot does to the row is Subscription and *)
(* Replacement; here it settles or not.                                     *)
(***************************************************************************)
EXTENDS Integers

CONSTANTS
  Events,   \* provider event ids
  Syncers,  \* runs of sync_subscription, of a webhook's task or of the sweep
  Skew,     \* EVENT_CLOCK_SKEW
  Settle,   \* EVENT_SETTLE_AFTER
  MaxSync   \* bound on the age of a fetch when it is applied

BillingInboxAssumption ==
  Skew \in Nat /\ Settle \in Nat /\ MaxSync \in Nat

VARIABLES
  event,    \* provider_event_id -> its row, or what there is of it
  main,     \* payment_provider_ref
  repl,     \* replacement_provider_ref; "gone" once it has left
  synced,   \* age of provider_synced_at
  queue,    \* sync_subscription tasks in the broker
  sync,
  observed  \* events a settled sync fetched after they were stored

vars == <<event, main, repl, synced, queue, sync, observed>>

Refs == {"old", "new"}
CapAge == MaxSync + 2 * Skew + Settle + 1

EventRows == [at : {"none", "lookedUp", "stored", "processed"},
              ref : Refs, age : 0..CapAge,
              offset : (-Skew)..Skew]  \* of the web host's clock

IdleSync == [pc |-> "idle", ref |-> "old", since |-> 0, saw |-> {}]

Init ==
  /\ event = [e \in Events |-> [at |-> "none", ref |-> "old", age |-> 0, offset |-> 0]]
  /\ main = "old" /\ repl = "none"
  /\ synced = CapAge
  /\ queue = 0
  /\ sync = [s \in Syncers |-> IdleSync]
  /\ observed = {}

Unprocessed == {e \in Events : event[e].at = "stored"}

-----------------------------------------------------------------------------
(* receive_webhook *)

\* Signature and event id have been verified; the ref is looked up.
LookUp(e, ref) ==
  /\ event[e].at = "none"
  /\ ref \in {main, repl}
  /\ event' = [event EXCEPT ![e] = [@ EXCEPT !.at = "lookedUp", !.ref = ref]]
  /\ UNCHANGED <<main, repl, synced, queue, sync, observed>>

\* The row is stored, then a sync is enqueued, which may fail.  An id that is
\* stored already is a duplicate: nothing is written and nothing enqueued.
Store(e, offset, enqueued) ==
  /\ event[e].at = "lookedUp"
  /\ event' = [event EXCEPT ![e] = [@ EXCEPT !.at = "stored", !.age = 0, !.offset = offset]]
  /\ queue' = IF enqueued THEN queue + 1 ELSE queue
  /\ UNCHANGED <<main, repl, synced, sync, observed>>

-----------------------------------------------------------------------------
(* sync_subscription *)

\* Mutant: the cutoff itself counts as before it.
NotAfter(age, offset, since) == age - offset >= since + Skew

\* created_at < fetch_started_at - EVENT_CLOCK_SKEW
Before(age, offset, since) == age - offset > since + Skew

Covered(s) ==
  {e \in Unprocessed : Before(event[e].age, event[e].offset, sync[s].since)}

Marked(marked) == [e \in Events |-> IF e \in marked THEN [event[e] EXCEPT !.at = "processed"]
                                    ELSE event[e]]

OfRef(ref) == {e \in Unprocessed : event[e].ref = ref}

OfOtherRefs == Unprocessed \ OfRef(repl)

\* sync_pending_events: no fetch when nothing is pending.
StartTask(s) ==
  /\ sync[s].pc = "idle" /\ queue > 0
  /\ queue' = queue - 1
  /\ sync' = IF Unprocessed = {} THEN sync ELSE [sync EXCEPT ![s].pc = "replacement"]
  /\ UNCHANGED <<event, main, repl, synced, observed>>

\* Mutant: the sweep looks at the subscription alone.
DueByRow == repl = "new"

MaintenanceDue == repl = "new" \/ \E e \in Unprocessed : event[e].age - event[e].offset >= Settle

\* run_billing_maintenance
Maintain(s) ==
  /\ sync[s].pc = "idle" /\ MaintenanceDue
  /\ sync' = [sync EXCEPT ![s].pc = "replacement"]
  /\ UNCHANGED <<event, main, repl, synced, queue, observed>>

Fetched(s, ref, stage) ==
  sync' = [sync EXCEPT ![s] = [pc |-> stage, ref |-> ref, since |-> 0, saw |-> OfRef(ref)]]

FetchReplacement(s) ==
  /\ sync[s].pc = "replacement"
  /\ IF repl = "new" THEN Fetched(s, repl, "applying") ELSE sync' = [sync EXCEPT ![s].pc = "main"]
  /\ UNCHANGED <<event, main, repl, synced, queue, observed>>

Apply(s, stage, marked) ==
  /\ event' = Marked(marked)
  /\ observed' = IF marked = {} THEN observed ELSE observed \cup sync[s].saw
  /\ sync' = [sync EXCEPT ![s] = [IdleSync EXCEPT !.pc = stage]]

\* _apply_replacement_snapshot: no change, a switch or an abandon, which marks
\* what the departed ref had.
ApplyReplacement(s) ==
  /\ sync[s].pc = "applying" /\ repl = sync[s].ref
  /\ \/ Apply(s, "main", Covered(s) \cap OfRef(repl)) /\ UNCHANGED <<main, repl, synced>>
     \/ /\ Apply(s, "main", Covered(s) \cap OfRef(repl))
        /\ main' = repl /\ repl' = "gone" /\ synced' = sync[s].since
     \/ Apply(s, "main", OfRef(repl)) /\ repl' = "gone" /\ UNCHANGED <<main, synced>>
  /\ UNCHANGED queue

FetchMain(s) ==
  /\ sync[s].pc = "main"
  /\ Fetched(s, main, "applyingMain")
  /\ UNCHANGED <<event, main, repl, synced, queue, observed>>

\* Only a fetch newer than the one applied last, of the ref the row has.
SettleMain(s) ==
  /\ sync[s].pc = "applyingMain" /\ main = sync[s].ref /\ sync[s].since < synced
  /\ Apply(s, "idle", Covered(s) \cap OfOtherRefs)
  /\ synced' = sync[s].since
  /\ UNCHANGED <<main, repl, queue>>

\* A failed fetch, a stale or unsettled snapshot: nothing is marked.
NotSettled(s) ==
  /\ sync[s].pc \in {"applying", "applyingMain"}
  /\ sync' = [sync EXCEPT ![s] =
                [IdleSync EXCEPT !.pc = IF sync[s].pc = "applying" THEN "main" ELSE "idle"]]
  /\ UNCHANGED <<event, main, repl, synced, queue, observed>>

-----------------------------------------------------------------------------
(* The row outside the syncs, and time *)

StartReplacement ==
  /\ repl = "none"
  /\ repl' = "new"
  /\ UNCHANGED <<event, main, synced, queue, sync, observed>>

Older(age) == IF age < CapAge THEN age + 1 ELSE age

Tick ==
  /\ \A s \in Syncers : sync[s].since < MaxSync
  /\ event' = [e \in Events |-> IF event[e].at = "stored"
                                THEN [event[e] EXCEPT !.age = Older(@)] ELSE event[e]]
  /\ synced' = Older(synced)
  /\ sync' = [s \in Syncers |-> IF sync[s].pc \in {"applying", "applyingMain"}
                                THEN [sync[s] EXCEPT !.since = @ + 1] ELSE sync[s]]
  /\ UNCHANGED <<main, repl, queue, observed>>

Next == \/ \E e \in Events : \/ \E ref \in Refs : LookUp(e, ref)
                             \/ \E offset \in (-Skew)..Skew, enqueued \in BOOLEAN :
                                  Store(e, offset, enqueued)
        \/ \E s \in Syncers : \/ StartTask(s) \/ Maintain(s)
                              \/ FetchReplacement(s) \/ ApplyReplacement(s)
                              \/ FetchMain(s) \/ SettleMain(s) \/ NotSettled(s)
        \/ StartReplacement \/ Tick

Spec == Init /\ [][Next]_vars

-----------------------------------------------------------------------------
(* Properties *)

TypeOK ==
  /\ event \in [Events -> EventRows]
  /\ main \in Refs /\ repl \in {"none", "new", "gone"}
  /\ synced \in 0..CapAge
  /\ queue \in Nat
  /\ sync \in [Syncers -> [pc : {"idle", "replacement", "applying", "main", "applyingMain"},
                           ref : Refs, since : 0..MaxSync, saw : SUBSET Events]]
  /\ observed \subseteq Events

\* An event is processed only when a sync that began after it was stored has
\* settled with its subscription, however the clocks differ within the margin
\* (sync_pending_events' "why the skip is safe"), or its ref has left the row.
ProcessedWasObserved ==
  \A e \in Events : event[e].at = "processed" =>
    e \in observed \/ event[e].ref \notin {main, repl}

InboxInv == TypeOK /\ ProcessedWasObserved
=============================================================================
