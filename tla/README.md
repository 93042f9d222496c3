# ReviewFlow: TLA+ models and proofs

ReviewFlow is a multi-tenant Django monolith: HTTP requests, Celery workers and a
Celery Beat schedule share one PostgreSQL database under READ COMMITTED, and talk to
Redis (the broker), Razorpay, Google Business Profile, Meta and Shopify. This directory holds
TLA+ models of the parts whose correctness depends on the order of things, the TLC
configurations that check them, and proofs checked by TLAPS.

## The system

| Component | State it keeps | Operations | Talks to |
|---|---|---|---|
| Event pipeline (`events`) | IntegrationEvent: status, attempt_count, location | record_event, process_event, retry_failed_events | integrations (adapters, mappings), transactions, the `events` queue |
| Ingestion (`integrations`) | Integration, mappings | receive_webhook, ingest_api_sale, import_csv_rows, connect, disconnect, mapping edits | events |
| Sales (`transactions`, `customers`) | Transaction, Customer counter and opt-out | record_sale, opt_out_customer | called by process_event and by the STOP fan-out |
| Shopify app (`integrations/shopify`) | install nonce, pending credentials, Integration | install, callback, link, uninstall webhook | Shopify |
| Quota (`billing`) | UsageRecord per period | reserve_quota_unit, reset_usage_period, get_entitlement | read by senders; ordered against the subscription |
| Subscription (`billing`) | one Subscription row per merchant | checkout, cancel, sync, dunning, maintenance | Razorpay |
| Plan-change replacement (`billing`) | replacement and retired columns of that row | start, commit (T1, provider cancel, T2), switch, abandon | Razorpay |
| Billing inbox (`billing`) | BillingEvent | receive_webhook, sync_pending_events | the `default` queue |
| Google connection (`google_reviews`) | OAuth attempt, connection | begin, callback, complete, expire, disconnect | Google |
| Review sync (`google_reviews`) | Review rows | sync per location, from Beat | Google |
| WhatsApp (`whatsapp`) | accounts, sender mapping, templates, signup state | connect, set sender, disconnect, submit template | Meta |
| STOP fan-out (`whatsapp`) | none of its own | webhook, fan-out task, per-merchant opt-out | customers |
| Accounts (`accounts`) | Merchant, TeamMember, invitations, TOTP | team changes, login, staff TOTP | sessions |
| API keys, tenancy, audit (`apikeys`, `core`, `auditlog`) | keys; the connection's tenant context; log rows | authenticate, tenant_context, record | every component |

Campaigns, message sending and analytics appear in the docs only; `PROJECT.json` lists
them, and every other part, with its status. The hazards this code is exposed to are in
`PROJECT.json` too, each at its line, with the properties that cover it.

What is hard here: two workers with one event; a disconnect that meets a worker; a
savepoint inside a transaction whose hooks run after it; state read before a lock or a
provider call and used after it; provider calls whose outcome is unknown; Beat as the
only retry; and rows that end while something else still refers to them.

### How the parts interact

- A POS or shop calls a webhook, or the merchant's own program calls `POST /sales`.
  The request reads the Integration, stores an IntegrationEvent and, for a webhook,
  enqueues a Celery message from an on_commit hook. A worker locks the event row, and
  inside a savepoint parses it, resolves a location and calls record_sale. A failed
  attempt is counted; a Beat task every five minutes publishes again what is due.
- A disconnect locks the Integration, cancels pending events with one UPDATE and removes
  the mappings in the same transaction.
- A checkout or cancel locks the Subscription row and calls Razorpay under that lock. A
  webhook stores a BillingEvent and enqueues a sync; the sync reads the row, calls
  Razorpay with nothing locked, then locks the row and applies what it fetched. Beat
  enqueues a sync and the dunning task every 15 minutes for the merchants that need one.
- A new paid period opens a UsageRecord. A sender takes a unit from it through
  reserve_quota_unit, whose caller holds no other lock; every transition that changes
  the entitlement locks the Subscription first and the UsageRecord second.
- Google and Meta are called by workers with no transaction open, and each result is
  applied by a conditional UPDATE or under a lock, if the row is still what was read.
- STOP messages reach a fan-out task that opts the phone out merchant by merchant.
- Every query runs in a tenant context that sets the connection's row-level security.

### What makes each part correct

| Component | Correct means |
|---|---|
| Event pipeline, sales | an event is sold at most once and where it was recorded; a terminal status is final; retries are bounded and spaced; every event settles |
| Disconnect | what it found pending is never left pending; it never deadlocks with a worker |
| Quota | no unit is spent outside the entitlement in force, or beyond the quota; usage is never given back |
| Subscription | entitlement only on a paid cycle of the row's own subscription; one live subscription; the grace period is seven days, once; owed cancels are made |
| Replacement | a subscription that can charge is never forgotten; the row runs on a replacement only once it is paid; a refused commit leaves the old plan as it was |
| Billing inbox | no event is marked processed that no fetch has observed; every stored event is processed |
| Google connection | a code is used once; a late answer never overwrites a newer authorisation; every attempt ends |
| Google reviews | reviews and counters are those of the location now mapped; a mapped location is synchronised |
| WhatsApp | no mapping to a suspended number; a template agrees with Meta; a STOP reaches every merchant it is owed by or is reported |
| Accounts | a merchant keeps an owner; an invitation is accepted in its newest form; a code is used once |
| Shopify, CSV | a connected shop is subscribed to both topics; no row of an accepted file is lost |

## Modules

| Module | Models |
|---|---|
| `EventPipeline` | the event inbox of one integration: record_event, process_event, the sweep, the disconnect |
| `SaleInbox` | what that inbox promises |
| `MCEventPipeline` | its instances for TLC |
| `EventPipelineProofs` | its theorems |
| `Quota` | reserve_quota_unit against the transactions that change the subscription |
| `QuotaLedger` | what it promises its callers |
| `MCQuota` | its instances for TLC |
| `QuotaProofs` | its theorems |
| `Subscription` | the row and its provider subscriptions: checkout, cancel, sync, dunning, sweep |
| `MCSubscription`, `MCSubscriptionLive` | its instances for TLC, for safety and for liveness |
| `SubscriptionProofs` | its theorems |
| `Replacement` | the plan-change replacement: start, commit, switch, abandon, the retired subscription |
| `BillingInbox` | Razorpay's webhooks as stored events, and the syncs that observe them |
| `GoogleConnection` | OAuth attempts, the exchange of their codes, the refresh of tokens |
| `GoogleReviews` | mapping a location to a Google location, and the paged review sync |
| `WhatsAppSenders` | own and shared numbers, their activation and disconnect, the locations mapped to them |
| `MessageTemplates` | a template's submission, and the poll of Meta's verdict |
| `OptOut` | a STOP from Meta's webhook to every merchant |
| `Team` | members, invitations, roles and assigned locations |
| `Totp` | the second factor: enrolment, login, recovery codes, disabling |
| `ShopifyInstall` | install, callback, pending installation, link, uninstall, and the logins in between |
| `CsvImport` | the upload of a file and the task that records its rows |
| `Components` | the eleven modules above side by side, each on its own |
| `MCComponents` | its instances for TLC, for safety |
| `AccountsProofs` | theorems of `Team` and `Totp` |
| `IntegrationsProofs` | theorems of `CsvImport` and `ShopifyInstall` |
| `WhatsAppProofs` | theorems of `WhatsAppSenders`, `MessageTemplates` and `OptOut` |
| `GoogleProofs` | theorems of `GoogleReviews` and `GoogleConnection` |
| `BillingProofs` | theorems of `BillingInbox` and `Replacement` |
| `MCProgress` | `GoogleConnection`, `GoogleReviews`, `OptOut`, `BillingInbox` and `Quota` in one run, for liveness |

`PROJECT.json` gives, for each definition that models code, the lines it stands for.

### EventPipeline

`status`, `attempts`, `location` are the IntegrationEvent's columns as committed; `sale`
is the Transaction table by its unique key (location, external id) and names the event
that inserted the row; `counter` is Customer.total_transactions; `integ` and `mapping`
are the Integration's status and what its mappings resolve to. `lock` is the row locks;
a row inserted and not committed is a locked one whose status is still NONE. `sees` and
`place` are what a process has read and may be stale.

`ReceiveWebhook` / `IngestApiSale` and `RecordEvent*` are receive_webhook,
ingest_api_sale and record_event. `TakeMessage` to `RecordFailure` are process_event, a
step for each point where another transaction can commit between two of its
statements. `Sweep`, `EnqueueRetry` are retry_failed_events and its hooks. `Disconnect*`
is disconnect_integration: PostgreSQL finds the rows of an UPDATE in one snapshot, then
waits for each row's lock and tests the row again, which is why it is three steps.
`Crash`, `LoseMessage`, `EnqueueFails` are the faults.

`SaleInbox` is the promise: an event is accepted once, then sold once or dropped, and
a sale appears with the event that is sold. ImplementsSaleInbox maps FAILED to
"pending" and both DEAD_LETTER and CANCELLED to "dropped".

### Quota

`sub` is the committed Subscription, `draft` the one its lock holder works on, `records`
and `used` the UsageRecords. A reservation reads the Subscription without a lock
(`ReadSubscription`), waits for the UsageRecord (`LockUsage`), reads again and takes the
unit (`Recheck`), and keeps its lock until its caller ends. A changer locks the
Subscription, then the current UsageRecord if its transition needs it, applies one or
more transitions and commits. The refusal for a missing UsageRecord is not reached:
PeriodHasItsRecord is why.

### Subscription

`row` is the committed row, `prov` is Razorpay, `draft` the row as the request that
holds `lock` has it. `late`, `recent` and `age` stand for the comparisons the code makes
with current_period_end, updated_at and past_due_at. `SyncRead`, `SyncFetch`, `SyncApply`
are sync_subscription; `fetches` orders the fetches as fetch_started_at does.
`DunningStart` to `RecordCancel` are advance_dunning, which takes its now before it
waits for the row, and _retry_owed_provider_cancel. `StartCheckout`, `Reconcile`,
`UpgradeNow`, `ReplaceSubscription`, `CancelOld`, `CreateNew` are start_checkout;
`CancelSubscription`, `CancelAtPeriodEnd`, `CancelPastDue`, `CancelNow` are
cancel_subscription. `CallFails` is a provider call that fails with an unknown outcome:
Razorpay may have done it. `ProviderMoves` is Razorpay with the payer.

Abstractions: a snapshot is the subscription and whether the invoices fetched with it
prove its cycle paid, read at one instant; `pending` stands for halted and `cancelled`
for completed and expired, which the code treats alike; plans are left out, so an
upgrade is a call whose answer is applied as a snapshot; the plan-change replacement
is left out, as the shipped flags leave it. fetch_invoices raises NotImplementedError
until what the docs call D1 is settled: the model is of the code with that
gate open. The dunning task fetches nothing itself: the sweep enqueues it beside a sync.

### The eleven smaller components

They share no row with each other, and what one does to another is a value it passes, so
nothing is lost by running them one at a time. `Components` chooses a `focus` in Init and
runs that component on the common variables v1, v2, ...; their state graphs add up instead
of multiplying. Its theorems are about each component as an instance, with its own
assumption, and about the whole. MCProgress does the same for liveness.

- `Replacement` begins with an ACTIVE row on the Old subscription. An owner's request
  holds the row lock across its calls and commits its draft at the end, except that the
  commit of a downgrade (T1) is a transaction of its own, followed by the provider's
  cancel and T2, with the row unlocked between. A sync fetches unlocked; its refetch
  and commit under the lock are one step. The gates are open, though the shipped settings
  close them (DOWNGRADE_START_FIELD is None, the flags are off). Razorpay is taken to accept
  a repeated cancel at the end of a cycle. The margins around deadline and cutoff outlast
  a request and a call begun before them. T2 after a refusal is modelled; a second refusal
  of a repeated cancel is not.
- `BillingInbox` stamps events by web clocks and fetches by worker clocks, at most Skew
  apart (EVENT_CLOCK_SKEW). Ages stop at CapAge, beyond which no comparison can tell. What
  a snapshot does to the row is Subscription's and Replacement's: here a fetch settles or
  does not. A duplicate delivery writes nothing and is no action.
- `GoogleConnection`: every transition of an attempt is one conditional UPDATE. `sent`
  counts the times Google was given a code; `alive` is the refresh tokens Google honours.
- `GoogleReviews`: a remap and the upsert of a page lock the mapping row for all of their
  transaction and are one step each; a first mapping has no row to lock and is two. A
  location mapped away and back between two pages keeps its counters only if the row is the
  same, which SameMapping compares as the code does. A rate limit ends a whole run.
- `WhatsAppSenders`: PostgreSQL's unique mapping per location decides between two first
  mappings (`InsertMapping`, `ReadWinner`). Own numbers are rows created PENDING with a
  token; the signup states behind them, and the quality check of the pool, are left out.
- `MessageTemplates`: Meta refuses a second template of one name, and what it refuses for
  content it always refuses; a lookup that completes tells the truth.
- `OptOut`: a message stays at the broker until it is acknowledged, and a death runs it
  again. A retry the broker refuses is logged and counts as reported. Which merchants have
  the customer is chosen in Init. One worker runs at a time: an opt-out is monotone and
  repeatable, so two are a reordering of one.
- `Team`: a request is authorised by a role read without a lock, then locks the Merchant
  row. An invitation's number stands for invited_at. change_role, invite and revoke do not
  look again at whether the actor is still an OWNER or ADMIN, only at who may touch an
  OWNER; set_team_member_locations does.
- `Totp`: a TOTP code is its secret and time step. The membership lock and the user lock
  of complete_totp_login are one. The failed-attempt counter in the session is left out: it
  is read and written without a lock, and a comment in the code accepts the bound.
- `ShopifyInstall`: a request works on the session as it loaded it. Django saves it whole
  after a response below 500 and not at all once its key is gone. One shop, one
  browser; the age tests are a choice; Shopify takes a code once and delivers
  app/uninstalled again for longer than a link takes.
- `CsvImport`: an event of a row is recorded or cancelled, its processing is
  EventPipeline's. The Integration is read once at the start of a run, so a run that began
  before a disconnect goes on to record rows; process_event cancels them.

## Runs

Every run's bounds are in its cfg. Faults are capped by `MaxFaults`.

| Run | What it shows |
|---|---|
| `pipeline_webhook` | two events of one transaction id, two workers, an edit of the mapping and a disconnect in every order: sales, statuses and the counter match, and the inbox is implemented |
| `pipeline_faults` | one event, delivered twice and posted once, two locations, three attempts, two faults: terminal is final, attempts bounded and spaced, PipelineInv (the invariant proved) |
| `pipeline_live` | every event settles, every disconnect ends |
| `pipeline_raced_disconnect`, `pipeline_late_processing` | the first two disagreements below |
| `quota` | two reservations, two changers, two plans (quota 1 and 2), two periods: QuotaInv, spending only under the entitlement in force, the ledger implemented |
| `subscription` | four scenes: a checkout with two provider subscriptions and a fault, a renewal of two cycles with two of them, a dunning task with two checkpoints in a four-day grace period, each with a sync and a request; and two syncs at once, answered in order: entitlement is paid, one live subscription, the cancel flag is about the row's own subscription, PAST_DUE means unpaid, grace is seven days, once |
| `subscription_live` | with every webhook lost, the sweep alone sees an end and a first payment; the dunning task alone ends every grace period and makes every owed cancel |
| `subscription_owed_cancel` | the third disagreement below |
| `components` | the safety of the eleven smaller components |
| `progress` | OAuth attempts settle, mapped locations are synchronised, a STOP is honoured or reported, billing events are observed, reservations and transitions end |
| `team_carry_over` | the fourth disagreement below |

Why the bounds suffice. Each hazard needs two actors on one row, and sometimes a third
that moves it away and back: two workers, or a worker, a disconnect and an edit; a sync
or a dunning task beside a request. A second event matters only when it shares its
transaction id, so there is one id. Three attempts have a first, a middle and a last
retry. Two cycles and two refs allow a renewal, a failed payment and a recovery, and a
resubscription. Two checkpoints below a four-day limit keep the order of 3, 6 and 7.
In `components` each module has two of whatever may race: two attempts and
two workers on one account, with a token refresh; two locations, two Google locations and
two mappers beside a paged sync; three requests and two activations on one number and the
shared one; two submissions of two templates beside a poll; two merchants of one STOP; two
team requests and two users; two second-factor requests over two enrolments; two syncs
beside an owner's request, with one replacement of either kind and one fault; two syncs of
one event; two Shopify requests in one browser that knows two users; two CSV workers on two
files that share a row.
In `progress` one process or item stands for all, with the rival that could starve it.
Each counter runs past its limit: the attempts to DEAD_LETTER, the quota to a refusal,
the grace period to its end.

Two syncs at once are one scene of `subscription` and are proved for any number, both
under AnswersInOrder: of two fetches under way, the one that began first is answered first.
The comparison with provider_synced_at orders the requests only, and without the
assumption TLC finds the older answer applied over the newer row, until the next sync. Only
PastDueOwes depends on it.

### Fairness

- Workers take messages and go on with what they began (weak), and who waits for a row
  lock gets it (strong): PostgreSQL's lock queues are first come first served.
- The broker delivers a message that is not lost; Beat enqueues the sweeps again and
  again (five minutes for events, 15 for billing, daily for reviews), so a sweep is
  strongly fair: a row that is due again and again between skips is found.
- A request that holds the Subscription lock ends, and time passes.
- Provider reads succeed again and again: a fetch of Razorpay settles and Google lists
  the reviews of a queued location in the end. The second is an assumption on Google: a rate limit
  ends a run for all locations, so one that is always limited first could starve the rest.
- Razorpay, the payer, new requests and mapping edits are never assumed to act, and
  faults are finitely many: with endless failures no retry needs to succeed.

CHECK_DEADLOCK is FALSE in `Components.cfg` and `Progress.cfg`: several of their components
really stop, when every attempt is settled or every STOP is honoured.

## Proofs

TLAPS checks these for every value of the constants, under the named assumption of each
module (EventPipelineAssumption, QuotaAssumption, SubscriptionAssumption, and for the smaller
components TeamAssumption, ReplacementAssumption and so on, which ComponentsAssumption
joins). They say that sets of processes are disjoint, that placeholders are not members of
the sets they stand beside, and that bounds are naturals. TLC evaluates them in every run.

Every safety property that a run checks is a theorem, except what the violation runs
refute. The argument has the same shape everywhere: an inductive invariant, its initial
states, one step per action, and the property from it. What follows says why each
invariant is needed.

- `EventPipelineProofs`. PipelineInv is inductive. The safety properties are not
  inductive alone: that a terminal status is final needs that whoever writes a status
  holds the row and found it pending (OwnersHoldTheirEvent), which needs who may hold an
  event row (EventLocks) and what the disconnect holds (DisconnectHolds). From it
  follow TypeOK, SalesMatch, RetryBudget,
  DisconnectLeavesNothingPending, TerminalForever and ImplementsSaleInbox (each step of
  the pipeline that commits a status is an Accept, Sell or Drop of the inbox, the others
  stutter). NoAttemptBeforeDue needs AttemptsAreDue besides: an attempt under way on a
  FAILED event began after its backoff. CountersMatch counts a set that
  grows by one key: the cardinality lemmas are there for that.
- `QuotaProofs`. QuotaInv says a transaction that holds a lock knows the row:
  LocksHeld and DraftHasItsRecord are the strengthening. UsageOnlyGrows,
  SpentUnderEntitlement and the refinement of QuotaLedger (initial states to initial
  states, each step to a step or a stutter) follow.
- `SubscriptionProofs`, six invariants, each on top of the first.
  - IInv gives EntitledIsPaid. A snapshot is applied long after its fetch, so what it
    proves has to stay true: no step takes a paid invoice away (Later). IInv carries the
    property through drafts (PaidFor(draft)) and through snapshots (ProofsHold), and Holding
    says that only one request has a draft.
  - EndInv gives EndingIsAsked: the same for the flag, of the row and of the draft.
  - GraceInv gives GraceEpisode, ExpiredOnlyAfterGrace and GraceNotRestarted. A dunning task
    acts on the now it took before it had the lock; its now is never after the days of this
    episode, because the end of an episode sets both back (Days). A request commits a draft
    made of an earlier row: DraftGrace says how that row was, and that the one it commits
    over cannot be in another episode, since the lock was held. HighestExists, that a finite
    set of checkpoints has a greatest one, comes from the well-foundedness of strict inclusion.
  - OfferInv gives OneLive. What can be charged has been offered, and what has been offered
    and is not over is the row's (OfferedKnown); a request that creates a subscription knows
    that the row's is over (RequestKnown), whatever its calls answered.
  - OrderInv and OwesInv give PastDueOwes, under AnswersInOrder. A failed payment that has
    been fetched may wait while the row is paid again. For one that may still be applied, all
    that can be applied before it (the row, the snapshots ahead of it in `fetches`, and
    the draft of a request that began before it or fetches nothing) is paid in earlier cycles
    only (Fenced). OrderInv says that, where answers come in order, nothing ahead of it is
    still to be answered. Lemmas on sequences say what appending, cutting off a prefix and
    removing one element do to the order (AppendOrder, SuffixOrder, RemovedOrder).
  - Types, with IInv, GraceInv and OfferInv, gives TypeOK. What a sync, a request or the row
    has of a provider status is never "absent": a fetch is of a ref that the row has had, and
    such a ref has been created (OfferInv).
- `AccountsProofs`. Team: what let a request through is still so while it holds the Merchant
  row (TeamPermitted), so an owner remains; the row carries the newest invitation
  (NewestOnRow). Totp: what a request read of the User row is still so (SeenIsCurrent), and a
  code that was accepted is spent for good (SpentForGood).
- `IntegrationsProofs`. CsvImport: an object that is gone was imported (GoneIsImported),
  which a worker knows row by row (DoneRows). ShopifyInstall: every session that some
  request may still save is sound (SessionsSound), links under way have rows of their own
  (LinksApart), and what a link has created is there or its token is revoked
  (CreatedOrRevoked).
- `WhatsAppProofs`. WhatsAppSenders: whoever maps or disconnects a number holds its row and
  what it found there is still so (NumbersHeld). MessageTemplates: an answer of Meta's
  stays true until it is applied (AnswersStayTrue, RowsAgree). OptOut: a fan-out knows
  whom it has still to reach (FanOutsCover), and what was published is settled or carried
  (PublishedIsKept).
- `GoogleProofs`. GoogleReviews: the invariant is inductive with its types. GoogleConnection: a
  code is unused, in the hands of one worker, or spent (CodeInOneHand); a refused token is
  dead and stays so, since nobody has one that was not issued (RefusedIsDead, TokensIssued).
- `BillingProofs`. BillingInbox: what a fetch has not seen was stored after it began
  (UnseenIsLater), and a ref that left the row does not return (RefsInOrder).
  Replacement: what the payer was offered and has not ended is named by the row, and by the
  draft of a request under way (RowHolds, DraftHolds); what a sync has read stays true as far
  as it relies on it (SyncsHold); only what was offered charges (OnlyOfferedCharge); Razorpay
  is asked to end the old subscription for a downgrade only with a reason (AskedForAReason).

Each of the last five modules proves its components' invariants of their own
specifications (TeamCorrect and its like), and then of `Components` (TeamHolds and its
like), which names the invariants that the run `components` checks.

Only model-checked: all liveness (`pipeline_live`, `subscription_live`, `progress`), since TLAPS
cannot reason about ENABLED and so not about fairness.

## Where code and documentation disagree

- `pipeline_raced_disconnect`: the except clause of receive_webhook for a disconnect
  that raced the request (`src/integrations/services.py:434`) is never entered, because
  record_event tests the status of the object the request has read.
- `pipeline_late_processing`: an event that commits after the disconnect's UPDATE took
  its snapshot may be processed after the disconnect, and
  `src/docs/04-api/API-Specification.md:423` says never.
- `subscription_owed_cancel`: the owed cancel acts on the provider status recorded
  earlier, so it may cancel a subscription that the payer has just paid;
  `src/docs/08-billing/Billing-Specification.md:265` rules that out.
- `team_carry_over`: change_team_member_role deletes the location assignments of a former
  MANAGER, so that, as its comment says (`src/accounts/services.py:328`), they never carry
  over; invite_team_member, which may give a pending MANAGER another role, does not.

Two more are stated nowhere as a property. flush_session_keeping_pending says that a
session logged in as a different user gets the full flush
(`src/integrations/shopify/services.py:199`); LoginView has no authenticators, so
its request.user is anonymous whoever was logged in, and the pending installation is kept.
ShopifyInstall models this, and its LinksOwnInstallation exempts what such a login has
carried. And the comment at `src/integrations/shopify/services.py:161` says a nonce is used
at most once whatever the outcome; Django does not save the session of a 502, and two
requests may load one session, so a nonce or a pending installation may be used again.

The traces TLC prints for these runs are the shortest ones it finds.

## Not modelled

- Campaigns, message sending and analytics have no code.
- Parsing, signatures, encryption, serializers and permissions are data: a payload passes
  or it does not.
- The audit log appends in its caller's transaction. API keys and locations are rows written
  once by single statements.
- The tenant context is a context variable and a SET LOCAL per transaction in front of
  PostgreSQL's policies. The models take one merchant's rows, or separate ones per merchant,
  as it makes them.
- connect_integration, update_integration_config and update_merchant are single inserts and
  updates; the one-CONNECTED-api rule is a unique index.
- WhatsApp's signup states and its pool's quality check, and the attempt counter of TOTP.
- Answers of Razorpay that overtake each other, as said under Runs. A template whose submissions
  have all failed up to the retry cap (`src/whatsapp/tasks.py:59`) stays as it is, as
  documented.

## Plan

Every module of the plan is written, and every safety property that holds is proved. What
is left:

1. An abstract specification of what the Subscription promises the components that read it
   (entitled in a period, in its grace period, ended), and the refinement from IInv and GraceInv.
2. `Team`, `OptOut`: action properties of what a step may never do, where an invariant says it
   of states only.
