------------------------------- MODULE OptOut -------------------------------
(***************************************************************************)
(* A customer's STOP, from Meta's webhook to the opted_out flag of every    *)
(* merchant it is owed by: whatsapp.services.receive_webhook and            *)
(* whatsapp.tasks.fan_out_inbound_opt_out.                                  *)
(*                                                                         *)
(* One customer sends STOP to some of the numbers in one delivery.  A       *)
(* message stays at the broker until its worker acknowledges it (acks_late, *)
(* reject_on_worker_lost), so a death, or a visibility timeout, runs it     *)
(* again.  Equal messages are kept once.  Which merchants have the customer *)
(* and use the shared number is chosen in Init.                             *)
(***************************************************************************)
EXTENDS Naturals, FiniteSets

CONSTANTS
  Merchants,
  Owner,       \* the merchant of the own number
  Workers,
  MaxRetries,  \* OPT_OUT_MAX_RETRIES
  MaxDeaths    \* bound on the deaths of workers and of the webhook's process

OptOutAssumption ==
  /\ Owner \in Merchants
  /\ MaxRetries \in Nat
  /\ MaxDeaths \in Nat

Shared == 1
Own == 2
Numbers == {Shared, Own}   \* in the order a delivery lists them

VARIABLES
  stops,      \* the numbers the delivery's STOPs were sent to
  customers,  \* merchants with a Customer of this phone
  mapped,     \* those of them with a location mapped to the shared number
  webhook,    \* the delivery at Meta and the request that handles it
  tasks,      \* unacknowledged fan-outs
  worker,
  optedOut,
  reported,   \* merchants of a fan-out that was logged as given up
  deaths

vars == <<stops, customers, mapped, webhook, tasks, worker, optedOut, reported, deaths>>

Tasks == [number : Numbers, merchants : SUBSET Merchants, retries : 0..MaxRetries]

\* merchant_ids=None: no restriction.
Published(n) == [number |-> n, merchants |-> Merchants, retries |-> 0]

IdleWorker == [pc |-> "idle", task |-> Published(Shared), todo |-> {}, failed |-> {}]

Init ==
  /\ stops \in SUBSET Numbers \ {{}}
  /\ customers \in SUBSET Merchants
  /\ mapped \in SUBSET customers
  /\ webhook = [pc |-> "due", todo |-> {}]
  /\ tasks = {}
  /\ worker = [w \in Workers |-> IdleWorker]
  /\ optedOut = {}
  /\ reported = {}
  /\ deaths = 0

-----------------------------------------------------------------------------
(* The webhook *)

\* Meta delivers; the signature and the keywords are checked without a database.
ReceiveWebhook ==
  /\ webhook.pc = "due"
  /\ webhook' = [pc |-> "publishing", todo |-> stops]
  /\ UNCHANGED <<stops, customers, mapped, tasks, worker, optedOut, reported, deaths>>

\* WebhookEnqueueFailed: 503, and Meta delivers again.
AnswersUnavailable == [pc |-> "due", todo |-> {}]

\* publish_opt_out_fan_out, in order; one that timed out may have been published.
PublishFanOut ==
  /\ webhook.pc = "publishing"
  /\ \E n \in webhook.todo :
       /\ \A k \in webhook.todo : n <= k
       /\ \/ /\ tasks' = tasks \cup {Published(n)}
             /\ webhook' = [webhook EXCEPT !.todo = @ \ {n}]
          \/ /\ tasks' \in {tasks, tasks \cup {Published(n)}}
             /\ webhook' = AnswersUnavailable
  /\ UNCHANGED <<stops, customers, mapped, worker, optedOut, reported, deaths>>

\* 200, which Meta never delivers again.
AcknowledgeWebhook ==
  /\ webhook.pc = "publishing" /\ webhook.todo = {}
  /\ webhook' = [webhook EXCEPT !.pc = "acknowledged"]
  /\ UNCHANGED <<stops, customers, mapped, tasks, worker, optedOut, reported, deaths>>

WebhookDies ==
  /\ webhook.pc = "publishing" /\ deaths < MaxDeaths
  /\ webhook' = AnswersUnavailable
  /\ deaths' = deaths + 1
  /\ UNCHANGED <<stops, customers, mapped, tasks, worker, optedOut, reported>>

-----------------------------------------------------------------------------
(* fan_out_inbound_opt_out *)

\* Mutant: the message is acknowledged as it is taken.
AcknowledgedAtStart(t) == tasks \ {t}

\* acks_late
HeldWhileRunning(t) == tasks

\* resolve_inbound_opt_out_targets
Universe(n) == IF n = Shared THEN Merchants ELSE {Owner}

\* The targets, on a retry only those that failed; a lookup that fails repeats
\* the whole run, for every merchant.
StartFanOut(w, t) ==
  /\ worker[w].pc = "idle"
  /\ t \in tasks
  /\ tasks' = HeldWhileRunning(t)
  /\ \/ worker' = [worker EXCEPT ![w] = [pc |-> "running", task |-> t, failed |-> {},
                                         todo |-> Universe(t.number) \cap t.merchants]]
     \/ worker' = [worker EXCEPT ![w] = [pc |-> "running", task |-> t, failed |-> Merchants,
                                         todo |-> {}]]
  /\ UNCHANGED <<stops, customers, mapped, webhook, optedOut, reported, deaths>>

\* opt_out_inbound_for_merchant applies to a Customer of the merchant, and a
\* STOP to the shared number only where a location is mapped to it.
Applies(n, m) == m \in customers /\ (n = Shared => m \in mapped)

\* One merchant in its own transaction.
OptOutMerchant(w, m) ==
  /\ worker[w].pc = "running" /\ m \in worker[w].todo
  /\ optedOut' = IF Applies(worker[w].task.number, m) THEN optedOut \cup {m} ELSE optedOut
  /\ worker' = [worker EXCEPT ![w].todo = @ \ {m}]
  /\ UNCHANGED <<stops, customers, mapped, webhook, tasks, reported, deaths>>

MerchantFails(w, m) ==
  /\ worker[w].pc = "running" /\ m \in worker[w].todo
  /\ worker' = [worker EXCEPT ![w].todo = @ \ {m}, ![w].failed = @ \cup {m}]
  /\ UNCHANGED <<stops, customers, mapped, webhook, tasks, optedOut, reported, deaths>>

Incomplete(w) ==
  worker[w].pc = "running" /\ worker[w].todo = {} /\ worker[w].failed # {}

\* Mutant: the retry is restricted to what has not been attempted.
RetryOf(w) == [worker[w].task EXCEPT !.merchants = worker[w].todo, !.retries = @ + 1]

RetryFailed(w) == [worker[w].task EXCEPT !.merchants = worker[w].failed, !.retries = @ + 1]

\* _retry_opt_out_fan_out: publish the retry, or log the exhaustion.
RetryFanOut(w) ==
  /\ Incomplete(w)
  /\ IF worker[w].task.retries >= MaxRetries
     THEN reported' = reported \cup worker[w].failed /\ UNCHANGED tasks
     ELSE tasks' = tasks \cup {RetryFailed(w)} /\ UNCHANGED reported
  /\ worker' = [worker EXCEPT ![w] = [@ EXCEPT !.pc = "done", !.failed = {}]]
  /\ UNCHANGED <<stops, customers, mapped, webhook, optedOut, deaths>>

\* The broker refuses the retry: Celery logs the message as rejected.
RetryRejected(w) ==
  /\ Incomplete(w)
  /\ reported' = reported \cup worker[w].failed
  /\ worker' = [worker EXCEPT ![w] = [@ EXCEPT !.pc = "done", !.failed = {}]]
  /\ UNCHANGED <<stops, customers, mapped, webhook, tasks, optedOut, deaths>>

AcknowledgeTask(w) ==
  /\ worker[w].pc = "done" \/ (worker[w].pc = "running" /\ worker[w].todo \cup worker[w].failed = {})
  /\ tasks' = tasks \ {worker[w].task}
  /\ worker' = [worker EXCEPT ![w] = IdleWorker]
  /\ UNCHANGED <<stops, customers, mapped, webhook, optedOut, reported, deaths>>

WorkerDies(w) ==
  /\ worker[w].pc # "idle" /\ deaths < MaxDeaths
  /\ worker' = [worker EXCEPT ![w] = IdleWorker]
  /\ deaths' = deaths + 1
  /\ UNCHANGED <<stops, customers, mapped, webhook, tasks, optedOut, reported>>

\* process_inbound_opt_out, for a merchant the log names.
Redrive(m) ==
  /\ m \in reported \cap customers
  /\ \E n \in stops : Applies(n, m) /\ m \in Universe(n)
  /\ optedOut' = optedOut \cup {m}
  /\ UNCHANGED <<stops, customers, mapped, webhook, tasks, worker, reported, deaths>>

FanOut(w) == \/ \E t \in tasks : StartFanOut(w, t)
             \/ \E m \in worker[w].todo : OptOutMerchant(w, m) \/ MerchantFails(w, m)
             \/ RetryFanOut(w) \/ RetryRejected(w) \/ AcknowledgeTask(w)

Webhook == ReceiveWebhook \/ PublishFanOut \/ AcknowledgeWebhook

Next == \/ Webhook \/ WebhookDies
        \/ \E w \in Workers : FanOut(w) \/ WorkerDies(w)
        \/ \E m \in Merchants : Redrive(m)

Spec == Init /\ [][Next]_vars

-----------------------------------------------------------------------------
(* Properties *)

TypeOK ==
  /\ webhook \in [pc : {"due", "publishing", "acknowledged"}, todo : SUBSET Numbers]
  /\ tasks \subseteq Tasks
  /\ optedOut \subseteq Merchants /\ reported \subseteq Merchants

Owed == {m \in Merchants : \E n \in stops : m \in Universe(n) /\ Applies(n, m)}

Carried(n, m) == \E t \in tasks : t.number = n /\ m \in t.merchants

\* Once Meta has its 200, each merchant the STOP is owed by has opted the
\* customer out, is named in the log, or is in a message the broker holds
\* (receive_webhook, acks_late, _retry_opt_out_fan_out).
NoStopLost ==
  webhook.pc = "acknowledged" =>
    \A n \in stops : \A m \in Universe(n) :
      Applies(n, m) => m \in optedOut \cup reported \/ Carried(n, m)

\* Redeliveries and retries opt the customer out of no other merchant.
OnlyWhereOwed == optedOut \subseteq Owed

OptOutInv == TypeOK /\ NoStopLost /\ OnlyWhereOwed

\* For liveness: a STOP Meta has its 200 for, and what becomes of it.
Acknowledged(m) == webhook.pc = "acknowledged" /\ m \in Owed

HonouredOrReported(m) == m \in optedOut \cup reported
=============================================================================
