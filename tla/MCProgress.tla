------------------------------ MODULE MCProgress ------------------------------
(***************************************************************************)
(* Liveness of five components for TLC.  As in MCComponents no two of them  *)
(* share a row: a behaviour runs one of them, its focus, on the variables   *)
(* v1, v2, ... in the order of the component's vars; the others hold none.  *)
(***************************************************************************)
EXTENDS Integers

CONSTANTS a1, g1, g2, l1, l2, m1, p1, r1, s1, s2, free, none

VARIABLES focus, v1, v2, v3, v4, v5, v6, v7, v8, v9, v10

from10 == <<v10>>
from8 == <<v8, v9, v10>>
allVars == <<focus, v1, v2, v3, v4, v5, v6, v7, v8, v9, v10>>

OAuth == INSTANCE GoogleConnection WITH Attempts <- {a1}, Accounts <- {s1},
  Workers <- {p1}, Refreshers <- {}, MaxTokens <- 1, NoAttempt <- none, attempt <- v1,
  age <- v2, exchanges <- v3, sent <- v4, conn <- v5, worker <- v6, refresher <- v7,
  alive <- v8, issued <- v9, member <- v10

Reviews == INSTANCE GoogleReviews WITH Locations <- {l1, l2}, GoogleIds <- {g1, g2},
  Mappers <- {p1}, Syncers <- {s1}, None <- none, MaxPages <- 1, MaxMaps <- 2,
  mapping <- v1, reviews <- v2, usable <- v3, syncs <- v4, mapper <- v5, syncer <- v6,
  maps <- v7

Stop == INSTANCE OptOut WITH Merchants <- {m1}, Owner <- m1, Workers <- {p1},
  MaxRetries <- 1, MaxDeaths <- 1, stops <- v1, customers <- v2, mapped <- v3,
  webhook <- v4, tasks <- v5, worker <- v6, optedOut <- v7, reported <- v8, deaths <- v9

Inbox == INSTANCE BillingInbox WITH Events <- {a1}, Syncers <- {s1}, Skew <- 1,
  Settle <- 3, MaxSync <- 1, event <- v1, main <- v2, repl <- v3, synced <- v4,
  queue <- v5, sync <- v6, observed <- v7

Use == INSTANCE Quota WITH Plans <- {a1}, Quota <- [plan \in {a1} |-> 1],
  Periods <- {r1}, NoPeriod <- none, Senders <- {p1}, Changers <- {s1, s2},
  SubscriptionRow <- l1, Free <- free, sub <- v1, records <- v2, used <- v3, over <- v4,
  lock <- v5, pc <- v6, seen <- v7, draft <- v8, opened <- v9

InOAuth == focus = "oauth" /\ UNCHANGED focus
InReviews == focus = "reviews" /\ UNCHANGED <<focus, from8>>
InStop == focus = "stop" /\ UNCHANGED <<focus, from10>>
InInbox == focus = "inbox" /\ UNCHANGED <<focus, from8>>
InUse == focus = "quota" /\ UNCHANGED <<focus, from10>>

Init ==
  \/ focus = "oauth" /\ OAuth!Init
  \/ focus = "reviews" /\ Reviews!Init /\ v8 = none /\ v9 = none /\ v10 = none
  \/ focus = "stop" /\ Stop!Init /\ v10 = none
  \/ focus = "inbox" /\ Inbox!Init /\ v8 = none /\ v9 = none /\ v10 = none
  \/ focus = "quota" /\ Use!Init /\ v10 = none

Next ==
  \/ InOAuth /\ OAuth!Next
  \/ InReviews /\ Reviews!Next
  \/ InStop /\ Stop!Next
  \/ InInbox /\ Inbox!Next
  \/ InUse /\ Use!Next

-----------------------------------------------------------------------------
(* Fairness.  The actions a component is fair to are numbered, the weak and  *)
(* the strong ones; in a behaviour a number stands for one action.           *)

\* Beat sweeps, and deadlines pass.
OAuthGoes(i) == \/ i = 1 /\ OAuth!Tick
                \/ i = 2 /\ OAuth!Sweep

\* Beat enqueues and the worker goes on; a queued location has its turn, and
\* Google lists its reviews in the end.
ReviewsGoes(i) == \/ i = 1 /\ Reviews!BeatSync
                  \/ i = 2 /\ Reviews!UpsertReviews(s1)
                  \/ i = 2 /\ Reviews!FinishSync(s1)
                  \/ i = 2 /\ Reviews!SyncStops(s1)

ReviewsGets(i) == \/ i = 1 /\ Reviews!StartSync(s1, l1)
                  \/ i = 2 /\ v6[s1].location = l1 /\ Reviews!ListReviews(s1)

\* The worker goes on with what the broker holds.
StopGoes(i) == i = 1 /\ Stop!FanOut(p1)

\* Time passes and the worker goes on; the sweep finds it free, and not every
\* fetch fails.
InboxGoes(i) == \/ i = 1 /\ Inbox!Tick
                \/ i = 2 /\ Inbox!StartTask(s1)
                \/ i = 3 /\ Inbox!FetchReplacement(s1)
                \/ i = 3 /\ Inbox!FetchMain(s1)
                \/ i = 4 /\ Inbox!ApplyReplacement(s1)
                \/ i = 4 /\ Inbox!SettleMain(s1)
                \/ i = 4 /\ Inbox!NotSettled(s1)

InboxGets(i) == \/ i = 1 /\ Inbox!Maintain(s1)
                \/ i = 2 /\ Inbox!ApplyReplacement(s1)
                \/ i = 3 /\ Inbox!SettleMain(s1)

\* A transaction that has begun goes on or rolls back, and PostgreSQL grants a row
\* lock to who waits for it.
UseGoes(i) == \/ i = 1 /\ Use!Recheck(p1)
              \/ i = 1 /\ Use!CallerCommits(p1)

UseGets(i) == \/ i = 1 /\ Use!LockUsage(p1)
              \/ i = 2 /\ Use!LockCurrentUsage(s1)
              \/ i = 3 /\ Use!LockCurrentUsage(s2)
              \/ i = 4 /\ Use!Commit(s1)
              \/ i = 5 /\ Use!Commit(s2)

Goes(i) == \/ InOAuth /\ OAuthGoes(i)
           \/ InReviews /\ ReviewsGoes(i)
           \/ InStop /\ StopGoes(i)
           \/ InInbox /\ InboxGoes(i)
           \/ InUse /\ UseGoes(i)

Gets(i) == \/ InReviews /\ ReviewsGets(i)
           \/ InInbox /\ InboxGets(i)
           \/ InUse /\ UseGets(i)

Spec == /\ Init /\ [][Next]_allVars
        /\ \A i \in 1..4 : WF_allVars(Goes(i))
        /\ \A i \in 1..5 : SF_allVars(Gets(i))

-----------------------------------------------------------------------------
(* The liveness properties, for one process or item that stands for all.     *)

\* GoogleConnection: whatever dies and whatever message is lost, an attempt that
\* was begun ends (expire_attempts).
AttemptsSettle ==
  focus = "oauth" /\ OAuth!Begun(a1) ~> focus = "oauth" /\ OAuth!Settled(a1)

\* GoogleReviews: a mapped location is synchronised once its connection stays
\* usable, whatever the broker lost and however often Google limited or failed a
\* run (the daily Beat).
MappedIsSynced ==
  focus = "reviews" /\ Reviews!Mapped(l1)
    ~> focus = "reviews" /\ Reviews!SyncedOrUnusable(l1)

\* OptOut: a STOP that Meta has its 200 for is honoured or reported, though
\* workers die (publish_inbound_opt_outs, late acknowledgement).
StopHonoured ==
  focus = "stop" /\ Stop!Acknowledged(m1) ~> focus = "stop" /\ Stop!HonouredOrReported(m1)

\* BillingInbox: every stored event is processed in the end, though its enqueue
\* failed and fetches fail (maintenance_due).
EventsObserved ==
  focus = "inbox" /\ v1[a1].at = "stored" ~> focus = "inbox" /\ v1[a1].at = "processed"

\* Quota: every transaction that has begun ends: the two locks are taken in one
\* order only, and a reservation's caller takes the UsageRecord alone (module
\* docstring of billing.services).
TransactionsEnd ==
  \A p \in {p1, s1} :
    focus = "quota" /\ v6[p] # "idle" ~> focus = "quota" /\ v6[p] = "idle"

=============================================================================
