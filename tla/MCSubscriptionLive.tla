-------------------------- MODULE MCSubscriptionLive --------------------------
(***************************************************************************)
(* Liveness of Subscription in two scenes: a sync that never hears of a     *)
(* webhook, since all of them may be lost, and a dunning task without any   *)
(* sync.  Each has one failure, after which calls and workers succeed.      *)
(***************************************************************************)
EXTENDS Integers, Sequences

CONSTANTS r1, s1, d1, o1, NoRef, Free

VARIABLES scene, row, late, recent, age, prov, offered, tasks, fetches, lock, draft,
          pc, read, got, asOf, faults

S == INSTANCE Subscription WITH Refs <- {r1}, MaxCycle <- 2, Syncers <- {s1},
  Dunners <- {}, Owners <- {o1}, GRACE <- 1, DUNNING_STAGES <- {}, MaxFaults <- 1

D == INSTANCE Subscription WITH Refs <- {r1}, MaxCycle <- 2, Syncers <- {},
  Dunners <- {d1}, Owners <- {o1}, GRACE <- 2, DUNNING_STAGES <- {1}, MaxFaults <- 1

allVars == <<scene, S!vars>>

Either(a, b) == /\ UNCHANGED scene
                /\ \/ scene = "sync" /\ a
                   \/ scene = "dunning" /\ b

Init == \/ scene = "sync" /\ S!Init
        \/ scene = "dunning" /\ D!Init

Next == Either(S!Next /\ ~S!ReceiveWebhook, D!Next)

\* Beat runs every 15 minutes, workers drain the queue, a request that holds the
\* lock ends, and time passes.  Who waits for the lock gets it in the end.
Fairness ==
  /\ WF_allVars(Either(S!RunMaintenance, D!RunMaintenance))
  /\ WF_allVars(Either(S!PeriodEnds, D!DayPasses))
  /\ WF_allVars(Either(S!RequestStep(o1), D!RequestStep(o1)))
  /\ WF_allVars(Either(S!SyncRead(s1) \/ S!SyncFetch(s1),
                       D!DunningStart(d1) \/ D!OwedCancel(d1)))
  /\ WF_allVars(Either(FALSE, D!ProviderCancels(d1) \/ D!ProviderRefuses(d1)))
  /\ SF_allVars(Either(S!SyncApply(s1), D!AdvanceDunning(d1)))
  /\ SF_allVars(Either(FALSE, D!RecordCancel(d1)))

Spec == Init /\ [][Next]_allVars /\ Fairness

\* The sweep alone brings the row and Razorpay together.
SeesProviderEnd == scene = "sync" => S!SeesProviderEnd

PaidCheckoutActivates == scene = "sync" => S!PaidCheckoutActivates

\* The dunning task alone ends what it has to end.
GraceEnds == scene = "dunning" => D!GraceEnds

OwedCancelDone == scene = "dunning" => D!OwedCancelDone

=============================================================================
