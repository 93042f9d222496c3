---------------------------- MODULE BillingProofs ----------------------------
(***************************************************************************)
(* What BillingInbox and Replacement promise, for any events, replacements, *)
(* runs of the sync, faults, and any width of the clocks' skew.             *)
(*                                                                         *)
(* An event that a fetch did not see is no older than the fetch: it was     *)
(* stored after it, and both age together below CapAge.  So an event that   *)
(* is older by more than the skew allows for was seen.  And a ref that has  *)
(* left the row does not come back.                                        *)
(*                                                                         *)
(* Of a plan change, whatever was offered to the payer and has not ended is *)
(* named by the committed row and by the draft of a request under way; a    *)
(* row with a replacement has its retired slot free; and a committed        *)
(* downgrade waits, authenticated, until the period is over.               *)
(***************************************************************************)
EXTENDS Components, TLAPS

\* The variables of BillingInbox.
event == v1
main == v2
repl == v3
synced == v4
queue == v5
sync == v6
observed == v7

\* The variables of Replacement.
row == v1
lapsed == v2
over == v3
prov == v4
offered == v5
syncs == v6
lock == v7
owner == v8
draft == v9
faults == v10

USE DEF event, main, repl, synced, queue, sync, observed, row, lapsed, over, prov,
        offered, syncs, lock, owner, draft, faults


-----------------------------------------------------------------------------
(* BillingInbox *)

Fetching == {"applying", "applyingMain"}

SyncStates == [pc : {"idle", "replacement", "applying", "main", "applyingMain"},
               ref : Inbox!Refs, since : 0..MaxSync, saw : SUBSET Events]

\* What a fetch has not seen of the events of its subscription came later.
UnseenIsLater ==
  \A s \in Syncers : sync[s].pc \in Fetching =>
    \A e \in Events : event[e].at = "stored" /\ event[e].ref = sync[s].ref /\ e \notin sync[s].saw =>
      event[e].age <= sync[s].since

\* The replacement comes once, and takes over once.
RefsInOrder ==
  /\ repl \in {"none", "new"} => main = "old"
  /\ repl = "none" => \A e \in Events : event[e].ref = "old"

InboxIInv == Inbox!InboxInv /\ UnseenIsLater /\ RefsInOrder

\* The bound at which ages stop is above every fetch that is applied.
LEMMA AgesAreAboveFetches ==
  ASSUME Inbox!BillingInboxAssumption
  PROVE  /\ Inbox!CapAge \in Nat /\ MaxSync \in Nat /\ MaxSync < Inbox!CapAge
         /\ 0 \in 0..Inbox!CapAge /\ 0 \in 0..MaxSync /\ 0 \in (-Skew)..Skew
         /\ \A age \in 0..Inbox!CapAge : Inbox!Older(age) \in 0..Inbox!CapAge
         /\ \A age \in 0..Inbox!CapAge, since \in 0..MaxSync :
              age <= since /\ since < MaxSync => Inbox!Older(age) <= since + 1
  BY DEF Inbox!BillingInboxAssumption, Inbox!CapAge, Inbox!Older

\* What EVENT_CLOCK_SKEW is for: whatever the clocks, what counts as created before
\* the fetch is older than it.
LEMMA BeforeIsOlder ==
  ASSUME Inbox!BillingInboxAssumption,
         NEW age \in 0..Inbox!CapAge, NEW offset \in (-Skew)..Skew, NEW since \in 0..MaxSync,
         Inbox!Before(age, offset, since)
  PROVE  ~(age <= since)
  BY AgesAreAboveFetches DEF Inbox!BillingInboxAssumption, Inbox!Before

\* Init establishes it.
LEMMA InboxStarts ==
  ASSUME Inbox!BillingInboxAssumption, Inbox!Init
  PROVE  InboxIInv
<1> USE DEF Inbox!Init
<1>1. Inbox!CapAge \in 0..Inbox!CapAge /\ 0 \in 0..Inbox!CapAge /\ 0 \in 0..MaxSync /\ 0 \in (-Skew)..Skew
  BY AgesAreAboveFetches
<1>2. Inbox!TypeOK
  BY <1>1 DEF Inbox!TypeOK, Inbox!EventRows, Inbox!Refs, Inbox!IdleSync
<1>3. Inbox!ProcessedWasObserved /\ UnseenIsLater /\ RefsInOrder
  BY DEF Inbox!ProcessedWasObserved, UnseenIsLater, RefsInOrder, Inbox!IdleSync, Fetching
<1> QED
  BY <1>2, <1>3 DEF InboxIInv, Inbox!InboxInv

\* What a sync may mark of its own subscription, it saw.
LEMMA CoveredWasSeen ==
  ASSUME Inbox!BillingInboxAssumption, InboxIInv, NEW s \in Syncers, sync[s].pc \in Fetching,
         NEW e \in Inbox!Covered(s), event[e].ref = sync[s].ref
  PROVE  e \in sync[s].saw
<1>1. /\ e \in Events /\ event[e].at = "stored" /\ event[e].age \in 0..Inbox!CapAge
      /\ event[e].offset \in (-Skew)..Skew /\ sync[s].since \in 0..MaxSync
      /\ Inbox!Before(event[e].age, event[e].offset, sync[s].since)
  BY DEF InboxIInv, Inbox!InboxInv, Inbox!TypeOK, Inbox!EventRows, Inbox!Covered,
     Inbox!Unprocessed
<1>2. ~(event[e].age <= sync[s].since)
  BY <1>1, BeforeIsOlder
<1> QED
  BY <1>1, <1>2 DEF InboxIInv, UnseenIsLater

\* A sync that applies a fetch: it marks what it saw, or what no longer counts.
LEMMA Applies ==
  ASSUME Inbox!BillingInboxAssumption, InboxIInv, NEW s \in Syncers,
         NEW stage \in {"main", "idle"}, NEW marked \in SUBSET Inbox!Unprocessed,
         Inbox!Apply(s, stage, marked),
         main' \in Inbox!Refs, repl' \in {"none", "new", "gone"}, synced' \in 0..Inbox!CapAge,
         UNCHANGED queue, RefsInOrder',
         \A e \in marked : e \in sync[s].saw \/ event[e].ref \notin {main', repl'},
         \A ref \in Inbox!Refs : ref \notin {main, repl} => ref \notin {main', repl'}
  PROVE  InboxIInv'
<1> USE DEF InboxIInv, Inbox!InboxInv
<1>1. /\ event \in [Events -> Inbox!EventRows] /\ sync \in [Syncers -> SyncStates]
      /\ observed \subseteq Events /\ marked \subseteq Events
  BY DEF Inbox!TypeOK, SyncStates, Inbox!Unprocessed
<1>2. /\ event' \in [Events -> Inbox!EventRows]
      /\ \A e \in Events \ marked : event'[e] = event[e]
      /\ \A e \in marked : event'[e].at = "processed" /\ event'[e].ref = event[e].ref
  <2>1. \A e \in Events : LET entry == [event[e] EXCEPT !.at = "processed"]
                          IN  entry \in Inbox!EventRows /\ entry.at = "processed" /\ entry.ref = event[e].ref
    BY <1>1 DEF Inbox!EventRows
  <2> QED
    BY <1>1, <2>1 DEF Inbox!Apply, Inbox!Marked
<1>3. /\ observed \subseteq observed' /\ observed' \subseteq Events
      /\ \A e \in marked : e \in sync[s].saw => e \in observed'
  BY <1>1 DEF Inbox!Apply, SyncStates
<1> DEFINE q == [Inbox!IdleSync EXCEPT !.pc = stage]
<1>4. q \in SyncStates /\ q.pc \notin Fetching
  BY AgesAreAboveFetches DEF Inbox!IdleSync, SyncStates, Fetching, Inbox!Refs
<1>5. sync' = [sync EXCEPT ![s] = q]
  BY DEF Inbox!Apply
<1> HIDE DEF q
<1>6. /\ sync' \in [Syncers -> SyncStates]
      /\ \A x \in Syncers : sync'[x].pc \in Fetching => sync'[x] = sync[x]
  BY <1>1, <1>4, <1>5
<1>7. Inbox!TypeOK'
  BY <1>2, <1>3, <1>6 DEF Inbox!TypeOK, SyncStates
<1>8. Inbox!ProcessedWasObserved'
  <2>1. \A e \in Events : event[e].ref \in Inbox!Refs
    BY <1>1 DEF Inbox!EventRows
  <2>2. ASSUME NEW e \in Events \ marked, event'[e].at = "processed"
        PROVE  e \in observed' \/ event'[e].ref \notin {main', repl'}
    BY <1>2, <1>3, <2>1, <2>2 DEF Inbox!ProcessedWasObserved
  <2>3. ASSUME NEW e \in marked
        PROVE  e \in observed' \/ event'[e].ref \notin {main', repl'}
    BY <1>2, <1>3, <2>3
  <2> QED
    BY <2>2, <2>3 DEF Inbox!ProcessedWasObserved
<1>9. UnseenIsLater'
  BY <1>2, <1>6 DEF UnseenIsLater
<1> QED
  BY <1>7, <1>8, <1>9

\* A sync that fetches sees what is stored of the subscription it fetches.
LEMMA Fetches ==
  ASSUME Inbox!BillingInboxAssumption, InboxIInv, NEW s \in Syncers, NEW ref \in Inbox!Refs,
         NEW stage \in Fetching, Inbox!Fetched(s, ref, stage),
         UNCHANGED <<event, main, repl, synced, queue, observed>>
  PROVE  InboxIInv'
<1> USE DEF InboxIInv, Inbox!InboxInv
<1> DEFINE q == [pc |-> stage, ref |-> ref, since |-> 0, saw |-> Inbox!OfRef(ref)]
<1>1. sync \in [Syncers -> SyncStates]
  BY DEF Inbox!TypeOK, SyncStates
<1>2. q \in SyncStates /\ q.ref = ref /\ q.saw = Inbox!OfRef(ref)
  BY AgesAreAboveFetches DEF SyncStates, Fetching, Inbox!OfRef, Inbox!Unprocessed
<1>3. sync' = [sync EXCEPT ![s] = q]
  BY DEF Inbox!Fetched
<1> HIDE DEF q
<1>4. sync' \in [Syncers -> SyncStates] /\ sync'[s] = q /\ \A x \in Syncers \ {s} : sync'[x] = sync[x]
  BY <1>1, <1>2, <1>3
<1>5. Inbox!TypeOK' /\ Inbox!ProcessedWasObserved' /\ RefsInOrder'
  BY <1>4 DEF Inbox!TypeOK, Inbox!ProcessedWasObserved, RefsInOrder, SyncStates
<1>6. UnseenIsLater'
  BY <1>2, <1>4 DEF UnseenIsLater, Inbox!OfRef, Inbox!Unprocessed
<1> QED
  BY <1>5, <1>6

\* A sync starts, fails, or goes on without a fetch.
LEMMA SyncMoves ==
  ASSUME InboxIInv, NEW s \in Syncers, NEW q \in SyncStates, q.pc \notin Fetching,
         sync' = [sync EXCEPT ![s] = q], queue' \in Nat,
         UNCHANGED <<event, main, repl, synced, observed>>
  PROVE  InboxIInv'
<1> USE DEF InboxIInv, Inbox!InboxInv
<1>1. sync \in [Syncers -> SyncStates]
  BY DEF Inbox!TypeOK, SyncStates
<1>2. /\ sync' \in [Syncers -> SyncStates]
      /\ \A x \in Syncers : sync'[x].pc \in Fetching => sync'[x] = sync[x]
  BY <1>1
<1>3. Inbox!TypeOK' /\ Inbox!ProcessedWasObserved' /\ RefsInOrder'
  BY <1>2 DEF Inbox!TypeOK, Inbox!ProcessedWasObserved, RefsInOrder, SyncStates
<1>4. UnseenIsLater'
  BY <1>2 DEF UnseenIsLater
<1> QED
  BY <1>3, <1>4

\* Receiving a webhook.
LEMMA WebhookStep ==
  ASSUME Inbox!BillingInboxAssumption, InboxIInv, NEW e \in Events,
         \/ \E ref \in Inbox!Refs : Inbox!LookUp(e, ref)
         \/ \E offset \in (-Skew)..Skew, enqueued \in BOOLEAN : Inbox!Store(e, offset, enqueued)
  PROVE  InboxIInv'
<1> USE DEF InboxIInv, Inbox!InboxInv
<1>1. /\ event \in [Events -> Inbox!EventRows] /\ event[e] \in Inbox!EventRows
      /\ sync \in [Syncers -> SyncStates] /\ queue \in Nat
  BY DEF Inbox!TypeOK, SyncStates
<1>2. ASSUME NEW new \in Inbox!EventRows, event' = [event EXCEPT ![e] = new],
             new.at \in {"lookedUp", "stored"},
             new.at = "stored" => new.age = 0,
             repl = "none" => new.ref = "old",
             queue' \in Nat, UNCHANGED <<main, repl, synced, sync, observed>>
      PROVE  InboxIInv'
  <2>1. /\ event' \in [Events -> Inbox!EventRows] /\ event'[e] = new
        /\ \A x \in Events \ {e} : event'[x] = event[x]
    BY <1>1, <1>2
  <2>2. Inbox!TypeOK' /\ Inbox!ProcessedWasObserved' /\ RefsInOrder'
    BY <1>2, <2>1 DEF Inbox!TypeOK, Inbox!ProcessedWasObserved, RefsInOrder
  <2>3. UnseenIsLater'
    <3>1. \A s \in Syncers : 0 <= sync[s].since
      BY <1>1 DEF SyncStates
    <3> QED
      BY <1>2, <2>1, <3>1 DEF UnseenIsLater
  <2> QED
    BY <2>2, <2>3
<1>3. ASSUME NEW ref \in Inbox!Refs, Inbox!LookUp(e, ref) PROVE InboxIInv'
  <2> DEFINE new == [event[e] EXCEPT !.at = "lookedUp", !.ref = ref]
  <2>1. new \in Inbox!EventRows /\ new.at = "lookedUp" /\ new.ref = ref
    BY <1>1 DEF Inbox!EventRows
  <2>2. event' = [event EXCEPT ![e] = new] /\ UNCHANGED <<main, repl, synced, queue, sync, observed>>
    BY <1>1, <1>3 DEF Inbox!LookUp
  <2>3. repl = "none" => ref = "old"
    BY <1>3 DEF Inbox!LookUp, RefsInOrder, Inbox!Refs
  <2> HIDE DEF new
  <2> QED
    BY <1>1, <1>2, <2>1, <2>2, <2>3
<1>4. ASSUME NEW offset \in (-Skew)..Skew, NEW enqueued \in BOOLEAN, Inbox!Store(e, offset, enqueued)
      PROVE  InboxIInv'
  <2> DEFINE new == [event[e] EXCEPT !.at = "stored", !.age = 0, !.offset = offset]
  <2>1. new \in Inbox!EventRows /\ new.at = "stored" /\ new.age = 0 /\ new.ref = event[e].ref
    BY <1>1, AgesAreAboveFetches DEF Inbox!EventRows
  <2>2. /\ event' = [event EXCEPT ![e] = new] /\ queue' \in Nat
        /\ UNCHANGED <<main, repl, synced, sync, observed>>
    <3>1. queue' = queue \/ queue' = queue + 1
      BY <1>4 DEF Inbox!Store
    <3>2. event' = [event EXCEPT ![e] = new] /\ UNCHANGED <<main, repl, synced, sync, observed>>
      BY <1>1, <1>4 DEF Inbox!Store
    <3> QED
      BY <1>1, <3>1, <3>2
  <2>3. repl = "none" => event[e].ref = "old"
    BY DEF RefsInOrder
  <2> HIDE DEF new
  <2> QED
    BY <1>2, <2>1, <2>2, <2>3
<1> QED
  BY <1>3, <1>4

\* The stages of a sync.
LEMMA SyncSteps ==
  ASSUME Inbox!BillingInboxAssumption, InboxIInv, NEW s \in Syncers,
         \/ Inbox!StartTask(s) \/ Inbox!Maintain(s) \/ Inbox!FetchReplacement(s)
         \/ Inbox!ApplyReplacement(s) \/ Inbox!FetchMain(s) \/ Inbox!SettleMain(s)
         \/ Inbox!NotSettled(s)
  PROVE  InboxIInv'
<1>1. /\ sync \in [Syncers -> SyncStates] /\ sync[s] \in SyncStates /\ queue \in Nat
      /\ main \in Inbox!Refs /\ repl \in {"none", "new", "gone"} /\ synced \in 0..Inbox!CapAge
      /\ RefsInOrder
  BY DEF InboxIInv, Inbox!InboxInv, Inbox!TypeOK, SyncStates
<1>2. ASSUME NEW stage \in {"idle", "replacement", "main"}
      PROVE  LET q == [sync[s] EXCEPT !.pc = stage]
             IN  q \in SyncStates /\ q.pc \notin Fetching
  BY <1>1 DEF SyncStates, Fetching
<1>3. ASSUME NEW stage \in {"idle", "replacement", "main"}, sync' = [sync EXCEPT ![s].pc = stage],
             queue' \in Nat, UNCHANGED <<event, main, repl, synced, observed>>
      PROVE  InboxIInv'
  <2> DEFINE q == [sync[s] EXCEPT !.pc = stage]
  <2>1. q \in SyncStates /\ q.pc \notin Fetching
    BY <1>2
  <2>2. sync' = [sync EXCEPT ![s] = q]
    BY <1>1, <1>3
  <2> HIDE DEF q
  <2> QED
    BY <1>3, <2>1, <2>2, SyncMoves
<1>4. CASE Inbox!StartTask(s)
  <2>1. queue' \in Nat /\ UNCHANGED <<event, main, repl, synced, observed>>
    BY <1>1, <1>4 DEF Inbox!StartTask
  <2>2. CASE UNCHANGED sync
    BY <2>1, <2>2 DEF InboxIInv, Inbox!InboxInv, Inbox!TypeOK, Inbox!ProcessedWasObserved,
       UnseenIsLater, RefsInOrder
  <2>3. CASE sync' = [sync EXCEPT ![s].pc = "replacement"]
    BY <1>3, <2>1, <2>3
  <2> QED
    BY <1>4, <2>2, <2>3 DEF Inbox!StartTask
<1>5. CASE Inbox!Maintain(s)
  BY <1>1, <1>3, <1>5 DEF Inbox!Maintain
<1>6. CASE Inbox!FetchReplacement(s)
  <2>1. UNCHANGED <<event, main, repl, synced, queue, observed>>
    BY <1>6 DEF Inbox!FetchReplacement
  <2>2. CASE repl = "new"
    <3>1. Inbox!Fetched(s, repl, "applying") /\ repl \in Inbox!Refs /\ "applying" \in Fetching
      BY <1>6, <2>2 DEF Inbox!FetchReplacement, Inbox!Refs, Fetching
    <3> QED
      BY <2>1, <3>1, Fetches
  <2>3. CASE repl # "new"
    BY <1>1, <1>3, <1>6, <2>1, <2>3 DEF Inbox!FetchReplacement
  <2> QED
    BY <2>2, <2>3
<1>7. CASE Inbox!ApplyReplacement(s)
  <2>1. /\ sync[s].pc \in Fetching /\ repl = sync[s].ref /\ repl = "new" /\ main = "old"
        /\ UNCHANGED queue
    BY <1>1, <1>7 DEF Inbox!ApplyReplacement, Fetching, SyncStates, Inbox!Refs, RefsInOrder
  <2>2. /\ Inbox!Covered(s) \cap Inbox!OfRef(repl) \subseteq Inbox!Unprocessed
        /\ \A e \in Inbox!Covered(s) \cap Inbox!OfRef(repl) : e \in sync[s].saw
        /\ Inbox!OfRef(repl) \subseteq Inbox!Unprocessed
        /\ \A e \in Inbox!OfRef(repl) : event[e].ref = "new"
    BY <2>1, CoveredWasSeen DEF Inbox!Covered, Inbox!OfRef
  <2>3. sync[s].since \in 0..Inbox!CapAge
    BY <1>1, AgesAreAboveFetches DEF SyncStates
  <2>4. CASE Inbox!Apply(s, "main", Inbox!Covered(s) \cap Inbox!OfRef(repl)) /\ UNCHANGED <<main, repl, synced>>
    <3>1. RefsInOrder'
      BY <2>1, <2>4 DEF RefsInOrder
    <3> QED
      BY <1>1, <2>1, <2>2, <2>4, <3>1, Applies
  <2>5. CASE /\ Inbox!Apply(s, "main", Inbox!Covered(s) \cap Inbox!OfRef(repl))
             /\ main' = repl /\ repl' = "gone" /\ synced' = sync[s].since
    <3>1. RefsInOrder' /\ main' \in Inbox!Refs /\ repl' \in {"none", "new", "gone"}
      BY <2>1, <2>5 DEF RefsInOrder, Inbox!Refs
    <3>2. \A ref \in Inbox!Refs : ref \notin {main, repl} => ref \notin {main', repl'}
      BY <2>1 DEF Inbox!Refs
    <3> QED
      BY <1>1, <2>1, <2>2, <2>3, <2>5, <3>1, <3>2, Applies
  <2>6. CASE Inbox!Apply(s, "main", Inbox!OfRef(repl)) /\ repl' = "gone" /\ UNCHANGED <<main, synced>>
    <3>1. RefsInOrder' /\ repl' \in {"none", "new", "gone"}
      BY <2>6 DEF RefsInOrder
    <3>2. \A ref \in Inbox!Refs : ref \notin {main, repl} => ref \notin {main', repl'}
      BY <2>1 DEF Inbox!Refs
    <3>3. \A e \in Inbox!OfRef(repl) : event[e].ref \notin {main', repl'}
      BY <2>1, <2>2, <2>6
    <3> QED
      BY <1>1, <2>1, <2>2, <2>6, <3>1, <3>2, <3>3, Applies
  <2> QED
    BY <1>7, <2>4, <2>5, <2>6 DEF Inbox!ApplyReplacement
<1>8. CASE Inbox!FetchMain(s)
  <2>1. /\ Inbox!Fetched(s, main, "applyingMain") /\ "applyingMain" \in Fetching
        /\ UNCHANGED <<event, main, repl, synced, queue, observed>>
    BY <1>8 DEF Inbox!FetchMain, Fetching
  <2> QED
    BY <1>1, <2>1, Fetches
<1>9. CASE Inbox!SettleMain(s)
  <2> DEFINE marked == Inbox!Covered(s) \cap Inbox!OfOtherRefs
  <2>1. /\ sync[s].pc \in Fetching /\ main = sync[s].ref /\ UNCHANGED <<main, repl, queue>>
        /\ Inbox!Apply(s, "idle", marked) /\ synced' = sync[s].since
    BY <1>9 DEF Inbox!SettleMain, Fetching
  <2>2. synced' \in 0..Inbox!CapAge
    BY <1>1, <2>1, AgesAreAboveFetches DEF SyncStates
  <2>3. marked \subseteq Inbox!Unprocessed
    BY DEF Inbox!OfOtherRefs
  <2>4. \A e \in marked : e \in sync[s].saw \/ event[e].ref \notin {main, repl}
    BY <2>1, CoveredWasSeen DEF Inbox!OfOtherRefs, Inbox!OfRef
  <2>5. RefsInOrder'
    <3>1. \A e \in Events : event'[e].ref = event[e].ref
      <4>1. \A e \in Events : event[e] \in Inbox!EventRows
        BY DEF InboxIInv, Inbox!InboxInv, Inbox!TypeOK
      <4> QED
        BY <2>1, <4>1 DEF Inbox!Apply, Inbox!Marked, Inbox!EventRows
    <3> QED
      BY <1>1, <2>1, <3>1 DEF RefsInOrder
  <2> HIDE DEF marked
  <2> QED
    BY <1>1, <2>1, <2>2, <2>3, <2>4, <2>5, Applies
<1>10. CASE Inbox!NotSettled(s)
  <2> DEFINE stage == IF sync[s].pc = "applying" THEN "main" ELSE "idle"
             q == [Inbox!IdleSync EXCEPT !.pc = stage]
  <2>1. stage \in {"main", "idle"}
    OBVIOUS
  <2> HIDE DEF stage
  <2>2. q \in SyncStates /\ q.pc \notin Fetching
    BY <2>1, AgesAreAboveFetches DEF SyncStates, Fetching, Inbox!IdleSync, Inbox!Refs
  <2>3. /\ sync' = [sync EXCEPT ![s] = q] /\ queue' \in Nat
        /\ UNCHANGED <<event, main, repl, synced, observed>>
    BY <1>1, <1>10 DEF Inbox!NotSettled, stage
  <2> HIDE DEF q
  <2> QED
    BY <2>2, <2>3, SyncMoves
<1> QED
  BY <1>4, <1>5, <1>6, <1>7, <1>8, <1>9, <1>10

\* Time: what a fetch has not seen stays no older than it.
LEMMA TimePasses ==
  ASSUME Inbox!BillingInboxAssumption, InboxIInv, Inbox!Tick
  PROVE  InboxIInv'
<1> USE DEF InboxIInv, Inbox!InboxInv
<1>1. /\ event \in [Events -> Inbox!EventRows] /\ sync \in [Syncers -> SyncStates]
      /\ \A s \in Syncers : sync[s].since < MaxSync /\ sync[s].since \in 0..MaxSync
      /\ synced \in 0..Inbox!CapAge /\ UNCHANGED <<main, repl, queue, observed>>
  BY DEF Inbox!TypeOK, SyncStates, Inbox!Tick
<1>2. \A e \in Events : /\ event'[e] \in Inbox!EventRows
                        /\ event'[e].at = event[e].at /\ event'[e].ref = event[e].ref
                        /\ event[e].at = "stored" => event'[e].age = Inbox!Older(event[e].age)
  <2>1. ASSUME NEW e \in Events
        PROVE  LET entry == [event[e] EXCEPT !.age = Inbox!Older(@)]
               IN  /\ entry \in Inbox!EventRows /\ entry.at = event[e].at /\ entry.ref = event[e].ref
                   /\ entry.age = Inbox!Older(event[e].age)
    <3>1. event[e] \in Inbox!EventRows /\ Inbox!Older(event[e].age) \in 0..Inbox!CapAge
      BY <1>1, AgesAreAboveFetches DEF Inbox!EventRows
    <3> QED
      BY <3>1 DEF Inbox!EventRows
  <2> QED
    BY <1>1, <2>1 DEF Inbox!Tick
<1>3. \A s \in Syncers :
        /\ sync'[s] \in SyncStates
        /\ sync'[s].pc = sync[s].pc /\ sync'[s].ref = sync[s].ref /\ sync'[s].saw = sync[s].saw
        /\ sync[s].pc \in Fetching => sync'[s].since = sync[s].since + 1
  <2>1. ASSUME NEW s \in Syncers
        PROVE  LET q == [sync[s] EXCEPT !.since = @ + 1]
               IN  /\ q \in SyncStates /\ q.pc = sync[s].pc /\ q.ref = sync[s].ref
                   /\ q.saw = sync[s].saw /\ q.since = sync[s].since + 1
    <3>1. sync[s] \in SyncStates /\ sync[s].since + 1 \in 0..MaxSync
      BY <1>1, AgesAreAboveFetches
    <3> QED
      BY <3>1 DEF SyncStates
  <2> QED
    BY <1>1, <2>1 DEF Inbox!Tick, Fetching
<1>4. event' \in [Events -> Inbox!EventRows] /\ sync' \in [Syncers -> SyncStates]
  BY <1>2, <1>3 DEF Inbox!Tick
<1>5. Inbox!TypeOK'
  <2>1. synced' \in 0..Inbox!CapAge
    BY <1>1, AgesAreAboveFetches DEF Inbox!Tick
  <2> QED
    BY <1>1, <1>4, <2>1 DEF Inbox!TypeOK, SyncStates
<1>6. Inbox!ProcessedWasObserved' /\ RefsInOrder'
  BY <1>1, <1>2 DEF Inbox!ProcessedWasObserved, RefsInOrder
<1>7. UnseenIsLater'
  <2> SUFFICES ASSUME NEW s \in Syncers, sync[s].pc \in Fetching, NEW e \in Events,
                      event[e].at = "stored", event[e].ref = sync[s].ref, e \notin sync[s].saw
               PROVE  event'[e].age <= sync'[s].since
    BY <1>2, <1>3 DEF UnseenIsLater
  <2>1. event[e].age <= sync[s].since /\ event[e].age \in 0..Inbox!CapAge
    BY <1>1 DEF UnseenIsLater, Inbox!EventRows
  <2> QED
    BY <1>1, <1>2, <1>3, <2>1, AgesAreAboveFetches
<1> QED
  BY <1>5, <1>6, <1>7

\* Every step keeps it.
LEMMA InboxStep ==
  ASSUME Inbox!BillingInboxAssumption, InboxIInv, [Inbox!Next]_(Inbox!vars)
  PROVE  InboxIInv'
<1>1. CASE UNCHANGED Inbox!vars \/ Inbox!StartReplacement
  <2>1. /\ UNCHANGED <<event, main, synced, queue, sync, observed>>
        /\ repl' = repl \/ (repl = "none" /\ repl' = "new")
    BY <1>1 DEF Inbox!vars, Inbox!StartReplacement
  <2> QED
    BY <2>1 DEF InboxIInv, Inbox!InboxInv, Inbox!TypeOK, Inbox!ProcessedWasObserved,
       UnseenIsLater, RefsInOrder
<1> QED
  BY <1>1, WebhookStep, SyncSteps, TimePasses DEF Inbox!Next

\* InboxIInv implies InboxInv.
LEMMA InboxSuffices ==
  ASSUME Inbox!BillingInboxAssumption, InboxIInv
  PROVE  Inbox!InboxInv
  BY DEF InboxIInv

\* An event is marked processed only once a sync that fetched its subscription after
\* the event was stored has settled, or its subscription has left the row, for any
\* skew of the clocks within EVENT_CLOCK_SKEW (sync_pending_events).
THEOREM InboxCorrect ==
  ASSUME Inbox!BillingInboxAssumption
  PROVE  Inbox!Spec => []Inbox!InboxInv
<1>1. Inbox!Init => InboxIInv
  BY InboxStarts
<1>2. InboxIInv /\ [Inbox!Next]_(Inbox!vars) => InboxIInv'
  BY InboxStep
<1>3. InboxIInv => Inbox!InboxInv
  BY InboxSuffices
<1> QED
  BY <1>1, <1>2, <1>3, PTL DEF Inbox!Spec

\* In Components, whose behaviours run one component each, every state keeps
\* InboxInv, the invariant that the run checks: the same promise of
\* sync_pending_events.
THEOREM InboxHolds == Spec => []InboxInv
<1> DEFINE Held == focus = "inbox" => InboxIInv
<1>1. Inbox!BillingInboxAssumption
  BY ComponentsAssumption DEF ComponentsAssumption
<1>2. Init => Held
  BY <1>1, InboxStarts DEF Init
<1>3. Held /\ [Next]_allVars => Held'
  <2> SUFFICES ASSUME Held, [Next]_allVars, focus' = "inbox" PROVE InboxIInv'
    OBVIOUS
  <2>1. focus = "inbox" /\ [Inbox!Next]_(Inbox!vars)
    BY DEF Next, allVars, Inbox!vars
  <2> QED
    BY <1>1, <2>1, InboxStep
<1>4. Held => InboxInv
  BY <1>1, InboxSuffices DEF InboxInv
<1> QED
  BY <1>2, <1>3, <1>4, PTL DEF Spec

-----------------------------------------------------------------------------
(* Replacement: rows and Razorpay's subscriptions *)

Refs == Change!Refs

\* Once paid, a subscription stays so whatever becomes of it.
IsPaid(e) == e.paid /\ e.status \in {"active", "pending", "ended"}

\* A row, committed or drafted: one slot for what it has left; a commit is that of a
\* downgrade, a confirmation that of a cancel that was asked; and what was offered
\* and has not ended is named.
RowSound(q, p, o) ==
  /\ q.ref = NoRef => q.status = "INCOMPLETE"
  /\ q.repl # NoRef => q.retired = NoRef
  /\ q.committed => q.repl # NoRef /\ q.kind = "DOWNGRADE"
  /\ q.confirmed => q.committed /\ q.ref \in Refs /\ p[q.ref].ending # "no"
  /\ q.ref \in Replacements => IsPaid(p[q.ref])
  /\ \A r \in Refs : p[r].status # "ended" /\ (r = Old \/ r \in o) => r \in {q.ref, q.repl, q.retired}

\* A committed downgrade waits for the end of the period.
CommitWaits(q, p, v) == q.committed /\ ~v => p[q.repl].status \in {"authenticated", "ended"}

\* Why a row's old subscription may have been ended for a downgrade.
HasReason(q, p) ==
  \/ q.ref # Old \/ q.committed \/ q.retired \in Replacements
  \/ \E r \in Replacements : p[r].status = "ended"

\* A row keeps its subscriptions, or gives up its replacement.
KeepsRefs(q, n) ==
  /\ n.ref = q.ref /\ n.repl = q.repl /\ n.kind = q.kind /\ n.retired = q.retired
  /\ n.committed = q.committed /\ n.confirmed = q.confirmed
  /\ q.ref # NoRef \/ n.status = q.status

GivesUp(q, n) ==
  /\ q.repl # NoRef /\ q.retired = NoRef
  /\ n.ref = q.ref /\ n.repl = NoRef /\ n.retired = q.repl
  /\ ~n.committed /\ ~n.confirmed
  /\ q.ref # NoRef \/ n.status = q.status

RowMoves(q, n) == n \in Change!Rows /\ (KeepsRefs(q, n) \/ GivesUp(q, n))

\* Razorpay's subscriptions move on: none comes back, none forgets that it was asked
\* to end or was paid.
ProviderLater(p, n) ==
  /\ n \in [Refs -> Change!ProviderSubs]
  /\ \A r \in Refs :
       /\ p[r].status = "ended" => n[r].status = "ended"
       /\ p[r].ending # "no" => n[r].ending # "no"
       /\ IsPaid(p[r]) => IsPaid(n[r])

\* A row that moves stays sound, and keeps its reason.
LEMMA RowMovesSoundly ==
  ASSUME NEW p, NEW o, NEW v, NEW q \in Change!Rows, NEW n,
         RowSound(q, p, o), CommitWaits(q, p, v), RowMoves(q, n)
  PROVE  /\ n \in Change!Rows /\ RowSound(n, p, o) /\ CommitWaits(n, p, v)
         /\ HasReason(q, p) => HasReason(n, p)
         /\ n.committed => q.committed /\ n.repl = q.repl
         /\ n.repl # NoRef => n.repl = q.repl /\ n.kind = q.kind
<1>1. CASE KeepsRefs(q, n)
  BY <1>1 DEF RowMoves, KeepsRefs, RowSound, CommitWaits, HasReason
<1>2. CASE GivesUp(q, n)
  <2>1. q.repl \in Replacements
    BY <1>2 DEF GivesUp, Change!Rows
  <2> QED
    BY <1>2, <2>1 DEF RowMoves, GivesUp, RowSound, CommitWaits, HasReason
<1> QED
  BY <1>1, <1>2 DEF RowMoves

\* A sound row stays so as Razorpay moves.
LEMMA SoundLater ==
  ASSUME NEW p, NEW n, NEW o, NEW q \in Change!Rows, Change!ReplacementAssumption,
         ProviderLater(p, n)
  PROVE  /\ RowSound(q, p, o) => RowSound(q, n, o)
         /\ HasReason(q, p) => HasReason(q, n)
         /\ \A x \in Change!Rows : (HasReason(q, p) => HasReason(x, p)) =>
                                     (HasReason(q, n) => HasReason(x, n))
<1>1. \A r \in Refs : /\ p[r].status = "ended" => n[r].status = "ended"
                      /\ p[r].ending # "no" => n[r].ending # "no"
                      /\ IsPaid(p[r]) => IsPaid(n[r])
  BY DEF ProviderLater
<1>2. Replacements \subseteq Refs
  BY DEF Refs, Change!Refs
<1>3. RowSound(q, p, o) => RowSound(q, n, o)
  BY <1>1, <1>2 DEF RowSound
<1>4. HasReason(q, p) => HasReason(q, n)
  BY <1>1, <1>2 DEF HasReason
<1>5. \A x \in Change!Rows : (HasReason(q, p) => HasReason(x, p)) =>
                               (HasReason(q, n) => HasReason(x, n))
  BY <1>1, <1>2 DEF HasReason
<1> QED
  BY <1>3, <1>4, <1>5

\* The row as Cleared, Retired and Switched leave it.
LEMMA RetiredRow ==
  ASSUME NEW q \in Change!Rows
  PROVE  LET n == Change!Retired(q)
         IN  /\ n \in Change!Rows /\ n.status = q.status /\ n.ref = q.ref /\ n.repl = NoRef
             /\ n.kind = q.kind /\ n.ending = q.ending /\ n.retired = q.repl
             /\ ~n.committed /\ ~n.confirmed
  BY DEF Change!Retired, Change!Cleared, Change!Rows, Change!Refs

\* switch_to_replacement names the replacement as its own and the old one as retired.
LEMMA SwitchedRow ==
  ASSUME NEW q \in Change!Rows
  PROVE  LET n == Change!Switched(q)
         IN  /\ n \in Change!Rows /\ n.status = "ACTIVE" /\ n.ref = q.repl /\ n.repl = NoRef
             /\ n.kind = q.kind /\ n.retired = q.ref /\ ~n.committed /\ ~n.confirmed
  BY DEF Change!Switched, Change!Cleared, Change!Rows, Change!Refs

\* A replacement is given up only for the free slot.
LEMMA GivingUp ==
  ASSUME NEW q \in Change!Rows, q.repl # NoRef, q.retired = NoRef
  PROVE  RowMoves(q, Change!Retired(q))
  BY RetiredRow DEF RowMoves, GivesUp

\* A row that ends or enters grace takes along what _abandon_unless_active allows.
LEMMA WithoutMoves ==
  ASSUME NEW q \in Change!Rows
  PROVE  RowMoves(q, Change!WithoutReplacement(q))
<1>1. RowMoves(q, q)
  BY DEF RowMoves, KeepsRefs
<1>2. ASSUME NEW e, Change!MayAbandon(q, e) PROVE RowMoves(q, Change!Retired(q))
  BY <1>2, GivingUp DEF Change!MayAbandon, Change!SlotIsFree
<1> QED
  BY <1>1, <1>2 DEF Change!WithoutReplacement

\* First the row keeps its subscriptions, then it moves.
LEMMA KeepsThenMoves ==
  ASSUME NEW q \in Change!Rows, NEW m \in Change!Rows, NEW n, KeepsRefs(q, m), RowMoves(m, n)
  PROVE  RowMoves(q, n)
  BY DEF RowMoves, KeepsRefs, GivesUp

\* A row's status and ending may change where it has a subscription.
LEMMA StatusMoves ==
  ASSUME NEW q \in Change!Rows, q.ref # NoRef,
         NEW status \in {"ACTIVE", "PAST_DUE", "ENDED"}, NEW ending \in BOOLEAN
  PROVE  LET n == [q EXCEPT !.status = status, !.ending = ending]
             m == [q EXCEPT !.status = status]
         IN  /\ n \in Change!Rows /\ KeepsRefs(q, n) /\ RowMoves(q, n)
             /\ m \in Change!Rows /\ m.status = status /\ KeepsRefs(q, m)
             /\ RowMoves(q, Change!WithoutReplacement(m))
<1> DEFINE n == [q EXCEPT !.status = status, !.ending = ending]
           m == [q EXCEPT !.status = status]
<1>1. /\ n \in Change!Rows /\ n.ref = q.ref /\ n.repl = q.repl /\ n.kind = q.kind
      /\ n.retired = q.retired /\ n.committed = q.committed /\ n.confirmed = q.confirmed
  BY DEF Change!Rows
<1>2. /\ m \in Change!Rows /\ m.ref = q.ref /\ m.repl = q.repl /\ m.kind = q.kind
      /\ m.retired = q.retired /\ m.committed = q.committed /\ m.confirmed = q.confirmed
      /\ m.status = status
  BY DEF Change!Rows
<1> HIDE DEF n, m
<1>3. KeepsRefs(q, n) /\ KeepsRefs(q, m)
  BY <1>1, <1>2 DEF KeepsRefs
<1>4. RowMoves(q, n)
  BY <1>1, <1>3 DEF RowMoves
<1>5. RowMoves(q, Change!WithoutReplacement(m))
  BY <1>2, <1>3, WithoutMoves, KeepsThenMoves
<1> QED
  BY <1>1, <1>2, <1>3, <1>4, <1>5 DEF n, m

\* Whatever Razorpay says of the row's own subscription, the row only moves.
LEMMA MainMoves ==
  ASSUME NEW q \in Change!Rows, NEW e, q.ref = NoRef => q.status = "INCOMPLETE"
  PROVE  RowMoves(q, Change!MainApplied(q, e))
<1>1. RowMoves(q, q)
  BY DEF RowMoves, KeepsRefs
<1>2. CASE q.ref = NoRef
  BY <1>1, <1>2 DEF Change!MainApplied
<1>3. CASE q.ref # NoRef
  <2> DEFINE ending == IF q.status = "ENDED" THEN FALSE ELSE q.ending
  <2>1. ending \in BOOLEAN
    BY DEF Change!Rows
  <2>2. \/ Change!MainApplied(q, e) = [q EXCEPT !.status = "ACTIVE", !.ending = ending]
        \/ Change!MainApplied(q, e) = Change!WithoutReplacement([q EXCEPT !.status = "PAST_DUE"])
        \/ Change!MainApplied(q, e) = Change!WithoutReplacement([q EXCEPT !.status = "ENDED"])
        \/ Change!MainApplied(q, e) = q
    BY DEF Change!MainApplied
  <2> HIDE DEF ending
  <2>3. RowMoves(q, [q EXCEPT !.status = "ACTIVE", !.ending = ending])
    BY <1>3, <2>1, StatusMoves
  <2>4. \A status \in {"PAST_DUE", "ENDED"} :
          RowMoves(q, Change!WithoutReplacement([q EXCEPT !.status = status]))
    BY <1>3, StatusMoves
  <2> QED
    BY <1>1, <2>2, <2>3, <2>4
<1> QED
  BY <1>2, <1>3

-----------------------------------------------------------------------------
(* Replacement: the invariant *)

RequestStages == {"creating", "committing", "cancelling", "cancellingFirst", "reconciling", "scheduling"}

\* The stages of a sync between the commit of a downgrade and its confirmation.
Asking == {"cancelling", "confirmed", "refused", "repeating", "repeated"}

RunStates ==
  [pc : {"idle", "applying", "committing", "reissuing", "main", "applyingMain", "retired",
         "ending", "clearing"} \cup Asking,
   got : [ref : Refs \cup {NoRef}, entity : Change!ProviderSubs],
   old : Refs \cup {NoRef}, repl : Replacements \cup {NoRef}, fresh : BOOLEAN]

\* What a sync knows: what it fetched as paid has been paid, what it is to clear has
\* ended, and what it reports as confirmed has been asked.
RunSound(q, p, v) ==
  /\ q.pc = "applying" =>
       q.got.ref \in Replacements /\ (Change!Paid(q.got.entity) => IsPaid(p[q.got.ref]))
  /\ q.pc \in {"ending", "clearing"} => q.got.ref \in Refs
  /\ q.pc = "clearing" => p[q.got.ref].status = "ended"
  /\ q.pc \in {"cancelling", "refused", "confirmed"} => ~v
  /\ q.pc \in Asking => q.old \in Refs
  /\ q.pc \in {"confirmed", "repeated"} => p[q.old].ending # "no"

AboutToAsk(q) == q.pc \in {"cancelling", "repeating"} /\ q.old = Old

\* The draft of a request under way: a sound row, and the committed row's heir.
DraftSound(d, stage, p, o, v) ==
  /\ RowSound(d, p, o) /\ CommitWaits(d, p, v)
  /\ HasReason(row, p) => HasReason(d, p)
  /\ d.committed => row.committed /\ d.repl = row.repl
  /\ d.repl # NoRef => \/ d.repl = row.repl /\ d.kind = row.kind
                       \/ d.kind = "DOWNGRADE" => ~v
  /\ stage = "creating" => d.repl = NoRef /\ d.retired = NoRef /\ (d.kind = "DOWNGRADE" => ~v)
  /\ stage \in {"cancelling", "cancellingFirst"} => d.repl # NoRef
  /\ stage \in {"reconciling", "scheduling"} => d.repl = NoRef
  /\ stage = "scheduling" => d.ref # NoRef

ChangeTyped ==
  /\ Change!TypeOK
  /\ syncs \in [Syncers -> RunStates]
  /\ owner \in RequestStages \cup {"idle"}
  /\ lock = IF owner = "idle" THEN Free ELSE Owner

RowHolds == /\ RowSound(row, prov, offered) /\ CommitWaits(row, prov, over)
            /\ over /\ row.repl # NoRef /\ row.kind = "DOWNGRADE" => lapsed

DraftHolds == owner # "idle" => DraftSound(draft, owner, prov, offered, over)

SyncsHold == \A s \in Syncers : RunSound(syncs[s], prov, over)

\* Only what was offered can charge.
OnlyOfferedCharge == \A r \in Replacements : Change!Charges(r) => r \in offered

\* Razorpay is asked to end Old for a downgrade only with a reason.
AskedForAReason ==
  prov[Old].ending = "downgrade" \/ (\E s \in Syncers : AboutToAsk(syncs[s])) => HasReason(row, prov)

ChangeIInv == /\ ChangeTyped /\ RowHolds /\ DraftHolds /\ SyncsHold
              /\ OnlyOfferedCharge /\ AskedForAReason

\* Razorpay as the steps of syncs and requests leave it: besides, a subscription that
\* waits goes on waiting, or ends, and none begins to charge.
ProviderAsked(p, n) ==
  /\ ProviderLater(p, n)
  /\ \A r \in Refs :
       /\ p[r].status \in {"authenticated", "ended"} => n[r].status \in {"authenticated", "ended"}
       /\ n[r].status \in {"authenticated", "active", "pending"} =>
            p[r].status \in {"authenticated", "active", "pending"}

\* It may also be left as it is.
LEMMA ProviderSame ==
  ASSUME ChangeTyped
  PROVE  ProviderAsked(prov, prov)
  BY DEF ChangeTyped, Change!TypeOK, ProviderAsked, ProviderLater, Refs

\* The answers to its calls: a cancel at once, a cancel at the period's end, a creation.
LEMMA ProviderCalls ==
  ASSUME ChangeTyped, NEW r \in Refs
  PROVE  /\ ProviderAsked(prov, Change!Ended(r)) /\ Change!Ended(r)[r].status = "ended"
         /\ Change!Ended(r)[Old].ending = prov[Old].ending
         /\ \A asked \in {"merchant", "downgrade"} :
              /\ ProviderAsked(prov, Change!Scheduled(r, asked))
              /\ Change!Scheduled(r, asked)[r].ending # "no"
              /\ \/ Change!Scheduled(r, asked)[Old].ending = prov[Old].ending
                 \/ r = Old /\ Change!Scheduled(r, asked)[Old].ending = asked
         /\ prov[r].status = "absent" =>
              /\ ProviderAsked(prov, [prov EXCEPT ![r].status = "created"])
              /\ [prov EXCEPT ![r].status = "created"][Old].ending = prov[Old].ending
<1>1. prov \in [Refs -> Change!ProviderSubs] /\ prov[r] \in Change!ProviderSubs /\ Old \in Refs
  BY DEF ChangeTyped, Change!TypeOK, Refs, Change!Refs
<1>2. ASSUME NEW e \in Change!ProviderSubs, NEW n, n = [prov EXCEPT ![r] = e],
             prov[r].status = "ended" => e.status = "ended",
             prov[r].ending # "no" => e.ending # "no",
             IsPaid(prov[r]) => IsPaid(e),
             prov[r].status \in {"authenticated", "ended"} => e.status \in {"authenticated", "ended"},
             e.status \in {"authenticated", "active", "pending"} =>
               prov[r].status \in {"authenticated", "active", "pending"}
      PROVE  /\ ProviderAsked(prov, n) /\ n[r] = e
             /\ n[Old].ending = prov[Old].ending \/ (r = Old /\ n[Old].ending = e.ending)
  <2>1. n \in [Refs -> Change!ProviderSubs] /\ n[r] = e /\ \A x \in Refs \ {r} : n[x] = prov[x]
    BY <1>1, <1>2
  <2> QED
    BY <1>1, <1>2, <2>1 DEF ProviderAsked, ProviderLater
<1>3. /\ ProviderAsked(prov, Change!Ended(r)) /\ Change!Ended(r)[r].status = "ended"
      /\ Change!Ended(r)[Old].ending = prov[Old].ending
  <2> DEFINE old == prov[r]
             e == [old EXCEPT !.status = "ended"]
  <2>1. /\ e \in Change!ProviderSubs /\ e.status = "ended" /\ e.paid = prov[r].paid
        /\ e.ending = prov[r].ending
    <3>1. old \in Change!ProviderSubs
      BY <1>1
    <3> HIDE DEF old
    <3>2. /\ e \in Change!ProviderSubs /\ e.status = "ended" /\ e.paid = old.paid
          /\ e.ending = old.ending
      BY <3>1 DEF Change!ProviderSubs
    <3> QED
      BY <3>2 DEF old
  <2>2. Change!Ended(r) = [prov EXCEPT ![r] = e]
    BY <1>1 DEF Change!Ended
  <2> HIDE DEF e
  <2>3. IsPaid(prov[r]) => IsPaid(e)
    BY <2>1 DEF IsPaid
  <2> DEFINE n == Change!Ended(r)
  <2>4. n = [prov EXCEPT ![r] = e]
    BY <2>2
  <2> HIDE DEF n
  <2>5. /\ ProviderAsked(prov, n) /\ n[r] = e
        /\ n[Old].ending = prov[Old].ending \/ (r = Old /\ n[Old].ending = e.ending)
    BY <1>2, <2>1, <2>3, <2>4
  <2>6. ProviderAsked(prov, n) /\ n[r].status = "ended" /\ n[Old].ending = prov[Old].ending
    BY <2>1, <2>5
  <2> QED
    BY <2>6 DEF n
<1>4. ASSUME NEW asked \in {"merchant", "downgrade"}
      PROVE  /\ ProviderAsked(prov, Change!Scheduled(r, asked))
             /\ Change!Scheduled(r, asked)[r].ending # "no"
             /\ \/ Change!Scheduled(r, asked)[Old].ending = prov[Old].ending
                \/ r = Old /\ Change!Scheduled(r, asked)[Old].ending = asked
  <2> DEFINE ending == IF prov[r].ending = "no" THEN asked ELSE prov[r].ending
             old == prov[r]
             e == [old EXCEPT !.ending = ending]
  <2>1. ending \in {"merchant", "downgrade"} /\ ending \in {asked, prov[r].ending}
    BY <1>1 DEF Change!ProviderSubs
  <2>2. Change!Scheduled(r, asked) = [prov EXCEPT ![r] = e]
    BY <1>1 DEF Change!Scheduled
  <2> HIDE DEF ending
  <2>3. /\ e \in Change!ProviderSubs /\ e.status = prov[r].status /\ e.paid = prov[r].paid
        /\ e.ending = ending
    <3>1. old \in Change!ProviderSubs
      BY <1>1
    <3> HIDE DEF old
    <3>2. /\ e \in Change!ProviderSubs /\ e.status = old.status /\ e.paid = old.paid
          /\ e.ending = ending
      BY <2>1, <3>1 DEF Change!ProviderSubs
    <3> QED
      BY <3>2 DEF old
  <2> HIDE DEF e
  <2>4. IsPaid(prov[r]) => IsPaid(e)
    BY <2>3 DEF IsPaid
  <2> DEFINE n == Change!Scheduled(r, asked)
  <2>5. n = [prov EXCEPT ![r] = e]
    BY <2>2
  <2> HIDE DEF n
  <2>6. /\ ProviderAsked(prov, n) /\ n[r] = e
        /\ n[Old].ending = prov[Old].ending \/ (r = Old /\ n[Old].ending = e.ending)
    BY <1>2, <2>1, <2>3, <2>4, <2>5
  <2>7. /\ ProviderAsked(prov, n) /\ n[r].ending # "no"
        /\ n[Old].ending \in {prov[Old].ending, asked} /\ (n[Old].ending # prov[Old].ending => r = Old)
    BY <2>1, <2>3, <2>6
  <2> QED
    BY <2>7 DEF n
<1>5. ASSUME prov[r].status = "absent"
      PROVE  /\ ProviderAsked(prov, [prov EXCEPT ![r].status = "created"])
             /\ [prov EXCEPT ![r].status = "created"][Old].ending = prov[Old].ending
  <2> DEFINE e == [prov[r] EXCEPT !.status = "created"]
  <2>1. /\ e \in Change!ProviderSubs /\ e.status = "created" /\ e.paid = prov[r].paid
        /\ e.ending = prov[r].ending
    BY <1>1 DEF Change!ProviderSubs
  <2>2. [prov EXCEPT ![r].status = "created"] = [prov EXCEPT ![r] = e]
    BY <1>1
  <2> HIDE DEF e
  <2>3. IsPaid(prov[r]) => IsPaid(e)
    BY <1>5 DEF IsPaid
  <2> QED
    BY <1>2, <1>5, <2>1, <2>2, <2>3
<1> QED
  BY <1>3, <1>4, <1>5

\* The runs' records of nothing.
LEMMA NothingKnown ==
  /\ Change!Absent \in Change!ProviderSubs /\ Change!FirstRow \in Change!Rows
  /\ Change!IdleSync \in RunStates /\ Change!IdleSync.pc = "idle"
<1>1. Change!Absent \in Change!ProviderSubs
  BY DEF Change!Absent, Change!ProviderSubs
<1>2. Change!FirstRow \in Change!Rows
  BY DEF Change!FirstRow, Change!Rows, Change!Refs
<1>3. Change!Nothing \in [ref : Refs \cup {NoRef}, entity : Change!ProviderSubs]
  BY <1>1 DEF Change!Nothing
<1> QED
  BY <1>1, <1>2, <1>3 DEF Change!IdleSync, RunStates

\* Init establishes it.
LEMMA ChangeStarts ==
  ASSUME Change!ReplacementAssumption, Change!Init
  PROVE  ChangeIInv
<1> USE DEF Change!Init
<1> DEFINE first == [Change!Absent EXCEPT !.status = "active", !.paid = TRUE]
<1>1. first \in Change!ProviderSubs /\ first.status = "active" /\ first.ending = "no"
  BY DEF Change!Absent, Change!ProviderSubs
<1>2. prov = [r \in Refs |-> IF r = Old THEN first ELSE Change!Absent]
  BY DEF Refs
<1> HIDE DEF first
<1>3. /\ prov \in [Refs -> Change!ProviderSubs] /\ Old \in Refs /\ Replacements \subseteq Refs
      /\ \A r \in Replacements : prov[r].status = "absent"
      /\ prov[Old].ending = "no"
  <2>1. Change!Absent \in Change!ProviderSubs /\ Change!Absent.status = "absent"
    BY NothingKnown DEF Change!Absent
  <2>2. Old \in Refs /\ Replacements \subseteq Refs /\ Old \notin Replacements
    BY DEF Refs, Change!Refs, Change!ReplacementAssumption
  <2> QED
    BY <1>1, <1>2, <2>1, <2>2
<1>4. ChangeTyped
  BY <1>3, NothingKnown DEF ChangeTyped, Change!TypeOK, Refs, Change!ReplacementAssumption
<1>5. RowHolds /\ DraftHolds
  BY <1>3 DEF RowHolds, RowSound, CommitWaits, DraftHolds, Change!FirstRow, Change!ReplacementAssumption
<1>6. SyncsHold /\ OnlyOfferedCharge /\ AskedForAReason
  BY <1>3, NothingKnown DEF SyncsHold, RunSound, Asking, OnlyOfferedCharge, AskedForAReason,
     AboutToAsk, Change!Charges
<1> QED
  BY <1>4, <1>5, <1>6 DEF ChangeIInv

\* What a run knows stays true as Razorpay moves.
LEMMA RunLater ==
  ASSUME NEW q, NEW p, NEW n, NEW v, RunSound(q, p, v), ProviderLater(p, n)
  PROVE  RunSound(q, n, v)
<1>1. Replacements \subseteq Refs
  BY DEF Refs, Change!Refs
<1> QED
  BY <1>1 DEF RunSound, ProviderLater, Asking

\* One run goes on, and the others know what they knew.
LEMMA RunsGoOn ==
  ASSUME ChangeIInv, NEW s \in Syncers, NEW q \in RunStates, syncs' = [syncs EXCEPT ![s] = q],
         RunSound(q, prov', over), UNCHANGED over, ProviderLater(prov, prov')
  PROVE  /\ syncs' \in [Syncers -> RunStates] /\ SyncsHold'
         /\ \A x \in Syncers : syncs'[x] = q \/ syncs'[x] = syncs[x]
<1>1. syncs \in [Syncers -> RunStates] /\ \A x \in Syncers : RunSound(syncs[x], prov, over)
  BY DEF ChangeIInv, ChangeTyped, SyncsHold
<1>2. \A x \in Syncers : RunSound(syncs[x], prov', over)
  BY <1>1, RunLater
<1>3. \A x \in Syncers : syncs'[x] = q \/ syncs'[x] = syncs[x]
  BY <1>1
<1>4. \A x \in Syncers : RunSound(syncs'[x], prov', over')
  BY <1>2, <1>3
<1>5. SyncsHold'
  BY <1>4 DEF SyncsHold
<1> QED
  BY <1>1, <1>3, <1>5

\* The committed row while Razorpay is asked something, and the draft of a request.
LEMMA RazorpayIsAsked ==
  ASSUME Change!ReplacementAssumption, ChangeIInv,
         UNCHANGED <<row, lapsed, over, offered>>, ProviderAsked(prov, prov'),
         prov'[Old].ending = "downgrade" => prov[Old].ending = "downgrade" \/ HasReason(row, prov),
         draft' \in Change!Rows, owner' \in RequestStages \cup {"idle"},
         lock' = IF owner' = "idle" THEN Free ELSE Owner, DraftHolds', faults' \in 0..MaxFaults,
         syncs' \in [Syncers -> RunStates], SyncsHold',
         \A s \in Syncers : AboutToAsk(syncs'[s]) => HasReason(row, prov)
  PROVE  ChangeIInv'
<1> USE DEF ChangeIInv
<1>1. row \in Change!Rows /\ Replacements \subseteq Refs /\ ProviderLater(prov, prov')
  BY DEF ChangeTyped, Change!TypeOK, Refs, Change!Refs, ProviderAsked
<1>2. ChangeTyped'
  <2>1. prov' \in [Change!Refs -> Change!ProviderSubs]
    BY <1>1 DEF ProviderLater, Refs
  <2> QED
    BY <2>1 DEF ChangeTyped, Change!TypeOK
<1>3. RowHolds'
  <2>1. RowSound(row, prov', offered)
    BY <1>1, SoundLater DEF RowHolds
  <2>2. CommitWaits(row, prov', over)
    <3>1. row.committed => row.repl \in Refs
      BY <1>1 DEF RowHolds, RowSound, Change!Rows
    <3> QED
      BY <3>1 DEF RowHolds, CommitWaits, ProviderAsked
  <2>3. RowSound(row', prov', offered') /\ CommitWaits(row', prov', over')
    BY <2>1, <2>2
  <2> QED
    BY <2>3 DEF RowHolds
<1>4. OnlyOfferedCharge'
  BY <1>1 DEF OnlyOfferedCharge, Change!Charges, ProviderAsked
<1>5. AskedForAReason'
  <2>1. HasReason(row, prov) => HasReason(row, prov')
    BY <1>1, SoundLater
  <2>2. HasReason(row, prov) => HasReason(row', prov')
    BY <2>1
  <2>3. prov'[Old].ending = "downgrade" \/ (\E s \in Syncers : AboutToAsk(syncs'[s])) => HasReason(row, prov)
    BY DEF AskedForAReason
  <2> QED
    BY <2>2, <2>3 DEF AskedForAReason
<1> QED
  BY <1>2, <1>3, <1>4, <1>5

\* A draft stays sound as Razorpay is asked something.
LEMMA DraftLater ==
  ASSUME Change!ReplacementAssumption, ChangeIInv, owner # "idle", NEW n, ProviderAsked(prov, n)
  PROVE  DraftSound(draft, owner, n, offered, over)
<1> USE DEF ChangeIInv
<1>1. row \in Change!Rows /\ draft \in Change!Rows /\ ProviderLater(prov, n)
  BY DEF ChangeTyped, Change!TypeOK, ProviderAsked
<1>2. DraftSound(draft, owner, prov, offered, over)
  BY DEF DraftHolds
<1>3. RowSound(draft, n, offered) /\ (HasReason(row, n) => HasReason(draft, n))
  BY <1>1, <1>2, SoundLater DEF DraftSound
<1>4. CommitWaits(draft, n, over)
  <2>1. draft.committed => draft.repl \in Refs
    BY <1>1, <1>2 DEF DraftSound, RowSound, Change!Rows, Refs, Change!Refs
  <2> QED
    BY <1>2, <2>1 DEF DraftSound, CommitWaits, ProviderAsked
<1> QED
  BY <1>2, <1>3, <1>4 DEF DraftSound

\* A draft that waits meanwhile stays sound.
LEMMA DraftWaits ==
  ASSUME Change!ReplacementAssumption, ChangeIInv,
         UNCHANGED <<row, over, offered, draft, owner>>, ProviderAsked(prov, prov')
  PROVE  DraftHolds'
<1>1. owner # "idle" => DraftSound(draft, owner, prov', offered, over)
  BY DraftLater
<1> QED
  BY <1>1 DEF DraftHolds, DraftSound

\* A run goes on while it asks Razorpay, or only reads.
LEMMA RunAsks ==
  ASSUME Change!ReplacementAssumption, ChangeIInv, NEW s \in Syncers, NEW q \in RunStates,
         syncs' = [syncs EXCEPT ![s] = q], RunSound(q, prov', over),
         UNCHANGED <<row, lapsed, over, offered, lock, owner, draft>>, faults' \in 0..MaxFaults,
         ProviderAsked(prov, prov'),
         prov'[Old].ending = "downgrade" => prov[Old].ending = "downgrade" \/ HasReason(row, prov),
         AboutToAsk(q) => HasReason(row, prov)
  PROVE  ChangeIInv'
<1>1. ProviderLater(prov, prov') /\ DraftHolds'
  BY DraftWaits DEF ProviderAsked
<1>2. /\ syncs' \in [Syncers -> RunStates] /\ SyncsHold'
      /\ \A x \in Syncers : syncs'[x] = q \/ syncs'[x] = syncs[x]
  BY <1>1, RunsGoOn
<1>3. \A x \in Syncers : AboutToAsk(syncs'[x]) => HasReason(row, prov)
  BY <1>2 DEF ChangeIInv, AskedForAReason
<1>4. /\ draft' \in Change!Rows /\ owner' \in RequestStages \cup {"idle"}
      /\ lock' = IF owner' = "idle" THEN Free ELSE Owner
  BY DEF ChangeIInv, ChangeTyped, Change!TypeOK
<1> QED
  BY <1>1, <1>2, <1>3, <1>4, RazorpayIsAsked

\* A run goes on in a transaction that writes the row, or leaves it.
LEMMA RunWrites ==
  ASSUME Change!ReplacementAssumption, ChangeIInv, NEW s \in Syncers, NEW q \in RunStates,
         syncs' = [syncs EXCEPT ![s] = q], RunSound(q, prov, over), Change!Unlocked,
         UNCHANGED <<lapsed, over, prov, offered, lock, owner, draft, faults>>,
         NEW n \in Change!Rows, row' = n,
         RowSound(n, prov, offered), CommitWaits(n, prov, over),
         HasReason(row, prov) => HasReason(n, prov),
         n.repl # NoRef => n.repl = row.repl /\ n.kind = row.kind,
         AboutToAsk(q) => HasReason(n, prov)
  PROVE  ChangeIInv'
<1> USE DEF ChangeIInv
<1>1. owner = "idle"
  BY DEF ChangeTyped, Change!Unlocked, Change!ReplacementAssumption
<1>2. ProviderLater(prov, prov')
  BY ProviderSame DEF ProviderAsked
<1>3. /\ syncs' \in [Syncers -> RunStates] /\ SyncsHold'
      /\ \A x \in Syncers : syncs'[x] = q \/ syncs'[x] = syncs[x]
  BY <1>2, RunsGoOn
<1>4. ChangeTyped'
  BY <1>3 DEF ChangeTyped, Change!TypeOK
<1>5. RowHolds'
  BY DEF RowHolds
<1>6. DraftHolds' /\ OnlyOfferedCharge'
  BY <1>1 DEF DraftHolds, OnlyOfferedCharge, Change!Charges
<1>7. AskedForAReason'
  <2>1. prov[Old].ending = "downgrade" \/ (\E x \in Syncers : AboutToAsk(syncs'[x])) => HasReason(n, prov)
    BY <1>3 DEF AskedForAReason
  <2> QED
    BY <2>1 DEF AskedForAReason
<1> QED
  BY <1>3, <1>4, <1>5, <1>6, <1>7

-----------------------------------------------------------------------------
(* Replacement: the steps of a sync *)

RunStages == {"idle", "applying", "committing", "reissuing", "main", "applyingMain", "retired",
              "ending", "clearing"} \cup Asking

\* Where a run goes when it knows nothing that could become untrue.
Plain == {"idle", "committing", "reissuing", "main", "applyingMain", "retired"}

\* The records that the steps of a run leave.
LEMMA RunRecords ==
  ASSUME ChangeTyped, NEW s \in Syncers, NEW stage \in RunStages
  PROVE  /\ syncs[s] \in RunStates
         /\ LET q == [Change!IdleSync EXCEPT !.pc = stage]
            IN  q \in RunStates /\ q.pc = stage
         /\ LET q == [syncs[s] EXCEPT !.pc = stage]
            IN  q \in RunStates /\ q.pc = stage /\ q.old = syncs[s].old /\ q.got = syncs[s].got
<1>1. syncs[s] \in RunStates /\ Change!IdleSync \in RunStates
  BY NothingKnown DEF ChangeTyped
<1> QED
  BY <1>1 DEF RunStates, RunStages

\* A run that has fetched, and one that is to ask Razorpay for a cancel.
WithFetch(q, stage, ref, entity) ==
  [q EXCEPT !.pc = stage, !.fresh = TRUE, !.got = [ref |-> ref, entity |-> entity]]

ToAsk(q, stage, old, rep) == [q EXCEPT !.pc = stage, !.old = old, !.repl = rep]

\* The record of a run that has fetched.
LEMMA FetchRecord ==
  ASSUME NEW q \in RunStates, NEW stage \in RunStages, NEW ref \in Refs,
         NEW e \in Change!ProviderSubs
  PROVE  LET n == WithFetch(q, stage, ref, e)
         IN  n \in RunStates /\ n.pc = stage /\ n.got.ref = ref /\ n.got.entity = e
<1> DEFINE got == [ref |-> ref, entity |-> e]
           n == [q EXCEPT !.pc = stage, !.fresh = TRUE, !.got = got]
<1>1. /\ got \in [ref : Refs \cup {NoRef}, entity : Change!ProviderSubs]
      /\ got.ref = ref /\ got.entity = e
  OBVIOUS
<1> HIDE DEF got
<1>2. n \in RunStates /\ n.pc = stage /\ n.got = got
  BY <1>1 DEF RunStates, RunStages
<1> HIDE DEF n
<1>3. n \in RunStates /\ n.pc = stage /\ n.got.ref = ref /\ n.got.entity = e
  BY <1>1, <1>2
<1> QED
  BY <1>3 DEF n, got, WithFetch

\* The record of a run that is to ask for a cancel.
LEMMA AskRecord ==
  ASSUME NEW q \in RunStates, NEW stage \in Asking, NEW old \in Refs, NEW rep \in Replacements
  PROVE  LET n == ToAsk(q, stage, old, rep)
         IN  n \in RunStates /\ n.pc = stage /\ n.old = old
  BY DEF RunStates, ToAsk

\* Nothing can be untrue of a run that goes to a plain stage.
LEMMA PlainIsSound ==
  ASSUME NEW q, q.pc \in Plain, NEW p, NEW v
  PROVE  RunSound(q, p, v) /\ ~AboutToAsk(q)
  BY DEF Plain, RunSound, AboutToAsk, Asking

\* A run reads, or a task ends, and nothing else moves.
LEMMA RunReads ==
  ASSUME Change!ReplacementAssumption, ChangeIInv, NEW s \in Syncers, NEW q \in RunStates,
         syncs' = [syncs EXCEPT ![s] = q], RunSound(q, prov, over),
         UNCHANGED <<row, lapsed, over, prov, offered, lock, owner, draft>>,
         faults' = faults \/ Change!Fault, AboutToAsk(q) => HasReason(row, prov)
  PROVE  ChangeIInv'
<1>1. faults' \in 0..MaxFaults
  BY DEF Change!Fault, ChangeIInv, ChangeTyped, Change!TypeOK, Change!ReplacementAssumption
<1>2. ProviderAsked(prov, prov') /\ RunSound(q, prov', over)
  BY ProviderSame DEF ChangeIInv
<1> QED
  BY <1>1, <1>2, RunAsks

\* A run's transaction that moves the row and goes to a plain stage.
LEMMA RunMovesRow ==
  ASSUME Change!ReplacementAssumption, ChangeIInv, NEW s \in Syncers, NEW stage \in Plain,
         Change!Goto(s, stage), Change!Unlocked,
         UNCHANGED <<lapsed, over, prov, offered, lock, owner, draft, faults>>,
         RowMoves(row, row')
  PROVE  ChangeIInv'
<1> DEFINE q == [Change!IdleSync EXCEPT !.pc = stage]
<1>1. q \in RunStates /\ q.pc = stage
  BY RunRecords DEF ChangeIInv, Plain, RunStages
<1>2. syncs' = [syncs EXCEPT ![s] = q]
  BY DEF Change!Goto
<1> HIDE DEF q
<1>3. RunSound(q, prov, over) /\ ~AboutToAsk(q)
  BY <1>1, PlainIsSound
<1>4. ASSUME NEW n, n = row'
      PROVE  /\ n \in Change!Rows /\ RowSound(n, prov, offered) /\ CommitWaits(n, prov, over)
             /\ HasReason(row, prov) => HasReason(n, prov)
             /\ n.repl # NoRef => n.repl = row.repl /\ n.kind = row.kind
  BY <1>4, RowMovesSoundly DEF ChangeIInv, ChangeTyped, Change!TypeOK, RowHolds
<1> QED
  BY <1>1, <1>2, <1>3, <1>4, RunWrites

\* A run that fetches knows what it fetched.
LEMMA RunFetches ==
  ASSUME Change!ReplacementAssumption, ChangeIInv, NEW s \in Syncers, NEW ref \in Refs,
         NEW stage \in {"applying", "applyingMain", "ending", "clearing"},
         Change!Fetched(s, ref, stage),
         stage = "applying" => ref \in Replacements,
         stage = "clearing" => prov[ref].status = "ended",
         UNCHANGED <<row, lapsed, over, prov, offered, lock, owner, draft, faults>>
  PROVE  ChangeIInv'
<1> DEFINE q == WithFetch(syncs[s], stage, ref, prov[ref])
<1>1. q \in RunStates /\ q.pc = stage /\ q.got.ref = ref /\ q.got.entity = prov[ref]
  <2>1. syncs[s] \in RunStates /\ prov[ref] \in Change!ProviderSubs /\ stage \in RunStages
    BY DEF ChangeIInv, ChangeTyped, Change!TypeOK, Refs, RunStages
  <2> QED
    BY <2>1, FetchRecord
<1>2. syncs' = [syncs EXCEPT ![s] = q]
  BY DEF Change!Fetched, ChangeIInv, ChangeTyped, WithFetch
<1> HIDE DEF q
<1>3. RunSound(q, prov, over)
  BY <1>1 DEF RunSound, Asking, Change!Paid, IsPaid
<1>4. ~AboutToAsk(q)
  BY <1>1 DEF AboutToAsk
<1> QED
  BY <1>1, <1>2, <1>3, <1>4, RunReads

\* A run that goes to a plain stage without writing.
LEMMA RunPasses ==
  ASSUME Change!ReplacementAssumption, ChangeIInv, NEW s \in Syncers, NEW stage \in Plain,
         Change!Goto(s, stage), faults' = faults \/ Change!Fault,
         UNCHANGED <<row, lapsed, over, prov, offered, lock, owner, draft>>
  PROVE  ChangeIInv'
<1> DEFINE q == [Change!IdleSync EXCEPT !.pc = stage]
<1>1. q \in RunStates /\ q.pc = stage
  BY RunRecords DEF ChangeIInv, Plain, RunStages
<1>2. syncs' = [syncs EXCEPT ![s] = q]
  BY DEF Change!Goto
<1> HIDE DEF q
<1>3. RunSound(q, prov, over) /\ ~AboutToAsk(q)
  BY <1>1, PlainIsSound
<1> QED
  BY <1>1, <1>2, <1>3, RunReads

\* A paid replacement takes over: the row stays sound, and Old is no longer its own.
LEMMA SwitchSoundly ==
  ASSUME Change!ReplacementAssumption, NEW q \in Change!Rows, NEW p, NEW o, NEW v,
         RowSound(q, p, o), q.repl \in Replacements, q.retired = NoRef, IsPaid(p[q.repl])
  PROVE  LET n == Change!Switched(q)
         IN  /\ n \in Change!Rows /\ RowSound(n, p, o) /\ CommitWaits(n, p, v) /\ HasReason(n, p)
             /\ n.repl = NoRef
<1> DEFINE n == Change!Switched(q)
<1>1. /\ n \in Change!Rows /\ n.ref = q.repl /\ n.repl = NoRef /\ n.retired = q.ref
      /\ ~n.committed /\ ~n.confirmed
  BY SwitchedRow
<1> HIDE DEF n
<1>2. RowSound(n, p, o) /\ CommitWaits(n, p, v) /\ HasReason(n, p)
  BY <1>1 DEF RowSound, CommitWaits, HasReason, Change!ReplacementAssumption
<1> QED
  BY <1>1, <1>2 DEF n

\* The replacement's snapshot: a switch, an abandon, or no change.
LEMMA ReplacementApplied ==
  ASSUME Change!ReplacementAssumption, ChangeIInv, NEW s \in Syncers, Change!ApplyReplacement(s)
  PROVE  ChangeIInv'
<1> DEFINE e == syncs[s].got.entity
           stage == IF e.status = "authenticated" THEN "committing" ELSE "main"
           q == [Change!IdleSync EXCEPT !.pc = stage]
<1>1. /\ syncs[s].pc = "applying" /\ Change!Unlocked /\ Change!Goto(s, stage) /\ stage \in Plain
      /\ UNCHANGED <<lapsed, over, prov, offered, lock, owner, draft, faults>>
      /\ row' = IF row.repl = syncs[s].got.ref THEN Change!Applied(e) ELSE row
  BY DEF Change!ApplyReplacement, Plain
<1>2. row \in Change!Rows /\ RowSound(row, prov, offered) /\ CommitWaits(row, prov, over)
  BY DEF ChangeIInv, ChangeTyped, Change!TypeOK, RowHolds
<1>3. syncs[s].got.ref \in Replacements /\ (Change!Paid(e) => IsPaid(prov[syncs[s].got.ref]))
  BY <1>1 DEF ChangeIInv, SyncsHold, RunSound
<1> HIDE DEF e, stage
<1>4. CASE row' = row
  <2>1. RowMoves(row, row')
    BY <1>2, <1>4 DEF RowMoves, KeepsRefs
  <2> QED
    BY <1>1, <2>1, RunMovesRow
<1>5. CASE row' = Change!Retired(row) /\ row.repl # NoRef /\ Change!SlotIsFree(row)
  <2>1. RowMoves(row, row')
    BY <1>2, <1>5, GivingUp DEF Change!SlotIsFree
  <2> QED
    BY <1>1, <2>1, RunMovesRow
<1>6. CASE /\ row' = Change!Switched(row) /\ Change!Paid(e) /\ Change!SlotIsFree(row)
           /\ row.repl = syncs[s].got.ref
  <2> DEFINE n == Change!Switched(row)
  <2>1. /\ n \in Change!Rows /\ RowSound(n, prov, offered) /\ CommitWaits(n, prov, over)
        /\ HasReason(n, prov) /\ n.repl = NoRef
    BY <1>2, <1>3, <1>6, SwitchSoundly DEF Change!SlotIsFree
  <2>2. /\ q \in RunStates /\ q.pc = stage /\ syncs' = [syncs EXCEPT ![s] = q]
        /\ RunSound(q, prov, over) /\ ~AboutToAsk(q)
    <3>1. q \in RunStates /\ q.pc = stage
      BY <1>1, RunRecords DEF ChangeIInv, Plain, RunStages
    <3>2. syncs' = [syncs EXCEPT ![s] = q]
      BY <1>1 DEF Change!Goto
    <3> HIDE DEF q
    <3> QED
      BY <1>1, <3>1, <3>2, PlainIsSound
  <2> HIDE DEF n, q
  <2>3. row' = n
    BY <1>6 DEF n
  <2> QED
    BY <1>1, <2>1, <2>2, <2>3, RunWrites
<1>7. CASE row.repl = syncs[s].got.ref
  <2>1. row' = Change!Applied(e) /\ row.repl # NoRef
    BY <1>1, <1>3, <1>7 DEF Change!ReplacementAssumption
  <2>2. \/ row' = row
        \/ row' = Change!Retired(row) /\ Change!SlotIsFree(row)
        \/ row' = Change!Switched(row) /\ Change!Paid(e) /\ Change!SlotIsFree(row)
    BY <2>1 DEF Change!Applied, Change!MayAbandon
  <2> QED
    BY <1>4, <1>5, <1>6, <1>7, <2>1, <2>2
<1> QED
  BY <1>1, <1>4, <1>7

\* T1 of a downgrade: it is committed before its period is over, or abandoned.
LEMMA DowngradeCommitted ==
  ASSUME Change!ReplacementAssumption, ChangeIInv, NEW s \in Syncers, Change!CommitDowngrade(s)
  PROVE  ChangeIInv'
<1>1. /\ Change!Unlocked /\ UNCHANGED <<lapsed, over, prov, offered, lock, owner, draft, faults>>
  BY DEF Change!CommitDowngrade
<1>2. row \in Change!Rows /\ RowSound(row, prov, offered) /\ CommitWaits(row, prov, over)
  BY DEF ChangeIInv, ChangeTyped, Change!TypeOK, RowHolds
<1>3. CASE Change!Authenticated /\ ~lapsed
  <2> DEFINE n == Change!Committed
             q == ToAsk(syncs[s], "cancelling", row.ref, row.repl)
  <2>1. /\ row.status = "ACTIVE" /\ row.repl # NoRef /\ row.kind = "DOWNGRADE"
        /\ prov[row.repl].status = "authenticated" /\ ~over /\ row.ref \in Refs
        /\ row.repl \in Replacements
    BY <1>2, <1>3 DEF Change!Authenticated, Change!Candidate, ChangeIInv, RowHolds, RowSound,
       Change!Rows, Refs
  <2>2. /\ n \in Change!Rows /\ n.committed /\ n.status = row.status /\ n.ref = row.ref
        /\ n.repl = row.repl /\ n.kind = row.kind /\ n.confirmed = row.confirmed
        /\ n.retired = row.retired
    BY <1>2 DEF Change!Committed, Change!Rows
  <2>3. q \in RunStates /\ q.pc = "cancelling" /\ q.old = row.ref
    <3>1. syncs[s] \in RunStates /\ "cancelling" \in Asking
      BY DEF ChangeIInv, ChangeTyped, Asking
    <3> QED
      BY <2>1, <3>1, AskRecord
  <2>4. row' = n /\ syncs' = [syncs EXCEPT ![s] = q]
    BY <1>3 DEF Change!CommitDowngrade, ChangeIInv, ChangeTyped, ToAsk
  <2> HIDE DEF n, q
  <2>5. RowSound(n, prov, offered) /\ CommitWaits(n, prov, over) /\ HasReason(n, prov)
    BY <1>2, <2>1, <2>2 DEF RowSound, CommitWaits, HasReason
  <2>6. RunSound(q, prov, over)
    BY <2>1, <2>3 DEF RunSound
  <2> QED
    BY <1>1, <2>2, <2>3, <2>4, <2>5, <2>6, RunWrites
<1>4. CASE ~(Change!Authenticated /\ ~lapsed)
  <2>1. Change!Goto(s, "reissuing") /\ "reissuing" \in Plain
    BY <1>4 DEF Change!CommitDowngrade, Plain
  <2>2. RowMoves(row, row)
    BY <1>2 DEF RowMoves, KeepsRefs
  <2>3. Change!Authenticated /\ Change!SlotIsFree(row) => RowMoves(row, Change!Retired(row))
    BY <1>2, GivingUp DEF Change!Authenticated, Change!Candidate, Change!SlotIsFree
  <2>4. RowMoves(row, row')
    BY <1>4, <2>2, <2>3 DEF Change!CommitDowngrade
  <2> QED
    BY <1>1, <2>1, <2>4, RunMovesRow
<1> QED
  BY <1>3, <1>4

\* A run that reports the answer to what it asked.
LEMMA RunAnswered ==
  ASSUME Change!ReplacementAssumption, ChangeIInv, NEW s \in Syncers, NEW stage \in RunStages,
         Change!Answered(s, stage), RunSound([syncs[s] EXCEPT !.pc = stage], prov', over),
         stage \notin {"cancelling", "repeating"},
         UNCHANGED <<row, lapsed, over, offered, lock, owner, draft>>,
         faults' = faults \/ Change!Fault, ProviderAsked(prov, prov'),
         prov'[Old].ending = "downgrade" => prov[Old].ending = "downgrade" \/ HasReason(row, prov)
  PROVE  ChangeIInv'
<1> DEFINE q == [syncs[s] EXCEPT !.pc = stage]
<1>1. q \in RunStates /\ q.pc = stage
  BY RunRecords DEF ChangeIInv
<1>2. syncs' = [syncs EXCEPT ![s] = q] /\ RunSound(q, prov', over)
  BY DEF Change!Answered, ChangeIInv, ChangeTyped
<1> HIDE DEF q
<1>3. ~AboutToAsk(q)
  BY <1>1 DEF AboutToAsk
<1>4. faults' \in 0..MaxFaults
  BY DEF Change!Fault, ChangeIInv, ChangeTyped, Change!TypeOK, Change!ReplacementAssumption
<1> QED
  BY <1>1, <1>2, <1>3, <1>4, RunAsks

\* A run that passes on after a call whose effect it does not know.
LEMMA RunPassesAsking ==
  ASSUME Change!ReplacementAssumption, ChangeIInv, NEW s \in Syncers, NEW stage \in Plain,
         Change!Goto(s, stage), faults' = faults \/ Change!Fault,
         UNCHANGED <<row, lapsed, over, offered, lock, owner, draft>>, ProviderAsked(prov, prov'),
         prov'[Old].ending = "downgrade" => prov[Old].ending = "downgrade" \/ HasReason(row, prov)
  PROVE  ChangeIInv'
<1> DEFINE q == [Change!IdleSync EXCEPT !.pc = stage]
<1>1. q \in RunStates /\ q.pc = stage
  BY RunRecords DEF ChangeIInv, Plain, RunStages
<1>2. syncs' = [syncs EXCEPT ![s] = q]
  BY DEF Change!Goto
<1> HIDE DEF q
<1>3. RunSound(q, prov', over) /\ ~AboutToAsk(q)
  BY <1>1, PlainIsSound
<1>4. faults' \in 0..MaxFaults
  BY DEF Change!Fault, ChangeIInv, ChangeTyped, Change!TypeOK, Change!ReplacementAssumption
<1> QED
  BY <1>1, <1>2, <1>3, <1>4, RunAsks

\* The calls of a run that cancels the old subscription for a downgrade.
LEMMA OldIsCancelled ==
  ASSUME Change!ReplacementAssumption, ChangeIInv, NEW s \in Syncers,
         Change!CancelOld(s) \/ Change!RepeatCancel(s)
  PROVE  ChangeIInv'
<1> DEFINE old == syncs[s].old
           next == Change!Scheduled(old, "downgrade")
<1>1. /\ ChangeTyped /\ syncs[s].pc \in {"cancelling", "repeating"}
      /\ UNCHANGED <<row, lapsed, over, offered, lock, owner, draft>>
  BY DEF ChangeIInv, Change!CancelOld, Change!RepeatCancel
<1>2. /\ old \in Refs /\ (syncs[s].pc = "cancelling" => ~over)
      /\ old = Old => HasReason(row, prov)
  BY <1>1 DEF ChangeIInv, SyncsHold, RunSound, Asking, AskedForAReason, AboutToAsk
<1>3. /\ ProviderAsked(prov, next) /\ next[old].ending # "no"
      /\ next[Old].ending = "downgrade" => prov[Old].ending = "downgrade" \/ HasReason(row, prov)
  <2>1. /\ ProviderAsked(prov, next) /\ next[old].ending # "no"
        /\ next[Old].ending = prov[Old].ending \/ old = Old
    BY <1>1, <1>2, ProviderCalls
  <2> QED
    BY <1>2, <2>1
<1>4. ProviderAsked(prov, prov)
  BY <1>1, ProviderSame
<1>5. "main" \in Plain
  BY DEF Plain
<1>6. ASSUME Change!Goto(s, "main"), prov' \in {prov, next}, faults' = faults \/ Change!Fault
      PROVE  ChangeIInv'
  BY <1>1, <1>3, <1>4, <1>5, <1>6, RunPassesAsking
<1>7. ASSUME NEW stage \in {"confirmed", "refused", "repeated"}, Change!Answered(s, stage),
             prov' \in {prov, next}, stage \in {"confirmed", "repeated"} => prov' = next,
             stage \in {"confirmed", "refused"} => ~over, faults' = faults \/ Change!Fault
      PROVE  ChangeIInv'
  <2> DEFINE q == [syncs[s] EXCEPT !.pc = stage]
  <2>1. stage \in RunStages /\ stage \notin {"cancelling", "repeating"}
    BY DEF RunStages, Asking
  <2>2. q.pc = stage /\ q.old = old
    BY <1>1, <2>1, RunRecords
  <2>3. RunSound(q, prov', over)
    <3> HIDE DEF q
    <3> QED
      BY <1>2, <1>3, <1>7, <2>2 DEF RunSound
  <2> QED
    BY <1>1, <1>3, <1>4, <1>7, <2>1, <2>3, RunAnswered
<1>8. CASE Change!CancelOld(s)
  <2>1. /\ syncs[s].pc = "cancelling" /\ ~over
    BY <1>2, <1>8 DEF Change!CancelOld
  <2>2. \/ prov' = next /\ Change!Answered(s, "confirmed") /\ UNCHANGED faults
        \/ Change!Answered(s, "refused") /\ UNCHANGED <<prov, faults>>
        \/ Change!Fault /\ Change!Answered(s, "refused") /\ UNCHANGED prov
        \/ Change!Fault /\ Change!Goto(s, "main") /\ prov' \in {prov, next}
    BY <1>8 DEF Change!CancelOld
  <2> HIDE DEF next
  <2> QED
    BY <1>6, <1>7, <2>1, <2>2
<1>9. CASE Change!RepeatCancel(s)
  <2>1. \/ prov' = next /\ Change!Answered(s, "repeated") /\ UNCHANGED faults
        \/ Change!Goto(s, "main") /\ UNCHANGED <<prov, faults>>
        \/ Change!Fault /\ Change!Goto(s, "main") /\ UNCHANGED prov
    BY <1>9 DEF Change!RepeatCancel
  <2> HIDE DEF next
  <2> QED
    BY <1>6, <1>7, <2>1
<1> QED
  BY <1>8, <1>9

\* T2: the outcome of the cancel is recorded with its commit, or the commit is undone
\* and, since its replacement waits still, given up.
LEMMA OutcomeRecorded ==
  ASSUME Change!ReplacementAssumption, ChangeIInv, NEW s \in Syncers,
         Change!RecordOutcome(s) \/ Change!RecordRepeated(s)
  PROVE  ChangeIInv'
<1>1. /\ syncs[s].pc \in {"confirmed", "refused", "repeated"} /\ Change!Unlocked
      /\ UNCHANGED <<lapsed, over, prov, offered, lock, owner, draft, faults>>
  BY DEF Change!RecordOutcome, Change!RecordRepeated
<1>2. row \in Change!Rows /\ RowSound(row, prov, offered) /\ CommitWaits(row, prov, over)
  BY DEF ChangeIInv, ChangeTyped, Change!TypeOK, RowHolds
<1>3. RunSound(syncs[s], prov, over)
  BY DEF ChangeIInv, SyncsHold
<1>4. PICK stage \in Plain : Change!Goto(s, stage)
  BY DEF Change!RecordOutcome, Change!RecordRepeated, Plain
<1>5. CASE row' = row
  <2>1. RowMoves(row, row')
    BY <1>2, <1>5 DEF RowMoves, KeepsRefs
  <2> QED
    BY <1>1, <1>4, <2>1, RunMovesRow
<1>6. CASE /\ Change!SameCommit(s) /\ syncs[s].pc \in {"confirmed", "repeated"}
           /\ row' = [row EXCEPT !.confirmed = TRUE]
  <2> DEFINE n == [row EXCEPT !.confirmed = TRUE]
             q == [Change!IdleSync EXCEPT !.pc = stage]
  <2>1. /\ n \in Change!Rows /\ n.status = row.status /\ n.ref = row.ref /\ n.repl = row.repl
        /\ n.kind = row.kind /\ n.committed = row.committed /\ n.retired = row.retired
    BY <1>2 DEF Change!Rows
  <2>2. row.committed /\ row.ref \in Refs /\ prov[row.ref].ending # "no"
    BY <1>3, <1>6 DEF Change!SameCommit, RunSound, Asking
  <2>3. /\ q \in RunStates /\ q.pc = stage /\ syncs' = [syncs EXCEPT ![s] = q]
        /\ RunSound(q, prov, over) /\ ~AboutToAsk(q)
    <3>1. q \in RunStates /\ q.pc = stage
      BY RunRecords DEF ChangeIInv, Plain, RunStages
    <3>2. syncs' = [syncs EXCEPT ![s] = q]
      BY <1>4 DEF Change!Goto
    <3> HIDE DEF q
    <3> QED
      BY <3>1, <3>2, PlainIsSound
  <2>4. row' = n
    BY <1>6
  <2> HIDE DEF n, q
  <2>5. RowSound(n, prov, offered) /\ CommitWaits(n, prov, over) /\ HasReason(n, prov)
    BY <1>2, <2>1, <2>2 DEF RowSound, CommitWaits, HasReason
  <2> QED
    BY <1>1, <2>1, <2>3, <2>4, <2>5, RunWrites
<1>7. CASE /\ Change!SameCommit(s) /\ syncs[s].pc = "refused"
           /\ row' = Change!WithoutReplacement([row EXCEPT !.committed = FALSE])
  <2> DEFINE m == [row EXCEPT !.committed = FALSE]
  <2>1. /\ m \in Change!Rows /\ m.status = row.status /\ m.ref = row.ref /\ m.repl = row.repl
        /\ ~m.committed /\ m.retired = row.retired
    BY <1>2 DEF Change!Rows
  <2>2. /\ row.committed /\ row.repl # NoRef /\ row.retired = NoRef
        /\ prov[row.repl].status \in {"authenticated", "ended"}
    BY <1>2, <1>3, <1>7 DEF Change!SameCommit, RunSound, RowSound, CommitWaits
  <2>3. row' = Change!WithoutReplacement(m)
    BY <1>7
  <2> HIDE DEF m
  <2>4. Change!MayAbandon(m, Change!NotActive(prov[m.repl])) /\ m.repl # NoRef
    BY <2>1, <2>2 DEF Change!MayAbandon, Change!NotActive, Change!Failed, Change!SlotIsFree
  <2>5. row' = Change!Retired(m)
    BY <2>3, <2>4 DEF Change!WithoutReplacement
  <2>6. RowMoves(row, row')
    BY <2>1, <2>2, <2>5, RetiredRow DEF RowMoves, GivesUp
  <2> QED
    BY <1>1, <1>4, <2>6, RunMovesRow
<1> QED
  BY <1>1, <1>5, <1>6, <1>7 DEF Change!RecordOutcome, Change!RecordRepeated

\* What a sync only reads: the three fetches, and the commit whose cancel is repeated.
LEMMA RunFinds ==
  ASSUME Change!ReplacementAssumption, ChangeIInv, NEW s \in Syncers,
         \/ Change!SyncReplacement(s) \/ Change!ReissueCancel(s)
         \/ Change!SyncMain(s) \/ Change!SyncRetired(s)
  PROVE  ChangeIInv'
<1>1. UNCHANGED <<row, lapsed, over, prov, offered, lock, owner, draft, faults>>
  BY DEF Change!SyncReplacement, Change!ReissueCancel, Change!SyncMain, Change!SyncRetired
<1>2. row \in Change!Rows /\ RowSound(row, prov, offered)
  BY DEF ChangeIInv, ChangeTyped, Change!TypeOK, RowHolds
<1>3. /\ row.repl # NoRef => row.repl \in Replacements /\ row.repl \in Refs
      /\ row.ref # NoRef => row.ref \in Refs
      /\ row.retired # NoRef => row.retired \in Refs
  BY <1>2 DEF Change!Rows, Refs, Change!Refs
<1>4. ASSUME NEW stage \in Plain, Change!Goto(s, stage)
      PROVE  ChangeIInv'
  BY <1>1, <1>4, RunPasses
<1>5. "main" \in Plain /\ "retired" \in Plain /\ "idle" \in Plain
  BY DEF Plain
<1>6. CASE Change!SyncReplacement(s)
  <2>1. CASE row.repl # NoRef
    <3>1. Change!Fetched(s, row.repl, "applying")
      BY <1>6, <2>1 DEF Change!SyncReplacement
    <3> QED
      BY <1>1, <1>3, <2>1, <3>1, RunFetches
  <2>2. CASE row.repl = NoRef
    BY <1>4, <1>5, <1>6, <2>2 DEF Change!SyncReplacement
  <2> QED
    BY <2>1, <2>2
<1>7. CASE Change!ReissueCancel(s)
  <2>1. CASE row.status = "ACTIVE" /\ row.repl # NoRef /\ row.committed /\ ~row.confirmed
    <3> DEFINE q == ToAsk(syncs[s], "repeating", row.ref, row.repl)
    <3>1. row.ref \in Refs /\ row.repl \in Replacements
      BY <1>2, <1>3, <2>1 DEF RowSound
    <3>2. q \in RunStates /\ q.pc = "repeating" /\ q.old = row.ref
      <4>1. syncs[s] \in RunStates /\ "repeating" \in Asking
        BY DEF ChangeIInv, ChangeTyped, Asking
      <4> QED
        BY <3>1, <4>1, AskRecord
    <3>3. syncs' = [syncs EXCEPT ![s] = q]
      BY <1>7, <2>1 DEF Change!ReissueCancel, ChangeIInv, ChangeTyped, ToAsk
    <3> HIDE DEF q
    <3>4. RunSound(q, prov, over) /\ HasReason(row, prov)
      BY <2>1, <3>1, <3>2 DEF RunSound, HasReason
    <3> QED
      BY <1>1, <3>2, <3>3, <3>4, RunReads
  <2>2. CASE ~(row.status = "ACTIVE" /\ row.repl # NoRef /\ row.committed /\ ~row.confirmed)
    BY <1>4, <1>5, <1>7, <2>2 DEF Change!ReissueCancel
  <2> QED
    BY <2>1, <2>2
<1>8. CASE Change!SyncMain(s)
  <2>1. CASE row.ref # NoRef
    <3>1. Change!Fetched(s, row.ref, "applyingMain")
      BY <1>8, <2>1 DEF Change!SyncMain
    <3> QED
      BY <1>1, <1>3, <2>1, <3>1, RunFetches
  <2>2. CASE row.ref = NoRef
    BY <1>4, <1>5, <1>8, <2>2 DEF Change!SyncMain
  <2> QED
    BY <2>1, <2>2
<1>9. CASE Change!SyncRetired(s)
  <2>1. CASE row.retired # NoRef /\ prov[row.retired].status = "ended"
    <3>1. Change!Fetched(s, row.retired, "clearing")
      BY <1>9, <2>1 DEF Change!SyncRetired
    <3> QED
      BY <1>1, <1>3, <2>1, <3>1, RunFetches
  <2>2. CASE row.retired # NoRef /\ prov[row.retired].status # "ended"
    <3>1. Change!Fetched(s, row.retired, "ending") \/ Change!Goto(s, "idle")
      BY <1>9, <2>2 DEF Change!SyncRetired
    <3>2. CASE Change!Fetched(s, row.retired, "ending")
      BY <1>1, <1>3, <2>2, <3>2, RunFetches
    <3> QED
      BY <1>4, <1>5, <3>1, <3>2
  <2>3. CASE row.retired = NoRef
    BY <1>4, <1>5, <1>9, <2>3 DEF Change!SyncRetired
  <2> QED
    BY <2>1, <2>2, <2>3
<1> QED
  BY <1>6, <1>7, <1>8, <1>9

\* The main snapshot, applied only to the subscription that the row still has.
LEMMA MainIsApplied ==
  ASSUME Change!ReplacementAssumption, ChangeIInv, NEW s \in Syncers, Change!ApplyMain(s)
  PROVE  ChangeIInv'
<1>1. /\ Change!Unlocked /\ Change!Goto(s, "retired") /\ "retired" \in Plain
      /\ UNCHANGED <<lapsed, over, prov, offered, lock, owner, draft, faults>>
  BY DEF Change!ApplyMain, Plain
<1>2. row \in Change!Rows /\ RowSound(row, prov, offered)
  BY DEF ChangeIInv, ChangeTyped, Change!TypeOK, RowHolds
<1>3. RowMoves(row, row) /\ \A e : RowMoves(row, Change!MainApplied(row, e))
  BY <1>2, MainMoves DEF RowMoves, KeepsRefs, RowSound
<1>4. RowMoves(row, row')
  BY <1>3 DEF Change!ApplyMain
<1> QED
  BY <1>1, <1>4, RunMovesRow

\* The retired subscription is cleared from the row only when it has ended.
LEMMA RetiredIsEnded ==
  ASSUME Change!ReplacementAssumption, ChangeIInv, NEW s \in Syncers,
         Change!CancelRetired(s) \/ Change!ClearRetired(s)
  PROVE  ChangeIInv'
<1> DEFINE ref == syncs[s].got.ref
<1>1. /\ syncs[s].pc \in {"ending", "clearing"} /\ RunSound(syncs[s], prov, over)
      /\ row \in Change!Rows /\ RowSound(row, prov, offered) /\ CommitWaits(row, prov, over)
  BY DEF Change!CancelRetired, Change!ClearRetired, ChangeIInv, SyncsHold, ChangeTyped,
     Change!TypeOK, RowHolds
<1>2. ref \in Refs /\ (syncs[s].pc = "clearing" => prov[ref].status = "ended") /\ "idle" \in Plain
  BY <1>1 DEF RunSound, Plain
<1>3. CASE Change!CancelRetired(s)
  <2> DEFINE next == Change!Ended(ref)
             q == [syncs[s] EXCEPT !.pc = "clearing"]
  <2>1. /\ ProviderAsked(prov, prov) /\ ProviderAsked(prov, next) /\ next[ref].status = "ended"
        /\ next[Old].ending = prov[Old].ending
    BY <1>2, ProviderSame, ProviderCalls DEF ChangeIInv
  <2>2. /\ UNCHANGED <<row, lapsed, over, offered, lock, owner, draft>>
        /\ \/ prov' = next /\ Change!Answered(s, "clearing") /\ UNCHANGED faults
           \/ /\ Change!Fault /\ prov' \in {prov, next}
              /\ \/ prov[ref].status = "ended" /\ Change!Answered(s, "clearing")
                 \/ Change!Goto(s, "idle")
    BY <1>3 DEF Change!CancelRetired, Change!ConfirmedEnded
  <2> HIDE DEF next
  <2>3. ASSUME Change!Answered(s, "clearing"), prov' \in {prov, next}, prov'[ref].status = "ended",
               faults' = faults \/ Change!Fault
        PROVE  ChangeIInv'
    <3>1. q.pc = "clearing" /\ q.got = syncs[s].got /\ "clearing" \in RunStages
      BY RunRecords DEF ChangeIInv, RunStages
    <3>2. RunSound(q, prov', over)
      <4> HIDE DEF q
      <4> QED
        BY <1>2, <2>3, <3>1 DEF RunSound, Asking
    <3> QED
      BY <2>1, <2>2, <2>3, <3>1, <3>2, RunAnswered
  <2>4. ASSUME Change!Goto(s, "idle"), prov' \in {prov, next}, Change!Fault
        PROVE  ChangeIInv'
    BY <1>2, <2>1, <2>2, <2>4, RunPassesAsking
  <2>5. prov' \in {prov, next} /\ (prov[ref].status = "ended" => prov'[ref].status = "ended")
    BY <2>1, <2>2
  <2> QED
    BY <2>1, <2>2, <2>3, <2>4, <2>5
<1>4. CASE Change!ClearRetired(s)
  <2>1. /\ Change!Unlocked /\ Change!Goto(s, "idle") /\ prov[ref].status = "ended"
        /\ UNCHANGED <<lapsed, over, prov, offered, lock, owner, draft, faults>>
    BY <1>2, <1>4 DEF Change!ClearRetired
  <2>2. CASE row' = row
    <3>1. RowMoves(row, row')
      BY <1>1, <2>2 DEF RowMoves, KeepsRefs
    <3> QED
      BY <1>2, <2>1, <3>1, RunMovesRow
  <2>3. CASE row.retired = ref /\ row' = [row EXCEPT !.retired = NoRef, !.retiredKind = "none"]
    <3> DEFINE n == [row EXCEPT !.retired = NoRef, !.retiredKind = "none"]
               q == [Change!IdleSync EXCEPT !.pc = "idle"]
    <3>1. /\ n \in Change!Rows /\ n.status = row.status /\ n.ref = row.ref /\ n.repl = row.repl
          /\ n.kind = row.kind /\ n.committed = row.committed /\ n.confirmed = row.confirmed
          /\ n.retired = NoRef
      BY <1>1 DEF Change!Rows
    <3>2. q \in RunStates /\ q.pc = "idle"
      BY RunRecords DEF ChangeIInv, RunStages
    <3>3. syncs' = [syncs EXCEPT ![s] = q] /\ row' = n
      BY <2>1, <2>3 DEF Change!Goto
    <3> HIDE DEF n, q
    <3>4. RunSound(q, prov, over) /\ ~AboutToAsk(q)
      BY <1>2, <3>2, PlainIsSound
    <3>5. RowSound(n, prov, offered) /\ CommitWaits(n, prov, over)
      BY <1>1, <2>1, <2>3, <3>1 DEF RowSound, CommitWaits
    <3>6. HasReason(row, prov) => HasReason(n, prov)
      BY <1>2, <2>1, <2>3, <3>1 DEF HasReason
    <3> QED
      BY <2>1, <3>1, <3>2, <3>3, <3>4, <3>5, <3>6, RunWrites
  <2> QED
    BY <1>4, <2>2, <2>3 DEF Change!ClearRetired
<1> QED
  BY <1>3, <1>4

\* A task that dies leaves nothing behind.
LEMMA RunDies ==
  ASSUME Change!ReplacementAssumption, ChangeIInv, NEW s \in Syncers, Change!SyncFails(s)
  PROVE  ChangeIInv'
<1> DEFINE q == Change!IdleSync
<1>1. q \in RunStates /\ q.pc = "idle" /\ "idle" \in Plain /\ syncs' = [syncs EXCEPT ![s] = q]
  BY NothingKnown DEF Plain, Change!SyncFails
<1>2. /\ Change!Fault /\ UNCHANGED <<row, lapsed, over, prov, offered, lock, owner, draft>>
  BY DEF Change!SyncFails
<1> HIDE DEF q
<1>3. RunSound(q, prov, over) /\ ~AboutToAsk(q)
  BY <1>1, PlainIsSound
<1> QED
  BY <1>1, <1>2, <1>3, RunReads

\* Every step of a sync keeps the invariant.
LEMMA SyncTakesStep ==
  ASSUME Change!ReplacementAssumption, ChangeIInv, NEW s \in Syncers,
         Change!SyncStep(s) \/ Change!SyncFails(s)
  PROVE  ChangeIInv'
  BY RunFinds, MainIsApplied, RetiredIsEnded, RunDies, ReplacementApplied, DowngradeCommitted,
     OldIsCancelled, OutcomeRecorded DEF Change!SyncStep

-----------------------------------------------------------------------------
(* Replacement: the steps of a request, of Razorpay and of time *)

\* A draft begins as the committed row, which is its own heir.
LEMMA DraftBegins ==
  ASSUME RowHolds
  PROVE  DraftSound(row, "committing", prov, offered, over)
  BY DEF RowHolds, DraftSound

\* A draft that moves as a row does goes on to another stage.
LEMMA DraftMoves ==
  ASSUME NEW p, NEW o, NEW v, NEW q \in Change!Rows, NEW n, NEW from,
         NEW to \in {"committing", "reconciling", "scheduling"},
         DraftSound(q, from, p, o, v), RowMoves(q, n),
         to \in {"reconciling", "scheduling"} => n.repl = NoRef,
         to = "scheduling" => n.ref # NoRef
  PROVE  n \in Change!Rows /\ DraftSound(n, to, p, o, v)
<1>1. RowSound(q, p, o) /\ CommitWaits(q, p, v)
  BY DEF DraftSound
<1>2. /\ n \in Change!Rows /\ RowSound(n, p, o) /\ CommitWaits(n, p, v)
      /\ HasReason(q, p) => HasReason(n, p)
      /\ n.committed => q.committed /\ n.repl = q.repl
      /\ n.repl # NoRef => n.repl = q.repl /\ n.kind = q.kind
  BY <1>1, RowMovesSoundly
<1> QED
  BY <1>2 DEF DraftSound

\* A request goes on: its draft is sound for the stage it reaches.
LEMMA RequestGoesOn ==
  ASSUME Change!ReplacementAssumption, ChangeIInv, UNCHANGED <<row, lapsed, over, offered>>,
         ProviderAsked(prov, prov'),
         prov'[Old].ending = "downgrade" => prov[Old].ending = "downgrade" \/ HasReason(row, prov),
         NEW d \in Change!Rows, NEW stage \in RequestStages, draft' = d, owner' = stage, lock' = Owner,
         DraftSound(d, stage, prov', offered, over), UNCHANGED faults,
         syncs' \in [Syncers -> RunStates],
         \A s \in Syncers : /\ syncs'[s].pc = syncs[s].pc /\ syncs'[s].got = syncs[s].got
                            /\ syncs'[s].old = syncs[s].old
  PROVE  ChangeIInv'
<1>1. /\ draft' \in Change!Rows /\ owner' \in RequestStages \cup {"idle"} /\ faults' \in 0..MaxFaults
      /\ lock' = IF owner' = "idle" THEN Free ELSE Owner
  BY DEF RequestStages, ChangeIInv, ChangeTyped, Change!TypeOK
<1>2. DraftHolds'
  BY DEF DraftHolds, DraftSound
<1>3. SyncsHold'
  <2>1. \A s \in Syncers : RunSound(syncs[s], prov', over)
    BY RunLater DEF ChangeIInv, SyncsHold, ProviderAsked
  <2>2. \A s \in Syncers : RunSound(syncs'[s], prov', over')
    BY <2>1 DEF RunSound
  <2> QED
    BY <2>2 DEF SyncsHold
<1>4. \A s \in Syncers : AboutToAsk(syncs'[s]) => HasReason(row, prov)
  BY DEF ChangeIInv, AskedForAReason, AboutToAsk
<1> QED
  BY <1>1, <1>2, <1>3, <1>4, RazorpayIsAsked

\* A request is answered, or dies: its draft is gone.
LEMMA RequestAnswered ==
  ASSUME Change!ReplacementAssumption, ChangeIInv, UNCHANGED <<row, lapsed, over, offered, syncs>>,
         ProviderAsked(prov, prov'),
         prov'[Old].ending = "downgrade" => prov[Old].ending = "downgrade" \/ HasReason(row, prov),
         Change!Answer, Change!Fault
  PROVE  ChangeIInv'
<1>1. /\ draft' \in Change!Rows /\ owner' \in RequestStages \cup {"idle"} /\ faults' \in 0..MaxFaults
      /\ lock' = IF owner' = "idle" THEN Free ELSE Owner
      /\ DraftHolds'
  BY NothingKnown DEF Change!Answer, Change!Fault, DraftHolds, ChangeIInv, ChangeTyped,
     Change!TypeOK, Change!ReplacementAssumption
<1>2. SyncsHold' /\ syncs' \in [Syncers -> RunStates]
  <2>1. \A s \in Syncers : RunSound(syncs[s], prov', over)
    BY RunLater DEF ChangeIInv, SyncsHold, ProviderAsked
  <2> QED
    BY <2>1 DEF SyncsHold, ChangeIInv, ChangeTyped
<1>3. \A s \in Syncers : AboutToAsk(syncs'[s]) => HasReason(row, prov)
  BY DEF ChangeIInv, AskedForAReason
<1> QED
  BY <1>1, <1>2, <1>3, RazorpayIsAsked

\* A request that only begins, or reads what it has.
LEMMA RequestBegins ==
  ASSUME Change!ReplacementAssumption, ChangeIInv,
         UNCHANGED <<row, lapsed, over, prov, offered, syncs, faults>>,
         NEW d \in Change!Rows, NEW stage \in RequestStages, Change!Begin(stage, d),
         DraftSound(d, stage, prov, offered, over)
  PROVE  ChangeIInv'
<1>1. draft' = d /\ owner' = stage /\ lock' = Owner
  BY DEF Change!Begin
<1>2. ProviderAsked(prov, prov') /\ DraftSound(d, stage, prov', offered, over)
  BY ProviderSame DEF ChangeIInv
<1>3. syncs' \in [Syncers -> RunStates]
  BY DEF ChangeIInv, ChangeTyped
<1> QED
  BY <1>1, <1>2, <1>3, RequestGoesOn

\* The requests begin with a draft that the committed row justifies.
LEMMA OwnerBegins ==
  ASSUME Change!ReplacementAssumption, ChangeIInv,
         \/ \E kind \in Kinds : Change!StartReplacement(kind)
         \/ Change!CancelReplacement \/ Change!CancelSubscription \/ Change!ResetEnded
  PROVE  ChangeIInv'
<1>1. UNCHANGED <<row, lapsed, over, prov, offered, syncs, faults>>
  BY DEF Change!StartReplacement, Change!CancelReplacement, Change!CancelSubscription, Change!ResetEnded
<1>2. /\ row \in Change!Rows /\ RowSound(row, prov, offered) /\ CommitWaits(row, prov, over)
      /\ DraftSound(row, "committing", prov, offered, over)
  BY DraftBegins DEF ChangeIInv, ChangeTyped, Change!TypeOK, RowHolds
<1>3. ASSUME NEW kind \in Kinds, Change!StartReplacement(kind) PROVE ChangeIInv'
  <2> DEFINE d == [row EXCEPT !.kind = kind]
  <2>1. /\ Change!Begin("creating", d) /\ "creating" \in RequestStages
        /\ row.repl = NoRef /\ row.retired = NoRef /\ (kind = "DOWNGRADE" => ~over)
    BY <1>3 DEF Change!StartReplacement, RequestStages
  <2>2. /\ d \in Change!Rows /\ d.status = row.status /\ d.ref = row.ref /\ d.repl = row.repl
        /\ d.kind = kind /\ d.committed = row.committed /\ d.confirmed = row.confirmed
        /\ d.retired = row.retired
    BY <1>2 DEF Change!Rows, Change!ReplacementAssumption
  <2> HIDE DEF d
  <2>3. RowSound(d, prov, offered) /\ CommitWaits(d, prov, over)
        /\ (HasReason(row, prov) => HasReason(d, prov))
    BY <1>2, <2>1, <2>2 DEF RowSound, CommitWaits, HasReason
  <2>4. DraftSound(d, "creating", prov, offered, over)
    BY <2>1, <2>2, <2>3 DEF DraftSound, RowSound
  <2> QED
    BY <1>1, <2>1, <2>2, <2>4, RequestBegins
<1>4. ASSUME NEW stage \in {"cancelling", "cancellingFirst"}, Change!Begin(stage, row),
             row.repl # NoRef
      PROVE  ChangeIInv'
  <2>1. DraftSound(row, stage, prov, offered, over) /\ stage \in RequestStages
    BY <1>2, <1>4 DEF DraftSound, RequestStages
  <2> QED
    BY <1>1, <1>2, <1>4, <2>1, RequestBegins
<1>5. ASSUME NEW stage \in {"committing", "reconciling"}, Change!Begin(stage, Change!Retired(row)),
             row.repl # NoRef, Change!SlotIsFree(row)
      PROVE  ChangeIInv'
  <2> DEFINE d == Change!Retired(row)
  <2>1. RowMoves(row, d) /\ d.repl = NoRef
    BY <1>2, <1>5, GivingUp, RetiredRow DEF Change!SlotIsFree
  <2> HIDE DEF d
  <2>2. d \in Change!Rows /\ DraftSound(d, stage, prov, offered, over)
    BY <1>2, <2>1, DraftMoves
  <2>3. stage \in RequestStages /\ Change!Begin(stage, d)
    BY <1>5 DEF RequestStages, d
  <2> QED
    BY <1>1, <2>2, <2>3, RequestBegins
<1>6. CASE Change!CancelReplacement
  <2>1. row.repl # NoRef /\ Change!SlotIsFree(row)
    BY <1>6 DEF Change!CancelReplacement, Change!MayRetire
  <2>2. \/ Change!Begin("cancelling", row)
        \/ Change!Begin("committing", Change!Retired(row))
    BY <1>6 DEF Change!CancelReplacement
  <2> QED
    BY <1>4, <1>5, <2>1, <2>2
<1>7. CASE Change!CancelSubscription
  <2>1. row.repl # NoRef => Change!SlotIsFree(row)
    BY <1>7 DEF Change!CancelSubscription, Change!MayRetire
  <2>2. \/ row.repl = NoRef /\ Change!Begin("reconciling", row)
        \/ row.repl # NoRef /\ Change!Begin("cancellingFirst", row)
        \/ row.repl # NoRef /\ Change!Begin("reconciling", Change!Retired(row))
    BY <1>7 DEF Change!CancelSubscription
  <2>3. CASE row.repl = NoRef /\ Change!Begin("reconciling", row)
    <3>1. DraftSound(row, "reconciling", prov, offered, over) /\ "reconciling" \in RequestStages
      BY <1>2, <2>3 DEF DraftSound, RequestStages
    <3> QED
      BY <1>1, <1>2, <2>3, <3>1, RequestBegins
  <2> QED
    BY <1>4, <1>5, <2>1, <2>2, <2>3
<1>8. CASE Change!ResetEnded
  <2> DEFINE m == Change!WithoutReplacement(row)
             d == [m EXCEPT !.status = "INCOMPLETE", !.ref = NoRef]
  <2>1. /\ row.ref # NoRef /\ prov[row.ref].status = "ended" /\ Change!Begin("committing", d)
        /\ row.repl # NoRef => Change!MayAbandon(row, Change!NotActive(prov[row.repl]))
    BY <1>8 DEF Change!ResetEnded
  <2>2. /\ m \in Change!Rows /\ RowSound(m, prov, offered) /\ m.ref = row.ref
        /\ m.repl = NoRef /\ ~m.committed /\ ~m.confirmed
    <3>1. CASE row.repl = NoRef
      <4>1. m = row
        BY <3>1 DEF Change!WithoutReplacement
      <4> QED
        BY <1>2, <3>1, <4>1 DEF RowSound
    <3>2. CASE row.repl # NoRef
      <4>1. m = Change!Retired(row) /\ row.retired = NoRef
        BY <2>1, <3>2 DEF Change!WithoutReplacement, Change!MayAbandon, Change!SlotIsFree
      <4>2. RowMoves(row, m) /\ m.ref = row.ref /\ m.repl = NoRef /\ ~m.committed /\ ~m.confirmed
        BY <1>2, <3>2, <4>1, GivingUp, RetiredRow
      <4> HIDE DEF m
      <4> QED
        BY <1>2, <4>2, RowMovesSoundly
    <3> QED
      BY <3>1, <3>2
  <2> HIDE DEF m
  <2>3. /\ d \in Change!Rows /\ d.status = "INCOMPLETE" /\ d.ref = NoRef /\ d.repl = m.repl
        /\ d.committed = m.committed /\ d.confirmed = m.confirmed /\ d.retired = m.retired
    BY <2>2 DEF Change!Rows
  <2> HIDE DEF d
  <2>4. RowSound(d, prov, offered) /\ CommitWaits(d, prov, over) /\ HasReason(d, prov)
    BY <2>1, <2>2, <2>3 DEF RowSound, CommitWaits, HasReason, Change!ReplacementAssumption
  <2>5. DraftSound(d, "committing", prov, offered, over) /\ "committing" \in RequestStages
    BY <2>2, <2>3, <2>4 DEF DraftSound, RequestStages
  <2> QED
    BY <1>1, <2>1, <2>3, <2>5, RequestBegins
<1> QED
  BY <1>3, <1>6, <1>7, <1>8

\* The draft records the answer to each call that the request makes.
LEMMA OwnerCalls ==
  ASSUME Change!ReplacementAssumption, ChangeIInv,
         \/ \E r \in Replacements : Change!CreateReplacement(r)
         \/ Change!CancelAtRazorpay \/ Change!CancelAtPeriodEnd
  PROVE  ChangeIInv'
<1>1. UNCHANGED <<row, lapsed, over, offered, syncs, lock, faults>> /\ owner # "idle"
  BY DEF Change!CreateReplacement, Change!CancelAtRazorpay, Change!CancelAtPeriodEnd
<1>2. /\ draft \in Change!Rows /\ DraftSound(draft, owner, prov, offered, over)
      /\ lock' = Owner /\ syncs' \in [Syncers -> RunStates] /\ Replacements \subseteq Refs
  BY <1>1 DEF ChangeIInv, ChangeTyped, Change!TypeOK, DraftHolds, Refs, Change!Refs
<1>3. ASSUME NEW p, ProviderAsked(prov, p) PROVE DraftSound(draft, owner, p, offered, over)
  BY <1>1, <1>3, DraftLater
<1>4. ASSUME NEW r \in Replacements, Change!CreateReplacement(r) PROVE ChangeIInv'
  <2> DEFINE d == [draft EXCEPT !.repl = r]
             p == [prov EXCEPT ![r].status = "created"]
  <2>1. /\ owner = "creating" /\ prov[r].status = "absent" /\ prov' = p
        /\ draft' = d /\ owner' = "committing" /\ "committing" \in RequestStages
    BY <1>4 DEF Change!CreateReplacement, RequestStages
  <2>2. ProviderAsked(prov, p) /\ p[Old].ending = prov[Old].ending
    BY <1>2, <2>1, ProviderCalls DEF ChangeIInv
  <2> HIDE DEF p
  <2>3. /\ DraftSound(draft, "creating", p, offered, over)
    BY <1>3, <2>1, <2>2
  <2>4. /\ d \in Change!Rows /\ d.status = draft.status /\ d.ref = draft.ref /\ d.repl = r
        /\ d.kind = draft.kind /\ d.committed = draft.committed /\ d.confirmed = draft.confirmed
        /\ d.retired = draft.retired
    BY <1>2 DEF Change!Rows
  <2> HIDE DEF d
  <2>5. draft.repl = NoRef /\ draft.retired = NoRef /\ ~draft.committed /\ RowSound(draft, p, offered)
    BY <2>3 DEF DraftSound, RowSound
  <2>6. RowSound(d, p, offered) /\ CommitWaits(d, p, over) /\ (HasReason(draft, p) => HasReason(d, p))
    BY <2>4, <2>5 DEF RowSound, CommitWaits, HasReason
  <2>7. DraftSound(d, "committing", p, offered, over)
    BY <2>3, <2>4, <2>5, <2>6 DEF DraftSound
  <2> QED
    BY <1>1, <1>2, <2>1, <2>2, <2>4, <2>7, RequestGoesOn
<1>5. CASE Change!CancelAtRazorpay
  <2> DEFINE d == Change!Retired(draft)
             p == Change!Ended(draft.repl)
             stage == IF owner = "cancelling" THEN "committing" ELSE "reconciling"
  <2>1. /\ owner \in {"cancelling", "cancellingFirst"} /\ prov' = p /\ draft' = d /\ owner' = stage
        /\ stage \in {"committing", "reconciling"} /\ stage \in RequestStages
    BY <1>5 DEF Change!CancelAtRazorpay, RequestStages
  <2>2. draft.repl # NoRef /\ draft.repl \in Refs /\ draft.retired = NoRef
    BY <1>2, <2>1 DEF DraftSound, RowSound, Change!Rows
  <2>3. ProviderAsked(prov, p) /\ p[Old].ending = prov[Old].ending
    BY <2>2, ProviderCalls DEF ChangeIInv
  <2> HIDE DEF p, stage
  <2>4. DraftSound(draft, owner, p, offered, over)
    BY <1>3, <2>3
  <2>5. RowMoves(draft, d) /\ d.repl = NoRef
    BY <1>2, <2>2, GivingUp, RetiredRow
  <2> HIDE DEF d
  <2>6. d \in Change!Rows /\ DraftSound(d, stage, p, offered, over)
    BY <1>2, <2>1, <2>4, <2>5, DraftMoves
  <2> QED
    BY <1>1, <1>2, <2>1, <2>3, <2>6, RequestGoesOn
<1>6. CASE Change!CancelAtPeriodEnd
  <2> DEFINE d == [draft EXCEPT !.ending = TRUE]
             p == Change!Scheduled(draft.ref, "merchant")
  <2>1. /\ owner = "scheduling" /\ prov' = p /\ draft' = d /\ owner' = "committing"
        /\ "committing" \in RequestStages
    BY <1>6 DEF Change!CancelAtPeriodEnd, RequestStages
  <2>2. draft.ref # NoRef /\ draft.ref \in Refs
    BY <1>2, <2>1 DEF DraftSound, Change!Rows, Refs
  <2>3. ProviderAsked(prov, p) /\ (p[Old].ending = "downgrade" => prov[Old].ending = "downgrade")
    BY <2>2, ProviderCalls DEF ChangeIInv
  <2> HIDE DEF p
  <2>4. DraftSound(draft, owner, p, offered, over)
    BY <1>3, <2>3
  <2>5. RowMoves(draft, d)
    <3>1. /\ d \in Change!Rows /\ d.status = draft.status /\ d.ref = draft.ref
          /\ d.repl = draft.repl /\ d.kind = draft.kind /\ d.committed = draft.committed
          /\ d.confirmed = draft.confirmed /\ d.retired = draft.retired
      BY <1>2 DEF Change!Rows
    <3> HIDE DEF d
    <3> QED
      BY <3>1 DEF RowMoves, KeepsRefs
  <2> HIDE DEF d
  <2>6. d \in Change!Rows /\ DraftSound(d, "committing", p, offered, over)
    BY <1>2, <2>4, <2>5, DraftMoves
  <2> QED
    BY <1>1, <1>2, <2>1, <2>3, <2>6, RequestGoesOn
<1> QED
  BY <1>4, <1>5, <1>6

\* The row as reconciled for a cancel: it moves, and is then to be ended or scheduled.
LEMMA RowReconciled ==
  ASSUME Change!ReplacementAssumption, ChangeIInv, Change!Reconcile
  PROVE  ChangeIInv'
<1> DEFINE q == Change!MainApplied(draft, prov[draft.ref])
<1>1. /\ UNCHANGED <<row, lapsed, over, prov, offered, lock, faults>> /\ owner = "reconciling"
      /\ draft \in Change!Rows /\ DraftSound(draft, "reconciling", prov, offered, over)
      /\ lock' = Owner /\ ProviderAsked(prov, prov')
  BY ProviderSame DEF Change!Reconcile, ChangeIInv, ChangeTyped, Change!TypeOK, DraftHolds
<1>2. RowSound(draft, prov, offered) /\ draft.repl = NoRef
  BY <1>1 DEF DraftSound
<1>3. /\ syncs' \in [Syncers -> RunStates]
      /\ \A s \in Syncers : /\ syncs'[s].pc = syncs[s].pc /\ syncs'[s].got = syncs[s].got
                            /\ syncs'[s].old = syncs[s].old
  <2>1. syncs \in [Syncers -> RunStates]
    BY DEF ChangeIInv, ChangeTyped
  <2>2. CASE UNCHANGED syncs
    BY <2>1, <2>2
  <2>3. CASE syncs' = [s \in Syncers |-> [syncs[s] EXCEPT !.fresh = syncs[s].pc # "applyingMain"]]
    <3>1. ASSUME NEW s \in Syncers
          PROVE  LET n == [syncs[s] EXCEPT !.fresh = syncs[s].pc # "applyingMain"]
                 IN  /\ n \in RunStates /\ n.pc = syncs[s].pc /\ n.got = syncs[s].got
                     /\ n.old = syncs[s].old
      <4> DEFINE fresh == syncs[s].pc # "applyingMain"
      <4>1. syncs[s] \in RunStates /\ fresh \in BOOLEAN
        BY <2>1
      <4> HIDE DEF fresh
      <4>2. LET n == [syncs[s] EXCEPT !.fresh = fresh]
            IN  /\ n \in RunStates /\ n.pc = syncs[s].pc /\ n.got = syncs[s].got
                /\ n.old = syncs[s].old
        BY <4>1 DEF RunStates
      <4> QED
        BY <4>2 DEF fresh
    <3> QED
      BY <2>3, <3>1
  <2> QED
    BY <2>2, <2>3 DEF Change!Reconcile
<1>4. ASSUME NEW stage \in {"committing", "scheduling"}, NEW d, draft' = d, owner' = stage,
             RowMoves(draft, d), stage = "scheduling" => d.ref # NoRef
      PROVE  ChangeIInv'
  <2>1. d.repl = NoRef
    BY <1>2, <1>4 DEF RowMoves, KeepsRefs, GivesUp
  <2>2. d \in Change!Rows /\ DraftSound(d, stage, prov, offered, over) /\ stage \in RequestStages
    BY <1>1, <1>4, <2>1, DraftMoves DEF RequestStages
  <2> QED
    BY <1>1, <1>3, <1>4, <2>2, RequestGoesOn
<1>5. /\ RowMoves(draft, draft) /\ RowMoves(draft, q)
  BY <1>1, <1>2, MainMoves DEF RowMoves, KeepsRefs, RowSound
<1>6. ASSUME NEW m, RowMoves(draft, m), m.status \in {"ACTIVE", "PAST_DUE"}
      PROVE  /\ m.ref # NoRef
             /\ RowMoves(draft, Change!WithoutReplacement([m EXCEPT !.status = "ENDED"]))
  <2>1. m \in Change!Rows /\ KeepsRefs(draft, m)
    BY <1>2, <1>6 DEF RowMoves, GivesUp
  <2>2. m.ref # NoRef
    BY <1>2, <1>6, <2>1 DEF RowSound, KeepsRefs
  <2>3. RowMoves(m, Change!WithoutReplacement([m EXCEPT !.status = "ENDED"]))
    BY <2>1, <2>2, StatusMoves
  <2> QED
    BY <1>1, <2>1, <2>2, <2>3, KeepsThenMoves
<1> HIDE DEF q
<1>7. CASE draft.status = "ACTIVE" /\ ~draft.ending
  <2>1. \/ /\ q.status = "PAST_DUE" /\ owner' = "committing"
           /\ draft' = Change!WithoutReplacement([q EXCEPT !.status = "ENDED"])
        \/ q.status = "ACTIVE" /\ owner' = "scheduling" /\ draft' = q
        \/ owner' = "committing" /\ draft' = q
    BY <1>7 DEF Change!Reconcile, q
  <2> QED
    BY <1>4, <1>5, <1>6, <2>1
<1>8. CASE ~(draft.status = "ACTIVE" /\ ~draft.ending)
  <2>1. /\ owner' = "committing"
        /\ \/ /\ draft.status = "PAST_DUE"
              /\ draft' = Change!WithoutReplacement([draft EXCEPT !.status = "ENDED"])
           \/ draft' = draft
    BY <1>8 DEF Change!Reconcile
  <2> QED
    BY <1>4, <1>5, <1>6, <2>1
<1> QED
  BY <1>7, <1>8

\* The draft becomes the row, and its replacement is offered.
LEMMA RequestCommits ==
  ASSUME Change!ReplacementAssumption, ChangeIInv, Change!CommitRequest
  PROVE  ChangeIInv'
<1> USE DEF ChangeIInv
<1>1. /\ UNCHANGED <<over, prov, syncs, faults>> /\ owner = "committing"
      /\ row' = draft /\ owner' = "idle" /\ lock' = Free /\ draft' = Change!FirstRow
      /\ lapsed' = IF draft.repl # row.repl THEN FALSE ELSE lapsed
      /\ offered' = offered \cup ({draft.repl} \ {NoRef})
  BY DEF Change!CommitRequest, Change!Answer
<1>2. draft \in Change!Rows /\ DraftSound(draft, "committing", prov, offered, over)
  BY <1>1 DEF ChangeTyped, Change!TypeOK, DraftHolds
<1>3. draft.repl # NoRef => draft.repl \in Replacements
  BY <1>2 DEF Change!Rows
<1>4. ChangeTyped'
  <2>1. offered' \subseteq Replacements
    BY <1>1, <1>3 DEF ChangeTyped, Change!TypeOK
  <2> QED
    BY <1>1, <1>2, <2>1, NothingKnown DEF ChangeTyped, Change!TypeOK
<1>5. RowHolds'
  <2>1. RowSound(draft, prov, offered') /\ CommitWaits(draft, prov, over)
    BY <1>1, <1>2 DEF DraftSound, RowSound
  <2>2. over /\ draft.repl # NoRef /\ draft.kind = "DOWNGRADE" => lapsed'
    BY <1>1, <1>2 DEF DraftSound, RowHolds
  <2>3. RowSound(row', prov', offered') /\ CommitWaits(row', prov', over')
    BY <1>1, <2>1
  <2> QED
    BY <1>1, <2>2, <2>3 DEF RowHolds
<1>6. DraftHolds' /\ SyncsHold' /\ OnlyOfferedCharge'
  BY <1>1 DEF DraftHolds, SyncsHold, OnlyOfferedCharge, Change!Charges
<1>7. AskedForAReason'
  <2>1. HasReason(row, prov) => HasReason(draft, prov)
    BY <1>2 DEF DraftSound
  <2>2. HasReason(row, prov) => HasReason(row', prov')
    BY <1>1, <2>1
  <2> QED
    BY <1>1, <2>2 DEF AskedForAReason
<1> QED
  BY <1>4, <1>5, <1>6, <1>7

\* A request that fails leaves the row, whatever its last call did at Razorpay.
LEMMA RequestDies ==
  ASSUME Change!ReplacementAssumption, ChangeIInv, Change!RequestFails
  PROVE  ChangeIInv'
<1>1. /\ UNCHANGED <<row, lapsed, over, offered, syncs>> /\ Change!Answer /\ Change!Fault
      /\ owner # "idle"
  BY DEF Change!RequestFails
<1>2. /\ draft \in Change!Rows /\ DraftSound(draft, owner, prov, offered, over)
      /\ Replacements \subseteq Refs
  BY <1>1 DEF ChangeIInv, ChangeTyped, Change!TypeOK, DraftHolds, Refs, Change!Refs
<1>3. /\ ProviderAsked(prov, prov')
      /\ prov'[Old].ending = "downgrade" => prov[Old].ending = "downgrade"
  <2>1. CASE prov' = prov
    BY <2>1, ProviderSame DEF ChangeIInv
  <2>2. CASE owner \in {"cancelling", "cancellingFirst"} /\ prov' = Change!Ended(draft.repl)
    <3>1. draft.repl \in Refs
      BY <1>2, <2>2 DEF DraftSound, Change!Rows
    <3> QED
      BY <2>2, <3>1, ProviderCalls DEF ChangeIInv
  <2>3. CASE owner = "scheduling" /\ prov' = Change!Scheduled(draft.ref, "merchant")
    <3>1. draft.ref \in Refs
      BY <1>2, <2>3 DEF DraftSound, Change!Rows, Refs
    <3> QED
      BY <2>3, <3>1, ProviderCalls DEF ChangeIInv
  <2>4. CASE \E r \in Replacements : /\ prov[r].status = "absent"
                                     /\ prov' = [prov EXCEPT ![r].status = "created"]
    <3>1. PICK r \in Replacements : /\ prov[r].status = "absent"
                                    /\ prov' = [prov EXCEPT ![r].status = "created"]
      BY <2>4
    <3>2. r \in Refs
      BY <1>2
    <3>3. /\ ProviderAsked(prov, [prov EXCEPT ![r].status = "created"])
          /\ [prov EXCEPT ![r].status = "created"][Old].ending = prov[Old].ending
      BY <3>1, <3>2, ProviderCalls DEF ChangeIInv
    <3> QED
      BY <3>1, <3>3
  <2>5. \/ prov' = prov
        \/ owner \in {"cancelling", "cancellingFirst"} /\ prov' = Change!Ended(draft.repl)
        \/ owner = "scheduling" /\ prov' = Change!Scheduled(draft.ref, "merchant")
        \/ \E r \in Replacements : /\ prov[r].status = "absent"
                                   /\ prov' = [prov EXCEPT ![r].status = "created"]
    BY DEF Change!RequestFails
  <2> QED
    BY <2>1, <2>2, <2>3, <2>4, <2>5
<1> QED
  BY <1>1, <1>3, RequestAnswered

\* Razorpay's own moves: only an offered subscription begins to charge, a paid one
\* stays so, and the replacement of a downgrade waits for the end of the period.
LEMMA RazorpayMoves ==
  ASSUME Change!ReplacementAssumption, ChangeIInv, NEW r \in Refs, Change!ProviderMoves(r)
  PROVE  ChangeIInv'
<1> USE DEF ChangeIInv
<1>1. /\ UNCHANGED <<row, lapsed, over, offered, syncs, lock, owner, draft, faults>>
      /\ prov \in [Refs -> Change!ProviderSubs] /\ prov[r] \in Change!ProviderSubs
      /\ row \in Change!Rows /\ draft \in Change!Rows /\ Replacements \subseteq Refs /\ Old \in Refs
  BY DEF Change!ProviderMoves, ChangeTyped, Change!TypeOK, Refs, Change!Refs
<1>2. PICK status \in {"authenticated", "active", "pending", "ended"}, paid \in BOOLEAN :
        /\ Change!Becomes(r, status, paid) /\ prov[r].status # "ended"
        /\ IsPaid(prov[r]) => paid /\ status \in {"active", "pending", "ended"}
        /\ status \in {"authenticated", "active", "pending"} =>
             prov[r].status \in {"authenticated", "active", "pending"} \/ r \in offered
        /\ prov[r].status = "authenticated" => (r = row.repl /\ row.kind = "DOWNGRADE" => over)
  BY <1>1 DEF Change!ProviderMoves, Change!ProviderSubs, IsPaid
<1> DEFINE e == [prov[r] EXCEPT !.status = status, !.paid = paid]
<1>3. /\ e \in Change!ProviderSubs /\ e.status = status /\ e.paid = paid
      /\ e.ending = prov[r].ending
  BY <1>1, <1>2 DEF Change!ProviderSubs
<1>4. prov' = [prov EXCEPT ![r] = e]
  BY <1>1, <1>2 DEF Change!Becomes
<1> HIDE DEF e
<1>5. /\ prov' \in [Refs -> Change!ProviderSubs] /\ prov'[r] = e
      /\ \A x \in Refs \ {r} : prov'[x] = prov[x]
      /\ \A x \in Refs : prov'[x].ending = prov[x].ending
  BY <1>1, <1>3, <1>4
<1>6. ProviderLater(prov, prov')
  <2>1. IsPaid(prov[r]) => IsPaid(e)
    BY <1>2, <1>3 DEF IsPaid
  <2> QED
    BY <1>2, <1>5, <2>1 DEF ProviderLater
<1>7. ChangeTyped'
  BY <1>1, <1>5 DEF ChangeTyped, Change!TypeOK, Refs
<1>8. CommitWaits(row, prov', over)
  <2>1. ASSUME row.committed, ~over PROVE prov'[row.repl].status \in {"authenticated", "ended"}
    <3>1. row.repl \in Refs /\ row.kind = "DOWNGRADE"
      BY <1>1, <2>1 DEF RowHolds, RowSound, Change!Rows
    <3>2. prov[row.repl].status \in {"authenticated", "ended"}
      BY <2>1 DEF RowHolds, CommitWaits
    <3>3. row.repl # r
      BY <1>2, <2>1, <3>1, <3>2
    <3> QED
      BY <1>5, <3>1, <3>2, <3>3
  <2> QED
    BY <2>1 DEF CommitWaits
<1>9. RowHolds'
  <2>1. RowSound(row, prov', offered)
    BY <1>1, <1>6, SoundLater DEF RowHolds
  <2>2. RowSound(row', prov', offered') /\ CommitWaits(row', prov', over')
    BY <1>1, <1>8, <2>1
  <2> QED
    BY <1>1, <2>2 DEF RowHolds
<1>10. DraftHolds'
  <2>1. ASSUME owner # "idle" PROVE DraftSound(draft, owner, prov', offered, over)
    <3>1. DraftSound(draft, owner, prov, offered, over)
      BY <2>1 DEF DraftHolds
    <3>2. RowSound(draft, prov', offered) /\ (HasReason(row, prov') => HasReason(draft, prov'))
      BY <1>1, <1>6, <3>1, SoundLater DEF DraftSound
    <3>3. CommitWaits(draft, prov', over)
      BY <1>8, <3>1 DEF DraftSound, CommitWaits
    <3> QED
      BY <3>1, <3>2, <3>3 DEF DraftSound
  <2> QED
    BY <1>1, <2>1 DEF DraftHolds, DraftSound
<1>11. SyncsHold'
  <2>1. \A s \in Syncers : RunSound(syncs[s], prov', over)
    BY <1>6, RunLater DEF SyncsHold
  <2> QED
    BY <1>1, <2>1 DEF SyncsHold
<1>12. OnlyOfferedCharge'
  BY <1>1, <1>2, <1>3, <1>5 DEF OnlyOfferedCharge, Change!Charges
<1>13. AskedForAReason'
  <2>1. HasReason(row, prov) => HasReason(row, prov')
    BY <1>1, <1>6, SoundLater
  <2>2. HasReason(row, prov) => HasReason(row', prov')
    BY <1>1, <2>1
  <2> QED
    BY <1>1, <1>5, <2>2 DEF AskedForAReason
<1> QED
  BY <1>7, <1>9, <1>10, <1>11, <1>12, <1>13

\* Time: a deadline, and the end of the period.
LEMMA ChangeAges ==
  ASSUME Change!ReplacementAssumption, ChangeIInv, Change!DeadlinePasses \/ Change!PeriodEnds
  PROVE  ChangeIInv'
<1> USE DEF ChangeIInv
<1>1. CASE Change!DeadlinePasses
  <2>1. /\ UNCHANGED <<row, over, prov, offered, syncs, lock, owner, draft, faults>> /\ lapsed'
    BY <1>1 DEF Change!DeadlinePasses
  <2>2. ChangeTyped' /\ OnlyOfferedCharge' /\ AskedForAReason'
    BY <2>1 DEF ChangeTyped, Change!TypeOK, OnlyOfferedCharge, Change!Charges, AskedForAReason, HasReason
  <2>3. RowHolds' /\ DraftHolds' /\ SyncsHold'
    BY <2>1 DEF RowHolds, DraftHolds, DraftSound, SyncsHold
  <2> QED
    BY <2>2, <2>3
<1>2. CASE Change!PeriodEnds
  <2>1. /\ UNCHANGED <<row, lapsed, prov, offered, syncs, lock, owner, draft, faults>> /\ over'
        /\ owner = "idle" /\ (row.repl # NoRef /\ row.kind = "DOWNGRADE" => lapsed)
        /\ \A s \in Syncers : syncs[s].pc \notin {"cancelling", "confirmed", "refused", "repeating"}
    BY <1>2 DEF Change!PeriodEnds
  <2>2. ChangeTyped' /\ OnlyOfferedCharge' /\ AskedForAReason' /\ DraftHolds'
    BY <2>1 DEF ChangeTyped, Change!TypeOK, OnlyOfferedCharge, Change!Charges, AskedForAReason,
       HasReason, DraftHolds
  <2>3. RowHolds'
    BY <2>1 DEF RowHolds, CommitWaits
  <2>4. SyncsHold'
    <3>1. \A s \in Syncers : RunSound(syncs[s], prov, TRUE)
      BY <2>1 DEF SyncsHold, RunSound
    <3> QED
      BY <2>1, <3>1 DEF SyncsHold, RunSound
  <2> QED
    BY <2>2, <2>3, <2>4
<1> QED
  BY <1>1, <1>2

\* Every step keeps the invariant.
LEMMA ChangeStep ==
  ASSUME Change!ReplacementAssumption, ChangeIInv, [Change!Next]_(Change!vars)
  PROVE  ChangeIInv'
<1>1. CASE UNCHANGED Change!vars
  <2>1. UNCHANGED <<row, lapsed, over, prov, offered, syncs, lock, owner, draft, faults>>
    BY <1>1 DEF Change!vars
  <2>2. ChangeTyped' /\ OnlyOfferedCharge' /\ AskedForAReason'
    BY <2>1 DEF ChangeIInv, ChangeTyped, Change!TypeOK, OnlyOfferedCharge, Change!Charges,
       AskedForAReason, HasReason
  <2>3. RowHolds' /\ DraftHolds' /\ SyncsHold'
    BY <2>1 DEF ChangeIInv, RowHolds, DraftHolds, DraftSound, HasReason, SyncsHold
  <2> QED
    BY <2>2, <2>3 DEF ChangeIInv
<1>2. CASE \E s \in Syncers : Change!SyncStep(s) \/ Change!SyncFails(s)
  BY <1>2, SyncTakesStep
<1>3. CASE \/ \E kind \in Kinds : Change!StartReplacement(kind)
           \/ Change!CancelReplacement \/ Change!CancelSubscription \/ Change!ResetEnded
  BY <1>3, OwnerBegins
<1>4. CASE Change!RequestStep \/ Change!RequestFails
  BY <1>4, OwnerCalls, RowReconciled, RequestCommits, RequestDies DEF Change!RequestStep
<1>5. CASE \E r \in Change!Refs : Change!ProviderMoves(r)
  BY <1>5, RazorpayMoves DEF Refs
<1>6. CASE Change!DeadlinePasses \/ Change!PeriodEnds
  BY <1>6, ChangeAges
<1> QED
  BY <1>1, <1>2, <1>3, <1>4, <1>5, <1>6 DEF Change!Next

\* ChangeIInv implies ReplacementInv.
LEMMA ChangeSuffices ==
  ASSUME Change!ReplacementAssumption, ChangeIInv
  PROVE  Change!ReplacementInv
<1>1. Change!TypeOK /\ RowSound(row, prov, offered)
  BY DEF ChangeIInv, ChangeTyped, RowHolds
<1>2. /\ Old \notin Replacements /\ Replacements \subseteq Refs
      /\ \A r \in Refs : r = Old \/ r \in Replacements
  BY DEF Refs, Change!Refs, Change!ReplacementAssumption
<1>3. Change!NothingForgotten
  BY <1>1, <1>2 DEF ChangeIInv, OnlyOfferedCharge, Change!NothingForgotten, Change!Charges,
     RowSound, Refs
<1>4. Change!SwitchedIsPaid /\ Change!ConfirmedWasAsked
  BY <1>1 DEF Change!SwitchedIsPaid, Change!ConfirmedWasAsked, RowSound, IsPaid
<1>5. Change!EndsForAReason
  <2>1. row.retired \in Replacements => row.retired # NoRef
    BY DEF Change!ReplacementAssumption
  <2> QED
    BY <2>1 DEF ChangeIInv, AskedForAReason, HasReason, Change!EndsForAReason
<1> QED
  BY <1>1, <1>3, <1>4, <1>5 DEF Change!ReplacementInv

\* Through every plan change, abandon, refusal, failed call and lost answer, no
\* subscription that can charge is forgotten, a row runs on a replacement only when it
\* was paid, the old subscription is ended for a downgrade only for a reason, and a
\* confirmation is of a cancel that Razorpay has (_sync_replacement,
\* commit_downgrade_replacement, _reissue_committed_cancel, _sync_retired_replacement,
\* switch_to_replacement, cancel_pending_replacement).
THEOREM ChangeCorrect ==
  ASSUME Change!ReplacementAssumption
  PROVE  Change!Spec => []Change!ReplacementInv
<1>1. Change!Init => ChangeIInv
  BY ChangeStarts
<1>2. ChangeIInv /\ [Change!Next]_(Change!vars) => ChangeIInv'
  BY ChangeStep
<1>3. ChangeIInv => Change!ReplacementInv
  BY ChangeSuffices
<1> QED
  BY <1>1, <1>2, <1>3, PTL DEF Change!Spec

\* In Components, whose behaviours run one component each, every state keeps
\* ReplacementInv, the invariant that the run checks: the same promise of
\* _sync_replacement, commit_downgrade_replacement, _reissue_committed_cancel,
\* _sync_retired_replacement, switch_to_replacement, cancel_pending_replacement.
THEOREM ChangeHolds == Spec => []ReplacementInv
<1> DEFINE Held == focus = "change" => ChangeIInv
<1>1. Change!ReplacementAssumption
  BY ComponentsAssumption DEF ComponentsAssumption
<1>2. Init => Held
  BY <1>1, ChangeStarts DEF Init
<1>3. Held /\ [Next]_allVars => Held'
  <2> SUFFICES ASSUME Held, [Next]_allVars, focus' = "change" PROVE ChangeIInv'
    OBVIOUS
  <2>1. focus = "change" /\ [Change!Next]_(Change!vars)
    BY DEF Next, allVars, Change!vars
  <2> QED
    BY <1>1, <2>1, ChangeStep
<1>4. Held => ReplacementInv
  BY <1>1, ChangeSuffices DEF ReplacementInv
<1> QED
  BY <1>2, <1>3, <1>4, PTL DEF Spec

=============================================================================
