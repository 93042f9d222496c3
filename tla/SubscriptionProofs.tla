-------------------------- MODULE SubscriptionProofs --------------------------
(***************************************************************************)
(* For any workers, requests, refs and cycles.                              *)
(*                                                                          *)
(* A row that grants entitlement is in a paid cycle of its own subscription *)
(* (IInv): a snapshot is applied long after its fetch, so what it proves     *)
(* must stay true, and no step of Razorpay, of a cancel or of a create with *)
(* an unknown outcome takes a paid invoice away (Later).  The drafts of      *)
(* requests and the snapshots of syncs carry the property until they are     *)
(* published.  On top of it: the flag of a row that ends is about its own    *)
(* subscription (EndInv), a grace period goes on and ends when it is due     *)
(* (GraceInv), one subscription at most can be charged (OfferInv), and,      *)
(* where Razorpay answers in the order it was asked (OrderInv), a row is     *)
(* PAST_DUE only while it owes a cycle (OwesInv).  Last come the types        *)
(* (Types): what is fetched, stored or applied has been created.             *)
(***************************************************************************)
EXTENDS Subscription, FiniteSetTheorems, SequenceTheorems, TLAPS

\* The types, without the fact that what is fetched has been created, which only
\* Types adds.
WideRows == [status : Status, ref : Refs \cup {NoRef}, period : 0..MaxCycle,
             stage : DUNNING_STAGES \cup {0, NoStage}, ending : BOOLEAN,
             provider_status : ProviderStatus \cup {"absent"}]

WideSubs == [status : ProviderStatus \cup {"absent"}, cycle : 0..MaxCycle,
             paid : SUBSET (0..MaxCycle), ending : BOOLEAN]

Fetchable == [ref : Refs \cup {NoRef}, status : ProviderStatus \cup {"absent"},
              cycle : 0..MaxCycle, proof : BOOLEAN]

Typed ==
  /\ row \in WideRows /\ draft \in WideRows
  /\ prov \in [Refs -> WideSubs]
  /\ tasks \subseteq {"sync", "dunning"}
  /\ lock \in Owners \cup {Free}
  /\ pc \in [Procs -> Stages]
  /\ read \in [Syncers \cup Dunners -> [ref : Refs \cup {NoRef}, period : 0..MaxCycle]]
  /\ got \in [Syncers \cup Owners -> Fetchable]

\* A request that is under way holds the lock, and no other does.
Holding == \A o \in Owners : pc[o] # "idle" <=> lock = o

\* Where a subscription is fetched, updated or cancelled, there is one.
RefKnown ==
  /\ row.status # "NONE" => row.ref \in Refs
  /\ draft.status # "NONE" => draft.ref \in Refs
  /\ "sync" \in tasks => row.ref \in Refs
  /\ \A p \in Syncers : pc[p] = "fetching" => read[p].ref \in Refs
  /\ \A d \in Dunners : pc[d] \in {"cancelling", "recording"} => read[d].ref \in Refs
  /\ \A o \in Owners :
       /\ pc[o] \notin {"idle", "creating", "ending"} => draft.status # "NONE"
       /\ pc[o] # "idle" /\ row.ref \in Refs => draft.ref \in Refs

\* A proof fetched from Razorpay is one for good.
ProofsHold ==
  \A p \in Syncers : got[p].proof => /\ got[p].ref \in Refs
                                     /\ got[p].cycle \in prov[got[p].ref].paid

IInv == Typed /\ Holding /\ RefKnown /\ PaidFor(row) /\ PaidFor(draft) /\ ProofsHold

-----------------------------------------------------------------------------

\* A finite set of naturals that has an element has a greatest one: the one with
\* the fewest above it.  It is the checkpoint that the dunning task takes.
LEMMA HighestExists ==
  ASSUME NEW S \in SUBSET Nat, IsFiniteSet(S), S # {}
  PROVE  \E n \in S : \A m \in S : m <= n
<1> DEFINE Above(a) == {k \in S : a < k}
           Sets == {Above(a) : a \in S}
<1>1. Sets \subseteq SUBSET S /\ Sets # {}
  OBVIOUS
<1>2. PICK least \in Sets : \A U \in Sets : <<U, least>> \notin StrictSubsetOrdering(S)
  <2> HIDE DEF Sets
  <2>1. IsWellFoundedOn(StrictSubsetOrdering(S), SUBSET S)
    BY FS_FiniteSubsetsOfFinite, FS_StrictSubsetOrderingWellFounded
  <2> QED
    BY <1>1, <2>1, WFMin
<1>3. PICK n \in S : least = Above(n)
  BY <1>2
<1>4. ASSUME NEW m \in S, n < m PROVE FALSE
  <2>1. n \in Nat /\ m \in Nat /\ Above(m) \subseteq Nat
    OBVIOUS
  <2>2. m \in Above(n)
    BY <1>4
  <2>3. m \notin Above(m)
    BY <2>1
  <2>4. ASSUME NEW k \in Above(m) PROVE k \in Above(n)
    BY <1>4, <2>1, <2>4
  <2>5. Above(m) \in Sets
    BY <1>4
  <2>6. <<Above(m), Above(n)>> \in StrictSubsetOrdering(S)
    BY <1>1, <2>2, <2>3, <2>4 DEF StrictSubsetOrdering
  <2> QED
    BY <1>2, <1>3, <2>5, <2>6
<1> QED
  BY <1>4

\* What Init gives: no row, no subscription, nobody at work.
LEMMA InitInv == Init => IInv
<1> SUFFICES ASSUME Init PROVE IInv
  OBVIOUS
<1> USE SubscriptionAssumption DEF Init, NoRow, NothingRead, NoSnapshot
<1>1. NoRow \in WideRows
  BY DEF WideRows, Status, ProviderStatus, NoStage
<1>2. prov \in [Refs -> WideSubs]
  BY DEF WideSubs
<1>3. /\ pc \in [Procs -> Stages] /\ lock \in Owners \cup {Free} /\ tasks = {}
  BY DEF Stages
<1>4. /\ read \in [Syncers \cup Dunners -> [ref : Refs \cup {NoRef}, period : 0..MaxCycle]]
      /\ got \in [Syncers \cup Owners -> Fetchable]
  BY DEF Fetchable, ProviderStatus
<1>5. Holding /\ RefKnown /\ ProofsHold
  BY DEF Holding, RefKnown, ProofsHold, Procs
<1>6. PaidFor(row) /\ PaidFor(draft)
  BY DEF PaidFor, Entitling
<1> QED
  BY <1>1, <1>2, <1>3, <1>4, <1>5, <1>6 DEF IInv, Typed

\* _advance_past_due ends a grace period that is over, or takes it to a checkpoint that
\* it has come to.
LEMMA AdvancedCases ==
  ASSUME NEW s \in WideRows, NEW days
  PROVE  \/ /\ GraceOver(days)
            /\ Advanced(s, days) = [s EXCEPT !.status = "EXPIRED", !.stage = NoStage]
         \/ Advanced(s, days) = s /\ ~GraceOver(days)
         \/ \E n \in DUNNING_STAGES : /\ days >= n /\ n > s.stage /\ ~GraceOver(days)
                                      /\ Advanced(s, days) = [s EXCEPT !.stage = n]
<1> USE SubscriptionAssumption DEF WideRows, Status, NoStage
<1> DEFINE due == {n \in DUNNING_STAGES : days >= n /\ n > s.stage}
<1>1. due = {} \/ (CHOOSE n \in due : \A m \in due : m <= n) \in due
  <2>1. due \subseteq DUNNING_STAGES
    OBVIOUS
  <2>2. due \in SUBSET Nat /\ due \subseteq 1..GRACE - 1
    <3> HIDE DEF due
    <3>1. GRACE \in Nat /\ DUNNING_STAGES \subseteq 1..GRACE - 1
      OBVIOUS
    <3>2. 1..GRACE - 1 \subseteq Nat
      BY <3>1
    <3> QED
      BY <2>1, <3>1, <3>2
  <2>3. IsFiniteSet(due)
    <3>1. \A n \in due : n <= GRACE
      BY <2>2
    <3> QED
      BY <2>2, <3>1, FS_BoundedSetOfNaturals
  <2>4. ASSUME due # {} PROVE \E n \in due : \A m \in due : m <= n
    <3> HIDE DEF due
    <3> QED
      BY <2>2, <2>3, <2>4, HighestExists
  <2> HIDE DEF due
  <2> QED
    BY <2>4, <2>1
<1>2. Advanced(s, days) =
        IF GraceOver(days) THEN [s EXCEPT !.status = "EXPIRED", !.stage = NoStage]
        ELSE IF due = {} THEN s
        ELSE [s EXCEPT !.stage = CHOOSE n \in due : \A m \in due : m <= n]
  BY DEF Advanced
<1> DEFINE top == CHOOSE n \in due : \A m \in due : m <= n
<1>3. CASE GraceOver(days)
  BY <1>2, <1>3
<1>4. CASE ~GraceOver(days) /\ due = {}
  BY <1>2, <1>4
<1>5. CASE ~GraceOver(days) /\ due # {}
  <2>1. top \in DUNNING_STAGES /\ days >= top /\ top > s.stage
    BY <1>1, <1>5
  <2>2. Advanced(s, days) = [s EXCEPT !.stage = top]
    BY <1>2, <1>5
  <2> HIDE DEF top
  <2> QED
    BY <1>5, <2>1, <2>2
<1> QED
  BY <1>3, <1>4, <1>5

\* So the row keeps its subscription and its cycle.
LEMMA AdvancedRow ==
  ASSUME NEW s \in WideRows, NEW days
  PROVE  /\ Advanced(s, days) \in WideRows
         /\ Advanced(s, days).ref = s.ref
         /\ Advanced(s, days).period = s.period
         /\ Advanced(s, days).ending = s.ending
         /\ Advanced(s, days).status \in {s.status, "EXPIRED"}
<1> USE SubscriptionAssumption DEF WideRows, Status, NoStage
<1>1. CASE Advanced(s, days) = [s EXCEPT !.status = "EXPIRED", !.stage = NoStage]
  BY <1>1
<1>2. CASE Advanced(s, days) = s
  BY <1>2
<1>3. ASSUME NEW n \in DUNNING_STAGES, Advanced(s, days) = [s EXCEPT !.stage = n]
      PROVE  /\ Advanced(s, days) \in WideRows
             /\ Advanced(s, days).ref = s.ref
             /\ Advanced(s, days).period = s.period
             /\ Advanced(s, days).ending = s.ending
             /\ Advanced(s, days).status \in {s.status, "EXPIRED"}
  BY <1>3
<1> QED
  BY <1>1, <1>2, <1>3, AdvancedCases

\* _apply_snapshot applies one of three changes, or none, and records the status it saw.
LEMMA AppliedCases ==
  ASSUME NEW s, NEW f
  PROVE  \/ Applied(s, f) = s
         \/ /\ f.ref = s.ref
            /\ \E t \in {Activated(s, f), PaymentFailed(s), Terminated(s), s} :
                 Applied(s, f) = [t EXCEPT !.provider_status = f.status]
<1> DEFINE a == Activated(s, f)
           b == PaymentFailed(s)
           c == Terminated(s)
           new == CASE f.status = "active"                     -> a
                    [] f.status = "pending"                    -> b
                    [] f.status \in TERMINAL_PROVIDER_STATUSES -> c
                    [] OTHER                                   -> s
<1>1. Applied(s, f) = IF f.ref # s.ref THEN s ELSE [new EXCEPT !.provider_status = f.status]
  BY DEF Applied
<1> HIDE DEF a, b, c
<1>2. new \in {a, b, c, s}
  OBVIOUS
<1> HIDE DEF new
<1> QED
  BY <1>1, <1>2 DEF a, b, c

\* It takes a row from a paid cycle to a paid cycle of the same subscription.
LEMMA AppliedPaid ==
  ASSUME NEW s \in WideRows, NEW f \in Fetchable,
         PaidFor(s),
         f.proof => f.ref \in Refs /\ f.cycle \in prov[f.ref].paid
  PROVE  /\ Applied(s, f) \in WideRows
         /\ PaidFor(Applied(s, f))
         /\ Applied(s, f).ref = s.ref
         /\ s.status # "NONE" => Applied(s, f).status # "NONE"
         /\ Applied(s, f).status # "NONE" => s.status # "NONE" \/ Entitling(Applied(s, f))
<1> USE SubscriptionAssumption
<1> DEFINE Kept(t) == /\ t \in WideRows /\ PaidFor(t) /\ t.ref = s.ref
                      /\ s.status # "NONE" => t.status # "NONE"
                      /\ t.status # "NONE" => s.status # "NONE" \/ Entitling(t)
<1>1. CASE Applied(s, f) = s
  BY <1>1
<1>2. CASE f.ref = s.ref /\ \E t \in {Activated(s, f), PaymentFailed(s), Terminated(s), s} :
             Applied(s, f) = [t EXCEPT !.provider_status = f.status]
  <2>1. Kept(Activated(s, f))
    <3>1. CASE Activated(s, f) = s
      BY <3>1
    <3>2. CASE /\ f.proof
               /\ Activated(s, f) = [s EXCEPT !.status = "ACTIVE", !.period = f.cycle, !.stage = NoStage,
                                              !.ending = @ /\ s.status \in {"ACTIVE", "PAST_DUE"}]
      <4>1. Activated(s, f) \in WideRows
        BY <3>2 DEF WideRows, Fetchable, Status, NoStage
      <4>2. /\ Activated(s, f).status = "ACTIVE" /\ Activated(s, f).period = f.cycle
            /\ Activated(s, f).ref = s.ref
        BY <3>2 DEF WideRows
      <4> QED
        BY <1>2, <3>2, <4>1, <4>2 DEF PaidFor, Entitling
    <3> QED
      BY <3>1, <3>2 DEF Activated, TakesPeriod
  <2>2. Kept(PaymentFailed(s))
    BY DEF PaymentFailed, WideRows, Status, PaidFor, Entitling
  <2>3. Kept(Terminated(s))
    BY DEF Terminated, WideRows, Status, PaidFor, Entitling
  <2>4. PICK t \in {Activated(s, f), PaymentFailed(s), Terminated(s), s} :
               Applied(s, f) = [t EXCEPT !.provider_status = f.status]
    BY <1>2
  <2>5. Kept(t)
    BY <2>1, <2>2, <2>3
  <2>6. f.status \in ProviderStatus \cup {"absent"}
    BY DEF Fetchable
  <2> QED
    BY <2>4, <2>5, <2>6 DEF WideRows, PaidFor, Entitling
<1> QED
  BY <1>1, <1>2, AppliedCases

\* What Razorpay may charge.
Charging == {"authenticated", "active", "pending", "paused"}

\* No cycle is paid that has not begun, one whose charge has failed is not paid, and
\* what has been charged is in a cycle.
Behind(sub) == /\ sub.paid \subseteq 1..sub.cycle
               /\ sub.status = "pending" => sub.cycle \notin sub.paid
               /\ sub.status \in {"active", "pending", "paused"} => sub.cycle # 0

\* What becomes of subscription r, whoever acts on it: what has been paid stays paid,
\* what was asked to end goes on ending, and nothing but its payer, who has been
\* offered it, begins to be charged.
Later(r, old, new) ==
  /\ old.paid \subseteq new.paid
  /\ old.cycle <= new.cycle
  /\ Behind(old) => Behind(new)
  /\ old.ending => new.ending
  /\ old.status = "cancelled" => new.status = "cancelled"
  /\ old.status # "absent" => new.status # "absent"
  /\ new.status \in Charging => old.status \in Charging \/ r \in offered

Keeps(new) == /\ new \in [Refs -> WideSubs]
              /\ \A r \in Refs : Later(r, prov[r], new[r])

ProvKept == Keeps(prov')

LEMMA ProvStep == Typed /\ Next => ProvKept
<1> SUFFICES ASSUME Typed, Next PROVE ProvKept
  OBVIOUS
<1> USE SubscriptionAssumption DEF ProvKept
<1>0. prov \in [Refs -> WideSubs]
  BY DEF Typed
<1>b. Keeps(prov)
  <2>1. ASSUME NEW r \in Refs PROVE Later(r, prov[r], prov[r])
    <3>1. prov[r].cycle \in Nat
      BY <1>0 DEF WideSubs
    <3> QED
      BY <3>1 DEF Later
  <2> QED
    BY <1>0, <2>1 DEF Keeps
<1>a. ASSUME NEW r, NEW e \in WideSubs, r \in Refs => Later(r, prov[r], e)
      PROVE  Keeps([prov EXCEPT ![r] = e])
  BY <1>0, <1>a, <1>b DEF Keeps
<1>1. ASSUME NEW r PROVE Keeps(CancelledNow(r))
  <2>1. CASE r \in Refs
    <3> DEFINE old == prov[r]
               e == [old EXCEPT !.status = "cancelled"]
    <3>1. old \in WideSubs
      BY <1>0, <2>1
    <3> HIDE DEF old
    <3>2. e \in WideSubs /\ Later(r, old, e)
      BY <3>1 DEF Later, Behind, WideSubs, ProviderStatus, Charging
    <3> HIDE DEF e
    <3>3. CancelledNow(r) = [prov EXCEPT ![r] = e]
      BY <1>0, <2>1 DEF CancelledNow, e, old
    <3>4. Keeps([prov EXCEPT ![r] = e])
      BY <1>a, <3>2 DEF old
    <3> QED
      BY <3>3, <3>4
  <2>2. CASE r \notin Refs
    <3>1. CancelledNow(r) = prov
      BY <1>0, <2>2 DEF CancelledNow
    <3> QED
      BY <1>b, <3>1
  <2> QED
    BY <2>1, <2>2
<1>2. ASSUME NEW r \in Refs, prov[r].status = "absent" PROVE Keeps(Created(r))
  <2> DEFINE old == prov[r]
             e == [old EXCEPT !.status = "created"]
  <2>1. old \in WideSubs /\ old.status = "absent"
    BY <1>0, <1>2
  <2> HIDE DEF old
  <2>2. e \in WideSubs /\ Later(r, old, e)
    BY <2>1 DEF Later, Behind, WideSubs, ProviderStatus, Charging
  <2> HIDE DEF e
  <2>3. Created(r) = [prov EXCEPT ![r] = e]
    BY <1>0 DEF Created, e, old
  <2>4. Keeps([prov EXCEPT ![r] = e])
    BY <1>a, <2>2 DEF old
  <2> QED
    BY <2>3, <2>4
<1>3. ASSUME NEW r PROVE Keeps([prov EXCEPT ![r].ending = TRUE])
  <2>1. CASE r \in Refs
    <3> DEFINE old == prov[r]
               e == [old EXCEPT !.ending = TRUE]
    <3>1. old \in WideSubs
      BY <1>0, <2>1
    <3> HIDE DEF old
    <3>2. e \in WideSubs /\ Later(r, old, e)
      <4>0. e \in WideSubs
        BY <3>1 DEF WideSubs, ProviderStatus
      <4>a. old.cycle \in Nat
        BY <3>1 DEF WideSubs
      <4>1. /\ e.cycle = old.cycle /\ e.paid = old.paid
            /\ e.status = old.status /\ e.ending = TRUE
        BY <3>1 DEF WideSubs
      <4> HIDE DEF e
      <4>2. old.cycle <= e.cycle
        BY <4>a, <4>1
      <4>3. Behind(old) => Behind(e)
        BY <4>1 DEF Behind
      <4> QED
        BY <4>0, <4>1, <4>2, <4>3 DEF Later
    <3> HIDE DEF e
    <3>3. [prov EXCEPT ![r].ending = TRUE] = [prov EXCEPT ![r] = e]
      BY <1>0, <2>1 DEF e, old
    <3> QED
      BY <1>a, <3>2, <3>3 DEF old
  <2>2. CASE r \notin Refs
    <3>1. [prov EXCEPT ![r].ending = TRUE] = prov
      BY <1>0, <2>2
    <3> QED
      BY <1>b, <3>1
  <2> QED
    BY <2>1, <2>2
<1>4. CASE prov' = prov
  BY <1>b, <1>4
<1>5. ASSUME NEW d \in Dunners, ProviderCancels(d) \/ DunningFails(d) PROVE ProvKept
  BY <1>1, <1>4, <1>5 DEF ProviderCancels, DunningFails
<1>6. ASSUME NEW o \in Owners, CancelOld(o) \/ CancelNow(o) PROVE ProvKept
  BY <1>1, <1>4, <1>6 DEF CancelOld, CancelNow
<1>7. ASSUME NEW o \in Owners, NEW r \in Refs, CreateNew(o, r) PROVE ProvKept
  BY <1>2, <1>7 DEF CreateNew
<1>8. ASSUME NEW o \in Owners, CancelAtPeriodEnd(o) PROVE ProvKept
  BY <1>3, <1>4, <1>8 DEF CancelAtPeriodEnd
<1>9. ASSUME NEW o \in Owners, CallFails(o) PROVE ProvKept
  <2>1. \/ prov' = prov \/ prov' = CancelledNow(draft.ref)
        \/ \E r \in Refs : prov[r].status = "absent" /\ prov' = Created(r)
        \/ prov' = [prov EXCEPT ![draft.ref].ending = TRUE]
    BY <1>9, Zenon DEF CallFails, Outcomes
  <2> QED
    BY <2>1, <1>1, <1>2, <1>3, <1>4
<1>10. ASSUME NEW r \in Refs, ProviderMoves(r) PROVE ProvKept
  <2> DEFINE old == prov[r]
  <2>0. old \in WideSubs /\ prov[r] = old /\ "active" \in ProviderStatus
    BY <1>0 DEF ProviderStatus
  <2>1. ASSUME NEW status \in ProviderStatus, Becomes(r, status), prov[r].status # "cancelled", status # "pending",
               status \in Charging => prov[r].status \in Charging \/ r \in offered,
               status \in {"active", "paused"} => prov[r].status \in {"active", "pending", "paused"}
        PROVE ProvKept
    <3> DEFINE e == [old EXCEPT !.status = status]
    <3>1. prov' = [prov EXCEPT ![r] = e]
      BY <1>0, <2>1 DEF Becomes
    <3> HIDE DEF old
    <3>2. e \in WideSubs /\ Later(r, old, e)
      BY <2>0, <2>1 DEF Later, Behind, WideSubs, ProviderStatus
    <3> HIDE DEF e
    <3> QED
      BY <1>a, <2>0, <3>1, <3>2
  <2>2. ASSUME NEW status \in {"active", "pending"}, NEW paid \in BOOLEAN, Bills(r, status, paid),
               prov[r].status \in {"authenticated", "active"}, status = "pending" => ~paid
        PROVE ProvKept
    <3> DEFINE e == [old EXCEPT !.status = status, !.cycle = @ + 1,
                                !.paid = IF paid THEN @ \cup {old.cycle + 1} ELSE @]
    <3>1. prov' = [prov EXCEPT ![r] = e] /\ old.cycle < MaxCycle
      BY <1>0, <2>2 DEF Bills
    <3> HIDE DEF old
    <3>2. old.cycle + 1 \in 0..MaxCycle /\ old.paid \subseteq 0..MaxCycle
      BY <2>0, <3>1 DEF WideSubs
    <3>3. e \in WideSubs
      BY <2>0, <2>2, <3>2 DEF WideSubs, ProviderStatus
    <3>4. Later(r, old, e)
      <4>1. /\ e.cycle = old.cycle + 1 /\ e.status = status /\ e.ending = old.ending
            /\ e.paid = IF paid THEN old.paid \cup {old.cycle + 1} ELSE old.paid
            /\ old.cycle \in Nat
        BY <2>0 DEF WideSubs
      <4> HIDE DEF e
      <4>2. Behind(old) => Behind(e)
        BY <2>2, <4>1 DEF Behind
      <4> QED
        BY <2>0, <2>2, <4>1, <4>2 DEF Later, Charging
    <3> HIDE DEF e
    <3> QED
      BY <1>a, <2>0, <3>1, <3>3, <3>4
  <2>3. ASSUME Pays(r), prov[r].status \in {"active", "pending"} PROVE ProvKept
    <3> DEFINE e == [old EXCEPT !.status = "active", !.paid = @ \cup {old.cycle}]
    <3>1. prov' = [prov EXCEPT ![r] = e]
      BY <1>0, <2>3 DEF Pays
    <3> HIDE DEF old
    <3>2. e \in WideSubs /\ Later(r, old, e)
      <4>0. e \in WideSubs
        BY <2>0 DEF WideSubs, ProviderStatus
      <4>a. old.cycle \in Nat
        BY <2>0 DEF WideSubs
      <4>1. /\ e.cycle = old.cycle /\ e.paid = old.paid \cup {old.cycle}
            /\ e.status = "active" /\ e.ending = old.ending
        BY <2>0 DEF WideSubs
      <4> HIDE DEF e
      <4>2. old.cycle <= e.cycle
        BY <4>a, <4>1
      <4>3. Behind(old) => Behind(e)
        BY <2>0, <2>3, <4>a, <4>1 DEF Behind
      <4> QED
        BY <2>0, <2>3, <4>0, <4>1, <4>2, <4>3 DEF Later, Charging
    <3> HIDE DEF e
    <3> QED
      BY <1>a, <2>0, <3>1, <3>2
  <2> QED
    BY <1>10, <2>1, <2>2, <2>3 DEF ProviderMoves, ProviderStatus, Charging
<1> QED
  BY <1>4, <1>5, <1>6, <1>7, <1>8, <1>9, <1>10
  DEF Next, RunMaintenance, ReceiveWebhook, LoseTask, Sync, SyncRead, SyncFetch, SyncFails,
      SyncApply, Dunning, DunningStart, AdvanceDunning, OwedCancel, ProviderRefuses,
      RecordCancel, Request, RequestStep, StartCheckout, CancelSubscription, Begin,
      Reconcile, Answers, UpgradeNow, ReplaceSubscription, CancelPastDue, CommitRequest,
      CrashRequest, InRequest, DayPasses, PeriodEnds, WindowEnds

-----------------------------------------------------------------------------
(* The steps *)

LEMMA StepInv == IInv /\ [Next]_vars => IInv'
<1> SUFFICES ASSUME IInv, [Next]_vars PROVE IInv'
  OBVIOUS
<1>0. ASSUME Next PROVE /\ prov' \in [Refs -> WideSubs]
                        /\ \A r \in Refs : prov[r].paid \subseteq prov'[r].paid
  BY <1>0, ProvStep DEF IInv, ProvKept, Keeps, Later
<1>a. ASSUME NEW s \in WideRows, NEW f \in Fetchable, PaidFor(s),
             f.proof => f.ref \in Refs /\ f.cycle \in prov[f.ref].paid
      PROVE  /\ Applied(s, f) \in WideRows
             /\ Entitling(Applied(s, f))
                  => /\ Applied(s, f).ref \in Refs
                     /\ Applied(s, f).period \in prov[Applied(s, f).ref].paid
             /\ Applied(s, f).ref = s.ref
             /\ s.status # "NONE" => Applied(s, f).status # "NONE"
             /\ \/ Applied(s, f).status = "NONE" \/ s.status # "NONE"
                \/ Applied(s, f).ref \in Refs
  BY <1>a, AppliedPaid DEF PaidFor
<1> USE SubscriptionAssumption
    DEF IInv, Typed, Holding, RefKnown, ProofsHold, PaidFor, Entitling, Goto, Procs
<1>1. CASE RunMaintenance
  BY <1>1 DEF RunMaintenance, MaintenanceDue, Ended, clocks, locals
<1>2. CASE ReceiveWebhook
  BY <1>2 DEF ReceiveWebhook, WideRows, clocks, locals
<1>3. ASSUME NEW t \in tasks, LoseTask(t) PROVE IInv'
  BY <1>3 DEF LoseTask, clocks, locals
<1>4. ASSUME NEW p \in Syncers, SyncRead(p) PROVE IInv'
  <2>1. row.ref \in Refs /\ ActivePeriod(row) \in 0..MaxCycle
    BY <1>4 DEF SyncRead, ActivePeriod, WideRows
  <2>2. Typed'
    BY <1>4, <2>1 DEF SyncRead, Stages, clocks
  <2>3. Holding'
    BY <1>4 DEF SyncRead, Stages, clocks
  <2>4. RefKnown'
    BY <1>4, <2>1 DEF SyncRead, Stages, clocks
  <2> QED
    BY <1>4, <2>2, <2>3, <2>4 DEF SyncRead
<1>5. ASSUME NEW p \in Syncers, SyncFetch(p) PROVE IInv'
  BY <1>5 DEF SyncFetch, Fetched, NothingRead, Stages, clocks, WideSubs, Fetchable
<1>6. ASSUME NEW p \in Syncers, SyncFails(p) PROVE IInv'
  BY <1>6 DEF SyncFails, SyncEnds, NothingRead, NoSnapshot, Stages, clocks, Fetchable,
      ProviderStatus
<1>7. ASSUME NEW p \in Syncers, SyncApply(p) PROVE IInv'
  <2>1. got[p] \in Fetchable
    OBVIOUS
  <2>2. row' \in {row, Applied(row, got[p])}
    BY <1>7 DEF SyncApply
  <2>3. row' \in WideRows /\ PaidFor(row)' /\ row'.ref = row.ref
        /\ (row'.status # "NONE" => row.status # "NONE" \/ row'.ref \in Refs)
    BY <1>7, <1>a, <2>1, <2>2 DEF SyncApply
  <2> QED
    <3>1. NoSnapshot \in Fetchable /\ ~NoSnapshot.proof
      BY DEF NoSnapshot, Fetchable, ProviderStatus
    <3>2. Typed'
      BY <1>7, <2>3, <3>1 DEF SyncApply, SyncEnds, NothingRead, Stages
    <3>3. Holding'
      BY <1>7 DEF SyncApply, SyncEnds, Stages
    <3>4. RefKnown'
      <4>1. \A o \in Owners : pc[o] = "idle" /\ pc'[o] = "idle"
        BY <1>7 DEF SyncApply, SyncEnds, Stages
      <4>2. \A q \in Syncers : pc'[q] = "fetching" => read'[q].ref \in Refs
        BY <1>7 DEF SyncApply, SyncEnds, Stages
      <4>3. \A d \in Dunners : pc'[d] = pc[d] /\ read'[d] = read[d]
        BY <1>7 DEF SyncApply, SyncEnds
      <4>4. tasks' = tasks /\ draft' = draft
        BY <1>7 DEF SyncApply
      <4>5. (row'.status # "NONE" \/ "sync" \in tasks') => row'.ref \in Refs
        BY <2>3, <4>4
      <4>6. draft'.status # "NONE" => draft'.ref \in Refs
        BY <4>4
      <4>7. \A d \in Dunners : pc'[d] \in {"cancelling", "recording"} => read'[d].ref \in Refs
        BY <4>3
      <4> QED
        BY <4>1, <4>2, <4>5, <4>6, <4>7
    <3>5. ProofsHold' /\ PaidFor(draft)'
      BY <1>7, <3>1 DEF SyncApply, SyncEnds, Stages
    <3> QED
      BY <2>3, <3>2, <3>3, <3>4, <3>5
<1>8. ASSUME NEW d \in Dunners, DunningStart(d) PROVE IInv'
  BY <1>8 DEF DunningStart, Stages, clocks
<1>9. ASSUME NEW d \in Dunners, AdvanceDunning(d) PROVE IInv'
  <2>1. row' = row \/ \E days : row' = Advanced(row, days)
    BY <1>9 DEF AdvanceDunning
  <2>2. row \in WideRows
    BY DEF IInv, Typed
  <2>3. /\ row' \in WideRows /\ row'.ref = row.ref /\ row'.period = row.period
        /\ row'.status \in {row.status, "EXPIRED"}
    BY <2>1, <2>2, AdvancedRow
  <2> QED
    BY <1>9, <2>1, <2>3 DEF AdvanceDunning, Stages
<1>10. ASSUME NEW d \in Dunners, OwedCancel(d) PROVE IInv'
  BY <1>10 DEF OwedCancel, Ended, Stages, clocks
<1>11. ASSUME NEW d \in Dunners, ProviderCancels(d) PROVE IInv'
  <2>1. Next
    BY <1>11 DEF Next, Dunning
  <2> QED
    BY <1>0, <1>11, <2>1 DEF ProviderCancels, Stages, clocks
<1>12. ASSUME NEW d \in Dunners, ProviderRefuses(d) PROVE IInv'
  BY <1>12 DEF ProviderRefuses, DunningEnds, NothingRead, Stages, clocks
<1>13. ASSUME NEW d \in Dunners, DunningFails(d) PROVE IInv'
  <2>1. Next
    BY <1>13 DEF Next, Dunning
  <2> QED
    BY <1>0, <1>13, <2>1 DEF DunningFails, DunningEnds, NothingRead, Stages, clocks
<1>14. ASSUME NEW d \in Dunners, RecordCancel(d) PROVE IInv'
  BY <1>14 DEF RecordCancel, DunningEnds, NothingRead, Stages, WideRows, ProviderStatus
<1>15. ASSUME NEW o \in Owners, NEW stage \in Stages, Begin(o, stage),
              stage \in {"creating", "reconciling", "cancelling_past_due", "cancel_reconciling"},
              stage # "creating" => row.status # "NONE"
       PROVE  IInv'
  <2>1. Typed'
    BY <1>15 DEF Begin, clocks
  <2>2. Holding'
    BY <1>15 DEF Begin, Stages
  <2>3. RefKnown'
    BY <1>15 DEF Begin, Stages
  <2> QED
    BY <1>15, <2>1, <2>2, <2>3 DEF Begin, Stages
<1>16. ASSUME NEW o \in Owners, StartCheckout(o) \/ CancelSubscription(o) PROVE IInv'
  BY <1>15, <1>16 DEF StartCheckout, CancelSubscription, Stages
<1>17. ASSUME NEW o \in Owners, Reconcile(o) PROVE IInv'
  <2>1. draft.ref \in Refs /\ draft.status # "NONE"
    BY <1>17 DEF Reconcile
  <2> DEFINE f == Fetched(draft.ref, ActivePeriod(draft))
  <2>2. f \in Fetchable /\ (f.proof => f.ref \in Refs /\ f.cycle \in prov[f.ref].paid)
    BY <2>1 DEF Fetched, Fetchable, WideSubs
  <2>3. draft' = Applied(draft, f) /\ prov' = prov
    BY <1>17 DEF Reconcile, ReconcileDraft
  <2>4. draft' \in WideRows /\ PaidFor(draft)' /\ draft'.ref = draft.ref
        /\ draft'.status # "NONE"
    BY <1>a, <2>1, <2>2, <2>3
  <2>5. got' \in [Syncers \cup Owners -> Fetchable] /\ \A p \in Syncers : got'[p] = got[p]
    <3>1. got' = [got EXCEPT ![o] = [NoSnapshot EXCEPT !.status = f.status]]
      BY <1>17 DEF Reconcile, ReconcileDraft
    <3>2. f.status \in ProviderStatus \cup {"absent"}
      BY <2>2 DEF Fetchable
    <3> HIDE DEF f
    <3>3. NoSnapshot \in Fetchable
      BY DEF NoSnapshot, Fetchable, ProviderStatus
    <3>4. [NoSnapshot EXCEPT !.status = f.status] \in Fetchable
      BY <3>2, <3>3 DEF Fetchable
    <3> QED
      BY <3>1, <3>4
  <2> QED
    BY <1>17, <2>1, <2>3, <2>4, <2>5 DEF Reconcile, InRequest, Stages, clocks
<1>18. ASSUME NEW o \in Owners, Answers(o) PROVE IInv'
  BY <1>18 DEF Answers, InRequest, Stages, clocks
<1>19. ASSUME NEW o \in Owners, UpgradeNow(o) PROVE IInv'
  <2>1. draft.ref \in Refs /\ draft.status # "NONE"
    BY <1>19 DEF UpgradeNow
  <2> DEFINE f == Fetched(draft.ref, ActivePeriod(draft))
  <2>2. f \in Fetchable /\ (f.proof => f.ref \in Refs /\ f.cycle \in prov[f.ref].paid)
    BY <2>1 DEF Fetched, Fetchable, WideSubs
  <2>3. draft' = Applied(draft, f) /\ prov' = prov
    BY <1>19 DEF UpgradeNow, ReconcileDraft
  <2>4. draft' \in WideRows /\ PaidFor(draft)' /\ draft'.ref = draft.ref
        /\ draft'.status # "NONE"
    BY <1>a, <2>1, <2>2, <2>3
  <2>5. got' \in [Syncers \cup Owners -> Fetchable] /\ \A p \in Syncers : got'[p] = got[p]
    <3>1. got' = [got EXCEPT ![o] = [NoSnapshot EXCEPT !.status = f.status]]
      BY <1>19 DEF UpgradeNow, ReconcileDraft
    <3>2. f.status \in ProviderStatus \cup {"absent"}
      BY <2>2 DEF Fetchable
    <3> HIDE DEF f
    <3>3. NoSnapshot \in Fetchable
      BY DEF NoSnapshot, Fetchable, ProviderStatus
    <3>4. [NoSnapshot EXCEPT !.status = f.status] \in Fetchable
      BY <3>2, <3>3 DEF Fetchable
    <3> QED
      BY <3>1, <3>4
  <2> QED
    BY <1>19, <2>1, <2>3, <2>4, <2>5 DEF UpgradeNow, InRequest, Stages, clocks
<1>20. ASSUME NEW o \in Owners, ReplaceSubscription(o) PROVE IInv'
  BY <1>20 DEF ReplaceSubscription, InRequest, Stages, clocks
<1>21. ASSUME NEW o \in Owners, CancelOld(o) PROVE IInv'
  <2>1. Next
    BY <1>21 DEF Next, Request, RequestStep
  <2> QED
    BY <1>0, <1>21, <2>1 DEF CancelOld, AfterFailedCancel, InRequest, Stages, clocks
<1>22. ASSUME NEW o \in Owners, NEW r \in Refs, CreateNew(o, r) PROVE IInv'
  <2>1. Next
    BY <1>22 DEF Next, Request, RequestStep
  <2> QED
    BY <1>0, <1>22, <2>1 DEF CreateNew, NewRow, InRequest, Stages, clocks, WideRows,
      Status, ProviderStatus
<1>23. ASSUME NEW o \in Owners, CancelAtPeriodEnd(o) PROVE IInv'
  <2>1. Next
    BY <1>23 DEF Next, Request, RequestStep
  <2> QED
    <3>1. draft' = draft \/ draft' = [draft EXCEPT !.ending = TRUE]
      BY <1>23 DEF CancelAtPeriodEnd
    <3>2. ASSUME NEW s \in WideRows PROVE [s EXCEPT !.ending = TRUE] \in WideRows
      BY DEF WideRows
    <3>3. draft' \in WideRows
      BY <3>1, <3>2
    <3>4. /\ draft'.status = draft.status /\ draft'.ref = draft.ref
          /\ draft'.period = draft.period
      BY <3>1 DEF WideRows
    <3>5. Typed'
      BY <1>0, <1>23, <2>1, <3>3 DEF CancelAtPeriodEnd, InRequest, Stages, clocks
    <3>6. Holding' /\ RefKnown'
      BY <1>23, <3>4 DEF CancelAtPeriodEnd, InRequest, Stages, clocks
    <3> QED
      BY <1>0, <1>23, <2>1, <3>4, <3>5, <3>6 DEF CancelAtPeriodEnd, InRequest, clocks
<1>24. ASSUME NEW o \in Owners, CancelPastDue(o) PROVE IInv'
  <2>1. draft' = [draft EXCEPT !.status = "CANCELLED", !.stage = NoStage]
    BY <1>24 DEF CancelPastDue
  <2>2. draft' \in WideRows /\ draft'.ref = draft.ref /\ draft'.status = "CANCELLED"
    BY <2>1 DEF WideRows, Status, NoStage
  <2>3. draft.status # "NONE" /\ draft.ref \in Refs
    BY <1>24 DEF CancelPastDue
  <2>4. Typed'
    BY <1>24, <2>2 DEF CancelPastDue, InRequest, Stages, clocks
  <2>5. Holding' /\ RefKnown'
    BY <1>24, <2>2, <2>3 DEF CancelPastDue, InRequest, Stages, clocks
  <2> QED
    BY <1>24, <2>2, <2>4, <2>5 DEF CancelPastDue, InRequest, clocks
<1>25. ASSUME NEW o \in Owners, CancelNow(o) PROVE IInv'
  <2>1. Next
    BY <1>25 DEF Next, Request, RequestStep
  <2> QED
    BY <1>0, <1>25, <2>1 DEF CancelNow, InRequest, Stages, clocks, WideRows,
      ProviderStatus
<1>26. ASSUME NEW o \in Owners, CallFails(o) PROVE IInv'
  <2>1. Next
    BY <1>26 DEF Next, Request, RequestStep
  <2> QED
    BY <1>0, <1>26, <2>1 DEF CallFails, AfterFailedCancel, InRequest, Stages, clocks
<1>27. ASSUME NEW o \in Owners, CommitRequest(o) PROVE IInv'
  BY <1>27 DEF CommitRequest, NoRow, NoSnapshot, Stages, WideRows, Status,
      ProviderStatus, Fetchable
<1>28. ASSUME NEW o \in Owners, CrashRequest(o) PROVE IInv'
  BY <1>28 DEF CrashRequest, NoRow, NoSnapshot, Stages, WideRows, Status,
      ProviderStatus, Fetchable, clocks
<1>29. ASSUME NEW r \in Refs, ProviderMoves(r) PROVE IInv'
  <2>1. Next
    BY <1>29 DEF Next
  <2> QED
    BY <1>0, <1>29, <2>1 DEF clocks, locals, ProviderMoves
<1>30. CASE DayPasses
  BY <1>30 DEF DayPasses, locals
<1>31. CASE PeriodEnds
  BY <1>31 DEF PeriodEnds, locals
<1>32. CASE WindowEnds
  BY <1>32 DEF WindowEnds, locals
<1>33. CASE UNCHANGED vars
  BY <1>33 DEF vars, clocks, locals
<1> QED
  BY <1>1, <1>2, <1>3, <1>4, <1>5, <1>6, <1>7, <1>8, <1>9, <1>10, <1>11, <1>12, <1>13,
     <1>14, <1>15, <1>16, <1>17, <1>18, <1>19, <1>20, <1>21, <1>22, <1>23, <1>24, <1>25,
     <1>26, <1>27, <1>28, <1>29, <1>30, <1>31, <1>32, <1>33 DEF Next, Sync, Dunning,
     Request, RequestStep

\* EntitledIsPaid for every instance: a row that grants entitlement is in a paid
\* cycle of its own subscription.
THEOREM EntitlementIsPaid == Spec => []EntitledIsPaid
<1>1. IInv => EntitledIsPaid
  BY DEF IInv, EntitledIsPaid
<1> QED
  BY <1>1, InitInv, StepInv, PTL DEF Spec

-----------------------------------------------------------------------------
(* The steps, for what follows: those that leave the row and the requests     *)
(* alone, those of a task that moves the committed row, and a request's.       *)

RequestsStay == /\ UNCHANGED <<draft, lock, offered>>
                /\ \A o \in Owners : pc'[o] = pc[o] /\ got'[o] = got[o]

\* Time only goes on within a grace period, and a dunning task takes its now from it.
DaysGoOn ==
  \/ UNCHANGED <<age, asOf>>
  \/ UNCHANGED age /\ \E d \in Dunners : asOf' = [asOf EXCEPT ![d] = age]
  \/ row.status = "PAST_DUE" /\ age < GRACE /\ age' = age + 1 /\ UNCHANGED asOf

Elsewhere == row' = row /\ RequestsStay /\ DaysGoOn

\* What ClocksFollow does to the days.
DaysFollow(new) ==
  IF row.status = "PAST_DUE" /\ new.status = "PAST_DUE" THEN UNCHANGED <<age, asOf>>
  ELSE age' = 0 /\ asOf' = [d \in Dunners |-> 0]

TaskMovesRow ==
  /\ lock = Free /\ prov' = prov /\ RequestsStay
  /\ \/ /\ \E f \in Fetchable : row' = Applied(row, f)
        /\ DaysFollow(row')
     \/ row' = row /\ DaysFollow(row')
     \/ /\ row.status = "PAST_DUE"
        /\ \E d \in Dunners : row' = Advanced(row, asOf[d])
        /\ DaysFollow(row')
     \/ /\ row' = [row EXCEPT !.provider_status = "cancelled"]
        /\ UNCHANGED <<age, asOf>>

LEMMA Steps ==
  ASSUME IInv, [Next]_vars
  PROVE  Elsewhere \/ TaskMovesRow \/ \E o \in Owners : Request(o)
<1> USE SubscriptionAssumption
    DEF IInv, Typed, Procs, Goto, Elsewhere, TaskMovesRow, RequestsStay, DaysGoOn
<1>1. ASSUME NEW p \in Syncers, SyncRead(p) \/ SyncFetch(p) \/ SyncFails(p) PROVE Elsewhere
  BY <1>1 DEF SyncRead, SyncFetch, SyncFails, SyncEnds, clocks
<1>2. ASSUME NEW p \in Syncers, SyncApply(p) PROVE TaskMovesRow
  <2>1. RequestsStay /\ lock = Free /\ prov' = prov
    BY <1>2 DEF SyncApply, SyncEnds
  <2>2. row' = row \/ row' = Applied(row, got[p])
    BY <1>2 DEF SyncApply
  <2>3. DaysFollow(row')
    BY <1>2 DEF SyncApply, ClocksFollow, DaysFollow
  <2>4. got[p] \in Fetchable
    OBVIOUS
  <2> QED
    BY <2>1, <2>2, <2>3, <2>4
<1>3. ASSUME NEW d \in Dunners,
             \/ DunningStart(d) \/ OwedCancel(d) \/ ProviderCancels(d) \/ ProviderRefuses(d)
             \/ DunningFails(d)
      PROVE  Elsewhere
  BY <1>3 DEF DunningStart, OwedCancel, ProviderCancels, ProviderRefuses, DunningFails,
      DunningEnds, clocks
<1>4. ASSUME NEW d \in Dunners, AdvanceDunning(d) PROVE TaskMovesRow
  <2>1. RequestsStay /\ lock = Free /\ prov' = prov
    BY <1>4 DEF AdvanceDunning
  <2>2. row' = row \/ (row.status = "PAST_DUE" /\ row' = Advanced(row, asOf[d]))
    BY <1>4 DEF AdvanceDunning
  <2>3. DaysFollow(row')
    BY <1>4 DEF AdvanceDunning, ClocksFollow, DaysFollow
  <2> QED
    BY <2>1, <2>2, <2>3
<1>5. ASSUME NEW d \in Dunners, RecordCancel(d) PROVE Elsewhere \/ TaskMovesRow
  <2>1. RequestsStay /\ lock = Free /\ prov' = prov /\ UNCHANGED <<age, asOf>>
    BY <1>5 DEF RecordCancel, DunningEnds, clocks
  <2>2. row' = row \/ row' = [row EXCEPT !.provider_status = "cancelled"]
    BY <1>5 DEF RecordCancel
  <2> QED
    BY <2>1, <2>2
<1>6. CASE \/ RunMaintenance \/ ReceiveWebhook \/ (\E t \in tasks : LoseTask(t))
           \/ DayPasses \/ PeriodEnds \/ WindowEnds \/ UNCHANGED vars
  BY <1>6 DEF RunMaintenance, ReceiveWebhook, LoseTask, DayPasses, PeriodEnds, WindowEnds,
      vars, clocks, locals
<1>7. ASSUME NEW r \in Refs, ProviderMoves(r) PROVE Elsewhere
  <2>1. UNCHANGED <<row, clocks, offered, tasks, fetches, lock, draft, locals, faults>>
    BY <1>7, Zenon DEF ProviderMoves
  <2> QED
    BY <2>1 DEF clocks, locals
<1> QED
  BY <1>1, <1>2, <1>3, <1>4, <1>5, <1>6, <1>7 DEF Next, Sync, Dunning

StageKnown(s) == s.status = "PAST_DUE" <=> s.stage # NoStage

\* What becomes of a row s, whoever moves it on.
Follows(s, new) ==
  /\ new \in WideRows /\ new.ref = s.ref
  /\ new.ending => s.ending
  /\ new.status = "NONE" => s.status = "NONE"
  /\ StageKnown(s) => StageKnown(new)
  /\ new.status = "EXPIRED" => s.status = "EXPIRED" \/ (s.status = "PAST_DUE" /\ age >= GRACE)

LEMMA StagesAreDays ==
  /\ GRACE \in Nat /\ GRACE > 0
  /\ \A n \in DUNNING_STAGES : n \in Nat /\ 0 < n /\ n < GRACE
  /\ \A s \in WideRows : s.stage \in Nat
<1>1. GRACE \in Nat \ {0} /\ DUNNING_STAGES \subseteq 1..GRACE - 1
  BY SubscriptionAssumption
<1>2. \A n \in 1..GRACE - 1 : n \in Nat /\ 0 < n /\ n < GRACE
  BY <1>1
<1>3. \A n \in DUNNING_STAGES : n \in Nat /\ 0 < n /\ n < GRACE
  BY <1>1, <1>2
<1>4. \A s \in WideRows : s.stage \in DUNNING_STAGES \cup {0, GRACE}
  BY DEF WideRows, NoStage
<1>5. \A s \in WideRows : s.stage \in Nat
  <2> TAKE s \in WideRows
  <2>1. DUNNING_STAGES \subseteq Nat /\ {0, GRACE} \subseteq Nat
    BY <1>1, <1>3
  <2>2. s.stage \in DUNNING_STAGES \cup {0, GRACE}
    BY <1>4
  <2> QED
    BY <2>1, <2>2
<1>6. GRACE > 0
  BY <1>1
<1> QED
  BY <1>1, <1>3, <1>5, <1>6

\* _apply_snapshot begins a grace period at its first stage, and leaves the stage of
\* one that goes on.
LEMMA AppliedFollows ==
  ASSUME NEW s \in WideRows, NEW f \in Fetchable
  PROVE  /\ Follows(s, Applied(s, f))
         /\ Applied(s, f).status = "PAST_DUE" =>
              Applied(s, f).stage = IF s.status = "PAST_DUE" THEN s.stage ELSE 0
<1> USE SubscriptionAssumption
<1> DEFINE Kept(t) == /\ Follows(s, t)
                      /\ t.status = "PAST_DUE" =>
                           t.stage = IF s.status = "PAST_DUE" THEN s.stage ELSE 0
<1>1. Kept(s)
  BY DEF Follows
<1>2. Kept(Activated(s, f))
  <2>1. CASE Activated(s, f) = s
    BY <1>1, <2>1
  <2> DEFINE e == [s EXCEPT !.status = "ACTIVE", !.period = f.cycle, !.stage = NoStage,
                            !.ending = @ /\ s.status \in {"ACTIVE", "PAST_DUE"}]
  <2>2. Kept(e)
    BY DEF Follows, StageKnown, WideRows, Fetchable, Status, NoStage
  <2>3. CASE Activated(s, f) = e
    <3> HIDE DEF e
    <3> QED
      BY <2>2, <2>3
  <2> QED
    BY <2>1, <2>3 DEF Activated
<1>3. Kept(PaymentFailed(s))
  <2>1. CASE PaymentFailed(s) = s
    BY <1>1, <2>1
  <2> DEFINE e == [s EXCEPT !.status = "PAST_DUE", !.stage = 0]
  <2>2. CASE s.status = "ACTIVE"
    <3>1. Kept(e)
      BY <2>2 DEF Follows, StageKnown, WideRows, Status, NoStage
    <3>2. PaymentFailed(s) = e
      BY <2>2 DEF PaymentFailed
    <3> HIDE DEF e
    <3> QED
      BY <3>1, <3>2
  <2> QED
    BY <2>1, <2>2 DEF PaymentFailed
<1>4. Kept(Terminated(s))
  <2>1. CASE s.status = "ACTIVE"
    BY <2>1 DEF Terminated, Follows, StageKnown, WideRows, Status
  <2>2. CASE s.status = "PAST_DUE"
    BY <2>2 DEF Terminated, Follows, StageKnown, WideRows, Status, NoStage
  <2>3. CASE s.status \notin {"ACTIVE", "PAST_DUE"}
    <3>1. Terminated(s) = s
      BY <2>3 DEF Terminated
    <3> QED
      BY <1>1, <3>1
  <2> QED
    BY <2>1, <2>2, <2>3
<1>5. ASSUME NEW t, Kept(t) PROVE Kept([t EXCEPT !.provider_status = f.status])
  BY <1>5 DEF Follows, StageKnown, WideRows, Fetchable
<1>6. Kept(Applied(s, f))
  <2> HIDE DEF Kept
  <2> QED
    BY <1>1, <1>2, <1>3, <1>4, <1>5, AppliedCases
<1> QED
  BY <1>6

\* _advance_past_due takes the stage of a grace period on, to a day that has come.
LEMMA AdvancedFollows ==
  ASSUME NEW s \in WideRows, s.status = "PAST_DUE", NEW days \in Nat, days <= age, age \in Nat
  PROVE  /\ Follows(s, Advanced(s, days))
         /\ Advanced(s, days).status = "PAST_DUE" =>
              /\ Advanced(s, days).stage >= s.stage
              /\ Advanced(s, days).stage \in {s.stage} \cup 0..age
<1> USE SubscriptionAssumption
<1> DEFINE Kept(t) == /\ Follows(s, t)
                      /\ t.status = "PAST_DUE" => /\ t.stage >= s.stage
                                                  /\ t.stage \in {s.stage} \cup 0..age
<1>0. GRACE \in Nat /\ s.stage \in Nat /\ "EXPIRED" \in Status
  BY StagesAreDays DEF Status
<1>1. ASSUME GraceOver(days)
      PROVE  Kept([s EXCEPT !.status = "EXPIRED", !.stage = NoStage])
  <2> DEFINE e == [s EXCEPT !.status = "EXPIRED", !.stage = NoStage]
  <2>1. age >= GRACE
    BY <1>0, <1>1 DEF GraceOver
  <2>2. /\ e \in WideRows /\ e.ref = s.ref /\ e.ending = s.ending
        /\ e.status = "EXPIRED" /\ e.stage = NoStage
    BY <1>0 DEF WideRows
  <2> HIDE DEF e
  <2>3. Kept(e)
    BY <2>1, <2>2 DEF Follows, StageKnown
  <2> QED
    BY <2>3 DEF e
<1>2. Kept(s)
  BY <1>0 DEF Follows
<1>3. ASSUME NEW n \in DUNNING_STAGES, days >= n, n > s.stage
      PROVE  Kept([s EXCEPT !.stage = n])
  <2>1. n \in Nat /\ n < GRACE
    BY StagesAreDays
  <2>2. n >= s.stage /\ n \in 0..age /\ n # NoStage
    BY <1>0, <1>3, <2>1 DEF NoStage
  <2>3. [s EXCEPT !.stage = n] \in WideRows
    BY DEF WideRows
  <2>4. [s EXCEPT !.stage = n].stage = n
    BY DEF WideRows
  <2> QED
    BY <2>2, <2>3, <2>4 DEF Follows, StageKnown, WideRows
<1>4. Kept(Advanced(s, days))
  <2> HIDE DEF Kept
  <2>1. CASE /\ GraceOver(days)
             /\ Advanced(s, days) = [s EXCEPT !.status = "EXPIRED", !.stage = NoStage]
    BY <1>1, <2>1
  <2>2. CASE Advanced(s, days) = s
    BY <1>2, <2>2
  <2>3. ASSUME NEW n \in DUNNING_STAGES, days >= n, n > s.stage,
               Advanced(s, days) = [s EXCEPT !.stage = n]
        PROVE  Kept(Advanced(s, days))
    BY <1>3, <2>3
  <2> QED
    BY <2>1, <2>2, <2>3, AdvancedCases
<1> QED
  BY <1>4

\* A request that reconciles applies to its draft what it fetches.
LEMMA Reconciles ==
  ASSUME IInv, NEW o \in Owners, Reconcile(o) \/ UpgradeNow(o)
  PROVE  \E f \in Fetchable : /\ draft' = Applied(draft, f)
                              /\ f.status = prov[draft.ref].status
                              /\ got' = [got EXCEPT ![o] = [NoSnapshot EXCEPT !.status = f.status]]
<1> DEFINE f == Fetched(draft.ref, ActivePeriod(draft))
<1>1. draft.ref \in Refs
  BY DEF IInv, RefKnown, Reconcile, UpgradeNow
<1>2. f \in Fetchable /\ f.status = prov[draft.ref].status
  <2>1. prov[draft.ref] \in WideSubs
    BY <1>1 DEF IInv, Typed
  <2> QED
    BY <1>1, <2>1, SubscriptionAssumption DEF Fetched, Fetchable, WideSubs
<1>3. /\ draft' = Applied(draft, f)
      /\ got' = [got EXCEPT ![o] = [NoSnapshot EXCEPT !.status = f.status]]
  BY DEF Reconcile, UpgradeNow, ReconcileDraft
<1> HIDE DEF f
<1> QED
  BY <1>2, <1>3

LEMMA LaterStep == IInv /\ [Next]_vars => \A r \in Refs : Later(r, prov[r], prov'[r])
<1>1. IInv /\ Next => \A r \in Refs : Later(r, prov[r], prov'[r])
  BY ProvStep DEF IInv, ProvKept, Keeps
<1>2. UNCHANGED vars => prov' = prov
  BY DEF vars
<1>3. ASSUME IInv, NEW r \in Refs PROVE Later(r, prov[r], prov[r])
  BY <1>3 DEF Later, IInv, Typed, WideSubs
<1> QED
  BY <1>1, <1>2, <1>3

-----------------------------------------------------------------------------
(* cancel_at_period_end is about the row's own subscription.  Between the     *)
(* provider's answer and the commit it is the draft that says so.             *)

EndingIn(subs, s) ==
  s.ending => /\ s.ref \in Refs
              /\ subs[s.ref].ending \/ subs[s.ref].status = "cancelled"

EndInv == EndingIn(prov, row) /\ EndingIn(prov, draft)

LEMMA EndStep == IInv /\ EndInv /\ [Next]_vars => EndInv'
<1> SUFFICES ASSUME IInv, EndInv, [Next]_vars PROVE EndingIn(prov', row') /\ EndingIn(prov', draft')
  BY DEF EndInv
<1>1. /\ EndingIn(prov, row) /\ EndingIn(prov, draft)
      /\ row \in WideRows /\ draft \in WideRows
  BY DEF IInv, Typed, EndInv
<1>2. ASSUME NEW s, EndingIn(prov, s) PROVE EndingIn(prov', s)
  BY <1>2, LaterStep DEF EndingIn, Later
<1>3. ASSUME NEW s, NEW new, EndingIn(prov, s), new.ref = s.ref, new.ending => s.ending
      PROVE  EndingIn(prov', new)
  BY <1>2, <1>3 DEF EndingIn
<1>4. CASE Elsewhere
  BY <1>1, <1>2, <1>4 DEF Elsewhere, RequestsStay
<1>5. CASE TaskMovesRow
  <2>1. row'.ref = row.ref /\ (row'.ending => row.ending)
    <3>1. CASE \E f \in Fetchable : row' = Applied(row, f)
      BY <1>1, <3>1, AppliedFollows DEF Follows
    <3>2. CASE \E days : row' = Advanced(row, days)
      BY <1>1, <3>2, AdvancedRow
    <3>3. CASE row' = row \/ row' = [row EXCEPT !.provider_status = "cancelled"]
      BY <1>1, <3>3 DEF WideRows
    <3> QED
      BY <1>5, <3>1, <3>2, <3>3 DEF TaskMovesRow
  <2> QED
    BY <1>1, <1>2, <1>3, <1>5, <2>1 DEF TaskMovesRow, RequestsStay
<1>6. ASSUME NEW o \in Owners, Request(o) PROVE EndingIn(prov', row') /\ EndingIn(prov', draft')
  <2>1. CASE StartCheckout(o) \/ CancelSubscription(o)
    BY <1>1, <1>2, <2>1 DEF StartCheckout, CancelSubscription, Begin
  <2>2. CASE Reconcile(o) \/ UpgradeNow(o)
    <3>1. draft'.ref = draft.ref /\ (draft'.ending => draft.ending)
      BY <1>1, <2>2, Reconciles, AppliedFollows DEF Follows
    <3>2. row' = row
      BY <2>2 DEF Reconcile, UpgradeNow, InRequest
    <3> QED
      BY <1>1, <1>2, <1>3, <3>1, <3>2
  <2>3. CASE Answers(o) \/ ReplaceSubscription(o) \/ CancelOld(o) \/ CallFails(o)
    <3>1. row' = row /\ draft' = draft
      BY <2>3 DEF Answers, ReplaceSubscription, CancelOld, CallFails, InRequest
    <3> QED
      BY <1>1, <1>2, <3>1
  <2>4. ASSUME NEW r \in Refs, CreateNew(o, r) PROVE EndingIn(prov', row') /\ EndingIn(prov', draft')
    BY <1>1, <1>2, <2>4 DEF CreateNew, NewRow, InRequest, EndingIn
  <2>5. CASE CancelAtPeriodEnd(o)
    <3>1. row' = row
      BY <2>5 DEF CancelAtPeriodEnd, InRequest
    <3>2. CASE ~MayCancel(draft.ref)
      BY <1>1, <1>2, <2>5, <3>1, <3>2 DEF CancelAtPeriodEnd
    <3>3. CASE MayCancel(draft.ref)
      <4>1. draft.ref \in Refs
        BY <2>5 DEF IInv, RefKnown, CancelAtPeriodEnd
      <4>2. prov' = [prov EXCEPT ![draft.ref].ending = TRUE] /\ draft'.ref = draft.ref
        BY <1>1, <2>5, <3>3 DEF CancelAtPeriodEnd, WideRows
      <4>3. prov[draft.ref] \in WideSubs /\ prov \in [Refs -> WideSubs]
        BY <4>1 DEF IInv, Typed
      <4>4. prov'[draft.ref].ending
        BY <4>1, <4>2, <4>3 DEF WideSubs
      <4> QED
        BY <1>1, <1>2, <3>1, <4>1, <4>2, <4>4 DEF EndingIn
    <3> QED
      BY <3>2, <3>3
  <2>6. CASE CancelPastDue(o) \/ CancelNow(o)
    <3>1. row' = row
      BY <2>6 DEF CancelPastDue, CancelNow, InRequest
    <3>2. \/ draft' = draft
          \/ draft' = [draft EXCEPT !.status = "CANCELLED", !.stage = NoStage]
          \/ draft' = [draft EXCEPT !.provider_status = "cancelled"]
      BY <2>6 DEF CancelPastDue, CancelNow
    <3>3. draft'.ref = draft.ref /\ draft'.ending = draft.ending
      BY <1>1, <3>2 DEF WideRows
    <3> QED
      BY <1>1, <1>2, <1>3, <3>1, <3>3
  <2>7. CASE CommitRequest(o) \/ CrashRequest(o)
    <3>1. row' \in {row, draft} /\ draft' = NoRow
      BY <2>7 DEF CommitRequest, CrashRequest
    <3>2. EndingIn(prov', NoRow)
      BY DEF EndingIn, NoRow
    <3> QED
      BY <1>1, <1>2, <3>1, <3>2
  <2> QED
    BY <1>6, <2>1, <2>2, <2>3, <2>4, <2>5, <2>6, <2>7 DEF Request, RequestStep
<1> QED
  BY <1>4, <1>5, <1>6, Steps

\* EndingIsAsked for every instance: a row that says it ends has a subscription that
\* Razorpay was asked to end, or has ended.
THEOREM FlagIsAsked == Spec => []EndingIsAsked
<1>1. Init => EndInv
  BY DEF Init, EndInv, EndingIn, NoRow
<1>2. EndInv => EndingIsAsked
  BY DEF EndInv, EndingIn, EndingIsAsked, TERMINAL_PROVIDER_STATUSES
<1> QED
  BY <1>1, <1>2, InitInv, StepInv, EndStep, PTL DEF Spec

-----------------------------------------------------------------------------
(* The grace period.  A task's now is never after today, so that what it does *)
(* with a row that is PAST_DUE now is due in this episode; a request that      *)
(* applies a snapshot began with a row in no grace period, and no other moves   *)
(* the row while it holds the lock.                                             *)

Days == /\ age \in 0..GRACE
        /\ asOf \in [Dunners -> 0..GRACE]
        /\ \A d \in Dunners : asOf[d] <= age

RowGrace == /\ StageKnown(row)
            /\ IF row.status = "PAST_DUE" THEN row.stage <= age ELSE age = 0

DraftGrace ==
  /\ StageKnown(draft)
  /\ draft.status = "PAST_DUE" =>
       draft.stage = IF row.status = "PAST_DUE" THEN row.stage ELSE 0
  /\ draft.status = "EXPIRED" => row.status = "EXPIRED"

Applying == {"reconciling", "routing", "cancel_reconciling", "cancel_routing"}

GraceInv ==
  /\ Days /\ RowGrace /\ DraftGrace
  /\ (lock = Free => draft = NoRow)
  /\ \A o \in Owners : pc[o] \in Applying => row.status # "PAST_DUE"

\* NoRow waits for nothing.
LEMMA NoRowGrace == StageKnown(NoRow) /\ NoRow.status = "NONE" /\ NoRow \in WideRows
  BY SubscriptionAssumption DEF NoRow, StageKnown, WideRows, Status, ProviderStatus, NoStage

LEMMA GraceInit == Init => GraceInv
<1>1. GRACE \in Nat /\ GRACE > 0
  BY SubscriptionAssumption
<1> QED
  BY <1>1, NoRowGrace, SubscriptionAssumption
     DEF Init, GraceInv, Days, RowGrace, DraftGrace, Applying, Procs

\* How a task moves the row within its grace period.
LEMMA RowMoved ==
  ASSUME IInv, GraceInv, TaskMovesRow
  PROVE  /\ Follows(row, row')
         /\ row'.status = "PAST_DUE" =>
              IF row.status = "PAST_DUE" THEN /\ row'.stage >= row.stage
                                              /\ row'.stage \in {row.stage} \cup 0..age
              ELSE row'.stage = 0
<1>1. row \in WideRows /\ row.stage \in Nat
  BY StagesAreDays DEF IInv, Typed
<1>2. CASE \E f \in Fetchable : row' = Applied(row, f)
  <2>1. PICK f \in Fetchable : row' = Applied(row, f)
    BY <1>2
  <2> QED
    BY <1>1, <2>1, AppliedFollows
<1>3. CASE row' = row
  BY <1>1, <1>3 DEF Follows, GraceInv, RowGrace, StageKnown
<1>4. CASE row.status = "PAST_DUE" /\ \E d \in Dunners : row' = Advanced(row, asOf[d])
  <2>1. PICK d \in Dunners : row' = Advanced(row, asOf[d])
    BY <1>4
  <2>2. GRACE \in Nat /\ age \in 0..GRACE /\ asOf[d] \in 0..GRACE /\ asOf[d] <= age
    BY StagesAreDays DEF GraceInv, Days
  <2>3. asOf[d] \in Nat /\ age \in Nat
    BY <2>2
  <2> QED
    BY <1>1, <1>4, <2>1, <2>2, <2>3, AdvancedFollows
<1>5. CASE row' = [row EXCEPT !.provider_status = "cancelled"]
  <2>1. /\ row' \in WideRows /\ row'.ref = row.ref /\ row'.ending = row.ending
        /\ row'.status = row.status /\ row'.stage = row.stage
    BY <1>1, <1>5 DEF WideRows, ProviderStatus
  <2> QED
    BY <1>1, <2>1 DEF Follows, StageKnown
<1> QED
  BY <1>2, <1>3, <1>4, <1>5 DEF TaskMovesRow

\* The days after a step in which the row becomes new.
LEMMA DaysStep ==
  ASSUME GraceInv, row \in WideRows,
         NEW new, StageKnown(new),
         new.status = "PAST_DUE" =>
           IF row.status = "PAST_DUE" THEN new.stage \in {row.stage} \cup 0..age
           ELSE new.stage = 0,
         row' = new,
         DaysFollow(new) \/ (new.status = row.status /\ UNCHANGED <<age, asOf>>)
  PROVE  Days' /\ RowGrace'
<1>1. GRACE \in Nat /\ GRACE > 0 /\ row.stage \in Nat /\ age \in 0..GRACE
  BY StagesAreDays DEF GraceInv, Days
<1>2. CASE UNCHANGED <<age, asOf>> /\ (row.status = "PAST_DUE" <=> new.status = "PAST_DUE")
  <2>1. Days'
    BY <1>2 DEF GraceInv, Days
  <2>2. RowGrace'
    BY <1>1, <1>2 DEF GraceInv, RowGrace, StageKnown
  <2> QED
    BY <2>1, <2>2
<1>3. CASE /\ age' = 0 /\ asOf' = [d \in Dunners |-> 0]
           /\ ~(row.status = "PAST_DUE" /\ new.status = "PAST_DUE")
  <2>1. Days'
    BY <1>1, <1>3 DEF Days
  <2>2. RowGrace'
    BY <1>1, <1>3 DEF RowGrace, StageKnown
  <2> QED
    BY <2>1, <2>2
<1> QED
  BY <1>2, <1>3 DEF DaysFollow

LEMMA GraceStep == IInv /\ GraceInv /\ [Next]_vars => GraceInv'
<1> SUFFICES ASSUME IInv, GraceInv, [Next]_vars PROVE GraceInv'
  OBVIOUS
<1>1. /\ row \in WideRows /\ draft \in WideRows /\ pc \in [Procs -> Stages]
      /\ lock \in Owners \cup {Free}
  BY DEF IInv, Typed
<1>2. GRACE \in Nat /\ GRACE > 0 /\ age \in 0..GRACE /\ row.stage \in Nat /\ draft.stage \in Nat
  BY <1>1, StagesAreDays DEF GraceInv, Days
<1>3. CASE Elsewhere
  <2>1. Days' /\ RowGrace'
    <3>1. CASE UNCHANGED <<age, asOf>>
      BY <1>3, <3>1 DEF Elsewhere, GraceInv, Days, RowGrace, StageKnown
    <3>2. ASSUME NEW d \in Dunners, UNCHANGED age, asOf' = [asOf EXCEPT ![d] = age]
          PROVE  Days' /\ RowGrace'
      BY <1>2, <1>3, <3>2 DEF Elsewhere, GraceInv, Days, RowGrace, StageKnown
    <3>3. CASE row.status = "PAST_DUE" /\ age < GRACE /\ age' = age + 1 /\ UNCHANGED asOf
      BY <1>2, <1>3, <3>3 DEF Elsewhere, GraceInv, Days, RowGrace, StageKnown
    <3> QED
      BY <1>3, <3>1, <3>2, <3>3 DEF Elsewhere, DaysGoOn
  <2>2. DraftGrace'
    BY <1>3 DEF Elsewhere, RequestsStay, GraceInv, DraftGrace, StageKnown
  <2> QED
    BY <1>3, <2>1, <2>2 DEF Elsewhere, RequestsStay, GraceInv
<1>4. CASE TaskMovesRow
  <2>1. Days' /\ RowGrace'
    <3>1. /\ row' \in WideRows /\ StageKnown(row')
          /\ row'.status = "PAST_DUE" =>
               IF row.status = "PAST_DUE" THEN row'.stage \in {row.stage} \cup 0..age
               ELSE row'.stage = 0
      BY <1>4, RowMoved DEF Follows, GraceInv, RowGrace
    <3>2. DaysFollow(row') \/ (row'.status = row.status /\ UNCHANGED <<age, asOf>>)
      BY <1>1, <1>4 DEF TaskMovesRow, WideRows
    <3> QED
      BY <1>1, <3>1, <3>2, DaysStep
  <2>2. draft' = NoRow /\ lock' = Free /\ \A o \in Owners : pc'[o] = "idle"
    BY <1>4, SubscriptionAssumption
       DEF TaskMovesRow, RequestsStay, GraceInv, IInv, Holding, Procs
  <2>3. DraftGrace'
    BY <2>2, NoRowGrace DEF DraftGrace, StageKnown
  <2> QED
    BY <2>1, <2>2, <2>3 DEF GraceInv, Applying
<1>5. ASSUME NEW o \in Owners, Request(o) PROVE GraceInv'
  <2>0. /\ \A q \in Owners : pc[q] # "idle" <=> lock = q
        /\ Free \notin Owners /\ Owners \subseteq Procs
    BY SubscriptionAssumption DEF IInv, Holding, Procs
  <2>1. ASSUME UNCHANGED <<row, age, asOf>>,
               lock' = o, DraftGrace',
               \A q \in Owners : pc'[q] \in Applying => pc[q] \in Applying \/ row.status # "PAST_DUE"
        PROVE  GraceInv'
    BY <2>0, <2>1 DEF GraceInv, Days, RowGrace, StageKnown
  <2>2. ASSUME NEW stage, Begin(o, stage), stage \in Applying => row.status # "PAST_DUE"
        PROVE  GraceInv'
    <3>1. UNCHANGED <<row, age, asOf>> /\ lock' = o /\ draft' = row
      BY <2>2 DEF Begin, clocks
    <3>2. \A q \in Owners : pc'[q] = IF q = o THEN stage ELSE pc[q]
      BY <1>1, <2>0, <2>2 DEF Begin, Goto
    <3>3. DraftGrace'
      BY <3>1 DEF DraftGrace, GraceInv, RowGrace, StageKnown
    <3> QED
      BY <2>1, <2>2, <3>1, <3>2, <3>3
  <2>3. CASE StartCheckout(o) \/ CancelSubscription(o)
    BY <2>2, <2>3 DEF StartCheckout, CancelSubscription, Applying
  <2>4. ASSUME NEW to, Goto(o, to), pc[o] # "idle", InRequest, DraftGrace',
               to \in Applying => pc[o] \in Applying
        PROVE  GraceInv'
    <3>1. UNCHANGED <<row, age, asOf>> /\ lock' = o
      BY <2>0, <2>4 DEF InRequest, clocks
    <3>2. \A q \in Owners : pc'[q] = IF q = o THEN to ELSE pc[q]
      BY <1>1, <2>0, <2>4 DEF Goto
    <3> QED
      BY <2>1, <2>4, <3>1, <3>2
  <2>5. ASSUME UNCHANGED <<row, draft>> PROVE DraftGrace'
    BY <2>5 DEF GraceInv, DraftGrace, StageKnown
  <2>6. CASE Reconcile(o) \/ UpgradeNow(o)
    <3>1. InRequest /\ pc[o] \in Applying /\ \E to : Goto(o, to)
      BY <2>6 DEF Reconcile, UpgradeNow, Applying
    <3>2. row.status # "PAST_DUE" /\ row' = row /\ age = 0
      BY <3>1 DEF GraceInv, RowGrace, InRequest
    <3>3. PICK f \in Fetchable : draft' = Applied(draft, f)
      BY <2>6, Reconciles
    <3>4. StageKnown(draft)'
      BY <1>1, <3>3, AppliedFollows DEF Follows, StageKnown, GraceInv, DraftGrace
    <3>5. draft'.status = "PAST_DUE" => draft'.stage = 0
      BY <1>1, <3>2, <3>3, AppliedFollows DEF GraceInv, DraftGrace
    <3>6. draft'.status = "EXPIRED" => row.status = "EXPIRED"
      BY <1>1, <1>2, <3>2, <3>3, AppliedFollows DEF Follows, GraceInv, DraftGrace
    <3>7. DraftGrace'
      BY <3>2, <3>4, <3>5, <3>6 DEF DraftGrace
    <3>8. pc[o] # "idle"
      BY <3>1 DEF Applying
    <3> QED
      BY <2>4, <3>1, <3>7, <3>8
  <2>7. CASE Answers(o) \/ ReplaceSubscription(o) \/ CancelOld(o) \/ CallFails(o)
    <3>1. InRequest /\ UNCHANGED <<row, draft>> /\ pc[o] # "idle"
      BY <2>7 DEF Answers, ReplaceSubscription, CancelOld, CallFails, InRequest
    <3>2. \E to \in {"ending", "creating", "cancelling_old"} : Goto(o, to)
      BY <2>7 DEF Answers, ReplaceSubscription, CancelOld, CallFails, AfterFailedCancel
    <3> QED
      BY <2>4, <2>5, <3>1, <3>2 DEF Applying
  <2>8. ASSUME NEW r \in Refs, CreateNew(o, r) PROVE GraceInv'
    <3>1. InRequest /\ pc[o] # "idle" /\ Goto(o, "ending") /\ draft' = NewRow(r)
      BY <2>8 DEF CreateNew
    <3>2. DraftGrace'
      BY <3>1 DEF DraftGrace, StageKnown, NewRow
    <3> QED
      BY <2>4, <3>1, <3>2 DEF Applying
  <2>9. CASE CancelAtPeriodEnd(o)
    <3>1. InRequest /\ pc[o] # "idle" /\ Goto(o, "ending") /\ row' = row
      BY <2>9 DEF CancelAtPeriodEnd, InRequest
    <3>2. draft' = draft \/ draft' = [draft EXCEPT !.ending = TRUE]
      BY <2>9 DEF CancelAtPeriodEnd
    <3>3. draft'.status = draft.status /\ draft'.stage = draft.stage
      BY <1>1, <3>2 DEF WideRows
    <3>4. DraftGrace'
      BY <3>1, <3>3 DEF DraftGrace, GraceInv, StageKnown
    <3> QED
      BY <2>4, <3>1, <3>4 DEF Applying
  <2>10. CASE CancelPastDue(o)
    <3>1. /\ InRequest /\ pc[o] # "idle" /\ row' = row
          /\ \E to \in {"cancelling_now", "ending"} : Goto(o, to)
      BY <2>10 DEF CancelPastDue, InRequest
    <3>2. draft'.status = "CANCELLED" /\ draft'.stage = NoStage
      BY <1>1, <2>10 DEF CancelPastDue, WideRows
    <3>3. DraftGrace'
      BY <3>2 DEF DraftGrace, StageKnown
    <3> QED
      BY <2>4, <3>1, <3>3 DEF Applying
  <2>11. CASE CancelNow(o)
    <3>1. InRequest /\ pc[o] # "idle" /\ Goto(o, "ending") /\ row' = row
      BY <2>11 DEF CancelNow, InRequest
    <3>2. draft' = draft \/ draft' = [draft EXCEPT !.provider_status = "cancelled"]
      BY <2>11 DEF CancelNow
    <3>3. draft'.status = draft.status /\ draft'.stage = draft.stage
      BY <1>1, <3>2 DEF WideRows
    <3>4. DraftGrace'
      BY <3>1, <3>3 DEF DraftGrace, GraceInv, StageKnown
    <3> QED
      BY <2>4, <3>1, <3>4 DEF Applying
  <2>12. CASE CommitRequest(o)
    <3>1. /\ row' = draft /\ draft' = NoRow /\ lock' = Free
          /\ \A q \in Owners : pc'[q] = "idle"
      BY <1>1, <2>0, <2>12 DEF CommitRequest, Goto
    <3>2. DaysFollow(draft)
      BY <2>12 DEF CommitRequest, ClocksFollow, DaysFollow
    <3>3. StageKnown(draft) /\ (draft.status = "PAST_DUE" =>
            IF row.status = "PAST_DUE" THEN draft.stage \in {row.stage} \cup 0..age
            ELSE draft.stage = 0)
      BY DEF GraceInv, DraftGrace
    <3>4. Days' /\ RowGrace'
      BY <1>1, <3>1, <3>2, <3>3, DaysStep
    <3>5. DraftGrace'
      BY <3>1, NoRowGrace DEF DraftGrace, StageKnown
    <3> QED
      BY <3>1, <3>4, <3>5 DEF GraceInv, Applying
  <2>13. CASE CrashRequest(o)
    <3>1. /\ UNCHANGED <<row, age, asOf>> /\ draft' = NoRow /\ lock' = Free
          /\ \A q \in Owners : pc'[q] = "idle"
      BY <1>1, <2>0, <2>13 DEF CrashRequest, Goto, clocks
    <3>2. Days' /\ RowGrace'
      BY <3>1 DEF GraceInv, Days, RowGrace, StageKnown
    <3>3. DraftGrace'
      BY <3>1, NoRowGrace DEF DraftGrace, StageKnown
    <3> QED
      BY <3>1, <3>2, <3>3 DEF GraceInv, Applying
  <2> QED
    BY <1>5, <2>3, <2>6, <2>7, <2>8, <2>9, <2>10, <2>11, <2>12, <2>13 DEF Request, RequestStep
<1> QED
  BY <1>3, <1>4, <1>5, Steps

\* A request moves the committed row in its commit only.
LEMMA OnlyCommits ==
  ASSUME NEW o \in Owners, Request(o)
  PROVE  row' = row \/ CommitRequest(o)
BY DEF Request, RequestStep, StartCheckout, CancelSubscription, Begin, Reconcile, Answers,
   UpgradeNow, ReplaceSubscription, CancelOld, CreateNew, CancelAtPeriodEnd, CancelPastDue,
   CancelNow, CallFails, CrashRequest, InRequest

LEMMA GraceActions == IInv /\ GraceInv /\ [Next]_vars => ExpiresAfterGrace /\ KeepsStage
<1> SUFFICES ASSUME IInv, GraceInv, [Next]_vars PROVE ExpiresAfterGrace /\ KeepsStage
  OBVIOUS
<1>1. row.stage \in Nat
  BY StagesAreDays DEF IInv, Typed
<1>2. CASE row' = row
  BY <1>1, <1>2 DEF ExpiresAfterGrace, KeepsStage
<1>3. CASE TaskMovesRow
  BY <1>3, RowMoved DEF Follows, ExpiresAfterGrace, KeepsStage
<1>4. ASSUME NEW o \in Owners, CommitRequest(o) PROVE ExpiresAfterGrace /\ KeepsStage
  <2>1. row' = draft
    BY <1>4 DEF CommitRequest
  <2> QED
    BY <1>1, <2>1 DEF GraceInv, DraftGrace, ExpiresAfterGrace, KeepsStage
<1> QED
  BY <1>2, <1>3, <1>4, Steps, OnlyCommits DEF Elsewhere

LEMMA GraceHolds == Spec => [](IInv /\ GraceInv)
  BY InitInv, StepInv, GraceInit, GraceStep, PTL DEF Spec

\* GraceEpisode for every instance: the stage of a row is one that this grace period
\* has come to.
THEOREM StageInEpisode == Spec => []GraceEpisode
<1>1. GraceInv => GraceEpisode
  BY DEF GraceInv, RowGrace, StageKnown, GraceEpisode
<1> QED
  BY <1>1, GraceHolds, PTL

\* ExpiredOnlyAfterGrace for every instance: whoever expires a row, its grace period
\* has lasted GRACE days.
THEOREM ExpiryIsDue == Spec => ExpiredOnlyAfterGrace
  BY GraceHolds, GraceActions, PTL DEF Spec, ExpiredOnlyAfterGrace

\* GraceNotRestarted for every instance: no failed payment takes a grace period back.
THEOREM GraceGoesOn == Spec => GraceNotRestarted
  BY GraceHolds, GraceActions, PTL DEF Spec, GraceNotRestarted

-----------------------------------------------------------------------------
(* One live subscription.  Only what its payer has been offered begins to     *)
(* charge, and a commit offers a subscription once the one before it is over:  *)
(* the request that creates it has seen that, and it stays so until it ends,    *)
(* however the request fails.                                                   *)

\* There is nothing of r that can charge, now or later.
Over(r) == r = NoRef \/ (r \in Refs /\ prov[r].status = "cancelled")

RefGiven(s) == /\ s.status = "NONE" => s.ref = NoRef
               /\ s.ref \in Refs => prov[s.ref].status # "absent"

OfferedKnown ==
  \A r \in Refs : /\ Live(r) => r \in offered
                  /\ r \in offered => /\ prov[r].status # "absent"
                                      /\ prov[r].status = "cancelled" \/ r = row.ref

RequestKnown(o) ==
  /\ pc[o] # "idle" => draft.ref = row.ref \/ (pc[o] = "ending" /\ Over(row.ref))
  /\ pc[o] = "creating" => Over(row.ref)
  /\ pc[o] = "routing" /\ got[o].status = "cancelled" => Over(draft.ref)

OfferInv ==
  /\ offered \subseteq Refs
  /\ RefGiven(row) /\ RefGiven(draft)
  /\ (lock = Free => draft = NoRow)
  /\ OfferedKnown
  /\ \A o \in Owners : RequestKnown(o)

LEMMA OfferInit == Init => OfferInv
  BY SubscriptionAssumption
     DEF Init, OfferInv, RefGiven, OfferedKnown, RequestKnown, Live, NoRow, Procs

LEMMA OfferStep == IInv /\ OfferInv /\ [Next]_vars => OfferInv'
<1> SUFFICES ASSUME IInv, OfferInv, [Next]_vars PROVE OfferInv'
  OBVIOUS
<1>1. /\ row \in WideRows /\ draft \in WideRows /\ pc \in [Procs -> Stages]
      /\ got \in [Syncers \cup Owners -> Fetchable]
      /\ prov \in [Refs -> WideSubs] /\ prov' \in [Refs -> WideSubs]
  <2>1. IInv'
    BY StepInv
  <2> QED
    BY <2>1 DEF IInv, Typed
<1>2. ASSUME NEW r, Over(r) PROVE Over(r)'
  BY <1>2, LaterStep DEF Over, Later
<1>3. ASSUME NEW s, RefGiven(s) PROVE RefGiven(s)'
  BY <1>3, LaterStep DEF RefGiven, Later
<1>4. ASSUME offered' = offered, row'.ref = row.ref PROVE offered' \subseteq Refs /\ OfferedKnown'
  <2>1. ASSUME NEW r \in Refs
        PROVE  /\ Live(r)' => r \in offered
               /\ r \in offered => /\ prov'[r].status # "absent"
                                   /\ prov'[r].status = "cancelled" \/ r = row.ref
    BY LaterStep DEF OfferInv, OfferedKnown, Live, Charging, Later
  <2> QED
    BY <1>4, <2>1 DEF OfferInv, OfferedKnown
<1>5. CASE Elsewhere
  <2>1. row' = row /\ draft' = draft /\ lock' = lock /\ offered' = offered
    BY <1>5 DEF Elsewhere, RequestsStay
  <2>2. RefGiven(row)' /\ RefGiven(draft)'
    BY <1>3, <2>1 DEF OfferInv, RefGiven
  <2>3. ASSUME NEW o \in Owners PROVE RequestKnown(o)'
    <3>1. pc'[o] = pc[o] /\ got'[o] = got[o]
      BY <1>5 DEF Elsewhere, RequestsStay
    <3>2. (Over(row.ref) => Over(row.ref)') /\ (Over(draft.ref) => Over(draft.ref)')
      BY <1>2, <2>1 DEF Over
    <3> QED
      BY <2>1, <3>1, <3>2 DEF OfferInv, RequestKnown
  <2> QED
    BY <1>4, <2>1, <2>2, <2>3 DEF OfferInv
<1>6. CASE TaskMovesRow
  <2>1. row'.ref = row.ref /\ (row'.status = "NONE" => row.status = "NONE")
    <3>1. CASE \E f \in Fetchable : row' = Applied(row, f)
      BY <1>1, <3>1, AppliedFollows DEF Follows
    <3>2. CASE row.status = "PAST_DUE" /\ \E days : row' = Advanced(row, days)
      BY <1>1, <3>2, AdvancedRow
    <3>3. CASE row' = row \/ row' = [row EXCEPT !.provider_status = "cancelled"]
      BY <1>1, <3>3 DEF WideRows
    <3> QED
      BY <1>6, <3>1, <3>2, <3>3 DEF TaskMovesRow
  <2>2. /\ prov' = prov /\ offered' = offered
        /\ draft' = draft /\ lock' = Free /\ draft = NoRow
    BY <1>6 DEF TaskMovesRow, RequestsStay, OfferInv
  <2>3. RefGiven(row)' /\ RefGiven(draft)'
    BY <2>1, <2>2 DEF OfferInv, RefGiven
  <2>4. \A o \in Owners : pc'[o] = "idle"
    BY <1>6, SubscriptionAssumption DEF TaskMovesRow, RequestsStay, IInv, Holding, Procs
  <2>5. \A o \in Owners : RequestKnown(o)'
    BY <2>4 DEF RequestKnown
  <2> QED
    BY <1>4, <2>1, <2>2, <2>3, <2>5 DEF OfferInv
<1>7. ASSUME NEW o \in Owners, Request(o) PROVE OfferInv'
  <2>0. /\ \A q \in Owners : pc[q] # "idle" <=> lock = q
        /\ Free \notin Owners /\ Owners \subseteq Procs
        /\ lock \in Owners \cup {Free}
    BY SubscriptionAssumption DEF IInv, Typed, Holding, Procs
  <2>1. ASSUME UNCHANGED <<row, offered>>, lock' = o, RefGiven(draft)', RequestKnown(o)',
               \A q \in Owners : q # o => pc'[q] = "idle"
        PROVE  OfferInv'
    <3>1. \A q \in Owners : RequestKnown(q)'
      BY <2>1 DEF RequestKnown
    <3>2. RefGiven(row)'
      BY <1>3, <2>1 DEF OfferInv, RefGiven
    <3> QED
      BY <1>4, <2>0, <2>1, <3>1, <3>2 DEF OfferInv
  <2>2. ASSUME NEW stage, Begin(o, stage), stage \notin {"routing", "ending"},
               stage = "creating" => row.status = "NONE"
        PROVE  OfferInv'
    <3>1. UNCHANGED <<row, offered, prov>> /\ lock' = o /\ draft' = row
      BY <2>2 DEF Begin
    <3>2. \A q \in Owners : pc'[q] = IF q = o THEN stage ELSE "idle"
      BY <1>1, <2>0, <2>2 DEF Begin, Goto
    <3>3. RefGiven(draft)'
      BY <3>1 DEF OfferInv, RefGiven
    <3>4. RequestKnown(o)'
      BY <2>2, <3>1, <3>2 DEF RequestKnown, OfferInv, RefGiven, Over
    <3> QED
      BY <2>1, <3>1, <3>2, <3>3, <3>4
  <2>3. CASE StartCheckout(o) \/ CancelSubscription(o)
    BY <2>2, <2>3 DEF StartCheckout, CancelSubscription
  <2>4. ASSUME NEW to, Goto(o, to), pc[o] # "idle", InRequest, RefGiven(draft)', RequestKnown(o)'
        PROVE  OfferInv'
    <3>1. UNCHANGED <<row, offered>> /\ lock' = o
      BY <2>0, <2>4 DEF InRequest
    <3>2. \A q \in Owners : q # o => pc'[q] = "idle"
      BY <1>1, <2>0, <2>4 DEF Goto
    <3> QED
      BY <2>1, <2>4, <3>1, <3>2
  <2>5. ASSUME NEW to \in Stages, Goto(o, to), pc[o] \notin {"idle", "ending"}, InRequest,
               draft'.ref = draft.ref, draft'.status = "NONE" => draft.status = "NONE",
               to = "creating" => Over(draft.ref)',
               to = "routing" /\ got'[o].status = "cancelled" => Over(draft.ref)'
        PROVE  OfferInv'
    <3>1. RefGiven(draft)'
      BY <1>3, <2>5 DEF OfferInv, RefGiven
    <3>2. pc'[o] = to /\ row' = row
      BY <1>1, <2>0, <2>5 DEF Goto, InRequest
    <3>3. draft.ref = row.ref /\ (Over(row.ref) => Over(row.ref)')
      BY <1>2, <2>5, <3>2 DEF OfferInv, RequestKnown, Over
    <3>4. RequestKnown(o)'
      BY <2>5, <3>2, <3>3 DEF RequestKnown, Over
    <3> QED
      BY <2>4, <2>5, <3>1, <3>4
  <2>6. CASE Reconcile(o) \/ UpgradeNow(o)
    <3>1. PICK f \in Fetchable : /\ draft' = Applied(draft, f)
                                 /\ f.status = prov[draft.ref].status
                                 /\ got' = [got EXCEPT ![o] = [NoSnapshot EXCEPT !.status = f.status]]
      BY <2>6, Reconciles
    <3>2. draft'.ref = draft.ref /\ (draft'.status = "NONE" => draft.status = "NONE")
      BY <1>1, <3>1, AppliedFollows DEF Follows
    <3>3. /\ prov' = prov /\ InRequest /\ draft.ref \in Refs
          /\ pc[o] \notin {"idle", "ending"}
          /\ \E to \in {"routing", "cancel_routing", "ending"} : Goto(o, to)
      BY <2>6 DEF Reconcile, UpgradeNow, IInv, RefKnown
    <3>4. got'[o].status = prov[draft.ref].status
      BY <1>1, <3>1 DEF NoSnapshot
    <3>5. got'[o].status = "cancelled" => Over(draft.ref)'
      BY <3>2, <3>3, <3>4 DEF Over
    <3> QED
      BY <2>5, <3>2, <3>3, <3>5 DEF Stages
  <2>7. CASE Answers(o) \/ CallFails(o)
    <3>1. InRequest /\ draft' = draft /\ Goto(o, "ending") /\ pc[o] \notin {"idle", "ending"}
      BY <2>7 DEF Answers, CallFails, AfterFailedCancel
    <3> QED
      BY <2>5, <3>1 DEF Stages
  <2>8. CASE ReplaceSubscription(o)
    <3>1. /\ InRequest /\ draft' = draft /\ prov' = prov /\ pc[o] = "routing"
          /\ \/ Goto(o, "creating") /\ got[o].status = "cancelled"
             \/ Goto(o, "cancelling_old")
      BY <2>8 DEF ReplaceSubscription, TERMINAL_PROVIDER_STATUSES
    <3>2. got[o].status = "cancelled" => Over(draft.ref)'
      BY <3>1 DEF OfferInv, RequestKnown, Over
    <3> QED
      BY <2>5, <3>1, <3>2 DEF Stages
  <2>9. CASE CancelOld(o)
    <3>1. InRequest /\ draft' = draft /\ pc[o] = "cancelling_old" /\ draft.ref \in Refs
      BY <2>9 DEF CancelOld, IInv, RefKnown
    <3>2. CASE MayCancel(draft.ref)
      <4>1. prov' = CancelledNow(draft.ref) /\ Goto(o, "creating")
        BY <2>9, <3>2 DEF CancelOld
      <4>2. prov'[draft.ref].status = "cancelled"
        BY <1>1, <3>1, <4>1 DEF CancelledNow, WideSubs
      <4> QED
        BY <2>5, <3>1, <4>1, <4>2 DEF Over, Stages
    <3>3. CASE ~MayCancel(draft.ref)
      <4>1. Goto(o, "ending")
        BY <2>9, <3>3 DEF CancelOld, AfterFailedCancel
      <4> QED
        BY <2>5, <3>1, <4>1 DEF Stages
    <3> QED
      BY <3>2, <3>3
  <2>10. ASSUME NEW r \in Refs, CreateNew(o, r) PROVE OfferInv'
    <3>1. /\ InRequest /\ pc[o] = "creating" /\ Goto(o, "ending") /\ row' = row
          /\ draft' = NewRow(r) /\ prov' = Created(r)
      BY <2>10 DEF CreateNew, InRequest
    <3>2. draft'.ref = r /\ draft'.status = "INCOMPLETE"
      BY <3>1 DEF NewRow
    <3>3. prov'[r].status = "created"
      BY <1>1, <3>1 DEF Created, WideSubs
    <3>4. RefGiven(draft)'
      BY <3>2, <3>3 DEF RefGiven
    <3>5. pc'[o] = "ending"
      BY <1>1, <2>0, <3>1 DEF Goto
    <3>6. Over(row.ref)'
      BY <1>2, <3>1 DEF OfferInv, RequestKnown, Over
    <3>7. RequestKnown(o)'
      BY <3>5, <3>6 DEF RequestKnown
    <3> QED
      BY <2>4, <3>1, <3>4, <3>7
  <2>11. CASE CancelAtPeriodEnd(o) \/ CancelPastDue(o) \/ CancelNow(o)
    <3>1. /\ InRequest /\ pc[o] \notin {"idle", "ending"}
          /\ \E to \in {"ending", "cancelling_now"} : Goto(o, to)
      BY <2>11 DEF CancelAtPeriodEnd, CancelPastDue, CancelNow
    <3>2. \/ draft' = draft
          \/ draft' = [draft EXCEPT !.ending = TRUE]
          \/ draft' = [draft EXCEPT !.status = "CANCELLED", !.stage = NoStage]
          \/ draft' = [draft EXCEPT !.provider_status = "cancelled"]
      BY <2>11 DEF CancelAtPeriodEnd, CancelPastDue, CancelNow
    <3>3. draft'.ref = draft.ref /\ (draft'.status = "NONE" => draft.status = "NONE")
      BY <1>1, <3>2 DEF WideRows
    <3> QED
      BY <2>5, <3>1, <3>3 DEF Stages
  <2>12. CASE CommitRequest(o) \/ CrashRequest(o)
    <3>1. draft' = NoRow /\ lock' = Free /\ prov' = prov
      BY <2>12 DEF CommitRequest, CrashRequest
    <3>2. \A q \in Owners : pc'[q] = "idle"
      BY <1>1, <2>0, <2>12 DEF CommitRequest, CrashRequest, Goto
    <3>3. RefGiven(draft)'
      BY <3>1, SubscriptionAssumption DEF RefGiven, NoRow
    <3>4. \A q \in Owners : RequestKnown(q)'
      BY <3>2 DEF RequestKnown
    <3>5. CASE CrashRequest(o)
      <4>1. row' = row /\ offered' = offered
        BY <3>5 DEF CrashRequest
      <4>2. RefGiven(row)'
        BY <1>3, <4>1 DEF OfferInv, RefGiven
      <4> QED
        BY <1>4, <3>1, <3>3, <3>4, <4>1, <4>2 DEF OfferInv
    <3>6. CASE CommitRequest(o)
      <4>1. /\ row' = draft /\ pc[o] = "ending"
            /\ offered' = IF draft.status = "INCOMPLETE" THEN offered \cup {draft.ref} ELSE offered
        BY <3>6 DEF CommitRequest
      <4>2. draft.status # "NONE" => draft.ref \in Refs
        BY DEF IInv, RefKnown
      <4>3. RefGiven(row)'
        BY <3>1, <4>1 DEF OfferInv, RefGiven
      <4>4. offered' \subseteq Refs
        BY <4>1, <4>2 DEF OfferInv
      <4>5. ASSUME NEW r \in Refs
            PROVE  /\ Live(r)' => r \in offered'
                   /\ r \in offered' => /\ prov'[r].status # "absent"
                                        /\ prov'[r].status = "cancelled" \/ r = row'.ref
        <5>1. Live(r)' => r \in offered'
          BY <3>1, <4>1 DEF OfferInv, OfferedKnown, Live
        <5>2. CASE r = draft.ref
          BY <3>1, <4>1, <5>1, <5>2 DEF OfferInv, RefGiven
        <5>3. ASSUME r # draft.ref, r \in offered'
              PROVE  prov[r].status = "cancelled"
          <6>1. r \in offered /\ (prov[r].status = "cancelled" \/ r = row.ref)
            BY <4>1, <5>3 DEF OfferInv, OfferedKnown
          <6>2. draft.ref = row.ref \/ Over(row.ref)
            BY <4>1 DEF OfferInv, RequestKnown
          <6> QED
            BY <5>3, <6>1, <6>2, SubscriptionAssumption DEF Over
        <5> QED
          BY <3>1, <5>1, <5>2, <5>3
      <4> QED
        BY <3>1, <3>3, <3>4, <4>3, <4>4, <4>5 DEF OfferInv, OfferedKnown
    <3> QED
      BY <2>12, <3>5, <3>6
  <2> QED
    BY <1>7, <2>3, <2>6, <2>7, <2>8, <2>9, <2>10, <2>11, <2>12 DEF Request, RequestStep
<1> QED
  BY <1>5, <1>6, <1>7, Steps

\* OneLive for every instance: of all that was ever created for a merchant, by
\* whichever of its requests, no subscription but the row's can be charged.
THEOREM OneSubscriptionLives == Spec => []OneLive
<1>1. IInv /\ OfferInv => OneLive
  <2> SUFFICES ASSUME IInv, OfferInv, NEW r \in DOMAIN prov, Live(r) PROVE r = row.ref
    BY DEF OneLive
  <2>1. r \in Refs
    BY DEF IInv, Typed
  <2> QED
    BY <2>1 DEF OfferInv, OfferedKnown, Live
<1> QED
  BY <1>1, InitInv, StepInv, OfferInit, OfferStep, PTL DEF Spec

-----------------------------------------------------------------------------
(* The order of fetches.  p is among s; p is ahead of q in s; nobody is twice  *)
(* in s.                                                                        *)

Among(s, p)    == \E i \in DOMAIN s : s[i] = p
Ahead(s, p, q) == \E i, j \in DOMAIN s : i < j /\ s[i] = p /\ s[j] = q
Once(s)        == \A i, j \in DOMAIN s : s[i] = s[j] => i = j

\* Whoever is still in t was in s, in the same order.
Thins(s, t) == /\ \A p : Among(t, p) => Among(s, p)
               /\ \A p, q : Ahead(t, p, q) => Ahead(s, p, q)
               /\ Once(t)

LEMMA AppendOrder ==
  ASSUME NEW S, NEW s \in Seq(S), NEW e \in S, Once(s), ~Among(s, e)
  PROVE  LET t == Append(s, e)
         IN /\ t \in Seq(S) /\ Once(t)
            /\ \A p : Among(t, p) <=> Among(s, p) \/ p = e
            /\ \A p, q : Ahead(t, p, q) => Ahead(s, p, q) \/ (q = e /\ p # e)
<1> DEFINE t == Append(s, e)
<1>1. /\ t \in Seq(S) /\ Len(t) = Len(s) + 1 /\ t[Len(s) + 1] = e
      /\ \A i \in 1..Len(s) : t[i] = s[i]
  BY AppendProperties
<1>2. /\ Len(s) \in Nat /\ DOMAIN s = 1..Len(s) /\ DOMAIN t = 1..Len(s) + 1
  BY <1>1
<1> HIDE DEF t
<1>3. \A i \in DOMAIN t : (i \in DOMAIN s /\ t[i] = s[i]) \/ (i = Len(s) + 1 /\ t[i] = e)
  BY <1>1, <1>2
<1>4. Once(t)
  BY <1>2, <1>3 DEF Once, Among
<1>5. ASSUME NEW p PROVE Among(t, p) <=> Among(s, p) \/ p = e
  BY <1>1, <1>2, <1>3 DEF Among
<1>6. ASSUME NEW p, NEW q, Ahead(t, p, q) PROVE Ahead(s, p, q) \/ (q = e /\ p # e)
  BY <1>2, <1>3, <1>6 DEF Ahead, Among
<1> QED
  BY <1>1, <1>4, <1>5, <1>6 DEF t

\* The part of s after place k.
LEMMA SuffixOrder ==
  ASSUME NEW S, NEW s \in Seq(S), Once(s), NEW k \in DOMAIN s
  PROVE  LET t == SubSeq(s, k + 1, Len(s))
         IN /\ t \in Seq(S) /\ Thins(s, t)
            /\ \A q : Among(t, q) => Ahead(s, s[k], q) /\ q # s[k]
<1> DEFINE t == SubSeq(s, k + 1, Len(s))
<1>1. Len(s) \in Nat /\ DOMAIN s = 1..Len(s) /\ k \in 1..Len(s)
  OBVIOUS
<1>2. \A i \in k + 1..Len(s) : s[i] \in S
  BY <1>1
<1>3. /\ t \in Seq(S)
      /\ Len(t) = IF k + 1 <= Len(s) THEN Len(s) - (k + 1) + 1 ELSE 0
      /\ \A i \in 1..Len(s) - (k + 1) + 1 : t[i] = s[(k + 1) + i - 1]
  BY <1>1, <1>2, SubSeqProperties
<1> HIDE DEF t
<1>4. DOMAIN t = 1..Len(s) - k
  BY <1>1, <1>3
<1>5. \A i \in DOMAIN t : k + i \in DOMAIN s /\ t[i] = s[k + i] /\ i \in Nat /\ i > 0
  <2> TAKE i \in DOMAIN t
  <2>1. i \in 1..Len(s) - (k + 1) + 1 /\ (k + 1) + i - 1 = k + i /\ k + i \in 1..Len(s)
    BY <1>1, <1>4
  <2>2. t[i] = s[(k + 1) + i - 1]
    BY <1>3, <2>1
  <2> QED
    BY <1>1, <2>1, <2>2
<1>6. ASSUME NEW p, Among(t, p) PROVE Ahead(s, s[k], p) /\ p # s[k] /\ Among(s, p)
  <2>1. PICK i \in DOMAIN t : t[i] = p
    BY <1>6 DEF Among
  <2>2. k + i \in DOMAIN s /\ s[k + i] = p /\ k < k + i /\ k \in DOMAIN s
    BY <1>1, <1>5, <2>1
  <2> DEFINE j == k + i
  <2>3. j \in DOMAIN s /\ s[j] = p /\ k < j /\ k # j
    BY <1>1, <2>2
  <2> HIDE DEF j
  <2> QED
    BY <2>2, <2>3 DEF Ahead, Among, Once
<1>7. ASSUME NEW p, NEW q, Ahead(t, p, q) PROVE Ahead(s, p, q)
  <2>1. PICK i \in DOMAIN t, j \in DOMAIN t : i < j /\ t[i] = p /\ t[j] = q
    BY <1>7 DEF Ahead
  <2> DEFINE a == k + i
             b == k + j
  <2>2. a \in DOMAIN s /\ b \in DOMAIN s /\ s[a] = p /\ s[b] = q /\ a < b
    BY <1>1, <1>5, <2>1
  <2> HIDE DEF a, b
  <2> QED
    BY <2>2 DEF Ahead
<1>8. Once(t)
  <2> SUFFICES ASSUME NEW i \in DOMAIN t, NEW j \in DOMAIN t, t[i] = t[j] PROVE i = j
    BY DEF Once
  <2> DEFINE a == k + i
             b == k + j
  <2>1. a \in DOMAIN s /\ b \in DOMAIN s /\ s[a] = s[b]
    BY <1>5
  <2>2. a = b
    <3> HIDE DEF a, b
    <3> QED
      BY <2>1 DEF Once
  <2> QED
    BY <1>1, <1>5, <2>2
<1> QED
  BY <1>3, <1>6, <1>7, <1>8 DEF Thins, t

\* s without place k.
LEMMA RemovedOrder ==
  ASSUME NEW S, NEW s \in Seq(S), Once(s), NEW k \in DOMAIN s
  PROVE  LET t == SubSeq(s, 1, k - 1) \o SubSeq(s, k + 1, Len(s))
         IN /\ t \in Seq(S) /\ Thins(s, t)
            /\ \A q : Among(t, q) <=> Among(s, q) /\ q # s[k]
<1> DEFINE u == SubSeq(s, 1, k - 1)
           v == SubSeq(s, k + 1, Len(s))
           t == u \o v
<1>1. Len(s) \in Nat /\ DOMAIN s = 1..Len(s) /\ k \in 1..Len(s)
  OBVIOUS
<1>2. /\ u \in Seq(S) /\ Len(u) = k - 1
      /\ \A i \in 1..k - 1 : u[i] = s[i]
  <2>1. \A i \in 1..k - 1 : s[i] \in S
    BY <1>1
  <2>2. /\ u \in Seq(S) /\ Len(u) = IF 1 <= k - 1 THEN k - 1 - 1 + 1 ELSE 0
        /\ \A i \in 1..k - 1 - 1 + 1 : u[i] = s[1 + i - 1]
    BY <1>1, <2>1, SubSeqProperties
  <2> HIDE DEF u
  <2> QED
    BY <1>1, <2>2
<1>3. /\ v \in Seq(S) /\ Len(v) = Len(s) - k
      /\ \A i \in 1..Len(s) - k : v[i] = s[k + i]
  <2>1. \A i \in k + 1..Len(s) : s[i] \in S
    BY <1>1
  <2>2. /\ v \in Seq(S)
        /\ Len(v) = IF k + 1 <= Len(s) THEN Len(s) - (k + 1) + 1 ELSE 0
        /\ \A i \in 1..Len(s) - (k + 1) + 1 : v[i] = s[(k + 1) + i - 1]
    BY <1>1, <2>1, SubSeqProperties
  <2> HIDE DEF v
  <2>3. Len(v) = Len(s) - k
    BY <1>1, <2>2
  <2>4. ASSUME NEW i \in 1..Len(s) - k PROVE v[i] = s[k + i]
    <3>1. i \in 1..Len(s) - (k + 1) + 1 /\ (k + 1) + i - 1 = k + i
      BY <1>1
    <3>2. v[i] = s[(k + 1) + i - 1]
      BY <2>2, <3>1
    <3> QED
      BY <3>1, <3>2
  <2> QED
    BY <2>2, <2>3, <2>4
<1> HIDE DEF u, v
<1>4. /\ t \in Seq(S) /\ Len(t) = Len(s) - 1
      /\ \A i \in 1..Len(s) - 1 : t[i] = IF i < k THEN s[i] ELSE s[i + 1]
  <2>1. /\ t \in Seq(S) /\ Len(t) = Len(u) + Len(v)
        /\ \A i \in 1..Len(u) + Len(v) : t[i] = IF i <= Len(u) THEN u[i] ELSE v[i - Len(u)]
    BY <1>2, <1>3, ConcatProperties
  <2> HIDE DEF t
  <2>2. ASSUME NEW i \in 1..Len(s) - 1 PROVE t[i] = IF i < k THEN s[i] ELSE s[i + 1]
    <3>1. i \in 1..Len(u) + Len(v)
      BY <1>1, <1>2, <1>3
    <3>2. CASE i < k
      BY <1>1, <1>2, <2>1, <3>1, <3>2
    <3>3. CASE ~(i < k)
      <4>1. t[i] = v[i - (k - 1)]
        BY <1>1, <1>2, <2>1, <3>1, <3>3
      <4>2. i - (k - 1) \in 1..Len(s) - k /\ k + (i - (k - 1)) = i + 1
        BY <1>1, <3>3
      <4>3. v[i - (k - 1)] = s[k + (i - (k - 1))]
        BY <1>3, <4>2
      <4> QED
        BY <3>3, <4>1, <4>2, <4>3
    <3> QED
      BY <3>2, <3>3
  <2> QED
    BY <1>1, <1>2, <1>3, <2>1, <2>2
<1> HIDE DEF t
<1> DEFINE at(i) == IF i < k THEN i ELSE i + 1
<1>5. DOMAIN t = 1..Len(s) - 1
  BY <1>1, <1>4
<1>6. \A i \in DOMAIN t : at(i) \in DOMAIN s /\ at(i) # k /\ t[i] = s[at(i)]
  BY <1>1, <1>4, <1>5
<1>7. \A i, j \in DOMAIN t : /\ i < j => at(i) < at(j)
                             /\ at(i) = at(j) => i = j
  BY <1>1, <1>5
<1>8. \A j \in DOMAIN s : j # k => \E i \in DOMAIN t : at(i) = j
  <2> TAKE j \in DOMAIN s
  <2>1. CASE j < k
    <3>1. j \in DOMAIN t /\ at(j) = j
      BY <1>1, <1>5, <2>1
    <3> QED
      BY <3>1
  <2>2. CASE j > k
    <3>1. j - 1 \in DOMAIN t /\ at(j - 1) = j
      BY <1>1, <1>5, <2>2
    <3> QED
      BY <3>1
  <2> QED
    BY <1>1, <2>1, <2>2
<1> HIDE DEF at
<1>9. ASSUME NEW p, NEW q, Ahead(t, p, q) PROVE Ahead(s, p, q)
  BY <1>6, <1>7, <1>9 DEF Ahead
<1>10. Once(t)
  BY <1>6, <1>7 DEF Once
<1>11. ASSUME NEW q PROVE Among(t, q) <=> Among(s, q) /\ q # s[k]
  BY <1>6, <1>8 DEF Among, Once
<1> QED
  BY <1>4, <1>9, <1>10, <1>11 DEF Thins, t, u, v

FetchesListed == fetches \in Seq(Syncers \cup Owners) /\ Once(fetches)

LEMMA PlaceOf ==
  ASSUME NEW p, Running(p)
  PROVE  Place(p) \in DOMAIN fetches /\ fetches[Place(p)] = p
<1>1. PICK i \in DOMAIN fetches : fetches[i] = p
  BY DEF Running
<1> QED
  BY <1>1 DEF Place

LEMMA AfterOrder ==
  ASSUME FetchesListed, NEW p, Running(p)
  PROVE  /\ After(p) \in Seq(Syncers \cup Owners) /\ Thins(fetches, After(p))
         /\ \A q : Among(After(p), q) => Ahead(fetches, p, q) /\ q # p
BY PlaceOf, SuffixOrder DEF FetchesListed, After

LEMMA WithoutOrder ==
  ASSUME FetchesListed, NEW p
  PROVE  /\ Without(p) \in Seq(Syncers \cup Owners) /\ Thins(fetches, Without(p))
         /\ \A q : Among(Without(p), q) <=> Among(fetches, q) /\ q # p
<1>1. CASE Running(p)
  BY <1>1, PlaceOf, RemovedOrder DEF FetchesListed, Without, After
<1>2. CASE ~Running(p)
  BY <1>2 DEF FetchesListed, Without, Thins, Running, Among
<1> QED
  BY <1>1, <1>2

\* Who has a place among the fetches is at work, and where answers come in order, a
\* sync is answered after those ahead of it.
OrderInv ==
  /\ FetchesListed
  /\ \A p \in Syncers : Among(fetches, p) => pc[p] \in {"fetching", "fetched"}
  /\ \A o \in Owners : Among(fetches, o) => pc[o] # "idle"
  /\ \A p, q \in Syncers : Ahead(fetches, p, q) /\ pc[q] = "fetched" => pc[p] = "fetched"

\* The syncs are where they were, and so is the order of fetches.
SyncsStay == /\ fetches' = fetches
             /\ \A p \in Syncers : pc'[p] = pc[p] /\ got'[p] = got[p]

\* What a row claims it had claimed before.
Claims(s, new) ==
  /\ new.ref = s.ref
  /\ Entitling(new) => Entitling(s) /\ new.period = s.period
  /\ new.status = "PAST_DUE" => s.status = "PAST_DUE"

\* A request's step does to the fetches one of these.
RequestsFetch(o) ==
  \/ fetches' = fetches /\ (pc'[o] # "idle" \/ ~Running(o))
  \/ fetches' = Append(Without(o), o) /\ pc'[o] # "idle"
  \/ fetches' = Without(o)
  \/ Running(o) /\ fetches' = After(o)

LEMMA AheadAmong == \A s, p, q : Ahead(s, p, q) => Among(s, p) /\ Among(s, q)
  BY DEF Ahead, Among

LEMMA OrderSteps ==
  ASSUME IInv, [Next]_vars
  PROVE  \/ \E p \in Syncers : Sync(p)
         \/ SyncsStay /\ RequestsStay /\ Claims(row, row')
         \/ \E o \in Owners : Request(o)
<1>0. row \in WideRows
  BY DEF IInv, Typed
<1> USE SubscriptionAssumption DEF IInv, Typed, Procs, Goto, SyncsStay, RequestsStay
<1>1. ASSUME NEW d \in Dunners, Dunning(d) PROVE SyncsStay /\ RequestsStay
  BY <1>1 DEF Dunning, DunningStart, AdvanceDunning, OwedCancel, ProviderCancels,
      ProviderRefuses, DunningFails, RecordCancel, DunningEnds
<1>2. ASSUME NEW d \in Dunners, Dunning(d) PROVE Claims(row, row')
  <2>1. \/ row' = row
        \/ \E days : row' = Advanced(row, days) /\ row.status = "PAST_DUE"
        \/ row' = [row EXCEPT !.provider_status = "cancelled"]
    BY <1>2 DEF Dunning, DunningStart, AdvanceDunning, OwedCancel, ProviderCancels,
        ProviderRefuses, DunningFails, RecordCancel, DunningEnds
  <2>2. CASE \E days : row' = Advanced(row, days) /\ row.status = "PAST_DUE"
    BY <1>0, <2>2, AdvancedRow DEF Claims, Entitling
  <2>3. CASE row' = row \/ row' = [row EXCEPT !.provider_status = "cancelled"]
    BY <1>0, <2>3 DEF Claims, Entitling, WideRows
  <2> QED
    BY <2>1, <2>2, <2>3
<1>3. CASE \/ RunMaintenance \/ ReceiveWebhook \/ (\E t \in tasks : LoseTask(t))
           \/ DayPasses \/ PeriodEnds \/ WindowEnds \/ UNCHANGED vars
  BY <1>3 DEF RunMaintenance, ReceiveWebhook, LoseTask, DayPasses, PeriodEnds, WindowEnds,
      vars, clocks, locals, Claims
<1>4. ASSUME NEW r \in Refs, ProviderMoves(r)
      PROVE  SyncsStay /\ RequestsStay /\ Claims(row, row')
  <2>1. UNCHANGED <<row, clocks, offered, tasks, fetches, lock, draft, locals, faults>>
    BY <1>4, Zenon DEF ProviderMoves
  <2> QED
    BY <2>1 DEF clocks, locals, Claims
<1> QED
  BY <1>1, <1>2, <1>3, <1>4 DEF Next

LEMMA RequestFetches ==
  ASSUME IInv, NEW o \in Owners, Request(o)
  PROVE  /\ RequestsFetch(o)
         /\ \A p \in Syncers : pc'[p] = pc[p] /\ got'[p] = got[p]
         /\ \A q \in Owners \ {o} : pc[q] = "idle" /\ pc'[q] = "idle"
<1>0. /\ pc \in [Procs -> Stages] /\ got \in [Syncers \cup Owners -> Fetchable]
      /\ Owners \subseteq Procs /\ Syncers \subseteq Procs /\ Syncers \cap Owners = {}
      /\ Free \notin Owners /\ Holding /\ lock \in Owners \cup {Free}
  BY SubscriptionAssumption DEF IInv, Typed, Procs
<1>1. \A q \in Owners \ {o} : pc[q] = "idle"
  <2>1. lock = o \/ lock = Free
    BY <1>0 DEF Holding, Request, RequestStep, StartCheckout, CancelSubscription, Begin, Reconcile,
       Answers, UpgradeNow, ReplaceSubscription, CancelOld, CreateNew, CancelAtPeriodEnd,
       CancelPastDue, CancelNow, CommitRequest, CallFails, CrashRequest
  <2> QED
    BY <1>0, <2>1 DEF Holding
<1>2. \E to : Goto(o, to)
  BY Zenon DEF Request, RequestStep, StartCheckout, CancelSubscription, Begin, Reconcile,
     Answers, UpgradeNow, ReplaceSubscription, CancelOld, CreateNew, CancelAtPeriodEnd,
     CancelPastDue, CancelNow, CommitRequest, CallFails, CrashRequest
<1>3. /\ \A p \in Syncers : pc'[p] = pc[p]
      /\ \A q \in Owners \ {o} : pc'[q] = pc[q]
  BY <1>0, <1>2 DEF Goto
<1>a. ASSUME NEW to, Goto(o, to) PROVE pc'[o] = to
  BY <1>0, <1>a DEF Goto
<1>4. got' = got \/ \E g : got' = [got EXCEPT ![o] = g]
  BY Zenon DEF Request, RequestStep, StartCheckout, CancelSubscription, Begin, Reconcile,
     ReconcileDraft, Answers, UpgradeNow, ReplaceSubscription, CancelOld, CreateNew,
     CancelAtPeriodEnd, CancelPastDue, CancelNow, CommitRequest, CallFails, CrashRequest
<1>5. \A p \in Syncers : got'[p] = got[p]
  BY <1>0, <1>4
<1>6. ASSUME Reconcile(o) \/ UpgradeNow(o) PROVE RequestsFetch(o)
  <2>1. fetches' = Append(Without(o), o)
    BY <1>6 DEF Reconcile, UpgradeNow, ReconcileDraft
  <2>2. \E to \in {"routing", "cancel_routing", "ending"} : Goto(o, to)
    BY <1>6 DEF Reconcile, UpgradeNow
  <2> QED
    BY <1>a, <2>1, <2>2 DEF RequestsFetch
<1>7. ASSUME CommitRequest(o) PROVE RequestsFetch(o)
  <2>1. CASE Running(o)
    BY <1>7, <2>1 DEF CommitRequest, RequestsFetch
  <2>2. CASE ~Running(o)
    BY <1>7, <2>2 DEF CommitRequest, RequestsFetch
  <2> QED
    BY <2>1, <2>2
<1>8. ASSUME CrashRequest(o) PROVE RequestsFetch(o)
  BY <1>8 DEF CrashRequest, RequestsFetch
<1>9. ASSUME StartCheckout(o) \/ CancelSubscription(o) PROVE RequestsFetch(o)
  <2>1. /\ fetches' = fetches
        /\ \E to \in {"creating", "reconciling", "cancelling_past_due", "cancel_reconciling"} :
             Goto(o, to)
    BY <1>9 DEF StartCheckout, CancelSubscription, Begin
  <2> QED
    BY <1>a, <2>1 DEF RequestsFetch
<1>10. ASSUME \/ Answers(o) \/ ReplaceSubscription(o) \/ CancelOld(o)
              \/ (\E r \in Refs : CreateNew(o, r)) \/ CancelAtPeriodEnd(o)
              \/ CancelPastDue(o) \/ CancelNow(o) \/ CallFails(o)
       PROVE  RequestsFetch(o)
  <2>1. /\ fetches' = fetches
        /\ \E to \in {"ending", "creating", "cancelling_old", "cancelling_now"} : Goto(o, to)
    BY <1>10 DEF Answers, ReplaceSubscription, CancelOld, CreateNew, CancelAtPeriodEnd,
       CancelPastDue, CancelNow, CallFails, AfterFailedCancel
  <2> QED
    BY <1>a, <2>1 DEF RequestsFetch
<1> QED
  BY <1>1, <1>3, <1>5, <1>6, <1>7, <1>8, <1>9, <1>10 DEF Request, RequestStep

LEMMA OrderStep == IInv /\ OrderInv /\ [Next]_vars /\ [AnswersInOrder]_vars => OrderInv'
<1> SUFFICES ASSUME IInv, OrderInv, [Next]_vars, [AnswersInOrder]_vars PROVE OrderInv'
  OBVIOUS
<1>1. pc \in [Procs -> Stages] /\ FetchesListed /\ Syncers \subseteq Procs /\ Owners \subseteq Procs
      /\ Syncers \cap Owners = {}
  BY SubscriptionAssumption DEF IInv, Typed, OrderInv, Procs
<1>2. ASSUME Thins(fetches, fetches'), fetches' \in Seq(Syncers \cup Owners),
             \A p \in Syncers : Among(fetches', p) => pc'[p] = pc[p],
             \A o \in Owners : Among(fetches', o) => pc'[o] = pc[o]
      PROVE  OrderInv'
  <2>1. FetchesListed'
    BY <1>2 DEF FetchesListed, Thins
  <2>2. \A p, q \in Syncers : Ahead(fetches', p, q) /\ pc'[q] = "fetched" => pc'[p] = "fetched"
    BY <1>2, AheadAmong DEF OrderInv, Thins
  <2> QED
    BY <1>2, <2>1, <2>2 DEF OrderInv, Thins
<1>3. Thins(fetches, fetches)
  BY <1>1 DEF Thins, FetchesListed
<1>4. ASSUME NEW p \in Syncers, SyncRead(p) PROVE OrderInv'
  <2>1. pc[p] = "idle" /\ fetches' = Append(fetches, p)
    BY <1>4 DEF SyncRead
  <2>2. ~Among(fetches, p)
    BY <2>1 DEF OrderInv
  <2>3. /\ fetches' \in Seq(Syncers \cup Owners) /\ Once(fetches')
        /\ \A q : Among(fetches', q) <=> Among(fetches, q) \/ q = p
        /\ \A a, q : Ahead(fetches', a, q) => Ahead(fetches, a, q) \/ (q = p /\ a # p)
    BY <1>1, <2>1, <2>2, AppendOrder DEF FetchesListed
  <2>4. \A q \in Procs : pc'[q] = IF q = p THEN "fetching" ELSE pc[q]
    BY <1>1, <1>4 DEF SyncRead, Goto
  <2> QED
    BY <1>1, <2>1, <2>2, <2>3, <2>4, AheadAmong DEF OrderInv, FetchesListed
<1>5. ASSUME NEW p \in Syncers, SyncFetch(p) PROVE OrderInv'
  <2>1. /\ fetches' = fetches /\ pc[p] = "fetching"
        /\ \A q \in Procs : pc'[q] = IF q = p THEN "fetched" ELSE pc[q]
    BY <1>1, <1>5 DEF SyncFetch, Goto
  <2>2. AnswersInOrder
    BY <1>1, <2>1 DEF vars, locals
  <2>3. ASSUME NEW a \in Syncers, Ahead(fetches, a, p) PROVE pc[a] = "fetched"
    <3>1. PICK i \in DOMAIN fetches, j \in DOMAIN fetches :
                 i < j /\ fetches[i] = a /\ fetches[j] = p
      BY <2>3 DEF Ahead
    <3>2. pc[a] # "fetching"
      BY <1>1, <2>1, <2>2, <3>1 DEF AnswersInOrder
    <3> QED
      BY <2>3, <3>2, AheadAmong DEF OrderInv
  <2>4. \A a, q \in Syncers : Ahead(fetches, a, q) /\ pc'[q] = "fetched" => pc'[a] = "fetched"
    BY <1>1, <2>1, <2>3 DEF OrderInv
  <2> QED
    BY <1>1, <2>1, <2>4 DEF OrderInv, FetchesListed
<1>6. ASSUME NEW p \in Syncers, SyncFails(p) \/ SyncApply(p) PROVE OrderInv'
  <2>1. fetches' = Without(p) \/ (Running(p) /\ fetches' = After(p))
    BY <1>6 DEF SyncFails, SyncApply
  <2>2. /\ Thins(fetches, fetches') /\ fetches' \in Seq(Syncers \cup Owners)
        /\ \A q : Among(fetches', q) => q # p
    BY <1>1, <2>1, WithoutOrder, AfterOrder
  <2>3. \A q \in Procs : q # p => pc'[q] = pc[q]
    BY <1>1, <1>6 DEF SyncFails, SyncApply, SyncEnds, Goto
  <2> QED
    BY <1>1, <1>2, <2>2, <2>3
<1>7. CASE SyncsStay /\ RequestsStay
  BY <1>1, <1>2, <1>3, <1>7 DEF SyncsStay, RequestsStay, FetchesListed
<1>8. ASSUME NEW o \in Owners, Request(o) PROVE OrderInv'
  <2>1. /\ RequestsFetch(o)
        /\ \A p \in Syncers : pc'[p] = pc[p]
        /\ \A q \in Owners \ {o} : pc[q] = "idle" /\ pc'[q] = "idle"
    BY <1>8, RequestFetches
  <2>2. ASSUME FetchesListed', ~Among(fetches', o) \/ pc'[o] # "idle",
               \A p : Among(fetches', p) => Among(fetches, p) \/ p = o,
               \A p, q \in Syncers : Ahead(fetches', p, q) => Ahead(fetches, p, q)
        PROVE  OrderInv'
    BY <1>1, <2>1, <2>2 DEF OrderInv
  <2>3. CASE fetches' = fetches /\ (pc'[o] # "idle" \/ ~Running(o))
    BY <1>1, <2>2, <2>3 DEF FetchesListed, Running, Among
  <2>4. CASE fetches' = Append(Without(o), o) /\ pc'[o] # "idle"
    <3>1. /\ Without(o) \in Seq(Syncers \cup Owners) /\ Thins(fetches, Without(o))
          /\ ~Among(Without(o), o)
      BY <1>1, WithoutOrder
    <3>2. /\ fetches' \in Seq(Syncers \cup Owners) /\ Once(fetches')
          /\ \A q : Among(fetches', q) <=> Among(Without(o), q) \/ q = o
          /\ \A a, q : Ahead(fetches', a, q) => Ahead(Without(o), a, q) \/ (q = o /\ a # o)
      BY <2>4, <3>1, AppendOrder DEF Thins
    <3> QED
      BY <1>1, <2>2, <2>4, <3>1, <3>2 DEF FetchesListed, Thins
  <2>5. CASE fetches' = Without(o) \/ (Running(o) /\ fetches' = After(o))
    <3>1. /\ Thins(fetches, fetches') /\ fetches' \in Seq(Syncers \cup Owners)
          /\ ~Among(fetches', o)
      BY <1>1, <2>5, WithoutOrder, AfterOrder
    <3> QED
      BY <2>2, <3>1 DEF FetchesListed, Thins
  <2> QED
    BY <2>1, <2>3, <2>4, <2>5 DEF RequestsFetch
<1> QED
  BY <1>4, <1>5, <1>6, <1>7, <1>8, OrderSteps DEF Sync

-----------------------------------------------------------------------------
(* A PAST_DUE row owes a cycle.  A failed payment is taken from a snapshot that    *)
(* may be old, and the row may have been paid in a later cycle since; what forbids *)
(* it is that this payment was seen by a fetch that began later, so that its       *)
(* commit makes the snapshot stale.  For a snapshot that still waits, therefore,   *)
(* all that may come before it (the row, the snapshots ahead of it, and the draft  *)
(* of a request) is paid in earlier cycles only.                                   *)

Owes(subs, s) == s.status = "PAST_DUE" => s.period < subs[s.ref].cycle

\* s is paid in no cycle of r after those before the one r is in.
Below(subs, s, r) == Entitling(s) /\ s.ref = r => s.period < subs[r].cycle

\* Nor is what p has fetched.
ShowsBelow(p, r) == got[p].proof /\ got[p].ref = r => got[p].cycle < prov[r].cycle

\* A failed payment that has been fetched and may still be applied.
Waiting(q) == pc[q] = "fetched" /\ got[q].status = "pending" /\ Among(fetches, q)

\* The draft of o may be committed before q is applied.
Precedes(o, q) == pc[o] # "idle" /\ (~Among(fetches, o) \/ Ahead(fetches, o, q))

Fenced(q) ==
  LET r == got[q].ref
  IN /\ r \in Refs
     /\ Below(prov, row, r)
     /\ \A p \in Syncers : Ahead(fetches, p, q) => ShowsBelow(p, r)
     /\ \A o \in Owners : Precedes(o, q) => Below(prov, draft, r)

OwesInv ==
  /\ Owes(prov, row) /\ Owes(prov, draft)
  /\ \A r \in Refs : Behind(prov[r])
  /\ \A q \in Syncers : Waiting(q) => Fenced(q)

LEMMA OwesInit == Init => OrderInv /\ OwesInv
<1> SUFFICES ASSUME Init PROVE OrderInv /\ OwesInv
  OBVIOUS
<1>1. FetchesListed /\ \A p : ~Among(fetches, p)
  BY DEF Init, FetchesListed, Once, Among
<1>2. OrderInv
  BY <1>1, AheadAmong DEF OrderInv
<1>3. Owes(prov, row) /\ Owes(prov, draft)
  BY DEF Init, NoRow, Owes
<1>4. ASSUME NEW r \in Refs PROVE Behind(prov[r])
  BY DEF Init, Behind
<1> QED
  BY <1>1, <1>2, <1>3, <1>4 DEF OwesInv, Waiting

\* A row becomes paid in another cycle by a proof only, and owes by a failed payment only.
LEMMA AppliedPeriod ==
  ASSUME NEW s \in WideRows, NEW f \in Fetchable
  PROVE  LET new == Applied(s, f)
         IN /\ new.ref = s.ref
            /\ Entitling(new) => \/ Entitling(s) /\ new.period = s.period
                                 \/ f.proof /\ f.ref = s.ref /\ new.period = f.cycle
            /\ new.status = "PAST_DUE" =>
                 /\ Entitling(s) /\ new.period = s.period
                 /\ s.status # "PAST_DUE" => f.status = "pending" /\ f.ref = s.ref
<1> DEFINE Good(new) ==
             /\ new.ref = s.ref
             /\ Entitling(new) => \/ Entitling(s) /\ new.period = s.period
                                  \/ f.proof /\ f.ref = s.ref /\ new.period = f.cycle
             /\ new.status = "PAST_DUE" =>
                  /\ Entitling(s) /\ new.period = s.period
                  /\ s.status # "PAST_DUE" => f.status = "pending" /\ f.ref = s.ref
           Seen(t) == [t EXCEPT !.provider_status = f.status]
<1>1. Good(s)
  BY DEF Entitling
<1>2. ASSUME NEW t \in WideRows, Good(t) PROVE Good(Seen(t))
  <2>1. /\ Seen(t).ref = t.ref /\ Seen(t).status = t.status /\ Seen(t).period = t.period
    BY DEF WideRows
  <2> HIDE DEF Seen
  <2> QED
    BY <1>2, <2>1 DEF Entitling
<1>3. s \in WideRows
  OBVIOUS
<1>4. CASE f.ref # s.ref
  BY <1>1, <1>4 DEF Applied
<1>5. CASE f.ref = s.ref /\ f.status = "active"
  <2> DEFINE a == Activated(s, f)
  <2>1. Applied(s, f) = Seen(a)
    BY <1>5 DEF Applied, TERMINAL_PROVIDER_STATUSES
  <2>2. a = s \/ /\ f.proof
                 /\ a = [s EXCEPT !.status = "ACTIVE", !.period = f.cycle, !.stage = NoStage,
                                  !.ending = @ /\ s.status \in {"ACTIVE", "PAST_DUE"}]
    BY DEF Activated, TakesPeriod
  <2> HIDE DEF a
  <2>3. CASE a = s
    BY <1>1, <1>2, <1>3, <2>1, <2>3
  <2>4. CASE /\ f.proof
             /\ a = [s EXCEPT !.status = "ACTIVE", !.period = f.cycle, !.stage = NoStage,
                              !.ending = @ /\ s.status \in {"ACTIVE", "PAST_DUE"}]
    <3>1. a \in WideRows
      BY <2>4, SubscriptionAssumption DEF WideRows, Fetchable, Status, NoStage
    <3>2. a.ref = s.ref /\ a.status = "ACTIVE" /\ a.period = f.cycle
      BY <2>4 DEF WideRows
    <3>3. Good(a)
      BY <1>5, <2>4, <3>2
    <3> HIDE DEF Good, Seen
    <3> QED
      BY <1>2, <2>1, <3>1, <3>3 DEF Good
  <2> QED
    BY <2>2, <2>3, <2>4
<1>6. CASE f.ref = s.ref /\ f.status = "pending"
  <2> DEFINE a == PaymentFailed(s)
  <2>1. Applied(s, f) = Seen(a)
    BY <1>6 DEF Applied, TERMINAL_PROVIDER_STATUSES
  <2>2. a \in WideRows
    BY SubscriptionAssumption DEF PaymentFailed, WideRows, Status
  <2>3. Good(a)
    BY <1>6 DEF PaymentFailed, WideRows, Entitling
  <2> HIDE DEF Good, Seen, a
  <2> QED
    BY <1>2, <2>1, <2>2, <2>3 DEF Good
<1>7. CASE f.ref = s.ref /\ f.status \in TERMINAL_PROVIDER_STATUSES
  <2> DEFINE a == Terminated(s)
  <2>1. Applied(s, f) = Seen(a)
    BY <1>7 DEF Applied, TERMINAL_PROVIDER_STATUSES
  <2>2. a \in WideRows
    BY SubscriptionAssumption DEF Terminated, WideRows, Status, NoStage
  <2>3. Good(a)
    BY DEF Terminated, WideRows, Entitling
  <2> HIDE DEF Good, Seen, a
  <2> QED
    BY <1>2, <2>1, <2>2, <2>3 DEF Good
<1>8. CASE f.ref = s.ref /\ f.status \notin {"active", "pending"} \cup TERMINAL_PROVIDER_STATUSES
  <2>1. Applied(s, f) = Seen(s)
    BY <1>8 DEF Applied
  <2> HIDE DEF Good, Seen
  <2> QED
    BY <1>1, <1>2, <1>3, <2>1 DEF Good
<1> QED
  BY <1>4, <1>5, <1>6, <1>7, <1>8

\* What a request does to its draft and to the row.
LEMMA RequestMoves ==
  ASSUME IInv, NEW o \in Owners, Request(o)
  PROVE  \/ pc[o] = "idle" /\ draft' = row /\ row' = row /\ fetches' = fetches
         \/ (Reconcile(o) \/ UpgradeNow(o)) /\ row' = row /\ prov' = prov
         \/ /\ pc[o] # "idle" /\ row' = row /\ fetches' = fetches
            /\ Claims(draft, draft') \/ draft'.status = "INCOMPLETE"
         \/ CommitRequest(o)
         \/ CrashRequest(o)
<1>0. draft \in WideRows
  BY DEF IInv, Typed
<1>1. CASE StartCheckout(o) \/ CancelSubscription(o)
  BY <1>1 DEF StartCheckout, CancelSubscription, Begin
<1>2. CASE Reconcile(o) \/ UpgradeNow(o)
  BY <1>2 DEF Reconcile, UpgradeNow, InRequest
<1>3. CASE Answers(o) \/ ReplaceSubscription(o) \/ CancelOld(o) \/ CallFails(o)
  BY <1>3 DEF Answers, ReplaceSubscription, CancelOld, CallFails, InRequest, Claims
<1>4. CASE \E r \in Refs : CreateNew(o, r)
  BY <1>4 DEF CreateNew, NewRow, InRequest
<1>5. CASE CancelAtPeriodEnd(o)
  <2>1. draft' = draft \/ draft' = [draft EXCEPT !.ending = TRUE]
    BY <1>5 DEF CancelAtPeriodEnd
  <2>2. Claims(draft, draft')
    BY <1>0, <2>1 DEF Claims, Entitling, WideRows
  <2> QED
    BY <1>5, <2>2 DEF CancelAtPeriodEnd, InRequest
<1>6. CASE CancelPastDue(o)
  <2>1. Claims(draft, draft')
    BY <1>0, <1>6 DEF CancelPastDue, Claims, Entitling, WideRows
  <2> QED
    BY <1>6, <2>1 DEF CancelPastDue, InRequest
<1>7. CASE CancelNow(o)
  <2>1. draft' = draft \/ draft' = [draft EXCEPT !.provider_status = "cancelled"]
    BY <1>7 DEF CancelNow
  <2>2. Claims(draft, draft')
    BY <1>0, <2>1 DEF Claims, Entitling, WideRows
  <2> QED
    BY <1>7, <2>2 DEF CancelNow, InRequest
<1> QED
  BY <1>1, <1>2, <1>3, <1>4, <1>5, <1>6, <1>7 DEF Request, RequestStep

LEMMA OwesStep == IInv /\ OrderInv /\ OwesInv /\ [Next]_vars /\ OrderInv' => OwesInv'
<1> SUFFICES ASSUME IInv, OrderInv, OwesInv, [Next]_vars, OrderInv' PROVE OwesInv'
  OBVIOUS
<1>0. /\ row \in WideRows /\ draft \in WideRows /\ prov \in [Refs -> WideSubs]
      /\ pc \in [Procs -> Stages] /\ got \in [Syncers \cup Owners -> Fetchable]
      /\ Syncers \subseteq Procs /\ Owners \subseteq Procs /\ Syncers \cap Owners = {}
      /\ Free \notin Owners /\ PaidFor(row) /\ PaidFor(draft) /\ ProofsHold /\ FetchesListed
      /\ lock \in Owners \cup {Free}
  BY SubscriptionAssumption DEF IInv, Typed, Procs, OrderInv
<1>1. \A r \in Refs : Behind(prov'[r]) /\ Behind(prov[r])
  BY LaterStep DEF OwesInv, Later
<1>2. \A r \in Refs : /\ prov[r].cycle \in Nat /\ prov'[r].cycle \in Nat
                      /\ prov[r].cycle <= prov'[r].cycle
  <2>1. prov' \in [Refs -> WideSubs]
    BY StepInv DEF IInv, Typed
  <2> QED
    BY <1>0, <2>1, LaterStep DEF Later, WideSubs
<1>3. ASSUME NEW s \in WideRows, NEW new, NEW r \in Refs, Claims(s, new), Below(prov, s, r)
      PROVE  Below(prov', new, r)
  BY <1>2, <1>3 DEF Below, Claims, WideRows
<1>4. ASSUME NEW s \in WideRows, NEW new, PaidFor(s), Claims(s, new), Owes(prov, s)
      PROVE  Owes(prov', new)
  <2>1. new.status = "PAST_DUE" => s.ref \in Refs /\ s.period \in Nat
    BY <1>4 DEF Claims, PaidFor, Entitling, WideRows
  <2> QED
    BY <1>2, <1>4, <2>1 DEF Owes, Claims, Entitling
<1>5. \A s : Claims(s, s)
  BY DEF Claims
\* A subscription whose charge has failed is paid in no cycle but earlier ones.
<1>6. ASSUME NEW r \in Refs, prov[r].status = "pending", NEW c \in prov[r].paid
      PROVE  c < prov[r].cycle
  BY <1>1, <1>2, <1>6 DEF Behind
\* One that went on waiting.
<1>7. ASSUME NEW q \in Syncers, Waiting(q), got'[q] = got[q],
             Below(prov, row, got[q].ref) => Below(prov', row', got[q].ref),
             \A p \in Syncers : Ahead(fetches', p, q) =>
                                  Ahead(fetches, p, q) /\ (got'[p] = got[p] \/ ~got'[p].proof),
             \A o \in Owners : Precedes(o, q)' => Below(prov', draft', got[q].ref)
      PROVE  Fenced(q)'
  <2>1. Fenced(q) /\ got[q].ref \in Refs
    BY <1>7 DEF OwesInv, Fenced
  <2>2. ASSUME NEW p \in Syncers, Ahead(fetches', p, q) PROVE ShowsBelow(p, got[q].ref)'
    <3>1. ShowsBelow(p, got[q].ref) /\ got[p].cycle \in Nat
      BY <1>0, <1>7, <2>1, <2>2 DEF Fenced, Fetchable
    <3> QED
      BY <1>2, <1>7, <2>1, <2>2, <3>1 DEF ShowsBelow
  <2> QED
    BY <1>7, <2>1, <2>2 DEF Fenced
<1>8. ASSUME NEW p \in Syncers, Sync(p) PROVE OwesInv'
  <2>1. /\ prov' = prov /\ draft' = draft
        /\ \A q \in Procs : q # p => pc'[q] = pc[q]
        /\ \A q \in Syncers : q # p => got'[q] = got[q]
    BY <1>0, <1>8 DEF Sync, SyncRead, SyncFetch, SyncFails, SyncApply, SyncEnds, Goto
  <2>2. \A o \in Owners : pc'[o] = pc[o]
    BY <1>0, <2>1
  <2>3. Owes(prov', draft') /\ \A r \in Refs : Behind(prov'[r])
    BY <1>1, <2>1 DEF OwesInv
  \* The fetches after p's step, and what it leaves of the claims.
  <2>4. ASSUME Owes(prov', row'),
               \A a, q \in Syncers : Ahead(fetches', a, q) /\ q # p => Ahead(fetches, a, q),
               \A q \in Syncers : Among(fetches', q) /\ q # p => Among(fetches, q),
               \A o \in Owners, q \in Syncers : Precedes(o, q)' /\ q # p => Precedes(o, q),
               \A q \in Syncers : Waiting(q) /\ Among(fetches', q) /\ q # p =>
                                    Below(prov, row', got[q].ref),
               got'[p] = got[p] \/ ~got'[p].proof
                 \/ \A q \in Syncers : q # p /\ Waiting(q)' => ~Ahead(fetches', p, q),
               Waiting(p)' => Fenced(p)'
        PROVE  OwesInv'
    <3>1. ASSUME NEW q \in Syncers, q # p, Waiting(q)' PROVE Fenced(q)'
      <4>1. Waiting(q) /\ got'[q] = got[q] /\ Among(fetches', q)
        BY <1>0, <2>1, <2>4, <3>1 DEF Waiting
      <4>2. Below(prov', row', got[q].ref)
        BY <2>1, <2>4, <3>1, <4>1
      <4>3. \A a \in Syncers : Ahead(fetches', a, q) =>
                Ahead(fetches, a, q) /\ (got'[a] = got[a] \/ ~got'[a].proof)
        BY <2>1, <2>4, <3>1
      <4>4. ASSUME NEW o \in Owners, Precedes(o, q)' PROVE Below(prov', draft', got[q].ref)
        BY <2>1, <2>4, <3>1, <4>1, <4>4 DEF OwesInv, Fenced
      <4> QED
        BY <1>7, <4>1, <4>2, <4>3, <4>4
    <3> QED
      BY <2>3, <2>4, <3>1 DEF OwesInv
  <2>5. ASSUME row' = row
        PROVE  /\ Owes(prov', row')
               /\ \A q \in Syncers : Waiting(q) => Below(prov, row', got[q].ref)
    BY <2>1, <2>5 DEF OwesInv, Fenced
  <2>6. CASE SyncRead(p)
    <3>1. /\ row' = row /\ got' = got /\ fetches' = Append(fetches, p)
          /\ pc[p] = "idle" /\ pc'[p] = "fetching"
      BY <1>0, <2>6 DEF SyncRead, Goto
    <3>2. ~Among(fetches, p)
      BY <3>1 DEF OrderInv
    <3>3. /\ \A q : Among(fetches', q) <=> Among(fetches, q) \/ q = p
          /\ \A a, q : Ahead(fetches', a, q) => Ahead(fetches, a, q) \/ (q = p /\ a # p)
      BY <1>0, <3>1, <3>2, AppendOrder DEF FetchesListed
    <3>4. \A o \in Owners, q \in Syncers : Precedes(o, q)' /\ q # p => Precedes(o, q)
      BY <2>2, <3>3 DEF Precedes
    <3> QED
      BY <2>4, <2>5, <3>1, <3>3, <3>4 DEF Waiting
  <2>7. CASE SyncFetch(p)
    <3>1. /\ row' = row /\ fetches' = fetches /\ pc[p] = "fetching" /\ pc'[p] = "fetched"
          /\ read[p].ref \in Refs /\ got'[p] = Fetched(read[p].ref, read[p].period)
      BY <1>0, <2>7 DEF SyncFetch, Goto, IInv, RefKnown
    <3>2. \A q \in Syncers : q # p /\ Waiting(q)' => ~Ahead(fetches', p, q)
      BY <1>0, <2>1, <3>1 DEF OrderInv, Waiting
    <3>3. ASSUME Waiting(p)' PROVE Fenced(p)'
      <4>0. PICK r \in Refs : r = read[p].ref
        BY <3>1
      <4>1. got'[p].ref = r /\ prov[r].status = "pending"
        BY <3>1, <3>3, <4>0 DEF Waiting, Fetched
      <4>2. Below(prov', row', r) /\ Below(prov', draft', r)
        BY <1>0, <1>6, <2>1, <3>1, <4>1 DEF Below, PaidFor
      <4>3. ASSUME NEW a \in Syncers, Ahead(fetches', a, p) PROVE ShowsBelow(a, r)'
        <5>1. a # p
          BY <1>0, <3>1, <4>3 DEF Ahead, FetchesListed, Once
        <5>2. got'[a] = got[a]
          BY <2>1, <5>1
        <5> QED
          BY <1>0, <1>6, <2>1, <4>1, <5>2 DEF ShowsBelow, ProofsHold
      <4> QED
        BY <4>1, <4>2, <4>3 DEF Fenced
    <3>4. \A o \in Owners, q \in Syncers : Precedes(o, q)' => Precedes(o, q)
      BY <2>2, <3>1 DEF Precedes
    <3> QED
      BY <2>4, <2>5, <3>1, <3>2, <3>3, <3>4
  <2>8. CASE SyncFails(p) \/ (SyncApply(p) /\ ~Fresh(p))
    <3>1. /\ row' = row /\ fetches' = Without(p) /\ pc'[p] = "idle" /\ ~got'[p].proof
      BY <1>0, <2>8 DEF SyncFails, SyncApply, SyncEnds, NoSnapshot, Goto
    <3>2. /\ Thins(fetches, fetches')
          /\ \A q : Among(fetches', q) <=> Among(fetches, q) /\ q # p
      BY <1>0, <3>1, WithoutOrder
    <3>3. \A o \in Owners, q \in Syncers : Precedes(o, q)' => Precedes(o, q)
      BY <1>0, <2>2, <3>2 DEF Precedes, Thins
    <3> QED
      BY <2>4, <2>5, <3>1, <3>2, <3>3 DEF Thins, Waiting
  <2>9. CASE SyncApply(p) /\ Fresh(p)
    <3> DEFINE f == got[p]
    <3>1. /\ row' = Applied(row, f) /\ fetches' = After(p) /\ pc'[p] = "idle" /\ ~got'[p].proof
          /\ lock = Free /\ pc[p] = "fetched" /\ Running(p) /\ f.ref = row.ref /\ f \in Fetchable
      BY <1>0, <2>9 DEF SyncApply, SyncEnds, NoSnapshot, Goto, Fresh
    <3> HIDE DEF f
    <3>2. /\ Thins(fetches, fetches')
          /\ \A q : Among(fetches', q) => Ahead(fetches, p, q) /\ q # p
      BY <1>0, <3>1, AfterOrder
    <3>3. \A o \in Owners, q \in Syncers : ~Precedes(o, q)'
      BY <1>0, <2>2, <3>1 DEF Precedes, IInv, Holding
    <3>4. /\ row'.ref = row.ref
          /\ Entitling(row') => \/ Entitling(row) /\ row'.period = row.period
                                \/ f.proof /\ f.ref = row.ref /\ row'.period = f.cycle
          /\ row'.status = "PAST_DUE" =>
               /\ Entitling(row) /\ row'.period = row.period
               /\ row.status # "PAST_DUE" => f.status = "pending" /\ f.ref = row.ref
      BY <1>0, <3>1, AppliedPeriod
    <3>5. ASSUME NEW q \in Syncers, Waiting(q), Among(fetches', q)
          PROVE  Below(prov, row', got[q].ref)
      <4>1. Fenced(q) /\ ShowsBelow(p, got[q].ref)
        BY <3>2, <3>5 DEF OwesInv, Fenced
      <4> QED
        BY <3>1, <3>4, <4>1 DEF Below, ShowsBelow, Fenced, f
    <3>6. ASSUME row'.status = "PAST_DUE" PROVE row'.period < prov[row'.ref].cycle
      <4>1. CASE row.status = "PAST_DUE"
        BY <3>4, <3>6, <4>1 DEF OwesInv, Owes
      <4>2. CASE row.status # "PAST_DUE"
        <5>1. Waiting(p)
          BY <3>1, <3>4, <3>6, <4>2 DEF Waiting, Running, Among, f
        <5> QED
          BY <3>1, <3>4, <3>6, <5>1 DEF OwesInv, Fenced, Below, f
      <4> QED
        BY <4>1, <4>2
    <3>7. Owes(prov', row')
      BY <2>1, <3>6 DEF Owes
    <3> QED
      BY <2>4, <3>1, <3>2, <3>3, <3>5, <3>7 DEF Thins, Waiting
  <2> QED
    BY <1>8, <2>6, <2>7, <2>8, <2>9 DEF Sync
<1>9. CASE SyncsStay /\ RequestsStay /\ Claims(row, row')
  <2>1. /\ fetches' = fetches /\ draft' = draft
        /\ \A q \in Syncers : pc'[q] = pc[q] /\ got'[q] = got[q]
        /\ \A o \in Owners : pc'[o] = pc[o]
    BY <1>9 DEF SyncsStay, RequestsStay
  <2>2. Owes(prov', row') /\ Owes(prov', draft')
    BY <1>0, <1>4, <1>5, <1>9, <2>1 DEF OwesInv
  <2>3. ASSUME NEW q \in Syncers, Waiting(q)' PROVE Fenced(q)'
    <3>1. Waiting(q) /\ got'[q] = got[q]
      BY <2>1, <2>3 DEF Waiting
    <3>2. Fenced(q) /\ got[q].ref \in Refs
      BY <3>1 DEF OwesInv, Fenced
    <3>3. Below(prov, row, got[q].ref) => Below(prov', row', got[q].ref)
      BY <1>0, <1>3, <1>9, <3>2
    <3>4. ASSUME NEW o \in Owners, Precedes(o, q)' PROVE Below(prov', draft', got[q].ref)
      <4>1. Precedes(o, q)
        BY <2>1, <3>4 DEF Precedes
      <4> QED
        BY <1>0, <1>3, <1>5, <2>1, <3>2, <4>1 DEF Fenced
    <3> QED
      BY <1>7, <2>1, <3>1, <3>3, <3>4
  <2> QED
    BY <1>1, <2>2, <2>3 DEF OwesInv
<1>10. ASSUME NEW o \in Owners, Request(o) PROVE OwesInv'
  <2>1. /\ RequestsFetch(o)
        /\ \A p \in Syncers : pc'[p] = pc[p] /\ got'[p] = got[p]
        /\ \A q \in Owners \ {o} : pc[q] = "idle" /\ pc'[q] = "idle"
    BY <1>10, RequestFetches
  <2>2. /\ \A q \in Syncers : Among(fetches', q) => Among(fetches, q)
        /\ \A p, q \in Syncers : Ahead(fetches', p, q) => Ahead(fetches, p, q)
    <3>1. CASE fetches' = fetches
      BY <3>1
    <3>2. CASE fetches' = Without(o) \/ (Running(o) /\ fetches' = After(o))
      BY <1>0, <3>2, WithoutOrder, AfterOrder DEF Thins
    <3>3. CASE fetches' = Append(Without(o), o)
      <4>1. /\ Without(o) \in Seq(Syncers \cup Owners) /\ Thins(fetches, Without(o))
            /\ ~Among(Without(o), o)
        BY <1>0, WithoutOrder
      <4>2. /\ \A q : Among(fetches', q) <=> Among(Without(o), q) \/ q = o
            /\ \A a, q : Ahead(fetches', a, q) => Ahead(Without(o), a, q) \/ (q = o /\ a # o)
        BY <3>3, <4>1, AppendOrder DEF Thins
      <4> QED
        BY <1>0, <4>1, <4>2 DEF Thins
    <3> QED
      BY <2>1, <3>1, <3>2, <3>3 DEF RequestsFetch
  \* What is left to show of each step.
  <2>3. ASSUME Owes(prov', row'), Owes(prov', draft'),
               \A q \in Syncers : Fenced(q) /\ Waiting(q) /\ Among(fetches', q) =>
                 /\ Below(prov', row', got[q].ref)
                 /\ Precedes(o, q)' => Below(prov', draft', got[q].ref)
        PROVE  OwesInv'
    <3>1. ASSUME NEW q \in Syncers, Waiting(q)' PROVE Fenced(q)'
      <4>1. Waiting(q) /\ got'[q] = got[q] /\ Among(fetches', q) /\ Fenced(q)
        BY <2>1, <2>2, <3>1 DEF Waiting, OwesInv
      <4>2. ASSUME NEW x \in Owners, Precedes(x, q)' PROVE Below(prov', draft', got[q].ref)
        BY <2>1, <2>3, <4>1, <4>2 DEF Precedes
      <4> QED
        BY <1>7, <2>1, <2>2, <2>3, <4>1, <4>2
    <3> QED
      BY <1>1, <2>3, <3>1 DEF OwesInv
  \* A row, or a draft, that the step leaves alone.
  <2>4. ASSUME row' = row
        PROVE  /\ Owes(prov', row')
               /\ \A q \in Syncers : Fenced(q) => Below(prov', row', got[q].ref)
    BY <1>0, <1>3, <1>4, <1>5, <2>4 DEF OwesInv, Fenced
  <2>5. CASE pc[o] = "idle" /\ draft' = row /\ row' = row /\ fetches' = fetches
    <3>1. Owes(prov', draft')
      BY <2>4, <2>5
    <3>2. \A q \in Syncers : Fenced(q) => Below(prov', draft', got[q].ref)
      BY <2>4, <2>5
    <3> QED
      BY <2>3, <2>4, <2>5, <3>1, <3>2
  <2>6. CASE (Reconcile(o) \/ UpgradeNow(o)) /\ row' = row /\ prov' = prov
    <3>1. fetches' = Append(Without(o), o)
      BY <2>6 DEF Reconcile, UpgradeNow, ReconcileDraft
    <3>2. \A q \in Syncers : ~Precedes(o, q)'
      <4>1. /\ Without(o) \in Seq(Syncers \cup Owners) /\ Thins(fetches, Without(o))
            /\ ~Among(Without(o), o)
        BY <1>0, WithoutOrder
      <4>2. /\ \A q : Among(fetches', q) <=> Among(Without(o), q) \/ q = o
            /\ \A a, q : Ahead(fetches', a, q) => Ahead(Without(o), a, q) \/ (q = o /\ a # o)
        BY <3>1, <4>1, AppendOrder DEF Thins
      <4> QED
        BY <1>0, <4>1, <4>2, AheadAmong DEF Precedes
    <3>3. PICK f \in Fetchable : draft' = Applied(draft, f) /\ f.status = prov[draft.ref].status
      BY <2>6, Reconciles
    <3>4. /\ draft'.ref = draft.ref
          /\ draft'.status = "PAST_DUE" =>
               /\ Entitling(draft) /\ draft'.period = draft.period
               /\ draft.status # "PAST_DUE" => f.status = "pending"
      BY <1>0, <3>3, AppliedPeriod
    <3>5. Owes(prov', draft')
      <4>1. CASE draft.status = "PAST_DUE"
        BY <2>6, <3>4, <4>1 DEF OwesInv, Owes
      <4>2. CASE draft.status # "PAST_DUE"
        BY <1>0, <1>6, <2>6, <3>3, <3>4, <4>2 DEF Owes, PaidFor
      <4> QED
        BY <4>1, <4>2
    <3> QED
      BY <2>3, <2>4, <2>6, <3>2, <3>5
  <2>7. CASE /\ pc[o] # "idle" /\ row' = row /\ fetches' = fetches
             /\ Claims(draft, draft') \/ draft'.status = "INCOMPLETE"
    <3>1. Owes(prov', draft')
      BY <1>0, <1>4, <2>7 DEF OwesInv, Owes
    <3>2. ASSUME NEW q \in Syncers, Fenced(q), Precedes(o, q)'
          PROVE  Below(prov', draft', got[q].ref)
      <4>1. Precedes(o, q) /\ got[q].ref \in Refs
        BY <2>7, <3>2 DEF Precedes, Fenced
      <4>2. Below(prov, draft, got[q].ref)
        BY <3>2, <4>1 DEF Fenced
      <4>3. CASE Claims(draft, draft')
        BY <1>0, <1>3, <4>1, <4>2, <4>3
      <4>4. CASE draft'.status = "INCOMPLETE"
        BY <4>4 DEF Below, Entitling
      <4> QED
        BY <2>7, <4>3, <4>4
    <3> QED
      BY <2>3, <2>4, <2>7, <3>1, <3>2
  <2>8. ASSUME draft' = NoRow, pc'[o] = "idle"
        PROVE  Owes(prov', draft') /\ \A q \in Syncers : ~Precedes(o, q)'
    BY <2>8 DEF NoRow, Owes, Precedes
  <2>9. CASE CommitRequest(o)
    <3>1. /\ row' = draft /\ draft' = NoRow /\ pc[o] = "ending" /\ pc'[o] = "idle"
          /\ fetches' = IF Running(o) THEN After(o) ELSE fetches
      BY <1>0, <2>9 DEF CommitRequest, Goto
    <3>2. Owes(prov', row')
      BY <1>0, <1>4, <1>5, <3>1 DEF OwesInv
    <3>3. ASSUME NEW q \in Syncers, Fenced(q), Among(fetches', q)
          PROVE  Below(prov', row', got[q].ref)
      <4>1. Precedes(o, q)
        <5>1. CASE Running(o)
          BY <1>0, <3>1, <3>3, <5>1, AfterOrder DEF Precedes
        <5>2. CASE ~Running(o)
          BY <3>1, <5>2 DEF Precedes, Running, Among
        <5> QED
          BY <5>1, <5>2
      <4> QED
        BY <1>0, <1>3, <1>5, <3>1, <3>3, <4>1 DEF Fenced
    <3> QED
      BY <2>3, <2>8, <3>1, <3>2, <3>3
  <2>10. CASE CrashRequest(o)
    <3>1. row' = row /\ draft' = NoRow /\ pc'[o] = "idle"
      BY <1>0, <2>10 DEF CrashRequest, Goto
    <3> QED
      BY <2>3, <2>4, <2>8, <3>1
  <2> QED
    BY <1>10, <2>5, <2>6, <2>7, <2>9, <2>10, RequestMoves
<1> QED
  BY <1>8, <1>9, <1>10, OrderSteps

\* PastDueOwes for every instance: where Razorpay answers syncs in the order they
\* asked in, a row in its grace period owes a cycle after the last it was paid in.
\* Nothing is asked of the order in which the answers are applied.
THEOREM PastDueIsOwed == Spec /\ [][AnswersInOrder]_vars => []PastDueOwes
<1>1. OwesInv => PastDueOwes
  BY DEF OwesInv, Owes, PastDueOwes
<1>2. Spec => []IInv
  BY InitInv, StepInv, PTL DEF Spec
<1>3. IInv /\ OrderInv /\ OwesInv /\ [Next]_vars /\ [AnswersInOrder]_vars => (OrderInv /\ OwesInv)'
  BY OrderStep, OwesStep
<1> QED
  BY <1>1, <1>2, <1>3, OwesInit, PTL DEF Spec

-----------------------------------------------------------------------------
(* TypeOK in full.  Typed leaves out that what is fetched has been created: that *)
(* needs OfferInv, by which a ref that the row or a draft names has been.         *)

Types ==
  /\ late \in BOOLEAN /\ recent \in BOOLEAN
  /\ faults \in 0..MaxFaults
  /\ fetches \in Seq(Syncers \cup Owners)
  /\ row.provider_status # "absent" /\ draft.provider_status # "absent"
  /\ \A p \in Syncers \cup Owners : got[p].status # "absent"
  /\ \A p \in Syncers : pc[p] = "fetching" => prov[read[p].ref].status # "absent"
  /\ \A r \in Refs : Behind(prov[r])

LEMMA TypesInit == Init => Types
<1> SUFFICES ASSUME Init PROVE Types
  OBVIOUS
<1> USE SubscriptionAssumption DEF Init
<1>1. \A r \in Refs : Behind(prov[r])
  BY DEF Behind
<1>2. row.provider_status # "absent" /\ draft.provider_status # "absent"
  BY DEF NoRow
<1>3. \A p \in Syncers \cup Owners : got[p].status # "absent"
  BY DEF NoSnapshot
<1>4. \A p \in Syncers : pc[p] # "fetching"
  BY DEF Procs
<1>5. faults \in 0..MaxFaults
  OBVIOUS
<1>7. late \in BOOLEAN /\ recent \in BOOLEAN
  BY Zenon
<1>6. fetches \in Seq(Syncers \cup Owners)
  <2>1. <<>> \in Seq(Syncers \cup Owners)
    OBVIOUS
  <2> QED
    BY <2>1
<1> QED
  BY <1>1, <1>2, <1>3, <1>4, <1>5, <1>6, <1>7, Zenon DEF Types

\* Cutting the list of fetches off, or taking one out, leaves such a list.
LEMMA FetchesStayListed ==
  ASSUME NEW S, fetches \in Seq(S), NEW p
  PROVE  Without(p) \in Seq(S) /\ (Running(p) => After(p) \in Seq(S))
<1>1. ASSUME Running(p)
      PROVE  SubSeq(fetches, 1, Place(p) - 1) \in Seq(S) /\ After(p) \in Seq(S)
  <2>1. /\ Place(p) \in 1..Len(fetches) /\ Len(fetches) \in Nat
        /\ \A i \in 1..Len(fetches) : fetches[i] \in S
    BY <1>1, PlaceOf
  <2>2. \A i \in 1..Place(p) - 1 : fetches[i] \in S
    BY <2>1
  <2>3. \A i \in Place(p) + 1..Len(fetches) : fetches[i] \in S
    BY <2>1
  <2>4. Place(p) - 1 \in Int /\ Place(p) + 1 \in Int /\ 1 \in Int /\ Len(fetches) \in Int
    BY <2>1
  <2> QED
    BY <2>2, <2>3, <2>4, SubSeqProperties DEF After
<1> QED
  BY <1>1, ConcatProperties DEF Without

\* The provider status a row has is one it had, or one that was fetched.
LEMMA AppliedSees ==
  ASSUME NEW s \in WideRows, NEW f \in Fetchable
  PROVE  Applied(s, f).provider_status \in {s.provider_status, f.status}
<1> USE SubscriptionAssumption
<1>1. Activated(s, f) \in WideRows
  <2> DEFINE e == [s EXCEPT !.status = "ACTIVE", !.period = f.cycle, !.stage = NoStage,
                            !.ending = @ /\ s.status \in {"ACTIVE", "PAST_DUE"}]
  <2>1. e \in WideRows
    BY DEF WideRows, Fetchable, Status, NoStage
  <2>2. Activated(s, f) \in {s, e}
    BY DEF Activated
  <2> HIDE DEF e
  <2> QED
    BY <2>1, <2>2
<1>2. PaymentFailed(s) \in WideRows
  BY DEF PaymentFailed, WideRows, Status
<1>3. Terminated(s) \in WideRows
  BY DEF Terminated, WideRows, Status, NoStage
<1>4. ASSUME NEW t \in WideRows
      PROVE  [t EXCEPT !.provider_status = f.status].provider_status = f.status
  BY DEF WideRows
<1> DEFINE a == Activated(s, f)
           b == PaymentFailed(s)
           c == Terminated(s)
<1>5. \/ Applied(s, f) = s
      \/ \E t \in {a, b, c, s} : Applied(s, f) = [t EXCEPT !.provider_status = f.status]
  BY AppliedCases
<1> HIDE DEF a, b, c
<1>6. {a, b, c, s} \subseteq WideRows
  BY <1>1, <1>2, <1>3 DEF a, b, c
<1>7. CASE \E t \in {a, b, c, s} : Applied(s, f) = [t EXCEPT !.provider_status = f.status]
  <2>1. PICK t \in WideRows : Applied(s, f) = [t EXCEPT !.provider_status = f.status]
    BY <1>6, <1>7
  <2> QED
    BY <1>4, <2>1
<1> QED
  BY <1>5, <1>7

\* What a step does to the row's provider status and the draft's.
LEMMA RowSees ==
  ASSUME IInv, OfferInv, Types, [Next]_vars
  PROVE  row'.provider_status # "absent" /\ draft'.provider_status # "absent"
<1>0. /\ row \in WideRows /\ draft \in WideRows /\ got \in [Syncers \cup Owners -> Fetchable]
      /\ \A p \in Syncers \cup Owners : got[p].status # "absent"
      /\ row.provider_status # "absent" /\ draft.provider_status # "absent"
      /\ NoRow.provider_status # "absent"
  BY DEF IInv, Typed, Types, NoRow
<1>1. ASSUME NEW p \in Syncers, Sync(p)
      PROVE  draft' = draft /\ (row' = row \/ row' = Applied(row, got[p]))
  BY <1>1 DEF Sync, SyncRead, SyncFetch, SyncFails, SyncApply
<1>2. ASSUME NEW d \in Dunners, Dunning(d)
      PROVE  /\ draft' = draft
             /\ \/ row' = row
                \/ \E days : row' = Advanced(row, days)
                \/ row' = [row EXCEPT !.provider_status = "cancelled"]
  BY <1>2 DEF Dunning, DunningStart, AdvanceDunning, OwedCancel, ProviderCancels,
      ProviderRefuses, DunningFails, RecordCancel
<1>3. ASSUME NEW days PROVE Advanced(row, days).provider_status = row.provider_status
  <2>1. CASE Advanced(row, days) = [row EXCEPT !.status = "EXPIRED", !.stage = NoStage]
    BY <1>0, <2>1 DEF WideRows
  <2>2. CASE Advanced(row, days) = row
    BY <2>2
  <2>3. ASSUME NEW n, Advanced(row, days) = [row EXCEPT !.stage = n]
        PROVE  Advanced(row, days).provider_status = row.provider_status
    BY <1>0, <2>3 DEF WideRows
  <2> QED
    BY <1>0, <2>1, <2>2, <2>3, AdvancedCases
<1>4. ASSUME NEW o \in Owners, Reconcile(o) \/ UpgradeNow(o)
      PROVE  row' = row /\ draft'.provider_status # "absent"
  <2>1. PICK f \in Fetchable : draft' = Applied(draft, f) /\ f.status = prov[draft.ref].status
    BY <1>4, Reconciles
  <2>2. draft.ref \in Refs
    BY <1>4 DEF Reconcile, UpgradeNow, IInv, RefKnown
  <2>3. f.status # "absent"
    BY <2>1, <2>2 DEF OfferInv, RefGiven
  <2> QED
    BY <1>0, <1>4, <2>1, <2>3, AppliedSees DEF Reconcile, UpgradeNow, InRequest
<1>5. ASSUME NEW o \in Owners,
             \/ StartCheckout(o) \/ CancelSubscription(o) \/ Answers(o)
             \/ ReplaceSubscription(o) \/ CancelOld(o) \/ CallFails(o)
             \/ CommitRequest(o) \/ CrashRequest(o)
      PROVE  row' \in {row, draft} /\ draft' \in {row, draft, NoRow}
  BY <1>5 DEF StartCheckout, CancelSubscription, Begin, Answers, ReplaceSubscription,
     CancelOld, CallFails, CommitRequest, CrashRequest, InRequest
<1>6. ASSUME NEW o \in Owners,
             \/ (\E r \in Refs : CreateNew(o, r)) \/ CancelAtPeriodEnd(o)
             \/ CancelPastDue(o) \/ CancelNow(o)
      PROVE  row' = row /\ draft'.provider_status # "absent"
  <2>1. row' = row
    BY <1>6 DEF CreateNew, CancelAtPeriodEnd, CancelPastDue, CancelNow, InRequest
  <2>2. ASSUME NEW r \in Refs, CreateNew(o, r) PROVE draft'.provider_status = "created"
    BY <2>2 DEF CreateNew, NewRow
  <2>3. CASE CancelAtPeriodEnd(o) \/ CancelNow(o)
    <3>1. \/ draft' = draft
          \/ draft' = [draft EXCEPT !.ending = TRUE]
          \/ draft' = [draft EXCEPT !.provider_status = "cancelled"]
      BY <2>3 DEF CancelAtPeriodEnd, CancelNow
    <3>2. /\ [draft EXCEPT !.ending = TRUE].provider_status = draft.provider_status
          /\ [draft EXCEPT !.provider_status = "cancelled"].provider_status = "cancelled"
      BY <1>0 DEF WideRows
    <3> QED
      BY <1>0, <2>1, <3>1, <3>2
  <2>4. CASE CancelPastDue(o)
    <3>1. draft' = [draft EXCEPT !.status = "CANCELLED", !.stage = NoStage]
      BY <2>4 DEF CancelPastDue
    <3>2. [draft EXCEPT !.status = "CANCELLED", !.stage = NoStage].provider_status
            = draft.provider_status
      BY <1>0 DEF WideRows
    <3> QED
      BY <1>0, <2>1, <3>1, <3>2
  <2> QED
    BY <1>6, <2>1, <2>2, <2>3, <2>4
<1>7. CASE \/ RunMaintenance \/ ReceiveWebhook \/ (\E t \in tasks : LoseTask(t))
           \/ DayPasses \/ PeriodEnds \/ WindowEnds \/ UNCHANGED vars
           \/ \E r \in Refs : ProviderMoves(r)
  <2>1. row' = row /\ draft' = draft
    BY <1>7, Zenon DEF RunMaintenance, ReceiveWebhook, LoseTask, DayPasses, PeriodEnds,
       WindowEnds, ProviderMoves, vars
  <2> QED
    BY <1>0, <2>1
<1>8. ASSUME NEW p \in Syncers, Sync(p)
      PROVE  row'.provider_status # "absent" /\ draft'.provider_status # "absent"
  BY <1>0, <1>1, <1>8, AppliedSees
<1>9. ASSUME NEW d \in Dunners, Dunning(d)
      PROVE  row'.provider_status # "absent" /\ draft'.provider_status # "absent"
  BY <1>0, <1>2, <1>3, <1>9 DEF WideRows
<1>10. ASSUME NEW o \in Owners, Request(o)
       PROVE  row'.provider_status # "absent" /\ draft'.provider_status # "absent"
  BY <1>0, <1>4, <1>5, <1>6, <1>10 DEF Request, RequestStep
<1> QED
  BY <1>7, <1>8, <1>9, <1>10 DEF Next

\* A fetch shows what Razorpay has then.
LEMMA FetchesSee ==
  ASSUME IInv, Types, NEW p \in Syncers, SyncFetch(p)
  PROVE  got'[p].status # "absent"
<1>1. read[p].ref \in Refs /\ pc[p] = "fetching" /\ p \in Syncers \cup Owners
  BY DEF SyncFetch, IInv, RefKnown
<1>2. Fetched(read[p].ref, read[p].period).status = prov[read[p].ref].status
  BY DEF Fetched
<1>3. got'[p] = Fetched(read[p].ref, read[p].period)
  BY <1>1 DEF SyncFetch, IInv, Typed
<1> QED
  BY <1>1, <1>2, <1>3 DEF Types

LEMMA AnswersSee ==
  ASSUME IInv, OfferInv, Types, [Next]_vars
  PROVE  \A p \in Syncers \cup Owners : got'[p].status # "absent"
<1>0. /\ got \in [Syncers \cup Owners -> Fetchable]
      /\ \A p \in Syncers \cup Owners : got[p].status # "absent"
      /\ NoSnapshot.status # "absent"
  BY DEF IInv, Typed, Types, NoSnapshot
<1>1. ASSUME NEW p \in Syncers, Sync(p)
      PROVE  \/ got' = got \/ got' = [got EXCEPT ![p] = NoSnapshot]
             \/ SyncFetch(p) /\ \E f : got' = [got EXCEPT ![p] = f]
  BY <1>1 DEF Sync, SyncRead, SyncFetch, SyncFails, SyncApply, SyncEnds
<1>2. ASSUME NEW p \in Syncers, Sync(p)
      PROVE  \A q \in Syncers \cup Owners : got'[q].status # "absent"
  BY <1>0, <1>1, <1>2, FetchesSee
<1>3. ASSUME NEW o \in Owners, Reconcile(o) \/ UpgradeNow(o)
      PROVE  \A q \in Syncers \cup Owners : got'[q].status # "absent"
  <2>1. PICK f \in Fetchable :
               /\ f.status = prov[draft.ref].status
               /\ got' = [got EXCEPT ![o] = [NoSnapshot EXCEPT !.status = f.status]]
    BY <1>3, Reconciles
  <2>2. draft.ref \in Refs
    BY <1>3 DEF Reconcile, UpgradeNow, IInv, RefKnown
  <2>3. f.status # "absent"
    BY <2>1, <2>2 DEF OfferInv, RefGiven
  <2>4. [NoSnapshot EXCEPT !.status = f.status].status = f.status
    BY DEF NoSnapshot
  <2> QED
    BY <1>0, <2>1, <2>3, <2>4
<1>4. ASSUME NEW o \in Owners,
             \/ StartCheckout(o) \/ CancelSubscription(o) \/ Answers(o)
             \/ ReplaceSubscription(o) \/ CancelOld(o) \/ CallFails(o)
             \/ CommitRequest(o) \/ CrashRequest(o)
             \/ (\E r \in Refs : CreateNew(o, r)) \/ CancelAtPeriodEnd(o)
             \/ CancelPastDue(o) \/ CancelNow(o)
      PROVE  got' = got \/ got' = [got EXCEPT ![o] = NoSnapshot]
  BY <1>4 DEF StartCheckout, CancelSubscription, Begin, Answers, ReplaceSubscription,
     CancelOld, CallFails, CommitRequest, CrashRequest, CreateNew, CancelAtPeriodEnd,
     CancelPastDue, CancelNow
<1>5. ASSUME NEW o \in Owners, Request(o)
      PROVE  \A q \in Syncers \cup Owners : got'[q].status # "absent"
  BY <1>0, <1>3, <1>4, <1>5 DEF Request, RequestStep
<1>6. ASSUME NEW d \in Dunners, Dunning(d) PROVE got' = got
  BY <1>6 DEF Dunning, DunningStart, AdvanceDunning, OwedCancel, ProviderCancels,
      ProviderRefuses, DunningFails, RecordCancel
<1>7. CASE \/ RunMaintenance \/ ReceiveWebhook \/ (\E t \in tasks : LoseTask(t))
           \/ DayPasses \/ PeriodEnds \/ WindowEnds \/ UNCHANGED vars
           \/ \E r \in Refs : ProviderMoves(r)
  <2>1. got' = got
    BY <1>7, Zenon DEF RunMaintenance, ReceiveWebhook, LoseTask, DayPasses, PeriodEnds,
       WindowEnds, ProviderMoves, vars, locals
  <2> QED
    BY <1>0, <2>1
<1> QED
  BY <1>0, <1>2, <1>5, <1>6, <1>7 DEF Next

\* A sync fetches a subscription that the row has had.
LEMMA ReadsGiven ==
  ASSUME IInv, OfferInv, Types, [Next]_vars
  PROVE  \A p \in Syncers : pc'[p] = "fetching" => prov'[read'[p].ref].status # "absent"
<1>0. /\ pc \in [Procs -> Stages]
      /\ read \in [Syncers \cup Dunners -> [ref : Refs \cup {NoRef}, period : 0..MaxCycle]]
  BY DEF IInv, Typed
<1>1. ASSUME NEW p \in Syncers, pc[p] = "fetching", read'[p] = read[p]
      PROVE  prov'[read'[p].ref].status # "absent"
  <2>1. read[p].ref \in Refs /\ prov[read[p].ref].status # "absent"
    BY <1>1 DEF IInv, RefKnown, Types
  <2> QED
    BY <1>1, <2>1, LaterStep DEF Later
<1>2. ASSUME NEW q \in Syncers, SyncRead(q)
      PROVE  /\ read'[q].ref = row.ref /\ row.ref \in Refs
             /\ \A p \in Syncers : p # q => read'[p] = read[p] /\ pc'[p] = pc[p]
  <2>1. /\ read' = [read EXCEPT ![q] = [ref |-> row.ref, period |-> ActivePeriod(row)]]
        /\ pc' = [pc EXCEPT ![q] = "fetching"] /\ "sync" \in tasks
    BY <1>2 DEF SyncRead, Goto
  <2>2. row.ref \in Refs
    BY <2>1 DEF IInv, RefKnown
  <2> QED
    BY <1>0, <2>1, <2>2 DEF Procs
<1>3. ASSUME NEW q \in Syncers, SyncFetch(q) \/ SyncFails(q) \/ SyncApply(q)
      PROVE  /\ pc'[q] # "fetching"
             /\ \A p \in Syncers : p # q => read'[p] = read[p] /\ pc'[p] = pc[p]
  BY <1>0, <1>3 DEF SyncFetch, SyncFails, SyncApply, SyncEnds, Goto, Procs
<1>4. ASSUME NEW q \in Syncers, Sync(q)
      PROVE  \A p \in Syncers : pc'[p] = "fetching" => prov'[read'[p].ref].status # "absent"
  <2>1. CASE SyncRead(q)
    <3>1. prov[row.ref].status # "absent"
      BY <1>2, <2>1 DEF OfferInv, RefGiven
    <3>2. prov'[read'[q].ref].status # "absent"
      BY <1>2, <2>1, <3>1, LaterStep DEF Later
    <3> QED
      BY <1>1, <1>2, <2>1, <3>2
  <2> QED
    BY <1>1, <1>3, <1>4, <2>1 DEF Sync
<1>5. ASSUME NEW d \in Dunners, Dunning(d)
      PROVE  \A p \in Syncers : read'[p] = read[p] /\ pc'[p] = pc[p]
  BY <1>0, <1>5, SubscriptionAssumption
     DEF Dunning, DunningStart, AdvanceDunning, OwedCancel, ProviderCancels, ProviderRefuses,
         DunningFails, RecordCancel, DunningEnds, Goto, Procs
<1>6. ASSUME NEW o \in Owners, Request(o)
      PROVE  \A p \in Syncers : read'[p] = read[p] /\ pc'[p] = pc[p]
  <2>1. read' = read /\ \E stage : pc' = [pc EXCEPT ![o] = stage]
    BY <1>6 DEF Request, RequestStep, StartCheckout, CancelSubscription, Begin, Reconcile,
       Answers, UpgradeNow, ReplaceSubscription, CancelOld, CreateNew, CancelAtPeriodEnd,
       CancelPastDue, CancelNow, CommitRequest, CallFails, CrashRequest, InRequest, Goto
  <2> QED
    BY <1>0, <2>1, SubscriptionAssumption DEF Procs
<1>7. CASE \/ RunMaintenance \/ ReceiveWebhook \/ (\E t \in tasks : LoseTask(t))
           \/ DayPasses \/ PeriodEnds \/ WindowEnds \/ UNCHANGED vars
           \/ \E r \in Refs : ProviderMoves(r)
  <2>1. read' = read /\ pc' = pc
    BY <1>7, Zenon DEF RunMaintenance, ReceiveWebhook, LoseTask, DayPasses, PeriodEnds,
       WindowEnds, ProviderMoves, vars, locals
  <2> QED
    BY <1>1, <2>1
<1> QED
  BY <1>1, <1>4, <1>5, <1>6, <1>7 DEF Next

\* The list of fetches, the clocks of the row and the count of faults.
LEMMA ListAndClocks ==
  ASSUME IInv, Types, [Next]_vars
  PROVE  /\ fetches' \in Seq(Syncers \cup Owners)
         /\ faults' \in 0..MaxFaults
         /\ late' \in BOOLEAN /\ recent' \in BOOLEAN
<1>0. /\ fetches \in Seq(Syncers \cup Owners) /\ faults \in 0..MaxFaults
      /\ late \in BOOLEAN /\ recent \in BOOLEAN
  BY DEF Types
<1>1. fetches' \in Seq(Syncers \cup Owners)
  <2>1. ASSUME NEW p \in Syncers, Sync(p) PROVE fetches' \in Seq(Syncers \cup Owners)
    <3>1. fetches' \in {fetches, Append(fetches, p), Without(p)} \/ (Running(p) /\ fetches' = After(p))
      BY <2>1 DEF Sync, SyncRead, SyncFetch, SyncFails, SyncApply
    <3>2. Append(fetches, p) \in Seq(Syncers \cup Owners)
      BY <1>0
    <3> QED
      BY <1>0, <3>1, <3>2, FetchesStayListed
  <2>2. ASSUME NEW d \in Dunners, Dunning(d) PROVE fetches' = fetches
    BY <2>2 DEF Dunning, DunningStart, AdvanceDunning, OwedCancel, ProviderCancels,
        ProviderRefuses, DunningFails, RecordCancel
  <2>3. ASSUME NEW o \in Owners, Request(o) PROVE fetches' \in Seq(Syncers \cup Owners)
    <3>1. \/ fetches' \in {fetches, Append(Without(o), o), Without(o)}
          \/ Running(o) /\ fetches' = After(o)
      BY <2>3 DEF Request, RequestStep, StartCheckout, CancelSubscription, Begin, Reconcile,
         Answers, UpgradeNow, ReplaceSubscription, CancelOld, CreateNew, CancelAtPeriodEnd,
         CancelPastDue, CancelNow, CommitRequest, CallFails, CrashRequest, ReconcileDraft
    <3>2. /\ Without(o) \in Seq(Syncers \cup Owners)
          /\ Running(o) => After(o) \in Seq(Syncers \cup Owners)
      BY <1>0, FetchesStayListed
    <3>3. Append(Without(o), o) \in Seq(Syncers \cup Owners)
      BY <3>2
    <3> QED
      BY <1>0, <3>1, <3>2, <3>3
  <2>4. CASE \/ RunMaintenance \/ ReceiveWebhook \/ (\E t \in tasks : LoseTask(t))
             \/ DayPasses \/ PeriodEnds \/ WindowEnds \/ UNCHANGED vars
             \/ \E r \in Refs : ProviderMoves(r)
    <3>1. fetches' = fetches
      BY <2>4, Zenon DEF RunMaintenance, ReceiveWebhook, LoseTask, DayPasses, PeriodEnds,
         WindowEnds, ProviderMoves, vars
    <3> QED
      BY <1>0, <3>1
  <2> QED
    BY <1>0, <2>1, <2>2, <2>3, <2>4 DEF Next
<1>2. faults' = faults \/ Fault
  <2>1. ASSUME NEW p \in Syncers, Sync(p) PROVE faults' = faults \/ Fault
    BY <2>1 DEF Sync, SyncRead, SyncFetch, SyncFails, SyncApply
  <2>2. ASSUME NEW d \in Dunners, Dunning(d) PROVE faults' = faults \/ Fault
    BY <2>2 DEF Dunning, DunningStart, AdvanceDunning, OwedCancel, ProviderCancels,
        ProviderRefuses, DunningFails, RecordCancel
  <2>3. ASSUME NEW o \in Owners, Request(o) PROVE faults' = faults \/ Fault
    BY <2>3 DEF Request, RequestStep, StartCheckout, CancelSubscription, Begin, Reconcile,
       Answers, UpgradeNow, ReplaceSubscription, CancelOld, CreateNew, CancelAtPeriodEnd,
       CancelPastDue, CancelNow, CommitRequest, CallFails, CrashRequest
  <2>4. CASE \/ RunMaintenance \/ ReceiveWebhook \/ (\E t \in tasks : LoseTask(t))
             \/ DayPasses \/ PeriodEnds \/ WindowEnds \/ UNCHANGED vars
             \/ \E r \in Refs : ProviderMoves(r)
    BY <2>4, Zenon DEF RunMaintenance, ReceiveWebhook, LoseTask, DayPasses, PeriodEnds,
       WindowEnds, ProviderMoves, vars
  <2> QED
    BY <2>1, <2>2, <2>3, <2>4 DEF Next
<1>3. faults' \in 0..MaxFaults
  BY <1>0, <1>2, SubscriptionAssumption DEF Fault
<1>4. ASSUME NEW new, ClocksFollow(new) PROVE late' \in BOOLEAN /\ recent' \in BOOLEAN
  BY <1>4, Zenon DEF ClocksFollow
<1>5. \/ UNCHANGED <<late, recent>>
      \/ \E new : ClocksFollow(new)
      \/ late' = TRUE /\ recent' = recent
      \/ recent' = FALSE /\ late' = late
  <2>1. ASSUME NEW p \in Syncers, Sync(p)
        PROVE  UNCHANGED <<late, recent>> \/ \E new : ClocksFollow(new)
    BY <2>1, Zenon DEF Sync, SyncRead, SyncFetch, SyncFails, SyncApply, clocks
  <2>2. ASSUME NEW d \in Dunners, Dunning(d)
        PROVE  UNCHANGED <<late, recent>> \/ \E new : ClocksFollow(new)
    BY <2>2, Zenon DEF Dunning, DunningStart, AdvanceDunning, OwedCancel, ProviderCancels,
        ProviderRefuses, DunningFails, RecordCancel, clocks
  <2>3. ASSUME NEW o \in Owners, Request(o)
        PROVE  UNCHANGED <<late, recent>> \/ \E new : ClocksFollow(new)
    BY <2>3 DEF Request, RequestStep, StartCheckout, CancelSubscription, Begin, Reconcile,
       Answers, UpgradeNow, ReplaceSubscription, CancelOld, CreateNew, CancelAtPeriodEnd,
       CancelPastDue, CancelNow, CommitRequest, CallFails, CrashRequest, InRequest, clocks
  <2>4. ASSUME \/ RunMaintenance \/ ReceiveWebhook \/ (\E t \in tasks : LoseTask(t))
               \/ DayPasses \/ UNCHANGED vars \/ \E r \in Refs : ProviderMoves(r)
        PROVE  UNCHANGED <<late, recent>>
    BY <2>4, Zenon DEF RunMaintenance, ReceiveWebhook, LoseTask, DayPasses, ProviderMoves,
       vars, clocks
  <2>5. PeriodEnds => late' = TRUE /\ recent' = recent
    BY DEF PeriodEnds
  <2>6. WindowEnds => recent' = FALSE /\ late' = late
    BY DEF WindowEnds
  <2> QED
    BY <2>1, <2>2, <2>3, <2>4, <2>5, <2>6 DEF Next
<1>6. late' \in BOOLEAN /\ recent' \in BOOLEAN
  BY <1>0, <1>4, <1>5, Zenon
<1> QED
  BY <1>1, <1>3, <1>6

LEMMA TypesStep == IInv /\ OfferInv /\ Types /\ [Next]_vars => Types'
<1> SUFFICES ASSUME IInv, OfferInv, Types, [Next]_vars PROVE Types'
  OBVIOUS
<1>1. \A r \in Refs : Behind(prov[r])'
  BY LaterStep DEF Later, Types, Behind
<1>2. /\ row'.provider_status # "absent" /\ draft'.provider_status # "absent"
      /\ \A p \in Syncers \cup Owners : got'[p].status # "absent"
      /\ \A p \in Syncers : pc'[p] = "fetching" => prov'[read'[p].ref].status # "absent"
  BY RowSees, AnswersSee, ReadsGiven
<1>3. /\ fetches' \in Seq(Syncers \cup Owners) /\ faults' \in 0..MaxFaults
      /\ late' \in BOOLEAN /\ recent' \in BOOLEAN
  BY ListAndClocks
<1> QED
  BY <1>1, <1>2, <1>3, Zenon DEF Types

\* Every variable has its type, and what is fetched or stored of a provider status is
\* that of a subscription that has been created.
THEOREM TypesHold == Spec => []TypeOK
<1>1. ASSUME IInv, Days, OfferInv, Types PROVE TypeOK
  <2>1. row \in Rows /\ draft \in Rows
    BY <1>1 DEF IInv, Typed, Types, WideRows, Rows
  <2>2. prov \in [Refs -> ProviderSubs]
    <3>1. ASSUME NEW r \in Refs PROVE prov[r] \in ProviderSubs
      <4>1. prov[r] \in WideSubs /\ prov[r].paid \subseteq 1..prov[r].cycle
        BY <1>1 DEF IInv, Typed, Types, Behind
      <4>2. prov[r].cycle \in 0..MaxCycle /\ MaxCycle \in Nat
        BY <4>1, SubscriptionAssumption DEF WideSubs
      <4>3. 1..prov[r].cycle \subseteq 1..MaxCycle
        BY <4>2
      <4>4. prov[r].paid \in SUBSET (1..MaxCycle)
        BY <4>1, <4>3
      <4> QED
        BY <4>1, <4>4 DEF WideSubs, ProviderSubs
    <3>2. prov = [r \in Refs |-> prov[r]]
      BY <1>1 DEF IInv, Typed
    <3> QED
      BY <3>1, <3>2
  <2>3. got \in [Syncers \cup Owners -> Snapshots]
    <3>1. ASSUME NEW p \in Syncers \cup Owners PROVE got[p] \in Snapshots
      BY <1>1 DEF IInv, Typed, Types, Fetchable, Snapshots
    <3>2. got = [p \in Syncers \cup Owners |-> got[p]]
      BY <1>1 DEF IInv, Typed
    <3> QED
      BY <3>1, <3>2
  <2>4. /\ tasks \subseteq {"sync", "dunning"} /\ lock \in Owners \cup {Free}
        /\ pc \in [Procs -> Stages]
        /\ read \in [Syncers \cup Dunners -> [ref : Refs \cup {NoRef}, period : 0..MaxCycle]]
    BY <1>1 DEF IInv, Typed
  <2>5. /\ late \in BOOLEAN /\ recent \in BOOLEAN /\ faults \in 0..MaxFaults
        /\ fetches \in Seq(Syncers \cup Owners)
    BY <1>1, Zenon DEF Types
  <2>6. offered \subseteq Refs /\ age \in 0..GRACE /\ asOf \in [Dunners -> 0..GRACE]
    BY <1>1 DEF OfferInv, Days
  <2> QED
    BY <2>1, <2>2, <2>3, <2>4, <2>5, <2>6, Zenon DEF TypeOK
<1>2. Init => IInv /\ GraceInv /\ OfferInv /\ Types
  BY InitInv, GraceInit, OfferInit, TypesInit
<1>3. IInv /\ GraceInv /\ OfferInv /\ Types /\ [Next]_vars
      => (IInv /\ GraceInv /\ OfferInv /\ Types)'
  BY StepInv, GraceStep, OfferStep, TypesStep
<1>4. IInv /\ GraceInv /\ OfferInv /\ Types => TypeOK
  BY <1>1 DEF GraceInv
<1> QED
  BY <1>2, <1>3, <1>4, PTL DEF Spec

=============================================================================
