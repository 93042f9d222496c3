---------------------------- MODULE GoogleProofs ----------------------------
(***************************************************************************)
(* What the Google components promise, for any number of attempts,          *)
(* accounts, locations, workers and tokens: GoogleReviews and               *)
(* GoogleConnection.                                                       *)
(*                                                                         *)
(* Of the reviews, a location without a mapping has no reviews, so that its *)
(* first mapping finds none of another Google location.  Of the attempts,   *)
(* as long as a code may still be used no worker holds it, and at most one  *)
(* ever does; of the tokens, one that is dead stays so, since Google issues *)
(* no token twice.                                                         *)
(***************************************************************************)
EXTENDS Components, FiniteSets, TLAPS

\* The variables of GoogleReviews.
mapping == v1
reviews == v2
usable == v3
syncs == v4
mapper == v5
syncer == v6
maps == v7

\* The variables of GoogleConnection.
attempt == v1
age == v2
exchanges == v3
sent == v4
conn == v5
worker == v6
refresher == v7
alive == v8
issued == v9
member == v10

USE DEF mapping, reviews, usable, syncs, mapper, syncer, maps, attempt, age, exchanges,
        sent, conn, worker, refresher, alive, issued, member


-----------------------------------------------------------------------------
(* GoogleReviews *)

MapperStates ==
  {q \in [pc : {"idle", "writing", "inserting"}, location : Locations \cup {None},
          gid : GoogleIds \cup {None}] :
     q.pc # "idle" => q.location \in Locations /\ q.gid \in GoogleIds}

\* A sync counts for the Google location it has listed, if for any.
SyncerStates ==
  {q \in [pc : {"idle", "listing", "upserting", "skipping", "finishing"},
          location : Locations \cup {None}, gid : GoogleIds \cup {None},
          page : 1..MaxPages, rating : GoogleIds \cup {None}] :
     q.pc # "idle" => /\ q.location \in Locations /\ q.gid \in GoogleIds
                      /\ q.rating \in {None, q.gid}}

ReviewsTyped ==
  /\ Reviews!TypeOK
  /\ mapper \in [Mappers -> MapperStates]
  /\ syncer \in [ReviewSyncers -> SyncerStates]

ReviewsIInv == ReviewsTyped /\ Reviews!ReviewsFollowMapping /\ Reviews!MappedApart

\* The idle processes and the absent mapping are of their types.
LEMMA NothingYet ==
  ASSUME Reviews!GoogleReviewsAssumption
  PROVE  /\ Reviews!IdleMapper \in MapperStates /\ Reviews!IdleSyncer \in SyncerStates
         /\ Reviews!Unmapped \in Reviews!Mappings
         /\ Reviews!Unmapped.gid = None /\ Reviews!Unmapped.rating = None
<1> USE DEF Reviews!GoogleReviewsAssumption
<1>1. Reviews!IdleMapper \in MapperStates
  BY DEF Reviews!IdleMapper, MapperStates
<1>2. Reviews!IdleSyncer \in SyncerStates
  BY DEF Reviews!IdleSyncer, SyncerStates
<1>3. /\ Reviews!Unmapped \in Reviews!Mappings
      /\ Reviews!Unmapped.gid = None /\ Reviews!Unmapped.rating = None
  BY DEF Reviews!Unmapped, Reviews!Mappings
<1> QED
  BY <1>1, <1>2, <1>3

\* Init establishes it.
LEMMA ReviewsStart ==
  ASSUME Reviews!GoogleReviewsAssumption, Reviews!Init
  PROVE  ReviewsIInv
<1> USE NothingYet DEF Reviews!Init
<1>1. ReviewsTyped
  BY DEF ReviewsTyped, Reviews!TypeOK
<1>2. Reviews!ReviewsFollowMapping /\ Reviews!MappedApart
  BY DEF Reviews!ReviewsFollowMapping, Reviews!MappedApart
<1> QED
  BY <1>1, <1>2 DEF ReviewsIInv

\* A step that leaves mappings and reviews alone.
LEMMA ProcessesMove ==
  ASSUME ReviewsIInv, UNCHANGED <<mapping, reviews>>, syncs' \subseteq Locations,
         mapper' \in [Mappers -> MapperStates], syncer' \in [ReviewSyncers -> SyncerStates]
  PROVE  ReviewsIInv'
<1>1. ReviewsTyped'
  BY DEF ReviewsIInv, ReviewsTyped, Reviews!TypeOK
<1> QED
  BY <1>1 DEF ReviewsIInv, Reviews!ReviewsFollowMapping, Reviews!MappedApart

\* The row of one location is written: a new mapping that conflicts with none, or
\* the same one with counters of its own.
LEMMA MappingMoves ==
  ASSUME ReviewsIInv, NEW l \in Locations, NEW row \in Reviews!Mappings,
         mapping' = [mapping EXCEPT ![l] = row], row.rating \in {None, row.gid},
         row.gid # None,
         row.gid = mapping[l].gid \/ ~Reviews!Conflicts(l, row.gid),
         reviews' \in [Locations -> SUBSET [gid : GoogleIds, page : 1..MaxPages]],
         \A k \in Locations \ {l} : reviews'[k] = reviews[k],
         \A r \in reviews'[l] : r.gid = row.gid,
         syncs' \subseteq Locations,
         mapper' \in [Mappers -> MapperStates], syncer' \in [ReviewSyncers -> SyncerStates]
  PROVE  ReviewsIInv'
<1> USE DEF ReviewsIInv
<1>1. mapping' \in [Locations -> Reviews!Mappings] /\ mapping'[l] = row
        /\ \A k \in Locations \ {l} : mapping'[k] = mapping[k]
  BY DEF ReviewsTyped, Reviews!TypeOK
<1>2. ReviewsTyped'
  BY <1>1 DEF ReviewsTyped, Reviews!TypeOK
<1>3. Reviews!ReviewsFollowMapping'
  BY <1>1 DEF Reviews!ReviewsFollowMapping
<1>4. Reviews!MappedApart'
  <2>1. \A k \in Locations \ {l} : mapping[k].gid # row.gid
    BY DEF Reviews!MappedApart, Reviews!Conflicts
  <2> QED
    BY <1>1, <2>1 DEF Reviews!MappedApart
<1> QED
  BY <1>2, <1>3, <1>4

\* The steps of a request that maps a location.
LEMMA MapperStep ==
  ASSUME Reviews!GoogleReviewsAssumption, ReviewsIInv, NEW m \in Mappers, Reviews!Mapping(m)
  PROVE  ReviewsIInv'
<1> USE DEF ReviewsIInv
<1> DEFINE l == mapper[m].location
           g == mapper[m].gid
<1>1. /\ mapper \in [Mappers -> MapperStates] /\ mapper[m] \in MapperStates
      /\ syncer \in [ReviewSyncers -> SyncerStates] /\ syncs \subseteq Locations
      /\ mapping \in [Locations -> Reviews!Mappings]
      /\ reviews \in [Locations -> SUBSET [gid : GoogleIds, page : 1..MaxPages]]
  BY DEF ReviewsTyped, Reviews!TypeOK
<1>2. ASSUME NEW q \in MapperStates, mapper' = [mapper EXCEPT ![m] = q]
      PROVE  mapper' \in [Mappers -> MapperStates]
  BY <1>1, <1>2
<1>3. Reviews!Answer(m) => mapper' \in [Mappers -> MapperStates]
  BY <1>2, NothingYet DEF Reviews!Answer
<1>4. ASSUME NEW k \in Locations, NEW h \in GoogleIds, Reviews!ListLocations(m, k, h)
      PROVE  ReviewsIInv'
  <2> DEFINE q == [pc |-> "writing", location |-> k, gid |-> h]
  <2>1. q \in MapperStates
    BY DEF MapperStates
  <2>2. mapper' = [mapper EXCEPT ![m] = q] /\ UNCHANGED <<mapping, reviews, syncs, syncer>>
    BY <1>4 DEF Reviews!ListLocations
  <2> HIDE DEF q
  <2> QED
    BY <1>1, <1>2, <2>1, <2>2, ProcessesMove
<1>5. CASE Reviews!WriteMapping(m)
  <2>1. /\ l \in Locations /\ g \in GoogleIds /\ mapping[l] \in Reviews!Mappings
        /\ Reviews!Answer(m) /\ UNCHANGED syncer
    BY <1>1, <1>5 DEF Reviews!WriteMapping, MapperStates
  <2>2. CASE UNCHANGED <<mapping, reviews, syncs>>
    BY <1>1, <1>3, <2>1, <2>2, ProcessesMove
  <2>3. CASE /\ ~Reviews!Conflicts(l, g)
             /\ mapping' = [mapping EXCEPT ![l] = Reviews!Remapped(l, g)]
             /\ reviews' = [reviews EXCEPT ![l] = Reviews!Kept(l, g)]
             /\ syncs' \in {syncs, syncs \cup {l}}
    <3> DEFINE row == Reviews!Remapped(l, g)
               kept == Reviews!Kept(l, g)
    <3>1. row \in Reviews!Mappings /\ row.gid = g /\ row.rating \in {None, g}
      BY <2>1 DEF Reviews!Remapped, Reviews!Mappings, Reviews!ReviewsFollowMapping
    <3>2. kept \in SUBSET [gid : GoogleIds, page : 1..MaxPages] /\ \A r \in kept : r.gid = g
      BY <1>1, <2>1 DEF Reviews!Kept, Reviews!ReviewsFollowMapping
    <3>3. mapping' = [mapping EXCEPT ![l] = row] /\ reviews' = [reviews EXCEPT ![l] = kept]
      BY <2>3
    <3> HIDE DEF row, kept
    <3>4. /\ reviews' \in [Locations -> SUBSET [gid : GoogleIds, page : 1..MaxPages]]
          /\ reviews'[l] = kept /\ \A k \in Locations \ {l} : reviews'[k] = reviews[k]
      BY <1>1, <2>1, <3>2, <3>3
    <3>5. g # None /\ syncs' \subseteq Locations
      BY <1>1, <2>1, <2>3 DEF Reviews!GoogleReviewsAssumption
    <3>6. \A r \in reviews'[l] : r.gid = row.gid
      BY <3>1, <3>2, <3>4
    <3>7. mapper' \in [Mappers -> MapperStates] /\ syncer' \in [ReviewSyncers -> SyncerStates]
      BY <1>1, <1>3, <2>1
    <3>8. row.gid # None /\ row.rating \in {None, row.gid} /\ ~Reviews!Conflicts(l, row.gid)
      BY <2>3, <3>1, <3>5
    <3> QED
      BY <2>1, <3>1, <3>3, <3>4, <3>5, <3>6, <3>7, <3>8, MappingMoves
  <2> QED
    BY <1>5, <2>2, <2>3 DEF Reviews!WriteMapping
<1>6. CASE Reviews!FindNoMapping(m)
  <2> DEFINE q == [mapper[m] EXCEPT !.pc = "inserting"]
  <2>1. q \in MapperStates
    BY <1>1, <1>6 DEF Reviews!FindNoMapping, MapperStates
  <2>2. mapper' = [mapper EXCEPT ![m] = q] /\ UNCHANGED <<mapping, reviews, syncs, syncer>>
    BY <1>1, <1>6 DEF Reviews!FindNoMapping
  <2> HIDE DEF q
  <2> QED
    BY <1>1, <1>2, <2>1, <2>2, ProcessesMove
<1>7. CASE Reviews!InsertMapping(m)
  <2>1. /\ l \in Locations /\ g \in GoogleIds /\ Reviews!Answer(m) /\ UNCHANGED <<reviews, syncer>>
    BY <1>1, <1>7 DEF Reviews!InsertMapping, MapperStates
  <2>2. CASE UNCHANGED <<mapping, syncs>>
    BY <1>1, <1>3, <2>1, <2>2, ProcessesMove
  <2>3. CASE /\ mapping[l].gid = None /\ ~Reviews!Conflicts(l, g)
             /\ mapping' = [mapping EXCEPT ![l] = [Reviews!Unmapped EXCEPT !.gid = g]]
             /\ syncs' \in {syncs, syncs \cup {l}}
    <3> DEFINE row == [Reviews!Unmapped EXCEPT !.gid = g]
    <3>1. row \in Reviews!Mappings /\ row.gid = g /\ row.rating = None
      BY <2>1, NothingYet DEF Reviews!Mappings
    <3>2. mapping' = [mapping EXCEPT ![l] = row]
      BY <2>3
    <3> HIDE DEF row
    <3>3. reviews[l] = {}
      BY <1>1, <2>1, <2>3 DEF Reviews!ReviewsFollowMapping, Reviews!GoogleReviewsAssumption
    <3>4. g # None /\ syncs' \subseteq Locations
      BY <1>1, <2>1, <2>3 DEF Reviews!GoogleReviewsAssumption
    <3> QED
      BY <1>1, <1>3, <2>1, <2>3, <3>1, <3>2, <3>3, <3>4, MappingMoves
  <2> QED
    BY <1>7, <2>2, <2>3 DEF Reviews!InsertMapping
<1>8. CASE Reviews!MapFails(m)
  BY <1>1, <1>3, <1>8, ProcessesMove DEF Reviews!MapFails
<1> QED
  BY <1>4, <1>5, <1>6, <1>7, <1>8 DEF Reviews!Mapping

\* The steps of a sync.
LEMMA SyncerStep ==
  ASSUME Reviews!GoogleReviewsAssumption, ReviewsIInv, NEW s \in ReviewSyncers, Reviews!Sync(s)
  PROVE  ReviewsIInv'
<1> USE DEF ReviewsIInv
<1> DEFINE l == syncer[s].location
<1>1. /\ mapper \in [Mappers -> MapperStates] /\ syncer \in [ReviewSyncers -> SyncerStates]
      /\ syncer[s] \in SyncerStates /\ syncs \subseteq Locations
      /\ mapping \in [Locations -> Reviews!Mappings]
      /\ reviews \in [Locations -> SUBSET [gid : GoogleIds, page : 1..MaxPages]]
  BY DEF ReviewsTyped, Reviews!TypeOK
<1>2. ASSUME NEW q \in SyncerStates, syncer' = [syncer EXCEPT ![s] = q]
      PROVE  syncer' \in [ReviewSyncers -> SyncerStates]
  BY <1>1, <1>2
<1>3. Reviews!EndSync(s) => syncer' \in [ReviewSyncers -> SyncerStates]
  BY <1>2, NothingYet DEF Reviews!EndSync
<1>4. ASSUME NEW k \in Locations, Reviews!StartSync(s, k) PROVE ReviewsIInv'
  <2> DEFINE q == [pc |-> "listing", location |-> k, gid |-> mapping[k].gid, page |-> 1,
                   rating |-> None]
  <2>1. mapping[k].gid \in GoogleIds
    BY <1>1, <1>4 DEF Reviews!StartSync, Reviews!Mappings
  <2>2. q \in SyncerStates
    BY <2>1 DEF SyncerStates, Reviews!GoogleReviewsAssumption
  <2>3. syncer' = [syncer EXCEPT ![s] = q] /\ syncs' \subseteq Locations
          /\ UNCHANGED <<mapping, reviews, mapper>>
    BY <1>1, <1>4 DEF Reviews!StartSync
  <2> HIDE DEF q
  <2> QED
    BY <1>1, <1>2, <2>2, <2>3, ProcessesMove
<1>5. CASE Reviews!ListReviews(s)
  <2>1. PICK pc \in {"upserting", "skipping"} : syncer' = [syncer EXCEPT ![s].pc = pc]
    BY <1>5 DEF Reviews!ListReviews
  <2> DEFINE q == [syncer[s] EXCEPT !.pc = pc]
  <2>2. q \in SyncerStates
    BY <1>1, <1>5 DEF Reviews!ListReviews, SyncerStates
  <2>3. syncer' = [syncer EXCEPT ![s] = q]
    BY <1>1, <2>1
  <2> HIDE DEF q
  <2> QED
    BY <1>1, <1>2, <1>5, <2>2, <2>3, ProcessesMove DEF Reviews!ListReviews
<1>6. CASE Reviews!UpsertReviews(s)
  <2>1. /\ l \in Locations /\ syncer[s].gid \in GoogleIds /\ syncer[s].page \in 1..MaxPages
        /\ UNCHANGED <<mapping, syncs, mapper>> /\ Reviews!NextPage(s)
    BY <1>1, <1>6 DEF Reviews!UpsertReviews, SyncerStates
  <2>2. syncer' \in [ReviewSyncers -> SyncerStates]
    <3> DEFINE rating == IF syncer[s].page = 1 THEN syncer[s].gid ELSE syncer[s].rating
               after == [syncer[s] EXCEPT !.rating = rating]
    <3>1. rating \in {None, syncer[s].gid} /\ rating \in GoogleIds \cup {None}
      BY <1>1, <1>6 DEF Reviews!UpsertReviews, SyncerStates
    <3> HIDE DEF rating
    <3>2. /\ after \in SyncerStates /\ after.page = syncer[s].page
          /\ after.location = l /\ after.gid = syncer[s].gid /\ after.rating = rating
      BY <1>1, <1>6, <3>1 DEF Reviews!UpsertReviews, SyncerStates
    <3>3. \/ syncer' = [syncer EXCEPT ![s] = [after EXCEPT !.pc = "finishing"]]
          \/ /\ syncer[s].page < MaxPages
             /\ syncer' = [syncer EXCEPT ![s] = [after EXCEPT !.pc = "listing",
                                                              !.page = syncer[s].page + 1]]
      BY <2>1 DEF Reviews!NextPage, rating
    <3> HIDE DEF after
    <3>4. [after EXCEPT !.pc = "finishing"] \in SyncerStates
      BY <2>1, <3>1, <3>2 DEF SyncerStates
    <3>5. ASSUME NEW page \in 1..MaxPages
          PROVE  [after EXCEPT !.pc = "listing", !.page = page] \in SyncerStates
      BY <2>1, <3>1, <3>2 DEF SyncerStates
    <3>6. syncer[s].page < MaxPages => syncer[s].page + 1 \in 1..MaxPages
      BY <2>1 DEF Reviews!GoogleReviewsAssumption
    <3> QED
      BY <1>2, <3>3, <3>4, <3>5, <3>6
  <2>3. CASE UNCHANGED reviews
    BY <1>1, <2>1, <2>2, <2>3, ProcessesMove
  <2>4. CASE /\ Reviews!SameMapping(s)
             /\ reviews' = [reviews EXCEPT ![l] = @ \cup {[gid |-> syncer[s].gid, page |-> syncer[s].page]}]
    <3> DEFINE row == mapping[l]
               more == reviews[l] \cup {[gid |-> syncer[s].gid, page |-> syncer[s].page]}
    <3>1. row \in Reviews!Mappings /\ row.gid = syncer[s].gid /\ row.rating \in {None, row.gid}
      BY <1>1, <2>1, <2>4 DEF Reviews!SameMapping, Reviews!ReviewsFollowMapping
    <3>2. more \in SUBSET [gid : GoogleIds, page : 1..MaxPages] /\ \A r \in more : r.gid = row.gid
      BY <1>1, <2>1, <3>1 DEF Reviews!ReviewsFollowMapping
    <3>3. reviews' = [reviews EXCEPT ![l] = more] /\ mapping' = [mapping EXCEPT ![l] = row]
      BY <1>1, <2>1, <2>4
    <3> HIDE DEF more, row
    <3>4. /\ reviews' \in [Locations -> SUBSET [gid : GoogleIds, page : 1..MaxPages]]
          /\ reviews'[l] = more /\ \A k \in Locations \ {l} : reviews'[k] = reviews[k]
      BY <1>1, <2>1, <3>2, <3>3
    <3>5. row.gid # None /\ row.gid = mapping[l].gid
      BY <2>1, <2>4, <3>1 DEF Reviews!GoogleReviewsAssumption, Reviews!SameMapping
    <3>6. syncs' \subseteq Locations /\ mapper' \in [Mappers -> MapperStates]
      BY <1>1, <2>1
    <3>7. \A r \in reviews'[l] : r.gid = row.gid
      BY <3>2, <3>4
    <3> QED
      BY <2>1, <2>2, <3>1, <3>3, <3>4, <3>5, <3>6, <3>7, MappingMoves
  <2> QED
    BY <1>6, <2>3, <2>4 DEF Reviews!UpsertReviews
<1>7. CASE Reviews!FinishSync(s)
  <2>1. /\ l \in Locations /\ syncer[s].gid \in GoogleIds /\ syncer[s].rating \in {None, syncer[s].gid}
        /\ UNCHANGED <<reviews, syncs, mapper>> /\ Reviews!EndSync(s)
    BY <1>1, <1>7 DEF Reviews!FinishSync, SyncerStates
  <2>2. CASE UNCHANGED mapping
    BY <1>1, <1>3, <2>1, <2>2, ProcessesMove
  <2>3. CASE /\ Reviews!SameMapping(s)
             /\ mapping' = [mapping EXCEPT ![l].rating = syncer[s].rating, ![l].synced = "recently"]
    <3> DEFINE row == [mapping[l] EXCEPT !.rating = syncer[s].rating, !.synced = "recently"]
    <3>1. row \in Reviews!Mappings /\ row.gid = mapping[l].gid /\ row.rating = syncer[s].rating
      BY <1>1, <2>1 DEF Reviews!Mappings
    <3>2. mapping' = [mapping EXCEPT ![l] = row]
      BY <1>1, <2>1, <2>3
    <3> HIDE DEF row
    <3>3. row.gid = syncer[s].gid /\ row.gid # None /\ \A r \in reviews[l] : r.gid = row.gid
      BY <2>1, <2>3, <3>1 DEF Reviews!SameMapping, Reviews!GoogleReviewsAssumption,
         Reviews!ReviewsFollowMapping
    <3> QED
      BY <1>1, <1>3, <2>1, <3>1, <3>2, <3>3, MappingMoves
  <2> QED
    BY <1>7, <2>2, <2>3 DEF Reviews!FinishSync
<1>8. CASE Reviews!SyncStops(s)
  <2>1. syncs' \subseteq Locations
    BY <1>1, <1>8 DEF Reviews!SyncStops
  <2> QED
    BY <1>1, <1>3, <1>8, <2>1, ProcessesMove DEF Reviews!SyncStops
<1> QED
  BY <1>4, <1>5, <1>6, <1>7, <1>8 DEF Reviews!Sync

\* Every step keeps it.
LEMMA ReviewsStep ==
  ASSUME Reviews!GoogleReviewsAssumption, ReviewsIInv, [Reviews!Next]_(Reviews!vars)
  PROVE  ReviewsIInv'
<1>1. /\ mapper \in [Mappers -> MapperStates] /\ syncer \in [ReviewSyncers -> SyncerStates]
      /\ syncs \subseteq Locations /\ mapping \in [Locations -> Reviews!Mappings]
  BY DEF ReviewsIInv, ReviewsTyped, Reviews!TypeOK
<1>2. CASE UNCHANGED Reviews!vars
  BY <1>1, <1>2, ProcessesMove DEF Reviews!vars
<1>3. ASSUME NEW m \in Mappers, Reviews!Mapping(m) PROVE ReviewsIInv'
  BY <1>3, MapperStep
<1>4. ASSUME NEW s \in ReviewSyncers, Reviews!Sync(s) PROVE ReviewsIInv'
  BY <1>4, SyncerStep
<1>5. ASSUME NEW l \in Locations, Reviews!SyncIntervalPasses(l) PROVE ReviewsIInv'
  <2> DEFINE row == [mapping[l] EXCEPT !.synced = "longAgo"]
  <2>1. row \in Reviews!Mappings /\ row.gid = mapping[l].gid /\ row.rating = mapping[l].rating
    BY <1>1 DEF Reviews!Mappings
  <2>2. mapping' = [mapping EXCEPT ![l] = row] /\ UNCHANGED <<reviews, syncs, mapper, syncer>>
    BY <1>1, <1>5 DEF Reviews!SyncIntervalPasses
  <2> HIDE DEF row
  <2>3. mapping' \in [Locations -> Reviews!Mappings]
          /\ \A k \in Locations : mapping'[k].gid = mapping[k].gid /\ mapping'[k].rating = mapping[k].rating
    BY <1>1, <2>1, <2>2
  <2> QED
    BY <2>2, <2>3 DEF ReviewsIInv, ReviewsTyped, Reviews!TypeOK, Reviews!ReviewsFollowMapping,
       Reviews!MappedApart
<1>6. CASE Reviews!BeatSync \/ Reviews!ConnectionChanges
  <2>1. UNCHANGED <<mapping, reviews, mapper, syncer>> /\ syncs' \subseteq Locations
    BY <1>1, <1>6 DEF Reviews!BeatSync, Reviews!ConnectionChanges
  <2> QED
    BY <1>1, <2>1, ProcessesMove
<1> QED
  BY <1>2, <1>3, <1>4, <1>5, <1>6 DEF Reviews!Next

\* ReviewsIInv implies ReviewsInv.
LEMMA ReviewsSuffices ==
  ASSUME Reviews!GoogleReviewsAssumption, ReviewsIInv
  PROVE  Reviews!ReviewsInv
  BY DEF ReviewsIInv, ReviewsTyped, Reviews!ReviewsInv

\* The reviews and counters of a location are those of the Google location it is
\* mapped to now, and no Google location feeds two locations, whatever is remapped
\* between the pages of a sync (_write_mapping, _upsert_reviews).
THEOREM ReviewsCorrect ==
  ASSUME Reviews!GoogleReviewsAssumption
  PROVE  Reviews!Spec => []Reviews!ReviewsInv
<1>1. Reviews!Init => ReviewsIInv
  BY ReviewsStart
<1>2. ReviewsIInv /\ [Reviews!Next]_(Reviews!vars) => ReviewsIInv'
  BY ReviewsStep
<1>3. ReviewsIInv => Reviews!ReviewsInv
  BY ReviewsSuffices
<1> QED
  BY <1>1, <1>2, <1>3, PTL DEF Reviews!Spec

\* In Components, whose behaviours run one component each, every state keeps
\* ReviewsInv, the invariant that the run checks: the same promise of
\* _write_mapping, _upsert_reviews.
THEOREM ReviewsHold == Spec => []ReviewsInv
<1> DEFINE Held == focus = "reviews" => ReviewsIInv
<1>1. Reviews!GoogleReviewsAssumption
  BY ComponentsAssumption DEF ComponentsAssumption
<1>2. Init => Held
  BY <1>1, ReviewsStart DEF Init
<1>3. Held /\ [Next]_allVars => Held'
  <2> SUFFICES ASSUME Held, [Next]_allVars, focus' = "reviews" PROVE ReviewsIInv'
    OBVIOUS
  <2>1. focus = "reviews" /\ [Reviews!Next]_(Reviews!vars)
    BY DEF Next, allVars, Reviews!vars
  <2> QED
    BY <1>1, <2>1, ReviewsStep
<1>4. Held => ReviewsInv
  BY <1>1, ReviewsSuffices DEF ReviewsInv
<1> QED
  BY <1>2, <1>3, <1>4, PTL DEF Spec

-----------------------------------------------------------------------------
(* GoogleConnection *)

\* What a worker marks an attempt failed with.
ExchangeFailures ==
  {"EXCHANGE_FAILED", "REFRESH_TOKEN_MISSING", "ACTOR_NOT_MEMBER", "GOOGLE_ACCOUNT_ALREADY_CONNECTED"}

\* The stages of a worker that has taken a code.
Holding == {"exchanging", "exchanged", "inserting", "updating", "failing"}

ExchangeWorkers ==
  {q \in [pc : Holding \cup {"idle", "taking"}, attempt : Attempts \cup {NoAttempt},
          account : GoogleAccounts \cup {"none"}, token : OAuth!Tokens,
          failure : ExchangeFailures \cup {"none"}] :
     /\ q.pc # "idle" => q.attempt \in Attempts
     /\ q.pc \in {"exchanged", "inserting", "updating"} => q.account \in GoogleAccounts
     /\ q.pc = "failing" => q.failure \in ExchangeFailures}

RefresherStates ==
  {q \in [pc : {"idle", "calling", "refreshed", "revoked"}, account : GoogleAccounts \cup {"none"},
          seen : OAuth!Tokens, token : OAuth!Tokens] :
     q.pc # "idle" => q.account \in GoogleAccounts}

OAuthTyped ==
  /\ OAuth!TypeOK
  /\ worker \in [Workers -> ExchangeWorkers]
  /\ refresher \in [Refreshers -> RefresherStates]

\* The rows of attempts: only one that waits for its exchange keeps a code, and a
\* failure is that of an attempt that failed.
RowSound(row) ==
  /\ row.code => row.status = "PENDING"
  /\ row.failure # "none" => row.status \in {"FAILED", "purged"}

RowsSound == \A a \in Attempts : RowSound(attempt[a])

\* The code of such an attempt has not been used, and is not going to be by a
\* worker under way.
UnusedRow(row) ==
  row.status \in {"absent", "ISSUED"} \/ row.code \/ row.failure = "OAUTH_EXPIRED"

\* A code is unused, or in the hands of one worker, or spent.
CodeInOneHand ==
  /\ \A a \in Attempts : UnusedRow(attempt[a]) =>
       /\ sent[a] = 0
       /\ \A w \in Workers : worker[w].pc \in Holding => worker[w].attempt # a
  /\ \A w \in Workers : worker[w].pc = "exchanging" => sent[worker[w].attempt] = 0
  /\ \A w, x \in Workers : worker[w].pc \in Holding /\ worker[x].pc \in Holding /\ w # x =>
       worker[w].attempt # worker[x].attempt
  /\ \A a \in Attempts : sent[a] <= 1

\* Nobody has a refresh token that Google has not issued.
TokensIssued ==
  /\ \A s \in GoogleAccounts : conn[s].token <= issued /\ \A t \in alive[s] : t <= issued
  /\ \A w \in Workers : worker[w].token <= issued
  /\ \A r \in Refreshers : refresher[r].seen <= issued /\ refresher[r].token <= issued

\* A token that was refused stays dead.
RefusedIsDead ==
  \A r \in Refreshers : refresher[r].pc = "revoked" => refresher[r].seen \notin alive[refresher[r].account]

OAuthIInv == /\ OAuthTyped /\ RowsSound /\ CodeInOneHand /\ TokensIssued /\ RefusedIsDead
             /\ OAuth!NoConnectionBehindFailure /\ OAuth!NeedsReauthIsTrue

\* The idle processes are of their types.
LEMMA IdleProcesses ==
  ASSUME OAuth!GoogleConnectionAssumption
  PROVE  /\ 0 \in OAuth!Tokens
         /\ OAuth!IdleWorker \in ExchangeWorkers /\ OAuth!IdleWorker.pc = "idle"
         /\ OAuth!IdleWorker.token = 0
         /\ OAuth!IdleRefresher \in RefresherStates /\ OAuth!IdleRefresher.pc = "idle"
         /\ OAuth!IdleRefresher.seen = 0 /\ OAuth!IdleRefresher.token = 0
<1>1. 0 \in OAuth!Tokens
  BY DEF OAuth!Tokens, OAuth!GoogleConnectionAssumption
<1>2. OAuth!IdleWorker \in ExchangeWorkers /\ OAuth!IdleWorker.pc = "idle" /\ OAuth!IdleWorker.token = 0
  BY <1>1 DEF OAuth!IdleWorker, ExchangeWorkers
<1>3. OAuth!IdleRefresher \in RefresherStates /\ OAuth!IdleRefresher.pc = "idle"
        /\ OAuth!IdleRefresher.seen = 0 /\ OAuth!IdleRefresher.token = 0
  BY <1>1 DEF OAuth!IdleRefresher, RefresherStates
<1> QED
  BY <1>1, <1>2, <1>3

\* Init establishes it.
LEMMA OAuthStarts ==
  ASSUME OAuth!GoogleConnectionAssumption, OAuth!Init
  PROVE  OAuthIInv
<1> USE IdleProcesses DEF OAuth!Init
<1>1. OAuth!TypeOK
  BY DEF OAuth!TypeOK, OAuth!AttemptRows, OAuth!ConnectionRows
<1>2. OAuthTyped
  BY <1>1 DEF OAuthTyped
<1>3. RowsSound
  BY DEF RowsSound, RowSound
<1>4. CodeInOneHand
  BY DEF CodeInOneHand, Holding
<1>5. TokensIssued /\ RefusedIsDead
  BY DEF TokensIssued, RefusedIsDead
<1>6. OAuth!NoConnectionBehindFailure /\ OAuth!NeedsReauthIsTrue
  BY DEF OAuth!NoConnectionBehindFailure, OAuth!NeedsReauthIsTrue
<1> QED
  BY <1>2, <1>3, <1>4, <1>5, <1>6 DEF OAuthIInv

\* What a row may become without a worker that holds its code: it is begun, its
\* code arrives, it expires or is purged.
RowLater(old, new) ==
  /\ new \in OAuth!AttemptRows /\ RowSound(new)
  /\ UnusedRow(new) => UnusedRow(old)
  /\ old.status \in {"COMPLETED", "purged"} =>
       new.status \in {"COMPLETED", "purged"} /\ new.failure = old.failure

\* A row is later than itself.
LEMMA SameRow ==
  ASSUME NEW row \in OAuth!AttemptRows, RowSound(row)
  PROVE  RowLater(row, row)
  BY DEF RowLater

\* The sweep ends what expired, and hides what is old, of sound rows.
LEMMA SweptLater ==
  ASSUME OAuthIInv, NEW a \in Attempts
  PROVE  /\ RowLater(attempt[a], OAuth!ExpiredRow(a))
         /\ RowLater(attempt[a], OAuth!SweptRow(a))
<1> DEFINE row == attempt[a]
           expired == OAuth!ExpiredRow(a)
<1>1. row \in OAuth!AttemptRows /\ RowSound(row)
  BY DEF OAuthIInv, OAuthTyped, OAuth!TypeOK, RowsSound
<1>2. ASSUME NEW code \in {"OAUTH_EXPIRED", "EXCHANGE_INTERRUPTED"}
      PROVE  /\ OAuth!Failed(code) \in OAuth!AttemptRows /\ ~OAuth!Failed(code).code
             /\ OAuth!Failed(code).status = "FAILED" /\ OAuth!Failed(code).failure = code
  BY DEF OAuth!Failed, OAuth!AttemptRows
<1>3. \/ expired = row
      \/ (row.status = "ISSUED" \/ row.code) /\ expired = OAuth!Failed("OAUTH_EXPIRED")
      \/ row.status = "PENDING" /\ expired = OAuth!Failed("EXCHANGE_INTERRUPTED")
  BY DEF OAuth!ExpiredRow
<1> HIDE DEF row, expired
<1>4. RowLater(row, expired)
  BY <1>1, <1>2, <1>3 DEF RowLater, RowSound, UnusedRow
<1> USE DEF row, expired
<1>5. RowLater(row, OAuth!SweptRow(a))
  <2> DEFINE purged == [expired EXCEPT !.status = "purged"]
  <2>1. expired \in OAuth!AttemptRows /\ RowSound(expired)
    BY <1>4 DEF RowLater
  <2> HIDE DEF expired
  <2>2. /\ purged \in OAuth!AttemptRows /\ purged.status = "purged"
        /\ purged.code = expired.code /\ purged.failure = expired.failure
    BY <2>1 DEF OAuth!AttemptRows
  <2>3. \/ OAuth!SweptRow(a) = expired
        \/ expired.status \in {"COMPLETED", "FAILED"} /\ OAuth!SweptRow(a) = purged
    BY DEF OAuth!SweptRow, expired
  <2> HIDE DEF purged
  <2>4. expired.status \in {"COMPLETED", "FAILED"} => RowLater(row, purged)
    BY <1>4, <2>1, <2>2 DEF RowLater, RowSound, UnusedRow
  <2> QED
    BY <1>4, <2>3, <2>4
<1> QED
  BY <1>4, <1>5

\* What the workers may become without one that takes up a code, or gives one away.
HandsMoveOn ==
  \A w \in Workers :
    \/ worker'[w] = worker[w]
    \/ worker'[w].pc \notin Holding
    \/ /\ worker[w].pc \in Holding /\ worker'[w].pc # "exchanging"
       /\ worker'[w].attempt = worker[w].attempt

\* Then no code changes hands.
LEMMA HandsKeep ==
  ASSUME CodeInOneHand, HandsMoveOn, UNCHANGED sent,
         \A a \in Attempts : RowLater(attempt[a], attempt'[a])
  PROVE  CodeInOneHand'
<1>1. \A a \in Attempts : UnusedRow(attempt'[a]) => UnusedRow(attempt[a])
  BY DEF RowLater
<1>2. \A w \in Workers : worker'[w].pc \in Holding =>
        worker[w].pc \in Holding /\ worker'[w].attempt = worker[w].attempt
  BY DEF HandsMoveOn
<1>3. \A w \in Workers : worker'[w].pc = "exchanging" =>
        worker[w].pc = "exchanging" /\ worker'[w].attempt = worker[w].attempt
  BY DEF HandsMoveOn, Holding
<1> QED
  BY <1>1, <1>2, <1>3 DEF CodeInOneHand

\* Rows and workers move on, and nothing else.
LEMMA RowsMoveOn ==
  ASSUME OAuth!GoogleConnectionAssumption, OAuthIInv,
         attempt' \in [Attempts -> OAuth!AttemptRows],
         \A a \in Attempts : RowLater(attempt[a], attempt'[a]),
         age' \in [Attempts -> 0..3], exchanges' \subseteq Attempts,
         worker' \in [Workers -> ExchangeWorkers], HandsMoveOn,
         \A w \in Workers : worker'[w].token \in {0, worker[w].token},
         UNCHANGED <<sent, conn, refresher, alive, issued>>
  PROVE  OAuthIInv'
<1> USE DEF OAuthIInv
<1>1. OAuthTyped'
  BY DEF OAuthTyped, OAuth!TypeOK
<1>2. RowsSound'
  BY DEF RowsSound, RowLater
<1>3. CodeInOneHand'
  BY HandsKeep
<1>4. TokensIssued' /\ RefusedIsDead' /\ OAuth!NeedsReauthIsTrue'
  <2>1. 0 <= issued
    BY DEF OAuthTyped, OAuth!TypeOK, OAuth!Tokens, OAuth!GoogleConnectionAssumption
  <2> QED
    BY <2>1 DEF TokensIssued, RefusedIsDead, OAuth!NeedsReauthIsTrue
<1>5. OAuth!NoConnectionBehindFailure'
  BY DEF OAuth!NoConnectionBehindFailure, RowLater
<1> QED
  BY <1>1, <1>2, <1>3, <1>4, <1>5

\* The requests, the sweep, and the clock.
LEMMA RequestStep ==
  ASSUME OAuth!GoogleConnectionAssumption, OAuthIInv,
         \/ \E a \in Attempts : OAuth!IssueState(a) \/ OAuth!CompleteOAuth(a) \/ OAuth!GetAttempt(a)
         \/ OAuth!Sweep \/ OAuth!Tick \/ OAuth!ActorRemoved
  PROVE  OAuthIInv'
<1> USE DEF OAuthIInv
<1>1. /\ attempt \in [Attempts -> OAuth!AttemptRows] /\ age \in [Attempts -> 0..3]
      /\ exchanges \subseteq Attempts /\ worker \in [Workers -> ExchangeWorkers]
      /\ \A a \in Attempts : RowSound(attempt[a])
  BY DEF OAuthTyped, OAuth!TypeOK, RowsSound
<1>2. UNCHANGED <<sent, conn, worker, refresher, alive, issued>>
  BY DEF OAuth!IssueState, OAuth!CompleteOAuth, OAuth!GetAttempt, OAuth!Sweep, OAuth!Tick,
     OAuth!ActorRemoved
<1>3. /\ \A b \in Attempts : RowLater(attempt[b], attempt[b])
      /\ HandsMoveOn /\ \A w \in Workers : worker'[w].token \in {0, worker[w].token}
  BY <1>1, <1>2, SameRow DEF HandsMoveOn
<1>4. ASSUME NEW a \in Attempts, OAuth!IssueState(a) PROVE OAuthIInv'
  <2> DEFINE row == [attempt[a] EXCEPT !.status = "ISSUED"]
  <2>1. /\ row \in OAuth!AttemptRows /\ row.status = "ISSUED" /\ row.code = attempt[a].code
        /\ row.failure = attempt[a].failure /\ attempt[a].status = "absent"
    BY <1>1, <1>4 DEF OAuth!AttemptRows, OAuth!IssueState
  <2>2. /\ attempt' = [b \in Attempts |-> IF b = a THEN row ELSE OAuth!SweptRow(b)]
        /\ UNCHANGED <<age, exchanges>>
    BY <1>4 DEF OAuth!IssueState
  <2> HIDE DEF row
  <2>3. RowLater(attempt[a], row)
    BY <1>1, <2>1 DEF RowLater, RowSound, UnusedRow
  <2>4. attempt' \in [Attempts -> OAuth!AttemptRows] /\ \A b \in Attempts : RowLater(attempt[b], attempt'[b])
    BY <2>1, <2>2, <2>3, SweptLater DEF RowLater
  <2> QED
    BY <1>1, <1>2, <1>3, <2>2, <2>4, RowsMoveOn
<1>5. ASSUME NEW a \in Attempts, OAuth!CompleteOAuth(a) PROVE OAuthIInv'
  <2> DEFINE row == [attempt[a] EXCEPT !.status = "PENDING", !.code = TRUE]
  <2>1. /\ row \in OAuth!AttemptRows /\ row.status = "PENDING" /\ row.code
        /\ row.failure = attempt[a].failure /\ attempt[a].status = "ISSUED"
    BY <1>1, <1>5 DEF OAuth!AttemptRows, OAuth!CompleteOAuth
  <2>2. /\ attempt' = [attempt EXCEPT ![a] = row]
        /\ UNCHANGED age /\ exchanges' \subseteq Attempts
    BY <1>1, <1>5 DEF OAuth!CompleteOAuth
  <2> HIDE DEF row
  <2>3. RowLater(attempt[a], row)
    BY <1>1, <2>1 DEF RowLater, RowSound, UnusedRow
  <2>4. attempt' \in [Attempts -> OAuth!AttemptRows] /\ \A b \in Attempts : RowLater(attempt[b], attempt'[b])
    BY <1>1, <1>3, <2>1, <2>2, <2>3
  <2> QED
    BY <1>1, <1>2, <1>3, <2>2, <2>4, RowsMoveOn
<1>6. ASSUME NEW a \in Attempts, OAuth!GetAttempt(a) PROVE OAuthIInv'
  <2>1. attempt' = [attempt EXCEPT ![a] = OAuth!ExpiredRow(a)] /\ UNCHANGED <<age, exchanges>>
    BY <1>6 DEF OAuth!GetAttempt
  <2>2. RowLater(attempt[a], OAuth!ExpiredRow(a))
    BY SweptLater
  <2>3. attempt' \in [Attempts -> OAuth!AttemptRows] /\ \A b \in Attempts : RowLater(attempt[b], attempt'[b])
    <3>1. OAuth!ExpiredRow(a) \in OAuth!AttemptRows
      BY <2>2 DEF RowLater
    <3> QED
      BY <1>1, <1>3, <2>1, <2>2, <3>1
  <2> QED
    BY <1>1, <1>2, <1>3, <2>1, <2>3, RowsMoveOn
<1>7. CASE OAuth!Sweep
  <2>1. attempt' = [a \in Attempts |-> OAuth!SweptRow(a)] /\ UNCHANGED <<age, exchanges>>
    BY <1>7 DEF OAuth!Sweep
  <2>2. attempt' \in [Attempts -> OAuth!AttemptRows] /\ \A b \in Attempts : RowLater(attempt[b], attempt'[b])
    BY <2>1, SweptLater DEF RowLater
  <2> QED
    BY <1>1, <1>2, <1>3, <2>1, <2>2, RowsMoveOn
<1>8. CASE OAuth!Tick \/ OAuth!ActorRemoved
  <2>1. age' \in [Attempts -> 0..3] /\ UNCHANGED <<attempt, exchanges>>
    BY <1>1, <1>8 DEF OAuth!Tick, OAuth!ActorRemoved
  <2> QED
    BY <1>1, <1>2, <1>3, <2>1, RowsMoveOn
<1> QED
  BY <1>4, <1>5, <1>6, <1>7, <1>8

\* An attempt whose worker finds it failed moves on, and so does one left alone.
LEMMA FailedLater ==
  ASSUME OAuthIInv, NEW w \in Workers, worker[w].pc \in Holding, NEW code \in ExchangeFailures
  PROVE  LET next == OAuth!MarkedFailed(worker[w].attempt, code)
         IN  /\ next \in [Attempts -> OAuth!AttemptRows]
             /\ \A a \in Attempts : RowLater(attempt[a], next[a])
<1> DEFINE a == worker[w].attempt
<1>1. /\ attempt \in [Attempts -> OAuth!AttemptRows] /\ \A b \in Attempts : RowSound(attempt[b])
      /\ a \in Attempts
  BY DEF OAuthIInv, OAuthTyped, OAuth!TypeOK, RowsSound, ExchangeWorkers, Holding
<1>2. \A b \in Attempts : RowLater(attempt[b], attempt[b])
  BY <1>1, SameRow
<1>3. /\ OAuth!Failed(code) \in OAuth!AttemptRows /\ ~OAuth!Failed(code).code
      /\ OAuth!Failed(code).status = "FAILED" /\ OAuth!Failed(code).failure = code
      /\ code # "OAUTH_EXPIRED"
  BY DEF OAuth!Failed, OAuth!AttemptRows, ExchangeFailures
<1>4. attempt[a].status = "PENDING" => RowLater(attempt[a], OAuth!Failed(code))
  BY <1>3 DEF RowLater, RowSound, UnusedRow
<1> QED
  BY <1>1, <1>2, <1>3, <1>4 DEF OAuth!MarkedFailed

\* The worker reads, gives up, waits for its rows or dies: only rows and workers move.
LEMMA WorkerMoves ==
  ASSUME OAuth!GoogleConnectionAssumption, OAuthIInv, NEW w \in Workers,
         \/ \E a \in Attempts : OAuth!ReadCode(w, a)
         \/ OAuth!TakeCode(w) /\ ~OAuth!CodeStillThere(worker[w].attempt)
         \/ OAuth!BeginFinish(w) \/ OAuth!FinishFails(w) \/ OAuth!Fail(w) \/ OAuth!WorkerDies(w)
         \/ OAuth!Finish(w) /\ ~OAuth!MayFinish(worker[w].attempt)
  PROVE  OAuthIInv'
<1>1. /\ attempt \in [Attempts -> OAuth!AttemptRows] /\ age \in [Attempts -> 0..3]
      /\ exchanges \subseteq Attempts /\ worker \in [Workers -> ExchangeWorkers]
      /\ \A a \in Attempts : RowSound(attempt[a])
  BY DEF OAuthIInv, OAuthTyped, OAuth!TypeOK, RowsSound
<1>2. \A b \in Attempts : RowLater(attempt[b], attempt[b])
  BY <1>1, SameRow
<1>3. ASSUME NEW q \in ExchangeWorkers, worker' = [worker EXCEPT ![w] = q],
             q.token \in {0, worker[w].token},
             \/ q = worker[w] \/ q.pc \notin Holding
             \/ /\ worker[w].pc \in Holding /\ q.pc # "exchanging"
                /\ q.attempt = worker[w].attempt
      PROVE  /\ worker' \in [Workers -> ExchangeWorkers] /\ HandsMoveOn
             /\ \A x \in Workers : worker'[x].token \in {0, worker[x].token}
  BY <1>1, <1>3 DEF HandsMoveOn
<1>4. OAuth!Idle(w) => /\ worker' \in [Workers -> ExchangeWorkers] /\ HandsMoveOn
                       /\ \A x \in Workers : worker'[x].token \in {0, worker[x].token}
  BY <1>3, IdleProcesses DEF OAuth!Idle, Holding
<1>5. ASSUME NEW a \in Attempts, OAuth!ReadCode(w, a) PROVE OAuthIInv'
  <2> DEFINE q == [worker[w] EXCEPT !.pc = "taking", !.attempt = a]
  <2>1. q \in ExchangeWorkers /\ q.pc \notin Holding /\ q.token = worker[w].token
    BY <1>1, <1>5 DEF ExchangeWorkers, OAuth!ReadCode, Holding
  <2>2. /\ worker' \in {worker, [worker EXCEPT ![w] = q]} /\ exchanges' \subseteq Attempts
        /\ UNCHANGED <<attempt, age, sent, conn, refresher, alive, issued>>
    BY <1>1, <1>5 DEF OAuth!ReadCode
  <2> HIDE DEF q
  <2>3. /\ worker' \in [Workers -> ExchangeWorkers] /\ HandsMoveOn
        /\ \A x \in Workers : worker'[x].token \in {0, worker[x].token}
    <3>1. CASE worker' = worker
      BY <1>1, <3>1 DEF HandsMoveOn
    <3>2. CASE worker' = [worker EXCEPT ![w] = q]
      BY <1>3, <2>1, <3>2
    <3> QED
      BY <2>2, <3>1, <3>2
  <2> QED
    BY <1>1, <1>2, <2>2, <2>3, RowsMoveOn
<1>6. ASSUME OAuth!Idle(w), UNCHANGED <<attempt, age, exchanges, sent, conn, refresher, alive, issued>>
      PROVE  OAuthIInv'
  BY <1>1, <1>2, <1>4, <1>6, RowsMoveOn
<1>7. CASE OAuth!TakeCode(w) /\ ~OAuth!CodeStillThere(worker[w].attempt)
  BY <1>6, <1>7 DEF OAuth!TakeCode
<1>8. CASE OAuth!BeginFinish(w)
  <2>1. /\ worker[w].pc = "exchanged" /\ worker[w].pc \in Holding
        /\ UNCHANGED <<age, exchanges, sent, conn, refresher, alive, issued>>
    BY <1>8 DEF OAuth!BeginFinish, Holding
  <2>2. CASE OAuth!Idle(w)
    <3>1. ASSUME NEW code \in {"REFRESH_TOKEN_MISSING", "ACTOR_NOT_MEMBER"},
                 attempt' = OAuth!MarkedFailed(worker[w].attempt, code)
          PROVE  OAuthIInv'
      <4>1. code \in ExchangeFailures
        BY DEF ExchangeFailures
      <4>2. attempt' \in [Attempts -> OAuth!AttemptRows] /\ \A a \in Attempts : RowLater(attempt[a], attempt'[a])
        BY <2>1, <3>1, <4>1, FailedLater
      <4> QED
        BY <1>1, <1>4, <2>1, <2>2, <4>2, RowsMoveOn
    <3>2. UNCHANGED attempt => OAuthIInv'
      BY <1>6, <2>1, <2>2
    <3> QED
      BY <1>8, <3>1, <3>2 DEF OAuth!BeginFinish
  <2>3. CASE \E pc \in {"inserting", "updating"} :
               worker' = [worker EXCEPT ![w].pc = pc] /\ UNCHANGED attempt
    <3>1. PICK pc \in {"inserting", "updating"} :
            worker' = [worker EXCEPT ![w].pc = pc] /\ UNCHANGED attempt
      BY <2>3
    <3> DEFINE q == [worker[w] EXCEPT !.pc = pc]
    <3>2. /\ q \in ExchangeWorkers /\ q.pc # "exchanging" /\ q.token = worker[w].token
          /\ q.attempt = worker[w].attempt
      BY <1>1, <2>1 DEF ExchangeWorkers, Holding
    <3>3. worker' = [worker EXCEPT ![w] = q]
      BY <1>1, <3>1
    <3> HIDE DEF q
    <3>4. /\ worker' \in [Workers -> ExchangeWorkers] /\ HandsMoveOn
          /\ \A x \in Workers : worker'[x].token \in {0, worker[x].token}
      BY <1>3, <2>1, <3>2, <3>3
    <3> QED
      BY <1>1, <1>2, <2>1, <3>1, <3>4, RowsMoveOn
  <2> QED
    BY <1>8, <2>2, <2>3 DEF OAuth!BeginFinish
<1>9. CASE OAuth!FinishFails(w)
  <2>1. /\ worker[w].pc \in {"inserting", "updating"} /\ worker[w].pc \in Holding
        /\ UNCHANGED <<attempt, age, exchanges, sent, conn, refresher, alive, issued>>
    BY <1>9 DEF OAuth!FinishFails, Holding
  <2>2. PICK code \in ExchangeFailures : OAuth!GotoFail(w, code)
    BY <1>9 DEF OAuth!FinishFails, ExchangeFailures
  <2> DEFINE q == [worker[w] EXCEPT !.pc = "failing", !.failure = code]
  <2>3. /\ q \in ExchangeWorkers /\ q.pc # "exchanging" /\ q.token = worker[w].token
        /\ q.attempt = worker[w].attempt
    BY <1>1, <2>1 DEF ExchangeWorkers, Holding
  <2>4. worker' = [worker EXCEPT ![w] = q]
    BY <1>1, <2>2 DEF OAuth!GotoFail
  <2> HIDE DEF q
  <2>5. /\ worker' \in [Workers -> ExchangeWorkers] /\ HandsMoveOn
        /\ \A x \in Workers : worker'[x].token \in {0, worker[x].token}
    BY <1>3, <2>1, <2>3, <2>4
  <2> QED
    BY <1>1, <1>2, <2>1, <2>5, RowsMoveOn
<1>10. CASE OAuth!Fail(w)
  <2>1. /\ worker[w].pc \in Holding /\ worker[w].failure \in ExchangeFailures /\ OAuth!Idle(w)
        /\ attempt' = OAuth!MarkedFailed(worker[w].attempt, worker[w].failure)
        /\ UNCHANGED <<age, exchanges, sent, conn, refresher, alive, issued>>
    BY <1>1, <1>10 DEF OAuth!Fail, ExchangeWorkers, Holding
  <2>2. attempt' \in [Attempts -> OAuth!AttemptRows] /\ \A a \in Attempts : RowLater(attempt[a], attempt'[a])
    BY <2>1, FailedLater
  <2> QED
    BY <1>1, <1>4, <2>1, <2>2, RowsMoveOn
<1>11. CASE OAuth!WorkerDies(w)
  BY <1>6, <1>11 DEF OAuth!WorkerDies
<1>12. CASE OAuth!Finish(w) /\ ~OAuth!MayFinish(worker[w].attempt)
  BY <1>6, <1>12 DEF OAuth!Finish
<1> QED
  BY <1>5, <1>7, <1>8, <1>9, <1>10, <1>11, <1>12

\* The worker takes a code that is still there: nobody else has it, or had it.
LEMMA CodeTaken ==
  ASSUME OAuth!GoogleConnectionAssumption, OAuthIInv, NEW w \in Workers,
         OAuth!TakeCode(w), OAuth!CodeStillThere(worker[w].attempt)
  PROVE  OAuthIInv'
<1> USE DEF OAuthIInv
<1> DEFINE a == worker[w].attempt
           row == [attempt[a] EXCEPT !.code = FALSE]
           q == [worker[w] EXCEPT !.pc = "exchanging"]
<1>1. /\ attempt \in [Attempts -> OAuth!AttemptRows] /\ worker \in [Workers -> ExchangeWorkers]
      /\ a \in Attempts /\ worker[w].pc = "taking"
  BY DEF OAuthTyped, OAuth!TypeOK, OAuth!TakeCode, ExchangeWorkers
<1>2. /\ attempt[a].code /\ attempt[a].status = "PENDING" /\ UnusedRow(attempt[a])
      /\ RowSound(attempt[a])
  BY <1>1 DEF OAuth!CodeStillThere, UnusedRow, RowsSound
<1>3. /\ row \in OAuth!AttemptRows /\ row.status = "PENDING" /\ ~row.code
      /\ row.failure = attempt[a].failure
  BY <1>1, <1>2 DEF OAuth!AttemptRows
<1>4. q \in ExchangeWorkers /\ q.pc = "exchanging" /\ q.attempt = a /\ q.token = worker[w].token
  BY <1>1 DEF ExchangeWorkers, Holding
<1>5. /\ attempt' = [attempt EXCEPT ![a] = row] /\ worker' = [worker EXCEPT ![w] = q]
      /\ UNCHANGED <<age, exchanges, sent, conn, refresher, alive, issued>>
  BY <1>1 DEF OAuth!TakeCode
<1> HIDE DEF row, q
<1>6. ~UnusedRow(row) /\ row.failure = "none" /\ RowSound(row)
  BY <1>2, <1>3 DEF UnusedRow, RowSound
<1>7. /\ attempt' \in [Attempts -> OAuth!AttemptRows] /\ attempt'[a] = row
      /\ \A b \in Attempts \ {a} : attempt'[b] = attempt[b]
      /\ worker' \in [Workers -> ExchangeWorkers] /\ worker'[w] = q
      /\ \A x \in Workers \ {w} : worker'[x] = worker[x]
  BY <1>1, <1>3, <1>4, <1>5
<1>8. OAuthTyped'
  BY <1>5, <1>7 DEF OAuthTyped, OAuth!TypeOK
<1>9. RowsSound'
  BY <1>6, <1>7 DEF RowsSound
<1>10. CodeInOneHand'
  <2>1. sent[a] = 0 /\ \A x \in Workers : worker[x].pc \in Holding => worker[x].attempt # a
    BY <1>1, <1>2 DEF CodeInOneHand
  <2>2. \A b \in Attempts : UnusedRow(attempt'[b]) => b # a /\ UnusedRow(attempt[b])
    BY <1>6, <1>7
  <2> HIDE DEF a
  <2> QED
    BY <1>1, <1>4, <1>5, <1>7, <2>1, <2>2 DEF CodeInOneHand
<1>11. TokensIssued' /\ RefusedIsDead' /\ OAuth!NeedsReauthIsTrue'
  BY <1>4, <1>5, <1>7 DEF TokensIssued, RefusedIsDead, OAuth!NeedsReauthIsTrue
<1>12. OAuth!NoConnectionBehindFailure'
  BY <1>2, <1>5, <1>7 DEF OAuth!NoConnectionBehindFailure
<1> QED
  BY <1>8, <1>9, <1>10, <1>11, <1>12

\* What Google issues is new, so it revives no token that was refused.
LEMMA IssueIsNew ==
  ASSUME OAuth!GoogleConnectionAssumption, OAuthIInv, NEW s \in GoogleAccounts,
         NEW t \in OAuth!Answers, OAuth!Issue(s, t)
  PROVE  /\ t \in OAuth!Tokens /\ issued' \in OAuth!Tokens /\ alive' \in [GoogleAccounts -> SUBSET OAuth!Tokens]
         /\ t <= issued' /\ issued <= issued'
         /\ \A k \in GoogleAccounts : \A u \in OAuth!Tokens :
              /\ u \in alive'[k] => u <= issued'
              /\ u <= issued /\ u \in alive'[k] => u \in alive[k]
<1>1. /\ issued \in 0..MaxTokens /\ alive \in [GoogleAccounts -> SUBSET OAuth!Tokens]
      /\ \A k \in GoogleAccounts : \A u \in alive[k] : u <= issued
  BY DEF OAuthIInv, OAuthTyped, OAuth!TypeOK, OAuth!Tokens, TokensIssued
<1>2. CASE t = 0
  BY <1>1, <1>2, IdleProcesses DEF OAuth!Issue, OAuth!Tokens
<1>3. CASE t # 0 /\ t \in OAuth!Tokens /\ t = issued + 1
  <2> DEFINE more == alive[s] \cup {t}
  <2>1. issued' = t /\ alive' = [alive EXCEPT ![s] = more]
    BY <1>1, <1>3 DEF OAuth!Issue
  <2>2. more \in SUBSET OAuth!Tokens /\ \A u \in more : u = t \/ u \in alive[s]
    BY <1>1, <1>3
  <2> HIDE DEF more
  <2>3. /\ alive' \in [GoogleAccounts -> SUBSET OAuth!Tokens]
        /\ \A k \in GoogleAccounts : \A u \in alive'[k] : u = t \/ u \in alive[k]
    BY <1>1, <2>1, <2>2
  <2>4. t <= issued' /\ issued <= issued' /\ ~(t <= issued)
    BY <1>1, <1>3, <2>1
  <2>5. \A u \in OAuth!Tokens : u <= issued => u <= issued'
    BY <1>1, <1>3, <2>1 DEF OAuth!Tokens
  <2> QED
    BY <1>1, <1>3, <2>1, <2>3, <2>4, <2>5
<1> QED
  BY <1>2, <1>3, IdleProcesses DEF OAuth!Answers

\* The worker sends its code: the only one to hold it, and for the first time.
LEMMA CodeSent ==
  ASSUME OAuth!GoogleConnectionAssumption, OAuthIInv, NEW w \in Workers, OAuth!ExchangeCode(w)
  PROVE  OAuthIInv'
<1> USE DEF OAuthIInv
<1> DEFINE a == worker[w].attempt
<1>1. /\ attempt \in [Attempts -> OAuth!AttemptRows] /\ worker \in [Workers -> ExchangeWorkers]
      /\ sent \in [Attempts -> Nat] /\ a \in Attempts
      /\ worker[w].pc = "exchanging" /\ worker[w].pc \in Holding
      /\ issued \in 0..MaxTokens /\ alive \in [GoogleAccounts -> SUBSET OAuth!Tokens]
  BY DEF OAuthTyped, OAuth!TypeOK, OAuth!ExchangeCode, OAuth!Tokens, ExchangeWorkers, Holding
<1>2. sent[a] = 0 /\ sent' = [sent EXCEPT ![a] = 1]
  <2>1. sent[a] = 0
    BY <1>1 DEF CodeInOneHand
  <2>2. sent' = [sent EXCEPT ![a] = sent[a] + 1]
    BY <1>1 DEF OAuth!ExchangeCode
  <2> QED
    BY <2>1, <2>2
<1>3. UNCHANGED <<attempt, age, exchanges, conn, refresher>>
  BY DEF OAuth!ExchangeCode
<1>4. ASSUME NEW q \in ExchangeWorkers, worker' = [worker EXCEPT ![w] = q],
             q.pc \in {"exchanged", "failing"}, q.attempt = a, q.token <= issued',
             issued' \in OAuth!Tokens, issued <= issued',
             alive' \in [GoogleAccounts -> SUBSET OAuth!Tokens],
             \A k \in GoogleAccounts : \A u \in OAuth!Tokens :
               /\ u \in alive'[k] => u <= issued'
               /\ u <= issued /\ u \in alive'[k] => u \in alive[k]
      PROVE  OAuthIInv'
  <2>1. /\ worker' \in [Workers -> ExchangeWorkers] /\ worker'[w] = q
        /\ \A x \in Workers \ {w} : worker'[x] = worker[x]
        /\ sent' \in [Attempts -> Nat] /\ sent'[a] = 1
        /\ \A b \in Attempts \ {a} : sent'[b] = sent[b]
    BY <1>1, <1>2, <1>4
  <2>2. OAuthTyped'
    BY <1>3, <1>4, <2>1 DEF OAuthTyped, OAuth!TypeOK
  <2>3. RowsSound' /\ OAuth!NoConnectionBehindFailure'
    BY <1>3 DEF RowsSound, OAuth!NoConnectionBehindFailure
  <2>4. CodeInOneHand'
    <3>1. ~UnusedRow(attempt[a])
      BY <1>1 DEF CodeInOneHand
    <3>2. \A x \in Workers \ {w} : worker[x].pc \in Holding => worker[x].attempt # a
      BY <1>1 DEF CodeInOneHand
    <3>3. \A x \in Workers \ {w} : worker[x].pc = "exchanging" =>
            sent'[worker[x].attempt] = 0
      <4>1. \A x \in Workers : worker[x].pc = "exchanging" =>
              worker[x].attempt \in Attempts /\ sent[worker[x].attempt] = 0
        BY <1>1 DEF ExchangeWorkers, CodeInOneHand
      <4> QED
        BY <2>1, <3>2, <4>1 DEF Holding
    <3> HIDE DEF a
    <3>4. \A x, y \in Workers : worker'[x].pc \in Holding /\ worker'[y].pc \in Holding /\ x # y =>
            worker'[x].attempt # worker'[y].attempt
      BY <1>1, <1>4, <2>1, <3>2 DEF CodeInOneHand, a
    <3>5. \A b \in Attempts : UnusedRow(attempt[b]) =>
            sent'[b] = 0 /\ \A x \in Workers : worker'[x].pc \in Holding => worker'[x].attempt # b
      BY <1>1, <1>4, <2>1, <3>1 DEF CodeInOneHand
    <3>6. \A b \in Attempts : sent'[b] <= 1
      BY <1>1, <2>1 DEF CodeInOneHand
    <3>7. \A x \in Workers : worker'[x].pc = "exchanging" => sent'[worker'[x].attempt] = 0
      BY <1>4, <2>1, <3>3
    <3> QED
      BY <1>3, <3>4, <3>5, <3>6, <3>7 DEF CodeInOneHand
  <2>5. TokensIssued'
    <3>1. \A u \in OAuth!Tokens : u <= issued => u <= issued'
      BY <1>1, <1>4 DEF OAuth!Tokens
    <3>2. /\ \A x \in Workers : worker[x].token \in OAuth!Tokens
          /\ \A r \in Refreshers : refresher[r].seen \in OAuth!Tokens /\ refresher[r].token \in OAuth!Tokens
          /\ \A k \in GoogleAccounts : conn[k].token \in OAuth!Tokens
      BY DEF OAuthTyped, OAuth!TypeOK, ExchangeWorkers, RefresherStates, OAuth!ConnectionRows
    <3> QED
      BY <1>3, <1>4, <2>1, <3>1, <3>2 DEF TokensIssued
  <2>6. RefusedIsDead' /\ OAuth!NeedsReauthIsTrue'
    <3>1. \A r \in Refreshers : refresher[r].seen \in OAuth!Tokens /\ refresher[r].seen <= issued
            /\ (refresher[r].pc # "idle" => refresher[r].account \in GoogleAccounts)
      BY DEF OAuthTyped, RefresherStates, TokensIssued
    <3>2. \A k \in GoogleAccounts : conn[k].token \in OAuth!Tokens /\ conn[k].token <= issued
      BY DEF OAuthTyped, OAuth!TypeOK, OAuth!ConnectionRows, TokensIssued
    <3> QED
      BY <1>3, <1>4, <3>1, <3>2 DEF RefusedIsDead, OAuth!NeedsReauthIsTrue
  <2> QED
    BY <2>2, <2>3, <2>4, <2>5, <2>6
<1>5. CASE OAuth!GotoFail(w, "EXCHANGE_FAILED") /\ UNCHANGED <<alive, issued>>
  <2> DEFINE q == [worker[w] EXCEPT !.pc = "failing", !.failure = "EXCHANGE_FAILED"]
  <2>1. q \in ExchangeWorkers /\ q.pc = "failing" /\ q.attempt = a /\ q.token = worker[w].token
    BY <1>1 DEF ExchangeWorkers, Holding, ExchangeFailures
  <2>2. worker' = [worker EXCEPT ![w] = q]
    BY <1>1, <1>5 DEF OAuth!GotoFail
  <2> HIDE DEF q
  <2>3. q.token <= issued /\ issued \in OAuth!Tokens /\ issued <= issued
          /\ \A k \in GoogleAccounts : \A u \in alive[k] : u <= issued
    BY <1>1, <2>1 DEF TokensIssued, OAuth!Tokens
  <2> QED
    BY <1>1, <1>4, <1>5, <2>1, <2>2, <2>3
<1>6. ASSUME NEW s \in GoogleAccounts, NEW t \in OAuth!Answers, OAuth!Issue(s, t),
             worker' = [worker EXCEPT ![w] = [@ EXCEPT !.pc = "exchanged",
                                                       !.account = s, !.token = t]]
      PROVE  OAuthIInv'
  <2> DEFINE q == [worker[w] EXCEPT !.pc = "exchanged", !.account = s, !.token = t]
  <2>1. t \in OAuth!Tokens
    BY <1>6, IssueIsNew
  <2>2. q \in ExchangeWorkers /\ q.pc = "exchanged" /\ q.attempt = a /\ q.token = t
    BY <1>1, <2>1 DEF ExchangeWorkers, Holding
  <2>3. worker' = [worker EXCEPT ![w] = q]
    BY <1>1, <1>6
  <2> HIDE DEF q
  <2> QED
    BY <1>4, <1>6, <2>2, <2>3, IssueIsNew
<1> QED
  BY <1>5, <1>6 DEF OAuth!ExchangeCode

\* The worker commits the connection with its attempt's completion.
LEMMA ConnectionCommitted ==
  ASSUME OAuth!GoogleConnectionAssumption, OAuthIInv, NEW w \in Workers,
         OAuth!Finish(w), OAuth!MayFinish(worker[w].attempt)
  PROVE  OAuthIInv'
<1> USE DEF OAuthIInv
<1> DEFINE a == worker[w].attempt
           s == worker[w].account
           row == [attempt[a] EXCEPT !.status = "COMPLETED"]
           token == IF worker[w].token = 0 THEN conn[s].token ELSE worker[w].token
           held == [status |-> "ACTIVE", fresh |-> TRUE, by |-> a, token |-> token]
<1>1. /\ attempt \in [Attempts -> OAuth!AttemptRows] /\ worker \in [Workers -> ExchangeWorkers]
      /\ conn \in [GoogleAccounts -> OAuth!ConnectionRows]
      /\ a \in Attempts /\ s \in GoogleAccounts /\ worker[w].pc \in Holding /\ worker[w].token \in OAuth!Tokens
  BY DEF OAuthTyped, OAuth!TypeOK, OAuth!Finish, ExchangeWorkers, Holding
<1>2. attempt[a].status = "PENDING" /\ ~attempt[a].code /\ attempt[a].failure = "none"
  <2>1. ~UnusedRow(attempt[a]) /\ RowSound(attempt[a])
    BY <1>1 DEF CodeInOneHand, RowsSound
  <2> QED
    BY <2>1 DEF UnusedRow, RowSound, OAuth!MayFinish
<1>3. /\ row \in OAuth!AttemptRows /\ row.status = "COMPLETED" /\ row.failure = "none"
      /\ row.code = attempt[a].code
  BY <1>1, <1>2 DEF OAuth!AttemptRows
<1>4. token \in OAuth!Tokens /\ token <= issued
  BY <1>1 DEF TokensIssued, OAuth!ConnectionRows
<1> HIDE DEF token
<1>5. /\ held \in OAuth!ConnectionRows /\ held.status = "ACTIVE" /\ held.by = a
      /\ held.token = token
  BY <1>1, <1>4 DEF OAuth!ConnectionRows
<1>6. /\ attempt' = [attempt EXCEPT ![a] = row] /\ conn' = [conn EXCEPT ![s] = held]
      /\ OAuth!Idle(w) /\ UNCHANGED <<age, exchanges, sent, refresher, alive, issued>>
  BY <1>1, <1>2 DEF OAuth!Finish, OAuth!MayFinish, token
<1> HIDE DEF row, held
<1>7. /\ attempt' \in [Attempts -> OAuth!AttemptRows] /\ attempt'[a] = row
      /\ \A b \in Attempts \ {a} : attempt'[b] = attempt[b]
      /\ conn' \in [GoogleAccounts -> OAuth!ConnectionRows] /\ conn'[s] = held
      /\ \A k \in GoogleAccounts \ {s} : conn'[k] = conn[k]
      /\ worker' \in [Workers -> ExchangeWorkers] /\ worker'[w] = OAuth!IdleWorker
      /\ \A x \in Workers \ {w} : worker'[x] = worker[x]
  BY <1>1, <1>3, <1>5, <1>6, IdleProcesses DEF OAuth!Idle
<1>8. \A b \in Attempts : RowLater(attempt[b], attempt'[b])
  <2>1. RowLater(attempt[a], row)
    BY <1>2, <1>3 DEF RowLater, RowSound, UnusedRow
  <2>2. \A b \in Attempts : RowLater(attempt[b], attempt[b])
    BY <1>1, SameRow DEF RowsSound
  <2> QED
    BY <1>7, <2>1, <2>2
<1>9. OAuthTyped' /\ RowsSound'
  <2>1. OAuthTyped'
    BY <1>6, <1>7 DEF OAuthTyped, OAuth!TypeOK
  <2>2. RowsSound'
    BY <1>8 DEF RowsSound, RowLater
  <2> QED
    BY <2>1, <2>2
<1>10. CodeInOneHand'
  <2>1. HandsMoveOn
    BY <1>7, IdleProcesses DEF HandsMoveOn, Holding
  <2> QED
    BY <1>6, <1>8, <2>1, HandsKeep
<1>11. TokensIssued' /\ RefusedIsDead' /\ OAuth!NeedsReauthIsTrue'
  <2>1. 0 <= issued
    BY DEF OAuthTyped, OAuth!TypeOK, OAuth!Tokens, OAuth!GoogleConnectionAssumption
  <2> HIDE DEF a, s
  <2> QED
    BY <1>1, <1>4, <1>5, <1>6, <1>7, <2>1, IdleProcesses
       DEF TokensIssued, RefusedIsDead, OAuth!NeedsReauthIsTrue
<1>12. OAuth!NoConnectionBehindFailure'
  <2>1. attempt'[a].status = "COMPLETED" /\ attempt'[a].failure = "none"
    BY <1>3, <1>7
  <2>2. \A k \in GoogleAccounts \ {s} : conn[k].status # "none" =>
          /\ conn[k].by \in Attempts /\ attempt'[conn[k].by].failure = "none"
          /\ attempt'[conn[k].by].status \in {"COMPLETED", "purged"}
    BY <1>8 DEF OAuth!NoConnectionBehindFailure, RowLater
  <2> HIDE DEF a, s
  <2> QED
    BY <1>1, <1>5, <1>7, <2>1, <2>2 DEF OAuth!NoConnectionBehindFailure
<1> QED
  BY <1>9, <1>10, <1>11, <1>12

\* A worker's step.
LEMMA ExchangeStep ==
  ASSUME OAuth!GoogleConnectionAssumption, OAuthIInv, NEW w \in Workers, OAuth!Exchange(w)
  PROVE  OAuthIInv'
<1>1. CASE OAuth!TakeCode(w)
  BY <1>1, CodeTaken, WorkerMoves
<1>2. CASE OAuth!ExchangeCode(w)
  BY <1>2, CodeSent
<1>3. CASE OAuth!Finish(w)
  BY <1>3, ConnectionCommitted, WorkerMoves
<1> QED
  BY <1>1, <1>2, <1>3, WorkerMoves DEF OAuth!Exchange

\* The refreshers and the connections they write, while no attempt moves.
LEMMA RefreshMoves ==
  ASSUME OAuthIInv, UNCHANGED <<attempt, age, exchanges, sent, worker>>,
         refresher' \in [Refreshers -> RefresherStates],
         conn' \in [GoogleAccounts -> OAuth!ConnectionRows],
         alive' \in [GoogleAccounts -> SUBSET OAuth!Tokens], issued' \in OAuth!Tokens,
         issued <= issued',
         \A k \in GoogleAccounts : conn'[k].by = conn[k].by /\ (conn'[k].status # "none" => conn[k].status # "none"),
         \A k \in GoogleAccounts : conn'[k].token <= issued' /\ \A u \in alive'[k] : u <= issued',
         \A r \in Refreshers : refresher'[r].seen <= issued' /\ refresher'[r].token <= issued',
         RefusedIsDead', OAuth!NeedsReauthIsTrue', OAuth!GoogleConnectionAssumption
  PROVE  OAuthIInv'
<1> USE DEF OAuthIInv
<1>1. OAuthTyped'
  BY DEF OAuthTyped, OAuth!TypeOK
<1>2. RowsSound' /\ CodeInOneHand'
  BY DEF RowsSound, CodeInOneHand
<1>3. TokensIssued'
  <2>1. \A x \in Workers : worker[x].token \in 0..MaxTokens /\ worker[x].token <= issued
    BY DEF OAuthTyped, ExchangeWorkers, OAuth!Tokens, TokensIssued
  <2>2. issued \in 0..MaxTokens /\ issued' \in 0..MaxTokens /\ MaxTokens \in Nat
    BY DEF OAuthTyped, OAuth!TypeOK, OAuth!Tokens, OAuth!GoogleConnectionAssumption
  <2>3. \A x \in Workers : worker[x].token <= issued'
    BY <2>1, <2>2
  <2> QED
    BY <2>3 DEF TokensIssued
<1>4. OAuth!NoConnectionBehindFailure'
  BY DEF OAuth!NoConnectionBehindFailure
<1> QED
  BY <1>1, <1>2, <1>3, <1>4

\* A refresher's step.
LEMMA RefreshStep ==
  ASSUME OAuth!GoogleConnectionAssumption, OAuthIInv, NEW r \in Refreshers, OAuth!Refresh(r)
  PROVE  OAuthIInv'
<1> USE DEF OAuthIInv
<1> DEFINE s == refresher[r].account
           Kept == UNCHANGED <<attempt, age, exchanges, sent, worker>>
<1>1. /\ refresher \in [Refreshers -> RefresherStates] /\ refresher[r] \in RefresherStates
      /\ conn \in [GoogleAccounts -> OAuth!ConnectionRows]
      /\ alive \in [GoogleAccounts -> SUBSET OAuth!Tokens] /\ issued \in OAuth!Tokens /\ issued <= issued
      /\ Kept
  <2>1. Kept
    BY DEF OAuth!Refresh, OAuth!ReadConnection, OAuth!RefreshAnswer, OAuth!StoreRefreshed,
       OAuth!MarkNeedsReauth, OAuth!RefreshFails
  <2> QED
    BY <2>1 DEF OAuthTyped, OAuth!TypeOK, OAuth!Tokens, OAuth!GoogleConnectionAssumption
<1>2. /\ \A k \in GoogleAccounts : conn[k].token <= issued /\ \A u \in alive[k] : u <= issued
      /\ \A x \in Refreshers : refresher[x].seen <= issued /\ refresher[x].token <= issued
  BY DEF TokensIssued
<1>3. ASSUME NEW q \in RefresherStates, refresher' = [refresher EXCEPT ![r] = q],
             q.seen <= issued, q.token <= issued,
             q.pc = "revoked" => q.seen \notin alive[q.account],
             UNCHANGED <<alive, issued>>,
             conn' \in [GoogleAccounts -> OAuth!ConnectionRows],
             \A k \in GoogleAccounts :
               /\ conn'[k].by = conn[k].by /\ (conn'[k].status # "none" => conn[k].status # "none")
               /\ conn'[k].token <= issued
               /\ conn'[k].status = "NEEDS_REAUTH" => conn'[k].token \notin alive[k]
      PROVE  OAuthIInv'
  <2>1. /\ refresher' \in [Refreshers -> RefresherStates]
        /\ \A x \in Refreshers : refresher'[x].seen <= issued' /\ refresher'[x].token <= issued'
        /\ RefusedIsDead'
    BY <1>1, <1>2, <1>3 DEF RefusedIsDead
  <2>2. /\ alive' \in [GoogleAccounts -> SUBSET OAuth!Tokens] /\ issued' \in OAuth!Tokens /\ issued <= issued'
        /\ \A k \in GoogleAccounts : conn'[k].token <= issued' /\ \A u \in alive'[k] : u <= issued'
        /\ OAuth!NeedsReauthIsTrue'
    BY <1>1, <1>2, <1>3 DEF OAuth!NeedsReauthIsTrue
  <2> QED
    BY <1>1, <1>3, <2>1, <2>2, RefreshMoves
<1>4. ASSUME UNCHANGED conn
      PROVE  /\ conn' \in [GoogleAccounts -> OAuth!ConnectionRows]
             /\ \A k \in GoogleAccounts :
                  /\ conn'[k].by = conn[k].by /\ (conn'[k].status # "none" => conn[k].status # "none")
                  /\ conn'[k].token <= issued
                  /\ conn'[k].status = "NEEDS_REAUTH" => conn'[k].token \notin alive[k]
  BY <1>1, <1>2, <1>4 DEF OAuth!NeedsReauthIsTrue
<1>5. /\ OAuth!IdleRefresher \in RefresherStates /\ OAuth!IdleRefresher.pc = "idle"
      /\ OAuth!IdleRefresher.seen <= issued /\ OAuth!IdleRefresher.token <= issued
  BY <1>1, IdleProcesses DEF OAuth!Tokens
<1>6. ASSUME NEW k \in GoogleAccounts, OAuth!ReadConnection(r, k) PROVE OAuthIInv'
  <2> DEFINE q == [pc |-> "calling", account |-> k, seen |-> conn[k].token, token |-> 0]
  <2>1. conn[k].token \in OAuth!Tokens /\ conn[k].token <= issued /\ 0 <= issued
    BY <1>1, <1>2 DEF OAuth!ConnectionRows, OAuth!Tokens
  <2>2. q \in RefresherStates /\ q.pc = "calling" /\ q.seen <= issued /\ q.token <= issued
    BY <2>1, IdleProcesses DEF RefresherStates
  <2>3. refresher' = [refresher EXCEPT ![r] = q] /\ UNCHANGED <<conn, alive, issued>>
    BY <1>6 DEF OAuth!ReadConnection
  <2> HIDE DEF q
  <2> QED
    BY <1>3, <1>4, <2>2, <2>3
<1>7. CASE OAuth!RefreshAnswer(r) /\ refresher[r].seen \in alive[s]
  <2>1. PICK t \in OAuth!Answers :
          /\ refresher' = [refresher EXCEPT ![r] = [@ EXCEPT !.pc = "refreshed", !.token = t]]
          /\ OAuth!Issue(s, t)
    BY <1>7 DEF OAuth!RefreshAnswer
  <2>2. s \in GoogleAccounts /\ refresher[r].pc = "calling" /\ UNCHANGED conn
    BY <1>1, <1>7 DEF OAuth!RefreshAnswer, RefresherStates
  <2>3. /\ t \in OAuth!Tokens /\ issued' \in OAuth!Tokens /\ alive' \in [GoogleAccounts -> SUBSET OAuth!Tokens]
        /\ t <= issued' /\ issued <= issued'
        /\ \A k \in GoogleAccounts : \A u \in OAuth!Tokens :
             /\ u \in alive'[k] => u <= issued'
             /\ u <= issued /\ u \in alive'[k] => u \in alive[k]
    BY <2>1, <2>2, IssueIsNew
  <2> DEFINE q == [refresher[r] EXCEPT !.pc = "refreshed", !.token = t]
  <2>4. /\ q \in RefresherStates /\ q.pc = "refreshed" /\ q.seen = refresher[r].seen /\ q.token = t
    BY <1>1, <1>7, <2>2, <2>3 DEF RefresherStates
  <2>5. refresher' = [refresher EXCEPT ![r] = q]
    BY <1>1, <2>1
  <2> HIDE DEF q
  <2>6. \A u \in OAuth!Tokens : u <= issued => u <= issued'
    BY <1>1, <2>3 DEF OAuth!Tokens
  <2>7. /\ \A x \in Refreshers : refresher[x] \in RefresherStates
        /\ \A x \in Refreshers : refresher[x].seen \in OAuth!Tokens /\ refresher[x].token \in OAuth!Tokens
        /\ \A k \in GoogleAccounts : conn[k].token \in OAuth!Tokens
    BY <1>1 DEF RefresherStates, OAuth!ConnectionRows
  <2>8. refresher' \in [Refreshers -> RefresherStates]
          /\ \A x \in Refreshers : refresher'[x].seen <= issued' /\ refresher'[x].token <= issued'
    BY <1>1, <1>2, <2>3, <2>4, <2>5, <2>6, <2>7
  <2>9. RefusedIsDead'
    <3>1. \A x \in Refreshers : refresher'[x].pc = "revoked" => refresher'[x] = refresher[x]
      BY <1>1, <2>4, <2>5
    <3>2. \A x \in Refreshers : refresher[x].pc = "revoked" => refresher[x].account \in GoogleAccounts
      BY <2>7 DEF RefresherStates
    <3> QED
      BY <1>2, <2>3, <2>7, <3>1, <3>2 DEF RefusedIsDead
  <2>10. OAuth!NeedsReauthIsTrue'
    BY <1>2, <2>2, <2>3, <2>7 DEF OAuth!NeedsReauthIsTrue
  <2>11. \A k \in GoogleAccounts : conn'[k].token <= issued' /\ \A u \in alive'[k] : u <= issued'
    BY <1>2, <2>2, <2>3, <2>6, <2>7
  <2>12. conn' \in [GoogleAccounts -> OAuth!ConnectionRows] /\ \A k \in GoogleAccounts : conn'[k].by = conn[k].by
            /\ (conn'[k].status # "none" => conn[k].status # "none")
    BY <1>1, <2>2
  <2> QED
    BY <1>1, <2>3, <2>8, <2>9, <2>10, <2>11, <2>12, RefreshMoves
<1>8. CASE OAuth!RefreshAnswer(r) /\ refresher[r].seen \notin alive[s]
  <2> DEFINE q == [refresher[r] EXCEPT !.pc = "revoked"]
  <2>1. /\ q \in RefresherStates /\ q.seen = refresher[r].seen /\ q.token = refresher[r].token
        /\ q.account = s
    BY <1>1, <1>8 DEF RefresherStates, OAuth!RefreshAnswer
  <2>2. refresher' = [refresher EXCEPT ![r] = q] /\ UNCHANGED <<conn, alive, issued>>
    BY <1>1, <1>8 DEF OAuth!RefreshAnswer
  <2> HIDE DEF q
  <2>3. q.seen <= issued /\ q.token <= issued /\ q.seen \notin alive[q.account]
    BY <1>2, <1>8, <2>1
  <2> QED
    BY <1>3, <1>4, <2>1, <2>2, <2>3
<1>9. CASE OAuth!StoreRefreshed(r)
  <2>1. /\ refresher' = [refresher EXCEPT ![r] = OAuth!IdleRefresher] /\ UNCHANGED <<alive, issued>>
    BY <1>9 DEF OAuth!StoreRefreshed
  <2>2. CASE OAuth!SameToken(r)
    <3> DEFINE token == IF refresher[r].token = 0 THEN conn[s].token ELSE refresher[r].token
               row == [conn[s] EXCEPT !.fresh = TRUE, !.token = token]
    <3>1. s \in GoogleAccounts /\ conn[s] \in OAuth!ConnectionRows /\ token \in OAuth!Tokens /\ token <= issued
      BY <1>1, <1>2, <1>9 DEF OAuth!StoreRefreshed, RefresherStates, OAuth!ConnectionRows
    <3> HIDE DEF token
    <3>2. /\ row \in OAuth!ConnectionRows /\ row.by = conn[s].by /\ row.status = "ACTIVE"
          /\ row.token = token
      BY <2>2, <3>1 DEF OAuth!ConnectionRows, OAuth!SameToken
    <3>3. conn' = [conn EXCEPT ![s] = row]
      BY <1>1, <1>9, <2>2, <3>1 DEF OAuth!StoreRefreshed, token
    <3> HIDE DEF row
    <3>4. /\ conn' \in [GoogleAccounts -> OAuth!ConnectionRows]
          /\ \A k \in GoogleAccounts :
               /\ conn'[k].by = conn[k].by /\ (conn'[k].status # "none" => conn[k].status # "none")
               /\ conn'[k].token <= issued
               /\ conn'[k].status = "NEEDS_REAUTH" => conn'[k].token \notin alive[k]
      BY <1>1, <1>2, <2>2, <3>1, <3>2, <3>3 DEF OAuth!NeedsReauthIsTrue, OAuth!SameToken
    <3> QED
      BY <1>3, <1>5, <2>1, <3>4
  <2>3. CASE ~OAuth!SameToken(r)
    <3>1. UNCHANGED conn
      BY <1>9, <2>3 DEF OAuth!StoreRefreshed
    <3> QED
      BY <1>3, <1>4, <1>5, <2>1, <3>1
  <2> QED
    BY <2>2, <2>3
<1>10. CASE OAuth!MarkNeedsReauth(r)
  <2>1. /\ refresher' = [refresher EXCEPT ![r] = OAuth!IdleRefresher] /\ UNCHANGED <<alive, issued>>
    BY <1>10 DEF OAuth!MarkNeedsReauth
  <2>2. CASE OAuth!SameToken(r)
    <3> DEFINE row == [conn[s] EXCEPT !.status = "NEEDS_REAUTH"]
    <3>1. s \in GoogleAccounts /\ conn[s] \in OAuth!ConnectionRows /\ refresher[r].seen \notin alive[s]
      BY <1>1, <1>10 DEF OAuth!MarkNeedsReauth, RefresherStates, RefusedIsDead
    <3>2. /\ row \in OAuth!ConnectionRows /\ row.by = conn[s].by
          /\ row.token = refresher[r].seen /\ row.token = conn[s].token /\ conn[s].status = "ACTIVE"
      BY <2>2, <3>1 DEF OAuth!ConnectionRows, OAuth!SameToken
    <3>3. conn' = [conn EXCEPT ![s] = row]
      BY <1>1, <1>10, <2>2, <3>1 DEF OAuth!MarkNeedsReauth
    <3> HIDE DEF row
    <3>4. /\ conn' \in [GoogleAccounts -> OAuth!ConnectionRows]
          /\ \A k \in GoogleAccounts :
               /\ conn'[k].by = conn[k].by /\ (conn'[k].status # "none" => conn[k].status # "none")
               /\ conn'[k].token <= issued
               /\ conn'[k].status = "NEEDS_REAUTH" => conn'[k].token \notin alive[k]
      BY <1>1, <1>2, <3>1, <3>2, <3>3 DEF OAuth!NeedsReauthIsTrue
    <3> QED
      BY <1>3, <1>5, <2>1, <3>4
  <2>3. CASE ~OAuth!SameToken(r)
    <3>1. UNCHANGED conn
      BY <1>10, <2>3 DEF OAuth!MarkNeedsReauth
    <3> QED
      BY <1>3, <1>4, <1>5, <2>1, <3>1
  <2> QED
    BY <2>2, <2>3
<1>11. CASE OAuth!RefreshFails(r)
  <2>1. /\ refresher' = [refresher EXCEPT ![r] = OAuth!IdleRefresher]
        /\ UNCHANGED <<conn, alive, issued>>
    BY <1>11 DEF OAuth!RefreshFails
  <2> QED
    BY <1>3, <1>4, <1>5, <2>1
<1> QED
  BY <1>6, <1>7, <1>8, <1>9, <1>10, <1>11 DEF OAuth!Refresh

\* Access tokens expire and users revoke: no refresh token comes back to life.
LEMMA TokensEnd ==
  ASSUME OAuth!GoogleConnectionAssumption, OAuthIInv, NEW s \in GoogleAccounts,
         OAuth!AccessTokenExpires(s) \/ OAuth!UserRevokes(s)
  PROVE  OAuthIInv'
<1> USE DEF OAuthIInv
<1>1. /\ refresher \in [Refreshers -> RefresherStates]
      /\ conn \in [GoogleAccounts -> OAuth!ConnectionRows]
      /\ alive \in [GoogleAccounts -> SUBSET OAuth!Tokens] /\ issued \in OAuth!Tokens /\ issued <= issued
      /\ \A r \in Refreshers : refresher[r].seen <= issued /\ refresher[r].token <= issued
      /\ UNCHANGED <<attempt, age, exchanges, sent, worker, refresher, issued>>
  BY DEF OAuthTyped, OAuth!TypeOK, OAuth!AccessTokenExpires, OAuth!UserRevokes, OAuth!Tokens,
     OAuth!GoogleConnectionAssumption, TokensIssued
<1>2. /\ conn' \in [GoogleAccounts -> OAuth!ConnectionRows]
      /\ \A k \in GoogleAccounts : /\ conn'[k].by = conn[k].by /\ conn'[k].status = conn[k].status
                             /\ conn'[k].token = conn[k].token
  <2>1. CASE OAuth!AccessTokenExpires(s)
    <3> DEFINE row == [conn[s] EXCEPT !.fresh = FALSE]
    <3>1. /\ row \in OAuth!ConnectionRows /\ row.by = conn[s].by /\ row.status = conn[s].status
          /\ row.token = conn[s].token
      BY <1>1 DEF OAuth!ConnectionRows
    <3>2. conn' = [conn EXCEPT ![s] = row]
      BY <1>1, <2>1 DEF OAuth!AccessTokenExpires
    <3> HIDE DEF row
    <3> QED
      BY <1>1, <3>1, <3>2
  <2>2. CASE OAuth!UserRevokes(s)
    BY <1>1, <2>2 DEF OAuth!UserRevokes
  <2> QED
    BY <2>1, <2>2
<1>3. /\ alive' \in [GoogleAccounts -> SUBSET OAuth!Tokens]
      /\ \A k \in GoogleAccounts : \A u \in alive'[k] : u \in alive[k]
  BY <1>1 DEF OAuth!AccessTokenExpires, OAuth!UserRevokes
<1>4. RefusedIsDead' /\ OAuth!NeedsReauthIsTrue'
  <2>1. \A r \in Refreshers : refresher[r].pc = "revoked" => refresher[r].account \in GoogleAccounts
    BY <1>1 DEF RefresherStates
  <2> QED
    BY <1>1, <1>2, <1>3, <2>1 DEF RefusedIsDead, OAuth!NeedsReauthIsTrue
<1>5. \A k \in GoogleAccounts : conn'[k].token <= issued' /\ \A u \in alive'[k] : u <= issued'
  BY <1>1, <1>2, <1>3 DEF TokensIssued
<1>6. \A r \in Refreshers : refresher'[r].seen <= issued' /\ refresher'[r].token <= issued'
  BY <1>1
<1> QED
  BY <1>1, <1>2, <1>3, <1>4, <1>5, <1>6, RefreshMoves

\* Every step keeps it.
LEMMA OAuthStep ==
  ASSUME OAuth!GoogleConnectionAssumption, OAuthIInv, [OAuth!Next]_(OAuth!vars)
  PROVE  OAuthIInv'
<1>1. CASE UNCHANGED OAuth!vars
  BY <1>1 DEF OAuth!vars, OAuthIInv, OAuthTyped, OAuth!TypeOK, RowsSound, CodeInOneHand,
     TokensIssued, RefusedIsDead, OAuth!NoConnectionBehindFailure, OAuth!NeedsReauthIsTrue
<1>2. ASSUME NEW w \in Workers, OAuth!Exchange(w) PROVE OAuthIInv'
  BY <1>2, ExchangeStep
<1>3. ASSUME NEW r \in Refreshers, OAuth!Refresh(r) PROVE OAuthIInv'
  BY <1>3, RefreshStep
<1>4. ASSUME NEW s \in GoogleAccounts, OAuth!AccessTokenExpires(s) \/ OAuth!UserRevokes(s) PROVE OAuthIInv'
  BY <1>4, TokensEnd
<1> QED
  BY <1>1, <1>2, <1>3, <1>4, RequestStep DEF OAuth!Next

\* OAuthIInv implies OAuthInv.
LEMMA OAuthSuffices ==
  ASSUME OAuth!GoogleConnectionAssumption, OAuthIInv
  PROVE  OAuth!OAuthInv
  BY DEF OAuthIInv, OAuthTyped, OAuth!OAuthInv, OAuth!CodeSpentOnce, CodeInOneHand, UnusedRow

\* An authorization code reaches Google at most once, no connection stands behind an
\* attempt reported as failed, and only a dead refresh token asks for reauthorization,
\* whatever is delivered twice, raced, interrupted or answered late (exchange_oauth_code,
\* refresh_connection).
THEOREM OAuthCorrect ==
  ASSUME OAuth!GoogleConnectionAssumption
  PROVE  OAuth!Spec => []OAuth!OAuthInv
<1>1. OAuth!Init => OAuthIInv
  BY OAuthStarts
<1>2. OAuthIInv /\ [OAuth!Next]_(OAuth!vars) => OAuthIInv'
  BY OAuthStep
<1>3. OAuthIInv => OAuth!OAuthInv
  BY OAuthSuffices
<1> QED
  BY <1>1, <1>2, <1>3, PTL DEF OAuth!Spec

\* In Components, whose behaviours run one component each, every state keeps
\* OAuthInv, the invariant that the run checks: the same promise of
\* exchange_oauth_code, refresh_connection.
THEOREM OAuthHolds == Spec => []OAuthInv
<1> DEFINE Held == focus = "oauth" => OAuthIInv
<1>1. OAuth!GoogleConnectionAssumption
  BY ComponentsAssumption DEF ComponentsAssumption
<1>2. Init => Held
  BY <1>1, OAuthStarts DEF Init
<1>3. Held /\ [Next]_allVars => Held'
  <2> SUFFICES ASSUME Held, [Next]_allVars, focus' = "oauth" PROVE OAuthIInv'
    OBVIOUS
  <2>1. focus = "oauth" /\ [OAuth!Next]_(OAuth!vars)
    BY DEF Next, allVars, OAuth!vars
  <2> QED
    BY <1>1, <2>1, OAuthStep
<1>4. Held => OAuthInv
  BY <1>1, OAuthSuffices DEF OAuthInv
<1> QED
  BY <1>2, <1>3, <1>4, PTL DEF Spec

=============================================================================
