---------------------------- MODULE GoogleReviews ----------------------------
(***************************************************************************)
(* Mapping a merchant's locations to Google locations, and the tasks that   *)
(* synchronise the reviews of what is mapped (google_reviews.services).     *)
(*                                                                         *)
(* Google is called between transactions, so a location may be remapped     *)
(* between two pages of a sync.  A remap and the upsert of a page lock the  *)
(* mapping row for the whole of their transaction and are single steps; the *)
(* first mapping of a location has no row to lock and is two.  A review is  *)
(* known by the Google location and the page it came from.                  *)
(***************************************************************************)
EXTENDS Naturals

CONSTANTS
  Locations,
  GoogleIds,  \* google_location_id
  None,
  Mappers,    \* PUT /locations/{id}/google-location requests
  Syncers,    \* executions of a review sync
  MaxPages,   \* bound on the pages of a listing
  MaxMaps     \* bound on the mappings requested

GoogleReviewsAssumption ==
  /\ None \notin GoogleIds
  /\ MaxPages \in Nat \ {0}
  /\ MaxMaps \in Nat

VARIABLES
  mapping,  \* the rows of GoogleLocation; gid is None without one
  reviews,  \* GoogleReview rows under each mapping
  usable,   \* the GoogleConnection is ACTIVE
  syncs,    \* locations a queued sync_location or a running task is to sync
  mapper,
  syncer,
  maps      \* mappings requested so far

vars == <<mapping, reviews, usable, syncs, mapper, syncer, maps>>

Mappings == [gid : GoogleIds \cup {None},
             rating : GoogleIds \cup {None},        \* whose average_rating and review_count
             synced : {"never", "recently", "longAgo"}]   \* last_synced_at

Unmapped == [gid |-> None, rating |-> None, synced |-> "never"]

IdleMapper == [pc |-> "idle", location |-> None, gid |-> None]

IdleSyncer == [pc |-> "idle", location |-> None, gid |-> None, page |-> 1, rating |-> None]

Init ==
  /\ mapping = [l \in Locations |-> Unmapped]
  /\ reviews = [l \in Locations |-> {}]
  /\ usable = TRUE
  /\ syncs = {}
  /\ mapper = [m \in Mappers |-> IdleMapper]
  /\ syncer = [s \in Syncers |-> IdleSyncer]
  /\ maps = 0

-----------------------------------------------------------------------------
(* map_location *)

\* Block A and the listing: the connection is ACTIVE with a fresh token, and
\* Google lists the location, with its Place ID and review link.
ListLocations(m, l, g) ==
  /\ mapper[m].pc = "idle"
  /\ usable
  /\ maps < MaxMaps
  /\ maps' = maps + 1
  /\ mapper' = [mapper EXCEPT ![m] = [pc |-> "writing", location |-> l, gid |-> g]]
  /\ UNCHANGED <<mapping, reviews, usable, syncs, syncer>>

\* Both unique constraints of GoogleLocation.
Conflicts(l, g) == \E k \in Locations \ {l} : mapping[k].gid = g

Remapped(l, g) ==
  IF mapping[l].gid = g THEN mapping[l]
  ELSE [gid |-> g, rating |-> None, synced |-> "never"]

\* The old Google location's reviews do not appear under a new mapping.
Kept(l, g) == IF mapping[l].gid = g THEN reviews[l] ELSE {}

Answer(m) == mapper' = [mapper EXCEPT ![m] = IdleMapper]

\* Block B on an existing row.  The sync is enqueued on commit, or that fails.
WriteMapping(m) ==
  LET l == mapper[m].location
      g == mapper[m].gid IN
  /\ mapper[m].pc = "writing"
  /\ usable /\ mapping[l].gid # None
  /\ IF Conflicts(l, g)
     THEN UNCHANGED <<mapping, reviews, syncs>>
     ELSE /\ mapping' = [mapping EXCEPT ![l] = Remapped(l, g)]
          /\ reviews' = [reviews EXCEPT ![l] = Kept(l, g)]
          /\ syncs' \in {syncs, syncs \cup {l}}
  /\ Answer(m)
  /\ UNCHANGED <<usable, syncer, maps>>

\* Block B found no row: its insert may meet one by now.
FindNoMapping(m) ==
  /\ mapper[m].pc = "writing"
  /\ usable /\ mapping[mapper[m].location].gid = None
  /\ mapper' = [mapper EXCEPT ![m].pc = "inserting"]
  /\ UNCHANGED <<mapping, reviews, usable, syncs, syncer, maps>>

InsertMapping(m) ==
  LET l == mapper[m].location
      g == mapper[m].gid IN
  /\ mapper[m].pc = "inserting"
  /\ IF mapping[l].gid # None \/ Conflicts(l, g)
     THEN UNCHANGED <<mapping, syncs>>
     ELSE /\ mapping' = [mapping EXCEPT ![l] = [Unmapped EXCEPT !.gid = g]]
          /\ syncs' \in {syncs, syncs \cup {l}}
  /\ Answer(m)
  /\ UNCHANGED <<reviews, usable, syncer, maps>>

\* The connection needs reauthorization by now, or the request dies.
MapFails(m) ==
  /\ mapper[m].pc # "idle"
  /\ Answer(m)
  /\ UNCHANGED <<mapping, reviews, usable, syncs, syncer, maps>>

-----------------------------------------------------------------------------
(* sync_location_reviews *)

EndSync(s) == syncer' = [syncer EXCEPT ![s] = IdleSyncer]

\* Mutant: a location that has never been synchronised (NULL) is not due.
DueWhenOld(l) == mapping[l].gid # None /\ mapping[l].synced = "longAgo"

Due(l) == mapping[l].gid # None /\ mapping[l].synced # "recently"

\* sync_merchant_reviews: the due mappings of an ACTIVE connection.
BeatSync ==
  /\ usable
  /\ syncs' = syncs \cup {l \in Locations : Due(l)}
  /\ syncs' # syncs
  /\ UNCHANGED <<mapping, reviews, usable, mapper, syncer, maps>>

\* The identity the sync starts with, and a token.
StartSync(s, l) ==
  /\ syncer[s].pc = "idle"
  /\ l \in syncs
  /\ usable /\ mapping[l].gid # None
  /\ syncs' = syncs \ {l}
  /\ syncer' = [syncer EXCEPT ![s] = [pc |-> "listing", location |-> l,
                                      gid |-> mapping[l].gid, page |-> 1, rating |-> None]]
  /\ UNCHANGED <<mapping, reviews, usable, mapper, maps>>

\* list_reviews answers with a page, whose reviews may all be unusable.
ListReviews(s) ==
  /\ syncer[s].pc = "listing"
  /\ \E pc \in {"upserting", "skipping"} : syncer' = [syncer EXCEPT ![s].pc = pc]
  /\ UNCHANGED <<mapping, reviews, usable, syncs, mapper, maps>>

NextPage(s) ==
  LET after == [syncer[s] EXCEPT !.rating = IF syncer[s].page = 1 THEN syncer[s].gid ELSE @] IN
  \/ syncer' = [syncer EXCEPT ![s] = [after EXCEPT !.pc = "finishing"]]
  \/ /\ syncer[s].page < MaxPages
     /\ syncer' = [syncer EXCEPT ![s] = [after EXCEPT !.pc = "listing", !.page = @ + 1]]

\* Mutant: the mapping's identity is not compared.
StillMapped(s) == mapping[syncer[s].location].gid # None

SameMapping(s) == mapping[syncer[s].location].gid = syncer[s].gid

UpsertReviews(s) ==
  /\ syncer[s].pc \in {"upserting", "skipping"}
  /\ IF syncer[s].pc = "upserting"
     THEN /\ SameMapping(s)
          /\ reviews' = [reviews EXCEPT ![syncer[s].location] =
                           @ \cup {[gid |-> syncer[s].gid, page |-> syncer[s].page]}]
     ELSE UNCHANGED reviews
  /\ NextPage(s)
  /\ UNCHANGED <<mapping, usable, syncs, mapper, maps>>

FinishSync(s) ==
  LET l == syncer[s].location IN
  /\ syncer[s].pc = "finishing"
  /\ mapping' = IF SameMapping(s)
                THEN [mapping EXCEPT ![l].rating = syncer[s].rating, ![l].synced = "recently"]
                ELSE mapping
  /\ EndSync(s)
  /\ UNCHANGED <<reviews, usable, syncs, mapper, maps>>

\* Remapped meanwhile, rate limited, refused, a transient error, or the worker's
\* death: the counters and last_synced_at stay.  A rate limit ends the whole run.
SyncStops(s) ==
  /\ \/ syncer[s].pc = "listing"
     \/ syncer[s].pc = "upserting" /\ ~SameMapping(s)
  /\ EndSync(s)
  /\ syncs' \in {syncs, {}}
  /\ UNCHANGED <<mapping, reviews, usable, mapper, maps>>

-----------------------------------------------------------------------------

SyncIntervalPasses(l) ==
  /\ mapping[l].synced = "recently"
  /\ mapping' = [mapping EXCEPT ![l].synced = "longAgo"]
  /\ UNCHANGED <<reviews, usable, syncs, mapper, syncer, maps>>

\* GoogleConnection: MarkNeedsReauth and Finish.
ConnectionChanges ==
  /\ usable' = ~usable
  /\ UNCHANGED <<mapping, reviews, syncs, mapper, syncer, maps>>

Mapping(m) == \/ \E l \in Locations, g \in GoogleIds : ListLocations(m, l, g)
              \/ WriteMapping(m) \/ FindNoMapping(m) \/ InsertMapping(m) \/ MapFails(m)

Sync(s) == \/ \E l \in Locations : StartSync(s, l)
           \/ ListReviews(s) \/ UpsertReviews(s) \/ FinishSync(s) \/ SyncStops(s)

Next == \/ \E m \in Mappers : Mapping(m)
        \/ \E s \in Syncers : Sync(s)
        \/ \E l \in Locations : SyncIntervalPasses(l)
        \/ BeatSync \/ ConnectionChanges

Spec == Init /\ [][Next]_vars

-----------------------------------------------------------------------------
(* Properties *)

TypeOK ==
  /\ mapping \in [Locations -> Mappings]
  /\ reviews \in [Locations -> SUBSET [gid : GoogleIds, page : 1..MaxPages]]
  /\ syncs \subseteq Locations

\* The reviews and counters of a location are those of the Google location it
\* is mapped to now: a sync that began before a remap leaves nothing of the old
\* one behind (_write_mapping, _upsert_reviews, the conditional counters UPDATE).
ReviewsFollowMapping ==
  \A l \in Locations :
    /\ \A r \in reviews[l] : r.gid = mapping[l].gid
    /\ mapping[l].rating \in {None, mapping[l].gid}

\* One Google location never feeds two locations of the connection.
MappedApart ==
  \A k, l \in Locations : k # l /\ mapping[k].gid # None => mapping[k].gid # mapping[l].gid

ReviewsInv == TypeOK /\ ReviewsFollowMapping /\ MappedApart

\* For liveness: a location that has a mapping, and one that is synchronised or
\* whose connection is not usable.
Mapped(l) == mapping[l].gid # None

SyncedOrUnusable(l) == mapping[l].synced # "never" \/ ~usable
=============================================================================
