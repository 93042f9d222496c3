--------------------------- MODULE EventPipeline ---------------------------
(***************************************************************************)
(* The event inbox of one integration: record_event, process_event, the    *)
(* Beat sweep and disconnect_integration, as PostgreSQL transactions under  *)
(* READ COMMITTED.  A transaction's writes appear at its commit; what it    *)
(* holds before that is its row locks and what it has read.  A row inserted *)
(* and not yet committed is a locked row whose status is still NONE.        *)
(*                                                                         *)
(* The Celery queue is a set of messages: a message is an event id, equal   *)
(* copies collapse, and it is removed when a worker takes it (Celery's      *)
(* default early acknowledgement), so a crash loses it.  Time is one bit    *)
(* per event: aged[e] says the wait the sweep looks for has passed          *)
(* (STALE_RECEIVED_AFTER for RECEIVED, the backoff for FAILED).             *)
(***************************************************************************)
EXTENDS Naturals, FiniteSets

CONSTANTS
  Events,             \* external_event_id values of the integration
  Locations,          \* the merchant's locations
  Txns,               \* external_transaction_id values
  Customers,          \* customer phones of the merchant
  TxnOf,              \* the external_transaction_id of an event's payload
  CustomerOf,         \* the customer of that payload, or NoCustomer
  Parsable,           \* events whose payload passes parse() and normalize()
  Workers,            \* Celery workers of the events queue
  Receivers,          \* webhook requests
  Callers,            \* POST /sales requests
  Admins,             \* requests that disconnect the integration
  Integration,        \* the Integration row, in the lock table
  Free,               \* a row nobody has locked
  NoEvent, NoCustomer, NoLocation,
  MAX_EVENT_ATTEMPTS, \* 5 in the code
  MaxFaults           \* bound on crashes, lost messages and broker errors

Procs == Workers \cup Receivers \cup Callers \cup Admins
Rows  == Events \cup {Integration}

\* The unique key of a Transaction.
Keys  == Locations \X Txns

ASSUME EventPipelineAssumption ==
  /\ IsFiniteSet(Events)
  /\ IsFiniteSet(Locations)
  /\ IsFiniteSet(Txns)
  /\ Locations # {}
  /\ TxnOf \in [Events -> Txns]
  /\ CustomerOf \in [Events -> Customers \cup {NoCustomer}]
  /\ NoCustomer \notin Customers
  /\ NoEvent \notin Events
  /\ NoLocation \notin Locations
  /\ Integration \notin Events
  /\ Free \notin Procs
  /\ Parsable \subseteq Events
  /\ MAX_EVENT_ATTEMPTS \in Nat \ {0}
  /\ MaxFaults \in Nat
  /\ Workers \cap (Receivers \cup Callers \cup Admins) = {}
  /\ Receivers \cap (Callers \cup Admins) = {}
  /\ Callers \cap Admins = {}

VARIABLES
  integ,    \* committed Integration.status
  mapping,  \* the location the committed mappings resolve a sale to
  status,   \* committed IntegrationEvent.status, NONE before the insert
  attempts, \* committed attempt_count
  location, \* committed IntegrationEvent.location
  aged,     \* the event has waited long enough for the sweep
  sale,     \* the event whose attempt inserted the Transaction row
  counter,  \* Customer.total_transactions
  lock,     \* row locks, and the unique-index claim of an uncommitted insert
  queue,    \* messages of the events queue
  publish,  \* retry hooks the sweep's commit has still to run
  pc,       \* where each process is
  cur,      \* the event each process handles
  sees,     \* the Integration.status each process has read
  place,    \* the location each process has resolved
  todo,     \* rows the disconnect's UPDATE found and has not reached
  saw,      \* rows that UPDATE found (history)
  faults    \* faults so far

committed == <<integ, mapping, status, attempts, location, aged, sale, counter>>
locals    == <<pc, cur, sees, place>>
vars      == <<committed, lock, queue, publish, locals, todo, saw, faults>>

Statuses == {"NONE", "RECEIVED", "PROCESSED", "FAILED", "DEAD_LETTER", "CANCELLED"}

Pending  == {"RECEIVED", "FAILED"}
Terminal == {"PROCESSED", "DEAD_LETTER", "CANCELLED"}

Stages == {"idle", "checking", "inserting", "inserted", "enqueueing",
           "locking", "processing", "selling", "failing", "cancelling",
           "disconnecting", "updating"}

Init ==
  /\ integ = "CONNECTED"
  /\ mapping \in Locations \cup {NoLocation}
  /\ status = [e \in Events |-> "NONE"]
  /\ attempts = [e \in Events |-> 0]
  /\ location = [e \in Events |-> NoLocation]
  /\ aged = [e \in Events |-> FALSE]
  /\ sale = [k \in Keys |-> NoEvent]
  /\ counter = [c \in Customers |-> 0]
  /\ lock = [r \in Rows |-> Free]
  /\ queue = {}
  /\ publish = {}
  /\ pc = [p \in Procs |-> "idle"]
  /\ cur = [p \in Procs |-> NoEvent]
  /\ sees = [p \in Procs |-> "CONNECTED"]
  /\ place = [p \in Procs |-> NoLocation]
  /\ todo = {}
  /\ saw = {}
  /\ faults = 0

-----------------------------------------------------------------------------
(* Processes, locks, faults *)

Goto(p, stage) == pc' = [pc EXCEPT ![p] = stage]

\* The process ends its request or task.
Finish(p) ==
  /\ Goto(p, "idle")
  /\ cur' = [cur EXCEPT ![p] = NoEvent]
  /\ sees' = [sees EXCEPT ![p] = "CONNECTED"]
  /\ place' = [place EXCEPT ![p] = NoLocation]

Acquire(p, row) ==
  /\ lock[row] = Free
  /\ lock' = [lock EXCEPT ![row] = p]

\* COMMIT or ROLLBACK gives back every row the process holds.
Released(p) == [r \in Rows |-> IF lock[r] = p THEN Free ELSE lock[r]]

Fault == faults < MaxFaults /\ faults' = faults + 1

-----------------------------------------------------------------------------
(* record_event, called by the webhook receiver and by POST /sales *)

\* receive_webhook: lookup, verification and the DISCONNECTED rejection.
ReceiveWebhook(r, e) ==
  /\ pc[r] = "idle"
  /\ integ = "CONNECTED"
  /\ Goto(r, "checking")
  /\ cur' = [cur EXCEPT ![r] = e]
  /\ sees' = [sees EXCEPT ![r] = integ]
  /\ UNCHANGED <<committed, lock, queue, publish, place, todo, saw, faults>>

\* ingest_api_sale: a CONNECTED integration, a payload that normalizes and a
\* mapping that resolves it, or the request is refused and stores nothing.
IngestApiSale(c, e) ==
  /\ pc[c] = "idle"
  /\ integ = "CONNECTED" /\ mapping # NoLocation /\ e \in Parsable
  /\ Goto(c, "checking")
  /\ cur' = [cur EXCEPT ![c] = e]
  /\ sees' = [sees EXCEPT ![c] = integ]
  /\ UNCHANGED <<committed, lock, queue, publish, place, todo, saw, faults>>

\* The status record_event tests is that of the object its caller passed in.
RecordEventCheck(p) ==
  /\ pc[p] = "checking"
  /\ IF sees[p] = "DISCONNECTED"
       THEN Finish(p)
       ELSE Goto(p, "inserting") /\ UNCHANGED <<cur, sees, place>>
  /\ UNCHANGED <<committed, lock, queue, publish, todo, saw, faults>>

\* The insert waits for an uncommitted insert of the same key.
RecordEventInsert(p) ==
  /\ pc[p] = "inserting"
  /\ lock[cur[p]] = Free
  /\ status[cur[p]] = "NONE"
  /\ Acquire(p, cur[p])
  /\ Goto(p, "inserted")
  /\ UNCHANGED <<committed, queue, publish, cur, sees, place, todo, saw, faults>>

\* IntegrityError on the unique constraint: a re-delivered event is a no-op.
\* A committed row answers at once, whoever has locked it.
RecordEventDuplicate(p) ==
  /\ pc[p] = "inserting"
  /\ status[cur[p]] # "NONE"
  /\ Finish(p)
  /\ UNCHANGED <<committed, lock, queue, publish, todo, saw, faults>>

\* The webhook's transaction ends with the row RECEIVED.
RecordEventCommit(r) ==
  /\ r \in Receivers
  /\ pc[r] = "inserted"
  /\ status' = [status EXCEPT ![cur[r]] = "RECEIVED"]
  /\ lock' = Released(r)
  /\ Goto(r, "enqueueing")
  /\ UNCHANGED <<integ, mapping, attempts, location, aged, sale, counter, queue,
                 publish, cur, sees, place, todo, saw, faults>>

\* _enqueue_processing, the on_commit hook.
EnqueueProcessing(p) ==
  /\ pc[p] = "enqueueing"
  /\ queue' = queue \cup {cur[p]}
  /\ Finish(p)
  /\ UNCHANGED <<committed, lock, publish, todo, saw, faults>>

\* A broker error is swallowed: the committed row stays as it is.
EnqueueFails(p) ==
  /\ pc[p] = "enqueueing"
  /\ Fault
  /\ Finish(p)
  /\ UNCHANGED <<committed, lock, queue, publish, todo, saw>>

-----------------------------------------------------------------------------
(* process_event *)

IsDue(e) == aged[e]

\* Mutants of Ignores: CANCELLED not tested; the backoff not tested.
IgnoresNotCancelled(e) == \/ status[e] \in {"PROCESSED", "DEAD_LETTER"}
                          \/ status[e] = "FAILED" /\ ~IsDue(e)
IgnoresTerminalOnly(e) == status[e] \in Terminal

\* The early returns on the row an attempt has locked.
Ignores(e) == \/ status[e] \in Terminal
              \/ status[e] = "FAILED" /\ ~IsDue(e)

\* Mutant: a bare select_for_update over the join.
LockedWithIntegration(e) == {e, Integration}

\* The rows SELECT ... FOR UPDATE OF self locks: the event, not the joined
\* Integration.
LockedByProcessEvent(e) == {e}

Holds(p, rows) == \A r \in rows : lock[r] = p

\* A worker takes a message; its SELECT starts, and its snapshot fixes the
\* Integration.status the join returns however long the row lock is awaited.
TakeMessage(w, e) ==
  /\ pc[w] = "idle"
  /\ e \in queue
  /\ queue' = queue \ {e}
  /\ Goto(w, "locking")
  /\ cur' = [cur EXCEPT ![w] = e]
  /\ sees' = [sees EXCEPT ![w] = integ]
  /\ UNCHANGED <<committed, lock, publish, place, todo, saw, faults>>

LockEvent(w) ==
  /\ pc[w] = "locking"
  /\ \E row \in LockedByProcessEvent(cur[w]) : Acquire(w, row)
  /\ UNCHANGED <<committed, queue, publish, locals, todo, saw, faults>>

\* A terminal row, or a FAILED one not due: the transaction ends as it is.
SkipEvent(w) ==
  /\ pc[w] = "locking"
  /\ Holds(w, LockedByProcessEvent(cur[w]))
  /\ Ignores(cur[w])
  /\ lock' = Released(w)
  /\ Finish(w)
  /\ UNCHANGED <<committed, queue, publish, todo, saw, faults>>

\* The race guard, and otherwise the savepoint is entered.
StartAttempt(w) ==
  /\ pc[w] = "locking"
  /\ Holds(w, LockedByProcessEvent(cur[w]))
  /\ ~Ignores(cur[w])
  /\ Goto(w, IF sees[w] = "DISCONNECTED" THEN "cancelling" ELSE "processing")
  /\ UNCHANGED <<committed, lock, queue, publish, cur, sees, place, todo, saw, faults>>

\* The same guard inside a POST /sales transaction, on its own new row: the
\* SELECT takes a fresh snapshot.
StartApiAttempt(c) ==
  /\ c \in Callers
  /\ pc[c] = "inserted"
  /\ sees' = [sees EXCEPT ![c] = integ]
  /\ Goto(c, IF integ = "DISCONNECTED" THEN "cancelling" ELSE "processing")
  /\ UNCHANGED <<committed, lock, queue, publish, cur, place, todo, saw, faults>>

\* parse, normalize and resolve_location, which reads the mappings in a
\* snapshot of its own; record_sale may still fail, and its savepoint with it.
AttemptSale(p) ==
  /\ pc[p] = "processing"
  /\ cur[p] \in Parsable /\ mapping # NoLocation
  /\ Goto(p, "selling")
  /\ place' = [place EXCEPT ![p] = mapping]
  /\ UNCHANGED <<committed, lock, queue, publish, cur, sees, todo, saw, faults>>

\* Any exception: a bad payload, no mapping, or an unexpected error at any
\* point of the savepoint.
AttemptFails(p) ==
  /\ pc[p] \in {"processing", "selling"}
  /\ Goto(p, "failing")
  /\ UNCHANGED <<committed, lock, queue, publish, cur, sees, place, todo, saw, faults>>

\* Mutant of SaleWrites: a duplicate is counted.
DuplicateCounted(e, l) ==
  /\ sale' = [sale EXCEPT ![<<l, TxnOf[e]>>] = IF @ = NoEvent THEN e ELSE @]
  /\ counter' = IF CustomerOf[e] = NoCustomer \/ counter[CustomerOf[e]] > Cardinality(Keys)
                  THEN counter ELSE [counter EXCEPT ![CustomerOf[e]] = @ + 1]

\* record_sale's writes: the Transaction row unless its key exists, and the
\* customer's counter only with a new row.
SaleWrites(e, l) ==
  LET k == <<l, TxnOf[e]>>
  IN IF sale[k] = NoEvent
       THEN /\ sale' = [sale EXCEPT ![k] = e]
            /\ counter' = IF CustomerOf[e] = NoCustomer THEN counter
                          ELSE [counter EXCEPT ![CustomerOf[e]] = @ + 1]
       ELSE UNCHANGED <<sale, counter>>

\* Mutant: no savepoint around the attempt.
FailureKeepsSale(e, l) ==
  IF l = NoLocation THEN UNCHANGED <<sale, counter>> ELSE SaleWrites(e, l)

\* What a failed attempt keeps of its savepoint: nothing.
FailureWrites(e, l) == UNCHANGED <<sale, counter>>

\* Mutant: one attempt too many.
FailedStatusLate(n) == IF n > MAX_EVENT_ATTEMPTS THEN "DEAD_LETTER" ELSE "FAILED"

FailedStatus(n) == IF n >= MAX_EVENT_ATTEMPTS THEN "DEAD_LETTER" ELSE "FAILED"

\* The transaction ends; a POST /sales request still runs its on_commit hook.
CommitAttempt(p, s) ==
  /\ status' = [status EXCEPT ![cur[p]] = s]
  /\ lock' = Released(p)
  /\ IF p \in Callers THEN Goto(p, "enqueueing") /\ UNCHANGED <<cur, sees, place>>
                      ELSE Finish(p)
  /\ UNCHANGED <<integ, mapping, queue, publish, todo, saw, faults>>

CommitSale(p) ==
  /\ pc[p] = "selling"
  /\ SaleWrites(cur[p], place[p])
  /\ location' = [location EXCEPT ![cur[p]] = place[p]]
  /\ CommitAttempt(p, "PROCESSED")
  /\ UNCHANGED <<attempts, aged>>

CommitCancel(p) ==
  /\ pc[p] = "cancelling"
  /\ CommitAttempt(p, "CANCELLED")
  /\ UNCHANGED <<attempts, location, aged, sale, counter>>

RecordFailure(p) ==
  /\ pc[p] = "failing"
  /\ attempts' = [attempts EXCEPT ![cur[p]] = @ + 1]
  /\ CommitAttempt(p, FailedStatus(attempts[cur[p]] + 1))
  /\ aged' = [aged EXCEPT ![cur[p]] = FALSE]
  /\ FailureWrites(cur[p], place[p])
  /\ UNCHANGED location

-----------------------------------------------------------------------------
(* due_event_ids and retry_failed_events *)

\* Mutant: no stale-RECEIVED sweep.
DueFailedEvents == {e \in Events : lock[e] = Free /\ status[e] = "FAILED" /\ aged[e]}

\* skip_locked: a row another transaction holds is not selected.
DueEvents == {e \in Events : lock[e] = Free /\ status[e] \in Pending /\ aged[e]}

\* One sweep's transaction reads and commits; its hooks run after it.
Sweep ==
  /\ publish = {}
  /\ DueEvents # {}
  /\ publish' = DueEvents
  /\ UNCHANGED <<committed, lock, queue, locals, todo, saw, faults>>

EnqueueRetry(e) ==
  /\ e \in publish
  /\ publish' = publish \ {e}
  /\ queue' = queue \cup {e}
  /\ UNCHANGED <<committed, lock, locals, todo, saw, faults>>

\* A broker error leaves the task: the hooks that follow never run.
EnqueueRetryFails ==
  /\ publish # {}
  /\ Fault
  /\ publish' = {}
  /\ UNCHANGED <<committed, lock, queue, locals, todo, saw>>

\* Time passes the event's staleness or backoff limit.
Age(e) ==
  /\ status[e] \in Pending
  /\ ~aged[e]
  /\ aged' = [aged EXCEPT ![e] = TRUE]
  /\ UNCHANGED <<integ, mapping, status, attempts, location, sale, counter, lock,
                 queue, publish, locals, todo, saw, faults>>

-----------------------------------------------------------------------------
(* disconnect_integration and the mapping edits *)

\* FOR NO KEY UPDATE on the Integration; a second disconnect is a no-op.
DisconnectLock(d) ==
  /\ pc[d] = "idle"
  /\ integ = "CONNECTED"
  /\ Acquire(d, Integration)
  /\ Goto(d, "disconnecting")
  /\ UNCHANGED <<committed, queue, publish, cur, sees, place, todo, saw, faults>>

\* The cancelling UPDATE starts: its snapshot has the committed rows only.
DisconnectUpdate(d) ==
  /\ pc[d] = "disconnecting"
  /\ Goto(d, "updating")
  /\ todo' = {e \in Events : status[e] \in Pending}
  /\ saw' = todo'
  /\ UNCHANGED <<committed, lock, queue, publish, cur, sees, place, faults>>

\* Mutants of CancelsRow: FAILED rows forgotten; the row not tested again.
CancelsReceivedRow(e) == status[e] = "RECEIVED"
CancelsFoundRow(e) == e \in todo

\* It waits for each row's lock, then tests the row again.
CancelsRow(e) == status[e] \in Pending

DisconnectRow(d, e) ==
  /\ pc[d] = "updating"
  /\ e \in todo
  /\ lock[e] = Free
  /\ IF CancelsRow(e) THEN Acquire(d, e) ELSE UNCHANGED lock
  /\ todo' = todo \ {e}
  /\ UNCHANGED <<committed, queue, publish, locals, saw, faults>>

DisconnectCommit(d) ==
  /\ pc[d] = "updating"
  /\ todo = {}
  /\ integ' = "DISCONNECTED"
  /\ mapping' = NoLocation
  /\ status' = [e \in Events |-> IF lock[e] = d THEN "CANCELLED" ELSE status[e]]
  /\ lock' = Released(d)
  /\ Finish(d)
  /\ UNCHANGED <<attempts, location, aged, sale, counter, queue, publish, todo,
                 saw, faults>>

\* add_location_mapping and replace_location_mappings lock the Integration
\* too, and test no status.
EditMappings ==
  /\ lock[Integration] = Free
  /\ mapping' \in (Locations \cup {NoLocation}) \ {mapping}
  /\ UNCHANGED <<integ, status, attempts, location, aged, sale, counter, lock, queue,
                 publish, locals, todo, saw, faults>>

-----------------------------------------------------------------------------
(* Faults *)

\* A process dies, or its request is aborted: PostgreSQL rolls it back, and
\* a message it had taken is gone.
Crash(p) ==
  /\ pc[p] # "idle"
  /\ Fault
  /\ lock' = Released(p)
  /\ Finish(p)
  /\ IF p \in Admins THEN todo' = {} /\ saw' = {} ELSE UNCHANGED <<todo, saw>>
  /\ UNCHANGED <<committed, queue, publish>>

LoseMessage(e) ==
  /\ e \in queue
  /\ Fault
  /\ queue' = queue \ {e}
  /\ UNCHANGED <<committed, lock, publish, locals, todo, saw>>

-----------------------------------------------------------------------------

RecordEvent(p) == \/ RecordEventCheck(p)
                  \/ RecordEventInsert(p)
                  \/ RecordEventDuplicate(p)
                  \/ RecordEventCommit(p)
                  \/ EnqueueProcessing(p)
                  \/ EnqueueFails(p)

ProcessEvent(p) == \/ LockEvent(p)
                   \/ SkipEvent(p)
                   \/ StartAttempt(p)
                   \/ StartApiAttempt(p)
                   \/ AttemptSale(p)
                   \/ AttemptFails(p)
                   \/ CommitSale(p)
                   \/ CommitCancel(p)
                   \/ RecordFailure(p)

Disconnect(d) == \/ DisconnectLock(d)
                 \/ DisconnectUpdate(d)
                 \/ \E e \in Events : DisconnectRow(d, e)
                 \/ DisconnectCommit(d)

RetryFailedEvents == \/ Sweep
                     \/ \E e \in Events : EnqueueRetry(e)
                     \/ EnqueueRetryFails

Next ==
  \/ \E r \in Receivers, e \in Events : ReceiveWebhook(r, e)
  \/ \E c \in Callers, e \in Events : IngestApiSale(c, e)
  \/ \E p \in Receivers \cup Callers : RecordEvent(p)
  \/ \E w \in Workers, e \in Events : TakeMessage(w, e)
  \/ \E p \in Workers \cup Callers : ProcessEvent(p)
  \/ \E d \in Admins : Disconnect(d)
  \/ RetryFailedEvents
  \/ \E e \in Events : Age(e)
  \/ EditMappings
  \/ \E p \in Procs : Crash(p)
  \/ \E e \in Events : LoseMessage(e)

Spec == Init /\ [][Next]_vars

(* Every process goes on, PostgreSQL's lock queues and the broker's queue
   are first come first served, and Beat keeps sweeping.  Requests, edits
   and faults happen or not; MaxFaults makes them finitely many. *)
Fairness ==
  /\ \A p \in Receivers \cup Callers :
       /\ WF_vars(RecordEventCheck(p) \/ RecordEventDuplicate(p)
                  \/ RecordEventCommit(p) \/ EnqueueProcessing(p))
       /\ SF_vars(RecordEventInsert(p))
  /\ \A p \in Workers \cup Callers :
       /\ SF_vars(LockEvent(p))
       /\ WF_vars(SkipEvent(p) \/ StartAttempt(p) \/ StartApiAttempt(p)
                  \/ AttemptSale(p) \/ AttemptFails(p)
                  \/ CommitSale(p) \/ CommitCancel(p) \/ RecordFailure(p))
  /\ \A e \in Events :
       /\ SF_vars(\E w \in Workers : TakeMessage(w, e))
       /\ WF_vars(Age(e))
       /\ WF_vars(EnqueueRetry(e))
  /\ SF_vars(Sweep)
  /\ \A d \in Admins :
       /\ WF_vars(DisconnectUpdate(d) \/ DisconnectCommit(d))
       /\ \A e \in Events : SF_vars(DisconnectRow(d, e))

FairSpec == Spec /\ Fairness

-----------------------------------------------------------------------------
(* Properties *)

TypeOK ==
  /\ integ \in {"CONNECTED", "DISCONNECTED"}
  /\ mapping \in Locations \cup {NoLocation}
  /\ status \in [Events -> Statuses]
  /\ attempts \in [Events -> 0..MAX_EVENT_ATTEMPTS]
  /\ location \in [Events -> Locations \cup {NoLocation}]
  /\ aged \in [Events -> BOOLEAN]
  /\ sale \in [Keys -> Events \cup {NoEvent}]
  /\ counter \in [Customers -> Nat]
  /\ lock \in [Rows -> Procs \cup {Free}]
  /\ queue \subseteq Events
  /\ publish \subseteq Events
  /\ pc \in [Procs -> Stages]
  /\ cur \in [Procs -> Events \cup {NoEvent}]
  /\ sees \in [Procs -> {"CONNECTED", "DISCONNECTED"}]
  /\ place \in [Procs -> Locations \cup {NoLocation}]
  /\ todo \subseteq Events
  /\ saw \subseteq Events
  /\ faults \in 0..MaxFaults

\* A Transaction row stands for one event, and that event is PROCESSED at the
\* row's location: no retry, crash, duplicate message or failed attempt
\* leaves a sale behind, and no event is sold twice at two locations.
SaleHasItsEvent ==
  \A k \in Keys : sale[k] # NoEvent =>
    /\ status[sale[k]] = "PROCESSED"
    /\ location[sale[k]] = k[1]
    /\ TxnOf[sale[k]] = k[2]

\* process_event writes PROCESSED only with the sale in place, its own or the
\* one an earlier event with the same transaction id left there.
ProcessedHasItsSale ==
  \A e \in Events : status[e] = "PROCESSED" =>
    /\ location[e] \in Locations
    /\ sale[<<location[e], TxnOf[e]>>] # NoEvent

\* Customer.total_transactions counts the customer's Transaction rows,
\* whatever the duplicates and rollbacks (record_sale).
CountersMatch ==
  \A c \in Customers :
    counter[c] = Cardinality({k \in Keys : sale[k] # NoEvent /\ CustomerOf[sale[k]] = c})

\* What process_event and record_sale owe each other: Transaction rows, PROCESSED
\* events and customer counters agree.
SalesMatch == SaleHasItsEvent /\ ProcessedHasItsSale /\ CountersMatch

\* An event is dead-lettered by its MAX_EVENT_ATTEMPTS-th failure and by
\* nothing else, and a FAILED one still has an attempt (_record_failure).
RetryBudget ==
  \A e \in Events :
    /\ status[e] = "DEAD_LETTER" <=> attempts[e] = MAX_EVENT_ATTEMPTS
    /\ status[e] = "FAILED" => attempts[e] \in 1..MAX_EVENT_ATTEMPTS - 1
    /\ status[e] \in {"NONE", "RECEIVED"} => attempts[e] = 0

\* Once disconnect_integration has committed, no row its UPDATE found is left
\* pending, whatever the workers did with it meanwhile.
DisconnectLeavesNothingPending ==
  integ = "DISCONNECTED" => \A e \in saw : status[e] \in Terminal

-----------------------------------------------------------------------------
(* The inductive invariant behind the five invariants above *)

Owning == {"inserted", "processing", "selling", "failing", "cancelling"}

RoleStages ==
  /\ \A w \in Workers : pc[w] \in {"idle", "locking", "processing", "selling",
                                   "failing", "cancelling"}
  /\ \A r \in Receivers : pc[r] \in {"idle", "checking", "inserting", "inserted",
                                     "enqueueing"}
  /\ \A c \in Callers : pc[c] \in Stages \ {"locking", "disconnecting", "updating"}
  /\ \A d \in Admins : pc[d] \in {"idle", "disconnecting", "updating"}

\* A process past its SELECT or INSERT holds its event, which is not settled;
\* the event of a request that has not committed is not there yet.
OwnersHoldTheirEvent ==
  \A p \in Procs :
    /\ pc[p] \notin {"idle", "disconnecting", "updating"} => cur[p] \in Events
    /\ pc[p] \in Owning =>
         /\ lock[cur[p]] = p
         /\ status[cur[p]] \in IF p \in Workers THEN Pending ELSE {"NONE"}
    /\ pc[p] = "selling" => place[p] \in Locations

\* Only owners, the workers about to be and the disconnect hold event rows.
EventLocks ==
  \A e \in Events : lock[e] # Free =>
    \/ lock[e] \in Admins
    \/ cur[lock[e]] = e /\ pc[lock[e]] \in Owning \cup {"locking"}

\* Messages, hooks, the disconnect and the processes under way name committed
\* rows.
NamedRowsExist ==
  /\ \A e \in queue \cup publish \cup todo : status[e] # "NONE"
  /\ \A p \in Procs : pc[p] \in {"enqueueing", "locking"} => status[cur[p]] # "NONE"

\* A disconnect under way holds the Integration; the rows it has locked are
\* pending, and each row its UPDATE found is ahead, locked or settled.
DisconnectHolds ==
  /\ \A d \in Admins : pc[d] # "idle" => lock[Integration] = d /\ integ = "CONNECTED"
  /\ \A e \in Events : lock[e] \in Admins =>
       pc[lock[e]] = "updating" /\ status[e] \in Pending
  /\ \A d \in Admins, e \in saw : pc[d] = "updating" =>
       e \in todo \/ lock[e] = d \/ status[e] \in Terminal

PipelineInv ==
  /\ TypeOK
  /\ RoleStages
  /\ OwnersHoldTheirEvent
  /\ EventLocks
  /\ NamedRowsExist
  /\ DisconnectHolds
  /\ SaleHasItsEvent
  /\ ProcessedHasItsSale
  /\ CountersMatch
  /\ RetryBudget
  /\ DisconnectLeavesNothingPending

-----------------------------------------------------------------------------
(* Action and liveness properties *)

\* PROCESSED, DEAD_LETTER and CANCELLED are final: the disconnect's UPDATE and
\* a worker that waited for the row never overwrite each other's result.
TerminalForever ==
  [][\A e \in Events : status[e] \in Terminal =>
       status'[e] = status[e] /\ location'[e] = location[e]]_vars

\* A duplicate message burns no attempt: a FAILED event is tried again only
\* when its backoff has passed (_is_due, tested under the row lock).
NoAttemptBeforeDue ==
  [][\A e \in Events : attempts'[e] # attempts[e] =>
       status[e] = "RECEIVED" \/ status[e] = "NONE" \/ aged[e]]_vars

\* Every recorded event reaches a terminal status: a lost message or a crash
\* is repaired by the sweep, and retries run out (retry_failed_events).
EventsSettle ==
  \A e \in Events : status[e] \in Pending ~> status[e] \in Terminal

\* A disconnect that has locked its Integration ends: it and process_event do
\* not wait for each other (the comment on of=("self",) in process_event).
DisconnectTerminates ==
  \A d \in Admins : pc[d] = "disconnecting" ~> pc[d] = "idle"

\* The abstract inbox: FAILED still waits, DEAD_LETTER and CANCELLED are two
\* ways to drop an event.
Inbox == INSTANCE SaleInbox WITH
  outcome <- [e \in Events |->
    CASE status[e] = "NONE"      -> "absent"
      [] status[e] \in Pending   -> "pending"
      [] status[e] = "PROCESSED" -> "sold"
      [] OTHER                   -> "dropped"]

\* The pipeline implements the abstract inbox: every transaction of
\* record_event, process_event and disconnect_integration accepts, settles or
\* drops events as it may, and the rest are stutters.
ImplementsSaleInbox == Inbox!Spec

\* The claim of receive_webhook's except clause: a disconnect that committed
\* between the status check and record_event's own check rejects the request.
RacedDisconnectRejected ==
  [][\A r \in Receivers :
       pc[r] = "checking" /\ integ = "DISCONNECTED" => pc'[r] \in {"checking", "idle"}]_vars

\* The claim of the API specification: events pending at a disconnect are
\* never processed, so no event becomes PROCESSED after it.
NothingProcessedAfterDisconnect ==
  [][integ = "DISCONNECTED" =>
       \A e \in Events : status'[e] = "PROCESSED" => status[e] = "PROCESSED"]_vars
=============================================================================
