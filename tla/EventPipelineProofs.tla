------------------------ MODULE EventPipelineProofs ------------------------
(***************************************************************************)
(* PipelineInv is inductive, so it and its conjuncts hold of every instance *)
(* of EventPipeline; the action properties and the refinement of SaleInbox  *)
(* follow from it.                                                          *)
(***************************************************************************)
EXTENDS EventPipeline, FiniteSetTheorems, TLAPS

\* One more element with a property adds one to the count of such elements.
LEMMA CountOneMore ==
  ASSUME NEW S, IsFiniteSet(S), NEW A \in SUBSET S, NEW k \in S, k \notin A
  PROVE  /\ Cardinality(A \cup {k}) = Cardinality(A) + 1
         /\ Cardinality(A) \in Nat
<1>1. IsFiniteSet(A)  BY FS_Subset
<1> QED  BY <1>1, FS_AddElement, FS_CardinalityType

LEMMA KeysFinite == IsFiniteSet(Keys)
BY EventPipelineAssumption, FS_Product DEF Keys

\* record_sale keeps the counters equal to the rows they count.
LEMMA SaleWritesCount ==
  ASSUME TypeOK, CountersMatch, NEW e \in Events, NEW l \in Locations,
         SaleWrites(e, l)
  PROVE  CountersMatch' /\ counter' \in [Customers -> Nat]
                        /\ sale' \in [Keys -> Events \cup {NoEvent}]
<1> DEFINE k == <<l, TxnOf[e]>>
           Rows_(c) == {x \in Keys : sale[x] # NoEvent /\ CustomerOf[sale[x]] = c}
<1>1. k \in Keys  BY EventPipelineAssumption DEF Keys
<1>2. CASE sale[k] # NoEvent
  BY <1>2 DEF SaleWrites, CountersMatch, TypeOK
<1>3. CASE sale[k] = NoEvent
  <2>1. sale' = [sale EXCEPT ![k] = e]  BY <1>3 DEF SaleWrites
  <2>2. e # NoEvent  BY EventPipelineAssumption
  <2>3. ASSUME NEW c \in Customers
        PROVE  counter'[c] = Cardinality(Rows_(c)') /\ counter'[c] \in Nat
    <3>1. k \notin Rows_(c)  BY <1>3
    <3>2. Rows_(c)' = IF CustomerOf[e] = c THEN Rows_(c) \cup {k} ELSE Rows_(c)
      BY <1>1, <1>3, <2>1, <2>2 DEF TypeOK
    <3>3. counter[c] = Cardinality(Rows_(c)) /\ counter[c] \in Nat
      BY DEF CountersMatch, TypeOK
    <3>4. counter'[c] = IF CustomerOf[e] = c THEN counter[c] + 1 ELSE counter[c]
      BY <1>3, EventPipelineAssumption DEF SaleWrites, TypeOK
    <3>5. Cardinality(Rows_(c) \cup {k}) = Cardinality(Rows_(c)) + 1
      BY <1>1, <3>1, KeysFinite, CountOneMore
    <3>6. Cardinality(Rows_(c)') = counter'[c]
      <4>1. CASE CustomerOf[e] = c
        <5>1. Rows_(c)' = Rows_(c) \cup {k}  BY <4>1, <3>2
        <5>2. Cardinality(Rows_(c)') = Cardinality(Rows_(c)) + 1
          BY <5>1, <3>5, Zenon
        <5> QED  BY <4>1, <5>2, <3>3, <3>4
      <4>2. CASE CustomerOf[e] # c
        <5>1. Rows_(c)' = Rows_(c)  BY <4>2, <3>2
        <5>2. Cardinality(Rows_(c)') = Cardinality(Rows_(c))
          BY <5>1, Zenon
        <5> QED  BY <4>2, <5>2, <3>3, <3>4
      <4> QED  BY <4>1, <4>2
    <3> QED  BY <3>3, <3>4, <3>6
  <2>4. CountersMatch'  BY <2>3 DEF CountersMatch
  <2>5. counter' \in [Customers -> Nat]
    BY <1>3, EventPipelineAssumption DEF SaleWrites, TypeOK
  <2>6. sale' \in [Keys -> Events \cup {NoEvent}]  BY <1>1, <2>1 DEF TypeOK
  <2> QED  BY <2>4, <2>5, <2>6
<1> QED  BY <1>2, <1>3

\* The sale and the PROCESSED status of its event appear together.
LEMMA SaleWritesSafe ==
  ASSUME TypeOK, SaleHasItsEvent, ProcessedHasItsSale,
         NEW e \in Events, NEW l \in Locations,
         status[e] # "PROCESSED",
         SaleWrites(e, l),
         status' = [status EXCEPT ![e] = "PROCESSED"],
         location' = [location EXCEPT ![e] = l]
  PROVE  SaleHasItsEvent' /\ ProcessedHasItsSale'
<1> DEFINE k == <<l, TxnOf[e]>>
<1>1. k \in Keys  BY EventPipelineAssumption DEF Keys
<1>2. \A x \in Keys : sale[x] # e
  BY EventPipelineAssumption DEF SaleHasItsEvent
<1>3. \/ sale' = [sale EXCEPT ![k] = e] /\ sale[k] = NoEvent
      \/ sale' = sale /\ sale[k] # NoEvent
  BY DEF SaleWrites
<1>4. SaleHasItsEvent'
  <2> SUFFICES ASSUME NEW x \in Keys, sale'[x] # NoEvent
               PROVE  /\ status'[sale'[x]] = "PROCESSED"
                      /\ location'[sale'[x]] = x[1]
                      /\ TxnOf[sale'[x]] = x[2]
    BY DEF SaleHasItsEvent
  <2>1. CASE sale'[x] = e
    <3>1. x = k  BY <2>1, <1>1, <1>2, <1>3 DEF TypeOK
    <3> QED  BY <2>1, <3>1 DEF TypeOK
  <2>2. CASE sale'[x] # e
    <3>1. sale'[x] = sale[x]  BY <2>2, <1>1, <1>3 DEF TypeOK
    <3>2. sale[x] \in Events  BY <3>1 DEF TypeOK
    <3>3. status'[sale[x]] = status[sale[x]] /\ location'[sale[x]] = location[sale[x]]
      BY <2>2, <3>1, <3>2 DEF TypeOK
    <3> QED  BY <3>1, <3>3 DEF SaleHasItsEvent
  <2> QED  BY <2>1, <2>2
<1>5. ProcessedHasItsSale'
  <2> SUFFICES ASSUME NEW f \in Events, status'[f] = "PROCESSED"
               PROVE  /\ location'[f] \in Locations
                      /\ sale'[<<location'[f], TxnOf[f]>>] # NoEvent
    BY DEF ProcessedHasItsSale
  <2>1. CASE f = e
    <3>1. location'[f] = l  BY <2>1 DEF TypeOK
    <3>2. sale'[k] # NoEvent
      BY <1>1, <1>3, EventPipelineAssumption DEF TypeOK
    <3> QED  BY <2>1, <3>1, <3>2
  <2>2. CASE f # e
    <3>1. status[f] = "PROCESSED" /\ location'[f] = location[f]
      BY <2>2 DEF TypeOK
    <3> DEFINE m == <<location[f], TxnOf[f]>>
    <3>2. location[f] \in Locations /\ sale[m] # NoEvent
      BY <3>1 DEF ProcessedHasItsSale
    <3>3. m \in Keys  BY <3>2, EventPipelineAssumption DEF Keys
    <3>4. sale'[m] # NoEvent
      BY <3>2, <3>3, <1>3, EventPipelineAssumption DEF TypeOK
    <3> QED  BY <3>1, <3>2, <3>4
  <2> QED  BY <2>1, <2>2
<1> QED  BY <1>4, <1>5

\* A transaction of process_event that ends leaves its process either idle,
\* or, in POST /sales, before its on_commit hook.
LEMMA CommitRoles ==
  ASSUME TypeOK, RoleStages, NEW p \in Workers \cup Callers, NEW s,
         CommitAttempt(p, s)
  PROVE  /\ RoleStages'
         /\ pc' \in [Procs -> Stages]
         /\ cur' \in [Procs -> Events \cup {NoEvent}]
         /\ sees' \in [Procs -> {"CONNECTED", "DISCONNECTED"}]
         /\ place' \in [Procs -> Locations \cup {NoLocation}]
<1> USE EventPipelineAssumption
    DEF TypeOK, RoleStages, CommitAttempt, Finish, Goto, Procs, Stages
<1>1. CASE p \in Callers  BY <1>1
<1>2. CASE p \in Workers  BY <1>2
<1> QED  BY <1>1, <1>2

\* The initial state satisfies the invariant.
LEMMA InitInv == Init => PipelineInv
<1> SUFFICES ASSUME Init PROVE PipelineInv  OBVIOUS
<1> USE EventPipelineAssumption DEF Init
<1>1. TypeOK
  BY DEF TypeOK, Statuses, Stages, Rows
<1>2. RoleStages /\ OwnersHoldTheirEvent /\ EventLocks /\ NamedRowsExist
  BY DEF RoleStages, OwnersHoldTheirEvent, EventLocks, NamedRowsExist,
         Owning, Procs, Rows, Stages
<1>3. DisconnectHolds /\ DisconnectLeavesNothingPending
  BY DEF DisconnectHolds, DisconnectLeavesNothingPending, Procs, Rows
<1>4. SaleHasItsEvent /\ ProcessedHasItsSale /\ RetryBudget
  BY DEF SaleHasItsEvent, ProcessedHasItsSale, RetryBudget
<1>5. CountersMatch
  <2>1. \A c \in Customers :
          {k \in Keys : sale[k] # NoEvent /\ CustomerOf[sale[k]] = c} = {}
    OBVIOUS
  <2> QED  BY <2>1, FS_EmptySet DEF CountersMatch
<1> QED  BY <1>1, <1>2, <1>3, <1>4, <1>5 DEF PipelineInv

\* Every transaction, message, fault and edit preserves it.
LEMMA StepInv == PipelineInv /\ [Next]_vars => PipelineInv'
<1> SUFFICES ASSUME PipelineInv, [Next]_vars PROVE PipelineInv'  OBVIOUS
<1> USE EventPipelineAssumption
    DEF PipelineInv, TypeOK, RoleStages, OwnersHoldTheirEvent, EventLocks,
        NamedRowsExist, DisconnectHolds, SaleHasItsEvent, ProcessedHasItsSale,
        CountersMatch, RetryBudget, DisconnectLeavesNothingPending,
        committed, locals, Procs, Rows, Stages, Statuses, Owning,
        Pending, Terminal, Goto, Finish, Acquire, Released, Fault
<1>1. ASSUME NEW r \in Receivers, NEW e \in Events, ReceiveWebhook(r, e) PROVE PipelineInv'
  BY <1>1 DEF ReceiveWebhook
<1>2. ASSUME NEW c \in Callers, NEW e \in Events, IngestApiSale(c, e) PROVE PipelineInv'
  BY <1>2 DEF IngestApiSale
<1>3. ASSUME NEW p \in Receivers \cup Callers, RecordEventCheck(p) PROVE PipelineInv'
  BY <1>3 DEF RecordEventCheck
<1>4. ASSUME NEW p \in Receivers \cup Callers, RecordEventInsert(p) PROVE PipelineInv'
  BY <1>4 DEF RecordEventInsert
<1>5. ASSUME NEW p \in Receivers \cup Callers, RecordEventDuplicate(p) PROVE PipelineInv'
  BY <1>5 DEF RecordEventDuplicate
<1>6. ASSUME NEW p \in Receivers \cup Callers, RecordEventCommit(p) PROVE PipelineInv'
  BY <1>6 DEF RecordEventCommit
<1>7. ASSUME NEW p \in Receivers \cup Callers, EnqueueProcessing(p) PROVE PipelineInv'
  BY <1>7 DEF EnqueueProcessing
<1>8. ASSUME NEW p \in Receivers \cup Callers, EnqueueFails(p) PROVE PipelineInv'
  BY <1>8 DEF EnqueueFails
<1>9. ASSUME NEW w \in Workers, NEW e \in Events, TakeMessage(w, e) PROVE PipelineInv'
  BY <1>9 DEF TakeMessage
<1>10. ASSUME NEW p \in Workers \cup Callers, LockEvent(p) PROVE PipelineInv'
  BY <1>10 DEF LockEvent, LockedByProcessEvent
<1>11. ASSUME NEW p \in Workers \cup Callers, SkipEvent(p) PROVE PipelineInv'
  BY <1>11 DEF SkipEvent, LockedByProcessEvent, Holds, Ignores
<1>12. ASSUME NEW p \in Workers \cup Callers, StartAttempt(p) PROVE PipelineInv'
  BY <1>12 DEF StartAttempt, LockedByProcessEvent, Holds, Ignores
<1>13. ASSUME NEW p \in Workers \cup Callers, StartApiAttempt(p) PROVE PipelineInv'
  BY <1>13 DEF StartApiAttempt
<1>14. ASSUME NEW p \in Workers \cup Callers, AttemptSale(p) PROVE PipelineInv'
  BY <1>14 DEF AttemptSale
<1>15. ASSUME NEW p \in Workers \cup Callers, AttemptFails(p) PROVE PipelineInv'
  BY <1>15 DEF AttemptFails
<1>16. ASSUME NEW p \in Workers \cup Callers, CommitSale(p) PROVE PipelineInv'
  <2>1. RoleStages' /\ pc' \in [Procs -> Stages]
                   /\ cur' \in [Procs -> Events \cup {NoEvent}]
                   /\ sees' \in [Procs -> {"CONNECTED", "DISCONNECTED"}]
                   /\ place' \in [Procs -> Locations \cup {NoLocation}]
    BY <1>16, CommitRoles DEF CommitSale
  <2> USE <1>16 DEF CommitSale, CommitAttempt
  <2>2. CountersMatch' /\ counter' \in [Customers -> Nat]
                       /\ sale' \in [Keys -> Events \cup {NoEvent}]
    BY SaleWritesCount
  <2>3. TypeOK'  BY <2>1, <2>2
  <2>4. OwnersHoldTheirEvent' /\ EventLocks' /\ NamedRowsExist'  OBVIOUS
  <2>5. DisconnectHolds' /\ DisconnectLeavesNothingPending'  OBVIOUS
  <2>6. SaleHasItsEvent' /\ ProcessedHasItsSale'
    <3>1. /\ cur[p] \in Events /\ place[p] \in Locations
          /\ status[cur[p]] # "PROCESSED"
          /\ SaleWrites(cur[p], place[p])
          /\ status' = [status EXCEPT ![cur[p]] = "PROCESSED"]
          /\ location' = [location EXCEPT ![cur[p]] = place[p]]
      OBVIOUS
    <3> QED  BY <3>1, SaleWritesSafe
  <2>7. RetryBudget'  OBVIOUS
  <2> QED  BY <2>1, <2>2, <2>3, <2>4, <2>5, <2>6, <2>7
<1>17. ASSUME NEW p \in Workers \cup Callers, CommitCancel(p) PROVE PipelineInv'
  <2>1. RoleStages' /\ pc' \in [Procs -> Stages]
                   /\ cur' \in [Procs -> Events \cup {NoEvent}]
                   /\ sees' \in [Procs -> {"CONNECTED", "DISCONNECTED"}]
                   /\ place' \in [Procs -> Locations \cup {NoLocation}]
    BY <1>17, CommitRoles DEF CommitCancel
  <2> USE <1>17 DEF CommitCancel, CommitAttempt
  <2>2. TypeOK'  BY <2>1
  <2>3. OwnersHoldTheirEvent' /\ EventLocks' /\ NamedRowsExist'  OBVIOUS
  <2>4. DisconnectHolds' /\ DisconnectLeavesNothingPending'  OBVIOUS
  <2>5. SaleHasItsEvent' /\ ProcessedHasItsSale' /\ CountersMatch'  OBVIOUS
  <2>6. RetryBudget'  OBVIOUS
  <2> QED  BY <2>1, <2>2, <2>3, <2>4, <2>5, <2>6
<1>18. ASSUME NEW p \in Workers \cup Callers, RecordFailure(p) PROVE PipelineInv'
  <2>1. RoleStages' /\ pc' \in [Procs -> Stages]
                   /\ cur' \in [Procs -> Events \cup {NoEvent}]
                   /\ sees' \in [Procs -> {"CONNECTED", "DISCONNECTED"}]
                   /\ place' \in [Procs -> Locations \cup {NoLocation}]
    BY <1>18, CommitRoles DEF RecordFailure
  <2> USE <1>18 DEF RecordFailure, CommitAttempt, FailureWrites, FailedStatus
  <2>2. TypeOK'  BY <2>1
  <2>3. OwnersHoldTheirEvent' /\ EventLocks' /\ NamedRowsExist'  OBVIOUS
  <2>4. DisconnectHolds' /\ DisconnectLeavesNothingPending'  OBVIOUS
  <2>5. SaleHasItsEvent' /\ ProcessedHasItsSale' /\ CountersMatch'  OBVIOUS
  <2>6. RetryBudget'  OBVIOUS
  <2> QED  BY <2>1, <2>2, <2>3, <2>4, <2>5, <2>6
<1>19. ASSUME NEW d \in Admins, DisconnectLock(d) PROVE PipelineInv'
  BY <1>19 DEF DisconnectLock
<1>20. ASSUME NEW d \in Admins, DisconnectUpdate(d) PROVE PipelineInv'
  BY <1>20 DEF DisconnectUpdate
<1>21. ASSUME NEW d \in Admins, DisconnectCommit(d) PROVE PipelineInv'
  BY <1>21 DEF DisconnectCommit
<1>22. ASSUME NEW d \in Admins, NEW e \in Events, DisconnectRow(d, e) PROVE PipelineInv'
  <2> USE <1>22 DEF DisconnectRow, CancelsRow
  <2>1. TypeOK' /\ RoleStages' /\ NamedRowsExist'  OBVIOUS
  <2>2. OwnersHoldTheirEvent' /\ EventLocks'  OBVIOUS
  <2>3. DisconnectHolds'
    <3>1. \A f \in Events : lock'[f] \in Admins =>
            pc'[lock'[f]] = "updating" /\ status'[f] \in Pending
      OBVIOUS
    <3>2. \A x \in Admins, f \in saw' : pc'[x] = "updating" =>
            f \in todo' \/ lock'[f] = x \/ status'[f] \in Terminal
      OBVIOUS
    <3>3. \A x \in Admins : pc'[x] # "idle" =>
            lock'[Integration] = x /\ integ' = "CONNECTED"
      OBVIOUS
    <3> QED  BY <3>1, <3>2, <3>3
  <2>4. SaleHasItsEvent' /\ ProcessedHasItsSale' /\ CountersMatch'  OBVIOUS
  <2>5. RetryBudget' /\ DisconnectLeavesNothingPending'  OBVIOUS
  <2> QED  BY <2>1, <2>2, <2>3, <2>4, <2>5
<1>23. ASSUME NEW e \in Events, EnqueueRetry(e) PROVE PipelineInv'
  BY <1>23 DEF EnqueueRetry
<1>24. ASSUME NEW e \in Events, Age(e) PROVE PipelineInv'
  BY <1>24 DEF Age
<1>25. ASSUME NEW e \in Events, LoseMessage(e) PROVE PipelineInv'
  BY <1>25 DEF LoseMessage
<1>26. ASSUME Sweep PROVE PipelineInv'
  BY <1>26 DEF Sweep, DueEvents
<1>27. ASSUME EnqueueRetryFails PROVE PipelineInv'
  BY <1>27 DEF EnqueueRetryFails
<1>28. ASSUME EditMappings PROVE PipelineInv'
  BY <1>28 DEF EditMappings
<1>29. ASSUME NEW p \in Procs, Crash(p) PROVE PipelineInv'
  BY <1>29 DEF Crash
<1>30. CASE UNCHANGED vars
  BY <1>30 DEF vars
<1> QED
  BY <1>1, <1>2, <1>3, <1>4, <1>5, <1>6, <1>7, <1>8, <1>9, <1>10, <1>11, <1>12,
     <1>13, <1>14, <1>15, <1>16, <1>17, <1>18, <1>19, <1>20, <1>21, <1>22, <1>23, <1>24,
     <1>25, <1>26, <1>27, <1>28, <1>29, <1>30
  DEF Next, RecordEvent, ProcessEvent, Disconnect, RetryFailedEvents

\* The state invariant of the event pipeline, of every instance.
THEOREM PipelineCorrect == Spec => []PipelineInv
<1>1. PipelineInv /\ [Next]_vars => PipelineInv'  BY StepInv
<1> QED  BY InitInv, <1>1, PTL DEF Spec

\* Every variable keeps its type (attempt_count never passes the limit).
THEOREM TypeCorrect == Spec => []TypeOK
<1>1. PipelineInv => TypeOK  BY DEF PipelineInv
<1> QED  BY PipelineCorrect, <1>1, PTL

\* Transaction rows, PROCESSED events and customer counters agree, whatever
\* process_event's retries, duplicates and crashes.
THEOREM SalesExact == Spec => []SalesMatch
<1>1. PipelineInv => SalesMatch
  BY DEF PipelineInv, SalesMatch
<1> QED  BY PipelineCorrect, <1>1, PTL

\* Dead-lettering happens at the last attempt (_record_failure).
THEOREM RetriesBounded == Spec => []RetryBudget
<1>1. PipelineInv => RetryBudget  BY DEF PipelineInv
<1> QED  BY PipelineCorrect, <1>1, PTL

\* disconnect_integration settles every event its UPDATE found.
THEOREM DisconnectSafe == Spec => []DisconnectLeavesNothingPending
<1>1. PipelineInv => DisconnectLeavesNothingPending  BY DEF PipelineInv
<1> QED  BY PipelineCorrect, <1>1, PTL

SettledStays == \A e \in Events : status[e] \in Terminal =>
                  status'[e] = status[e] /\ location'[e] = location[e]

\* Only a process that holds an unsettled event writes its status, so a
\* terminal event never changes (process_event, disconnect_integration).
LEMMA TerminalStep == PipelineInv /\ [Next]_vars => SettledStays
<1> SUFFICES ASSUME PipelineInv, [Next]_vars PROVE SettledStays  OBVIOUS
<1> USE EventPipelineAssumption
    DEF PipelineInv, TypeOK, OwnersHoldTheirEvent, RoleStages, DisconnectHolds,
        committed, Procs, Pending, Terminal, Owning, SettledStays
<1>1. ASSUME UNCHANGED <<status, location>> PROVE SettledStays
  BY <1>1
<1>2. ASSUME NEW p \in Receivers \cup Callers, RecordEvent(p) PROVE SettledStays
  BY <1>2 DEF RecordEvent, RecordEventCheck, RecordEventInsert,
     RecordEventDuplicate, RecordEventCommit, EnqueueProcessing, EnqueueFails
<1>3. ASSUME NEW p \in Workers \cup Callers, ProcessEvent(p) PROVE SettledStays
  <2>1. CASE CommitSale(p)  BY <2>1 DEF CommitSale, CommitAttempt
  <2>2. CASE CommitCancel(p)  BY <2>2 DEF CommitCancel, CommitAttempt
  <2>3. CASE RecordFailure(p)  BY <2>3 DEF RecordFailure, CommitAttempt
  <2>4. CASE LockEvent(p) \/ SkipEvent(p) \/ StartAttempt(p) \/ StartApiAttempt(p)
             \/ AttemptSale(p) \/ AttemptFails(p)
    BY <2>4, <1>1 DEF LockEvent, SkipEvent, StartAttempt, StartApiAttempt,
       AttemptSale, AttemptFails
  <2> QED  BY <1>3, <2>1, <2>2, <2>3, <2>4 DEF ProcessEvent
<1>4. ASSUME NEW d \in Admins, Disconnect(d) PROVE SettledStays
  <2>1. CASE DisconnectCommit(d)
    <3>1. \A e \in Events : status[e] \in Terminal => lock[e] # d
      OBVIOUS
    <3> QED  BY <2>1, <3>1 DEF DisconnectCommit
  <2>2. CASE ~DisconnectCommit(d)
    BY <1>4, <2>2, <1>1 DEF Disconnect, DisconnectLock, DisconnectUpdate, DisconnectRow
  <2> QED  BY <2>1, <2>2
<1>5. CASE UNCHANGED vars  BY <1>5, <1>1 DEF vars
<1> QED
  BY <1>1, <1>2, <1>3, <1>4, <1>5
  DEF Next, ReceiveWebhook, IngestApiSale, TakeMessage, RetryFailedEvents, Sweep,
      EnqueueRetry, EnqueueRetryFails, Age, EditMappings, Crash, LoseMessage

\* PROCESSED, DEAD_LETTER and CANCELLED are final in every instance.
THEOREM TerminalIsFinal == Spec => TerminalForever
<1>1. PipelineInv /\ [Next]_vars => [SettledStays]_vars  BY TerminalStep
<1>2. Spec => [][SettledStays]_vars  BY PipelineCorrect, <1>1, PTL DEF Spec
<1> QED  BY <1>2 DEF TerminalForever, SettledStays

-----------------------------------------------------------------------------
(* Attempts and their backoff *)

\* An attempt under way on a FAILED event began after its backoff.
AttemptsAreDue ==
  \A w \in Workers :
    pc[w] \in {"processing", "selling", "failing"} /\ status[cur[w]] = "FAILED"
      => aged[cur[w]]

\* _is_due is tested under the row lock, and nobody else writes the row while
\* the attempt holds it.
LEMMA DueStep ==
  PipelineInv /\ AttemptsAreDue /\ [Next]_vars => AttemptsAreDue'
<1> SUFFICES ASSUME PipelineInv, AttemptsAreDue, [Next]_vars,
                    NEW w \in Workers, pc'[w] \in {"processing", "selling", "failing"},
                    status'[cur'[w]] = "FAILED"
             PROVE  aged'[cur'[w]]
  BY DEF AttemptsAreDue
<1> USE EventPipelineAssumption
    DEF PipelineInv, TypeOK, OwnersHoldTheirEvent, RoleStages, DisconnectHolds,
        AttemptsAreDue, committed, locals, Procs, Pending, Terminal, Owning, Goto, Finish
<1>0. ASSUME pc'[w] = pc[w], cur'[w] = cur[w], status' = status,
             \A e \in Events : aged[e] => aged'[e]
      PROVE  aged'[cur'[w]]
  BY <1>0
<1>1. ASSUME NEW p \in Receivers \cup Callers, RecordEvent(p) PROVE aged'[cur'[w]]
  <2>1. p # w /\ pc'[w] = pc[w] /\ cur'[w] = cur[w] /\ aged' = aged
    BY <1>1 DEF RecordEvent, RecordEventCheck, RecordEventInsert,
       RecordEventDuplicate, RecordEventCommit, EnqueueProcessing, EnqueueFails
  <2>2. status' = status \/ (lock[cur[p]] = p /\ status' = [status EXCEPT ![cur[p]] = "RECEIVED"])
    BY <1>1 DEF RecordEvent, RecordEventCheck, RecordEventInsert,
       RecordEventDuplicate, RecordEventCommit, EnqueueProcessing, EnqueueFails
  <2> QED  BY <2>1, <2>2
<1>2. ASSUME NEW p \in Workers \cup Callers, ProcessEvent(p) PROVE aged'[cur'[w]]
  <2>1. CASE p = w
    <3>1. CASE StartAttempt(p)
      BY <2>1, <3>1 DEF StartAttempt, Ignores, IsDue
    <3>2. CASE AttemptSale(p) \/ AttemptFails(p)
      BY <2>1, <3>2 DEF AttemptSale, AttemptFails
    <3>3. CASE LockEvent(p) \/ SkipEvent(p) \/ StartApiAttempt(p)
      BY <2>1, <3>3 DEF LockEvent, SkipEvent, StartApiAttempt
    <3>4. CASE CommitSale(p) \/ CommitCancel(p) \/ RecordFailure(p)
      BY <2>1, <3>4 DEF CommitSale, CommitCancel, RecordFailure, CommitAttempt
    <3> QED  BY <1>2, <3>1, <3>2, <3>3, <3>4 DEF ProcessEvent
  <2>2. CASE p # w
    <3>1. pc'[w] = pc[w] /\ cur'[w] = cur[w]
      BY <1>2, <2>2 DEF ProcessEvent, LockEvent, SkipEvent, StartAttempt, StartApiAttempt,
         AttemptSale, AttemptFails, CommitSale, CommitCancel, RecordFailure, CommitAttempt
    <3>2. \/ status' = status /\ aged' = aged
          \/ /\ lock[cur[p]] = p
             /\ \A e \in Events \ {cur[p]} : status'[e] = status[e] /\ aged'[e] = aged[e]
      BY <1>2, <2>2 DEF ProcessEvent, LockEvent, SkipEvent, StartAttempt, StartApiAttempt,
         AttemptSale, AttemptFails, CommitSale, CommitCancel, RecordFailure, CommitAttempt
    <3>3. cur[w] \in Events /\ lock[cur[w]] = w
      BY <3>1
    <3> QED  BY <2>2, <3>1, <3>2, <3>3
  <2> QED  BY <2>1, <2>2
<1>3. ASSUME NEW d \in Admins, Disconnect(d) PROVE aged'[cur'[w]]
  <2>1. d # w /\ pc'[w] = pc[w] /\ cur'[w] = cur[w] /\ aged' = aged
    BY <1>3 DEF Disconnect, DisconnectLock, DisconnectUpdate, DisconnectRow, DisconnectCommit
  <2>2. \A e \in Events : status'[e] = "FAILED" => status[e] = "FAILED"
    BY <1>3 DEF Disconnect, DisconnectLock, DisconnectUpdate, DisconnectRow, DisconnectCommit
  <2> QED  BY <2>1, <2>2
<1>4. ASSUME NEW p \in Procs, Crash(p) PROVE aged'[cur'[w]]
  BY <1>4 DEF Crash
<1>5. ASSUME NEW e \in Events, TakeMessage(w, e) PROVE aged'[cur'[w]]
  BY <1>5 DEF TakeMessage
<1>6. ASSUME NEW p \in Procs \ {w}, NEW e \in Events,
             ReceiveWebhook(p, e) \/ IngestApiSale(p, e) \/ TakeMessage(p, e)
      PROVE  aged'[cur'[w]]
  BY <1>6, <1>0 DEF ReceiveWebhook, IngestApiSale, TakeMessage
<1>7. ASSUME NEW e \in Events, Age(e) PROVE aged'[cur'[w]]
  BY <1>7, <1>0 DEF Age
<1>8. CASE RetryFailedEvents \/ EditMappings \/ \E e \in Events : LoseMessage(e)
  BY <1>8, <1>0 DEF RetryFailedEvents, Sweep, EnqueueRetry, EnqueueRetryFails, EditMappings,
     LoseMessage
<1>9. CASE UNCHANGED vars  BY <1>9, <1>0 DEF vars
<1> QED
  BY <1>1, <1>2, <1>3, <1>4, <1>5, <1>6, <1>7, <1>8, <1>9 DEF Next

AttemptsWait == \A e \in Events : attempts'[e] # attempts[e] =>
                  status[e] = "RECEIVED" \/ status[e] = "NONE" \/ aged[e]

\* Only _record_failure counts an attempt, on the event it holds.
LEMMA AttemptStep == PipelineInv /\ AttemptsAreDue /\ [Next]_vars => AttemptsWait
<1> SUFFICES ASSUME PipelineInv, AttemptsAreDue, [Next]_vars PROVE AttemptsWait
  OBVIOUS
<1> USE EventPipelineAssumption
    DEF PipelineInv, TypeOK, OwnersHoldTheirEvent, RoleStages, AttemptsAreDue, committed,
        Procs, Pending, Owning, AttemptsWait
<1>1. CASE attempts' = attempts
  BY <1>1
<1>2. ASSUME NEW p \in Workers \cup Callers, RecordFailure(p) PROVE AttemptsWait
  BY <1>2 DEF RecordFailure
<1> QED
  BY <1>1, <1>2
  DEF Next, ReceiveWebhook, IngestApiSale, TakeMessage, RetryFailedEvents, Sweep,
      EnqueueRetry, EnqueueRetryFails, Age, EditMappings, Crash, LoseMessage,
      RecordEvent, RecordEventCheck, RecordEventInsert, RecordEventDuplicate,
      RecordEventCommit, EnqueueProcessing, EnqueueFails, ProcessEvent, LockEvent,
      SkipEvent, StartAttempt, StartApiAttempt, AttemptSale, AttemptFails, CommitSale,
      CommitCancel, Disconnect, DisconnectLock, DisconnectUpdate, DisconnectRow,
      DisconnectCommit, vars

\* A duplicate message burns no attempt in any instance: a FAILED event is tried
\* again only after its backoff.
THEOREM AttemptsAreSpaced == Spec => NoAttemptBeforeDue
<1>1. Init => AttemptsAreDue
  BY EventPipelineAssumption DEF Init, AttemptsAreDue, Procs
<1>2. Spec => []AttemptsAreDue
  BY <1>1, DueStep, PipelineCorrect, PTL DEF Spec
<1>3. PipelineInv /\ AttemptsAreDue /\ [Next]_vars => [AttemptsWait]_vars
  BY AttemptStep
<1>4. Spec => [][AttemptsWait]_vars
  BY <1>2, <1>3, PipelineCorrect, PTL DEF Spec
<1> QED
  BY <1>4 DEF NoAttemptBeforeDue, AttemptsWait

-----------------------------------------------------------------------------
(* The abstract inbox *)

InboxStep == [Inbox!Next]_Inbox!inboxVars

\* Steps that write neither a status nor a sale.
LEMMA InboxStutter == status' = status /\ sale' = sale => InboxStep
BY DEF InboxStep, Inbox!inboxVars

\* One event becomes pending, stays so after a failure, or is dropped.
LEMMA InboxWrites ==
  ASSUME NEW e \in Events, NEW s \in Statuses \ {"NONE", "PROCESSED"},
         TypeOK, sale' = sale, status' = [status EXCEPT ![e] = s],
         status[e] \in Pending \cup {"NONE"}
  PROVE  InboxStep
<1> USE DEF InboxStep, Inbox!Next, Inbox!inboxVars, TypeOK, Statuses, Pending
<1>1. CASE s \in Pending /\ status[e] = "NONE"
  <2>1. Inbox!Accept(e)
    BY <1>1 DEF Inbox!Accept
  <2> QED  BY <2>1
<1>2. CASE s \in Pending /\ status[e] \in Pending
  BY <1>2
<1>3. CASE s \notin Pending
  <2>1. Inbox!Drop({e})
    BY <1>3 DEF Inbox!Drop, Inbox!Open
  <2>2. {e} \in SUBSET Events
    OBVIOUS
  <2> QED  BY <2>1, <2>2
<1> QED  BY <1>1, <1>2, <1>3

\* A disconnect drops the pending events it has locked.
LEMMA InboxDrops ==
  ASSUME NEW es \in SUBSET Events, TypeOK, sale' = sale,
         \A e \in es : status[e] \in Pending,
         status' = [e \in Events |-> IF e \in es THEN "CANCELLED" ELSE status[e]]
  PROVE  InboxStep
<1>1. Inbox!Drop(es)
  BY DEF Inbox!Drop, Inbox!Open, Pending, TypeOK, Statuses
<1> QED
  BY <1>1 DEF InboxStep, Inbox!Next

\* record_sale inside a successful attempt is Sell.
LEMMA InboxSells ==
  ASSUME NEW e \in Events, NEW l \in Locations, TypeOK,
         status[e] \in Pending \cup {"NONE"},
         SaleWrites(e, l), status' = [status EXCEPT ![e] = "PROCESSED"]
  PROVE  InboxStep
<1>1. <<l, TxnOf[e]>> \in Keys
  BY EventPipelineAssumption DEF Keys
<1>2. sale' = [sale EXCEPT ![<<l, TxnOf[e]>>] = IF @ = NoEvent THEN e ELSE @]
  BY <1>1 DEF SaleWrites, TypeOK
<1>3. Inbox!Sell(e, l)
  BY <1>2 DEF Inbox!Sell, Inbox!Open, TypeOK, Statuses, Pending
<1> QED
  BY <1>3 DEF InboxStep, Inbox!Next

\* Every transaction that commits a status is one step of the inbox.
LEMMA InboxStepTaken == PipelineInv /\ [Next]_vars => InboxStep
<1> SUFFICES ASSUME PipelineInv, [Next]_vars PROVE InboxStep  OBVIOUS
<1> USE EventPipelineAssumption
    DEF PipelineInv, TypeOK, OwnersHoldTheirEvent, RoleStages, DisconnectHolds,
        committed, Procs, Pending, Owning
<1>1. CASE UNCHANGED <<status, sale>>
  BY <1>1, InboxStutter
<1>2. ASSUME NEW r \in Receivers, RecordEventCommit(r) PROVE InboxStep
  <2>1. cur[r] \in Events /\ status[cur[r]] = "NONE" /\ sale' = sale
    BY <1>2 DEF RecordEventCommit
  <2>2. status' = [status EXCEPT ![cur[r]] = "RECEIVED"]
    BY <1>2 DEF RecordEventCommit
  <2> QED
    BY <2>1, <2>2, InboxWrites DEF Statuses
<1>3. ASSUME NEW p \in Workers \cup Callers, ProcessEvent(p) PROVE InboxStep
  <2>1. CASE CommitSale(p)
    <3>1. /\ cur[p] \in Events /\ place[p] \in Locations
          /\ status[cur[p]] \in Pending \cup {"NONE"}
          /\ SaleWrites(cur[p], place[p])
          /\ status' = [status EXCEPT ![cur[p]] = "PROCESSED"]
      BY <2>1 DEF CommitSale, CommitAttempt
    <3> QED
      BY <3>1, InboxSells
  <2>2. CASE CommitCancel(p) \/ RecordFailure(p)
    <3>1. /\ cur[p] \in Events /\ sale' = sale
          /\ status[cur[p]] \in Pending \cup {"NONE"}
      BY <2>2 DEF CommitCancel, RecordFailure, FailureWrites
    <3>2. PICK s \in {"CANCELLED", "FAILED", "DEAD_LETTER"} :
            status' = [status EXCEPT ![cur[p]] = s]
      BY <2>2 DEF CommitCancel, RecordFailure, CommitAttempt, FailedStatus
    <3> QED
      BY <3>1, <3>2, InboxWrites DEF Statuses
  <2>3. CASE LockEvent(p) \/ SkipEvent(p) \/ StartAttempt(p) \/ StartApiAttempt(p)
             \/ AttemptSale(p) \/ AttemptFails(p)
    BY <2>3, <1>1 DEF LockEvent, SkipEvent, StartAttempt, StartApiAttempt,
       AttemptSale, AttemptFails
  <2> QED
    BY <1>3, <2>1, <2>2, <2>3 DEF ProcessEvent
<1>4. ASSUME NEW d \in Admins, Disconnect(d) PROVE InboxStep
  <2>1. CASE DisconnectCommit(d)
    <3> DEFINE es == {e \in Events : lock[e] = d}
    <3>1. /\ status' = [e \in Events |-> IF e \in es THEN "CANCELLED" ELSE status[e]]
          /\ sale' = sale
          /\ \A e \in es : status[e] \in Pending
      BY <2>1 DEF DisconnectCommit
    <3>2. es \in SUBSET Events
      OBVIOUS
    <3> HIDE DEF es
    <3> QED
      BY <3>1, <3>2, InboxDrops
  <2>2. CASE ~DisconnectCommit(d)
    BY <1>4, <2>2, <1>1 DEF Disconnect, DisconnectLock, DisconnectUpdate, DisconnectRow
  <2> QED
    BY <2>1, <2>2
<1>5. ASSUME NEW p \in Receivers \cup Callers, RecordEvent(p) PROVE InboxStep
  <2>1. CASE RecordEventCommit(p)
    BY <2>1, <1>2 DEF RecordEventCommit
  <2>2. CASE ~RecordEventCommit(p)
    BY <1>5, <2>2, <1>1 DEF RecordEvent, RecordEventCheck, RecordEventInsert,
       RecordEventDuplicate, EnqueueProcessing, EnqueueFails
  <2> QED
    BY <2>1, <2>2
<1>6. CASE UNCHANGED vars
  BY <1>6, <1>1 DEF vars
<1> QED
  BY <1>1, <1>3, <1>4, <1>5, <1>6
  DEF Next, ReceiveWebhook, IngestApiSale, TakeMessage, RetryFailedEvents, Sweep,
      EnqueueRetry, EnqueueRetryFails, Age, EditMappings, Crash, LoseMessage

\* record_event, process_event and disconnect_integration, statement by statement,
\* implement the inbox of single steps.
THEOREM InboxImplemented == Spec => ImplementsSaleInbox
<1>1. Init => Inbox!Init
  BY DEF Init, Inbox!Init, Keys, Pending
<1>2. PipelineInv /\ [Next]_vars => [Inbox!Next]_Inbox!inboxVars
  BY InboxStepTaken DEF InboxStep
<1> QED
  BY <1>1, <1>2, PipelineCorrect, PTL DEF Spec, ImplementsSaleInbox, Inbox!Spec

=============================================================================
