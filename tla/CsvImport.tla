------------------------------ MODULE CsvImport ------------------------------
(***************************************************************************)
(* CSV files of sales: the upload (start_csv_import), and the task that     *)
(* records an event for each row and then deletes the staged object          *)
(* (import_csv_rows), against a disconnect, workers that die, messages that  *)
(* are lost and an operator who runs an import again.                       *)
(*                                                                         *)
(* A row is the key of its event, so that files may share rows.  An event    *)
(* says whether the disconnect's UPDATE has cancelled it; its processing is  *)
(* left to EventPipeline.                                                   *)
(***************************************************************************)
CONSTANTS
  Files,
  Sales,     \* the external event ids of all rows
  RowsOf,    \* those of each file
  Workers,
  NoFile

CsvImportAssumption ==
  /\ RowsOf \in [Files -> SUBSET Sales \ {{}}]
  /\ NoFile \notin Files

VARIABLES
  integ,     \* status of the csv Integration
  upload,    \* each file's upload
  accepted,  \* files whose upload was answered 202
  staged,    \* objects in R2
  tasks,     \* import_csv messages, acknowledged when a worker takes them
  worker,
  event      \* status of each sale's IntegrationEvent

vars == <<integ, upload, accepted, staged, tasks, worker, event>>

IdleWorker == [pc |-> "idle", file |-> NoFile, sees |-> "CONNECTED", todo |-> {}]

Init ==
  /\ integ = "CONNECTED"
  /\ upload = [f \in Files |-> "none"]
  /\ accepted = {} /\ staged = {} /\ tasks = {}
  /\ worker = [w \in Workers |-> IdleWorker]
  /\ event = [s \in Sales |-> "none"]

Ends(w) == worker' = [worker EXCEPT ![w] = IdleWorker]

-----------------------------------------------------------------------------
(* start_csv_import, in the transaction of its request *)

\* The Integration is read once; a file with an invalid row is refused whole.
StageFile(f) ==
  /\ upload[f] = "none" /\ integ = "CONNECTED"
  /\ staged' = staged \cup {f}
  /\ upload' = [upload EXCEPT ![f] = "staged"]
  /\ UNCHANGED <<integ, accepted, tasks, worker, event>>

\* The commit, and then _enqueue_csv_import, whose failure is logged.
AnswerUpload(f) ==
  /\ upload[f] = "staged"
  /\ upload' = [upload EXCEPT ![f] = "answered"]
  /\ accepted' = accepted \cup {f}
  /\ tasks' \in {tasks, tasks \cup {f}}
  /\ UNCHANGED <<integ, staged, worker, event>>

UploadDies(f) ==
  /\ upload[f] = "staged"
  /\ upload' = [upload EXCEPT ![f] = "answered"]
  /\ UNCHANGED <<integ, accepted, staged, tasks, worker, event>>

\* An operator runs the import of an object that is still there.
RunAgain(f) ==
  /\ f \in staged /\ upload[f] = "answered"
  /\ tasks' = tasks \cup {f}
  /\ UNCHANGED <<integ, upload, accepted, staged, worker, event>>

-----------------------------------------------------------------------------
(* import_csv_rows *)

\* Only an object that can be read is imported.
StartImport(w, f) ==
  /\ worker[w].pc = "idle" /\ f \in tasks
  /\ tasks' \in {tasks, tasks \ {f}}
  /\ IF f \in staged
     THEN worker' = [worker EXCEPT ![w] = [IdleWorker EXCEPT !.pc = "reading", !.file = f]]
     ELSE UNCHANGED worker
  /\ UNCHANGED <<integ, upload, accepted, staged, event>>

\* The Integration is read once, before the first row.
ReadIntegration(w) ==
  /\ worker[w].pc = "reading"
  /\ worker' = [worker EXCEPT ![w].pc = "recording", ![w].sees = integ,
                              ![w].todo = RowsOf[worker[w].file]]
  /\ UNCHANGED <<integ, upload, accepted, staged, tasks, event>>

\* record_event, one transaction; a row recorded before is left alone.
RecordRow(w) ==
  /\ worker[w].pc = "recording" /\ worker[w].sees = "CONNECTED"
  /\ \E s \in worker[w].todo :
       /\ event' = [event EXCEPT ![s] = IF @ = "none" THEN "recorded" ELSE @]
       /\ worker' = [worker EXCEPT ![w].todo = @ \ {s}]
  /\ UNCHANGED <<integ, upload, accepted, staged, tasks>>

\* Mutant: the object is deleted however the import ends.
EndsAnyway(w) == TRUE

\* After the last row, or for IntegrationDisconnected at the first.
MayDelete(w) == worker[w].todo = {} \/ worker[w].sees = "DISCONNECTED"

DeleteObject(w) ==
  /\ worker[w].pc = "recording" /\ MayDelete(w)
  /\ staged' = staged \ {worker[w].file}
  /\ Ends(w)
  /\ UNCHANGED <<integ, upload, accepted, tasks, event>>

\* An exception or the worker's death: the object stays, the message is gone.
ImportFails(w) ==
  /\ worker[w].pc # "idle"
  /\ Ends(w)
  /\ UNCHANGED <<integ, upload, accepted, staged, tasks, event>>

-----------------------------------------------------------------------------
\* disconnect_integration, one statement here; EventPipeline has its locks.
Disconnect ==
  /\ integ = "CONNECTED" /\ integ' = "DISCONNECTED"
  /\ event' = [s \in Sales |-> IF event[s] = "recorded" THEN "cancelled" ELSE event[s]]
  /\ UNCHANGED <<upload, accepted, staged, tasks, worker>>

Import(w) == ReadIntegration(w) \/ RecordRow(w) \/ DeleteObject(w) \/ ImportFails(w)

Next ==
  \/ \E f \in Files : StageFile(f) \/ AnswerUpload(f) \/ UploadDies(f) \/ RunAgain(f)
  \/ \E w \in Workers, f \in Files : StartImport(w, f)
  \/ \E w \in Workers : Import(w)
  \/ Disconnect

Spec == Init /\ [][Next]_vars

-----------------------------------------------------------------------------
(* Properties *)

TypeOK ==
  /\ integ \in {"CONNECTED", "DISCONNECTED"}
  /\ upload \in [Files -> {"none", "staged", "answered"}]
  /\ accepted \subseteq Files /\ staged \subseteq Files /\ tasks \subseteq Files
  /\ \A w \in Workers : worker[w].file \in Files \cup {NoFile} /\ worker[w].todo \subseteq Sales
  /\ event \in [Sales -> {"none", "recorded", "cancelled"}]

Imported(f) == \A s \in RowsOf[f] : event[s] # "none"

\* No row of an accepted file is lost: while one of them has no event the object
\* is there to be imported again, whatever died or ran twice, unless the
\* Integration has been disconnected (import_csv_rows deletes it last).
AcceptedIsKept ==
  \A f \in accepted : Imported(f) \/ f \in staged \/ integ = "DISCONNECTED"

\* Nothing is left for a second run to do on an object that is gone, and a run
\* under way on one is past every row another run has finished.
PurgedIsDone ==
  \A w \in Workers :
    worker[w].pc = "recording" /\ worker[w].file \notin staged /\ worker[w].sees = "CONNECTED"
      => Imported(worker[w].file) \/ integ = "DISCONNECTED"

CsvInv == TypeOK /\ AcceptedIsKept /\ PurgedIsDone
=============================================================================
