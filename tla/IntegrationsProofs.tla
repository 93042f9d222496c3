-------------------------- MODULE IntegrationsProofs --------------------------
(***************************************************************************)
(* CSV import: for any files, rows and workers, an object that is gone has   *)
(* all its rows recorded (CsvIInv).  Shopify: for any users, browsers and    *)
(* installs, whatever session a request has loaded carries an installation   *)
(* of its own user, and a link in progress has the subscriptions it counted, *)
(* or one that the next call to Shopify is bound to fail (InstallIInv).      *)
(***************************************************************************)
EXTENDS Components, TLAPS

\* The variables of CsvImport.
integ == v1
upload == v2
accepted == v3
staged == v4
tasks == v5
worker == v6
event == v7

\* The variables of ShopifyInstall.
session == v1
request == v2
rows == v3
webhooks == v4
uninstall == v5
installs == v6
exchanged == v7
revoked == v8
links == v9
uninstalls == v10

USE DEF integ, upload, accepted, staged, tasks, worker, event, session, request, rows,
        webhooks, uninstall, installs, exchanged, revoked, links, uninstalls


-----------------------------------------------------------------------------
(* CsvImport *)

CsvWorkers == [pc : {"idle", "reading", "recording"}, file : Files \cup {NoFile},
               sees : {"CONNECTED", "DISCONNECTED"}, todo : SUBSET Sales]

CsvTyped ==
  /\ Csv!TypeOK
  /\ worker \in [Workers -> CsvWorkers]
  /\ \A w \in Workers : worker[w].pc # "idle" => worker[w].file \in Files

\* Nothing is imported before its upload is answered, and the object is there
\* until then.
AnsweredFirst ==
  /\ \A f \in Files : upload[f] = "staged" => f \in staged
  /\ \A f \in accepted \cup tasks : upload[f] = "answered"
  /\ \A w \in Workers : worker[w].pc # "idle" => upload[worker[w].file] = "answered"

\* The Integration is never connected again, so a worker that saw it disconnected
\* saw the truth.
SeenIsTrue ==
  \A w \in Workers : worker[w].sees = "DISCONNECTED" => integ = "DISCONNECTED"

\* The rows a worker is through with have their events.
DoneRows ==
  \A w \in Workers : worker[w].pc = "recording" =>
    \A s \in RowsOf[worker[w].file] : s \in worker[w].todo \/ event[s] # "none"

\* An object that is gone has been imported, accepted or not.
GoneIsImported ==
  \A f \in Files : upload[f] = "answered" /\ f \notin staged =>
    Csv!Imported(f) \/ integ = "DISCONNECTED"

CsvIInv == CsvTyped /\ AnsweredFirst /\ SeenIsTrue /\ DoneRows /\ GoneIsImported

\* Init establishes it.
LEMMA CsvStarts ==
  ASSUME Csv!CsvImportAssumption, Csv!Init
  PROVE  CsvIInv
<1> USE DEF Csv!Init
<1>1. Csv!IdleWorker \in CsvWorkers /\ Csv!IdleWorker.pc = "idle" /\ Csv!IdleWorker.sees = "CONNECTED"
  BY DEF Csv!IdleWorker, CsvWorkers
<1>2. CsvTyped
  BY <1>1 DEF CsvTyped, Csv!TypeOK, CsvWorkers
<1>3. AnsweredFirst /\ SeenIsTrue /\ DoneRows /\ GoneIsImported
  BY <1>1 DEF AnsweredFirst, SeenIsTrue, DoneRows, GoneIsImported
<1> QED
  BY <1>2, <1>3 DEF CsvIInv

\* A worker that stops forgets what it was doing.
LEMMA CsvEnds ==
  ASSUME CsvTyped, NEW w \in Workers, Csv!Ends(w)
  PROVE  /\ worker' \in [Workers -> CsvWorkers]
         /\ worker'[w].pc = "idle" /\ worker'[w].sees = "CONNECTED"
         /\ \A v \in Workers \ {w} : worker'[v] = worker[v]
<1>1. Csv!IdleWorker \in CsvWorkers /\ Csv!IdleWorker.pc = "idle" /\ Csv!IdleWorker.sees = "CONNECTED"
  BY DEF Csv!IdleWorker, CsvWorkers
<1> QED
  BY <1>1 DEF CsvTyped, Csv!Ends

\* An event that is there stays: what was imported remains so.
LEMMA ImportedStays ==
  ASSUME \A s \in Sales : event[s] # "none" => event'[s] # "none",
         Csv!CsvImportAssumption, NEW f \in Files, Csv!Imported(f)
  PROVE  Csv!Imported(f)'
BY DEF Csv!Imported, Csv!CsvImportAssumption

\* Each step keeps the invariant.
LEMMA CsvStep ==
  ASSUME Csv!CsvImportAssumption, CsvIInv, [Csv!Next]_(Csv!vars)
  PROVE  CsvIInv'
<1> USE DEF CsvIInv
\* The steps of an upload leave the workers and the events alone.
<1>1. ASSUME NEW f \in Files, worker' = worker, event' = event, integ' = integ,
             upload[f] # "answered", upload' \in [Files -> {"none", "staged", "answered"}],
             upload'[f] # "none", f \in staged',
             \A g \in Files \ {f} : upload'[g] = upload[g] /\ (g \in staged' <=> g \in staged),
             staged' \subseteq Files, accepted' \subseteq accepted \cup {f},
             tasks' \subseteq tasks \cup {f},
             upload'[f] = "staged" => accepted' = accepted /\ tasks' = tasks
      PROVE  CsvIInv'
  <2>1. CsvTyped'
    BY <1>1 DEF CsvTyped, Csv!TypeOK
  <2>2. AnsweredFirst'
    BY <1>1 DEF AnsweredFirst, CsvTyped, Csv!TypeOK
  <2>3. SeenIsTrue' /\ DoneRows'
    BY <1>1 DEF SeenIsTrue, DoneRows
  <2>4. GoneIsImported'
    BY <1>1 DEF GoneIsImported, Csv!Imported
  <2> QED
    BY <2>1, <2>2, <2>3, <2>4
<1>2. ASSUME NEW f \in Files, Csv!StageFile(f)
      PROVE  CsvIInv'
  BY <1>1, <1>2 DEF Csv!StageFile, CsvTyped, Csv!TypeOK
<1>3. ASSUME NEW f \in Files, Csv!AnswerUpload(f) \/ Csv!UploadDies(f)
      PROVE  CsvIInv'
  <2>1. upload[f] = "staged" /\ upload' = [upload EXCEPT ![f] = "answered"]
    BY <1>3 DEF Csv!AnswerUpload, Csv!UploadDies
  <2>2. accepted' \subseteq accepted \cup {f} /\ tasks' \subseteq tasks \cup {f}
    BY <1>3 DEF Csv!AnswerUpload, Csv!UploadDies
  <2>3. worker' = worker /\ event' = event /\ integ' = integ /\ staged' = staged
    BY <1>3 DEF Csv!AnswerUpload, Csv!UploadDies
  <2> QED
    BY <1>1, <2>1, <2>2, <2>3 DEF CsvTyped, Csv!TypeOK, AnsweredFirst
<1>4. ASSUME NEW f \in Files, Csv!RunAgain(f)
      PROVE  CsvIInv'
  BY <1>4 DEF Csv!RunAgain, CsvTyped, Csv!TypeOK, AnsweredFirst, SeenIsTrue, DoneRows,
     GoneIsImported, Csv!Imported
<1>5. ASSUME NEW w \in Workers, NEW f \in Files, Csv!StartImport(w, f)
      PROVE  CsvIInv'
  <2>1. /\ f \in tasks /\ tasks' \subseteq tasks /\ integ' = integ /\ upload' = upload
        /\ accepted' = accepted /\ staged' = staged /\ event' = event
    BY <1>5 DEF Csv!StartImport
  <2>2. GoneIsImported'
    BY <2>1 DEF GoneIsImported, Csv!Imported
  <2>3. CASE worker' = worker
    BY <2>1, <2>2, <2>3 DEF CsvTyped, Csv!TypeOK, AnsweredFirst, SeenIsTrue, DoneRows
  <2>4. CASE worker' = [worker EXCEPT ![w] = [Csv!IdleWorker EXCEPT !.pc = "reading", !.file = f]]
    <3> DEFINE q == [Csv!IdleWorker EXCEPT !.pc = "reading", !.file = f]
    <3>1. q \in CsvWorkers /\ q.pc = "reading" /\ q.file = f /\ q.sees = "CONNECTED" /\ q.todo = {}
      BY DEF Csv!IdleWorker, CsvWorkers
    <3>2. worker' = [worker EXCEPT ![w] = q]
      BY <2>4
    <3> HIDE DEF q
    <3>3. CsvTyped'
      BY <2>1, <3>1, <3>2 DEF CsvTyped, Csv!TypeOK
    <3>4. AnsweredFirst' /\ SeenIsTrue' /\ DoneRows'
      BY <2>1, <3>1, <3>2 DEF CsvTyped, AnsweredFirst, SeenIsTrue, DoneRows
    <3> QED
      BY <2>2, <3>3, <3>4
  <2> QED
    BY <1>5, <2>3, <2>4 DEF Csv!StartImport
<1>6. ASSUME NEW w \in Workers, Csv!ReadIntegration(w)
      PROVE  CsvIInv'
  <2>1. /\ tasks' = tasks /\ integ' = integ /\ upload' = upload
        /\ accepted' = accepted /\ staged' = staged /\ event' = event
        /\ worker[w].pc = "reading" /\ worker[w].file \in Files
    BY <1>6 DEF Csv!ReadIntegration, CsvTyped
  <2>2. /\ worker'[w].pc = "recording" /\ worker'[w].sees = integ
        /\ worker'[w].todo = RowsOf[worker[w].file] /\ worker'[w].file = worker[w].file
        /\ \A v \in Workers \ {w} : worker'[v] = worker[v]
    BY <1>6 DEF Csv!ReadIntegration, CsvTyped, CsvWorkers
  <2>3. worker' \in [Workers -> CsvWorkers]
    <3>1. integ \in {"CONNECTED", "DISCONNECTED"} /\ RowsOf[worker[w].file] \in SUBSET Sales
      BY <2>1 DEF CsvTyped, Csv!TypeOK, Csv!CsvImportAssumption
    <3> DEFINE q == [worker[w] EXCEPT !.pc = "recording", !.sees = integ,
                                      !.todo = RowsOf[worker[w].file]]
    <3>2. worker \in [Workers -> CsvWorkers] /\ worker[w] \in CsvWorkers
      BY DEF CsvTyped
    <3>3. worker' = [worker EXCEPT ![w] = q]
      BY <1>6, <3>2 DEF Csv!ReadIntegration
    <3>4. q \in CsvWorkers
      BY <3>1, <3>2 DEF CsvWorkers
    <3> HIDE DEF q
    <3> QED
      BY <3>2, <3>3, <3>4
  <2>4. CsvTyped'
    BY <2>1, <2>2, <2>3 DEF CsvTyped, Csv!TypeOK, CsvWorkers
  <2>5. AnsweredFirst' /\ SeenIsTrue' /\ DoneRows' /\ GoneIsImported'
    BY <2>1, <2>2 DEF AnsweredFirst, SeenIsTrue, DoneRows, GoneIsImported, Csv!Imported
  <2> QED
    BY <2>4, <2>5
<1>7. ASSUME NEW w \in Workers, Csv!RecordRow(w)
      PROVE  CsvIInv'
  <2>1. PICK s \in worker[w].todo :
          /\ event' = [event EXCEPT ![s] = IF @ = "none" THEN "recorded" ELSE @]
          /\ worker' = [worker EXCEPT ![w].todo = @ \ {s}]
    BY <1>7 DEF Csv!RecordRow
  <2>2. /\ tasks' = tasks /\ integ' = integ /\ upload' = upload
        /\ accepted' = accepted /\ staged' = staged /\ s \in Sales /\ worker[w].pc = "recording"
    BY <1>7 DEF Csv!RecordRow, CsvTyped, CsvWorkers
  <2>3. /\ event' \in [Sales -> {"none", "recorded", "cancelled"}] /\ event'[s] # "none"
        /\ \A x \in Sales : event[x] # "none" => event'[x] # "none"
    BY <2>1, <2>2 DEF CsvTyped, Csv!TypeOK
  <2>4. /\ worker' \in [Workers -> CsvWorkers]
        /\ \A v \in Workers : /\ worker'[v].pc = worker[v].pc /\ worker'[v].file = worker[v].file
                              /\ worker'[v].sees = worker[v].sees
                              /\ worker[v].todo \subseteq worker'[v].todo \cup {s}
    BY <2>1 DEF CsvTyped, CsvWorkers
  <2>5. CsvTyped'
    BY <2>2, <2>3, <2>4 DEF CsvTyped, Csv!TypeOK, CsvWorkers
  <2>6. AnsweredFirst' /\ SeenIsTrue'
    BY <2>2, <2>4 DEF AnsweredFirst, SeenIsTrue
  <2>7. DoneRows'
    BY <2>3, <2>4 DEF DoneRows, CsvTyped, Csv!CsvImportAssumption
  <2>8. GoneIsImported'
    BY <2>2, <2>3, ImportedStays DEF GoneIsImported
  <2> QED
    BY <2>5, <2>6, <2>7, <2>8
<1>8. ASSUME NEW w \in Workers, Csv!DeleteObject(w)
      PROVE  CsvIInv'
  <2>1. /\ tasks' = tasks /\ integ' = integ /\ upload' = upload
        /\ accepted' = accepted /\ event' = event /\ staged' = staged \ {worker[w].file}
        /\ worker[w].pc = "recording" /\ worker[w].file \in Files /\ Csv!Ends(w)
        /\ worker[w].todo = {} \/ worker[w].sees = "DISCONNECTED"
    BY <1>8 DEF Csv!DeleteObject, Csv!MayDelete, CsvTyped
  <2>2. CsvTyped'
    BY <2>1, CsvEnds DEF CsvTyped, Csv!TypeOK, CsvWorkers
  <2>3. AnsweredFirst' /\ SeenIsTrue' /\ DoneRows'
    BY <2>1, CsvEnds DEF AnsweredFirst, SeenIsTrue, DoneRows
  <2>4. Csv!Imported(worker[w].file) \/ integ = "DISCONNECTED"
    BY <2>1 DEF DoneRows, SeenIsTrue, Csv!Imported
  <2>5. GoneIsImported'
    BY <2>1, <2>4 DEF GoneIsImported, Csv!Imported
  <2> QED
    BY <2>2, <2>3, <2>5
<1>9. ASSUME NEW w \in Workers, Csv!ImportFails(w)
      PROVE  CsvIInv'
  <2>1. /\ tasks' = tasks /\ integ' = integ /\ upload' = upload /\ staged' = staged
        /\ accepted' = accepted /\ event' = event /\ Csv!Ends(w)
    BY <1>9 DEF Csv!ImportFails
  <2>2. CsvTyped'
    BY <2>1, CsvEnds DEF CsvTyped, Csv!TypeOK, CsvWorkers
  <2>3. AnsweredFirst' /\ SeenIsTrue' /\ DoneRows' /\ GoneIsImported'
    BY <2>1, CsvEnds DEF AnsweredFirst, SeenIsTrue, DoneRows, GoneIsImported, Csv!Imported
  <2> QED
    BY <2>2, <2>3
<1>10. CASE Csv!Disconnect
  <2>1. /\ tasks' = tasks /\ integ' = "DISCONNECTED" /\ upload' = upload /\ staged' = staged
        /\ accepted' = accepted /\ worker' = worker
        /\ event' = [s \in Sales |-> IF event[s] = "recorded" THEN "cancelled" ELSE event[s]]
    BY <1>10 DEF Csv!Disconnect
  <2>2. CsvTyped'
    BY <2>1 DEF CsvTyped, Csv!TypeOK
  <2>3. AnsweredFirst' /\ SeenIsTrue' /\ GoneIsImported'
    BY <2>1 DEF AnsweredFirst, SeenIsTrue, GoneIsImported
  <2>4. DoneRows'
    BY <2>1 DEF DoneRows, CsvTyped, Csv!CsvImportAssumption
  <2> QED
    BY <2>2, <2>3, <2>4
<1>11. CASE UNCHANGED Csv!vars
  BY <1>11 DEF Csv!vars, CsvTyped, Csv!TypeOK, AnsweredFirst, SeenIsTrue, DoneRows,
     GoneIsImported, Csv!Imported
<1> QED
  BY <1>2, <1>3, <1>4, <1>5, <1>6, <1>7, <1>8, <1>9, <1>10, <1>11 DEF Csv!Next, Csv!Import

\* CsvIInv implies CsvInv.
LEMMA CsvSuffices ==
  ASSUME Csv!CsvImportAssumption, CsvIInv
  PROVE  Csv!CsvInv
  BY DEF CsvIInv, CsvTyped, Csv!TypeOK, AnsweredFirst, GoneIsImported, Csv!CsvInv,
     Csv!AcceptedIsKept, Csv!PurgedIsDone

\* For any files, rows and workers no row of an accepted file is lost with its
\* object, whatever died or ran twice (import_csv_rows deletes it last).
THEOREM CsvCorrect ==
  ASSUME Csv!CsvImportAssumption
  PROVE  Csv!Spec => []Csv!CsvInv
<1>1. Csv!Init => CsvIInv
  BY CsvStarts
<1>2. CsvIInv /\ [Csv!Next]_(Csv!vars) => CsvIInv'
  BY CsvStep
<1>3. CsvIInv => Csv!CsvInv
  BY CsvSuffices
<1> QED
  BY <1>1, <1>2, <1>3, PTL DEF Csv!Spec

\* In Components, whose behaviours run one component each, every state keeps
\* CsvInv, the invariant that the run checks: the same promise of import_csv_rows.
THEOREM CsvHolds == Spec => []CsvInv
<1> DEFINE Held == focus = "csv" => CsvIInv
<1>1. Csv!CsvImportAssumption
  BY ComponentsAssumption DEF ComponentsAssumption
<1>2. Init => Held
  BY <1>1, CsvStarts DEF Init
<1>3. Held /\ [Next]_allVars => Held'
  <2> SUFFICES ASSUME Held, [Next]_allVars, focus' = "csv" PROVE CsvIInv'
    OBVIOUS
  <2>1. focus = "csv" /\ [Csv!Next]_(Csv!vars)
    BY DEF Next, allVars, Csv!vars
  <2> QED
    BY <1>1, <2>1, CsvStep
<1>4. Held => CsvInv
  BY <1>1, CsvSuffices DEF CsvInv
<1> QED
  BY <1>2, <1>3, <1>4, PTL DEF Spec

-----------------------------------------------------------------------------
(* ShopifyInstall *)

Pendings == [install : 0..MaxInstalls, by : Users \cup {Nobody}, carried : BOOLEAN]

InstallRequests ==
  {q \in [pc : {"idle", "exchanging", "saving", "identifying", "registering", "deleting"},
          data : Install!Sessions, current : BOOLEAN, pending : Pendings, id : 0..MaxLinks,
          created : {{}, {"ORDERS_PAID"}, Install!Topics}] :
     q.pc = "identifying" => q.created = {}}

IntegrationRows == [status : {"none", "provisional", "CONNECTED", "DISCONNECTED"},
                    user : Users \cup {Nobody}, pending : Pendings]

InstallTyped ==
  /\ session \in Install!Sessions
  /\ request \in [Requests -> InstallRequests]
  /\ rows \in [1..MaxLinks -> IntegrationRows]
  /\ webhooks \subseteq (1..MaxLinks) \X Install!Topics /\ uninstall \subseteq 1..MaxLinks
  /\ revoked \subseteq exchanged /\ exchanged \subseteq 1..installs
  /\ installs \in 0..MaxInstalls /\ links \in 0..MaxLinks

\* A pending installation p in the hands of user u: of a code that Shopify has
\* taken, by nobody or u, or carried over a flush.
Belongs(p, u) == p.carried \/ p.by \in {Nobody, u}

Taken(p, codes) == p # Install!NoPending => p.install \in codes

Sound(s, n, codes) == /\ s.state <= n
                      /\ Belongs(s.pending, s.user)
                      /\ Taken(s.pending, codes)

\* The browser's session, and each one that a request has loaded and may save.
SessionsSound ==
  /\ Sound(session, installs, exchanged)
  /\ \A r \in Requests :
       /\ Sound(request[r].data, installs, exchanged)
       /\ Belongs(request[r].pending, request[r].data.user)
       /\ request[r].pc = "exchanging" => request[r].pending.install \in 1..installs
       /\ request[r].pc \in {"identifying", "registering"} => request[r].pending.install \in exchanged

AtShopify(r) == request[r].pc \in {"registering", "deleting"}

\* A link under way has a row number of its own, provisional until it rolls back.
LinksApart ==
  /\ \A r \in Requests : AtShopify(r) =>
       /\ request[r].id \in 1..links
       /\ rows[request[r].id].status = IF request[r].pc = "registering" THEN "provisional" ELSE "none"
  /\ \A r, x \in Requests : AtShopify(r) /\ AtShopify(x) /\ r # x => request[r].id # request[x].id
  /\ \A id \in 1..MaxLinks : id > links => rows[id].status = "none"

\* What a link has created is there, or an uninstall has revoked its token: then a
\* subscription still missing cannot be created, and the last one is owed.
CreatedOrRevoked ==
  \A r \in Requests : request[r].pc = "registering" =>
    \/ \A t \in request[r].created : <<request[r].id, t>> \in webhooks
    \/ /\ request[r].pending.install \in revoked
       /\ "APP_UNINSTALLED" \in request[r].created => request[r].id \in uninstall

InstallIInv == /\ InstallTyped /\ SessionsSound /\ LinksApart /\ CreatedOrRevoked
               /\ Install!ConnectedIsSubscribed /\ Install!LinksOwnInstallation

\* The empty values are of their types.
LEMMA EmptyValues ==
  ASSUME Install!ShopifyInstallAssumption
  PROVE  /\ Install!NoPending \in Pendings /\ Install!NoPending.by = Nobody
         /\ Install!NewSession \in Install!Sessions
         /\ Install!NewSession.state = 0 /\ Install!NewSession.pending = Install!NoPending
         /\ Install!NewSession.user = Nobody
         /\ Install!Idle \in InstallRequests /\ Install!Idle.pc = "idle" /\ Install!Idle.created = {}
         /\ Install!Idle.data = Install!NewSession /\ Install!Idle.pending = Install!NoPending
         /\ Install!NoRow \in IntegrationRows
         /\ Install!NoRow.status = "none" /\ Install!NoRow.pending = Install!NoPending
<1> USE DEF Install!ShopifyInstallAssumption
<1>1. Install!NoPending \in Pendings /\ Install!NoPending.by = Nobody
  BY DEF Install!NoPending, Pendings
<1>2. /\ Install!NewSession \in Install!Sessions
      /\ Install!NewSession.state = 0 /\ Install!NewSession.pending = Install!NoPending
      /\ Install!NewSession.user = Nobody
  BY <1>1 DEF Install!NewSession, Install!Sessions, Pendings
<1>3. /\ Install!Idle \in InstallRequests /\ Install!Idle.pc = "idle" /\ Install!Idle.created = {}
      /\ Install!Idle.data = Install!NewSession /\ Install!Idle.pending = Install!NoPending
  BY <1>1, <1>2 DEF Install!Idle, InstallRequests
<1>4. /\ Install!NoRow \in IntegrationRows
      /\ Install!NoRow.status = "none" /\ Install!NoRow.pending = Install!NoPending
  BY <1>1 DEF Install!NoRow, IntegrationRows
<1> QED
  BY <1>1, <1>2, <1>3, <1>4

\* Init establishes it.
LEMMA InstallStarts ==
  ASSUME Install!ShopifyInstallAssumption, Install!Init
  PROVE  InstallIInv
<1> USE EmptyValues DEF Install!Init, Install!ShopifyInstallAssumption
<1>1. InstallTyped
  BY DEF InstallTyped
<1>2. SessionsSound
  BY DEF SessionsSound, Sound, Belongs, Taken
<1>3. LinksApart /\ CreatedOrRevoked
  BY DEF LinksApart, AtShopify, CreatedOrRevoked
<1>4. Install!ConnectedIsSubscribed /\ Install!LinksOwnInstallation
  BY DEF Install!ConnectedIsSubscribed, Install!LinksOwnInstallation
<1> QED
  BY <1>1, <1>2, <1>3, <1>4 DEF InstallIInv

\* A step that leaves the rows and Shopify alone disturbs no link under way.
LEMMA LinksLeftAlone ==
  ASSUME InstallIInv, UNCHANGED <<rows, webhooks, uninstall, revoked, links>>,
         \A r \in Requests : AtShopify(r)' =>
           /\ AtShopify(r)
           /\ request'[r].pc = request[r].pc /\ request'[r].id = request[r].id
           /\ request'[r].created = request[r].created
           /\ request'[r].pending = request[r].pending
  PROVE  /\ LinksApart' /\ CreatedOrRevoked'
         /\ Install!ConnectedIsSubscribed' /\ Install!LinksOwnInstallation'
<1>1. LinksApart'
  BY DEF InstallIInv, LinksApart
<1>2. CreatedOrRevoked'
  BY DEF InstallIInv, CreatedOrRevoked, AtShopify
<1>3. Install!ConnectedIsSubscribed' /\ Install!LinksOwnInstallation'
  BY DEF InstallIInv, Install!ConnectedIsSubscribed, Install!LinksOwnInstallation
<1> QED
  BY <1>1, <1>2, <1>3

\* A login, the second step of one, and a logout give the session a new key.
LEMMA KeyReplaced ==
  ASSUME InstallIInv, Install!NewKey,
         UNCHANGED <<rows, webhooks, uninstall, revoked, links, installs, exchanged>>,
         session' \in Install!Sessions, Sound(session', installs, exchanged)
  PROVE  InstallIInv'
<1> USE DEF InstallIInv, Install!NewKey
<1>1. \A r \in Requests :
        /\ request'[r] \in InstallRequests
        /\ request'[r].pc = request[r].pc /\ request'[r].id = request[r].id
        /\ request'[r].created = request[r].created
        /\ request'[r].pending = request[r].pending /\ request'[r].data = request[r].data
  BY DEF InstallTyped, InstallRequests
<1>2. request' = [r \in Requests |-> request'[r]]
  OBVIOUS
<1>3. InstallTyped'
  BY <1>1, <1>2 DEF InstallTyped
<1>4. SessionsSound'
  BY <1>1 DEF SessionsSound
<1> QED
  BY <1>1, <1>3, <1>4, LinksLeftAlone DEF AtShopify

\* What logs a user in keeps the session sound.
LEMMA LoginSound ==
  ASSUME Install!ShopifyInstallAssumption, NEW s \in Install!Sessions, NEW u \in Users,
         NEW n \in Nat, NEW codes, Sound(s, n, codes)
  PROVE  /\ Install!LoggedIn(s, u) \in Install!Sessions
         /\ Sound(Install!LoggedIn(s, u), n, codes)
<1>1. CASE s.user \in {Nobody, u}
  <2>1. Install!LoggedIn(s, u) = [s EXCEPT !.user = u]
    BY <1>1 DEF Install!LoggedIn
  <2> QED
    BY <1>1, <2>1 DEF Install!Sessions, Sound, Belongs, Taken
<1>2. CASE s.user \notin {Nobody, u}
  <2>1. Install!LoggedIn(s, u) = [Install!NewSession EXCEPT !.user = u]
    BY <1>2 DEF Install!LoggedIn
  <2>2. [Install!NewSession EXCEPT !.user = u] \in Install!Sessions
    BY EmptyValues DEF Install!Sessions
  <2>3. Sound([Install!NewSession EXCEPT !.user = u], n, codes)
    BY EmptyValues DEF Install!Sessions, Sound, Belongs, Taken
  <2> QED
    BY <2>1, <2>2, <2>3
<1> QED
  BY <1>1, <1>2

\* Steps of the browser that call nobody.
LEMMA BrowserStep ==
  ASSUME Install!ShopifyInstallAssumption, InstallIInv,
         \/ Install!BeginInstall \/ Install!CompleteTwoStepLogin \/ Install!Logout
         \/ \E u \in Users : Install!Login(u) \/ Install!BeginTwoStepLogin(u)
  PROVE  InstallIInv'
<1> USE DEF Install!ShopifyInstallAssumption, InstallIInv, Install!shop, Install!counts
<1>1. session \in Install!Sessions /\ Sound(session, installs, exchanged) /\ installs \in Nat
  BY DEF InstallTyped, SessionsSound
<1>2. CASE Install!BeginInstall
  <2>1. /\ installs' = installs + 1 /\ installs < MaxInstalls
        /\ session' = [session EXCEPT !.state = installs + 1]
        /\ UNCHANGED <<request, rows, webhooks, uninstall, exchanged, revoked, links>>
    BY <1>2 DEF Install!BeginInstall
  <2>2. InstallTyped'
    BY <2>1 DEF InstallTyped, Install!Sessions
  <2>3. Sound(session', installs', exchanged')
    BY <1>1, <2>1 DEF Sound, Install!Sessions
  <2>4. \A r \in Requests : Sound(request[r].data, installs, exchanged) => Sound(request'[r].data, installs', exchanged')
    BY <1>1, <2>1 DEF Sound, InstallTyped, InstallRequests, Install!Sessions
  <2>5. SessionsSound'
    BY <1>1, <2>1, <2>3, <2>4 DEF SessionsSound
  <2> QED
    BY <2>1, <2>2, <2>5, LinksLeftAlone DEF AtShopify
<1>3. CASE Install!CompleteTwoStepLogin
  <2> DEFINE s == [session EXCEPT !.totp = Nobody]
  <2>1. s \in Install!Sessions /\ Sound(s, installs, exchanged) /\ session.totp \in Users \cup {Nobody}
    BY <1>1 DEF Sound, Install!Sessions
  <2>2. session' = Install!LoggedIn(s, session.totp) /\ session.totp # Nobody
    BY <1>3 DEF Install!CompleteTwoStepLogin
  <2> HIDE DEF s
  <2>3. session' \in Install!Sessions /\ Sound(session', installs, exchanged)
    BY <1>1, <2>1, <2>2, LoginSound
  <2> QED
    BY <1>3, <2>3, KeyReplaced DEF Install!CompleteTwoStepLogin
<1>4. CASE Install!Logout
  <2>1. session' \in Install!Sessions /\ Sound(session', installs, exchanged)
    BY <1>1, <1>4, EmptyValues DEF Install!Logout, Sound, Belongs, Taken
  <2> QED
    BY <1>4, <2>1, KeyReplaced DEF Install!Logout
<1>5. ASSUME NEW u \in Users, Install!Login(u)
      PROVE  InstallIInv'
  <2>1. session' \in Install!Sessions /\ Sound(session', installs, exchanged)
    BY <1>1, <1>5, LoginSound DEF Install!Login
  <2> QED
    BY <1>5, <2>1, KeyReplaced DEF Install!Login
<1>6. ASSUME NEW u \in Users, Install!BeginTwoStepLogin(u)
      PROVE  InstallIInv'
  <2> DEFINE kept == Install!KeptPending
  <2>1. session.pending \in Pendings
    BY <1>1 DEF Install!Sessions, Pendings
  <2>2. kept \in Pendings /\ Belongs(kept, Nobody) /\ Taken(kept, exchanged)
    BY <1>1, <2>1, EmptyValues DEF Install!KeptPending, Pendings, Belongs, Taken, Sound
  <2>3. session' = [Install!NewSession EXCEPT !.pending = kept, !.totp = u]
    BY <1>6 DEF Install!BeginTwoStepLogin
  <2> HIDE DEF kept
  <2>4. session' \in Install!Sessions
    BY <2>2, <2>3, EmptyValues DEF Install!Sessions, Pendings
  <2>5. Sound(session', installs, exchanged)
    BY <1>1, <2>2, <2>3, EmptyValues DEF Sound, Install!Sessions
  <2> QED
    BY <1>6, <2>4, <2>5, KeyReplaced DEF Install!BeginTwoStepLogin
<1> QED
  BY <1>2, <1>3, <1>4, <1>5, <1>6

\* A request takes the session up, without the state or the pending installation
\* it is going to use.
LEMMA HandlingSound ==
  ASSUME Install!ShopifyInstallAssumption, InstallIInv, NEW r \in Requests,
         NEW stage \in {"exchanging", "identifying"}, NEW p \in Pendings,
         request[r].pc = "idle", Install!Handling(r, stage, p), Belongs(p, session.user),
         stage = "exchanging" => p.install \in 1..installs,
         stage = "identifying" => p.install \in exchanged,
         UNCHANGED <<session, rows, webhooks, uninstall, exchanged, revoked, installs, links>>
  PROVE  InstallIInv'
<1> USE DEF InstallIInv
<1> DEFINE data == IF stage = "exchanging" THEN [session EXCEPT !.state = 0]
                   ELSE [session EXCEPT !.pending = Install!NoPending]
           q == [Install!Idle EXCEPT !.pc = stage, !.current = TRUE, !.pending = p, !.data = data]
<1>1. request' = [request EXCEPT ![r] = q]
  BY DEF Install!Handling
<1>2. session \in Install!Sessions /\ Sound(session, installs, exchanged) /\ installs \in Nat
  BY DEF InstallTyped, SessionsSound
<1>3. data \in Install!Sessions /\ Sound(data, installs, exchanged) /\ data.user = session.user
  <2>1. CASE stage = "exchanging"
    BY <1>2, <2>1 DEF Install!ShopifyInstallAssumption, Install!Sessions, Sound
  <2>2. CASE stage = "identifying"
    BY <1>2, <2>2, EmptyValues DEF Install!Sessions, Sound, Belongs, Taken, Pendings
  <2> QED
    BY <2>1, <2>2
<1> HIDE DEF data
<1>4. q \in InstallRequests /\ q.pc = stage /\ q.data = data /\ q.pending = p
  BY <1>3, EmptyValues DEF InstallRequests
<1> HIDE DEF q
<1>5. InstallTyped'
  BY <1>1, <1>4 DEF InstallTyped
<1>6. SessionsSound'
  BY <1>1, <1>3, <1>4 DEF SessionsSound, InstallTyped
<1>7. \A x \in Requests : AtShopify(x)' => request'[x] = request[x]
  BY <1>1, <1>4 DEF AtShopify, InstallTyped
<1> QED
  BY <1>5, <1>6, <1>7, LinksLeftAlone DEF AtShopify

\* A request ends while no link of it is under way.
LEMMA NotSavedSound ==
  ASSUME Install!ShopifyInstallAssumption, InstallIInv, NEW r \in Requests,
         Install!NotSaved(r), session' \in Install!Sessions, Sound(session', installs, exchanged'),
         UNCHANGED <<rows, webhooks, uninstall, revoked, installs, links>>,
         exchanged \subseteq exchanged', exchanged' \subseteq 1..installs
  PROVE  InstallIInv'
<1> USE DEF InstallIInv, Install!NotSaved
<1>1. InstallTyped'
  BY EmptyValues DEF InstallTyped
<1>2. SessionsSound'
  <2>1. Sound(Install!NewSession, installs, exchanged')
    BY EmptyValues DEF Sound, Taken, Belongs, InstallTyped
  <2>2. ASSUME NEW s, Sound(s, installs, exchanged) PROVE Sound(s, installs, exchanged')
    BY <2>2 DEF Sound, Taken
  <2>3. \A x \in Requests : request'[x] = request[x] \/ request'[x] = Install!Idle
    BY DEF InstallTyped
  <2> QED
    BY <2>1, <2>2, <2>3, EmptyValues DEF SessionsSound, Belongs
<1>3. \A x \in Requests : AtShopify(x)' => request'[x] = request[x]
  BY EmptyValues DEF AtShopify, InstallTyped
<1> QED
  BY <1>1, <1>2, <1>3, LinksLeftAlone DEF AtShopify

\* The steps of a callback, and the start of a link.
LEMMA CallbackStep ==
  ASSUME Install!ShopifyInstallAssumption, InstallIInv, NEW r \in Requests,
         Install!Callback(r) \/ Install!StartLink(r)
  PROVE  InstallIInv'
<1> USE DEF InstallIInv, Install!shop, Install!counts
<1>1. /\ session \in Install!Sessions /\ Sound(session, installs, exchanged) /\ installs \in Nat
      /\ request[r] \in InstallRequests /\ Sound(request[r].data, installs, exchanged)
      /\ session.pending \in Pendings /\ exchanged \subseteq 1..installs
  BY DEF InstallTyped, SessionsSound, Install!Sessions, Pendings
\* One that is refused at once writes the session only.
<1>2. ASSUME session' \in Install!Sessions, Sound(session', installs, exchanged),
             UNCHANGED <<request, rows, webhooks, uninstall, exchanged, revoked, installs, links>>
      PROVE  InstallIInv'
  <2>1. InstallTyped' /\ SessionsSound'
    BY <1>2 DEF InstallTyped, SessionsSound
  <2> QED
    BY <1>2, <2>1, LinksLeftAlone DEF AtShopify
<1>3. CASE Install!StartCallback(r)
  <2> DEFINE p == [install |-> session.state, by |-> session.user, carried |-> FALSE]
  <2>1. request[r].pc = "idle" /\ session.state # 0
          /\ UNCHANGED <<rows, webhooks, uninstall, exchanged, revoked, installs, links>>
    BY <1>3 DEF Install!StartCallback
  <2>2. p \in Pendings /\ Belongs(p, session.user) /\ p.install \in 1..installs
    BY <1>1, <2>1 DEF Install!Sessions, Pendings, Belongs, Sound
  <2>3. CASE Install!Handling(r, "exchanging", p) /\ UNCHANGED session
    <3> HIDE DEF p
    <3> QED
      BY <2>1, <2>2, <2>3, HandlingSound
  <2>4. CASE session' = [session EXCEPT !.state = 0] /\ UNCHANGED request
    <3>1. session' \in Install!Sessions /\ Sound(session', installs, exchanged)
      BY <1>1, <2>4 DEF Install!ShopifyInstallAssumption, Install!Sessions, Sound
    <3> QED
      BY <1>2, <2>1, <2>4, <3>1
  <2> QED
    BY <1>3, <2>3, <2>4 DEF Install!StartCallback
<1>4. CASE Install!StartLink(r)
  <2>1. request[r].pc = "idle" /\ session.pending # Install!NoPending
          /\ UNCHANGED <<rows, webhooks, uninstall, exchanged, revoked, installs, links>>
    BY <1>4 DEF Install!StartLink
  <2>2. Belongs(session.pending, session.user) /\ session.pending.install \in exchanged
    BY <1>1, <2>1 DEF Sound, Taken
  <2>3. CASE Install!Handling(r, "identifying", session.pending) /\ UNCHANGED session
    BY <1>1, <2>1, <2>2, <2>3, HandlingSound
  <2>4. CASE session' = [session EXCEPT !.pending = Install!NoPending] /\ UNCHANGED request
    <3>1. session' \in Install!Sessions /\ Sound(session', installs, exchanged)
      BY <1>1, <2>4, EmptyValues DEF Install!Sessions, Sound, Belongs, Taken, Pendings
    <3> QED
      BY <1>2, <2>1, <2>4, <3>1
  <2> QED
    BY <1>4, <2>3, <2>4 DEF Install!StartLink
<1>5. CASE Install!SaveSession(r)
  <2>1. session' \in Install!Sessions /\ Sound(session', installs, exchanged')
    BY <1>1, <1>5 DEF Install!SaveSession, InstallRequests
  <2> QED
    BY <1>1, <1>5, <2>1, NotSavedSound DEF Install!SaveSession
<1>6. CASE Install!ExchangeCode(r)
  <2> DEFINE i == request[r].pending.install
             p == request[r].pending
  <2>1. /\ request[r].pc = "exchanging" /\ i \in 1..installs /\ p \in Pendings
        /\ Belongs(p, request[r].data.user)
        /\ UNCHANGED <<session, rows, webhooks, uninstall, revoked, installs, links>>
    BY <1>1, <1>6 DEF Install!ExchangeCode, SessionsSound, InstallRequests
  <2>2. exchanged' = exchanged \cup {i} \/ exchanged' = exchanged
    BY <1>6 DEF Install!ExchangeCode
  <2>3. Sound(session', installs, exchanged') /\ exchanged' \subseteq 1..installs
    BY <1>1, <2>1, <2>2 DEF Sound, Taken
  <2>4. CASE Install!NotSaved(r)
    BY <1>1, <2>1, <2>2, <2>3, <2>4, NotSavedSound
  <2>5. ASSUME NEW q \in InstallRequests, request' = [request EXCEPT ![r] = q],
               q.pc = "saving", Sound(q.data, installs, exchanged'), q.pending = p,
               q.data.user = request[r].data.user
        PROVE  InstallIInv'
    <3>1. InstallTyped'
      BY <2>1, <2>2, <2>3, <2>5 DEF InstallTyped
    <3>2. SessionsSound'
      BY <2>1, <2>2, <2>3, <2>5 DEF SessionsSound, Sound, Taken, InstallTyped
    <3>3. \A x \in Requests : AtShopify(x)' => request'[x] = request[x]
      BY <2>1, <2>5 DEF AtShopify, InstallTyped
    <3> QED
      BY <2>1, <3>1, <3>2, <3>3, LinksLeftAlone DEF AtShopify
  <2>6. CASE request' = [request EXCEPT ![r] = [@ EXCEPT !.pc = "saving", !.data.pending = p]]
               /\ exchanged' = exchanged \cup {i}
    <3> DEFINE q == [request[r] EXCEPT !.pc = "saving", !.data.pending = p]
    <3>1. request' = [request EXCEPT ![r] = q]
      BY <2>6
    <3>2. q \in InstallRequests /\ q.pc = "saving" /\ q.pending = p
      BY <1>1, <2>1 DEF InstallRequests, Install!Sessions, Pendings
    <3>3. /\ q.data.user = request[r].data.user /\ q.data.state = request[r].data.state
          /\ q.data.pending = p
      BY <1>1 DEF InstallRequests, Install!Sessions
    <3> HIDE DEF q
    <3>4. Sound(q.data, installs, exchanged')
      BY <1>1, <2>1, <2>6, <3>3 DEF Sound, Taken
    <3> QED
      BY <2>5, <3>1, <3>2, <3>3, <3>4
  <2>7. CASE Install!Goto(r, "saving")
    <3> DEFINE q == [request[r] EXCEPT !.pc = "saving"]
    <3>1. request' = [request EXCEPT ![r] = q]
      BY <2>7 DEF Install!Goto, InstallTyped
    <3>2. q \in InstallRequests /\ q.pc = "saving" /\ q.pending = p /\ q.data = request[r].data
      BY <1>1 DEF InstallRequests
    <3> HIDE DEF q
    <3>3. Sound(q.data, installs, exchanged')
      BY <1>1, <2>2, <3>2 DEF Sound, Taken
    <3> QED
      BY <2>5, <3>1, <3>2, <3>3
  <2> QED
    BY <1>6, <2>4, <2>6, <2>7 DEF Install!ExchangeCode
<1> QED
  BY <1>3, <1>4, <1>5, <1>6 DEF Install!Callback

\* A request goes on with the data and the pending installation it has, or ends.
LEMMA GoesOn ==
  ASSUME Install!ShopifyInstallAssumption, InstallIInv, NEW r \in Requests,
         NEW q \in InstallRequests, request' = [request EXCEPT ![r] = q],
         \/ q = Install!Idle
         \/ /\ q.data = request[r].data /\ q.pending = request[r].pending
            /\ q.pc # "exchanging"
            /\ q.pc \in {"identifying", "registering"} =>
                 request[r].pc \in {"identifying", "registering"},
         UNCHANGED <<session, installs, exchanged>>
  PROVE  /\ request' \in [Requests -> InstallRequests] /\ SessionsSound'
         /\ request'[r] = q
         /\ \A x \in Requests \ {r} : request'[x] = request[x]
<1> USE DEF InstallIInv
<1>1. /\ request' \in [Requests -> InstallRequests] /\ request'[r] = q
      /\ \A x \in Requests \ {r} : request'[x] = request[x]
  BY DEF InstallTyped
<1>2. SessionsSound'
  <2>1. Sound(Install!NewSession, installs, exchanged)
    BY EmptyValues DEF Sound, Taken, Belongs, InstallTyped
  <2> QED
    BY <1>1, <2>1, EmptyValues DEF SessionsSound, Belongs
<1> QED
  BY <1>1, <1>2

\* Topics are registered one after the other, until both have been.
LEMMA TopicsInTurn ==
  ASSUME NEW created \in {{}, {"ORDERS_PAID"}, Install!Topics}
  PROVE  /\ Install!NextTopic(created) = "none" => created = Install!Topics
         /\ Install!NextTopic(created) # "none" =>
              /\ Install!NextTopic(created) \in Install!Topics
              /\ created \cup {Install!NextTopic(created)} \in {{"ORDERS_PAID"}, Install!Topics}
<1>1. Install!Topics # {} /\ Install!Topics # {"ORDERS_PAID"}
  BY DEF Install!Topics
<1> QED
  BY <1>1 DEF Install!NextTopic, Install!Topics

\* A link rolls back: its row, if it has one, is as it was before.
LEMMA RollsBack ==
  ASSUME Install!ShopifyInstallAssumption, InstallIInv, NEW r \in Requests,
         NEW q \in InstallRequests, request' = [request EXCEPT ![r] = q],
         request[r].pc \in {"registering", "deleting"},
         rows' = Install!RolledBack(r) \/ (rows' = rows /\ request[r].pc = "deleting"),
         \/ q = Install!Idle
         \/ /\ q.data = request[r].data /\ q.pending = request[r].pending
            /\ q.pc = "deleting" /\ q.id = request[r].id,
         webhooks' \subseteq (1..MaxLinks) \X Install!Topics,
         \A id \in 1..MaxLinks, t \in Install!Topics :
           <<id, t>> \in webhooks /\ id # request[r].id => <<id, t>> \in webhooks',
         UNCHANGED <<session, uninstall, installs, exchanged, revoked, links>>
  PROVE  InstallIInv'
<1> USE DEF InstallIInv
<1> DEFINE id == request[r].id
<1>1. /\ request' \in [Requests -> InstallRequests] /\ SessionsSound' /\ request'[r] = q
      /\ \A x \in Requests \ {r} : request'[x] = request[x]
  <2>1. UNCHANGED <<session, installs, exchanged>>
    OBVIOUS
  <2>2. CASE q = Install!Idle
    BY <2>1, <2>2, GoesOn
  <2>3. CASE q.data = request[r].data /\ q.pending = request[r].pending /\ q.pc = "deleting"
    BY <2>1, <2>3, GoesOn
  <2> QED
    BY <2>2, <2>3
<1>2. id \in 1..links /\ id \in 1..MaxLinks
  BY DEF LinksApart, AtShopify, InstallTyped, Install!ShopifyInstallAssumption
<1>3. /\ rows' \in [1..MaxLinks -> IntegrationRows] /\ rows'[id].status = "none"
      /\ rows'[id] = rows[id] \/ rows'[id] = Install!NoRow
      /\ \A k \in (1..MaxLinks) \ {id} : rows'[k] = rows[k]
  <2>1. CASE rows' = Install!RolledBack(r)
    BY <1>2, <2>1, EmptyValues DEF Install!RolledBack, InstallTyped
  <2>2. CASE rows' = rows /\ request[r].pc = "deleting"
    BY <2>2 DEF LinksApart, AtShopify, InstallTyped
  <2> QED
    BY <2>1, <2>2
<1>4. InstallTyped'
  BY <1>1, <1>3 DEF InstallTyped
<1>5. LinksApart'
  <2>1. \A x \in Requests \ {r} : AtShopify(x) => request[x].id # id
    BY DEF LinksApart, AtShopify
  <2>2. \A x \in Requests \ {r} : AtShopify(x)' => AtShopify(x) /\ request'[x] = request[x]
    BY <1>1 DEF AtShopify
  <2>3. \A x \in Requests \ {r} : AtShopify(x)' =>
          /\ request'[x].id \in 1..links' /\ request'[x].id # id
          /\ rows'[request'[x].id].status = IF request'[x].pc = "registering" THEN "provisional" ELSE "none"
    <3>1. \A x \in Requests : AtShopify(x) => request[x].id \in 1..MaxLinks
      BY DEF LinksApart, InstallTyped, Install!ShopifyInstallAssumption
    <3> QED
      BY <1>3, <2>1, <2>2, <3>1 DEF LinksApart
  <2>4. AtShopify(r)' => /\ request'[r].id = id /\ request'[r].pc = "deleting"
    BY <1>1, EmptyValues DEF AtShopify
  <2>5. \A k \in 1..MaxLinks : k > links' => rows'[k].status = "none"
    BY <1>3 DEF LinksApart
  <2>6. \A x, y \in Requests \ {r} : AtShopify(x)' /\ AtShopify(y)' /\ x # y => request'[x].id # request'[y].id
    BY <2>2 DEF LinksApart
  <2> QED
    BY <1>2, <1>3, <2>3, <2>4, <2>5, <2>6 DEF LinksApart
<1>6. CreatedOrRevoked'
  <2>1. q.pc # "registering"
    BY EmptyValues
  <2>2. ASSUME NEW x \in Requests, request'[x].pc = "registering"
        PROVE  /\ x # r /\ request'[x] = request[x] /\ request[x].id # id
               /\ request[x].id \in 1..MaxLinks /\ request[x].created \subseteq Install!Topics
    <3>1. x # r /\ request'[x] = request[x] /\ request[x].pc = "registering"
      BY <1>1, <2>1, <2>2
    <3>2. request[x].id # id
      BY <3>1 DEF LinksApart, AtShopify
    <3>3. request[x].id \in 1..MaxLinks
      BY <3>1 DEF LinksApart, AtShopify, InstallTyped, Install!ShopifyInstallAssumption
    <3>4. request[x].created \subseteq Install!Topics
      BY DEF InstallTyped, InstallRequests, Install!Topics
    <3> QED
      BY <3>1, <3>2, <3>3, <3>4
  <2>3. ASSUME NEW x \in Requests, request'[x].pc = "registering"
        PROVE  \/ \A t \in request[x].created : <<request[x].id, t>> \in webhooks'
               \/ /\ request[x].pending.install \in revoked
                  /\ "APP_UNINSTALLED" \in request[x].created => request[x].id \in uninstall
    <3>1. /\ request[x].pc = "registering" /\ request[x].id # request[r].id
          /\ request[x].id \in 1..MaxLinks /\ request[x].created \subseteq Install!Topics
      BY <2>2, <2>3
    <3>2. \A t \in request[x].created :
            <<request[x].id, t>> \in webhooks => <<request[x].id, t>> \in webhooks'
      BY <3>1
    <3> QED
      BY <3>1, <3>2 DEF CreatedOrRevoked
  <2> QED
    BY <2>2, <2>3 DEF CreatedOrRevoked
<1>7. Install!ConnectedIsSubscribed'
  BY <1>3 DEF Install!ConnectedIsSubscribed, Install!Topics
<1>8. Install!LinksOwnInstallation'
  BY <1>3, EmptyValues DEF Install!LinksOwnInstallation
<1> QED
  BY <1>1, <1>4, <1>5, <1>6, <1>7, <1>8

\* The shop is identified, and the row inserted under a number of its own.
LEMMA IdentifyStep ==
  ASSUME Install!ShopifyInstallAssumption, InstallIInv, NEW r \in Requests,
         Install!IdentifyShop(r)
  PROVE  InstallIInv'
<1> USE DEF Install!ShopifyInstallAssumption, InstallIInv, Install!shop, Install!counts
<1>1. /\ request[r].pc = "identifying" /\ request[r] \in InstallRequests
      /\ UNCHANGED <<session, webhooks, uninstall, exchanged, revoked, installs>>
  BY DEF Install!IdentifyShop, InstallTyped
<1>2. CASE Install!NotSaved(r) /\ UNCHANGED <<rows, links>>
  <2>1. session' \in Install!Sessions /\ Sound(session', installs, exchanged')
    BY <1>1 DEF InstallTyped, SessionsSound
  <2> QED
    BY <1>1, <1>2, <2>1, NotSavedSound DEF InstallTyped
<1>3. CASE Install!Goto(r, "saving") /\ UNCHANGED <<rows, links>>
  <2> DEFINE q == [request[r] EXCEPT !.pc = "saving"]
  <2>1. request' = [request EXCEPT ![r] = q]
    BY <1>3 DEF Install!Goto, InstallTyped
  <2>2. q \in InstallRequests /\ q.pc = "saving" /\ q.data = request[r].data /\ q.pending = request[r].pending
    BY <1>1 DEF InstallRequests
  <2> HIDE DEF q
  <2>3. /\ request' \in [Requests -> InstallRequests] /\ SessionsSound' /\ request'[r] = q
        /\ \A x \in Requests \ {r} : request'[x] = request[x]
    BY <1>1, <2>1, <2>2, GoesOn
  <2>4. InstallTyped'
    BY <1>1, <1>3, <2>3 DEF InstallTyped
  <2>5. \A x \in Requests : AtShopify(x)' => request'[x] = request[x]
    BY <2>2, <2>3 DEF AtShopify
  <2> QED
    BY <1>1, <1>3, <2>3, <2>4, <2>5, LinksLeftAlone DEF AtShopify
<1>4. ASSUME links < MaxLinks, links' = links + 1,
             rows' = [rows EXCEPT ![links + 1] = Install!ProvisionalRow(r)],
             request' = [request EXCEPT ![r].pc = "registering", ![r].id = links + 1]
      PROVE  InstallIInv'
  <2> DEFINE id == links + 1
             new == Install!ProvisionalRow(r)
             q == [request[r] EXCEPT !.pc = "registering", !.id = links + 1]
  <2>1. id \in 1..MaxLinks /\ id \in 0..MaxLinks /\ id > links /\ links \in 0..MaxLinks /\ links' = id
    BY <1>4 DEF InstallTyped
  <2>2. request' = [request EXCEPT ![r] = q]
    BY <1>4 DEF InstallTyped
  <2>3. /\ q \in InstallRequests /\ q.pc = "registering" /\ q.data = request[r].data
        /\ q.pending = request[r].pending /\ q.id = id /\ q.created = request[r].created
    BY <1>1, <2>1 DEF InstallRequests
  <2>4. /\ new \in IntegrationRows /\ new.status = "provisional" /\ new.pending = request[r].pending
        /\ new.user = request[r].data.user
    BY <1>1 DEF Install!ProvisionalRow, IntegrationRows, InstallRequests, Install!Sessions
  <2>5. rows' = [rows EXCEPT ![id] = new]
    BY <1>4
  <2> HIDE DEF q, new, id
  <2>6. /\ request' \in [Requests -> InstallRequests] /\ SessionsSound' /\ request'[r] = q
        /\ \A x \in Requests \ {r} : request'[x] = request[x]
    BY <1>1, <2>2, <2>3, GoesOn
  <2>7. /\ rows' \in [1..MaxLinks -> IntegrationRows] /\ rows'[id] = new
        /\ \A k \in (1..MaxLinks) \ {id} : rows'[k] = rows[k]
    BY <2>1, <2>4, <2>5 DEF InstallTyped
  <2>8. InstallTyped'
    BY <1>1, <2>1, <2>6, <2>7 DEF InstallTyped
  <2>9. \A x \in Requests \ {r} : AtShopify(x)' =>
          AtShopify(x) /\ request'[x] = request[x] /\ request[x].id \in 1..links /\ request[x].id # id
    BY <2>1, <2>6 DEF AtShopify, LinksApart
  <2>10. LinksApart'
    <3>1. \A x \in Requests : AtShopify(x)' =>
           /\ request'[x].id \in 1..links'
           /\ rows'[request'[x].id].status = IF request'[x].pc = "registering" THEN "provisional" ELSE "none"
      BY <2>1, <2>3, <2>4, <2>6, <2>7, <2>9 DEF LinksApart
    <3>2. \A x, y \in Requests : AtShopify(x)' /\ AtShopify(y)' /\ x # y => request'[x].id # request'[y].id
      BY <2>3, <2>6, <2>9 DEF LinksApart
    <3>3. \A k \in 1..MaxLinks : k > links' => rows'[k].status = "none"
      BY <2>1, <2>7 DEF LinksApart
    <3> QED
      BY <3>1, <3>2, <3>3 DEF LinksApart
  <2>11. CreatedOrRevoked'
    <3>1. q.created = {}
      BY <1>1, <2>3 DEF InstallRequests
    <3>2. \A x \in Requests : request'[x].pc = "registering" => x = r \/ request'[x] = request[x]
      BY <2>6
    <3> QED
      BY <1>1, <2>3, <2>6, <3>1, <3>2 DEF CreatedOrRevoked
  <2>12. Install!ConnectedIsSubscribed'
    BY <1>1, <2>4, <2>7 DEF Install!ConnectedIsSubscribed
  <2>13. Install!LinksOwnInstallation'
    BY <2>4, <2>7 DEF Install!LinksOwnInstallation, SessionsSound, Belongs
  <2> QED
    BY <2>6, <2>8, <2>10, <2>11, <2>12, <2>13
<1> QED
  BY <1>2, <1>3, <1>4 DEF Install!IdentifyShop

\* A subscription is created, or may have been and the link rolls back.
LEMMA RegisterStep ==
  ASSUME Install!ShopifyInstallAssumption, InstallIInv, NEW r \in Requests,
         Install!RegisterWebhook(r)
  PROVE  InstallIInv'
<1> USE DEF Install!ShopifyInstallAssumption, InstallIInv, Install!shop, Install!counts
<1> DEFINE id == request[r].id
           t == Install!NextTopic(request[r].created)
<1>1. /\ request[r].pc = "registering" /\ request[r] \in InstallRequests /\ t # "none"
      /\ UNCHANGED <<session, uninstall, exchanged, revoked, links, installs>>
  BY DEF Install!RegisterWebhook, InstallTyped
<1>2. /\ t \in Install!Topics /\ request[r].created \cup {t} \in {{"ORDERS_PAID"}, Install!Topics}
      /\ id \in 1..links /\ id \in 1..MaxLinks
  <2>1. request[r].created \in {{}, {"ORDERS_PAID"}, Install!Topics}
    BY <1>1 DEF InstallRequests
  <2>2. t \in Install!Topics /\ request[r].created \cup {t} \in {{"ORDERS_PAID"}, Install!Topics}
    BY <1>1, <2>1, TopicsInTurn
  <2>3. id \in 1..links /\ id \in 1..MaxLinks
    BY <1>1 DEF LinksApart, AtShopify, InstallTyped
  <2> QED
    BY <2>2, <2>3
<1>3. webhooks' \subseteq (1..MaxLinks) \X Install!Topics /\ webhooks \subseteq webhooks'
  BY <1>1, <1>2 DEF Install!RegisterWebhook, InstallTyped
<1>4. CASE rows' = Install!RolledBack(r) /\ Install!Goto(r, "deleting")
  <2> DEFINE q == [request[r] EXCEPT !.pc = "deleting"]
  <2>1. request' = [request EXCEPT ![r] = q]
    BY <1>4 DEF Install!Goto, InstallTyped
  <2>2. /\ q \in InstallRequests /\ q.pc = "deleting" /\ q.data = request[r].data
        /\ q.pending = request[r].pending /\ q.id = request[r].id
    BY <1>1 DEF InstallRequests
  <2> HIDE DEF q
  <2>3. \A k \in 1..MaxLinks, u \in Install!Topics :
          <<k, u>> \in webhooks /\ k # request[r].id => <<k, u>> \in webhooks'
    BY <1>3
  <2> QED
    BY <1>1, <1>3, <1>4, <2>1, <2>2, <2>3, RollsBack
<1>5. ASSUME request[r].pending.install \notin revoked, webhooks' = webhooks \cup {<<id, t>>},
             request' = [request EXCEPT ![r].created = @ \cup {t}], UNCHANGED rows
      PROVE  InstallIInv'
  <2> DEFINE created == request[r].created \cup {t}
             q == [request[r] EXCEPT !.created = created]
  <2>1. request' = [request EXCEPT ![r] = q]
    BY <1>5 DEF InstallTyped
  <2>2. created \in {{"ORDERS_PAID"}, Install!Topics}
    BY <1>2
  <2> HIDE DEF created
  <2>3. /\ q \in InstallRequests /\ q.pc = "registering" /\ q.data = request[r].data
        /\ q.pending = request[r].pending /\ q.id = id /\ q.created = created
    BY <1>1, <2>2 DEF InstallRequests
  <2> HIDE DEF q
  <2>4. /\ request' \in [Requests -> InstallRequests] /\ SessionsSound' /\ request'[r] = q
        /\ \A x \in Requests \ {r} : request'[x] = request[x]
    BY <1>1, <2>1, <2>3, GoesOn
  <2>5. InstallTyped'
    BY <1>1, <1>3, <1>5, <2>4 DEF InstallTyped
  <2>6. LinksApart'
    BY <1>1, <1>5, <2>3, <2>4 DEF LinksApart, AtShopify
  <2>7. \A u \in request[r].created : <<id, u>> \in webhooks
    BY <1>1, <1>5 DEF CreatedOrRevoked
  <2>8. \A u \in created : <<id, u>> \in webhooks'
    BY <1>5, <2>7 DEF created
  <2>9. CreatedOrRevoked'
    BY <1>1, <1>3, <2>3, <2>4, <2>8 DEF CreatedOrRevoked
  <2>10. Install!ConnectedIsSubscribed' /\ Install!LinksOwnInstallation'
    BY <1>1, <1>3, <1>5 DEF Install!ConnectedIsSubscribed, Install!LinksOwnInstallation
  <2> QED
    BY <2>4, <2>5, <2>6, <2>9, <2>10
<1> QED
  BY <1>4, <1>5 DEF Install!RegisterWebhook

\* The commit of a link that has both its subscriptions, or owed them.
LEMMA CommitStep ==
  ASSUME Install!ShopifyInstallAssumption, InstallIInv, NEW r \in Requests,
         Install!CommitLink(r)
  PROVE  InstallIInv'
<1> USE DEF Install!ShopifyInstallAssumption, InstallIInv, Install!shop, Install!counts
<1> DEFINE id == request[r].id
<1>1. /\ request[r].pc = "registering" /\ request[r] \in InstallRequests
      /\ request[r].created = Install!Topics
      /\ UNCHANGED <<session, webhooks, uninstall, exchanged, revoked, links, installs>>
  BY TopicsInTurn DEF Install!CommitLink, InstallTyped, InstallRequests
<1>2. id \in 1..links /\ id \in 1..MaxLinks /\ rows[id].status = "provisional"
  BY <1>1 DEF LinksApart, AtShopify, InstallTyped
<1>3. CASE rows' = Install!RolledBack(r) /\ Install!NotSaved(r)
  <2>1. request' = [request EXCEPT ![r] = Install!Idle]
    BY <1>3 DEF Install!NotSaved
  <2> QED
    BY <1>1, <1>3, <2>1, EmptyValues, RollsBack DEF InstallTyped
<1>4. CASE rows' = [rows EXCEPT ![id].status = "CONNECTED"] /\ Install!Goto(r, "saving")
  <2> DEFINE q == [request[r] EXCEPT !.pc = "saving"]
  <2>1. request' = [request EXCEPT ![r] = q]
    BY <1>4 DEF Install!Goto, InstallTyped
  <2>2. q \in InstallRequests /\ q.pc = "saving" /\ q.data = request[r].data /\ q.pending = request[r].pending
    BY <1>1 DEF InstallRequests
  <2> HIDE DEF q
  <2>3. /\ request' \in [Requests -> InstallRequests] /\ SessionsSound' /\ request'[r] = q
        /\ \A x \in Requests \ {r} : request'[x] = request[x]
    BY <1>1, <2>1, <2>2, GoesOn
  <2>4. /\ rows' \in [1..MaxLinks -> IntegrationRows] /\ rows'[id].status = "CONNECTED"
        /\ rows'[id].user = rows[id].user /\ rows'[id].pending = rows[id].pending
        /\ \A k \in (1..MaxLinks) \ {id} : rows'[k] = rows[k]
    BY <1>2, <1>4 DEF InstallTyped, IntegrationRows
  <2>5. InstallTyped'
    BY <1>1, <2>3, <2>4 DEF InstallTyped
  <2>6. \A x \in Requests : AtShopify(x)' =>
          /\ x # r /\ AtShopify(x) /\ request'[x] = request[x]
          /\ request[x].id # id /\ request[x].id \in 1..MaxLinks
    BY <1>1, <2>2, <2>3 DEF AtShopify, LinksApart, InstallTyped
  <2>7. LinksApart'
    <3>1. \A x \in Requests : AtShopify(x)' =>
           /\ request'[x].id \in 1..links'
           /\ rows'[request'[x].id].status = IF request'[x].pc = "registering" THEN "provisional" ELSE "none"
      BY <1>1, <2>4, <2>6 DEF LinksApart
    <3>2. \A x, y \in Requests : AtShopify(x)' /\ AtShopify(y)' /\ x # y => request'[x].id # request'[y].id
      BY <2>6 DEF LinksApart
    <3>3. \A k \in 1..MaxLinks : k > links' => rows'[k].status = "none"
      BY <1>1, <1>2, <2>4 DEF LinksApart, InstallTyped
    <3> QED
      BY <3>1, <3>2, <3>3 DEF LinksApart
  <2>8. CreatedOrRevoked'
    BY <1>1, <2>6 DEF CreatedOrRevoked, AtShopify
  <2>9. Install!ConnectedIsSubscribed'
    <3>1. id \in uninstall \/ \A t \in Install!Topics : <<id, t>> \in webhooks
      BY <1>1 DEF CreatedOrRevoked, Install!Topics
    <3> QED
      BY <1>1, <2>4, <3>1 DEF Install!ConnectedIsSubscribed
  <2>10. Install!LinksOwnInstallation'
    BY <2>4 DEF Install!LinksOwnInstallation
  <2> QED
    BY <2>3, <2>5, <2>7, <2>8, <2>9, <2>10
<1> QED
  BY <1>3, <1>4 DEF Install!CommitLink

\* A failed link deletes what it created, and a request may die at any point.
LEMMA FailureStep ==
  ASSUME Install!ShopifyInstallAssumption, InstallIInv, NEW r \in Requests,
         Install!DeleteWebhooks(r) \/ Install!RequestDies(r)
  PROVE  InstallIInv'
<1> USE DEF Install!ShopifyInstallAssumption, InstallIInv, Install!shop, Install!counts
<1>1. CASE Install!DeleteWebhooks(r)
  <2>1. /\ request[r].pc = "deleting" /\ request' = [request EXCEPT ![r] = Install!Idle]
        /\ UNCHANGED <<session, rows, uninstall, exchanged, revoked, links, installs>>
    BY <1>1 DEF Install!DeleteWebhooks, Install!NotSaved
  <2>2. PICK deleted \in SUBSET request[r].created :
          webhooks' = webhooks \ {<<request[r].id, t>> : t \in deleted}
    BY <1>1 DEF Install!DeleteWebhooks
  <2>3. webhooks' \subseteq (1..MaxLinks) \X Install!Topics
    BY <2>2 DEF InstallTyped
  <2>4. \A k \in 1..MaxLinks, u \in Install!Topics :
          <<k, u>> \in webhooks /\ k # request[r].id => <<k, u>> \in webhooks'
    BY <2>2
  <2> QED
    BY <2>1, <2>3, <2>4, EmptyValues, RollsBack
<1>2. CASE Install!RequestDies(r) /\ request[r].pc = "registering"
  <2>1. /\ rows' = Install!RolledBack(r) /\ request' = [request EXCEPT ![r] = Install!Idle]
        /\ UNCHANGED <<session, webhooks, uninstall, exchanged, revoked, links, installs>>
    BY <1>2 DEF Install!RequestDies, Install!NotSaved
  <2> QED
    BY <1>2, <2>1, EmptyValues, RollsBack DEF InstallTyped
<1>3. CASE Install!RequestDies(r) /\ request[r].pc # "registering"
  <2>1. /\ Install!NotSaved(r)
        /\ UNCHANGED <<session, rows, webhooks, uninstall, exchanged, revoked, links, installs>>
    BY <1>3 DEF Install!RequestDies
  <2>2. session' \in Install!Sessions /\ Sound(session', installs, exchanged')
    BY <2>1 DEF InstallTyped, SessionsSound
  <2> QED
    BY <2>1, <2>2, NotSavedSound DEF InstallTyped
<1> QED
  BY <1>1, <1>2, <1>3

\* Shopify ends what it keeps, and owes the deliveries of it.
LEMMA UninstallStep ==
  ASSUME Install!ShopifyInstallAssumption, InstallIInv, Install!UninstallApp
  PROVE  InstallIInv'
<1> USE DEF InstallIInv, Install!counts
<1>1. /\ revoked' = exchanged /\ webhooks' = {}
      /\ uninstall' = uninstall \cup {id \in 1..MaxLinks : <<id, "APP_UNINSTALLED">> \in webhooks}
      /\ UNCHANGED <<session, request, rows, exchanged, links, installs>>
  BY DEF Install!UninstallApp
<1>2. InstallTyped' /\ SessionsSound' /\ LinksApart' /\ Install!LinksOwnInstallation'
  BY <1>1 DEF InstallTyped, SessionsSound, LinksApart, AtShopify, Install!LinksOwnInstallation
<1>3. CreatedOrRevoked'
  <2>1. ASSUME NEW r \in Requests, request[r].pc = "registering"
        PROVE  /\ request[r].pending.install \in revoked'
               /\ "APP_UNINSTALLED" \in request[r].created => request[r].id \in uninstall'
    <3>1. request[r].id \in 1..MaxLinks
      BY <2>1 DEF LinksApart, AtShopify, InstallTyped, Install!ShopifyInstallAssumption
    <3>2. request[r].pending.install \in exchanged
      BY <2>1 DEF SessionsSound
    <3> QED
      BY <1>1, <2>1, <3>1, <3>2 DEF CreatedOrRevoked
  <2> QED
    BY <1>1, <2>1 DEF CreatedOrRevoked
<1>4. Install!ConnectedIsSubscribed'
  BY <1>1 DEF Install!ConnectedIsSubscribed, Install!Topics
<1> QED
  BY <1>2, <1>3, <1>4

\* A row that no transaction holds is disconnected, or left as it was.
LEMMA DisconnectStep ==
  ASSUME Install!ShopifyInstallAssumption, InstallIInv, NEW id \in 1..MaxLinks,
         Install!ReceiveUninstall(id) \/ Install!Disconnect(id)
  PROVE  InstallIInv'
<1> USE DEF InstallIInv, Install!shop, Install!counts
<1>1. /\ rows[id].status # "provisional"
      /\ \/ rows' = rows
         \/ rows[id].status = "CONNECTED" /\ rows' = [rows EXCEPT ![id].status = "DISCONNECTED"]
      /\ uninstall' \in {uninstall, uninstall \ {id}}
      /\ UNCHANGED <<session, request, webhooks, exchanged, revoked, links, installs>>
  BY DEF Install!ReceiveUninstall, Install!Disconnect
<1>2. rows'[id].status # "CONNECTED" \/ uninstall' = uninstall
  BY DEF Install!ReceiveUninstall, Install!Disconnect, InstallTyped, IntegrationRows
<1>3. /\ rows' \in [1..MaxLinks -> IntegrationRows]
      /\ \A k \in 1..MaxLinks :
           /\ rows'[k].user = rows[k].user /\ rows'[k].pending = rows[k].pending
           /\ \/ rows'[k].status = rows[k].status
              \/ k = id /\ rows[k].status = "CONNECTED" /\ rows'[k].status = "DISCONNECTED"
  <2> DEFINE row == [rows[id] EXCEPT !.status = "DISCONNECTED"]
  <2>1. /\ row \in IntegrationRows /\ row.status = "DISCONNECTED"
        /\ row.user = rows[id].user /\ row.pending = rows[id].pending
    BY DEF InstallTyped, IntegrationRows
  <2>2. rows' = rows \/ (rows[id].status = "CONNECTED" /\ rows' = [rows EXCEPT ![id] = row])
    BY <1>1
  <2> HIDE DEF row
  <2> QED
    BY <2>1, <2>2 DEF InstallTyped
<1>4. InstallTyped' /\ SessionsSound'
  BY <1>1, <1>3 DEF InstallTyped, SessionsSound
<1>5. \A r \in Requests : AtShopify(r) => request[r].id \in 1..MaxLinks
  BY DEF LinksApart, InstallTyped, Install!ShopifyInstallAssumption
<1>6. LinksApart'
  BY <1>1, <1>3, <1>5 DEF LinksApart, AtShopify
<1>7. CreatedOrRevoked'
  <2>1. \A r \in Requests : request[r].pc = "registering" => request[r].id # id
    BY <1>1 DEF LinksApart, AtShopify
  <2> QED
    BY <1>1, <2>1 DEF CreatedOrRevoked
<1>8. Install!ConnectedIsSubscribed'
  BY <1>1, <1>2, <1>3 DEF Install!ConnectedIsSubscribed
<1>9. Install!LinksOwnInstallation'
  BY <1>3 DEF Install!LinksOwnInstallation
<1> QED
  BY <1>4, <1>6, <1>7, <1>8, <1>9

\* Every step keeps it.
LEMMA InstallStep ==
  ASSUME Install!ShopifyInstallAssumption, InstallIInv, [Install!Next]_(Install!vars)
  PROVE  InstallIInv'
<1>1. CASE UNCHANGED Install!vars
  <2>1. UNCHANGED <<session, request, rows, webhooks, uninstall, exchanged, revoked, links, installs>>
    BY <1>1 DEF Install!vars
  <2>2. InstallTyped' /\ SessionsSound'
    BY <2>1 DEF InstallIInv, InstallTyped, SessionsSound
  <2> QED
    BY <2>1, <2>2, LinksLeftAlone DEF InstallIInv, AtShopify
<1>2. CASE \/ Install!BeginInstall \/ Install!CompleteTwoStepLogin \/ Install!Logout
           \/ \E u \in Users : Install!Login(u) \/ Install!BeginTwoStepLogin(u)
  BY <1>2, BrowserStep
<1>3. CASE Install!UninstallApp
  BY <1>3, UninstallStep
<1>4. ASSUME NEW r \in Requests, Install!Callback(r) \/ Install!Link(r)
      PROVE  InstallIInv'
  BY <1>4, CallbackStep, IdentifyStep, RegisterStep, CommitStep, FailureStep DEF Install!Link
<1>5. ASSUME NEW id \in 1..MaxLinks, Install!ReceiveUninstall(id) \/ Install!Disconnect(id)
      PROVE  InstallIInv'
  BY <1>5, DisconnectStep
<1> QED
  BY <1>1, <1>2, <1>3, <1>4, <1>5 DEF Install!Next

\* InstallIInv implies ShopifyInv.
LEMMA InstallSuffices ==
  ASSUME Install!ShopifyInstallAssumption, InstallIInv
  PROVE  Install!ShopifyInv
<1> SUFFICES ASSUME InstallIInv PROVE Install!TypeOK
  BY DEF InstallIInv, Install!ShopifyInv
<1> QED
  BY DEF InstallIInv, InstallTyped, InstallRequests, IntegrationRows, Install!TypeOK

\* A connected Integration has both its subscriptions at Shopify, or is still owed
\* the delivery of the uninstall that ended them, however many links run at once,
\* roll back or die; and what no two-step login has carried is linked to the
\* merchant of its own member (link_shopify_installation, register_webhooks,
\* flush_session_keeping_pending).
THEOREM InstallCorrect ==
  ASSUME Install!ShopifyInstallAssumption
  PROVE  Install!Spec => []Install!ShopifyInv
<1>1. Install!Init => InstallIInv
  BY InstallStarts
<1>2. InstallIInv /\ [Install!Next]_(Install!vars) => InstallIInv'
  BY InstallStep
<1>3. InstallIInv => Install!ShopifyInv
  BY InstallSuffices
<1> QED
  BY <1>1, <1>2, <1>3, PTL DEF Install!Spec

\* In Components, whose behaviours run one component each, every state keeps
\* ShopifyInv, the invariant that the run checks: the same promise of
\* link_shopify_installation, register_webhooks, flush_session_keeping_pending.
THEOREM InstallHolds == Spec => []ShopifyInv
<1> DEFINE Held == focus = "install" => InstallIInv
<1>1. Install!ShopifyInstallAssumption
  BY ComponentsAssumption DEF ComponentsAssumption
<1>2. Init => Held
  BY <1>1, InstallStarts DEF Init
<1>3. Held /\ [Next]_allVars => Held'
  <2> SUFFICES ASSUME Held, [Next]_allVars, focus' = "install" PROVE InstallIInv'
    OBVIOUS
  <2>1. focus = "install" /\ [Install!Next]_(Install!vars)
    BY DEF Next, allVars, Install!vars
  <2> QED
    BY <1>1, <2>1, InstallStep
<1>4. Held => ShopifyInv
  BY <1>1, InstallSuffices DEF ShopifyInv
<1> QED
  BY <1>2, <1>3, <1>4, PTL DEF Spec

=============================================================================
