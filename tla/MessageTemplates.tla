--------------------------- MODULE MessageTemplates ---------------------------
(***************************************************************************)
(* A message template from its creation to Meta's verdict: the submission   *)
(* task, which may run twice, die, or lose Meta's answer, and the poll of   *)
(* what was submitted (whatsapp.services).  Meta is never called under a    *)
(* row lock.  Meta refuses a second template of the same derived name, and  *)
(* what it would refuse for its content it always refuses.                  *)
(***************************************************************************)
EXTENDS Naturals

CONSTANTS
  Templates,
  Submitters,  \* executions of submit_template
  Pollers,     \* executions of sync_merchant_templates
  NoTemplate

MessageTemplatesAssumption == NoTemplate \notin Templates

VARIABLES
  template,    \* the rows of MessageTemplate; submitted is a provider_template_id
  queued,      \* submissions the broker holds
  acceptable,  \* templates whose content Meta would accept
  meta,        \* Meta's side: absent, or under its review's verdict
  submitter,
  poller

vars == <<template, queued, acceptable, meta, submitter, poller>>

TemplateRows == [status : {"absent", "PENDING", "APPROVED", "REJECTED"}, submitted : BOOLEAN]

IdleTask == [pc |-> "idle", template |-> NoTemplate, answer |-> "none"]

Init ==
  /\ template = [t \in Templates |-> [status |-> "absent", submitted |-> FALSE]]
  /\ queued = {}
  /\ acceptable \in SUBSET Templates
  /\ meta = [t \in Templates |-> "absent"]
  /\ submitter = [s \in Submitters |-> IdleTask]
  /\ poller = [p \in Pollers |-> IdleTask]

-----------------------------------------------------------------------------

\* create_template; the enqueue after its commit may fail, which is logged.
CreateTemplate(t) ==
  /\ template[t].status = "absent"
  /\ template' = [template EXCEPT ![t].status = "PENDING"]
  /\ queued' \in {queued, queued \cup {t}}
  /\ UNCHANGED <<acceptable, meta, submitter, poller>>

Unsubmitted(t) == template[t].status = "PENDING" /\ ~template[t].submitted

\* submit_template_to_provider reads the template.  The task stays queued while
\* a retry or a second delivery may come.
StartSubmission(s, t) ==
  /\ submitter[s].pc = "idle"
  /\ t \in queued
  /\ queued' \in {queued, queued \ {t}}
  /\ Unsubmitted(t)
  /\ submitter' = [submitter EXCEPT ![s] = [pc |-> "submitting", template |-> t, answer |-> "none"]]
  /\ UNCHANGED <<template, acceptable, meta, poller>>

AnswerTo(s, stage, answer) ==
  submitter' = [submitter EXCEPT ![s] = [@ EXCEPT !.pc = stage, !.answer = answer]]

\* Meta creates the template, and its answer arrives or is lost (SubmissionFails);
\* a permanent refusal is looked up.
Submit(s) ==
  LET t == submitter[s].template IN
  /\ submitter[s].pc = "submitting"
  /\ IF meta[t] = "absent" /\ t \in acceptable
     THEN meta' = [meta EXCEPT ![t] = "PENDING"] /\ AnswerTo(s, "applying", "found")
     ELSE AnswerTo(s, "looking", "none") /\ UNCHANGED meta
  /\ UNCHANGED <<template, queued, acceptable, poller>>

\* Mutant: a refusal is taken for Meta's verdict.
RefusedIsRejected(t) == "missing"

\* find_template_id: a scan that completed.
Found(t) == IF meta[t] = "absent" THEN "missing" ELSE "found"

FindTemplate(s) ==
  /\ submitter[s].pc = "looking"
  /\ AnswerTo(s, "applying", Found(submitter[s].template))
  /\ UNCHANGED <<template, queued, acceptable, meta, poller>>

\* Under the lock, only if the row is still unsubmitted.
ApplySubmission(s) ==
  LET t == submitter[s].template IN
  /\ submitter[s].pc = "applying"
  /\ template' = IF ~Unsubmitted(t) THEN template
                 ELSE [template EXCEPT ![t] =
                         IF submitter[s].answer = "found"
                         THEN [status |-> "PENDING", submitted |-> TRUE]
                         ELSE [status |-> "REJECTED", submitted |-> FALSE]]
  /\ submitter' = [submitter EXCEPT ![s] = IdleTask]
  /\ UNCHANGED <<queued, acceptable, meta, poller>>

\* A transient error, an inconclusive lookup, or the worker's death.
SubmissionFails(s) ==
  /\ submitter[s].pc # "idle"
  /\ submitter' = [submitter EXCEPT ![s] = IdleTask]
  /\ UNCHANGED <<template, queued, acceptable, meta, poller>>

-----------------------------------------------------------------------------

MetaReviews(t) ==
  /\ meta[t] = "PENDING"
  /\ \E verdict \in {"APPROVED", "REJECTED"} : meta' = [meta EXCEPT ![t] = verdict]
  /\ UNCHANGED <<template, queued, acceptable, submitter, poller>>

\* sync_template_statuses: the submitted PENDING templates, one by one.
PollTemplate(p, t) ==
  /\ poller[p].pc = "idle"
  /\ template[t].status = "PENDING" /\ template[t].submitted
  /\ meta[t] # "PENDING"
  /\ poller' = [poller EXCEPT ![p] = [pc |-> "applying", template |-> t, answer |-> meta[t]]]
  /\ UNCHANGED <<template, queued, acceptable, meta, submitter>>

\* The conditional UPDATE, or the worker's death before it.
ApplyStatus(p) ==
  LET t == poller[p].template IN
  /\ poller[p].pc = "applying"
  /\ \/ /\ template[t].status = "PENDING" /\ template[t].submitted
        /\ template' = [template EXCEPT ![t].status = poller[p].answer]
     \/ UNCHANGED template
  /\ poller' = [poller EXCEPT ![p] = IdleTask]
  /\ UNCHANGED <<queued, acceptable, meta, submitter>>

Submission(s) == \/ \E t \in Templates : StartSubmission(s, t)
                 \/ Submit(s) \/ FindTemplate(s) \/ ApplySubmission(s) \/ SubmissionFails(s)

Next == \/ \E t \in Templates : CreateTemplate(t) \/ MetaReviews(t)
        \/ \E s \in Submitters : Submission(s)
        \/ \E p \in Pollers : ApplyStatus(p)
        \/ \E p \in Pollers, t \in Templates : PollTemplate(p, t)

Spec == Init /\ [][Next]_vars

-----------------------------------------------------------------------------
(* Properties *)

TypeOK ==
  /\ template \in [Templates -> TemplateRows]
  /\ queued \subseteq Templates
  /\ meta \in [Templates -> {"absent", "PENDING", "APPROVED", "REJECTED"}]

\* What the merchant sees of a template is what Meta made of it: REJECTED never
\* hides a template that Meta holds and may approve, and an id stands for one
\* it holds (submit_template_to_provider).
AgreesWithMeta ==
  \A t \in Templates :
    /\ template[t].submitted => meta[t] # "absent"
    /\ template[t].status = "APPROVED" => meta[t] = "APPROVED"
    /\ template[t].status = "REJECTED" =>
         IF template[t].submitted THEN meta[t] = "REJECTED" ELSE meta[t] = "absent"

TemplatesInv == TypeOK /\ AgreesWithMeta
=============================================================================
