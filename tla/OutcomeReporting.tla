-------------------------- MODULE OutcomeReporting --------------------------
(***************************************************************************)
(* What the prison service (NOMIS) and the Create and vary a licence       *)
(* service (CVL) are told of a case.  A form is saved first; then the      *)
(* calls that report it are made one after the other, each of which can    *)
(* fail; then the user is sent on.  A request that fails shows an error    *)
(* and is not taken up again by itself: the user may send the form again.  *)
(*                                                                         *)
(* One request at a time.  The configuration has pushToNomis on.  Which    *)
(* forms a stage offers is a superset of what the task lists do (module    *)
(* TaskLists has their conditions).                                        *)
(***************************************************************************)
EXTENDS Naturals, Sequences

CONSTANTS Scopes,      \* the sets of forms a behaviour may be about
          MaxFailures  \* bound on the calls that fail

Questions == {"excluded", "suitability", "exceptional", "optOut", "postpone", "refusal", "release"}
Forms == {"excluded", "suitability", "exceptional", "choice", "postpone", "refuse", "release",
          "refuseReason"}

ASSUME ScopesAssumption == Scopes \subseteq SUBSET Forms
ASSUME FailuresAssumption == MaxFailures \in Nat

\* "some" is any reason for which NOMIS has a status; "several" a list of them.
Reasons == {"none", "some", "other", "addressUnsuitable", "insufficientTime",
            "noAvailableAddress", "outOfTime", "several"}
Answer == [decision : {"None", "Yes", "No"}, reason : Reasons]
Unanswered == [decision |-> "None", reason |-> "none"]
Yes(reason) == [decision |-> "Yes", reason |-> reason]
No(reason) == [decision |-> "No", reason |-> reason]

Statuses == {"none", "INELIGIBLE", "PRES UNSUIT", "OPT_OUT", "PP", "REJECTED", "APPROVED"}
Events == {"none", "OPT_OUT", "OPT_IN", "POSTPONE", "RESUME"} \cup Reasons

\* A call: who or what it is to, and what it says.  The checks and the status
\* are NOMIS's, a question is an event for CVL.
Call == [to : {"checks"}, say : {"Y", "N"}]
   \cup [to : {"status"}, say : Statuses \ {"none"}]
   \cup [to : {"optOut"}, say : {"OPT_OUT", "OPT_IN"}]
   \cup [to : {"postpone"}, say : {"POSTPONE", "RESUME"}]
   \cup [to : {"refusal", "release"}, say : Reasons \ {"none"}]
   \cup [to : {"audit", "reset"}, say : {"none"}]
Tell(to, say) == <<[to |-> to, say |-> say]>>
If(condition, calls) == IF condition THEN calls ELSE <<>>

Stages == {"ELIGIBILITY", "PROCESSING_RO", "PROCESSING_CA", "APPROVAL", "DECIDED", "MODIFIED"}

VARIABLES stage,    \* licences.stage
          doc,      \* the answer to each question in licences.licence
          live,     \* there is a licence record
          nomis,    \* what NOMIS holds: checks passed, approval status
          cvl,      \* the last event CVL had about a question of this licence;
                    \* of a refusal, its reason
          page,     \* the page the last request led to
          request,  \* the form being processed and the calls still to be made
          forms,    \* the forms this behaviour is about
          settled,  \* history: the forms whose last submission went through
          failures  \* calls failed so far

vars == <<stage, doc, live, nomis, cvl, page, request, forms, settled, failures>>

NoRequest == [form |-> "none", todo |-> <<>>]

-----------------------------------------------------------------------------
(* Forms and their answers. *)

QuestionOf(form) ==
  CASE form = "choice" -> "optOut"
    [] form = "refuse" -> "refusal"
    [] form = "refuseReason" -> "release"
    [] OTHER -> form

\* The answers a form can save.  A reason that does not belong to the decision
\* is dropped (dependentOn, sanitiseUserInput).  An incomplete answer is saved
\* before it is validated, except that of refuse, which changes nothing.
Inputs(form) ==
  CASE form \in {"excluded", "suitability"} ->
         {Unanswered, Yes("none"), Yes("some"), No("none")}
    [] form = "exceptional" -> {Unanswered, Yes("none"), No("none")}
    [] form = "choice" -> {Yes("none"), No("none")}
    [] form = "postpone" -> {Unanswered, Yes("none"), Yes("some"), Yes("other"), No("none")}
    [] form = "refuse" -> {Yes("addressUnsuitable"), Yes("insufficientTime"), No("none")}
    [] form = "release" ->
         {Unanswered, Yes("none")} \cup
         {No(r) : r \in {"none", "addressUnsuitable", "noAvailableAddress", "several"}}
    [] form = "refuseReason" ->
         {No(r) : r \in {"none", "insufficientTime", "noAvailableAddress", "outOfTime"}}

NeedsReason(form, decision) ==
  \/ form \in {"excluded", "suitability", "postpone"} /\ decision = "Yes"
  \/ form \in {"release", "refuseReason"} /\ decision = "No"

Valid(form, a) ==
  a.decision # "None" /\ (NeedsReason(form, a.decision) => a.reason # "none")

OfferedAt(form) ==
  CASE form = "excluded" -> {"ELIGIBILITY", "PROCESSING_CA"}
    [] form = "choice" -> {"ELIGIBILITY", "PROCESSING_CA", "DECIDED", "MODIFIED"}
    [] form \in {"postpone", "refuse"} -> {"PROCESSING_CA", "DECIDED", "MODIFIED"}
    [] form \in {"release", "refuseReason"} -> {"APPROVAL"}
    [] OTHER -> {}  \* reached from another form only

Offered(form) == form \in forms /\ (stage \in OfferedAt(form) \/ page = form)

\* The page a valid answer leads to.
NextPage(form, a) ==
  CASE form = "excluded" /\ a.decision = "No" -> "suitability"
    [] form = "suitability" /\ a.decision = "Yes" -> "exceptional"
    [] form = "suitability" /\ a.decision = "No" -> "crdTime"
    [] form = "exceptional" /\ a.decision = "Yes" -> "crdTime"
    [] form \in {"release", "refuseReason"} -> "send/decided"
    [] OTHER -> "taskList"

-----------------------------------------------------------------------------
(* What a form reports (nomisPushService.js, approvalStatuses.js and the     *)
(* routes).                                                                  *)

\* statusReasonValues with a reason, statusValues without.
ApprovalStatus(form, decision, reason) ==
  CASE form \in {"release", "choice"} /\ decision = "Yes" /\ reason = "none" ->
         IF form = "release" THEN "APPROVED" ELSE "OPT_OUT"
    [] form = "excluded" /\ decision = "Yes" /\ reason # "none" -> "INELIGIBLE"
    [] form = "exceptional" /\ decision = "No" /\ reason # "none" -> "PRES UNSUIT"
    [] form = "postpone" /\ decision = "Yes" /\ reason # "none" -> "PP"
    [] form = "refuse" /\ decision = "Yes" -> "REJECTED"
    [] form = "release" /\ decision = "No" /\ reason # "none" -> "REJECTED"
    [] form = "refuseReason" /\ reason \in {"addressUnsuitable", "insufficientTime"} -> "REJECTED"
    [] OTHER -> "none"

\* Mutant: the answers without a status are told too.
PushStatus_Always(form, decision, reason) == Tell("status", ApprovalStatus(form, decision, reason))

\* pushStatus: nothing is told when there is no status for the answer.
PushStatus(form, decision, reason) ==
  LET status == ApprovalStatus(form, decision, reason)
  IN If(status # "none", Tell("status", status))

\* Mutant: the checks are passed as soon as the offender is not excluded.
PushChecks_Early(form, d) ==
  CASE form = "excluded" ->
         IF d["excluded"].decision = "Yes" THEN Tell("checks", "N") ELSE Tell("checks", "Y")
    [] form = "exceptional" -> If(d["exceptional"].decision = "No", Tell("checks", "N"))
    [] OTHER -> <<>>

\* pushChecksPassed; for suitability by the callback of the route.
PushChecks(form, d) ==
  CASE form = "excluded" -> If(d["excluded"].decision = "Yes", Tell("checks", "N"))
    [] form = "suitability" ->
         If(d["excluded"].decision = "No" /\ d["suitability"].decision = "No", Tell("checks", "Y"))
    [] form = "exceptional" -> Tell("checks", IF d["exceptional"].decision = "Yes" THEN "Y" ELSE "N")
    [] OTHER -> <<>>

\* An opt-out is always told, an opt-in when there was none before.
OptEvent(before, a) ==
  CASE a.decision = "Yes" -> Tell("optOut", "OPT_OUT")
    [] OTHER -> If(before.decision # "No", Tell("optOut", "OPT_IN"))

\* postPostponeOrResumeEvent
PostponeEvent(before, a) ==
  CASE a.decision = "Yes" -> If(before.decision # "Yes", Tell("postpone", "POSTPONE"))
    [] OTHER -> If(before.decision = "Yes", Tell("postpone", "RESUME"))

\* Mutant: only a change of the decision is news, not one of the reason.
RefuseEvent_DecisionOnly(q, refused, before, a) ==
  If(a.decision = refused /\ before.decision # a.decision, Tell(q, a.reason))

\* hasChanged: lists of reasons are compared by reference, so they always have.
RefuseEvent(q, refused, before, a) ==
  If(a.decision = refused /\ (before # a \/ a.reason = "several"), Tell(q, a.reason))

\* The calls a form leads to, in order.  d is the document as it was before and
\* e as it was saved.  Of the unsuitable the reason is told with the exceptional
\* circumstances.
CallsOf(form, d, e) ==
  LET q == QuestionOf(form)
      a == e[q]
  IN CASE form = "exceptional" ->
            PushChecks(form, e) \o PushStatus(form, a.decision, e["suitability"].reason)
       [] form \in {"excluded", "suitability"} ->
            PushChecks(form, e) \o PushStatus(form, a.decision, a.reason)
       [] form = "choice" -> PushStatus(form, a.decision, a.reason) \o OptEvent(d[q], a)
       [] form = "postpone" -> PushStatus(form, a.decision, a.reason) \o PostponeEvent(d[q], a)
       [] form = "refuse" -> PushStatus(form, a.decision, a.reason) \o RefuseEvent(q, "Yes", d[q], a)
       [] OTHER -> PushStatus(form, a.decision, a.reason) \o RefuseEvent(q, "No", d[q], a)

-----------------------------------------------------------------------------
(* A form is sent. *)

Idle == request = NoRequest

\* The document is written; a form saved by update marks a decided licence as
\* modified, unless nothing changed.
Save(form, a) ==
  LET q == QuestionOf(form)
  IN /\ doc' = [doc EXCEPT ![q] = a]
     /\ stage' = IF form # "choice" /\ stage = "DECIDED" /\ a # doc[q] THEN "MODIFIED" ELSE stage

Submit(form, a) ==
  /\ Idle /\ live /\ Offered(form) /\ a \in Inputs(form)
  /\ Save(form, a)
  /\ IF Valid(form, a)
     THEN /\ request' = [form |-> form, todo |-> CallsOf(form, doc, doc')]
          /\ page' = "none"
     ELSE request' = NoRequest /\ page' = form
  /\ settled' = settled \ {form}
  /\ UNCHANGED <<live, nomis, cvl, forms, failures>>

\* The answer is saved and the request dies, with the other section of a choice
\* or the version number unwritten.
SubmitFails(form, a) ==
  /\ Idle /\ live /\ Offered(form) /\ a \in Inputs(form)
  /\ failures < MaxFailures
  /\ Save(form, a)
  /\ page' = form
  /\ settled' = settled \ {form}
  /\ failures' = failures + 1
  /\ UNCHANGED <<live, nomis, cvl, request, forms>>

\* What a call does at the other end.  The reset clears the checks; what becomes
\* of the status is up to NOMIS.
Apply(call) ==
  /\ \/ call.to = "checks" /\ nomis' = [nomis EXCEPT !.checks = call.say]
     \/ call.to = "status" /\ nomis' = [nomis EXCEPT !.status = call.say]
     \/ call.to = "reset" /\ \E s \in {"none", nomis.status} : nomis' = [checks |-> "null", status |-> s]
     \/ call.to \notin {"checks", "status", "reset"} /\ nomis' = nomis
  /\ cvl' = IF call.to \in Questions THEN [cvl EXCEPT ![call.to] = call.say] ELSE cvl

CallSucceeds ==
  /\ request.todo # <<>>
  /\ Apply(Head(request.todo))
  /\ request' = [request EXCEPT !.todo = Tail(@)]
  /\ UNCHANGED <<stage, doc, live, page, forms, settled, failures>>

\* Refused (a conflict in NOMIS, no token), or done and the answer lost.  The
\* form can be sent again.
CallFails ==
  /\ request.todo # <<>>
  /\ failures < MaxFailures
  /\ Apply(Head(request.todo)) \/ UNCHANGED <<nomis, cvl>>
  /\ request' = NoRequest
  /\ page' = IF request.form = "reset" THEN "taskList" ELSE request.form
  /\ failures' = failures + 1
  /\ UNCHANGED <<stage, doc, live, forms, settled>>

\* Mutant: the page follows the save, the calls only if there is time.
Finish_Unawaited ==
  /\ ~Idle
  /\ settled' = settled \cup {request.form}
  /\ page' = IF request.form = "reset" THEN "taskList"
             ELSE NextPage(request.form, doc[QuestionOf(request.form)])
  /\ request' = NoRequest
  /\ UNCHANGED <<stage, doc, live, nomis, cvl, forms, failures>>

Finish ==
  /\ ~Idle /\ request.todo = <<>>
  /\ settled' = settled \cup {request.form}
  /\ page' = IF request.form = "reset" THEN "taskList"
             ELSE NextPage(request.form, doc[QuestionOf(request.form)])
  /\ request' = NoRequest
  /\ UNCHANGED <<stage, doc, live, nomis, cvl, forms, failures>>

-----------------------------------------------------------------------------
(* The case is sent on, reset, started again. *)

Transitions ==
  { [from |-> "ELIGIBILITY", to |-> "PROCESSING_RO"], [from |-> "ELIGIBILITY", to |-> "APPROVAL"],
    [from |-> "PROCESSING_RO", to |-> "PROCESSING_CA"], [from |-> "PROCESSING_RO", to |-> "ELIGIBILITY"],
    [from |-> "PROCESSING_CA", to |-> "PROCESSING_RO"], [from |-> "PROCESSING_CA", to |-> "APPROVAL"],
    [from |-> "APPROVAL", to |-> "PROCESSING_CA"], [from |-> "APPROVAL", to |-> "DECIDED"],
    [from |-> "DECIDED", to |-> "APPROVAL"], [from |-> "MODIFIED", to |-> "APPROVAL"] }

\* A decision is sent from the page that follows it; a return takes it back, and
\* nobody outside is told.
Handover(t) ==
  /\ Idle /\ live /\ stage = t.from
  /\ t.to = "DECIDED" => page = "send/decided"
  /\ stage' = t.to
  /\ doc' = IF t.from = "APPROVAL" /\ t.to = "PROCESSING_CA"
            THEN [doc EXCEPT !["release"] = Unanswered] ELSE doc
  /\ page' = "taskList"
  /\ UNCHANGED <<live, nomis, cvl, request, forms, settled, failures>>

\* Mutant: without a record there is nothing to reset.
Reset_OnlyLive ==
  /\ Idle
  /\ live' = FALSE
  /\ doc' = [q \in Questions |-> Unanswered]
  /\ stage' = "ELIGIBILITY"
  /\ settled' = {}
  /\ page' = "none"
  /\ request' = [form |-> "reset",
                 todo |-> If(live, Tell("audit", "none") \o Tell("reset", "none"))]
  /\ UNCHANGED <<nomis, cvl, forms, failures>>

\* The record goes first.  Another reset finds none and does the rest.
Reset ==
  /\ Idle
  /\ live' = FALSE
  /\ doc' = [q \in Questions |-> Unanswered]
  /\ stage' = "ELIGIBILITY"
  /\ settled' = {}
  /\ page' = "none"
  /\ request' = [form |-> "reset", todo |-> Tell("audit", "none") \o Tell("reset", "none")]
  /\ UNCHANGED <<nomis, cvl, forms, failures>>

\* eligibilityStart; the new record has its own id, by which CVL knows it.
Start ==
  /\ Idle /\ ~live
  /\ live' = TRUE
  /\ cvl' = [q \in Questions |-> "none"]
  /\ page' = "excluded"
  /\ settled' = {}
  /\ UNCHANGED <<stage, doc, nomis, request, forms, failures>>

-----------------------------------------------------------------------------

Init ==
  /\ stage = "ELIGIBILITY"
  /\ doc = [q \in Questions |-> Unanswered]
  /\ live = FALSE
  /\ nomis = [checks |-> "null", status |-> "none"]
  /\ cvl = [q \in Questions |-> "none"]
  /\ page = "taskList"
  /\ request = NoRequest
  /\ forms \in Scopes
  /\ settled = {}
  /\ failures = 0

Next ==
  \/ \E form \in forms : \E a \in Inputs(form) : Submit(form, a) \/ SubmitFails(form, a)
  \/ CallSucceeds
  \/ CallFails
  \/ Finish
  \/ \E t \in Transitions : Handover(t)
  \/ Reset
  \/ Start

Spec == Init /\ [][Next]_vars

-----------------------------------------------------------------------------
(* Properties. *)

\* Every variable keeps its type.
TypeOK ==
  /\ stage \in Stages
  /\ doc \in [Questions -> Answer]
  /\ live \in BOOLEAN
  /\ nomis \in [checks : {"null", "Y", "N"}, status : Statuses]
  /\ cvl \in [Questions -> Events]
  /\ page \in Forms \cup {"none", "taskList", "crdTime", "send/decided"}
  /\ request \in [form : Forms \cup {"none", "reset"}, todo : Seq(Call)]
  /\ forms \in Scopes
  /\ settled \in SUBSET (Forms \cup {"reset"})
  /\ failures \in 0..MaxFailures

\* A decision is not sent on before NOMIS has been told of it, whatever failed
\* on the way and however often the decision was changed, taken back or made
\* again: an approval always, a refusal when NOMIS has a status for its reason
\* on the form it was given on.
DecisionTold ==
  [][stage = "APPROVAL" /\ stage' = "DECIDED" =>
       /\ doc["release"].decision = "Yes" => nomis.status = "APPROVED"
       /\ doc["release"].decision = "No" /\ doc["release"].reason \in {"addressUnsuitable", "insufficientTime"}
            => nomis.status = "REJECTED"]_vars

\* The questions on the way to a release date are asked of an offender whose
\* checks NOMIS has as passed, and one who was excluded has them failed there,
\* whatever failed in between.
ChecksTold ==
  /\ page = "crdTime" => nomis.checks = "Y"
  /\ "excluded" \in settled /\ doc["excluded"].decision = "Yes" => nomis.checks = "N"

\* An opt-out whose form went through is one CVL knows of, even when an attempt
\* failed before; an opt-in, if nothing failed.
OptTold ==
  "choice" \in settled =>
    /\ doc["optOut"].decision = "Yes" => cvl["optOut"] = "OPT_OUT"
    /\ doc["optOut"].decision = "No" /\ failures = 0 => cvl["optOut"] = "OPT_IN"

\* If nothing failed, CVL has the reason of every refusal as it is in the
\* document, although it is only sent when it is news.
RefusalTold ==
  failures = 0 =>
    /\ "refuse" \in settled /\ doc["refusal"].decision = "Yes" => cvl["refusal"] = doc["refusal"].reason
    /\ settled \cap {"release", "refuseReason"} # {} /\ page = "send/decided"
         /\ doc["release"].decision = "No" => cvl["release"] = doc["release"].reason

\* What CVL was told last, of opting out and of refusals, is what the document
\* says, though an event is posted only for what is news to the request.
EventsTold == OptTold /\ RefusalTold

\* A reset that was reported as done has cleared the checks in NOMIS, whatever
\* failed in it before and however often it was sent.
ResetTold == "reset" \in settled => nomis.checks = "null"

\* A postponement is posted to CVL when it is given a reason
\* (finalChecks.test.ts: "posts a postpone event with the postponeReason as the
\* event reason").
PostponementTold ==
  failures = 0 /\ "postpone" \in settled /\ doc["postpone"].decision = "Yes"
    => cvl["postpone"] = "POSTPONE"
=============================================================================
