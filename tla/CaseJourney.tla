----------------------------- MODULE CaseJourney -----------------------------
(***************************************************************************)
(* A case on its way through the program: the case administrator, the      *)
(* responsible officer and the decision maker answer the forms their task  *)
(* lists offer and send the case to each other, until a licence can be     *)
(* printed.  One action per form or button, each with the whole effect of  *)
(* its handler on the document and on the stage.                           *)
(*                                                                         *)
(* One request at a time, each from a page that shows the current case:    *)
(* LicenceWorkflow has the requests that overlap and the stale pages.      *)
(***************************************************************************)
EXTENDS CaseReview, CaseLists, SequencesExt

CONSTANTS Scopes,        \* what is asked of a case and answered: see Scope
          MaxRejections  \* bound on the addresses and referrals given up

Destinations ==
  {"send/addressReview", "send/bassReview", "send/finalChecks", "send/approval", "send/resubmit",
   "send/decided", "send/return", "send/refusal", "send/addressRejected",
   "send/bassAreaRejected", "send/optedOut"}

\* Every page with a form that this module has an action for.
Forms ==
  {"excluded", "suitability", "exceptional", "crdTime", "choice", "curfewAddress", "rejected",
   "address", "newAddress", "apChoice", "bassApChoice", "bassRequest", "bassRejected",
   "bassUnsuitable", "bassOffer", "bassWithdrawn", "approvedPremises", "apAddress",
   "bassApAddress", "curfewAddressReview", "risk", "bassAreaCheck", "victim", "hours",
   "conditions", "reporting", "finalChecks", "postpone", "refuse", "consideration", "release",
   "refuseReason", "reviewCurfewAddress", "reviewBassRequest"}

\* The pages a request leads to.
Landings ==
  {"taskList", "excluded", "suitability", "exceptional", "crdTime", "choice", "curfewAddress",
   "newAddress", "bassRequest", "bassOffer", "bassUnsuitable", "bassWithdrawn", "apAddress",
   "bassApAddress", "curfewAddressReview", "bassAreaCheck", "release", "send/decided"}

\* A behaviour has one scope: the pages it uses, and the answers it gives to
\* the forms whose answers are many.  eligible: it starts with the eligibility
\* questions already answered.  cvl: the licence is to be completed in another
\* service (licence_in_cvl).
ASSUME ScopeAssumption ==
  \A sc \in Scopes :
    /\ sc.forms \subseteq Forms \cup Destinations
    /\ sc.eligible \in BOOLEAN /\ sc.cvl \in BOOLEAN
    /\ sc.choices \subseteq {"OptOut", "Address", "Bass"}
    /\ sc.addresses \subseteq Addresses /\ sc.aps \subseteq Answer
    /\ sc.reviews \subseteq [consent : Answer, electricity : Answer]
    /\ sc.risks \subseteq [form : RiskForm, suitability : Suitability]
    \* version 1 of the form asks about planning, the others about the checks
    /\ \A r \in sc.risks :
         /\ r.form.version # "None"
         /\ IF r.form.version = "1" THEN r.suitability.checks = "None" ELSE ~r.form.planning
    /\ sc.requests \subseteq [area : Answer, town : Fill]
    /\ sc.areaChecks \subseteq [suitable : Answer, reason : BOOLEAN, ap : Answer]
    /\ sc.offers \subseteq [accepted : {"Blank", "Yes", "Unsuitable", "Unavailable"},
                           address : Fill]
    /\ sc.fills \subseteq {"Part", "Full"}

VARIABLES stage,  \* licences.stage
          doc,    \* licences.licence
          page,   \* the page the last request led to
          scope,  \* the scope of this behaviour
          decidedOn, \* history: the address in the document when the decision
                     \* maker last released the offender
          rechosen   \* history: the curfew address choice was made again after a
                     \* review

vars == <<stage, doc, page, scope, decidedOn, rechosen>>

Status == StatusOf(stage, doc, scope.cvl)

-----------------------------------------------------------------------------
(* What the handlers do to the document (licenceService.ts, and the bodies   *)
(* of the routes that write sections themselves).                            *)

Put(d, review, suitable, address) ==
  [d EXCEPT !.address = address, !.review = review, !.suitable = suitable]

\* Mutant: what was found out about the address stays in the document.
Reject_KeepReview(d, reason) ==
  [Put(d, d.review, d.suitable, NoAddress) EXCEPT !.rejections =
     Append(@, [address |-> d.address, review |-> d.review, suitability |-> d.suitable,
                withdrawal |-> reason])]

\* Mutant: what was reviewed is not kept with the address.
Reject_ForgetReview(d, reason) ==
  [Put(d, NoReview, NoSuitability, NoAddress) EXCEPT !.rejections =
     Append(@, [address |-> d.address, review |-> NoReview, suitability |-> d.suitable,
                withdrawal |-> reason])]

\* rejectProposedAddress
Reject(d, reason) ==
  [Put(d, NoReview, NoSuitability, NoAddress) EXCEPT !.rejections =
     Append(@, [address |-> d.address, review |-> d.review, suitability |-> d.suitable,
                withdrawal |-> reason])]

\* An answer that was stored replaces the one in the document.
Over(stored, current, null) == IF stored = null THEN current ELSE stored

\* reinstateProposedAddress
Reinstate(d) ==
  LET r == d.rejections[Len(d.rejections)]
  IN [Put(d, Over(r.review, d.review, NoReview),
          [suitable |-> Over(r.suitability.suitable, d.suitable.suitable, "None"),
           manage |-> Over(r.suitability.manage, d.suitable.manage, "None"),
           checks |-> Over(r.suitability.checks, d.suitable.checks, "None")],
          Over(r.address, d.address, NoAddress))
        EXCEPT !.rejections = Front(@)]

\* deactivateBassEntry; without a referral nothing is written.
DeactivateBass(d, requested, reason) ==
  IF ~d.bass.exists THEN d
  ELSE [d EXCEPT !.bass = [NoBass EXCEPT !.exists = TRUE, !.requested = requested],
                 !.bassRejections = Append(@, [bass |-> d.bass, withdrawal |-> reason])]

\* reinstateBass
ReinstateBass(d) ==
  [d EXCEPT !.bass = d.bassRejections[Len(d.bassRejections)].bass,
            !.bassRejections = Front(@)]

\* updateModificationStage
ModifiedStage(st, approval) ==
  CASE approval /\ st \in {"DECIDED", "MODIFIED"} -> "MODIFIED_APPROVAL"
    [] ~approval /\ st = "DECIDED" -> "MODIFIED"
    [] OTHER -> st

\* licenceService.update: the stage follows a change of the document.
Update(d, next, approval) ==
  /\ doc' = d
  /\ stage' = IF d = doc THEN stage ELSE ModifiedStage(stage, approval)
  /\ page' = next
  /\ UNCHANGED <<scope, decidedOn, rechosen>>

\* updateSection, updateLicence: it does not.
Write(d, next) ==
  /\ doc' = d /\ page' = next
  /\ UNCHANGED <<stage, scope, decidedOn, rechosen>>

-----------------------------------------------------------------------------
(* The pages within reach. *)

AddressGivenUp ==
  /\ doc.address = NoAddress /\ doc.rejections # <<>>
  /\ doc.rejections[Len(doc.rejections)].withdrawal # "none"

\* The case administrator's review pages show no button while this holds.
ErrorsOnPage == Errors(Status, doc) # {}

\* What a page links to, besides what it posts.
LinksOf(p) ==
  CASE p = "address" -> When(AddressGivenUp /\ stage \notin PostApproval, {"curfewAddress"})
    [] p = "newAddress" -> {"address"}
    [] p = "bassOffer" -> When(Status.bassWithdrawn, {"bassRequest"})
    [] p = "bassWithdrawn" -> {"bassOffer"}
    [] p = "reviewCurfewAddress" ->
         When(stage = "ELIGIBILITY" \/ ErrorsOnPage
                \/ (stage = "PROCESSING_CA" /\ Status.review = "UNSTARTED"), {"curfewAddress"})
           \cup When(~ErrorsOnPage, {"send/addressReview"})
    [] p = "reviewBassRequest" ->
         When(stage = "ELIGIBILITY" \/ ErrorsOnPage, {"bassRequest"})
           \cup When(~ErrorsOnPage, {"send/bassReview"})
    [] OTHER -> {}

WithLinks(pages) == pages \cup UNION {LinksOf(p) : p \in pages}

\* The pages within reach of the task list or of the page on the screen.  No
\* chain of links is longer than two.
Reach == WithLinks(WithLinks(TaskListPages(Status) \cup {page}))

Open(p) == p \in scope.forms /\ p \in Reach

-----------------------------------------------------------------------------
(* The case administrator: eligibility and opt-out. *)

Excluded(a) ==
  /\ Open("excluded")
  /\ Update([doc EXCEPT !.excluded = a],
            CASE a = "Yes" -> "taskList" [] a = "No" -> "suitability" [] OTHER -> "excluded", FALSE)

Suitable(a) ==
  /\ Open("suitability")
  /\ Update([doc EXCEPT !.suitability = a],
            CASE a = "Yes" -> "exceptional" [] a = "No" -> "crdTime" [] OTHER -> "suitability", FALSE)

Exceptional(a) ==
  /\ Open("exceptional")
  /\ Update([doc EXCEPT !.exceptional = a],
            CASE a = "Yes" -> "crdTime" [] a = "No" -> "taskList" [] OTHER -> "exceptional", FALSE)

\* "Yes": there is not enough time, and the decision maker has not been asked.
CrdTime(a) ==
  /\ Open("crdTime")
  /\ Update([doc EXCEPT !.crdTime = a], IF a = "Yes" THEN "crdTime" ELSE "taskList", FALSE)

\* A residence has been reviewed: the current one, or one given up.
EverReviewed(d) ==
  d.review # NoReview \/ \E i \in DOMAIN d.rejections : d.rejections[i].review # NoReview

\* Mutant: choosing something else drops the address.
Choose_DropAddress(c) ==
  /\ Open("choice")
  /\ doc' = [doc EXCEPT !.optOut = IF c = "OptOut" THEN "Yes" ELSE "No",
                        !.addressProposed = IF c = "Address" THEN "Yes" ELSE "No",
                        !.address = IF c = "Address" THEN @ ELSE NoAddress,
                        !.bass = [@ EXCEPT !.exists = TRUE,
                                           !.requested = IF c = "Bass" THEN "Yes" ELSE "No"]]
  /\ page' = IF c = "Address" THEN "curfewAddress" ELSE "taskList"
  /\ rechosen' = (rechosen \/ EverReviewed(doc))
  /\ UNCHANGED <<stage, scope, decidedOn>>

\* The choice is written to both sections, whatever either held before.
Choose(c) ==
  /\ Open("choice")
  /\ doc' = [doc EXCEPT !.optOut = IF c = "OptOut" THEN "Yes" ELSE "No",
                        !.addressProposed = IF c = "Address" THEN "Yes" ELSE "No",
                        !.bass = [@ EXCEPT !.exists = TRUE,
                                           !.requested = IF c = "Bass" THEN "Yes" ELSE "No"]]
  /\ page' = CASE c = "Address" -> "curfewAddress" [] c = "Bass" -> "bassRequest"
               [] OTHER -> "taskList"
  /\ rechosen' = (rechosen \/ EverReviewed(doc))
  /\ UNCHANGED <<stage, scope, decidedOn>>

EnterAddress(a) ==
  /\ Open("curfewAddress")
  /\ Update([doc EXCEPT !.address = a],
            IF a \in WellFormedAddress THEN "taskList" ELSE "curfewAddress", FALSE)

\* The address the responsible officer rejected: another one, or another choice.
AnswerRejected(another) ==
  /\ Open("rejected")
  /\ another => Len(doc.rejections) < MaxRejections
  /\ Write(IF another THEN Reject(doc, "none") ELSE doc,
           IF another THEN "curfewAddress" ELSE "choice")

-----------------------------------------------------------------------------
(* The case administrator: withdrawals after the review. *)

Withdraw(reason) ==
  /\ Open("address") /\ ~AddressGivenUp
  /\ reason = "withdrawConsent" => ~OffenderIsOccupier(doc)
  /\ Len(doc.rejections) < MaxRejections
  /\ Write(Reject(doc, reason), "newAddress")

ReinstateAddress ==
  /\ Open("address") /\ AddressGivenUp
  /\ Write(Reinstate(doc), "taskList")

\* consentWithdrawn and addressWithdrawn: nothing of the document depends on
\* the answer, only the page it leads to.
NewAddress(another) ==
  /\ Open("newAddress")
  /\ Write(doc, IF another THEN "curfewAddress" ELSE "choice")

\* curfew/approvedPremisesChoice
ChooseApprovedPremises(c) ==
  /\ Open("apChoice")
  /\ Write([doc EXCEPT !.ap = IF c = "OptOut" THEN "No" ELSE "Yes",
                       !.optOut = IF c = "OptOut" THEN "Yes" ELSE "No"],
           IF c = "OptOut" THEN "taskList" ELSE "apAddress")

\* bassReferral/approvedPremisesChoice writes an answer that nothing reads.
ChooseBassApprovedPremises(c) ==
  /\ Open("bassApChoice")
  /\ Write([doc EXCEPT !.bass.exists = TRUE,
                       !.optOut = IF c = "OptOut" THEN "Yes" ELSE "No"],
           IF c = "OptOut" THEN "taskList" ELSE "bassApAddress")

-----------------------------------------------------------------------------
(* CAS2 referrals. *)

\* The question whether a referral was requested is a hidden field here, and
\* the town is dropped when no area is preferred.
RequestBass(answers) ==
  /\ Open("bassRequest")
  /\ answers.area = "No" => answers.town = "None"
  /\ LET d == [doc EXCEPT !.bass = [@ EXCEPT !.exists = TRUE, !.specificArea = answers.area,
                                             !.town = answers.town]]
     IN Update(d, IF BassRequestValid(d) THEN "taskList" ELSE "bassRequest", FALSE)

\* A rejected area, or an offender CAS2 will not take.  The answer may be
\* missing: it is not validated.
AnswerBassRejected(p, a) ==
  /\ Open(p)
  /\ Len(doc.bassRejections) < MaxRejections
  /\ Write(DeactivateBass(doc, a, "none"),
           CASE a = "Yes" -> "bassRequest" [] a = "No" -> "choice" [] OTHER -> "taskList")

\* The address is asked for after the approval only; before, the form has none.
OfferBass(offer) ==
  /\ Open("bassOffer") /\ ~Status.bassWithdrawn
  /\ LET addressAsked == stage \in PostApproval /\ offer.accepted = "Yes"
     IN /\ addressAsked \/ offer.address = "None"
        /\ Update([doc EXCEPT !.bass = [@ EXCEPT !.exists = TRUE, !.accepted = offer.accepted,
                                                 !.offerAddress = offer.address]],
                  CASE offer.accepted = "Blank" \/ (addressAsked /\ offer.address # "Full") -> "bassOffer"
                    [] offer.accepted = "Unsuitable" -> "bassUnsuitable"
                    [] OTHER -> "taskList", FALSE)

WithdrawBass(what) ==
  /\ Open("bassOffer") /\ ~Status.bassWithdrawn /\ doc.bass.exists
  /\ Len(doc.bassRejections) < MaxRejections
  /\ Write(DeactivateBass(doc, "Yes", what), "bassWithdrawn")

ReinstateReferral ==
  /\ Open("bassOffer") /\ Status.bassWithdrawn
  /\ Write(ReinstateBass(doc), "taskList")

NewBass(another) ==
  /\ Open("bassWithdrawn")
  /\ Write(doc, IF another THEN "bassRequest" ELSE "choice")

-----------------------------------------------------------------------------
(* The responsible officer's forms, some of which the case administrator     *)
(* may change later.                                                         *)

ApprovedPremises(a) ==
  /\ Open("approvedPremises")
  /\ Update([doc EXCEPT !.ap = a], IF a = "No" THEN "curfewAddressReview" ELSE "apAddress", FALSE)

ApAddress(f) ==
  \/ /\ Open("apAddress")
     /\ Update([doc EXCEPT !.apAddress = f], IF f = "Full" THEN "taskList" ELSE "apAddress", FALSE)
  \/ /\ Open("bassApAddress")
     /\ Update([doc EXCEPT !.bass = [@ EXCEPT !.exists = TRUE, !.apAddress = f]],
               IF f = "Full" THEN "taskList" ELSE "bassApAddress", FALSE)

ReviewAddress(answers) ==
  /\ Open("curfewAddressReview")
  /\ Update([doc EXCEPT !.review = [consent |-> answers.consent, electricity |-> answers.electricity,
                                    of |-> doc.address]], "taskList", FALSE)

\* getRiskVersion: the configured version for a new form, which then keeps it.
RiskVersions(d) == IF d.risk.version = "None" THEN {"1", "2", "3"} ELSE {d.risk.version}

\* The form holds every answer of the section, so it replaces all of it.
AssessRisk(answers) ==
  /\ Open("risk")
  /\ answers.form.version \in RiskVersions(doc)
  /\ Update([doc EXCEPT !.risk = answers.form, !.suitable = answers.suitability], "taskList", FALSE)

CheckBassArea(answers) ==
  /\ Open("bassAreaCheck")
  /\ LET d == [doc EXCEPT !.bass = [@ EXCEPT !.exists = TRUE, !.suitable = answers.suitable,
                                             !.reason = answers.reason, !.seen = TRUE,
                                             !.ap = answers.ap]]
     IN Update(d, CASE ~BassAreaCheckValid(d) -> "bassAreaCheck"
                    [] BassAreaCheckValid(d) /\ answers.ap = "Yes" -> "bassApAddress"
                    [] OTHER -> "taskList", FALSE)

VictimLiaison ==
  /\ Open("victim")
  /\ Update([doc EXCEPT !.victim = "Full"], "taskList", FALSE)

\* Changed after the approval, the hours and the conditions need a new one.
CurfewHours ==
  /\ Open("hours")
  /\ Update([doc EXCEPT !.hours = "Full"], "taskList", TRUE)

AdditionalConditions(f) ==
  /\ Open("conditions")
  /\ Update([doc EXCEPT !.conditions = f], "taskList", TRUE)

\* noModify: a case with other reporting instructions is not a modified one.
ReportingInstructions(f) ==
  /\ Open("reporting")
  /\ Write([doc EXCEPT !.reporting = f], "taskList")

FinalChecks(f) ==
  /\ Open("finalChecks")
  /\ Update([doc EXCEPT !.checks = f], "taskList", FALSE)

-----------------------------------------------------------------------------
(* Postponing, refusing, deciding. *)

Postpone(a) ==
  /\ Open("postpone")
  /\ Update([doc EXCEPT !.postpone = a], "taskList", FALSE)

Refuse(a) ==
  /\ Open("refuse")
  /\ Update([doc EXCEPT !.refusal = a], "taskList", FALSE)

\* consideration: nothing but the next page depends on its answer.
Consider ==
  /\ Open("consideration")
  /\ Write(doc, "release")

\* An answer that is missing is saved, and the form shown again.
Release(a) ==
  /\ Open("release")
  /\ doc' = [doc EXCEPT !.release = a]
  /\ page' = IF a = "None" THEN "release" ELSE "send/decided"
  /\ decidedOn' = IF a = "Yes" THEN doc.address ELSE decidedOn
  /\ UNCHANGED <<stage, scope, rechosen>>

RefuseReason ==
  /\ Open("refuseReason")
  /\ Write([doc EXCEPT !.release = "No"], "send/decided")

-----------------------------------------------------------------------------
(* Sending the case (transitionsForDestinations.js, licenceStage.ts). *)

\* Mutant: a case that is refused has no transition.
NewStage_NoRefusal(destination) ==
  CASE destination \in {"send/addressReview", "send/bassReview"} -> "PROCESSING_RO"
    [] destination \in {"send/approval", "send/resubmit"} -> "APPROVAL"
    [] destination \in {"send/finalChecks", "send/return"} -> "PROCESSING_CA"
    [] destination = "send/decided" -> "DECIDED"
    [] destination = "send/refusal" -> "undefined"
    [] OTHER -> "ELIGIBILITY"

NewStage(destination) ==
  CASE destination \in {"send/addressReview", "send/bassReview"} -> "PROCESSING_RO"
    [] destination \in {"send/approval", "send/resubmit", "send/refusal"} -> "APPROVAL"
    [] destination \in {"send/finalChecks", "send/return"} -> "PROCESSING_CA"
    [] destination = "send/decided" -> "DECIDED"
    [] OTHER -> "ELIGIBILITY"

\* A case that is returned loses its decision (removeDecision).
Send(destination) ==
  /\ Open(destination)
  /\ stage' = NewStage(destination)
  /\ doc' = IF destination = "send/return" THEN [doc EXCEPT !.release = "None"] ELSE doc
  /\ page' = "taskList"
  /\ UNCHANGED <<scope, decidedOn, rechosen>>

-----------------------------------------------------------------------------

Init ==
  /\ stage = "ELIGIBILITY"
  /\ scope \in Scopes
  /\ doc = IF scope.eligible
           THEN [EmptyDoc EXCEPT !.excluded = "No", !.suitability = "No", !.crdTime = "No"]
           ELSE EmptyDoc
  /\ page = "taskList"
  /\ decidedOn = NoAddress
  /\ rechosen = FALSE

CaSteps ==
  \/ \E a \in Answer : Excluded(a) \/ Suitable(a) \/ Exceptional(a)
  \/ \E a \in {"No", "Yes", "Continue", "Stop"} : CrdTime(a)
  \/ \E c \in scope.choices : Choose(c)
  \/ \E a \in scope.addresses : EnterAddress(a)
  \/ \E another \in BOOLEAN : AnswerRejected(another) \/ NewAddress(another) \/ NewBass(another)
  \/ \E reason \in {"withdrawAddress", "withdrawConsent"} : Withdraw(reason)
  \/ ReinstateAddress
  \/ \E c \in {"OptOut", "ApprovedPremises"} :
       ChooseApprovedPremises(c) \/ ChooseBassApprovedPremises(c)
  \/ \E answers \in scope.requests : RequestBass(answers)
  \/ \E p \in {"bassRejected", "bassUnsuitable"}, a \in Answer : AnswerBassRejected(p, a)
  \/ \E offer \in scope.offers : OfferBass(offer)
  \/ \E what \in {"offer", "request"} : WithdrawBass(what)
  \/ ReinstateReferral
  \/ \E a \in Answer \ {"None"} : Postpone(a) \/ Refuse(a)

SharedSteps ==
  \/ \E a \in scope.aps : ApprovedPremises(a)
  \/ \E f \in scope.fills : ApAddress(f)
  \/ \E answers \in scope.reviews : ReviewAddress(answers)
  \/ \E answers \in scope.risks : AssessRisk(answers)
  \/ \E answers \in scope.areaChecks : CheckBassArea(answers)
  \/ VictimLiaison
  \/ CurfewHours
  \/ \E f \in scope.fills : AdditionalConditions(f) \/ ReportingInstructions(f) \/ FinalChecks(f)

DmSteps ==
  \/ Consider
  \/ \E a \in Answer : Release(a)
  \/ RefuseReason

Next ==
  \/ CaSteps
  \/ SharedSteps
  \/ DmSteps
  \/ \E destination \in Destinations : Send(destination)

Spec == Init /\ [][Next]_vars

-----------------------------------------------------------------------------
(* Properties. *)

\* Every variable keeps its type.
TypeOK ==
  /\ stage \in Stages
  /\ doc \in Doc
  /\ page \in Landings
  /\ scope \in Scopes
  /\ decidedOn \in Addresses \cup {NoAddress}
  /\ rechosen \in BOOLEAN

PrintOffered == "createLicence" \in TaskListPages(Status)

\* A licence that can be printed prints an address that passed what its kind
\* has to pass: the task list goes by the choice and the offer (createLicence.js,
\* licenceStatus.ts), the page by its own reading of the document (pdfFormatter).
\* A CAS2 case prints a residence only when the offer was saved blank.
PrintNeedsAddress ==
  PrintOffered =>
    CASE PrintedAddress(doc) = "premises" -> doc.apAddress = "Full"
      [] PrintedAddress(doc) = "bassPremises" -> doc.bass.apAddress = "Full"
      [] PrintedAddress(doc) = "offer" -> BassReferralNeeded(doc) /\ doc.bass.offerAddress = "Full"
      [] OTHER -> /\ BassReferralNeeded(doc) => doc.bass.accepted = "Blank"
                  /\ doc.address # NoAddress
                  /\ OffenderIsOccupier(doc) \/ doc.review.consent = "Yes"
                  /\ doc.review.electricity = "Yes" /\ doc.suitable.suitable = "Yes"

\* Nobody who is not eligible has an approved licence once the decision is
\* made, whatever answers were changed on the way to it.
ApprovedIsEligible == stage \in PostApproval /\ Approved(stage, doc) => Eligible(doc)

\* The residence on a licence that can be printed is the one the decision maker
\* released the offender to: an address entered later goes back to them.  Not so
\* when the curfew address choice was made again after a review (which leads to
\* the address form with the old review in place, or to an address withdrawn before
\* the decision, which can be reinstated), nor when the document held no residence
\* at the decision: an offer of CAS2 accepted before the choice of a residence
\* makes the decision maker's list offer the release (dmTasks.js).
PrintedAddressWasDecided ==
  PrintOffered /\ ~rechosen /\ decidedOn # NoAddress
    /\ ~ApprovedPremisesRequired(doc) /\ ~BassReferralNeeded(doc) => doc.address = decidedOn

\* Withdrawing an address or a CAS2 referral and reinstating it leaves the
\* document as it was, whatever the case has been through before.
WithdrawalUndone ==
  /\ doc.address # NoAddress =>
       \A reason \in {"withdrawAddress", "withdrawConsent"} : Reinstate(Reject(doc, reason)) = doc
  /\ doc.bass.exists => ReinstateBass(DeactivateBass(doc, "Yes", "offer")) = doc

\* The addresses the document holds, current and given up.
Held(d) == ({d.address} \cup {d.rejections[i].address : i \in DOMAIN d.rejections}) \ {NoAddress}

\* No step but typing over it makes an address disappear.
AddressesKept ==
  [][Held(doc) \subseteq Held(doc') \/ \E a \in scope.addresses : EnterAddress(a)]_vars

\* What the responsible officer is given to review was accepted by the check,
\* though the choice and the answers can change between the check and the button.
ProposalAccepted ==
  IF BassReferralNeeded(doc) THEN BassRequestValid(doc) ELSE CurfewAddressValid(doc)

\* Whatever a form that the check reads is refused for has its place on the page.
\* The request of a CAS2 case has none and needs none: it was accepted before.
\* Three more forms of such a case have none: an area check that was begun, whose
\* errors have the wrong name, the review of an address that was turned down,
\* which is still asked for, and the approved premises chosen instead of such an
\* address.
ErrorsMarked ==
  FormGroup(Status, doc) \ MarkedForms(Status, doc)
    \subseteq When(BassReferralNeeded(doc),
                  {"bassRequest", "misfiledAreaCheck"}
                    \cup When(CurfewAddressRejected(doc), {"curfewAddressReview"})
                    \cup When(doc.ap = "Yes", {"premises"}))

\* A case that is not turned down and is called ready misses none of the answers
\* the check cannot do without; the check can still refuse one that was given, or
\* miss one that no task counts.  A CAS2 case is called ready once the area is
\* checked.
ReadyIsAnswered ==
  CanSendRoToCa(Status) =>
    \/ Status.bassReferralNeeded \/ Status.curfewAddressRejected \/ Status.optedOut
    \/ Errors(Status, doc) = {}

\* A residence is chosen instead of a referral whose area was found unsuitable or
\* which was to be approved premises, and the finding is still in the document.
CheckLeftOver ==
  ~BassReferralNeeded(doc) /\ (BassAreaNotSuitable(doc) \/ doc.bass.ap = "Yes")

\* The states of the tasks, the forms that are asked for and the sections of the
\* page are decided in four places (licenceStatus.ts, licenceService.ts,
\* reviewModels.js, roTransitions.ts): at the responsible officer they agree,
\* except that a finding left over decides for a residence.
ReviewTells ==
  stage = "PROCESSING_RO" =>
    ProposalAccepted /\ (CheckLeftOver \/ (ReadyIsAnswered /\ ErrorsMarked))

\* The case list derives what it says of a case from tables of its own
\* (licenceStatusLabels.js), and the task list from others: they agree.  The case
\* is on the active tab of whoever has to go on with it, with a button to the task
\* list, and what it is called there is what the task list lets be done with it.
ListAgrees ==
  LET offered == TaskListPages(Status)
      listed(role) == Label(role, stage, doc)
      active(role) == OnTab(role, stage, doc) = "active"
      inHand(role) == active(role) /\ RowLeadsTo(role, stage) = "taskList"
  IN /\ stage = "PROCESSING_RO" =>
          /\ inHand("RO")
          /\ "send/bassAreaRejected" \in offered =>
               CheckLeftOver \/ listed("RO") = "CAS2AreaRejected"
     /\ stage = "APPROVAL" =>
          /\ inHand("DM")
          /\ listed("DM") = "AwaitingRefusal" <=> "send/return" \notin offered
     /\ "send/approval" \in offered /\ stage = "PROCESSING_CA" => inHand("CA")
     /\ listed("CA") = "AddressNotSuitable" /\ Eligible(doc) => "send/refusal" \in offered
     /\ PrintOffered =>
          inHand("CA") /\ \A role \in Roles : listed(role) = "Approved" /\ active(role)

\* The address page calls an address "checked by the community offender
\* manager" once the review is done (views/review/address.pug:33): when the task
\* list leads to it, the review is of the address it shows.
CheckedAddress ==
  "address" \in TaskListPages(Status) /\ Status.review = "DONE" /\ doc.address # NoAddress
    => doc.review.of = doc.address
=============================================================================
