---------------------------- MODULE LicenceStatus ----------------------------
(***************************************************************************)
(* What the answers in a licence document say: getLicenceStatus and the    *)
(* state functions it calls (licenceStatus.ts, eligibilityState.js,        *)
(* curfewAddressState.ts, bassAddressState.ts).  Every page of the program *)
(* is built from its result.                                               *)
(*                                                                         *)
(* The document is flattened to one field per answer that some decision or *)
(* task reads.  "None" is a question without an answer.  A form of which   *)
(* only the completeness matters holds "None", "Part" or "Full".           *)
(***************************************************************************)
EXTENDS Naturals, Sequences

CONSTANTS Addresses,       \* residential addresses that can be proposed
          CompleteAddress, \* those entered with every required field
          OwnAddress,      \* those of which the offender is the main occupier
          NoAddress        \* no residential address

ASSUME AddressAssumption ==
  /\ CompleteAddress \subseteq Addresses
  /\ OwnAddress \subseteq Addresses
  /\ NoAddress \notin Addresses

Answer == {"None", "Yes", "No"}
Fill == {"None", "Part", "Full"}
TaskState == {"UNSTARTED", "STARTED", "DONE"}

\* curfew.curfewAddressReview.  consent stands for consent (version 1 of the
\* form) and consentHavingSpoken (version 2).  of is not stored: it remembers
\* the address that was on the page when the review was entered.
Review == [consent : Answer, electricity : Answer, of : Addresses \cup {NoAddress}]
NoReview == [consent |-> "None", electricity |-> "None", of |-> NoAddress]

\* The part of risk.riskManagement that is about the proposed address.
Suitability == [suitable : Answer, manage : Answer, checks : Answer]
NoSuitability == [suitable |-> "None", manage |-> "None", checks |-> "None"]

\* The rest of risk.riskManagement: the version of the form, the planning and
\* information questions, and those of version 3 about health and the POM.
RiskForm == [version : {"None", "1", "2", "3"}, planning : BOOLEAN,
             awaiting : BOOLEAN, consulted : BOOLEAN]
NoRiskForm == [version |-> "None", planning |-> FALSE, awaiting |-> FALSE,
               consulted |-> FALSE]

\* A CAS2 referral.  town: proposedTown and proposedCounty; exists: the
\* section is in the document at all; accepted "Blank": the offer was saved
\* without an answer.
Bass == [exists : BOOLEAN, requested : Answer, specificArea : Answer, town : Fill,
         suitable : Answer, reason : BOOLEAN, seen : BOOLEAN, ap : Answer,
         apAddress : Fill,
         accepted : {"None", "Blank", "Yes", "Unsuitable", "Unavailable"},
         offerAddress : Fill]
NoBass == [exists |-> FALSE, requested |-> "None", specificArea |-> "None",
           town |-> "None", suitable |-> "None", reason |-> FALSE, seen |-> FALSE,
           ap |-> "None", apAddress |-> "None", accepted |-> "None",
           offerAddress |-> "None"]

\* What is kept of an address that was rejected or withdrawn.
Rejection == [address : Addresses \cup {NoAddress}, review : Review,
              suitability : Suitability,
              withdrawal : {"none", "withdrawAddress", "withdrawConsent"}]

\* What is kept of a CAS2 referral that was rejected or withdrawn.
BassRejection == [bass : Bass, withdrawal : {"none", "offer", "request"}]

Doc == [excluded : Answer, suitability : Answer, exceptional : Answer,
        crdTime : {"None", "No", "Yes", "Continue", "Stop"},
        optOut : Answer, addressProposed : Answer,
        address : Addresses \cup {NoAddress},
        rejections : Seq(Rejection),
        ap : Answer, apAddress : Fill,
        review : Review, risk : RiskForm, suitable : Suitability,
        victim : Fill, hours : Fill, reporting : Fill, conditions : Fill,
        bass : Bass, bassRejections : Seq(BassRejection),
        checks : Fill, postpone : Answer, refusal : Answer, release : Answer]

EmptyDoc ==
  [excluded |-> "None", suitability |-> "None", exceptional |-> "None",
   crdTime |-> "None", optOut |-> "None", addressProposed |-> "None",
   address |-> NoAddress, rejections |-> <<>>, ap |-> "None", apAddress |-> "None",
   review |-> NoReview, risk |-> NoRiskForm, suitable |-> NoSuitability,
   victim |-> "None", hours |-> "None", reporting |-> "None", conditions |-> "None",
   bass |-> NoBass, bassRejections |-> <<>>,
   checks |-> "None", postpone |-> "None", refusal |-> "None", release |-> "None"]

FillState(f) == CASE f = "None" -> "UNSTARTED" [] f = "Part" -> "STARTED" [] f = "Full" -> "DONE"

Answered(a) == IF a = "None" THEN "UNSTARTED" ELSE "DONE"

\* getOverallState
OverallState(states) ==
  CASE states = {"UNSTARTED"} -> "UNSTARTED"
    [] states = {"DONE"} -> "DONE"
    [] OTHER -> "STARTED"

-----------------------------------------------------------------------------
(* eligibilityState.js *)

CrdTimeState(d) ==
  CASE d.crdTime = "None" -> "UNSTARTED"
    [] d.crdTime = "Yes" -> "STARTED"
    [] OTHER -> "DONE"

SuitabilityState(d) ==
  CASE d.suitability = "None" -> "UNSTARTED"
    [] d.suitability = "No" \/ d.exceptional # "None" -> "DONE"
    [] OTHER -> "STARTED"

InsufficientTimeStop(d) == d.crdTime = "Stop"

NotEligible(d) ==
  \/ d.excluded = "Yes"
  \/ InsufficientTimeStop(d)
  \/ d.suitability = "Yes" /\ d.exceptional = "No"

EligibilityState(d) ==
  IF NotEligible(d) THEN "DONE"
  ELSE OverallState({Answered(d.excluded), CrdTimeState(d), SuitabilityState(d)})

Eligible(d) == ~NotEligible(d) /\ EligibilityState(d) = "DONE"

-----------------------------------------------------------------------------
(* bassAddressState.ts *)

BassReferralNeeded(d) == d.bass.requested = "Yes" /\ d.addressProposed = "No"

BassRequestState(d) ==
  IF BassReferralNeeded(d) /\ d.bass.specificArea # "No"
  THEN FillState(d.bass.town) ELSE Answered(d.bass.requested)

\* Without a preferred area there is nothing to judge, only to have seen.
BassAreaNotSuitable(d) == d.bass.specificArea # "No" /\ d.bass.suitable = "No"

BassAreaCheckState(d) ==
  CASE d.bass.specificArea = "No" -> IF d.bass.seen THEN "DONE" ELSE "UNSTARTED"
    [] d.bass.specificArea # "No" /\ d.bass.suitable = "None" -> "UNSTARTED"
    [] d.bass.specificArea # "No" /\ d.bass.suitable = "No" /\ ~d.bass.reason -> "STARTED"
    [] OTHER -> "DONE"

\* getBassWithdrawalState: a fresh request hides the withdrawn one.
BassWithdrawn(d) ==
  /\ BassAreaCheckState(d) # "DONE"
  /\ BassRequestState(d) = "UNSTARTED"
  /\ d.bassRejections # <<>>
  /\ d.bassRejections[Len(d.bassRejections)].withdrawal # "none"

BassOfferState(d) == IF d.bass.accepted \in {"None", "Blank"} THEN "UNSTARTED" ELSE "DONE"

BassAddressState(d) ==
  CASE d.bass.accepted = "None" -> "UNSTARTED"
    [] d.bass.accepted = "Yes" /\ d.bass.offerAddress # "Full" -> "STARTED"
    [] OTHER -> "DONE"

-----------------------------------------------------------------------------
(* curfewAddressState.ts, getRiskManagementState *)

OffenderIsOccupier(d) == d.address \in OwnAddress

ApprovedPremisesRequired(d) == d.ap = "Yes" \/ d.bass.ap = "Yes"

\* The premises of the CAS2 referral take precedence.
ApAddressState(d) ==
  IF ~ApprovedPremisesRequired(d) THEN "UNSTARTED"
  ELSE FillState(IF d.bass.ap = "Yes" THEN d.bass.apAddress ELSE d.apAddress)

\* pickCurfewAddressPath: the address a licence prints.
PrintedAddress(d) ==
  CASE d.bass.ap = "Yes" -> "bassPremises"
    [] d.ap = "Yes" /\ d.bass.ap # "Yes" -> "premises"
    [] ~ApprovedPremisesRequired(d) /\ d.bass.requested = "Yes" /\ d.bass.accepted = "Yes" -> "offer"
    [] OTHER -> "residence"

AddressReviewFailed(d) ==
  ~ApprovedPremisesRequired(d) /\ (d.review.consent = "No" \/ d.review.electricity = "No")

\* taskCompletion
ReviewState(d) ==
  IF ApprovedPremisesRequired(d) THEN ApAddressState(d)
  ELSE CASE /\ d.review.electricity # "None"
            /\ OffenderIsOccupier(d) \/ d.review.consent # "None" -> "DONE"
         [] d.review.electricity = "None" /\ d.review.consent = "None" -> "UNSTARTED"
         [] OTHER -> "STARTED"

\* isAcceptedAddress
CurfewAddressApproved(d) ==
  /\ ~ApprovedPremisesRequired(d)
  /\ OffenderIsOccupier(d) \/ d.review.consent = "Yes"
  /\ d.review.electricity = "Yes"
  /\ d.suitable.suitable = "Yes"

AddressWithdrawn(d) ==
  ~ApprovedPremisesRequired(d) /\ d.address = NoAddress /\ d.rejections # <<>>

AddressUnsuitable(d) ==
  d.suitable.suitable = "No" \/ (d.risk.version = "3" /\ d.suitable.manage = "No")

CurfewAddressRejected(d) == AddressUnsuitable(d) \/ AddressReviewFailed(d)

RiskState(d) ==
  LET r == d.risk
      started == r # NoRiskForm \/ d.suitable # NoSuitability
      considered == r.planning \/ d.suitable.checks = "Yes"
      common == r.awaiting /\ d.suitable.suitable # "None"
  IN CASE ~started -> "UNSTARTED"
       [] \/ r.version # "3" /\ considered /\ common
          \/ r.version = "3" /\ considered /\ common /\ d.suitable.manage # "None" /\ r.consulted
          \/ r.version = "2" /\ d.suitable.checks = "No" /\ common /\ d.bass.requested = "Yes" -> "DONE"
       [] OTHER -> "STARTED"

\* getAddressState
CurfewAddressState(d) ==
  CASE d.optOut = "Yes" \/ BassReferralNeeded(d) -> "DONE"
    [] d.optOut # "Yes" /\ ~BassReferralNeeded(d) /\ d.address = NoAddress -> "UNSTARTED"
    [] d.optOut # "Yes" /\ ~BassReferralNeeded(d) /\ d.address # NoAddress
       /\ (CurfewAddressRejected(d) \/ d.address \notin CompleteAddress) -> "STARTED"
    [] OTHER -> "DONE"

-----------------------------------------------------------------------------
(* getLicenceStatus: which decisions and tasks a stage lets the pages see.   *)
(* A decision that a stage does not compute is undefined, hence false, and a *)
(* task undefined, hence neither UNSTARTED nor DONE.                         *)

Stages == {"ELIGIBILITY", "PROCESSING_RO", "PROCESSING_CA", "APPROVAL",
           "DECIDED", "MODIFIED", "MODIFIED_APPROVAL"}

\* isPostApproval
PostApproval == {"DECIDED", "MODIFIED", "MODIFIED_APPROVAL"}

\* getRequiredState: the parts of the status each stage adds.
SeesRo(stage) == stage # "ELIGIBILITY"
SeesCa(stage) == stage \notin {"ELIGIBILITY", "PROCESSING_RO"}
SeesApproval(stage) == stage \in {"APPROVAL"} \cup PostApproval

Seen(condition, task) == IF condition THEN task ELSE "undefined"

\* decisions.approved
Approved(stage, d) == SeesApproval(stage) /\ d.release = "Yes" /\ d.refusal # "Yes"

StatusOf(stage, d, cvl) ==
  [stage |-> stage,
   eligible |-> Eligible(d),
   eligibility |-> EligibilityState(d),
   excluded |-> d.excluded = "Yes",
   insufficientTimeStop |-> InsufficientTimeStop(d),
   optedOut |-> d.optOut = "Yes",
   optOut |-> Answered(d.optOut),
   bassReferralNeeded |-> BassReferralNeeded(d),
   bassRequest |-> BassRequestState(d),
   bassAreaNotSuitable |-> BassAreaNotSuitable(d),
   curfewAddress |-> CurfewAddressState(d),
   curfewAddressApproved |-> CurfewAddressApproved(d),
   curfewAddressRejected |-> CurfewAddressRejected(d),
   addressUnsuitable |-> AddressUnsuitable(d),
   risk |-> RiskState(d),
   \* getRoStageState
   approvedPremisesRequired |-> SeesRo(stage) /\ ApprovedPremisesRequired(d),
   addressReviewFailed |-> SeesRo(stage) /\ AddressReviewFailed(d),
   addressWithdrawn |-> SeesRo(stage) /\ AddressWithdrawn(d),
   useCvl |-> SeesRo(stage) /\ cvl,
   apAddress |-> Seen(SeesRo(stage), ApAddressState(d)),
   review |-> Seen(SeesRo(stage), ReviewState(d)),
   bassAreaCheck |-> Seen(SeesRo(stage), BassAreaCheckState(d)),
   victim |-> Seen(SeesRo(stage), FillState(d.victim)),
   hours |-> Seen(SeesRo(stage), FillState(d.hours)),
   reporting |-> Seen(SeesRo(stage), FillState(d.reporting)),
   conditions |-> Seen(SeesRo(stage), FillState(d.conditions)),
   \* getCaStageState
   postponed |-> SeesCa(stage) /\ d.postpone = "Yes",
   finalChecksRefused |-> SeesCa(stage) /\ d.refusal = "Yes",
   bassAccepted |-> IF SeesCa(stage) THEN d.bass.accepted ELSE "None",
   bassWithdrawn |-> SeesCa(stage) /\ BassWithdrawn(d),
   finalChecks |-> Seen(SeesCa(stage), FillState(d.checks)),
   bassOffer |-> Seen(SeesCa(stage), BassOfferState(d)),
   \* getApprovalStageState
   approved |-> Approved(stage, d),
   dmRefused |-> SeesApproval(stage) /\ d.release = "No",
   decided |-> SeesApproval(stage) /\ d.release # "None",
   bassAddress |-> Seen(SeesApproval(stage), BassAddressState(d))]
=============================================================================
