------------------------------ MODULE TaskLists ------------------------------
(***************************************************************************)
(* What the task list offers whoever holds the case: caTransitions.ts and  *)
(* the task lists (caTasks.js, roTasks.js, dmTasks.js and the tasks they   *)
(* are made of).  roTransitions.ts decides on the wording of the last task *)
(* of the responsible officer only, which can be sent whatever it says.    *)
(*                                                                         *)
(* A task list is the set of the pages its tasks link to.  s is always a   *)
(* status, the result of StatusOf.  The responsible officer is allocated:  *)
(* the task that says otherwise is left out.                               *)
(***************************************************************************)
EXTENDS LicenceStatus

When(condition, pages) == IF condition THEN pages ELSE {}

AllComplete(states) == states \subseteq {"DONE"}

BassTurnedDown(s) == s.bassAccepted \in {"Unsuitable", "Unavailable"}

-----------------------------------------------------------------------------
(* caTransitions.ts *)

CanSendCaToRo(s) ==
  \/ /\ s.stage \in {"PROCESSING_CA", "MODIFIED", "MODIFIED_APPROVAL"}
     /\ ~s.approvedPremisesRequired
     /\ \/ s.bassReferralNeeded /\ s.bassAreaCheck = "UNSTARTED"
        \/ ~s.bassReferralNeeded /\ ~s.optedOut /\ s.review = "UNSTARTED"
  \/ /\ s.stage = "ELIGIBILITY"
     /\ s.eligible /\ ~s.optedOut /\ ~s.curfewAddressRejected
     /\ AllComplete({s.optOut, s.curfewAddress})

IsBassFailure(s) == s.bassWithdrawn \/ s.bassAreaNotSuitable \/ BassTurnedDown(s)

CanSendCaToDmRefusal(s) ==
  \/ /\ s.stage \in {"PROCESSING_CA"} \cup PostApproval
     /\ ~s.finalChecksRefused
     /\ IF s.bassReferralNeeded THEN IsBassFailure(s)
        ELSE s.addressWithdrawn \/ s.curfewAddressRejected
  \/ /\ s.stage = "ELIGIBILITY"
     /\ s.eligible \/ s.insufficientTimeStop
     /\ s.insufficientTimeStop \/ s.curfewAddressRejected \/ IsBassFailure(s)

\* getRequiredTasks
RequiredTasks(s) ==
  {s.finalChecks}
    \cup When(s.approvedPremisesRequired, {s.apAddress})
    \cup When(~s.approvedPremisesRequired /\ s.bassReferralNeeded, {s.bassOffer})

CanSendCaToDm(s) ==
  \/ s.stage = "MODIFIED_APPROVAL"
  \/ /\ s.stage = "PROCESSING_CA"
     /\ \/ s.insufficientTimeStop
        \/ /\ AllComplete(RequiredTasks(s))
           /\ s.bassReferralNeeded \/ s.curfewAddressApproved \/ s.approvedPremisesRequired
           /\ ~s.excluded /\ ~s.postponed /\ ~s.finalChecksRefused

CaTransition(s) ==
  IF CanSendCaToDmRefusal(s) THEN "caToDmRefusal"
  ELSE IF CanSendCaToDm(s) THEN "caToDm"
  ELSE IF CanSendCaToRo(s) THEN "caToRo" ELSE "none"

-----------------------------------------------------------------------------
(* The case administrator's tasks. *)

EligibilityPages == {"excluded"}

\* tasks/ca/curfewAddress.js
CurfewAddressPage(s) ==
  IF s.curfewAddressRejected THEN "rejected"
  ELSE IF s.bassAreaNotSuitable THEN "bassRejected" ELSE "choice"

\* tasks/proposedAddress.js
ProposedAddressPage(s) ==
  CASE s.optedOut -> "choice"
    [] ~s.optedOut /\ s.approvedPremisesRequired -> "apChoice"
    [] ~s.optedOut /\ ~s.approvedPremisesRequired /\ s.stage \notin PostApproval ->
         IF s.curfewAddress = "UNSTARTED" THEN "choice" ELSE "address"
    [] OTHER -> IF s.addressWithdrawn THEN "newAddress" ELSE "address"

\* tasks/bassAddress.js: getOfferAction before approval, getAction after it.
BassAddressPage(s) ==
  IF s.stage \in PostApproval
  THEN IF s.apAddress = "DONE" THEN "bassApChoice" ELSE "bassOffer"
  ELSE CASE s.approvedPremisesRequired -> "bassApChoice"
         [] ~s.approvedPremisesRequired /\ (s.bassWithdrawn \/ s.bassAreaCheck = "DONE") -> "bassOffer"
         [] OTHER -> "choice"

\* The buttons of submitAddressReview and submitBassReview.
ReviewPage(s) ==
  IF s.bassReferralNeeded
  THEN When(~s.optedOut /\ s.bassRequest # "UNSTARTED", {"reviewBassRequest"})
  ELSE When(~s.optedOut /\ s.curfewAddress = "DONE", {"reviewCurfewAddress"})

OptOutRefused(s) == s.optOut = "DONE" /\ ~s.optedOut

\* submitToDm
SubmitPages(s) ==
  When(CaTransition(s) = "caToDm", {"send/approval"})
    \cup When(CaTransition(s) = "caToDmRefusal" /\ ~s.optedOut, {"send/refusal"})

CaEligibilityPages(s) ==
  EligibilityPages
    \cup When(s.eligible, {CurfewAddressPage(s)})
    \cup When(s.addressUnsuitable, {"risk"})
    \cup When(CaTransition(s) = "caToDmRefusal", SubmitPages(s))
    \cup When(OptOutRefused(s) /\ CaTransition(s) # "caToDmRefusal", ReviewPage(s))

BassChecksDone(s) ==
  s.bassReferralNeeded /\ s.bassAreaCheck = "DONE" /\ ~s.bassWithdrawn /\ ~BassTurnedDown(s)

BassOfferMade(s) ==
  s.bassReferralNeeded /\ s.bassOffer = "DONE" /\ ~s.bassWithdrawn /\ ~BassTurnedDown(s)

ValidAddress(s) ==
  \/ s.approvedPremisesRequired
  \/ s.curfewAddressApproved
  \/ IF s.stage \in PostApproval THEN BassOfferMade(s) ELSE BassChecksDone(s)

\* The tasks of a case that has an address.
WorkPages(s) ==
  When(ValidAddress(s),
       {"victim", "finalChecks"} \cup When(~s.useCvl, {"hours", "conditions", "reporting"}))

CaProcessingPages(s) ==
  IF ~s.optedOut /\ ~s.eligible THEN EligibilityPages
  ELSE
    {"refuse"}
      \cup When(s.bassReferralNeeded, {BassAddressPage(s)})
      \cup When(~s.bassReferralNeeded,
                {IF CaTransition(s) = "caToRo" THEN CurfewAddressPage(s) ELSE ProposedAddressPage(s)})
      \cup When(~s.optedOut,
             EligibilityPages
               \cup When(\/ ~s.approvedPremisesRequired /\ s.curfewAddressApproved
                         \/ s.addressUnsuitable
                         \/ BassChecksDone(s) /\ ~s.approvedPremisesRequired, {"risk"})
               \cup WorkPages(s)
               \cup When(ValidAddress(s), {"postpone"})
               \cup SubmitPages(s)
               \cup When(OptOutRefused(s) /\ CaTransition(s) = "caToRo", ReviewPage(s)))

\* Mutant: the licence of a CAS2 case can be printed before there is an offer.
CreateLicenceOffered_NoOffer(s) ==
  /\ ValidAddress(s) /\ CaTransition(s) = "none" /\ ~s.dmRefused /\ ~s.postponed
  /\ ~s.useCvl /\ s.approved /\ s.stage # "MODIFIED_APPROVAL"
  /\ IF s.approvedPremisesRequired THEN s.apAddress = "DONE"
     ELSE s.bassReferralNeeded \/ ~s.addressWithdrawn

\* createLicence.ca and the row of the task list it is in.
CreateLicenceOffered(s) ==
  /\ ValidAddress(s) /\ CaTransition(s) = "none" /\ ~s.dmRefused /\ ~s.postponed
  /\ ~s.useCvl /\ s.approved /\ s.stage # "MODIFIED_APPROVAL"
  /\ CASE s.approvedPremisesRequired -> s.apAddress = "DONE"
       [] ~s.approvedPremisesRequired /\ s.bassReferralNeeded -> s.bassAddress = "DONE"
       [] OTHER -> ~s.addressWithdrawn

CaPostApprovalPages(s) ==
  When(s.eligible,
       When(CaTransition(s) = "caToRo", {CurfewAddressPage(s)} \cup When(OptOutRefused(s), ReviewPage(s)))
         \cup When(CaTransition(s) # "caToRo",
                   {IF s.bassReferralNeeded THEN BassAddressPage(s) ELSE ProposedAddressPage(s)})
         \cup When(/\ ~s.approvedPremisesRequired
                   /\ s.curfewAddressApproved \/ BassOfferMade(s) \/ s.addressUnsuitable, {"risk"})
         \cup WorkPages(s)
         \cup When(ValidAddress(s) /\ ~s.dmRefused, {"postpone"})
         \cup When(~s.dmRefused, {"refuse"})
         \cup SubmitPages(s)
         \cup When(CaTransition(s) = "none", {"send/resubmit"})
         \cup When(CreateLicenceOffered(s), {"createLicence"}))

-----------------------------------------------------------------------------
(* The responsible officer's tasks, and the decision maker's. *)

\* submitToCa leads to review/licenceDetails, whose button says where to.
SubmitToCaPage(s) ==
  CASE s.optedOut -> "send/optedOut"
    [] ~s.optedOut /\ s.curfewAddressRejected -> "send/addressRejected"
    [] ~s.optedOut /\ ~s.curfewAddressRejected /\ s.bassAreaNotSuitable -> "send/bassAreaRejected"
    [] OTHER -> "send/finalChecks"

RoPages(s) ==
  LET validAddress == ~s.curfewAddressRejected /\ ~s.bassAreaNotSuitable
  IN {SubmitToCaPage(s)}
       \cup When(s.bassReferralNeeded, {"bassAreaCheck"})
       \cup When((~s.bassReferralNeeded /\ ~s.curfewAddressRejected)
                   \/ (s.curfewAddressRejected /\ s.addressReviewFailed), {"approvedPremises"})
       \cup When(~s.approvedPremisesRequired /\ (validAddress \/ s.addressUnsuitable), {"risk"})
       \cup When(validAddress, {"victim"} \cup When(~s.useCvl, {"hours", "conditions", "reporting"}))

\* Mutant: a case without enough time gets the standard list.
DmPages_NoStop(s) ==
  IF s.bassAccepted # "Yes" /\ (s.addressWithdrawn \/ s.curfewAddressRejected)
  THEN {"refuseReason", "send/return"}
  ELSE {"consideration", "send/return"}

DmPages(s) ==
  CASE s.insufficientTimeStop -> {"refuseReason"}
    [] /\ ~s.insufficientTimeStop
       /\ s.bassAccepted # "Yes" /\ (s.addressWithdrawn \/ s.curfewAddressRejected) ->
         {"refuseReason", "send/return"}
    [] OTHER -> {"consideration", "send/return"}

-----------------------------------------------------------------------------

\* getTaskLists, for the role that may change the case at its stage.
TaskListPages(s) ==
  CASE s.stage = "ELIGIBILITY" -> CaEligibilityPages(s)
    [] s.stage = "PROCESSING_CA" -> CaProcessingPages(s)
    [] s.stage \in PostApproval -> CaPostApprovalPages(s)
    [] s.stage = "PROCESSING_RO" -> RoPages(s)
    [] s.stage = "APPROVAL" -> DmPages(s)
=============================================================================
