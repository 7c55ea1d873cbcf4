------------------------------ MODULE CaseReview ------------------------------
(***************************************************************************)
(* The page on which a case is read before it is sent (review.ts): the     *)
(* forms whose answers it checks (validateFormGroup, formValidation.ts),   *)
(* the sections it shows (reviewModels.js), and whether the responsible    *)
(* officer is told the case is ready (roTransitions.ts).  The two pages of *)
(* the case administrator hide their button while an answer is missing;    *)
(* the responsible officer's only marks it.                                *)
(*                                                                         *)
(* A form stands for itself and for the error kept under its name.         *)
(* "misfiledAreaCheck" is the area check of CAS2 in the groups that keep   *)
(* its errors under the wrong name.                                        *)
(*                                                                         *)
(* The forms of the case administrator are checked here as the program     *)
(* does.  A form of the responsible officer whose task is done can still   *)
(* be refused, for what no task counts: a reporting date that has passed,  *)
(* a postcode, a condition without its details, the home visit, whether    *)
(* there is anything not to be disclosed.  Of those forms this module has  *)
(* the answers that are missing, which are refused whatever the rest says. *)
(***************************************************************************)
EXTENDS TaskLists

CONSTANT WellFormedAddress \* the addresses that curfewAddressSchema accepts

ASSUME WellFormedAssumption == WellFormedAddress \subseteq CompleteAddress

-----------------------------------------------------------------------------
(* The schemas of the forms. *)

CurfewAddressValid(d) == d.address \in WellFormedAddress

BassRequestValid(d) ==
  /\ d.bass.requested # "None"
  /\ d.bass.requested = "Yes" => d.bass.specificArea # "None"
  /\ d.bass.specificArea = "Yes" => d.bass.town = "Full"

\* Whether the area is suitable depends on an answer of another form, so it is
\* never asked for.
BassAreaCheckValid(d) ==
  /\ d.bass.ap # "None"
  /\ d.bass.suitable = "No" => d.bass.reason

\* addressReviewSchema, addressReviewSchemaOffenderIsOccupier
AddressReviewAnswered(d) ==
  IF OffenderIsOccupier(d) THEN d.review.electricity # "None"
  ELSE /\ d.review.consent # "None"
       /\ d.review.consent = "Yes" => d.review.electricity # "None"

RiskAnswered(d) ==
  /\ d.risk.awaiting /\ d.suitable.suitable # "None"
  /\ IF d.risk.version = "1" THEN d.risk.planning ELSE d.suitable.checks # "None"
  /\ d.risk.version = "3" => d.suitable.manage # "None" /\ d.risk.consulted

\* The form has the answers it cannot do without.  Conditions that were all
\* deleted again are no conditions, and accepted.
FormAnswered(form, d) ==
  CASE form = "curfewAddress" -> CurfewAddressValid(d)
    [] form = "curfewAddressReview" -> AddressReviewAnswered(d)
    [] form = "risk" -> RiskAnswered(d)
    [] form = "victim" -> d.victim = "Full"
    [] form = "hours" -> d.hours = "Full"
    [] form = "conditions" -> d.conditions # "None"
    [] form = "reporting" -> d.reporting = "Full"
    [] form = "premises" -> d.apAddress = "Full"
    [] form = "bassPremises" -> d.bass.apAddress = "Full"
    [] form = "bassRequest" -> BassRequestValid(d)
    [] form \in {"bassAreaCheck", "misfiledAreaCheck"} -> BassAreaCheckValid(d)

-----------------------------------------------------------------------------
(* The forms a stage asks for. *)

\* The forms of the licence itself, which is completed elsewhere in a CVL case.
LicenceForms(s) == IF s.useCvl THEN {} ELSE {"hours", "conditions", "reporting"}

\* approvedAddressValidationConfig
PremisesForm(d) == IF d.ap = "Yes" THEN "premises" ELSE "bassPremises"

\* Mutant: a case whose address is rejected is asked for everything.
RoGroup_NoRejection(s, d) ==
  CASE s.approvedPremisesRequired ->
         {PremisesForm(d)} \cup LicenceForms(s)
    [] ~s.approvedPremisesRequired /\ s.bassReferralNeeded ->
         {"bassRequest", "misfiledAreaCheck", "risk", "victim"} \cup LicenceForms(s)
    [] OTHER -> {"curfewAddressReview", "risk", "victim"} \cup LicenceForms(s)

\* groupName at PROCESSING_RO: the first that applies.
RoGroup(s, d) ==
  IF s.approvedPremisesRequired
  THEN {PremisesForm(d)} \cup LicenceForms(s)
  ELSE IF s.addressReviewFailed THEN {"curfewAddressReview"}
  ELSE IF s.addressUnsuitable THEN {"curfewAddressReview", "risk"}
  ELSE IF s.bassAreaNotSuitable THEN {"bassRequest", "bassAreaCheck"}
  ELSE {"risk", "victim"} \cup LicenceForms(s)
         \cup IF s.bassReferralNeeded THEN {"bassRequest", "misfiledAreaCheck"}
              ELSE {"curfewAddressReview"}

\* validateFormGroup: after the review only what is new is asked for.
FormGroup(s, d) ==
  IF s.stage = "PROCESSING_RO" THEN RoGroup(s, d)
  ELSE IF s.bassReferralNeeded /\ (s.stage = "ELIGIBILITY" \/ s.bassAreaCheck = "UNSTARTED")
  THEN {"bassRequest"}
  ELSE When(s.review = "UNSTARTED" \/ s.stage = "ELIGIBILITY", {"curfewAddress"})

\* errorObject: the forms that are refused for an answer that is missing, or in
\* the case administrator's for any reason.
Errors(s, d) == {form \in FormGroup(s, d) : ~FormAnswered(form, d)}

-----------------------------------------------------------------------------
(* What the responsible officer sees. *)

\* getReviewSections
ReviewSections(s) ==
  LET rejected == s.curfewAddressRejected \/ s.bassAreaNotSuitable
      valid == ~rejected \/ s.approvedPremisesRequired
  IN When(s.bassReferralNeeded, {"bassArea"})
       \cup When(s.approvedPremisesRequired, {"premises"})
       \cup When(~s.bassReferralNeeded /\ ~s.approvedPremisesRequired, {"curfewAddress"})
       \cup When((s.addressUnsuitable \/ ~rejected) /\ ~s.approvedPremisesRequired, {"risk"})
       \cup When(valid, {"victim"} \cup LicenceForms(s))

\* licenceSummary: the forms whose errors have a place in a section.  The area
\* check is asked for when there is none, whatever name its error has.
MarkedForms(s, d) ==
  LET sections == ReviewSections(s)
  IN (sections \cap {"risk", "victim", "hours", "conditions", "reporting"})
       \cup When("curfewAddress" \in sections, {"curfewAddressReview"})
       \cup When("premises" \in sections,
                 {IF "bassArea" \in sections THEN "bassPremises" ELSE "premises"})
       \cup When("bassArea" \in sections /\ "premises" \notin sections,
                 {"bassAreaCheck"} \cup When(~d.bass.seen, {"misfiledAreaCheck"}))

\* canSendRoToCa
CanSendRoToCa(s) ==
  /\ s.stage = "PROCESSING_RO"
  /\ \/ s.bassReferralNeeded /\ s.bassAreaCheck = "DONE"
     \/ s.curfewAddressRejected
     \/ s.optedOut
     \/ AllComplete({s.review, s.victim}
                      \cup When(~s.approvedPremisesRequired, {s.risk})
                      \cup When(~s.useCvl, {s.hours, s.conditions, s.reporting}))
=============================================================================
