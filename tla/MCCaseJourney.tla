---------------------------- MODULE MCCaseJourney ----------------------------
(***************************************************************************)
(* Instances of CaseJourney for TLC: small sets of answers and the scopes, *)
(* one for each part of a case whose answers interact.                     *)
(***************************************************************************)
EXTENDS CaseJourney

CONSTANTS a1, a2, a3, a4 \* complete; the offender's own; incomplete; with a bad postcode

Passed == [consent |-> "Yes", electricity |-> "Yes"]
NoConsent == [consent |-> "No", electricity |-> "Yes"]
NoElectricity == [consent |-> "Yes", electricity |-> "No"]
NotAsked == [consent |-> "None", electricity |-> "No"]

Risk(version, suitable, manage, checks) ==
  [form |-> [version |-> version, planning |-> FALSE, awaiting |-> TRUE, consulted |-> TRUE],
   suitability |-> [suitable |-> suitable, manage |-> manage, checks |-> checks]]
LowRisk == Risk("2", "Yes", "None", "Yes")

Request(area, town) == [area |-> area, town |-> town]
Anywhere == Request("No", "None")
AreaCheck(suitable, reason, ap) == [suitable |-> suitable, reason |-> reason, ap |-> ap]
NoAreaToCheck == AreaCheck("None", FALSE, "No")
Offer(accepted, address) == [accepted |-> accepted, address |-> address]

\* The pages every scope uses: the case can get to a decision and back.
CoreForms == {"choice", "finalChecks", "consideration", "release", "send/finalChecks",
              "send/approval", "send/decided", "send/return", "send/resubmit"}

ReviewForms == CoreForms \cup
  {"curfewAddress", "reviewCurfewAddress", "send/addressReview", "approvedPremises",
   "curfewAddressReview", "risk", "send/addressRejected"}

RefusalForms == {"refuseReason", "send/refusal"}

Residence ==
  [forms |-> ReviewForms, choices |-> {"Address"}, addresses |-> {a1, a2}, aps |-> {"No"},
   reviews |-> {Passed}, risks |-> {LowRisk}, fills |-> {"Full"}, requests |-> {Anywhere},
   areaChecks |-> {NoAreaToCheck}, offers |-> {Offer("Yes", "None"), Offer("Yes", "Full")},
   eligible |-> TRUE, cvl |-> FALSE]

OneAddress == [Residence EXCEPT !.addresses = {a1}]

\* A residence that the review rejects, or the risk assessment, and the next one.
Rejected == [Residence EXCEPT !.forms = @ \cup RefusalForms \cup {"rejected"},
                              !.reviews = {Passed, NoConsent, NoElectricity}]
Unsuitable == [Residence EXCEPT !.forms = (@ \ {"send/resubmit"}) \cup RefusalForms
                                             \cup {"rejected"},
                                !.risks = {LowRisk, Risk("2", "No", "None", "No")}]

\* A residence withdrawn, reinstated, replaced.
Withdrawn == [Residence EXCEPT !.forms = @ \cup RefusalForms \cup {"address", "newAddress"}]

\* An offender who opts out after a withdrawal, and in again.
OptedOut == [OneAddress EXCEPT !.forms = @ \cup {"address", "newAddress"},
                               !.choices = {"OptOut", "Address"}]

\* Eligibility answered and changed at every stage that allows it.
Eligibility ==
  [OneAddress EXCEPT !.forms = @ \cup RefusalForms \cup
                       {"excluded", "suitability", "exceptional", "crdTime"},
                     !.eligible = FALSE]

\* Approved premises instead of a residence.
Premises == [OneAddress EXCEPT !.forms = @ \cup {"apAddress", "apChoice"},
                               !.choices = {"Address", "OptOut"}, !.aps = {"Yes", "No"},
                               !.fills = {"Part", "Full"}]

\* Conditions, reporting, victim liaison; once completed in another service.
Work == [OneAddress EXCEPT !.forms = @ \cup {"victim", "hours", "conditions", "reporting"},
                           !.addresses = {a1, a3, a4},
                           !.risks = {LowRisk, Risk("3", "Yes", "No", "Yes")}]
Elsewhere == [Work EXCEPT !.cvl = TRUE]

\* Work on a case with approved premises, and on one that changes between a
\* residence and CAS2 after the review: up to the case administrator.
Deciding == {"finalChecks", "consideration", "release"}
PremisesWork ==
  [Premises EXCEPT !.forms = (@ \ (Deciding \cup {"apChoice"}))
                                \cup {"victim", "hours", "conditions", "reporting"}]
Switched ==
  [OneAddress EXCEPT !.forms = (@ \ Deciding) \cup {"rejected", "bassRequest",
                                 "reviewBassRequest", "send/bassReview", "bassAreaCheck",
                                 "apAddress", "bassApAddress"},
                     !.choices = {"Address", "Bass"}, !.reviews = {Passed, NoConsent},
                     !.aps = {"Yes", "No"},
                     !.risks = {LowRisk, Risk("2", "No", "None", "No")},
                     !.requests = {Request("Yes", "Part")},
                     !.areaChecks = {NoAreaToCheck, AreaCheck("None", FALSE, "Yes")}]

\* A residence turned down for approved premises, and CAS2 instead of those.
TurnedDown ==
  [OneAddress EXCEPT !.forms = (@ \ (Deciding \cup {"risk", "send/addressRejected"})) \cup
                                 {"apAddress", "apChoice", "bassRequest", "reviewBassRequest",
                                  "send/bassReview"},
                     !.choices = {"Address", "Bass"}, !.reviews = {NotAsked},
                     !.aps = {"Yes", "No"}]

\* A reviewed residence is withdrawn, CAS2 decided on, the residence reinstated.
Reinstated ==
  [OneAddress EXCEPT !.forms = (@ \ {"send/resubmit", "send/return", "send/addressRejected",
                                     "approvedPremises"})
                                 \cup {"address", "newAddress", "bassRequest", "reviewBassRequest",
                                       "send/bassReview", "bassAreaCheck", "bassOffer",
                                       "bassWithdrawn"},
                     !.choices = {"Address", "Bass"}, !.offers = {Offer("Yes", "None")}]

\* A residence, or CAS2 with an offer that may be saved blank, and back.
Moved ==
  [OneAddress EXCEPT !.forms = (@ \ {"send/resubmit"}) \cup
                                 {"rejected", "bassRequest", "reviewBassRequest",
                                  "send/bassReview", "bassAreaCheck", "bassOffer"},
                     !.choices = {"Address", "Bass"}, !.offers = @ \cup {Offer("Blank", "None")}]

\* A referral whose area is found unsuitable, refused, returned, and followed by
\* another choice.
AreaReturned ==
  [OneAddress EXCEPT !.forms = (@ \ Deciding) \cup RefusalForms \cup
                                 {"bassRequest", "reviewBassRequest", "send/bassReview",
                                  "bassAreaCheck", "bassRejected", "send/bassAreaRejected"},
     !.choices = {"Address", "Bass"}, !.requests = {Request("Yes", "Full")},
     !.areaChecks = {AreaCheck("Yes", FALSE, "No"), AreaCheck("No", FALSE, "No")}]

\* A rejected residence of an offender whose eligibility is answered again.
Doubtful ==
  [OneAddress EXCEPT !.forms = (@ \ Deciding) \cup RefusalForms \cup
                                 {"excluded", "suitability", "exceptional", "crdTime"},
                     !.reviews = {Passed, NoConsent}]

\* A case that is postponed or refused.
Refused == [OneAddress EXCEPT !.forms = @ \cup RefusalForms \cup {"postpone", "refuse"}]

\* CAS2: the offer; the withdrawal; the area; approved premises instead.
Referral == [Residence EXCEPT !.choices = {"Bass"}, !.forms = CoreForms \cup
           {"bassRequest", "reviewBassRequest", "send/bassReview", "bassAreaCheck", "bassOffer"}]

BassOffered ==
  [Referral EXCEPT !.forms = @ \cup RefusalForms \cup {"bassUnsuitable"},
     !.offers = @ \cup {Offer("Blank", "None"), Offer("Unsuitable", "None"),
                        Offer("Unavailable", "None")}]
BassGivenUp ==
  [Referral EXCEPT !.forms = @ \cup {"bassWithdrawn"}, !.requests = {Anywhere, Request("Yes", "Full")},
     !.areaChecks = {NoAreaToCheck, AreaCheck("Yes", FALSE, "No")}]
BassRejected ==
  [Referral EXCEPT !.forms = @ \cup {"bassRejected", "send/bassAreaRejected", "risk"},
     !.risks = {LowRisk, Risk("2", "No", "None", "No")},
     !.requests = {Request("Yes", "Full"), Request("Yes", "None")},
     !.areaChecks = {AreaCheck("Yes", FALSE, "No"), AreaCheck("No", TRUE, "No"),
                     AreaCheck("No", FALSE, "No")}]
BassPremises ==
  [Referral EXCEPT !.forms = (@ \ {"send/resubmit"}) \cup {"bassApAddress", "bassApChoice"},
     !.areaChecks = {NoAreaToCheck, AreaCheck("None", FALSE, "Yes"), AreaCheck("None", FALSE, "None")}]

Residences == {Rejected, Unsuitable, Withdrawn, OptedOut, Premises}
Referrals == {BassOffered, BassGivenUp, BassRejected, BassPremises}
Journeys == Residences \cup Referrals
              \cup {Eligibility, Doubtful, Work, Elsewhere, Refused, PremisesWork}
              \cup {Switched, TurnedDown, Reinstated, Moved, AreaReturned}

\* For the violation: a residence unsuitable for reasons of risk, which are
\* taken back.
Reconsidered == {Unsuitable}
=============================================================================
