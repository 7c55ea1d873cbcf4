------------------------------ MODULE CaseLists ------------------------------
(***************************************************************************)
(* What the case list says of a case to each role: its status label, the   *)
(* tab it is on and the page its button leads to (licenceStatusLabels.js,  *)
(* caseListService.ts, caseListFormatter.js, views/caseList).              *)
(*                                                                         *)
(* "Approved" stands for "Licence created" too, and the decision maker's   *)
(* "Not started" for "Consider changes to offender's circumstances": they  *)
(* differ in wording only.  Labels are written here without their spaces.  *)
(***************************************************************************)
EXTENDS LicenceStatus

Roles == {"CA", "RO", "DM"}

\* The inactive labels.
Inactive == {"NotEligible", "PresumedUnsuitable", "NotEnoughTime", "OptedOut", "Refused",
             "CAS2OfferWithdrawn", "CAS2RequestWithdrawn"}

\* getLabel: the first label whose decision was taken.
FirstLabel(labels, otherwise) ==
  LET applying == {i \in DOMAIN labels : labels[i][1]}
  IN IF applying = {} THEN otherwise
     ELSE labels[CHOOSE i \in applying : \A j \in applying : i <= j][2]

UnsuitableResult(d) == d.suitability = "Yes" /\ d.exceptional = "No"

CaEligibilityLabel(d) ==
  FirstLabel(<< <<d.excluded = "Yes", "NotEligible">>,
                <<UnsuitableResult(d), "PresumedUnsuitable">>,
                <<d.crdTime \in {"Yes", "Continue", "Stop"}, "NotEnoughTime">>,
                <<d.optOut = "Yes", "OptedOut">>,
                <<BassReferralNeeded(d), "Eligible">>,
                <<CurfewAddressRejected(d), "AddressNotSuitable">>,
                <<Eligible(d), "Eligible">> >>, "NotStarted")

\* getBassWithdrawalState
BassWithdrawalReason(d) ==
  IF BassAreaCheckState(d) = "DONE" \/ BassRequestState(d) # "UNSTARTED" \/ d.bassRejections = <<>>
  THEN "none" ELSE d.bassRejections[Len(d.bassRejections)].withdrawal

\* commonLabels, addressRouteLabels.  The table asks for a decision
\* "curfewAddressWithdrawn" too, which no status has.
CommonLabel(d, otherwise) ==
  FirstLabel(<< <<d.refusal = "Yes", "Refused">>,
                <<d.postpone = "Yes", "Postponed">>,
                <<d.excluded = "Yes", "NotEligible">>,
                <<d.optOut = "Yes", "OptedOut">>,
                <<ApprovedPremisesRequired(d), "ApprovedPremises">> >>, otherwise)

AddressRouteLabel(d) ==
  FirstLabel(<< <<CurfewAddressRejected(d), "AddressNotSuitable">>,
                <<UnsuitableResult(d), "PresumedUnsuitable">>,
                <<InsufficientTimeStop(d), "NotEnoughTime">> >>, "AddressSuitable")

\* Mutant: the labels of the address route for a CAS2 case too.
CaProcessingLabel_OneRoute(d) == CommonLabel(d, AddressRouteLabel(d))

CaProcessingLabel(d) ==
  CommonLabel(d, IF BassReferralNeeded(d)
                 THEN FirstLabel(<< <<BassWithdrawalReason(d) = "offer", "CAS2OfferWithdrawn">>,
                                    <<BassWithdrawalReason(d) = "request", "CAS2RequestWithdrawn">> >>,
                                 "AddressSuitable")
                 ELSE AddressRouteLabel(d))

\* roProcessingLabel
RoProcessingLabel(d) ==
  LET started == {BassAreaCheckState(d), ReviewState(d), ApAddressState(d), FillState(d.hours),
                  FillState(d.conditions), RiskState(d), FillState(d.victim), FillState(d.reporting)}
  IN FirstLabel(<< <<d.optOut = "Yes", "OptedOut">>,
                   <<BassReferralNeeded(d) /\ BassAreaCheckState(d) = "UNSTARTED", "NotStarted">>,
                   <<BassReferralNeeded(d) /\ BassAreaNotSuitable(d), "CAS2AreaRejected">>,
                   <<started # {"UNSTARTED"}, "InProgress">> >>, "NotStarted")

\* caDecisionLabel, decisionLabel
DecisionLabel(role, stage, d) ==
  FirstLabel(<< <<role = "CA" /\ d.postpone = "Yes", "Postponed">>,
                <<Approved(stage, d), "Approved">>,
                <<d.release = "No" \/ d.refusal = "Yes", "Refused">> >>, "NotComplete")

\* The label of a case that is with the community, and of one with the prison.
WithCommunityLabel(role, d) ==
  CASE role = "RO" -> RoProcessingLabel(d)
    [] role = "CA" /\ d.optOut = "Yes" -> "OptedOut"
    [] OTHER -> "WithCommunityOffenderManager"

WithPrisonLabel(role, d) ==
  CASE role = "CA" -> CaProcessingLabel(d)
    [] role = "RO" /\ ~Eligible(d) -> "NotEligible"
    [] role \in {"RO", "DM"} /\ d.postpone = "Yes" -> "Postponed"
    [] OTHER -> "WithPrison"

\* getStatusLabel
Label(role, stage, d) ==
  CASE stage = "ELIGIBILITY" -> IF role = "CA" THEN CaEligibilityLabel(d) ELSE "WithPrison"
    [] stage = "PROCESSING_RO" -> WithCommunityLabel(role, d)
    [] stage = "PROCESSING_CA" -> WithPrisonLabel(role, d)
    [] stage = "APPROVAL" /\ role # "DM" -> "WithDecisionMaker"
    [] stage = "APPROVAL" /\ role = "DM" ->
         IF InsufficientTimeStop(d) THEN "AwaitingRefusal" ELSE "NotStarted"
    [] OTHER -> DecisionLabel(role, stage, d)

\* neededForRole
Shown(role, stage, d) ==
  CASE role = "CA" -> TRUE
    [] role = "RO" -> stage # "ELIGIBILITY"
    [] role = "DM" -> \/ stage \in {"APPROVAL"} \cup PostApproval
                      \/ stage = "PROCESSING_CA" /\ Label("DM", stage, d) = "Postponed"

\* getHdcCaseList
OnTab(role, stage, d) ==
  IF ~Shown(role, stage, d) THEN "none"
  ELSE IF Label(role, stage, d) \in Inactive THEN "inactive" ELSE "active"

\* The button of a row: CATable.pug, ROTable.pug, DMTable.pug.
RowLeadsTo(role, stage) ==
  CASE role = "CA" /\ stage \in {"PROCESSING_RO", "APPROVAL"} -> "review"
    [] role = "RO" /\ stage \in {"PROCESSING_CA", "APPROVAL"} -> "review"
    [] role = "DM" /\ stage \in PostApproval -> "review"
    [] role = "DM" /\ stage \notin PostApproval \cup {"APPROVAL"} -> "none"
    [] OTHER -> "taskList"
=============================================================================
