------------------------- MODULE CaseJourney_proofs -------------------------
(***************************************************************************)
(* Proofs about CaseJourney: its types, who can have an approved licence,  *)
(* where a printed one says the offender lives, what the case lists say of *)
(* a case, and the records of addresses and referrals given up.  The       *)
(* inductive invariant IInv joins three facts to the types: which stages a *)
(* page on the screen can belong to (PageInv), that a case which is not    *)
(* eligible has no decision that is not a refusal (EligibleInv), and that  *)
(* an address which passed its review is in the document (AddressInv).     *)
(* The printed address needs a fourth, BassInv, and the lists a fifth,     *)
(* OptInv.                                                                 *)
(***************************************************************************)
EXTENDS CaseJourney, TLAPS

USE DEF Answer, Fill

LEMMA SeqFacts ==
  ASSUME NEW S, NEW q \in Seq(S), NEW e \in S
  PROVE  /\ Append(q, e) \in Seq(S)
         /\ Front(Append(q, e)) = q
         /\ Len(Append(q, e)) = Len(q) + 1
         /\ Append(q, e)[Len(q) + 1] = e
         /\ q # <<>> => Front(q) \in Seq(S) /\ q[Len(q)] \in S
BY DEF Front

LEMMA EmptyDocType == EmptyDoc \in Doc
<1>1. NoReview \in Review /\ NoRiskForm \in RiskForm /\ NoSuitability \in Suitability /\ NoBass \in Bass
  BY DEF NoReview, Review, NoRiskForm, RiskForm, NoSuitability, Suitability, NoBass, Bass
<1>2. <<>> \in Seq(Rejection) /\ <<>> \in Seq(BassRejection)
  OBVIOUS
<1> QED
  BY <1>1, <1>2 DEF EmptyDoc, Doc

LEMMA CrdTimeType ==
  ASSUME NEW d \in Doc, NEW a \in {"None", "No", "Yes", "Continue", "Stop"}
  PROVE  [d EXCEPT !.crdTime = a] \in Doc
BY DEF Doc

\* An answer can be put in the place of another.
LEMMA AnswerTypes ==
  ASSUME NEW d \in Doc, NEW a \in Answer
  PROVE  /\ [d EXCEPT !.excluded = a] \in Doc
         /\ [d EXCEPT !.suitability = a] \in Doc
         /\ [d EXCEPT !.optOut = a] \in Doc
         /\ [d EXCEPT !.addressProposed = a] \in Doc
         /\ [d EXCEPT !.ap = a] \in Doc
<1>1. [d EXCEPT !.excluded = a] \in Doc
  BY DEF Doc
<1>2. [d EXCEPT !.suitability = a] \in Doc
  BY DEF Doc
<1>3. [d EXCEPT !.optOut = a] \in Doc
  BY DEF Doc
<1>4. [d EXCEPT !.addressProposed = a] \in Doc
  BY DEF Doc
<1>5. [d EXCEPT !.ap = a] \in Doc
  BY DEF Doc
<1> QED
  BY <1>1, <1>2, <1>3, <1>4, <1>5

LEMMA EligibleType ==
  ASSUME NEW d \in Doc
  PROVE  [d EXCEPT !.excluded = "No", !.suitability = "No", !.crdTime = "No"] \in Doc
<1> "No" \in Answer
  OBVIOUS
<1>1. [d EXCEPT !.excluded = "No"] \in Doc
  BY AnswerTypes, Zenon
<1>2. [d EXCEPT !.excluded = "No", !.suitability = "No"] \in Doc
  BY <1>1, AnswerTypes, Zenon
<1> QED
  BY <1>2, CrdTimeType, Zenon

LEMMA TypeInit == Init => TypeOK
<1> SUFFICES ASSUME Init PROVE TypeOK
  OBVIOUS
<1>2. doc \in Doc
  BY EligibleType, EmptyDocType DEF Init
<1> QED
  BY <1>2 DEF Init, TypeOK, Stages, Landings

LEMMA PutType ==
  ASSUME NEW d \in Doc, NEW r \in Review, NEW s \in Suitability, NEW a \in Addresses \cup {NoAddress}
  PROVE  Put(d, r, s, a) \in Doc
BY DEF Put, Doc

\* Put leaves the lists of what was given up alone.
LEMMA PutLists ==
  ASSUME NEW d \in Doc, NEW r, NEW s, NEW a
  PROVE  Put(d, r, s, a).rejections = d.rejections
BY Zenon DEF Put, Doc

LEMMA RejectionsType ==
  ASSUME NEW d \in Doc, NEW q \in Seq(Rejection)
  PROVE  [d EXCEPT !.rejections = q] \in Doc
BY DEF Doc

LEMMA RejectType ==
  ASSUME NEW d \in Doc, NEW reason \in {"none", "withdrawAddress", "withdrawConsent"}
  PROVE  Reject(d, reason) \in Doc
<1> DEFINE e == [address |-> d.address, review |-> d.review, suitability |-> d.suitable,
                 withdrawal |-> reason]
<1>1. e \in Rejection
  BY DEF Doc, Rejection
<1>2. d.rejections \in Seq(Rejection)
  BY DEF Doc
<1>3. Append(d.rejections, e) \in Seq(Rejection)
  BY <1>1, <1>2, SeqFacts
<1>4. Put(d, NoReview, NoSuitability, NoAddress) \in Doc
  BY PutType DEF NoReview, Review, NoSuitability, Suitability
<1>5. Put(d, NoReview, NoSuitability, NoAddress).rejections = d.rejections
  BY PutLists, Zenon
<1> HIDE DEF e
<1>6. Reject(d, reason) = [Put(d, NoReview, NoSuitability, NoAddress) EXCEPT
                             !.rejections = Append(d.rejections, e)]
  BY <1>5, Zenon DEF Reject, e
<1> QED
  BY <1>3, <1>4, <1>6, RejectionsType, Zenon

LEMMA ReinstateType ==
  ASSUME NEW d \in Doc, d.rejections # <<>>
  PROVE  Reinstate(d) \in Doc
<1> DEFINE r == d.rejections[Len(d.rejections)]
           s == [suitable |-> Over(r.suitability.suitable, d.suitable.suitable, "None"),
                 manage |-> Over(r.suitability.manage, d.suitable.manage, "None"),
                 checks |-> Over(r.suitability.checks, d.suitable.checks, "None")]
           p == Put(d, Over(r.review, d.review, NoReview), s, Over(r.address, d.address, NoAddress))
<1>1. d.rejections \in Seq(Rejection) /\ d.suitable \in Suitability /\ d.review \in Review
      /\ d.address \in Addresses \cup {NoAddress}
  BY DEF Doc
<1>2. r \in Rejection /\ Front(d.rejections) \in Seq(Rejection)
  BY <1>1, SeqFacts
<1>3. s \in Suitability
  BY <1>1, <1>2 DEF Rejection, Suitability, Over
<1>4. p \in Doc
  BY <1>1, <1>2, <1>3, PutType DEF Rejection, Over
<1> HIDE DEF r, s
<1>5. p.rejections = d.rejections
  BY PutLists, Zenon
<1> HIDE DEF p
<1>6. Reinstate(d) = [p EXCEPT !.rejections = Front(d.rejections)]
  BY <1>5, Zenon DEF Reinstate, p, r, s
<1> QED
  BY <1>2, <1>4, <1>6, RejectionsType, Zenon

LEMMA BassUpdateType ==
  ASSUME NEW d \in Doc, NEW b \in Bass
  PROVE  [d EXCEPT !.bass = b] \in Doc
BY DEF Doc

LEMMA DeactivateType ==
  ASSUME NEW d \in Doc, NEW a \in Answer, NEW reason \in {"none", "offer", "request"}
  PROVE  DeactivateBass(d, a, reason) \in Doc
<1> DEFINE e == [bass |-> d.bass, withdrawal |-> reason]
           b == [NoBass EXCEPT !.exists = TRUE, !.requested = a]
<1>1. e \in BassRejection /\ d.bassRejections \in Seq(BassRejection)
  BY DEF Doc, BassRejection
<1>2. Append(d.bassRejections, e) \in Seq(BassRejection)
  BY <1>1, SeqFacts
<1>3. b \in Bass
  BY DEF NoBass, Bass
<1> HIDE DEF e, b
<1>4. [d EXCEPT !.bass = b, !.bassRejections = Append(@, e)] \in Doc
  BY <1>2, <1>3 DEF Doc
<1>5. CASE d.bass.exists
  BY <1>4, <1>5, Zenon DEF DeactivateBass, b, e
<1>6. CASE ~d.bass.exists
  BY <1>6, Zenon DEF DeactivateBass
<1> QED
  BY <1>5, <1>6

LEMMA ReinstateBassType ==
  ASSUME NEW d \in Doc, d.bassRejections # <<>>
  PROVE  ReinstateBass(d) \in Doc
<1>1. d.bassRejections \in Seq(BassRejection)
  BY DEF Doc
<1>2. /\ d.bassRejections[Len(d.bassRejections)] \in BassRejection
      /\ Front(d.bassRejections) \in Seq(BassRejection)
  BY <1>1, SeqFacts
<1> QED
  BY <1>2 DEF ReinstateBass, Doc, BassRejection

LEMMA StageType ==
  ASSUME NEW st \in Stages, NEW approval \in BOOLEAN
  PROVE  ModifiedStage(st, approval) \in Stages
BY DEF ModifiedStage, Stages

\* A step that goes through Update or Write keeps the types when the new
\* document has its type.
LEMMA UpdateType ==
  ASSUME TypeOK, NEW d \in Doc, NEW next \in Landings,
         NEW approval \in BOOLEAN,
         Update(d, next, approval) \/ Write(d, next)
  PROVE  TypeOK'
BY StageType DEF Update, Write, TypeOK

\* What the answers of a scope are.
LEMMA ScopeTypes ==
  ASSUME TypeOK
  PROVE  /\ scope.addresses \subseteq Addresses /\ scope.aps \subseteq Answer
         /\ scope.reviews \subseteq [consent : Answer, electricity : Answer]
         /\ scope.risks \subseteq [form : RiskForm, suitability : Suitability]
         /\ scope.requests \subseteq [area : Answer, town : Fill]
         /\ scope.areaChecks \subseteq [suitable : Answer, reason : BOOLEAN, ap : Answer]
         /\ scope.offers \subseteq [accepted : {"Blank", "Yes", "Unsuitable", "Unavailable"},
                                   address : Fill]
         /\ scope.fills \subseteq {"Part", "Full"}
<1>1. scope \in Scopes
  BY DEF TypeOK
<1> QED
  BY <1>1, ScopeAssumption

LEMMA CaType == ASSUME TypeOK, CaSteps PROVE TypeOK'
<1>0. doc \in Doc /\ scope \in Scopes /\ stage \in Stages
  BY DEF TypeOK
<1>1. ASSUME NEW a \in Answer, Excluded(a) PROVE TypeOK'
  <2>1. [doc EXCEPT !.excluded = a] \in Doc
    BY <1>0 DEF Doc
  <2> QED
    BY <1>1, <2>1, UpdateType DEF Excluded, Landings
<1>2. ASSUME NEW a \in Answer, Suitable(a) PROVE TypeOK'
  <2>1. [doc EXCEPT !.suitability = a] \in Doc
    BY <1>0 DEF Doc
  <2> QED
    BY <1>2, <2>1, UpdateType DEF Suitable, Landings
<1>3. ASSUME NEW a \in Answer, Exceptional(a) PROVE TypeOK'
  <2>1. [doc EXCEPT !.exceptional = a] \in Doc
    BY <1>0 DEF Doc
  <2> QED
    BY <1>3, <2>1, UpdateType DEF Exceptional, Landings
<1>4. ASSUME NEW a \in {"No", "Yes", "Continue", "Stop"}, CrdTime(a) PROVE TypeOK'
  <2>1. [doc EXCEPT !.crdTime = a] \in Doc
    BY <1>0, CrdTimeType
  <2> QED
    BY <1>4, <2>1, UpdateType DEF CrdTime, Landings
<1>5. ASSUME NEW c \in scope.choices, Choose(c) PROVE TypeOK'
  <2>1. ASSUME NEW d \in Doc, NEW a \in Answer, NEW b \in Answer
        PROVE  [d EXCEPT !.optOut = a, !.addressProposed = b] \in Doc
    BY AnswerTypes, Zenon
  <2>2. ASSUME NEW b \in Bass, NEW a \in Answer
        PROVE  [b EXCEPT !.exists = TRUE, !.requested = a] \in Bass
    BY Zenon DEF Bass
  <2>3. doc.bass \in Bass
    BY <1>0 DEF Doc
  <2>4. doc' \in Doc
    BY <1>0, <1>5, <2>1, <2>2, <2>3, BassUpdateType, Zenon DEF Choose
  <2>5. page' \in Landings
    BY <1>5 DEF Choose, Landings
  <2> QED
    BY <1>5, <2>4, <2>5 DEF Choose, TypeOK
<1>6. ASSUME NEW a \in scope.addresses, EnterAddress(a) PROVE TypeOK'
  <2>1. a \in Addresses
    BY ScopeTypes
  <2>2. [doc EXCEPT !.address = a] \in Doc
    BY <1>0, <2>1 DEF Doc
  <2> QED
    BY <1>6, <2>2, UpdateType DEF EnterAddress, Landings
<1>7. ASSUME NEW b \in BOOLEAN, AnswerRejected(b) PROVE TypeOK'
  BY <1>0, <1>7, RejectType, UpdateType DEF AnswerRejected, Landings
<1>8. ASSUME NEW b \in BOOLEAN, NewAddress(b) \/ NewBass(b) PROVE TypeOK'
  BY <1>0, <1>8, UpdateType DEF NewAddress, NewBass, Landings
<1>9. ASSUME NEW r \in {"withdrawAddress", "withdrawConsent"}, Withdraw(r) PROVE TypeOK'
  BY <1>0, <1>9, RejectType, UpdateType DEF Withdraw, Landings
<1>10. ASSUME ReinstateAddress PROVE TypeOK'
  BY <1>0, <1>10, ReinstateType, UpdateType DEF ReinstateAddress, AddressGivenUp, Landings
<1>11. ASSUME NEW c \in {"OptOut", "ApprovedPremises"}, ChooseApprovedPremises(c) PROVE TypeOK'
  <2>1. ASSUME NEW a \in Answer, NEW b \in Answer
        PROVE  [doc EXCEPT !.ap = a, !.optOut = b] \in Doc
    BY <1>0, AnswerTypes, Zenon
  <2> QED
    BY <1>11, <2>1, UpdateType DEF ChooseApprovedPremises, Landings
<1>12. ASSUME NEW c \in {"OptOut", "ApprovedPremises"}, ChooseBassApprovedPremises(c) PROVE TypeOK'
  <2>1. ASSUME NEW b \in Answer
        PROVE  [doc EXCEPT !.bass.exists = TRUE, !.optOut = b] \in Doc
    <3>1. [doc.bass EXCEPT !.exists = TRUE] \in Bass
      BY <1>0 DEF Doc, Bass
    <3>2. [doc EXCEPT !.bass.exists = TRUE] \in Doc
      BY <1>0, <3>1, BassUpdateType, Zenon
    <3> QED
      BY <3>2, AnswerTypes, Zenon
  <2> QED
    BY <1>12, <2>1, UpdateType DEF ChooseBassApprovedPremises, Landings
<1>13. ASSUME NEW a \in scope.requests, RequestBass(a) PROVE TypeOK'
  <2>1. a \in [area : Answer, town : Fill] /\ doc.bass \in Bass
    BY <1>0, ScopeTypes DEF Doc
  <2>2. [doc.bass EXCEPT !.exists = TRUE, !.specificArea = a.area, !.town = a.town] \in Bass
    BY <2>1 DEF Bass
  <2>3. [doc EXCEPT !.bass = [@ EXCEPT !.exists = TRUE, !.specificArea = a.area, !.town = a.town]] \in Doc
    BY <1>0, <2>2, BassUpdateType
  <2> QED
    BY <1>13, <2>3, UpdateType DEF RequestBass, Landings
<1>14. ASSUME NEW p \in {"bassRejected", "bassUnsuitable"}, NEW a \in Answer, AnswerBassRejected(p, a)
       PROVE  TypeOK'
  BY <1>0, <1>14, DeactivateType, UpdateType DEF AnswerBassRejected, Landings
<1>15. ASSUME NEW a \in scope.offers, OfferBass(a) PROVE TypeOK'
  <2>1. a \in [accepted : {"Blank", "Yes", "Unsuitable", "Unavailable"}, address : Fill]
        /\ doc.bass \in Bass
    BY <1>0, ScopeTypes DEF Doc
  <2>2. [doc.bass EXCEPT !.exists = TRUE, !.accepted = a.accepted, !.offerAddress = a.address] \in Bass
    <3>1. ASSUME NEW b \in Bass PROVE [b EXCEPT !.exists = TRUE] \in Bass
      BY DEF Bass
    <3>2. ASSUME NEW b \in Bass, NEW x \in {"Blank", "Yes", "Unsuitable", "Unavailable"}
          PROVE  [b EXCEPT !.accepted = x] \in Bass
      BY DEF Bass
    <3>3. ASSUME NEW b \in Bass, NEW f \in Fill PROVE [b EXCEPT !.offerAddress = f] \in Bass
      BY DEF Bass
    <3>4. a.accepted \in {"Blank", "Yes", "Unsuitable", "Unavailable"} /\ a.address \in Fill
      BY <2>1
    <3> QED
      BY <2>1, <3>1, <3>2, <3>3, <3>4, Zenon
  <2>3. [doc EXCEPT !.bass = [@ EXCEPT !.exists = TRUE, !.accepted = a.accepted,
                                       !.offerAddress = a.address]] \in Doc
    BY <1>0, <2>2, BassUpdateType
  <2> QED
    BY <1>15, <2>3, UpdateType DEF OfferBass, Landings
<1>16. ASSUME NEW w \in {"offer", "request"}, WithdrawBass(w) PROVE TypeOK'
  BY <1>0, <1>16, DeactivateType, UpdateType DEF WithdrawBass, Landings
<1>17. ASSUME ReinstateReferral PROVE TypeOK'
  <2>1. doc.bassRejections # <<>>
    BY <1>17 DEF ReinstateReferral, Status, StatusOf, BassWithdrawn
  <2> QED
    BY <1>0, <1>17, <2>1, ReinstateBassType, UpdateType DEF ReinstateReferral, Landings
<1>18. ASSUME NEW a \in Answer \ {"None"}, Postpone(a) \/ Refuse(a) PROVE TypeOK'
  <2>1. [doc EXCEPT !.postpone = a] \in Doc /\ [doc EXCEPT !.refusal = a] \in Doc
    BY <1>0 DEF Doc
  <2> QED
    BY <1>18, <2>1, UpdateType DEF Postpone, Refuse, Landings
<1> QED
  BY <1>1, <1>2, <1>3, <1>4, <1>5, <1>6, <1>7, <1>8, <1>9, <1>10, <1>11, <1>12, <1>13, <1>14,
     <1>15, <1>16, <1>17, <1>18 DEF CaSteps

LEMMA SharedType == ASSUME TypeOK, SharedSteps PROVE TypeOK'
<1>0. doc \in Doc /\ doc.bass \in Bass
  BY DEF TypeOK, Doc
<1>1. ASSUME NEW a \in scope.aps, ApprovedPremises(a) PROVE TypeOK'
  <2>1. [doc EXCEPT !.ap = a] \in Doc
    BY <1>0, ScopeTypes DEF Doc
  <2> QED
    BY <1>1, <2>1, UpdateType DEF ApprovedPremises, Landings
<1>2. ASSUME NEW f \in scope.fills, ApAddress(f) PROVE TypeOK'
  <2>1. f \in Fill
    BY ScopeTypes
  <2>2. [doc.bass EXCEPT !.exists = TRUE, !.apAddress = f] \in Bass
    BY <1>0, <2>1 DEF Bass
  <2>3. [doc EXCEPT !.bass = [@ EXCEPT !.exists = TRUE, !.apAddress = f]] \in Doc
    BY <1>0, <2>2, BassUpdateType
  <2>4. [doc EXCEPT !.apAddress = f] \in Doc
    BY <1>0, <2>1 DEF Doc
  <2> QED
    BY <1>2, <2>3, <2>4, UpdateType DEF ApAddress, Landings
<1>3. ASSUME NEW a \in scope.reviews, ReviewAddress(a) PROVE TypeOK'
  <2>1. doc.address \in Addresses \cup {NoAddress}
    BY <1>0 DEF Doc
  <2>2. [consent |-> a.consent, electricity |-> a.electricity, of |-> doc.address] \in Review
    BY <2>1, ScopeTypes DEF Review
  <2>3. ASSUME NEW r \in Review PROVE [doc EXCEPT !.review = r] \in Doc
    BY <1>0 DEF Doc
  <2> QED
    BY <1>3, <2>2, <2>3, UpdateType DEF ReviewAddress, Landings
<1>4. ASSUME NEW a \in scope.risks, AssessRisk(a) PROVE TypeOK'
  <2>1. a.form \in RiskForm /\ a.suitability \in Suitability
    BY ScopeTypes
  <2>2. [doc EXCEPT !.risk = a.form, !.suitable = a.suitability] \in Doc
    BY <1>0, <2>1 DEF Doc
  <2> QED
    BY <1>4, <2>2, UpdateType DEF AssessRisk, Landings
<1>5. ASSUME NEW a \in scope.areaChecks, CheckBassArea(a) PROVE TypeOK'
  <2>1. a \in [suitable : Answer, reason : BOOLEAN, ap : Answer]
    BY ScopeTypes
  <2>2. [doc.bass EXCEPT !.exists = TRUE, !.suitable = a.suitable, !.reason = a.reason,
                         !.seen = TRUE, !.ap = a.ap] \in Bass
    BY <1>0, <2>1 DEF Bass
  <2>3. [doc EXCEPT !.bass = [@ EXCEPT !.exists = TRUE, !.suitable = a.suitable,
                                       !.reason = a.reason, !.seen = TRUE, !.ap = a.ap]] \in Doc
    BY <1>0, <2>2, BassUpdateType
  <2> QED
    BY <1>5, <2>3, UpdateType DEF CheckBassArea, Landings
<1>6. ASSUME VictimLiaison \/ CurfewHours PROVE TypeOK'
  <2>1. [doc EXCEPT !.victim = "Full"] \in Doc /\ [doc EXCEPT !.hours = "Full"] \in Doc
    BY <1>0 DEF Doc
  <2> QED
    BY <1>6, <2>1, UpdateType DEF VictimLiaison, CurfewHours, Landings
<1>7. ASSUME NEW f \in scope.fills,
             AdditionalConditions(f) \/ ReportingInstructions(f) \/ FinalChecks(f)
      PROVE  TypeOK'
  <2>1. f \in Fill
    BY ScopeTypes
  <2>2. [doc EXCEPT !.conditions = f] \in Doc
    BY <1>0, <2>1 DEF Doc
  <2>3. [doc EXCEPT !.reporting = f] \in Doc
    BY <1>0, <2>1 DEF Doc
  <2>4. [doc EXCEPT !.checks = f] \in Doc
    BY <1>0, <2>1 DEF Doc
  <2> QED
    BY <1>7, <2>2, <2>3, <2>4, UpdateType DEF AdditionalConditions, ReportingInstructions, FinalChecks, Landings
<1> QED
  BY <1>1, <1>2, <1>3, <1>4, <1>5, <1>6, <1>7 DEF SharedSteps

LEMMA DecisionType == ASSUME TypeOK, DmSteps \/ \E d \in Destinations : Send(d) PROVE TypeOK'
<1>0. doc \in Doc
  BY DEF TypeOK
<1>1. ASSUME NEW a \in Answer PROVE [doc EXCEPT !.release = a] \in Doc
  BY <1>0 DEF Doc
<1>2. CASE Consider \/ RefuseReason
  BY <1>0, <1>1, <1>2, UpdateType DEF Consider, RefuseReason, Landings
<1>3. ASSUME NEW a \in Answer, Release(a) PROVE TypeOK'
  <2>1. doc' \in Doc
    BY <1>0, <1>1, <1>3 DEF Release
  <2>2. doc.address \in Addresses \cup {NoAddress}
    BY <1>0 DEF Doc
  <2> QED
    BY <1>3, <2>1, <2>2 DEF Release, TypeOK, Landings
<1>4. ASSUME NEW d \in Destinations, Send(d) PROVE TypeOK'
  <2>1. doc' \in Doc
    BY <1>0, <1>1, <1>4 DEF Send
  <2> QED
    BY <1>4, <2>1 DEF Send, NewStage, TypeOK, Stages, Landings
<1> QED
  BY <1>2, <1>3, <1>4 DEF DmSteps

\* Every variable keeps its type, whatever the scopes are.
THEOREM TypeCorrect == Spec => []TypeOK
<1>1. ASSUME TypeOK, [Next]_vars PROVE TypeOK'
  <2>1. CASE UNCHANGED vars
    BY <1>1, <2>1 DEF vars, TypeOK
  <2> QED
    BY <1>1, <2>1, CaType, SharedType, DecisionType DEF Next
<1> QED
  BY <1>1, TypeInit, PTL DEF Spec

-----------------------------------------------------------------------------
(* PrintNeedsAddress: a matter of the definitions the task list is made of.  *)

\* Only the last task of the post-approval list prints a licence.
LEMMA PrintTask ==
  ASSUME NEW s, s.stage \in Stages, "createLicence" \in TaskListPages(s)
  PROVE  CreateLicenceOffered(s)
<1>1. "createLicence" \notin CaEligibilityPages(s)
  BY DEF CaEligibilityPages, EligibilityPages, CurfewAddressPage, When, SubmitPages, ReviewPage
<1>2. "createLicence" \notin CaProcessingPages(s)
  <2>1. "createLicence" \notin WorkPages(s) /\ "createLicence" \notin SubmitPages(s)
        /\ "createLicence" \notin ReviewPage(s)
    BY DEF WorkPages, SubmitPages, ReviewPage, When
  <2>2. /\ "createLicence" # BassAddressPage(s)
        /\ "createLicence" # ProposedAddressPage(s)
        /\ "createLicence" # CurfewAddressPage(s)
    BY DEF BassAddressPage, ProposedAddressPage, CurfewAddressPage
  <2> QED
    BY <2>1, <2>2 DEF CaProcessingPages, EligibilityPages, When
<1>3. ASSUME "createLicence" \in CaPostApprovalPages(s) PROVE CreateLicenceOffered(s)
  <2>1. "createLicence" \notin WorkPages(s) /\ "createLicence" \notin SubmitPages(s)
        /\ "createLicence" \notin ReviewPage(s)
    BY DEF WorkPages, SubmitPages, ReviewPage, When
  <2>2. /\ "createLicence" # BassAddressPage(s)
        /\ "createLicence" # ProposedAddressPage(s)
        /\ "createLicence" # CurfewAddressPage(s)
    BY DEF BassAddressPage, ProposedAddressPage, CurfewAddressPage
  <2> QED
    BY <1>3, <2>1, <2>2 DEF CaPostApprovalPages, When
<1>4. "createLicence" \notin RoPages(s)
  BY DEF RoPages, SubmitToCaPage, When
<1>5. "createLicence" \notin DmPages(s)
  BY DEF DmPages
<1> QED
  BY <1>1, <1>2, <1>3, <1>4, <1>5 DEF TaskListPages, Stages, PostApproval

-----------------------------------------------------------------------------
(* Where a case can be: what the page on the screen and the answers in the   *)
(* document say of each other and of the stage.                              *)

EligibilityForms == {"excluded", "suitability", "exceptional", "crdTime"}

\* Forms only the case administrator reaches.
CaForms == EligibilityForms \cup
  {"choice", "curfewAddress", "rejected", "address", "newAddress", "apChoice", "bassApChoice",
   "bassRequest", "bassRejected", "bassUnsuitable", "bassOffer", "bassWithdrawn",
   "reviewCurfewAddress", "reviewBassRequest"}

PageInv ==
  /\ page \in CaForms => stage \notin {"PROCESSING_RO", "APPROVAL"}
  /\ page \in EligibilityForms => stage \in {"ELIGIBILITY", "PROCESSING_CA"}
  /\ page \in {"apAddress", "bassApAddress"} => stage # "APPROVAL"
  /\ page = "bassAreaCheck" => stage = "PROCESSING_RO"
  /\ page = "curfewAddressReview" => stage = "PROCESSING_RO" /\ doc.address # NoAddress
  /\ page = "release" => stage = "APPROVAL" /\ Eligible(doc)
  /\ page = "send/decided" => stage = "APPROVAL" /\ (doc.release = "Yes" => Eligible(doc))

EligibleInv ==
  /\ stage = "APPROVAL" => Eligible(doc) \/ InsufficientTimeStop(doc)
  /\ stage \in PostApproval /\ doc.release = "Yes" => Eligible(doc)

Reviewed(r) == r.address = NoAddress => r.review = NoReview

AddressInv ==
  /\ Reviewed(doc)
  /\ \A i \in DOMAIN doc.rejections : Reviewed(doc.rejections[i])
  /\ stage = "PROCESSING_RO" /\ ~BassReferralNeeded(doc) => doc.address # NoAddress

IInv == TypeOK /\ PageInv /\ EligibleInv /\ AddressInv

-----------------------------------------------------------------------------
(* What is within reach at each stage. *)

LinkSources == {"address", "newAddress", "bassOffer", "bassWithdrawn", "reviewCurfewAddress",
                "reviewBassRequest"}
LinkTargets == {"curfewAddress", "address", "bassRequest", "bassOffer", "send/addressReview",
                "send/bassReview"}

LEMMA Links ==
  ASSUME NEW q, NEW p \in LinksOf(q)
  PROVE  /\ q \in LinkSources /\ p \in LinkTargets
         /\ p = "send/addressReview" => q = "reviewCurfewAddress" /\ ~ErrorsOnPage
         /\ p = "send/bassReview" => q = "reviewBassRequest" /\ ~ErrorsOnPage
BY DEF LinksOf, LinkSources, LinkTargets, When

\* A page within reach is on the task list, is the one on the screen, or is
\* the target of a link of one that is.
LEMMA Within ==
  ASSUME NEW p \in Reach
  PROVE  \/ p \in TaskListPages(Status) \cup {page}
         \/ /\ p \in LinkTargets
            /\ (TaskListPages(Status) \cup {page}) \cap LinkSources # {}
            /\ p = "send/addressReview" =>
                 "reviewCurfewAddress" \in TaskListPages(Status) \cup {page} /\ ~ErrorsOnPage
            /\ p = "send/bassReview" =>
                 "reviewBassRequest" \in TaskListPages(Status) \cup {page} /\ ~ErrorsOnPage
<1> DEFINE T == TaskListPages(Status) \cup {page}
<1> HIDE DEF T
<1>1. p \in WithLinks(WithLinks(T))
  BY DEF Reach, T
<1>2. ASSUME NEW q \in T, NEW r \in LinksOf(q)
      PROVE  r \in LinkTargets /\ T \cap LinkSources # {}
  BY <1>2, Links
<1>3. CASE p \in WithLinks(T)
  <2>1. p \in T \/ \E q \in T : p \in LinksOf(q)
    BY <1>3 DEF WithLinks
  <2> QED
    BY <2>1, <1>2, Links DEF T
<1>4. ASSUME NEW q \in WithLinks(T), p \in LinksOf(q)
      PROVE  /\ p \in LinkTargets /\ T \cap LinkSources # {}
             /\ p = "send/addressReview" => "reviewCurfewAddress" \in T /\ ~ErrorsOnPage
             /\ p = "send/bassReview" => "reviewBassRequest" \in T /\ ~ErrorsOnPage
  <2>1. q \in T \/ \E r \in T : q \in LinksOf(r)
    BY DEF WithLinks
  <2>2. T \cap LinkSources # {}
    BY <2>1, <1>2, <1>4, Links
  <2>3. q \in {"reviewBassRequest", "reviewCurfewAddress"} => q \in T
    BY <2>1, <1>2 DEF LinkTargets
  <2> QED
    BY <1>4, <2>2, <2>3, Links
<1> QED
  BY <1>1, <1>3, <1>4 DEF WithLinks, T

LEMMA StatusFields ==
  /\ Status.stage = stage
  /\ Status.eligible = Eligible(doc)
  /\ Status.insufficientTimeStop = InsufficientTimeStop(doc)
  /\ Status.bassReferralNeeded = BassReferralNeeded(doc)
  /\ Status.addressReviewFailed = (SeesRo(stage) /\ AddressReviewFailed(doc))
BY DEF Status, StatusOf

LEMMA RoTasks ==
  ASSUME NEW s
  PROVE  /\ RoPages(s) \subseteq
              {"send/optedOut", "send/addressRejected", "send/bassAreaRejected", "send/finalChecks",
               "bassAreaCheck", "approvedPremises", "risk", "victim", "hours", "conditions",
               "reporting"}
         /\ "approvedPremises" \in RoPages(s) => ~s.bassReferralNeeded \/ s.addressReviewFailed
BY DEF RoPages, SubmitToCaPage, When

LEMMA DmTasks ==
  ASSUME NEW s
  PROVE  /\ DmPages(s) \subseteq {"refuseReason", "consideration", "send/return"}
         /\ "consideration" \in DmPages(s) => ~s.insufficientTimeStop
BY DEF DmPages

\* The tasks of the case administrator, whatever the status.
LEMMA CaPages ==
  ASSUME NEW s
  PROVE  /\ SubmitPages(s) \subseteq {"send/approval", "send/refusal"}
         /\ ReviewPage(s) \subseteq {"reviewBassRequest", "reviewCurfewAddress"}
         /\ "reviewBassRequest" \in ReviewPage(s) => s.bassReferralNeeded
         /\ "reviewCurfewAddress" \in ReviewPage(s) => ~s.bassReferralNeeded
         /\ WorkPages(s) \subseteq {"victim", "finalChecks", "hours", "conditions", "reporting"}
         /\ CurfewAddressPage(s) \in {"rejected", "bassRejected", "choice"}
         /\ ProposedAddressPage(s) \in {"choice", "apChoice", "address", "newAddress"}
         /\ BassAddressPage(s) \in {"bassApChoice", "bassOffer", "choice"}
<1>1. SubmitPages(s) \subseteq {"send/approval", "send/refusal"}
  BY DEF SubmitPages, When
<1>2. /\ ReviewPage(s) \subseteq {"reviewBassRequest", "reviewCurfewAddress"}
      /\ "reviewBassRequest" \in ReviewPage(s) => s.bassReferralNeeded
      /\ "reviewCurfewAddress" \in ReviewPage(s) => ~s.bassReferralNeeded
  BY DEF ReviewPage, When
<1>3. WorkPages(s) \subseteq {"victim", "finalChecks", "hours", "conditions", "reporting"}
  BY DEF WorkPages, When
<1>4. /\ CurfewAddressPage(s) \in {"rejected", "bassRejected", "choice"}
      /\ ProposedAddressPage(s) \in {"choice", "apChoice", "address", "newAddress"}
      /\ BassAddressPage(s) \in {"bassApChoice", "bassOffer", "choice"}
  BY DEF CurfewAddressPage, ProposedAddressPage, BassAddressPage
<1> QED
  BY <1>1, <1>2, <1>3, <1>4

CaTargets == CaForms \cup
  {"risk", "refuse", "postpone", "victim", "finalChecks", "hours", "conditions", "reporting",
   "send/approval", "send/refusal", "send/resubmit", "createLicence"}

LEMMA CaTasks ==
  ASSUME NEW s
  PROVE  /\ CaEligibilityPages(s) \subseteq CaTargets \ {"send/resubmit"}
         /\ CaProcessingPages(s) \subseteq CaTargets \ {"send/resubmit"}
         /\ CaPostApprovalPages(s) \subseteq CaTargets \ EligibilityForms
         /\ {"send/approval", "send/refusal"} \cap CaEligibilityPages(s) # {}
              => CaTransition(s) = "caToDmRefusal"
         /\ {"send/approval", "send/refusal"} \cap CaProcessingPages(s) # {} => s.eligible
         /\ CaPostApprovalPages(s) # {} => s.eligible
         /\ "reviewBassRequest" \in CaEligibilityPages(s) \cup CaProcessingPages(s)
                                     \cup CaPostApprovalPages(s) => s.bassReferralNeeded
         /\ "reviewCurfewAddress" \in CaEligibilityPages(s) => ~s.bassReferralNeeded
         /\ "reviewCurfewAddress" \in CaProcessingPages(s) \cup CaPostApprovalPages(s)
              => ~s.bassReferralNeeded /\ CaTransition(s) = "caToRo"
<1> USE CaPages DEF When, CaForms, EligibilityForms, EligibilityPages
<1>1. /\ CaEligibilityPages(s) \subseteq CaTargets \ {"send/resubmit"}
      /\ {"send/approval", "send/refusal"} \cap CaEligibilityPages(s) # {}
           => CaTransition(s) = "caToDmRefusal"
      /\ "reviewBassRequest" \in CaEligibilityPages(s) => s.bassReferralNeeded
      /\ "reviewCurfewAddress" \in CaEligibilityPages(s) => ~s.bassReferralNeeded
  BY DEF CaEligibilityPages, CaTargets
<1>2. /\ CaProcessingPages(s) \subseteq CaTargets \ {"send/resubmit"}
      /\ {"send/approval", "send/refusal"} \cap CaProcessingPages(s) # {} => s.eligible
      /\ "reviewBassRequest" \in CaProcessingPages(s) => s.bassReferralNeeded
      /\ "reviewCurfewAddress" \in CaProcessingPages(s)
           => ~s.bassReferralNeeded /\ CaTransition(s) = "caToRo"
  BY DEF CaProcessingPages, CaTargets
<1>3. /\ CaPostApprovalPages(s) \subseteq CaTargets \ EligibilityForms
      /\ CaPostApprovalPages(s) # {} => s.eligible
      /\ "reviewBassRequest" \in CaPostApprovalPages(s) => s.bassReferralNeeded
      /\ "reviewCurfewAddress" \in CaPostApprovalPages(s)
           => ~s.bassReferralNeeded /\ CaTransition(s) = "caToRo"
  BY DEF CaPostApprovalPages, CaTargets
<1> QED
  BY <1>1, <1>2, <1>3

\* The page that offers a residence for review checks the residence.
LEMMA AddressAskedFor ==
  ASSUME NEW s, NEW d, s.stage # "PROCESSING_RO", ~s.bassReferralNeeded,
         s.stage = "ELIGIBILITY" \/ CaTransition(s) = "caToRo",
         Errors(s, d) = {}
  PROVE  CurfewAddressValid(d)
<1>1. s.stage = "ELIGIBILITY" \/ s.review = "UNSTARTED"
  BY DEF CaTransition, CanSendCaToRo
<1>2. "curfewAddress" \in FormGroup(s, d)
  BY <1>1 DEF FormGroup, When
<1>3. FormAnswered("curfewAddress", d) = CurfewAddressValid(d)
  BY DEF FormAnswered
<1> QED
  BY <1>2, <1>3 DEF Errors

\* What it takes for a page to be within reach.
Where(p) ==
  /\ p \in CaForms => stage \notin {"PROCESSING_RO", "APPROVAL"}
  /\ p \in EligibilityForms => stage \in {"ELIGIBILITY", "PROCESSING_CA"}
  /\ p \in {"apAddress", "bassApAddress"} => stage # "APPROVAL"
  /\ p = "bassAreaCheck" => stage = "PROCESSING_RO"
  /\ p \in {"approvedPremises", "curfewAddressReview"} =>
       stage = "PROCESSING_RO" /\ (p = "curfewAddressReview" \/ ~BassReferralNeeded(doc)
                                    \/ AddressReviewFailed(doc))
  /\ p = "curfewAddressReview" => doc.address # NoAddress
  /\ p \in {"consideration", "release"} => stage = "APPROVAL" /\ Eligible(doc)
  /\ p = "refuseReason" => stage = "APPROVAL"
  /\ p \in {"send/approval", "send/refusal", "send/resubmit"} =>
       Eligible(doc) \/ InsufficientTimeStop(doc)
  /\ p = "send/decided" => stage = "APPROVAL" /\ (doc.release = "Yes" => Eligible(doc))
  /\ p = "send/addressReview" => doc.address # NoAddress
  /\ p = "send/bassReview" => BassReferralNeeded(doc)

LEMMA OpenWhere ==
  ASSUME TypeOK, PageInv, EligibleInv, NEW p \in Reach
  PROVE  Where(p)
<1> DEFINE T == TaskListPages(Status)
<1>0. stage \in Stages /\ page \in Landings
  BY DEF TypeOK
<1>1. CASE stage = "PROCESSING_RO"
  <2>1. T = RoPages(Status)
    BY <1>1, StatusFields DEF TaskListPages, PostApproval
  <2>2. (T \cup {page}) \cap LinkSources = {}
    BY <1>0, <1>1, <2>1, RoTasks DEF PageInv, LinkSources, CaForms, Landings
  <2>3. p \in T \cup {page}
    BY <2>2, Within
  <2>4. CASE p \in T
    BY <1>1, <2>1, <2>4, RoTasks, StatusFields DEF Where, CaForms, EligibilityForms
  <2>5. CASE p = page
    BY <1>0, <1>1, <2>5 DEF Where, PageInv, Landings, CaForms, EligibilityForms
  <2> QED
    BY <2>3, <2>4, <2>5
<1>2. CASE stage = "APPROVAL"
  <2>1. T = DmPages(Status)
    BY <1>2, StatusFields DEF TaskListPages, PostApproval
  <2>2. (T \cup {page}) \cap LinkSources = {}
    BY <1>0, <1>2, <2>1, DmTasks DEF PageInv, LinkSources, CaForms, Landings
  <2>3. p \in T \cup {page}
    BY <2>2, Within
  <2>4. CASE p \in T
    BY <1>2, <2>1, <2>4, DmTasks, StatusFields DEF Where, CaForms, EligibilityForms, EligibleInv
  <2>5. CASE p = page
    BY <1>0, <1>2, <2>5 DEF Where, PageInv, Landings, CaForms, EligibilityForms
  <2> QED
    BY <2>3, <2>4, <2>5
<1>3. CASE stage \notin {"PROCESSING_RO", "APPROVAL"}
  <2>1. T = CASE stage = "ELIGIBILITY" -> CaEligibilityPages(Status)
              [] stage = "PROCESSING_CA" -> CaProcessingPages(Status)
              [] OTHER -> CaPostApprovalPages(Status)
    BY <1>0, <1>3, StatusFields DEF TaskListPages, PostApproval, Stages
  <2>2. T \subseteq CaTargets /\ (stage \in PostApproval => T \cap EligibilityForms = {})
        /\ ("reviewBassRequest" \in T => BassReferralNeeded(doc))
    BY <1>0, <1>3, <2>1, CaTasks, StatusFields DEF Stages, PostApproval
  <2>3. T \cap {"send/approval", "send/refusal", "send/resubmit"} # {}
          => Eligible(doc) \/ InsufficientTimeStop(doc)
    <3>1. CASE stage = "ELIGIBILITY"
      <4>1. CaTransition(Status) = "caToDmRefusal" => Eligible(doc) \/ InsufficientTimeStop(doc)
        BY <3>1, StatusFields DEF CaTransition, CanSendCaToDmRefusal, PostApproval
      <4> QED
        BY <3>1, <2>1, <4>1, CaTasks
    <3>2. CASE stage # "ELIGIBILITY"
      BY <1>0, <1>3, <3>2, <2>1, CaTasks, StatusFields
    <3> QED
      BY <3>1, <3>2
  <2>4. CASE p \in T
    BY <1>0, <1>3, <2>2, <2>3, <2>4
    DEF Where, CaTargets, CaForms, EligibilityForms, Stages, PostApproval
  <2>5. CASE p = page
    BY <1>0, <1>3, <2>5 DEF Where, PageInv, Landings, CaForms, EligibilityForms
  <2>6. CASE p \notin T \cup {page}
    <3>1. /\ p \in LinkTargets
          /\ p = "send/addressReview" => "reviewCurfewAddress" \in T /\ ~ErrorsOnPage
          /\ p = "send/bassReview" => "reviewBassRequest" \in T
      BY <1>0, <2>6, Within DEF Landings
    <3>2. ASSUME p = "send/addressReview"
          PROVE  doc.address # NoAddress
      <4>1. /\ ~Status.bassReferralNeeded
            /\ Status.stage = "ELIGIBILITY" \/ CaTransition(Status) = "caToRo"
        BY <1>0, <1>3, <2>1, <3>1, <3>2, CaTasks, StatusFields
      <4>2. Status.stage # "PROCESSING_RO" /\ Errors(Status, doc) = {}
        BY <1>3, <3>1, <3>2, StatusFields DEF ErrorsOnPage
      <4>3. CurfewAddressValid(doc)
        BY <4>1, <4>2, AddressAskedFor
      <4> QED
        BY <4>3, AddressAssumption, WellFormedAssumption DEF CurfewAddressValid
    <3> QED
      BY <1>3, <2>2, <3>1, <3>2 DEF Where, LinkTargets, CaForms, EligibilityForms
  <2> QED
    BY <2>4, <2>5, <2>6
<1> QED
  BY <1>1, <1>2, <1>3

-----------------------------------------------------------------------------
(* What a step keeps. *)

\* The answers that decide who is eligible, and the decision.
SameAnswers(d) ==
  /\ d.excluded = doc.excluded /\ d.suitability = doc.suitability
  /\ d.exceptional = doc.exceptional /\ d.crdTime = doc.crdTime
  /\ d.release = doc.release

SameAddress(d) ==
  /\ d.address = doc.address /\ d.review = doc.review /\ d.rejections = doc.rejections
  /\ BassReferralNeeded(d) = BassReferralNeeded(doc)

\* A step may lead to page n.
Lands(n) ==
  /\ n \in CaForms => stage \notin {"PROCESSING_RO", "APPROVAL"}
  /\ n \in EligibilityForms => stage \in {"ELIGIBILITY", "PROCESSING_CA"}
  /\ n \in {"apAddress", "bassApAddress"} => stage # "APPROVAL"
  /\ n \in {"bassAreaCheck", "curfewAddressReview"} => stage = "PROCESSING_RO"
  /\ n = "release" => stage = "APPROVAL" /\ Eligible(doc)
  /\ n # "send/decided"

LEMMA EligibleSame ==
  ASSUME NEW d, SameAnswers(d)
  PROVE  Eligible(d) = Eligible(doc) /\ InsufficientTimeStop(d) = InsufficientTimeStop(doc)
BY DEF SameAnswers, Eligible, NotEligible, EligibilityState, InsufficientTimeStop, CrdTimeState,
       SuitabilityState

\* The document, the page and the stage after a step through Update or Write.
Steps(d, n) ==
  /\ doc' = d /\ page' = n
  /\ stage' = stage \/ (stage \in PostApproval /\ stage' \in PostApproval)

LEMMA UpdateStep ==
  ASSUME NEW d, NEW n, NEW approval, Update(d, n, approval) \/ Write(d, n)
  PROVE  Steps(d, n)
BY DEF Update, Write, ModifiedStage, Steps, PostApproval

LEMMA AnswersKept ==
  ASSUME IInv, TypeOK', NEW d, NEW n, Steps(d, n), SameAnswers(d), Lands(n), AddressInv',
         n = "curfewAddressReview" => d.address # NoAddress
  PROVE  IInv'
<1>1. Eligible(d) = Eligible(doc) /\ InsufficientTimeStop(d) = InsufficientTimeStop(doc)
  BY EligibleSame
<1>2. d.release = doc.release
  BY DEF SameAnswers
<1>3. PageInv'
  BY <1>1 DEF PageInv, Steps, Lands, PostApproval
<1>4. EligibleInv'
  BY <1>1, <1>2 DEF EligibleInv, Steps, PostApproval, IInv
<1> QED
  BY <1>3, <1>4 DEF IInv

LEMMA AddressSame ==
  ASSUME AddressInv, NEW d, NEW n, Steps(d, n), SameAddress(d)
  PROVE  AddressInv'
BY DEF AddressInv, Steps, SameAddress, Reviewed, PostApproval

\* Most steps change neither.
LEMMA SameStep ==
  ASSUME IInv, TypeOK', NEW d, NEW n, NEW approval, Update(d, n, approval) \/ Write(d, n),
         SameAnswers(d), SameAddress(d), Lands(n),
         n = "curfewAddressReview" => doc.address # NoAddress
  PROVE  IInv'
<1>1. Steps(d, n)
  BY UpdateStep
<1>2. AddressInv'
  BY <1>1, AddressSame DEF IInv
<1>3. d.address = doc.address
  BY DEF SameAddress
<1> QED
  BY <1>1, <1>2, <1>3, AnswersKept

\* The document is a record with these fields.
LEMMA Fields ==
  ASSUME TypeOK
  PROVE  doc \in Doc /\ doc.bass \in Bass /\ doc.address \in Addresses \cup {NoAddress}
BY DEF TypeOK, Doc

LEMMA OpenReach == ASSUME IInv, NEW p, Open(p) PROVE Where(p)
BY OpenWhere DEF IInv, Open

-----------------------------------------------------------------------------
(* The invariant is inductive: one step for each action. *)

LEMMA CaSame ==
  ASSUME IInv, TypeOK',
         \/ \E c \in {"OptOut", "ApprovedPremises"} :
              ChooseApprovedPremises(c) \/ ChooseBassApprovedPremises(c)
         \/ \E a \in scope.requests : RequestBass(a)
         \/ \E o \in scope.offers : OfferBass(o)
         \/ \E b \in BOOLEAN : NewAddress(b) \/ NewBass(b)
         \/ \E a \in Answer \ {"None"} : Postpone(a) \/ Refuse(a)
  PROVE  IInv'
<1> USE DEF CaForms, EligibilityForms
<1>0. doc \in Doc /\ doc.bass \in Bass
  BY Fields DEF IInv
<1>1. ASSUME NEW d, SameAnswers(d), SameAddress(d), NEW n, Update(d, n, FALSE) \/ Write(d, n),
             n \in CaForms \cup {"taskList", "apAddress", "bassApAddress"},
             n \notin EligibilityForms,
             n = "taskList" \/ stage \notin {"PROCESSING_RO", "APPROVAL"}
      PROVE  IInv'
  <2>1. Lands(n)
    BY <1>1 DEF Lands
  <2>2. n # "curfewAddressReview"
    BY <1>1
  <2> QED
    BY <1>1, <2>1, <2>2, SameStep
<1>2. ASSUME NEW c \in {"OptOut", "ApprovedPremises"}, ChooseApprovedPremises(c) PROVE IInv'
  <2>1. Where("apChoice")
    BY <1>2, OpenReach DEF ChooseApprovedPremises
  <2>2. stage \notin {"PROCESSING_RO", "APPROVAL"}
    BY <2>1 DEF Where
  <2> DEFINE d == [doc EXCEPT !.ap = IF c = "OptOut" THEN "No" ELSE "Yes",
                              !.optOut = IF c = "OptOut" THEN "Yes" ELSE "No"]
  <2>3. SameAnswers(d) /\ SameAddress(d)
    BY <1>0 DEF SameAnswers, SameAddress, BassReferralNeeded, Doc
  <2> HIDE DEF d
  <2>4. \E n \in {"taskList", "apAddress"} : Write(d, n)
    BY <1>2 DEF ChooseApprovedPremises, d
  <2> QED
    BY <1>1, <2>2, <2>3, <2>4
<1>3. ASSUME NEW c \in {"OptOut", "ApprovedPremises"}, ChooseBassApprovedPremises(c) PROVE IInv'
  <2>1. Where("bassApChoice")
    BY <1>3, OpenReach DEF ChooseBassApprovedPremises
  <2>2. stage \notin {"PROCESSING_RO", "APPROVAL"}
    BY <2>1 DEF Where
  <2> DEFINE b == [doc.bass EXCEPT !.exists = TRUE]
             d == [doc EXCEPT !.bass = b, !.optOut = IF c = "OptOut" THEN "Yes" ELSE "No"]
  <2>3. b.requested = doc.bass.requested
    BY <1>0 DEF Bass
  <2>4. \E n \in {"taskList", "bassApAddress"} : Write(d, n)
    BY <1>3, Zenon DEF ChooseBassApprovedPremises
  <2> HIDE DEF b
  <2>5. SameAnswers(d) /\ SameAddress(d)
    BY <1>0, <2>3 DEF SameAnswers, SameAddress, BassReferralNeeded, Doc
  <2> HIDE DEF d
  <2> QED
    BY <1>1, <2>2, <2>4, <2>5
<1>4. ASSUME NEW a \in scope.requests, RequestBass(a) PROVE IInv'
  <2>1. Where("bassRequest")
    BY <1>4, OpenReach DEF RequestBass
  <2>2. stage \notin {"PROCESSING_RO", "APPROVAL"}
    BY <2>1 DEF Where
  <2> DEFINE b == [doc.bass EXCEPT !.exists = TRUE, !.specificArea = a.area, !.town = a.town]
             d == [doc EXCEPT !.bass = b]
  <2>3. b.requested = doc.bass.requested
    BY <1>0 DEF Bass
  <2> HIDE DEF b
  <2>4. SameAnswers(d) /\ SameAddress(d)
    BY <1>0, <2>3 DEF SameAnswers, SameAddress, BassReferralNeeded, Doc
  <2> HIDE DEF d
  <2>5. \E n \in {"taskList", "bassRequest"} : Update(d, n, FALSE)
    BY <1>4 DEF RequestBass, d, b
  <2> QED
    BY <1>1, <2>2, <2>4, <2>5
<1>5. ASSUME NEW o \in scope.offers, OfferBass(o) PROVE IInv'
  <2>1. Where("bassOffer")
    BY <1>5, OpenReach DEF OfferBass
  <2>2. stage \notin {"PROCESSING_RO", "APPROVAL"}
    BY <2>1 DEF Where
  <2> DEFINE b == [doc.bass EXCEPT !.exists = TRUE, !.accepted = o.accepted,
                                   !.offerAddress = o.address]
             d == [doc EXCEPT !.bass = b]
  <2>3. b.requested = doc.bass.requested
    BY <1>0 DEF Bass
  <2> HIDE DEF b
  <2>4. SameAnswers(d) /\ SameAddress(d)
    BY <1>0, <2>3 DEF SameAnswers, SameAddress, BassReferralNeeded, Doc
  <2> HIDE DEF d
  <2>5. \E n \in {"taskList", "bassOffer", "bassUnsuitable"} : Update(d, n, FALSE)
    BY <1>5 DEF OfferBass, d, b
  <2> QED
    BY <1>1, <2>2, <2>4, <2>5
<1>6. ASSUME NEW b \in BOOLEAN, NewAddress(b) PROVE IInv'
  <2>1. Where("newAddress")
    BY <1>6, OpenReach DEF NewAddress
  <2>2. stage \notin {"PROCESSING_RO", "APPROVAL"}
    BY <2>1 DEF Where
  <2> QED
    BY <1>0, <1>1, <1>6, <2>2 DEF NewAddress, SameAnswers, SameAddress, BassReferralNeeded, Bass, Doc
<1>7. ASSUME NEW b \in BOOLEAN, NewBass(b) PROVE IInv'
  <2>1. Where("bassWithdrawn")
    BY <1>7, OpenReach DEF NewBass
  <2>2. stage \notin {"PROCESSING_RO", "APPROVAL"}
    BY <2>1 DEF Where
  <2> QED
    BY <1>0, <1>1, <1>7, <2>2 DEF NewBass, SameAnswers, SameAddress, BassReferralNeeded, Bass, Doc
<1>8. ASSUME NEW a, Postpone(a) PROVE IInv'
  <2> DEFINE d == [doc EXCEPT !.postpone = a]
  <2>1. SameAnswers(d) /\ SameAddress(d)
    BY <1>0 DEF SameAnswers, SameAddress, BassReferralNeeded, Doc
  <2>2. Update(d, "taskList", FALSE)
    BY <1>8 DEF Postpone
  <2> HIDE DEF d
  <2> QED
    BY <1>1, <2>1, <2>2
<1>9. ASSUME NEW a, Refuse(a) PROVE IInv'
  <2> DEFINE d == [doc EXCEPT !.refusal = a]
  <2>1. SameAnswers(d) /\ SameAddress(d)
    BY <1>0 DEF SameAnswers, SameAddress, BassReferralNeeded, Doc
  <2>2. Update(d, "taskList", FALSE)
    BY <1>9 DEF Refuse
  <2> HIDE DEF d
  <2> QED
    BY <1>1, <2>1, <2>2
<1> QED
  BY <1>2, <1>3, <1>4, <1>5, <1>6, <1>7, <1>8, <1>9

LEMMA SharedKept ==
  ASSUME IInv, TypeOK', SharedSteps
  PROVE  IInv'
<1>0. doc \in Doc /\ doc.bass \in Bass
  BY Fields DEF IInv
<1>1. ASSUME NEW d, SameAnswers(d), SameAddress(d), NEW n, NEW approval,
             Update(d, n, approval) \/ Write(d, n), n = "taskList"
      PROVE  IInv'
  BY <1>1, SameStep DEF Lands, CaForms, EligibilityForms
<1>2. ASSUME NEW a \in scope.aps, ApprovedPremises(a) PROVE IInv'
  <2>1. Where("approvedPremises")
    BY <1>2, OpenReach DEF ApprovedPremises
  <2>2. stage = "PROCESSING_RO" /\ doc.address # NoAddress
    BY <2>1 DEF Where, IInv, AddressInv, Reviewed, AddressReviewFailed, NoReview
  <2> DEFINE d == [doc EXCEPT !.ap = a]
             n == IF a = "No" THEN "curfewAddressReview" ELSE "apAddress"
  <2>3. SameAnswers(d) /\ SameAddress(d)
    BY <1>0 DEF SameAnswers, SameAddress, BassReferralNeeded, Doc
  <2>4. Lands(n)
    BY <2>2 DEF Lands, CaForms, EligibilityForms
  <2>5. Update(d, n, FALSE)
    BY <1>2 DEF ApprovedPremises
  <2> HIDE DEF d, n
  <2> QED
    BY <2>2, <2>3, <2>4, <2>5, SameStep
<1>3. ASSUME NEW f \in scope.fills, ApAddress(f) PROVE IInv'
  <2>1. stage # "APPROVAL"
    BY <1>3, OpenReach DEF ApAddress, Where
  <2>2. ASSUME NEW d, NEW p \in {"apAddress", "bassApAddress"},
               SameAnswers(d), SameAddress(d),
               Update(d, IF f = "Full" THEN "taskList" ELSE p, FALSE)
        PROVE  IInv'
    <3>1. Lands(IF f = "Full" THEN "taskList" ELSE p)
      BY <2>1 DEF Lands, CaForms, EligibilityForms
    <3> QED
      BY <2>2, <3>1, SameStep
  <2> DEFINE d1 == [doc EXCEPT !.apAddress = f]
             b == [doc.bass EXCEPT !.exists = TRUE, !.apAddress = f]
             d2 == [doc EXCEPT !.bass = b]
  <2>3. SameAnswers(d1) /\ SameAddress(d1)
    BY <1>0 DEF SameAnswers, SameAddress, BassReferralNeeded, Doc
  <2>4. b.requested = doc.bass.requested
    BY <1>0 DEF Bass
  <2> HIDE DEF b
  <2>5. SameAnswers(d2) /\ SameAddress(d2)
    BY <1>0, <2>4 DEF SameAnswers, SameAddress, BassReferralNeeded, Doc
  <2>6. \/ Update(d1, IF f = "Full" THEN "taskList" ELSE "apAddress", FALSE)
        \/ Update(d2, IF f = "Full" THEN "taskList" ELSE "bassApAddress", FALSE)
    BY <1>3 DEF ApAddress, b
  <2> HIDE DEF d1, d2
  <2> QED
    BY <2>2, <2>3, <2>5, <2>6
<1>4. ASSUME NEW a \in scope.reviews, ReviewAddress(a) PROVE IInv'
  <2>1. Where("curfewAddressReview")
    BY <1>4, OpenReach DEF ReviewAddress
  <2>2. stage = "PROCESSING_RO" /\ doc.address # NoAddress
    BY <2>1 DEF Where
  <2> DEFINE r == [consent |-> a.consent, electricity |-> a.electricity, of |-> doc.address]
             d == [doc EXCEPT !.review = r]
  <2> HIDE DEF r
  <2>3. SameAnswers(d) /\ d.address = doc.address /\ d.rejections = doc.rejections
        /\ BassReferralNeeded(d) = BassReferralNeeded(doc)
    BY <1>0 DEF SameAnswers, BassReferralNeeded, Doc
  <2>4. Update(d, "taskList", FALSE)
    BY <1>4 DEF ReviewAddress, r
  <2> HIDE DEF d
  <2>5. Steps(d, "taskList")
    BY <2>4, UpdateStep
  <2>6. AddressInv'
    BY <2>2, <2>3, <2>5 DEF IInv, AddressInv, Reviewed, Steps, PostApproval
  <2> QED
    BY <2>3, <2>5, <2>6, AnswersKept DEF Lands, CaForms, EligibilityForms
<1>5. ASSUME NEW a \in scope.risks, AssessRisk(a) PROVE IInv'
  <2> DEFINE d == [doc EXCEPT !.risk = a.form, !.suitable = a.suitability]
  <2>1. SameAnswers(d) /\ SameAddress(d)
    BY <1>0 DEF SameAnswers, SameAddress, BassReferralNeeded, Doc
  <2>2. Update(d, "taskList", FALSE)
    BY <1>5 DEF AssessRisk
  <2> HIDE DEF d
  <2> QED
    BY <1>1, <2>1, <2>2
<1>6. ASSUME NEW a \in scope.areaChecks, CheckBassArea(a) PROVE IInv'
  <2>1. stage = "PROCESSING_RO"
    BY <1>6, OpenReach DEF CheckBassArea, Where
  <2> DEFINE b == [doc.bass EXCEPT !.exists = TRUE, !.suitable = a.suitable,
                                   !.reason = a.reason, !.seen = TRUE, !.ap = a.ap]
             d == [doc EXCEPT !.bass = b]
  <2>2. b.requested = doc.bass.requested
    BY <1>0 DEF Bass
  <2> HIDE DEF b
  <2>3. SameAnswers(d) /\ SameAddress(d)
    BY <1>0, <2>2 DEF SameAnswers, SameAddress, BassReferralNeeded, Doc
  <2> HIDE DEF d
  <2>4. \E n \in {"taskList", "bassAreaCheck", "bassApAddress"} : Update(d, n, FALSE)
    BY <1>6 DEF CheckBassArea, d, b
  <2>5. \A n \in {"taskList", "bassAreaCheck", "bassApAddress"} :
          Lands(n) /\ n # "curfewAddressReview"
    BY <2>1 DEF Lands, CaForms, EligibilityForms
  <2> QED
    BY <2>3, <2>4, <2>5, SameStep
<1>7. ASSUME VictimLiaison \/ CurfewHours PROVE IInv'
  <2> DEFINE d1 == [doc EXCEPT !.victim = "Full"]
             d2 == [doc EXCEPT !.hours = "Full"]
  <2>1. SameAnswers(d1) /\ SameAddress(d1)
    BY <1>0 DEF SameAnswers, SameAddress, BassReferralNeeded, Doc
  <2>2. SameAnswers(d2) /\ SameAddress(d2)
    BY <1>0 DEF SameAnswers, SameAddress, BassReferralNeeded, Doc
  <2>3. Update(d1, "taskList", FALSE) \/ Update(d2, "taskList", TRUE)
    BY <1>7 DEF VictimLiaison, CurfewHours
  <2> HIDE DEF d1, d2
  <2> QED
    BY <1>1, <2>1, <2>2, <2>3
<1>8. ASSUME NEW f \in scope.fills,
             AdditionalConditions(f) \/ ReportingInstructions(f) \/ FinalChecks(f)
      PROVE  IInv'
  <2> DEFINE d1 == [doc EXCEPT !.conditions = f]
             d2 == [doc EXCEPT !.reporting = f]
             d3 == [doc EXCEPT !.checks = f]
  <2>1. SameAnswers(d1) /\ SameAddress(d1)
    BY <1>0 DEF SameAnswers, SameAddress, BassReferralNeeded, Doc
  <2>2. SameAnswers(d2) /\ SameAddress(d2)
    BY <1>0 DEF SameAnswers, SameAddress, BassReferralNeeded, Doc
  <2>3. SameAnswers(d3) /\ SameAddress(d3)
    BY <1>0 DEF SameAnswers, SameAddress, BassReferralNeeded, Doc
  <2>4. \/ Update(d1, "taskList", TRUE)
        \/ Write(d2, "taskList")
        \/ Update(d3, "taskList", FALSE)
    BY <1>8 DEF AdditionalConditions, ReportingInstructions, FinalChecks
  <2> HIDE DEF d1, d2, d3
  <2> QED
    BY <1>1, <2>1, <2>2, <2>3, <2>4
<1> QED
  BY <1>2, <1>3, <1>4, <1>5, <1>6, <1>7, <1>8 DEF SharedSteps

\* Eligibility is answered before the case is sent for a decision.
LEMMA EligibilityKept ==
  ASSUME IInv, TypeOK', NEW a,
         Excluded(a) \/ Suitable(a) \/ Exceptional(a) \/ CrdTime(a)
  PROVE  IInv'
<1>0. doc \in Doc
  BY Fields DEF IInv
<1>1. stage \in {"ELIGIBILITY", "PROCESSING_CA"}
  <2>1. Excluded(a) => Where("excluded")
    BY OpenReach DEF Excluded
  <2>2. Suitable(a) => Where("suitability")
    BY OpenReach DEF Suitable
  <2>3. Exceptional(a) => Where("exceptional")
    BY OpenReach DEF Exceptional
  <2>4. CrdTime(a) => Where("crdTime")
    BY OpenReach DEF CrdTime
  <2> QED
    BY <2>1, <2>2, <2>3, <2>4 DEF Where, EligibilityForms
<1>2. ASSUME NEW d, SameAddress(d), NEW n \in EligibilityForms \cup {"taskList"}, Update(d, n, FALSE)
      PROVE  IInv'
  <2>1. Steps(d, n) /\ stage' = stage
    BY <1>1, <1>2, UpdateStep DEF Update, ModifiedStage
  <2>2. AddressInv'
    BY <1>2, <2>1, AddressSame DEF IInv
  <2>3. PageInv'
    BY <1>1, <2>1 DEF PageInv, Steps, CaForms, EligibilityForms
  <2>4. EligibleInv'
    BY <1>1, <2>1 DEF EligibleInv, PostApproval
  <2> QED
    BY <2>2, <2>3, <2>4 DEF IInv
<1> DEFINE d1 == [doc EXCEPT !.excluded = a]
           d2 == [doc EXCEPT !.suitability = a]
           d3 == [doc EXCEPT !.exceptional = a]
           d4 == [doc EXCEPT !.crdTime = a]
<1>3. SameAddress(d1) /\ SameAddress(d2)
  BY <1>0 DEF SameAddress, BassReferralNeeded, Doc
<1>4. SameAddress(d3) /\ SameAddress(d4)
  BY <1>0 DEF SameAddress, BassReferralNeeded, Doc
<1>5. \E n \in EligibilityForms \cup {"taskList"} :
        Update(d1, n, FALSE) \/ Update(d2, n, FALSE) \/ Update(d3, n, FALSE) \/ Update(d4, n, FALSE)
  BY DEF Excluded, Suitable, Exceptional, CrdTime, EligibilityForms
<1> HIDE DEF d1, d2, d3, d4
<1> QED
  BY <1>2, <1>3, <1>4, <1>5

\* The decision maker, and the case sent on.
LEMMA DecisionKept ==
  ASSUME IInv, TypeOK', DmSteps \/ \E d \in Destinations : Send(d)
  PROVE  IInv'
<1>0. doc \in Doc
  BY Fields DEF IInv
<1> DEFINE D(a) == [doc EXCEPT !.release = a]
<1>1. ASSUME NEW a
      PROVE  /\ D(a).release = a /\ SameAddress(D(a))
             /\ Eligible(D(a)) = Eligible(doc) /\ InsufficientTimeStop(D(a)) = InsufficientTimeStop(doc)
  <2>1. D(a).release = a /\ SameAddress(D(a))
    BY <1>0 DEF SameAddress, BassReferralNeeded, Doc
  <2>2. /\ D(a).excluded = doc.excluded /\ D(a).suitability = doc.suitability
        /\ D(a).exceptional = doc.exceptional /\ D(a).crdTime = doc.crdTime
    BY <1>0 DEF Doc
  <2> HIDE DEF D
  <2> QED
    BY <2>1, <2>2 DEF Eligible, NotEligible, EligibilityState, InsufficientTimeStop, CrdTimeState,
                      SuitabilityState
<1> HIDE DEF D
<1>2. ASSUME NEW a, doc' = D(a), stage' = stage, stage = "APPROVAL",
             page' \in {"release", "send/decided"},
             Eligible(doc) \/ (page' = "send/decided" /\ a # "Yes")
      PROVE  IInv'
  <2>1. Steps(D(a), page')
    BY <1>2 DEF Steps
  <2>2. AddressInv'
    BY <1>1, <2>1, AddressSame DEF IInv
  <2>3. PageInv'
    BY <1>1, <1>2 DEF PageInv, CaForms, EligibilityForms
  <2>4. EligibleInv'
    BY <1>1, <1>2 DEF EligibleInv, IInv, PostApproval
  <2> QED
    BY <2>2, <2>3, <2>4 DEF IInv
<1>3. ASSUME Consider PROVE IInv'
  <2>1. Where("consideration")
    BY <1>3, OpenReach DEF Consider
  <2>2. Lands("release")
    BY <2>1 DEF Where, Lands, CaForms, EligibilityForms
  <2> QED
    BY <1>3, <2>2, SameStep DEF Consider, SameAnswers, SameAddress
<1>4. ASSUME NEW a \in Answer, Release(a) PROVE IInv'
  <2>1. Where("release")
    BY <1>4, OpenReach DEF Release
  <2> QED
    BY <1>2, <1>4, <2>1 DEF Release, Where, D
<1>5. ASSUME RefuseReason PROVE IInv'
  <2>1. Where("refuseReason")
    BY <1>5, OpenReach DEF RefuseReason
  <2>2. doc' = D("No") /\ page' = "send/decided" /\ stage' = stage
    BY <1>5 DEF RefuseReason, Write, D
  <2> QED
    BY <1>2, <2>1, <2>2 DEF Where
<1>6. ASSUME NEW d \in Destinations, Send(d) PROVE IInv'
  <2>1. Where(d)
    BY <1>6, OpenReach DEF Send
  <2>2. /\ stage' = NewStage(d) /\ page' = "taskList"
        /\ doc' = doc \/ (doc' = D("None") /\ d = "send/return")
    BY <1>6 DEF Send, D
  <2>3. PageInv'
    BY <2>2 DEF PageInv, CaForms, EligibilityForms
  <2>4. /\ NewStage(d) = "APPROVAL" => d \in {"send/approval", "send/resubmit", "send/refusal"}
        /\ NewStage(d) \in PostApproval => d = "send/decided"
        /\ NewStage(d) = "PROCESSING_RO" => d \in {"send/addressReview", "send/bassReview"}
    BY DEF NewStage, PostApproval
  <2>5. EligibleInv'
    BY <2>1, <2>2, <2>4 DEF EligibleInv, Where
  <2>6. AddressInv'
    BY <1>1, <2>1, <2>2, <2>4 DEF IInv, AddressInv, SameAddress, Reviewed, Where
  <2> QED
    BY <2>3, <2>5, <2>6 DEF IInv
<1> QED
  BY <1>3, <1>4, <1>5, <1>6 DEF DmSteps

\* A rejected address keeps its review, and takes it out of the document.
LEMMA RejectKeeps ==
  ASSUME NEW d \in Doc, Reviewed(d), \A i \in DOMAIN d.rejections : Reviewed(d.rejections[i]), NEW reason
  PROVE  /\ Reviewed(Reject(d, reason))
         /\ \A i \in DOMAIN Reject(d, reason).rejections : Reviewed(Reject(d, reason).rejections[i])
<1> DEFINE e == [address |-> d.address, review |-> d.review, suitability |-> d.suitable,
                 withdrawal |-> reason]
           r == Reject(d, reason)
<1>1. d.rejections \in Seq(Rejection)
  BY DEF Doc
<1>2. r.rejections = Append(d.rejections, e) /\ r.review = NoReview
  BY DEF Reject, Put, Doc
<1>3. Reviewed(e)
  BY DEF Reviewed
<1> HIDE DEF r, e
<1>4. \A i \in DOMAIN r.rejections : i \in DOMAIN d.rejections \/ r.rejections[i] = e
  BY <1>1, <1>2
<1>5. \A i \in DOMAIN d.rejections : r.rejections[i] = d.rejections[i]
  BY <1>1, <1>2
<1> QED
  BY <1>2, <1>3, <1>4, <1>5 DEF r, Reviewed

LEMMA ReinstateKeeps ==
  ASSUME NEW d \in Doc, Reviewed(d), \A i \in DOMAIN d.rejections : Reviewed(d.rejections[i]),
         d.rejections # <<>>
  PROVE  /\ Reviewed(Reinstate(d))
         /\ \A i \in DOMAIN Reinstate(d).rejections : Reviewed(Reinstate(d).rejections[i])
<1> DEFINE e == d.rejections[Len(d.rejections)]
           r == Reinstate(d)
<1>1. d.rejections \in Seq(Rejection)
  BY DEF Doc
<1>2. /\ r.rejections = Front(d.rejections)
      /\ r.review = Over(e.review, d.review, NoReview)
      /\ r.address = Over(e.address, d.address, NoAddress)
  BY DEF Reinstate, Put, Doc
<1>3. Reviewed(e)
  BY <1>1
<1> HIDE DEF r, e
<1>4. Reviewed(r)
  BY <1>2, <1>3 DEF Reviewed, Over
<1>5. /\ DOMAIN Front(d.rejections) \subseteq DOMAIN d.rejections
      /\ \A i \in DOMAIN Front(d.rejections) : Front(d.rejections)[i] = d.rejections[i]
  BY <1>1 DEF Front
<1> QED
  BY <1>2, <1>4, <1>5 DEF r

LEMMA CaAddress ==
  ASSUME IInv, TypeOK',
         \/ \E c \in scope.choices : Choose(c)
         \/ \E a \in scope.addresses : EnterAddress(a)
         \/ \E b \in BOOLEAN : AnswerRejected(b)
         \/ \E r \in {"withdrawAddress", "withdrawConsent"} : Withdraw(r)
         \/ ReinstateAddress
  PROVE  IInv'
<1>0. doc \in Doc /\ doc.bass \in Bass
  BY Fields DEF IInv
<1>1. ASSUME NEW d, NEW n \in {"taskList", "curfewAddress", "newAddress", "choice", "bassRequest"},
             stage \notin {"PROCESSING_RO", "APPROVAL"}, Steps(d, n), SameAnswers(d), Reviewed(d),
             \A i \in DOMAIN d.rejections : Reviewed(d.rejections[i])
      PROVE  IInv'
  <2>1. AddressInv'
    BY <1>1 DEF AddressInv, Steps, Reviewed, PostApproval
  <2> QED
    BY <1>1, <2>1, AnswersKept DEF Lands, CaForms, EligibilityForms
<1>2. ASSUME NEW p \in CaForms, Open(p) PROVE stage \notin {"PROCESSING_RO", "APPROVAL"}
  BY <1>2, OpenReach DEF Where
<1>3. Reviewed(doc) /\ \A i \in DOMAIN doc.rejections : Reviewed(doc.rejections[i])
  BY DEF IInv, AddressInv
<1>4. ASSUME NEW c \in scope.choices, Choose(c) PROVE IInv'
  <2> DEFINE b == [doc.bass EXCEPT !.exists = TRUE, !.requested = IF c = "Bass" THEN "Yes" ELSE "No"]
             d == [doc EXCEPT !.optOut = IF c = "OptOut" THEN "Yes" ELSE "No",
                              !.addressProposed = IF c = "Address" THEN "Yes" ELSE "No",
                              !.bass = b]
  <2> HIDE DEF b
  <2>1. SameAnswers(d)
    BY <1>0 DEF SameAnswers, Doc
  <2>2. d.address = doc.address /\ d.review = doc.review /\ d.rejections = doc.rejections
    BY <1>0 DEF Doc
  <2>3. doc' = d /\ stage' = stage /\ page' \in {"taskList", "curfewAddress", "bassRequest"}
    BY <1>4 DEF Choose, b
  <2>4. stage \notin {"PROCESSING_RO", "APPROVAL"}
    BY <1>2, <1>4 DEF Choose, CaForms
  <2> HIDE DEF d
  <2>5. Steps(d, page')
    BY <2>3 DEF Steps
  <2>6. Reviewed(d)
    BY <1>3, <2>2 DEF Reviewed
  <2> QED
    BY <1>1, <1>3, <2>1, <2>2, <2>3, <2>4, <2>5, <2>6
<1>5. ASSUME NEW a \in scope.addresses, EnterAddress(a) PROVE IInv'
  <2> DEFINE d == [doc EXCEPT !.address = a]
             n == IF a \in WellFormedAddress THEN "taskList" ELSE "curfewAddress"
  <2>1. a # NoAddress
    BY ScopeTypes, AddressAssumption DEF IInv
  <2>2. SameAnswers(d) /\ d.address = a /\ d.rejections = doc.rejections
    BY <1>0 DEF SameAnswers, Doc
  <2>3. Update(d, n, FALSE)
    BY <1>5 DEF EnterAddress
  <2>4. stage \notin {"PROCESSING_RO", "APPROVAL"}
    BY <1>2, <1>5 DEF EnterAddress, CaForms
  <2> HIDE DEF d
  <2>5. Steps(d, n)
    BY <2>3, UpdateStep
  <2> QED
    BY <1>1, <1>3, <2>1, <2>2, <2>4, <2>5 DEF Reviewed
<1>6. ASSUME NEW reason PROVE SameAnswers(Reject(doc, reason))
  BY <1>0 DEF SameAnswers, Reject, Put, Doc
<1>7. ASSUME NEW b \in BOOLEAN, AnswerRejected(b) PROVE IInv'
  <2>1. stage \notin {"PROCESSING_RO", "APPROVAL"}
    BY <1>2, <1>7 DEF AnswerRejected, CaForms
  <2>2. \/ Write(Reject(doc, "none"), "curfewAddress")
        \/ Write(doc, "choice")
    BY <1>7 DEF AnswerRejected
  <2>3. Steps(Reject(doc, "none"), "curfewAddress") \/ Steps(doc, "choice")
    BY <2>2, UpdateStep
  <2>4. SameAnswers(doc)
    BY DEF SameAnswers
  <2> QED
    BY <1>0, <1>1, <1>3, <1>6, <2>1, <2>3, <2>4, RejectKeeps
<1>8. ASSUME NEW r \in {"withdrawAddress", "withdrawConsent"}, Withdraw(r) PROVE IInv'
  <2>1. stage \notin {"PROCESSING_RO", "APPROVAL"}
    BY <1>2, <1>8 DEF Withdraw, CaForms
  <2>2. Steps(Reject(doc, r), "newAddress")
    BY <1>8, UpdateStep DEF Withdraw
  <2> QED
    BY <1>0, <1>1, <1>3, <1>6, <2>1, <2>2, RejectKeeps
<1>9. ASSUME ReinstateAddress PROVE IInv'
  <2>1. stage \notin {"PROCESSING_RO", "APPROVAL"}
    BY <1>2, <1>9 DEF ReinstateAddress, CaForms
  <2>2. Steps(Reinstate(doc), "taskList") /\ doc.rejections # <<>>
    BY <1>9, UpdateStep DEF ReinstateAddress, AddressGivenUp
  <2>3. SameAnswers(Reinstate(doc))
    BY <1>0 DEF SameAnswers, Reinstate, Put, Doc
  <2> QED
    BY <1>0, <1>1, <1>3, <2>1, <2>2, <2>3, ReinstateKeeps
<1> QED
  BY <1>4, <1>5, <1>7, <1>8, <1>9

LEMMA CaBass ==
  ASSUME IInv, TypeOK',
         \/ \E p \in {"bassRejected", "bassUnsuitable"}, a \in Answer : AnswerBassRejected(p, a)
         \/ \E what \in {"offer", "request"} : WithdrawBass(what)
         \/ ReinstateReferral
  PROVE  IInv'
<1>0. doc \in Doc
  BY Fields DEF IInv
<1>1. ASSUME NEW d, NEW n \in {"taskList", "bassRequest", "choice", "bassWithdrawn"}, Write(d, n),
             stage \notin {"PROCESSING_RO", "APPROVAL"}, SameAnswers(d),
             d.address = doc.address, d.review = doc.review, d.rejections = doc.rejections
      PROVE  IInv'
  <2>1. Steps(d, n)
    BY <1>1, UpdateStep
  <2>2. AddressInv'
    BY <1>1, <2>1 DEF IInv, AddressInv, Steps, Reviewed, PostApproval
  <2> QED
    BY <1>1, <2>1, <2>2, AnswersKept DEF Lands, CaForms, EligibilityForms
<1>2. ASSUME NEW p \in CaForms, Open(p) PROVE stage \notin {"PROCESSING_RO", "APPROVAL"}
  BY <1>2, OpenReach DEF Where
<1>3. ASSUME NEW b, NEW q
      PROVE  LET d == [doc EXCEPT !.bass = b, !.bassRejections = q]
             IN /\ SameAnswers(d) /\ d.address = doc.address /\ d.review = doc.review
                /\ d.rejections = doc.rejections
  BY <1>0 DEF SameAnswers, Doc
<1>4. ASSUME NEW a, NEW what
      PROVE  LET d == DeactivateBass(doc, a, what)
             IN /\ SameAnswers(d) /\ d.address = doc.address /\ d.review = doc.review
                /\ d.rejections = doc.rejections
  BY <1>3 DEF DeactivateBass, SameAnswers
<1>5. ASSUME NEW p \in {"bassRejected", "bassUnsuitable"}, NEW a \in Answer, AnswerBassRejected(p, a)
      PROVE  IInv'
  <2>1. stage \notin {"PROCESSING_RO", "APPROVAL"}
    BY <1>2, <1>5 DEF AnswerBassRejected, CaForms
  <2>2. \E n \in {"bassRequest", "choice", "taskList"} : Write(DeactivateBass(doc, a, "none"), n)
    BY <1>5 DEF AnswerBassRejected
  <2> QED
    BY <1>1, <1>4, <2>1, <2>2
<1>6. ASSUME NEW what \in {"offer", "request"}, WithdrawBass(what) PROVE IInv'
  <2>1. stage \notin {"PROCESSING_RO", "APPROVAL"}
    BY <1>2, <1>6 DEF WithdrawBass, CaForms
  <2> QED
    BY <1>1, <1>4, <1>6, <2>1 DEF WithdrawBass
<1>7. ASSUME ReinstateReferral PROVE IInv'
  <2>1. stage \notin {"PROCESSING_RO", "APPROVAL"}
    BY <1>2, <1>7 DEF ReinstateReferral, CaForms
  <2>2. LET d == ReinstateBass(doc)
        IN /\ SameAnswers(d) /\ d.address = doc.address /\ d.review = doc.review
           /\ d.rejections = doc.rejections
    BY <1>3 DEF ReinstateBass
  <2> QED
    BY <1>1, <1>7, <2>1, <2>2 DEF ReinstateReferral
<1> QED
  BY <1>5, <1>6, <1>7

LEMMA Start == Init => IInv
<1> SUFFICES ASSUME Init PROVE IInv
  OBVIOUS
<1>1. TypeOK
  BY TypeInit
<1>2. doc.address = NoAddress /\ doc.review = NoReview /\ doc.rejections = <<>>
  BY DEF Init, EmptyDoc
<1>3. AddressInv
  BY <1>2 DEF Init, AddressInv, Reviewed
<1>4. PageInv /\ EligibleInv
  BY DEF Init, PageInv, EligibleInv, CaForms, EligibilityForms, PostApproval
<1> QED
  BY <1>1, <1>3, <1>4 DEF IInv

\* The invariant holds in every reachable state.
THEOREM Invariant == Spec => []IInv
<1>1. ASSUME IInv, [Next]_vars PROVE IInv'
  <2>1. CASE UNCHANGED vars
    BY <1>1, <2>1 DEF vars, IInv, TypeOK, PageInv, EligibleInv, AddressInv
  <2>2. CASE Next
    <3>1. TypeOK'
      BY <1>1, <2>2, CaType, SharedType, DecisionType DEF Next, IInv
    <3>2. CASE CaSteps
      <4>1. ASSUME NEW a, Excluded(a) \/ Suitable(a) \/ Exceptional(a) \/ CrdTime(a) PROVE IInv'
        BY <1>1, <3>1, <4>1, EligibilityKept
      <4> QED
        BY <1>1, <3>1, <3>2, <4>1, CaSame, CaAddress, CaBass DEF CaSteps
    <3> QED
      BY <1>1, <2>2, <3>1, <3>2, SharedKept, DecisionKept DEF Next
  <2> QED
    BY <1>1, <2>1, <2>2
<1> QED
  BY <1>1, Start, PTL DEF Spec

\* Nobody who is not eligible has an approved licence once the decision is made.
THEOREM NoneIneligible == Spec => []ApprovedIsEligible
<1>1. IInv => ApprovedIsEligible
  BY DEF IInv, EligibleInv, ApprovedIsEligible, Approved
<1> QED
  BY <1>1, Invariant, PTL

-----------------------------------------------------------------------------
(* CAS2: an offer that was accepted is of the current choice.                *)

BassInv ==
  /\ doc.bass.requested = "Yes" /\ doc.bass.accepted = "Yes" => doc.addressProposed = "No"
  /\ page \in {"bassOffer", "bassWithdrawn"} => doc.addressProposed = "No"

\* The page of the offer is on the list of those who chose CAS2 only, the page
\* after a withdrawal on none.
LEMMA OfferTask ==
  ASSUME NEW s, s.stage \in Stages
  PROVE  /\ "bassOffer" \in TaskListPages(s) => s.bassReferralNeeded
         /\ "bassWithdrawn" \notin TaskListPages(s)
<1> USE CaPages DEF When, EligibilityPages
<1>1. "bassOffer" \notin CaEligibilityPages(s) /\ "bassWithdrawn" \notin CaEligibilityPages(s)
  BY DEF CaEligibilityPages
<1>2. /\ "bassOffer" \in CaProcessingPages(s) => s.bassReferralNeeded
      /\ "bassWithdrawn" \notin CaProcessingPages(s)
  BY DEF CaProcessingPages
<1>3. /\ "bassOffer" \in CaPostApprovalPages(s) => s.bassReferralNeeded
      /\ "bassWithdrawn" \notin CaPostApprovalPages(s)
  BY DEF CaPostApprovalPages
<1> QED
  BY <1>1, <1>2, <1>3, RoTasks, DmTasks DEF TaskListPages, Stages, PostApproval

LEMMA OfferReach ==
  ASSUME TypeOK, BassInv, Open("bassOffer")
  PROVE  doc.addressProposed = "No"
<1> DEFINE T == TaskListPages(Status) \cup {page}
<1>1. "bassOffer" \in T \/ "bassWithdrawn" \in T => doc.addressProposed = "No"
  BY OfferTask, StatusFields DEF TypeOK, BassInv, BassReferralNeeded
<1> HIDE DEF T
<1>2. ASSUME NEW q, "bassOffer" \in LinksOf(q) PROVE q = "bassWithdrawn"
  BY <1>2 DEF LinksOf, When
<1>3. ASSUME NEW q PROVE "bassWithdrawn" \notin LinksOf(q)
  BY Links DEF LinkTargets
<1>4. "bassOffer" \in WithLinks(WithLinks(T))
  BY DEF Open, Reach, T
<1> QED
  BY <1>1, <1>2, <1>3, <1>4 DEF WithLinks

\* A step that leaves the choice and the offer alone, or forgets the offer, and
\* does not lead to a page of the offer; in the community nobody opts out.
Bland(d, n) ==
  /\ d.addressProposed = doc.addressProposed
  /\ \/ d.bass.requested = doc.bass.requested /\ d.bass.accepted = doc.bass.accepted
     \/ d.bass.accepted = "None"
  /\ n \notin {"bassOffer", "bassWithdrawn"}
  /\ stage = "PROCESSING_RO" => d.optOut = doc.optOut

LEMMA BlandBass ==
  ASSUME TypeOK, NEW b \in Bass,
         \/ b.requested = doc.bass.requested /\ b.accepted = doc.bass.accepted
         \/ b.accepted = "None",
         NEW n, n \notin {"bassOffer", "bassWithdrawn"}
  PROVE  /\ Bland([doc EXCEPT !.bass = b], n)
         /\ \A q : Bland([doc EXCEPT !.bass = b, !.bassRejections = q], n)
BY Fields DEF Bland, Doc

LEMMA BlandAddress ==
  ASSUME TypeOK, NEW n, n \notin {"bassOffer", "bassWithdrawn"}
  PROVE  Bland(doc, n) /\ Bland(Reinstate(doc), n) /\ \A r : Bland(Reject(doc, r), n)
BY Fields DEF Bland, Reinstate, Reject, Put, Doc

LEMMA CaBland ==
  ASSUME IInv, CaSteps
  PROVE  \/ Bland(doc', page')
         \/ \E c \in scope.choices : Choose(c)
         \/ \E o \in scope.offers : OfferBass(o)
         \/ \E what \in {"offer", "request"} : WithdrawBass(what)
         \/ ReinstateReferral
<1> DEFINE B == Bland(doc', page')
<1>0. doc \in Doc /\ doc.bass \in Bass
  BY Fields DEF IInv
<1>1. ASSUME NEW a, Excluded(a) \/ Suitable(a) \/ Exceptional(a) \/ CrdTime(a) PROVE B
  <2>1. CASE Excluded(a)
    BY <1>0, <2>1 DEF Excluded, Update, Bland, Doc
  <2>2. CASE Suitable(a)
    BY <1>0, <2>2 DEF Suitable, Update, Bland, Doc
  <2>3. CASE Exceptional(a)
    BY <1>0, <2>3 DEF Exceptional, Update, Bland, Doc
  <2>4. CASE CrdTime(a)
    BY <1>0, <2>4 DEF CrdTime, Update, Bland, Doc
  <2> QED
    BY <1>1, <2>1, <2>2, <2>3, <2>4
<1>2. ASSUME NEW a, EnterAddress(a) PROVE B
  BY <1>0, <1>2 DEF EnterAddress, Update, Bland, Doc
<1>3. ASSUME NEW b \in BOOLEAN, AnswerRejected(b) \/ NewAddress(b) \/ NewBass(b) PROVE B
  BY <1>3, BlandAddress DEF IInv, AnswerRejected, NewAddress, NewBass, Write
<1>4. ASSUME NEW r, Withdraw(r) PROVE B
  BY <1>4, BlandAddress DEF IInv, Withdraw, Write
<1>5. ReinstateAddress => B
  BY BlandAddress DEF IInv, ReinstateAddress, Write
<1>6. ASSUME NEW c, ChooseApprovedPremises(c) PROVE B
  <2>1. stage # "PROCESSING_RO"
    BY <1>6, OpenReach DEF ChooseApprovedPremises, Where, CaForms
  <2> QED
    BY <1>0, <1>6, <2>1 DEF ChooseApprovedPremises, Write, Bland, Doc
<1>7. ASSUME NEW c, ChooseBassApprovedPremises(c) PROVE B
  <2>1. stage # "PROCESSING_RO"
    BY <1>7, OpenReach DEF ChooseBassApprovedPremises, Where, CaForms
  <2> QED
    BY <1>0, <1>7, <2>1 DEF ChooseBassApprovedPremises, Write, Bland, Doc, Bass
<1>8. ASSUME NEW a \in scope.requests, RequestBass(a) PROVE B
  BY <1>0, <1>8 DEF RequestBass, Update, Bland, Doc, Bass
<1>9. ASSUME NEW p, NEW a \in Answer, AnswerBassRejected(p, a) PROVE B
  <2>1. doc' = DeactivateBass(doc, a, "none") /\ page' \notin {"bassOffer", "bassWithdrawn"}
    BY <1>9 DEF AnswerBassRejected, Write
  <2>2. CASE ~doc.bass.exists
    BY <2>1, <2>2 DEF DeactivateBass, Bland
  <2>3. CASE doc.bass.exists
    <3> DEFINE b == [NoBass EXCEPT !.exists = TRUE, !.requested = a]
    <3>1. b \in Bass /\ b.accepted = "None"
      BY DEF NoBass, Bass
    <3>2. \E q : doc' = [doc EXCEPT !.bass = b, !.bassRejections = q]
      BY <2>1, <2>3 DEF DeactivateBass
    <3> HIDE DEF b
    <3>3. \A q : Bland([doc EXCEPT !.bass = b, !.bassRejections = q], page')
      BY <2>1, <3>1, BlandBass DEF IInv
    <3> QED
      BY <3>2, <3>3, Zenon
  <2> QED
    BY <2>2, <2>3
<1>10. ASSUME NEW a, Postpone(a) \/ Refuse(a) PROVE B
  <2>1. Postpone(a) => B
    BY <1>0 DEF Postpone, Update, Bland, Doc
  <2>2. Refuse(a) => B
    BY <1>0 DEF Refuse, Update, Bland, Doc
  <2> QED
    BY <1>10, <2>1, <2>2
<1> QED
  BY <1>1, <1>2, <1>3, <1>4, <1>5, <1>6, <1>7, <1>8, <1>9, <1>10 DEF CaSteps

LEMMA OthersBland ==
  ASSUME TypeOK, SharedSteps \/ DmSteps \/ \E d \in Destinations : Send(d)
  PROVE  Bland(doc', page')
<1> DEFINE B == Bland(doc', page')
<1>0. doc \in Doc /\ doc.bass \in Bass
  BY Fields
<1>1. ASSUME NEW a, ApprovedPremises(a) PROVE B
  BY <1>0, <1>1 DEF ApprovedPremises, Update, Bland, Doc
<1>2. ASSUME NEW f, ApAddress(f) PROVE B
  <2>1. CASE Open("apAddress") /\ doc' = [doc EXCEPT !.apAddress = f] /\ page' \in {"taskList", "apAddress"}
    BY <1>0, <2>1 DEF Bland, Doc
  <2>2. CASE /\ doc' = [doc EXCEPT !.bass = [@ EXCEPT !.exists = TRUE, !.apAddress = f]]
             /\ page' \in {"taskList", "bassApAddress"}
    BY <1>0, <2>2 DEF Bland, Doc, Bass
  <2> QED
    BY <1>2, <2>1, <2>2 DEF ApAddress, Update
<1>3. ASSUME NEW a, ReviewAddress(a) PROVE B
  BY <1>0, <1>3 DEF ReviewAddress, Update, Bland, Doc
<1>4. ASSUME NEW a, AssessRisk(a) PROVE B
  BY <1>0, <1>4 DEF AssessRisk, Update, Bland, Doc
<1>5. ASSUME NEW a, CheckBassArea(a) PROVE B
  BY <1>0, <1>5 DEF CheckBassArea, Update, Bland, Doc, Bass
<1>6. VictimLiaison \/ CurfewHours => B
  <2>1. VictimLiaison => B
    BY <1>0 DEF VictimLiaison, Update, Bland, Doc
  <2>2. CurfewHours => B
    BY <1>0 DEF CurfewHours, Update, Bland, Doc
  <2> QED
    BY <2>1, <2>2
<1>7. ASSUME NEW f, AdditionalConditions(f) \/ ReportingInstructions(f) \/ FinalChecks(f) PROVE B
  <2>1. AdditionalConditions(f) => B
    BY <1>0 DEF AdditionalConditions, Update, Bland, Doc
  <2>2. ReportingInstructions(f) => B
    BY <1>0 DEF ReportingInstructions, Write, Bland, Doc
  <2>3. FinalChecks(f) => B
    BY <1>0 DEF FinalChecks, Update, Bland, Doc
  <2> QED
    BY <1>7, <2>1, <2>2, <2>3
<1>8. DmSteps \/ (\E d \in Destinations : Send(d)) => B
  <2>1. DmSteps \/ (\E d \in Destinations : Send(d))
          => /\ doc' = doc \/ \E a : doc' = [doc EXCEPT !.release = a]
             /\ page' \notin {"bassOffer", "bassWithdrawn"}
    BY DEF DmSteps, Consider, Release, RefuseReason, Send, Write
  <2> QED
    BY <1>0, <2>1 DEF Bland, Doc
<1> QED
  BY <1>1, <1>2, <1>3, <1>4, <1>5, <1>6, <1>7, <1>8 DEF SharedSteps

\* The invariant: a step on the offer has CAS2 as the current choice.
LEMMA OfferInvariant == Spec => []BassInv
<1>1. Init => BassInv
  BY DEF Init, BassInv, EmptyDoc, NoBass
<1>2. ASSUME IInv, BassInv, [Next]_vars PROVE BassInv'
  <2>0. doc \in Doc /\ doc.bass \in Bass
    BY <1>2, Fields DEF IInv
  <2>1. ASSUME Bland(doc', page') PROVE BassInv'
    BY <1>2, <2>1 DEF BassInv, Bland
  <2>2. ASSUME NEW c \in scope.choices, Choose(c) PROVE BassInv'
    <3> DEFINE b == [doc.bass EXCEPT !.exists = TRUE,
                                     !.requested = IF c = "Bass" THEN "Yes" ELSE "No"]
    <3>1. b.requested = IF c = "Bass" THEN "Yes" ELSE "No"
      BY <2>0 DEF Bass
    <3>2. page' \notin {"bassOffer", "bassWithdrawn"}
      BY <2>2 DEF Choose
    <3>3. doc' = [doc EXCEPT !.optOut = IF c = "OptOut" THEN "Yes" ELSE "No",
                             !.addressProposed = IF c = "Address" THEN "Yes" ELSE "No", !.bass = b]
      BY <2>2, Zenon DEF Choose
    <3> HIDE DEF b
    <3>4. doc'.bass = b /\ doc'.addressProposed = IF c = "Address" THEN "Yes" ELSE "No"
      BY <2>0, <3>3 DEF Doc
    <3> QED
      BY <3>1, <3>2, <3>4 DEF BassInv
  <2>3. ASSUME NEW o \in scope.offers, OfferBass(o) PROVE BassInv'
    <3>1. doc.addressProposed = "No"
      BY <1>2, <2>3, OfferReach DEF IInv, OfferBass
    <3>2. doc'.addressProposed = doc.addressProposed
      BY <2>0, <2>3 DEF OfferBass, Update, Doc
    <3> QED
      BY <3>1, <3>2 DEF BassInv
  <2>4. ASSUME NEW what \in {"offer", "request"}, WithdrawBass(what) PROVE BassInv'
    <3>1. doc.addressProposed = "No"
      BY <1>2, <2>4, OfferReach DEF IInv, WithdrawBass
    <3>2. doc'.addressProposed = doc.addressProposed
      BY <2>0, <2>4 DEF WithdrawBass, DeactivateBass, Write, Doc
    <3> QED
      BY <3>1, <3>2 DEF BassInv
  <2>5. ASSUME ReinstateReferral PROVE BassInv'
    <3>1. doc.addressProposed = "No"
      BY <1>2, <2>5, OfferReach DEF IInv, ReinstateReferral
    <3>2. doc'.addressProposed = doc.addressProposed
      BY <2>0, <2>5 DEF ReinstateReferral, ReinstateBass, Write, Doc
    <3> QED
      BY <3>1, <3>2 DEF BassInv
  <2>6. CASE UNCHANGED vars
    BY <1>2, <2>6 DEF vars, BassInv
  <2> QED
    BY <1>2, <2>1, <2>2, <2>3, <2>4, <2>5, <2>6, CaBland, OthersBland DEF IInv, Next
<1> QED
  BY <1>1, <1>2, Invariant, PTL DEF Spec

\* What the task list says of a case whose licence can be printed, in terms of
\* the document.
LEMMA PrintFacts ==
  ASSUME TypeOK, PrintOffered
  PROVE  /\ CreateLicenceOffered(Status)
         /\ stage \in PostApproval
         /\ ~CanSendCaToDmRefusal(Status)
         /\ doc.refusal # "Yes"
<1>1. stage \in Stages
  BY DEF TypeOK
<1>2. CreateLicenceOffered(Status)
  BY <1>1, StatusFields, PrintTask DEF PrintOffered
<1>3. CaTransition(Status) = "none" /\ Status.approved
  BY <1>2 DEF CreateLicenceOffered
<1>4. stage \in PostApproval
  <2>1. CASE stage = "APPROVAL"
    BY <2>1, StatusFields, DmTasks DEF PrintOffered, TaskListPages, PostApproval
  <2> QED
    BY <1>3, <2>1 DEF Status, StatusOf, Approved, SeesApproval
<1>5. ~CanSendCaToDmRefusal(Status)
  BY <1>3 DEF CaTransition
<1>6. doc.refusal # "Yes"
  BY <1>3 DEF Status, StatusOf, Approved
<1> QED
  BY <1>2, <1>4, <1>5, <1>6

LEMMA PrintStatus ==
  ASSUME stage \in PostApproval
  PROVE  /\ Status.approvedPremisesRequired <=> ApprovedPremisesRequired(doc)
         /\ Status.apAddress = ApAddressState(doc)
         /\ Status.curfewAddressApproved = CurfewAddressApproved(doc)
         /\ Status.bassAddress = BassAddressState(doc)
         /\ Status.bassOffer = BassOfferState(doc)
         /\ Status.bassAccepted = doc.bass.accepted
         /\ Status.finalChecksRefused = (doc.refusal = "Yes")
BY DEF Status, StatusOf, Seen, SeesRo, SeesCa, SeesApproval, PostApproval

\* A licence that can be printed prints an address that passed what its kind has
\* to pass.
THEOREM SomewhereToLive == Spec => []PrintNeedsAddress
<1>1. ASSUME IInv, BassInv, PrintOffered PROVE PrintNeedsAddress
  <2>1. /\ CreateLicenceOffered(Status) /\ stage \in PostApproval
        /\ ~CanSendCaToDmRefusal(Status) /\ doc.refusal # "Yes"
    BY <1>1, PrintFacts DEF IInv
  <2>2. doc.bass.accepted \in {"None", "Blank", "Yes", "Unsuitable", "Unavailable"}
    BY <1>1, Fields DEF IInv, Bass
  <2>3. CASE ApprovedPremisesRequired(doc)
    <3>1. ApAddressState(doc) = "DONE"
      BY <2>1, <2>3, PrintStatus DEF CreateLicenceOffered
    <3>2. doc.apAddress \in Fill /\ doc.bass.apAddress \in Fill
      BY <1>1, Fields DEF IInv, Doc, Bass
    <3> QED
      BY <2>3, <3>1, <3>2 DEF PrintNeedsAddress, PrintedAddress, ApAddressState, FillState,
                              ApprovedPremisesRequired
  <2>4. CASE ~ApprovedPremisesRequired(doc) /\ BassReferralNeeded(doc)
    <3>1. BassAddressState(doc) = "DONE"
      BY <2>1, <2>4, PrintStatus, StatusFields DEF CreateLicenceOffered
    <3>2. ~IsBassFailure(Status)
      BY <2>1, <2>4, PrintStatus, StatusFields DEF CanSendCaToDmRefusal
    <3>3. doc.bass.accepted \in {"Blank", "Yes"}
      BY <2>1, <2>2, <3>1, <3>2, PrintStatus DEF BassAddressState, IsBassFailure, BassTurnedDown
    <3>4. CASE doc.bass.accepted = "Yes"
      BY <2>4, <3>1, <3>4 DEF BassAddressState, PrintNeedsAddress, PrintedAddress,
                              BassReferralNeeded, ApprovedPremisesRequired
    <3>5. CASE doc.bass.accepted = "Blank"
      <4>1. ValidAddress(Status) /\ Status.bassOffer # "DONE"
        BY <2>1, <3>5, PrintStatus DEF CreateLicenceOffered, BassOfferState
      <4>2. CurfewAddressApproved(doc)
        BY <2>1, <2>4, <4>1, PrintStatus, StatusFields DEF ValidAddress, BassOfferMade
      <4> QED
        BY <1>1, <2>4, <3>5, <4>2 DEF CurfewAddressApproved, IInv, AddressInv, Reviewed, NoReview,
             PrintNeedsAddress, PrintedAddress, ApprovedPremisesRequired
    <3> QED
      BY <3>3, <3>4, <3>5
  <2>5. CASE ~ApprovedPremisesRequired(doc) /\ ~BassReferralNeeded(doc)
    <3>1. CurfewAddressApproved(doc)
      BY <2>1, <2>5, PrintStatus, StatusFields DEF CreateLicenceOffered, ValidAddress, BassOfferMade
    <3>2. PrintedAddress(doc) = "residence"
      BY <1>1, <2>5 DEF BassInv, BassReferralNeeded, PrintedAddress, ApprovedPremisesRequired
    <3> QED
      BY <1>1, <2>5, <3>1, <3>2 DEF CurfewAddressApproved, IInv, AddressInv, Reviewed, NoReview,
           PrintNeedsAddress
  <2> QED
    BY <2>3, <2>4, <2>5
<1>2. IInv /\ BassInv => PrintNeedsAddress
  BY <1>1 DEF PrintNeedsAddress
<1> QED
  BY <1>2, Invariant, OfferInvariant, PTL

-----------------------------------------------------------------------------
(* The case lists.  A label is the first of a table whose condition holds.   *)

LEMMA Least ==
  ASSUME NEW A, A \subseteq 1..8, A # {}
  PROVE  \E i \in A : \A j \in A : i <= j
<1>1. ASSUME NEW k \in 1..8, k \in A, \A j \in 1..(k - 1) : j \notin A
      PROVE  \E i \in A : \A j \in A : i <= j
  BY <1>1
<1>2. 1 \in A \/ 2 \in A \/ 3 \in A \/ 4 \in A \/ 5 \in A \/ 6 \in A \/ 7 \in A \/ 8 \in A
  <2>1. PICK x \in A : TRUE
    OBVIOUS
  <2>2. x \in 1..8
    OBVIOUS
  <2> QED
    BY <2>2
<1>3. \A j \in 1..7 : j \in {1, 2, 3, 4, 5, 6, 7}
  OBVIOUS
<1> QED
  BY <1>1, <1>2, <1>3

LEMMA FirstOf ==
  ASSUME NEW n \in 0..8, NEW labels, DOMAIN labels = 1..n, NEW otherwise
  PROVE  \/ FirstLabel(labels, otherwise) = otherwise /\ \A i \in 1..n : ~labels[i][1]
         \/ \E i \in 1..n : /\ labels[i][1] /\ FirstLabel(labels, otherwise) = labels[i][2]
                            /\ \A j \in 1..(i - 1) : ~labels[j][1]
<1> DEFINE applying == {i \in 1..n : labels[i][1]}
<1>1. CASE applying = {}
  BY <1>1 DEF FirstLabel
<1>2. CASE applying # {}
  <2>1. applying \subseteq 1..8
    OBVIOUS
  <2>2. \E i \in applying : \A j \in applying : i <= j
    BY <1>2, <2>1, Least
  <2> DEFINE k == CHOOSE i \in applying : \A j \in applying : i <= j
  <2>3. FirstLabel(labels, otherwise) = labels[k][2]
    BY <1>2 DEF FirstLabel
  <2>4. k \in applying /\ \A j \in applying : k <= j
    BY <2>2
  <2>5. \A j \in 1..(k - 1) : j \in 1..n /\ ~(k <= j)
    BY <2>4
  <2> QED
    BY <2>3, <2>4, <2>5
<1> QED
  BY <1>1, <1>2

LEMMA EligibilityLabel ==
  ASSUME NEW d, CaEligibilityLabel(d) = "AddressNotSuitable"
  PROVE  CurfewAddressRejected(d) /\ d.optOut # "Yes" /\ ~BassReferralNeeded(d)
<1> DEFINE t == << <<d.excluded = "Yes", "NotEligible">>,
                   <<UnsuitableResult(d), "PresumedUnsuitable">>,
                   <<d.crdTime \in {"Yes", "Continue", "Stop"}, "NotEnoughTime">>,
                   <<d.optOut = "Yes", "OptedOut">>,
                   <<BassReferralNeeded(d), "Eligible">>,
                   <<CurfewAddressRejected(d), "AddressNotSuitable">>,
                   <<Eligible(d), "Eligible">> >>
<1>1. FirstLabel(t, "NotStarted") = "AddressNotSuitable"
  BY DEF CaEligibilityLabel
<1>2. DOMAIN t = 1..7 /\ 7 \in 0..8
  OBVIOUS
<1>3. /\ t[4][1] <=> d.optOut = "Yes"
      /\ t[5][1] <=> BassReferralNeeded(d)
      /\ t[6][1] <=> CurfewAddressRejected(d)
  OBVIOUS
<1>4. \A i \in 1..7 : i # 6 => t[i][2] # "AddressNotSuitable"
  <2>1. /\ t[1][2] = "NotEligible" /\ t[2][2] = "PresumedUnsuitable"
        /\ t[3][2] = "NotEnoughTime" /\ t[4][2] = "OptedOut" /\ t[5][2] = "Eligible"
        /\ t[7][2] = "Eligible"
    OBVIOUS
  <2> HIDE DEF t
  <2> QED
    BY <2>1
<1> HIDE DEF t
<1>5. t[6][1] /\ \A j \in 1..5 : ~t[j][1]
  BY <1>1, <1>2, <1>4, FirstOf
<1> QED
  BY <1>3, <1>5

LEMMA ProcessingLabel ==
  ASSUME NEW d
  PROVE  /\ CaProcessingLabel(d) = "AddressNotSuitable"
              => /\ CurfewAddressRejected(d) /\ d.optOut # "Yes" /\ d.refusal # "Yes"
                 /\ ~BassReferralNeeded(d) /\ ~ApprovedPremisesRequired(d)
         /\ Eligible(d) /\ d.optOut # "Yes" /\ d.refusal # "Yes"
              /\ (BassReferralNeeded(d) => ~BassWithdrawn(d))
                => CaProcessingLabel(d) \notin Inactive
<1> DEFINE byOffer ==
             FirstLabel(<< <<BassWithdrawalReason(d) = "offer", "CAS2OfferWithdrawn">>,
                           <<BassWithdrawalReason(d) = "request", "CAS2RequestWithdrawn">> >>,
                        "AddressSuitable")
           otherwise == IF BassReferralNeeded(d) THEN byOffer ELSE AddressRouteLabel(d)
           common == << <<d.refusal = "Yes", "Refused">>,
                        <<d.postpone = "Yes", "Postponed">>,
                        <<d.excluded = "Yes", "NotEligible">>,
                        <<d.optOut = "Yes", "OptedOut">>,
                        <<ApprovedPremisesRequired(d), "ApprovedPremises">> >>
<1>1. CaProcessingLabel(d) = FirstLabel(common, otherwise)
  BY DEF CaProcessingLabel, CommonLabel
<1>2. /\ byOffer # "AddressNotSuitable"
      /\ ~BassWithdrawn(d) => byOffer = "AddressSuitable"
  <2> DEFINE t == << <<BassWithdrawalReason(d) = "offer", "CAS2OfferWithdrawn">>,
                     <<BassWithdrawalReason(d) = "request", "CAS2RequestWithdrawn">> >>
  <2>1. DOMAIN t = 1..2 /\ 2 \in 0..8
    OBVIOUS
  <2>2. /\ t[1][1] <=> BassWithdrawalReason(d) = "offer"
        /\ t[2][1] <=> BassWithdrawalReason(d) = "request"
        /\ t[1][2] = "CAS2OfferWithdrawn" /\ t[2][2] = "CAS2RequestWithdrawn"
    OBVIOUS
  <2>3. ~BassWithdrawn(d) => BassWithdrawalReason(d) \notin {"offer", "request"}
    BY DEF BassWithdrawn, BassWithdrawalReason
  <2> HIDE DEF t
  <2>4. FirstLabel(t, "AddressSuitable") # "AddressNotSuitable"
    BY <2>1, <2>2, FirstOf
  <2>5. ~BassWithdrawn(d) => ~t[1][1] /\ ~t[2][1]
    BY <2>2, <2>3
  <2>6. ~BassWithdrawn(d) => FirstLabel(t, "AddressSuitable") = "AddressSuitable"
    BY <2>1, <2>5, FirstOf
  <2> QED
    BY <2>4, <2>6 DEF t
<1>3. /\ AddressRouteLabel(d) = "AddressNotSuitable" => CurfewAddressRejected(d)
      /\ Eligible(d) => AddressRouteLabel(d) \in {"AddressNotSuitable", "AddressSuitable"}
  <2> DEFINE t == << <<CurfewAddressRejected(d), "AddressNotSuitable">>,
                     <<UnsuitableResult(d), "PresumedUnsuitable">>,
                     <<InsufficientTimeStop(d), "NotEnoughTime">> >>
  <2>1. DOMAIN t = 1..3 /\ 3 \in 0..8
    OBVIOUS
  <2>2. /\ t[1][1] <=> CurfewAddressRejected(d)
        /\ t[2][1] <=> UnsuitableResult(d)
        /\ t[3][1] <=> InsufficientTimeStop(d)
    OBVIOUS
  <2>3. /\ t[1][2] = "AddressNotSuitable" /\ t[2][2] = "PresumedUnsuitable"
        /\ t[3][2] = "NotEnoughTime"
    OBVIOUS
  <2>4. Eligible(d) => ~UnsuitableResult(d) /\ ~InsufficientTimeStop(d)
    BY DEF Eligible, NotEligible, UnsuitableResult
  <2>5. AddressRouteLabel(d) = FirstLabel(t, "AddressSuitable")
    BY DEF AddressRouteLabel
  <2> HIDE DEF t
  <2> QED
    BY <2>1, <2>2, <2>3, <2>4, <2>5, FirstOf
<1>4. DOMAIN common = 1..5 /\ 5 \in 0..8
  OBVIOUS
<1>5. /\ common[1][1] <=> d.refusal = "Yes"
      /\ common[3][1] <=> d.excluded = "Yes"
      /\ common[4][1] <=> d.optOut = "Yes"
      /\ common[5][1] <=> ApprovedPremisesRequired(d)
  OBVIOUS
<1>6. /\ common[1][2] = "Refused" /\ common[2][2] = "Postponed" /\ common[3][2] = "NotEligible"
      /\ common[4][2] = "OptedOut" /\ common[5][2] = "ApprovedPremises"
  OBVIOUS
<1> HIDE DEF common, byOffer
<1>7. ASSUME CaProcessingLabel(d) = "AddressNotSuitable"
      PROVE  /\ CurfewAddressRejected(d) /\ d.optOut # "Yes" /\ d.refusal # "Yes"
             /\ ~BassReferralNeeded(d) /\ ~ApprovedPremisesRequired(d)
  <2>1. otherwise = "AddressNotSuitable" /\ \A i \in 1..5 : ~common[i][1]
    <3> HIDE DEF otherwise
    <3>1. /\ common[1][2] # "AddressNotSuitable" /\ common[2][2] # "AddressNotSuitable"
          /\ common[3][2] # "AddressNotSuitable" /\ common[4][2] # "AddressNotSuitable"
          /\ common[5][2] # "AddressNotSuitable"
      BY <1>6
    <3>2. \A i \in 1..5 : common[i][2] # "AddressNotSuitable"
      BY <3>1
    <3>3. \/ FirstLabel(common, otherwise) = otherwise /\ \A i \in 1..5 : ~common[i][1]
          \/ \E i \in 1..5 : FirstLabel(common, otherwise) = common[i][2]
      BY <1>4, FirstOf
    <3> QED
      BY <1>1, <1>7, <3>2, <3>3
  <2> QED
    BY <1>2, <1>3, <1>5, <2>1
<1>8. ASSUME Eligible(d), d.optOut # "Yes", d.refusal # "Yes",
             BassReferralNeeded(d) => ~BassWithdrawn(d)
      PROVE  CaProcessingLabel(d) \notin Inactive
  <2>1. d.excluded # "Yes"
    BY <1>8 DEF Eligible, NotEligible
  <2>2. otherwise \in {"AddressNotSuitable", "AddressSuitable"}
    BY <1>2, <1>3, <1>8
  <2> HIDE DEF otherwise
  <2>3. CaProcessingLabel(d) \in {otherwise, "Postponed", "ApprovedPremises"}
    BY <1>1, <1>4, <1>5, <1>6, <1>8, <2>1, FirstOf
  <2> QED
    BY <2>2, <2>3 DEF Inactive
<1> QED
  BY <1>7, <1>8

LEMMA RoLabel ==
  ASSUME NEW d, d.optOut # "Yes"
  PROVE  /\ RoProcessingLabel(d) \notin Inactive
         /\ BassReferralNeeded(d) /\ BassAreaNotSuitable(d)
              => RoProcessingLabel(d) = "CAS2AreaRejected"
<1> DEFINE started == {BassAreaCheckState(d), ReviewState(d), ApAddressState(d), FillState(d.hours),
                       FillState(d.conditions), RiskState(d), FillState(d.victim),
                       FillState(d.reporting)}
           t == << <<d.optOut = "Yes", "OptedOut">>,
                   <<BassReferralNeeded(d) /\ BassAreaCheckState(d) = "UNSTARTED", "NotStarted">>,
                   <<BassReferralNeeded(d) /\ BassAreaNotSuitable(d), "CAS2AreaRejected">>,
                   <<started # {"UNSTARTED"}, "InProgress">> >>
<1>1. RoProcessingLabel(d) = FirstLabel(t, "NotStarted")
  BY DEF RoProcessingLabel
<1>2. DOMAIN t = 1..4 /\ 4 \in 0..8
  OBVIOUS
<1>3. /\ t[1][1] <=> d.optOut = "Yes"
      /\ t[2][1] <=> BassReferralNeeded(d) /\ BassAreaCheckState(d) = "UNSTARTED"
      /\ t[3][1] <=> BassReferralNeeded(d) /\ BassAreaNotSuitable(d)
  OBVIOUS
<1>4. /\ t[1][2] = "OptedOut" /\ t[2][2] = "NotStarted" /\ t[3][2] = "CAS2AreaRejected"
      /\ t[4][2] = "InProgress"
  OBVIOUS
<1>5. BassAreaNotSuitable(d) => BassAreaCheckState(d) # "UNSTARTED"
  BY DEF BassAreaNotSuitable, BassAreaCheckState
<1> HIDE DEF t
<1>6. RoProcessingLabel(d) \in {"NotStarted", "CAS2AreaRejected", "InProgress"}
  BY <1>1, <1>2, <1>3, <1>4, FirstOf
<1>7. ASSUME BassReferralNeeded(d), BassAreaNotSuitable(d)
      PROVE  RoProcessingLabel(d) = "CAS2AreaRejected"
  <2>1. ~t[1][1] /\ ~t[2][1] /\ t[3][1]
    BY <1>3, <1>5, <1>7
  <2> QED
    BY <1>1, <1>2, <1>4, <2>1, FirstOf
<1> QED
  BY <1>6, <1>7 DEF Inactive

LEMMA DecidedLabel ==
  ASSUME NEW role \in Roles, NEW st \in Stages, NEW d
  PROVE  /\ DecisionLabel(role, st, d) # "AddressNotSuitable"
         /\ Approved(st, d) /\ d.postpone # "Yes" => DecisionLabel(role, st, d) = "Approved"
<1> DEFINE t == << <<role = "CA" /\ d.postpone = "Yes", "Postponed">>,
                   <<Approved(st, d), "Approved">>,
                   <<d.release = "No" \/ d.refusal = "Yes", "Refused">> >>
<1>1. DecisionLabel(role, st, d) = FirstLabel(t, "NotComplete")
  BY DEF DecisionLabel
<1>2. DOMAIN t = 1..3 /\ 3 \in 0..8
  OBVIOUS
<1>3. /\ t[1][1] <=> (role = "CA" /\ d.postpone = "Yes")
      /\ t[2][1] <=> Approved(st, d)
  OBVIOUS
<1>4. t[1][2] = "Postponed" /\ t[2][2] = "Approved" /\ t[3][2] = "Refused"
  OBVIOUS
<1> HIDE DEF t
<1>5. FirstLabel(t, "NotComplete") \in {"NotComplete", "Postponed", "Approved", "Refused"}
  BY <1>2, <1>4, FirstOf
<1>6. ASSUME Approved(st, d), d.postpone # "Yes" PROVE FirstLabel(t, "NotComplete") = "Approved"
  <2>1. ~t[1][1] /\ t[2][1]
    BY <1>3, <1>6
  <2> QED
    BY <1>2, <1>4, <2>1, FirstOf
<1> QED
  BY <1>1, <1>5, <1>6

\* Whoever is on the list to be reviewed has not opted out.
OptInv == stage = "PROCESSING_RO" => doc.optOut # "Yes"

LEMMA ReviewTask ==
  ASSUME NEW s, s.stage \in Stages, NEW q \in {"reviewBassRequest", "reviewCurfewAddress"},
         q \in TaskListPages(s)
  PROVE  ~s.optedOut
<1> USE CaPages DEF When, EligibilityPages
<1>1. q \in ReviewPage(s) => ~s.optedOut
  BY DEF ReviewPage
<1>2. q \in CaEligibilityPages(s) => q \in ReviewPage(s)
  BY DEF CaEligibilityPages
<1>3. q \in CaProcessingPages(s) => q \in ReviewPage(s)
  BY DEF CaProcessingPages
<1>4. q \in CaPostApprovalPages(s) => q \in ReviewPage(s)
  BY DEF CaPostApprovalPages
<1> QED
  BY <1>1, <1>2, <1>3, <1>4, RoTasks, DmTasks DEF TaskListPages, Stages, PostApproval

LEMMA ReviewReach ==
  ASSUME TypeOK, NEW p \in {"send/addressReview", "send/bassReview"}, Open(p)
  PROVE  doc.optOut # "Yes"
<1> DEFINE T == TaskListPages(Status)
<1>1. p \notin T \cup {page}
  <2>1. T \in {CaEligibilityPages(Status), CaProcessingPages(Status), CaPostApprovalPages(Status),
               RoPages(Status), DmPages(Status)}
    BY StatusFields DEF TypeOK, TaskListPages, Stages, PostApproval
  <2>2. p \notin CaTargets
    BY DEF CaTargets, CaForms, EligibilityForms
  <2>3. p \notin T
    BY <2>1, <2>2, CaTasks, RoTasks, DmTasks
  <2> QED
    BY <2>3 DEF TypeOK, Landings
<1>2. \E q \in {"reviewBassRequest", "reviewCurfewAddress"} : q \in T
  BY <1>1, Within DEF Open, TypeOK, Landings
<1>3. ~Status.optedOut
  BY <1>2, ReviewTask, StatusFields DEF TypeOK
<1> QED
  BY <1>3 DEF Status, StatusOf

\* A case gets to the community by being sent there for review.
LEMMA CommunityStep ==
  ASSUME Next, stage' = "PROCESSING_RO"
  PROVE  \/ stage = "PROCESSING_RO"
         \/ \E p \in {"send/addressReview", "send/bassReview"} : Send(p)
<1>1. ASSUME NEW d, NEW n, NEW approval, Update(d, n, approval) \/ Write(d, n)
      PROVE  stage = "PROCESSING_RO"
  BY <1>1 DEF Update, Write, ModifiedStage
<1>2. CaSteps => stage = "PROCESSING_RO"
  BY <1>1 DEF CaSteps, Excluded, Suitable, Exceptional, CrdTime, Choose, EnterAddress, AnswerRejected,
     NewAddress, NewBass, Withdraw, ReinstateAddress, ChooseApprovedPremises,
     ChooseBassApprovedPremises, RequestBass, AnswerBassRejected, OfferBass, WithdrawBass,
     ReinstateReferral, Postpone, Refuse
<1>3. SharedSteps => stage = "PROCESSING_RO"
  BY <1>1 DEF SharedSteps, ApprovedPremises, ApAddress, ReviewAddress, AssessRisk, CheckBassArea,
     VictimLiaison, CurfewHours, AdditionalConditions, ReportingInstructions, FinalChecks
<1>4. DmSteps => stage = "PROCESSING_RO"
  BY <1>1 DEF DmSteps, Consider, Release, RefuseReason
<1>5. ASSUME NEW d \in Destinations, Send(d)
      PROVE  d \in {"send/addressReview", "send/bassReview"}
  BY <1>5 DEF Send, NewStage
<1> QED
  BY <1>2, <1>3, <1>4, <1>5 DEF Next

LEMMA OptedIn == Spec => []OptInv
<1>1. Init => OptInv
  BY DEF Init, OptInv
<1>2. ASSUME IInv, OptInv, [Next]_vars PROVE OptInv'
  <2>1. CASE UNCHANGED vars
    BY <1>2, <2>1 DEF vars, OptInv
  <2>2. ASSUME NEW p \in {"send/addressReview", "send/bassReview"}, Send(p) PROVE OptInv'
    <3>1. doc' = doc /\ doc.optOut # "Yes"
      BY <1>2, <2>2, ReviewReach DEF IInv, Send
    <3> QED
      BY <3>1 DEF OptInv
  <2>3. ASSUME Next, stage = "PROCESSING_RO" PROVE OptInv'
    <3>1. CASE Bland(doc', page')
      BY <1>2, <2>3, <3>1 DEF Bland, OptInv
    <3>2. ASSUME NEW p \in {"choice", "bassOffer"} PROVE ~Open(p)
      <4>1. p \in CaForms
        BY DEF CaForms
      <4> QED
        BY <1>2, <2>3, <4>1, OpenReach DEF Where
    <3>3. CASE CaSteps
      BY <1>2, <3>1, <3>2, <3>3, CaBland DEF Choose, OfferBass, WithdrawBass, ReinstateReferral
    <3>4. CASE SharedSteps \/ DmSteps \/ \E d \in Destinations : Send(d)
      BY <1>2, <3>1, <3>4, OthersBland DEF IInv
    <3> QED
      BY <2>3, <3>3, <3>4 DEF Next
  <2> QED
    BY <1>2, <2>1, <2>2, <2>3, CommunityStep DEF OptInv
<1> QED
  BY <1>1, <1>2, Invariant, PTL DEF Spec

\* The case list and the task list agree.
THEOREM ListsAgree == Spec => []ListAgrees
<1> DEFINE offered == TaskListPages(Status)
           listed(role) == Label(role, stage, doc)
           active(role) == OnTab(role, stage, doc) = "active"
           inHand(role) == active(role) /\ RowLeadsTo(role, stage) = "taskList"
<1>1. ASSUME IInv, OptInv PROVE ListAgrees
  <2>0. stage \in Stages
    BY <1>1 DEF IInv, TypeOK
  <2>1. ASSUME stage = "PROCESSING_RO"
        PROVE  /\ inHand("RO")
               /\ "send/bassAreaRejected" \in offered =>
                    CheckLeftOver \/ listed("RO") = "CAS2AreaRejected"
    <3>1. doc.optOut # "Yes"
      BY <1>1, <2>1 DEF OptInv
    <3>2. listed("RO") = RoProcessingLabel(doc)
      BY <2>1 DEF Label, WithCommunityLabel
    <3>3. inHand("RO")
      BY <2>1, <3>1, <3>2, RoLabel DEF OnTab, Shown, RowLeadsTo
    <3>4. "send/bassAreaRejected" \in offered => BassAreaNotSuitable(doc)
      <4>1. offered = RoPages(Status)
        BY <2>1, StatusFields DEF TaskListPages, PostApproval
      <4>2. Status.bassAreaNotSuitable = BassAreaNotSuitable(doc)
        BY DEF Status, StatusOf
      <4> QED
        BY <4>1, <4>2 DEF RoPages, SubmitToCaPage, When
    <3> QED
      BY <3>1, <3>2, <3>3, <3>4, RoLabel DEF CheckLeftOver
  <2>2. ASSUME stage = "APPROVAL"
        PROVE  /\ inHand("DM")
               /\ listed("DM") = "AwaitingRefusal" <=> "send/return" \notin offered
    <3>1. listed("DM") = IF InsufficientTimeStop(doc) THEN "AwaitingRefusal" ELSE "NotStarted"
      BY <2>2 DEF Label
    <3>2. offered = DmPages(Status)
      BY <2>2, StatusFields DEF TaskListPages, PostApproval
    <3>3. "send/return" \notin offered <=> InsufficientTimeStop(doc)
      BY <3>2, StatusFields DEF DmPages
    <3> QED
      BY <2>2, <3>1, <3>3 DEF OnTab, Shown, RowLeadsTo, Inactive, PostApproval
  <2>3. ASSUME stage = "PROCESSING_CA", "send/approval" \in offered PROVE inHand("CA")
    <3>1. listed("CA") = CaProcessingLabel(doc)
      BY <2>3 DEF Label, WithPrisonLabel
    <3>2. offered = CaProcessingPages(Status)
      BY <2>3, StatusFields DEF TaskListPages, PostApproval
    <3>3. Eligible(doc)
      BY <2>3, <3>2, CaTasks, StatusFields
    <3>4. ~Status.optedOut /\ "send/approval" \in SubmitPages(Status)
      BY <2>3, <3>2, CaPages DEF CaProcessingPages, When, EligibilityPages
    <3>5. CanSendCaToDm(Status) /\ ~CanSendCaToDmRefusal(Status)
      BY <3>4 DEF SubmitPages, When, CaTransition
    <3>6. /\ Status.optedOut = (doc.optOut = "Yes")
          /\ Status.finalChecksRefused = (doc.refusal = "Yes")
          /\ Status.bassWithdrawn = (SeesCa(stage) /\ BassWithdrawn(doc))
      BY <2>3 DEF Status, StatusOf, SeesCa
    <3>7. ~Status.insufficientTimeStop
      BY <3>3, StatusFields DEF Eligible, NotEligible
    <3>8. doc.refusal # "Yes"
      BY <2>3, <3>5, <3>6, <3>7, StatusFields DEF CanSendCaToDm
    <3>9. BassReferralNeeded(doc) => ~BassWithdrawn(doc)
      BY <2>3, <3>5, <3>6, <3>8, StatusFields DEF CanSendCaToDmRefusal, IsBassFailure, SeesCa
    <3>10. CaProcessingLabel(doc) \notin Inactive
      BY <3>3, <3>4, <3>6, <3>8, <3>9, ProcessingLabel
    <3> QED
      BY <2>3, <3>1, <3>10 DEF OnTab, Shown, RowLeadsTo
  <2>4. ASSUME listed("CA") = "AddressNotSuitable", Eligible(doc) PROVE "send/refusal" \in offered
    <3>1. stage \in {"ELIGIBILITY", "PROCESSING_CA"}
      BY <2>0, <2>4, DecidedLabel DEF Label, WithCommunityLabel, Stages, Roles
    <3>2. CurfewAddressRejected(doc) /\ doc.optOut # "Yes" /\ ~BassReferralNeeded(doc)
      BY <2>4, <3>1, EligibilityLabel, ProcessingLabel DEF Label, WithPrisonLabel
    <3>3. /\ Status.curfewAddressRejected = CurfewAddressRejected(doc)
          /\ Status.optedOut = (doc.optOut = "Yes")
      BY DEF Status, StatusOf
    <3>4. CASE stage = "ELIGIBILITY"
      <4>1. CaTransition(Status) = "caToDmRefusal"
        BY <2>4, <3>2, <3>3, <3>4, StatusFields DEF CaTransition, CanSendCaToDmRefusal
      <4>2. "send/refusal" \in SubmitPages(Status)
        BY <3>2, <3>3, <4>1 DEF SubmitPages, When
      <4>3. offered = CaEligibilityPages(Status)
        BY <3>4, StatusFields DEF TaskListPages, PostApproval
      <4> QED
        BY <4>1, <4>2, <4>3 DEF CaEligibilityPages, When
    <3>5. CASE stage = "PROCESSING_CA"
      <4>1. doc.refusal # "Yes"
        BY <2>4, <3>5, ProcessingLabel DEF Label, WithPrisonLabel
      <4>2. Status.finalChecksRefused = (doc.refusal = "Yes")
        BY <3>5 DEF Status, StatusOf, SeesCa
      <4>3. CaTransition(Status) = "caToDmRefusal"
        BY <3>2, <3>3, <3>5, <4>1, <4>2, StatusFields DEF CaTransition, CanSendCaToDmRefusal
      <4> QED
        BY <2>4, <3>2, <3>3, <3>5, <4>3, StatusFields
        DEF TaskListPages, CaProcessingPages, SubmitPages, When, PostApproval
    <3> QED
      BY <3>1, <3>4, <3>5
  <2>5. ASSUME PrintOffered
        PROVE  inHand("CA") /\ \A role \in Roles : listed(role) = "Approved" /\ active(role)
    <3>1. CreateLicenceOffered(Status) /\ stage \in PostApproval
      BY <1>1, <2>5, PrintFacts DEF IInv
    <3>2. Approved(stage, doc) /\ doc.postpone # "Yes"
      BY <3>1 DEF CreateLicenceOffered, Status, StatusOf, SeesCa, PostApproval
    <3>3. ASSUME NEW role \in Roles PROVE listed(role) = "Approved"
      <4>1. listed(role) = DecisionLabel(role, stage, doc)
        BY <3>1 DEF Label, PostApproval
      <4> QED
        BY <2>0, <3>2, <4>1, DecidedLabel
    <3>4. ASSUME NEW role \in Roles PROVE active(role)
      BY <3>1, <3>3 DEF OnTab, Shown, Inactive, PostApproval, Roles
    <3>5. RowLeadsTo("CA", stage) = "taskList" /\ "CA" \in Roles
      BY <3>1 DEF RowLeadsTo, PostApproval, Roles
    <3> QED
      BY <3>3, <3>4, <3>5
  <2> QED
    BY <2>1, <2>2, <2>3, <2>4, <2>5 DEF ListAgrees
<1>2. IInv /\ OptInv => ListAgrees
  BY <1>1
<1> QED
  BY <1>2, Invariant, OptedIn, PTL

-----------------------------------------------------------------------------
(* Addresses given up and taken back. *)

LEMMA RoundTrip ==
  ASSUME NEW d \in Doc, d.address # NoAddress, NEW reason \in {"withdrawAddress", "withdrawConsent"}
  PROVE  Reinstate(Reject(d, reason)) = d
<1> DEFINE e == [address |-> d.address, review |-> d.review, suitability |-> d.suitable,
                 withdrawal |-> reason]
           q == Append(d.rejections, e)
           x == [Put(d, NoReview, NoSuitability, NoAddress) EXCEPT !.rejections = q]
<1>1. e \in Rejection /\ d.rejections \in Seq(Rejection) /\ d.suitable \in Suitability
  BY DEF Doc, Rejection
<1>2. q[Len(q)] = e /\ Front(q) = d.rejections
  BY <1>1, SeqFacts
<1>3. x.rejections = q /\ x.review = NoReview /\ x.suitable = NoSuitability /\ x.address = NoAddress
  BY DEF Put, Doc
<1>4. Reject(d, reason) = x
  BY DEF Reject, Put, Doc
<1>5. Over(e.review, x.review, NoReview) = d.review /\ Over(e.address, x.address, NoAddress) = d.address
  BY <1>3 DEF Over
<1>6. [suitable |-> Over(e.suitability.suitable, x.suitable.suitable, "None"),
       manage |-> Over(e.suitability.manage, x.suitable.manage, "None"),
       checks |-> Over(e.suitability.checks, x.suitable.checks, "None")] = d.suitable
  BY <1>1, <1>3 DEF Over, NoSuitability, Suitability
<1>7. Put(x, d.review, d.suitable, d.address).rejections = q
  BY <1>3 DEF Put, Doc
<1> HIDE DEF e, q
<1>8. [Put(x, d.review, d.suitable, d.address) EXCEPT !.rejections = d.rejections] = d
  BY DEF Put, Doc
<1> HIDE DEF x
<1>9. Reinstate(x) = [Put(x, d.review, d.suitable, d.address) EXCEPT !.rejections = d.rejections]
  BY <1>2, <1>3, <1>5, <1>6, <1>7 DEF Reinstate
<1> QED
  BY <1>4, <1>8, <1>9

LEMMA BassRoundTrip ==
  ASSUME NEW d \in Doc, d.bass.exists
  PROVE  ReinstateBass(DeactivateBass(d, "Yes", "offer")) = d
<1> DEFINE e == [bass |-> d.bass, withdrawal |-> "offer"]
           q == Append(d.bassRejections, e)
           b == [NoBass EXCEPT !.exists = TRUE, !.requested = "Yes"]
           x == [d EXCEPT !.bass = b, !.bassRejections = q]
<1>1. e \in BassRejection /\ d.bassRejections \in Seq(BassRejection)
  BY DEF Doc, BassRejection
<1>2. q[Len(q)] = e /\ Front(q) = d.bassRejections
  BY <1>1, SeqFacts
<1> HIDE DEF b, q
<1>3. x.bassRejections = q
  BY DEF Doc
<1>4. [x EXCEPT !.bass = d.bass, !.bassRejections = d.bassRejections] = d
  BY DEF Doc
<1>5. DeactivateBass(d, "Yes", "offer") = x
  BY DEF DeactivateBass, b, q, x
<1>6. \A y \in Doc : ReinstateBass(y) =
        [y EXCEPT !.bass = y.bassRejections[Len(y.bassRejections)].bass,
                  !.bassRejections = Front(y.bassRejections)]
  BY DEF ReinstateBass, Doc
<1>7. x \in Doc
  BY <1>5, DeactivateType
<1> HIDE DEF x
<1>8. ReinstateBass(x) = [x EXCEPT !.bass = d.bass, !.bassRejections = d.bassRejections]
  <2>1. x.bassRejections[Len(x.bassRejections)].bass = d.bass
    <3>1. e.bass = d.bass
      OBVIOUS
    <3> HIDE DEF e
    <3> QED
      BY <1>2, <1>3, <3>1, Zenon
  <2>2. Front(x.bassRejections) = d.bassRejections
    BY <1>2, <1>3, Zenon
  <2> QED
    BY <1>6, <1>7, <2>1, <2>2, Zenon
<1> QED
  BY <1>4, <1>5, <1>8

\* Withdrawing an address or a referral and reinstating it changes nothing.
THEOREM WithdrawalIsUndone == Spec => []WithdrawalUndone
<1>1. TypeOK => WithdrawalUndone
  BY RoundTrip, BassRoundTrip DEF TypeOK, WithdrawalUndone
<1> QED
  BY <1>1, TypeCorrect, PTL

Still == doc'.address = doc.address /\ doc'.rejections = doc.rejections

LEMMA DocWritten ==
  ASSUME NEW d, NEW n, NEW approval, Update(d, n, approval) \/ Write(d, n)
  PROVE  doc' = d
BY DEF Update, Write

\* Only four forms touch the addresses.
LEMMA CaStill ==
  ASSUME TypeOK, CaSteps
  PROVE  \/ Still
         \/ \E reason : doc' = Reject(doc, reason)
         \/ doc' = Reinstate(doc) /\ AddressGivenUp
         \/ \E a \in scope.addresses : EnterAddress(a)
<1>0. doc \in Doc
  BY Fields
<1>1. ASSUME NEW a, Excluded(a) \/ Suitable(a) \/ Exceptional(a) \/ CrdTime(a) PROVE Still
  <2>1. \/ doc' = [doc EXCEPT !.excluded = a]
        \/ doc' = [doc EXCEPT !.suitability = a]
        \/ doc' = [doc EXCEPT !.exceptional = a]
        \/ doc' = [doc EXCEPT !.crdTime = a]
    BY <1>1, DocWritten DEF Excluded, Suitable, Exceptional, CrdTime
  <2> QED
    BY <1>0, <2>1 DEF Still, Doc
<1>2. ASSUME NEW c, Choose(c) \/ ChooseApprovedPremises(c) \/ ChooseBassApprovedPremises(c) PROVE Still
  <2>1. CASE Choose(c)
    BY <1>0, <2>1 DEF Choose, Still, Doc
  <2>2. CASE ChooseApprovedPremises(c)
    BY <1>0, <2>2 DEF ChooseApprovedPremises, Write, Still, Doc
  <2>3. CASE ChooseBassApprovedPremises(c)
    BY <1>0, <2>3 DEF ChooseBassApprovedPremises, Write, Still, Doc
  <2> QED
    BY <1>2, <2>1, <2>2, <2>3
<1>3. ASSUME NEW b, AnswerRejected(b) PROVE Still \/ doc' = Reject(doc, "none")
  BY <1>3 DEF AnswerRejected, Write, Still
<1>4. ASSUME NEW b, NewAddress(b) \/ NewBass(b) PROVE Still
  BY <1>4 DEF NewAddress, NewBass, Write, Still
<1>5. ASSUME NEW r, Withdraw(r) PROVE doc' = Reject(doc, r)
  BY <1>5 DEF Withdraw, Write
<1>6. ReinstateAddress => doc' = Reinstate(doc) /\ AddressGivenUp
  BY DEF ReinstateAddress, Write
<1>7. ASSUME NEW b, NEW q,
             doc' = [doc EXCEPT !.bass = b] \/ doc' = [doc EXCEPT !.bass = b, !.bassRejections = q]
      PROVE  Still
  BY <1>0, <1>7 DEF Still, Doc
<1>8. ASSUME NEW a, RequestBass(a) PROVE Still
  <2>1. \E b : doc' = [doc EXCEPT !.bass = b]
    BY <1>8, DocWritten DEF RequestBass
  <2> QED
    BY <1>7, <2>1
<1>9. ASSUME NEW o, OfferBass(o) PROVE Still
  <2>1. \E b : doc' = [doc EXCEPT !.bass = b]
    BY <1>9, DocWritten DEF OfferBass
  <2> QED
    BY <1>7, <2>1
<1>10. ASSUME NEW p, NEW a, NEW w, AnswerBassRejected(p, a) \/ WithdrawBass(w) PROVE Still
  <2>1. \E a2, w2 : doc' = DeactivateBass(doc, a2, w2)
    BY <1>10 DEF AnswerBassRejected, WithdrawBass, Write
  <2>2. doc' = doc \/ \E b, q : doc' = [doc EXCEPT !.bass = b, !.bassRejections = q]
    BY <2>1 DEF DeactivateBass
  <2> QED
    BY <1>7, <2>2 DEF Still
<1>11. ReinstateReferral => Still
  <2>1. ReinstateReferral => \E b, q : doc' = [doc EXCEPT !.bass = b, !.bassRejections = q]
    BY DEF ReinstateReferral, ReinstateBass, Write
  <2> QED
    BY <1>7, <2>1
<1>12. ASSUME NEW a, Postpone(a) \/ Refuse(a) PROVE Still
  BY <1>0, <1>12 DEF Postpone, Refuse, Update, Still, Doc
<1> QED
  BY <1>1, <1>2, <1>3, <1>4, <1>5, <1>6, <1>8, <1>9, <1>10, <1>11, <1>12 DEF CaSteps

LEMMA OthersStill ==
  ASSUME TypeOK, SharedSteps \/ DmSteps \/ \E d \in Destinations : Send(d)
  PROVE  Still
<1>0. doc \in Doc
  BY Fields
<1>1. ASSUME NEW b, doc' = [doc EXCEPT !.bass = b] PROVE Still
  BY <1>0, <1>1 DEF Still, Doc
<1>2. ASSUME NEW a, ApprovedPremises(a) PROVE Still
  BY <1>0, <1>2 DEF ApprovedPremises, Update, Still, Doc
<1>3. ASSUME NEW f, ApAddress(f) PROVE Still
  <2>1. doc' = [doc EXCEPT !.apAddress = f] \/ \E b : doc' = [doc EXCEPT !.bass = b]
    BY <1>3, DocWritten DEF ApAddress
  <2>2. doc' = [doc EXCEPT !.apAddress = f] => Still
    BY <1>0 DEF Still, Doc
  <2> QED
    BY <1>1, <2>1, <2>2
<1>4. ASSUME NEW a, ReviewAddress(a) PROVE Still
  BY <1>0, <1>4 DEF ReviewAddress, Update, Still, Doc
<1>5. ASSUME NEW a, AssessRisk(a) PROVE Still
  BY <1>0, <1>5 DEF AssessRisk, Update, Still, Doc
<1>6. ASSUME NEW a, CheckBassArea(a) PROVE Still
  <2>1. \E b : doc' = [doc EXCEPT !.bass = b]
    BY <1>6, DocWritten DEF CheckBassArea
  <2> QED
    BY <1>1, <2>1
<1>7. VictimLiaison \/ CurfewHours => Still
  BY <1>0 DEF VictimLiaison, CurfewHours, Update, Still, Doc
<1>8. ASSUME NEW f, AdditionalConditions(f) \/ ReportingInstructions(f) \/ FinalChecks(f) PROVE Still
  <2>1. \/ doc' = [doc EXCEPT !.conditions = f]
        \/ doc' = [doc EXCEPT !.reporting = f]
        \/ doc' = [doc EXCEPT !.checks = f]
    BY <1>8, DocWritten DEF AdditionalConditions, ReportingInstructions, FinalChecks
  <2> QED
    BY <1>0, <2>1 DEF Still, Doc
<1>9. DmSteps \/ (\E d \in Destinations : Send(d))
        => doc' = doc \/ \E a : doc' = [doc EXCEPT !.release = a]
  BY DEF DmSteps, Consider, Release, RefuseReason, Send, Write
<1>10. DmSteps \/ (\E d \in Destinations : Send(d)) => Still
  BY <1>0, <1>9 DEF Still, Doc
<1> QED
  BY <1>2, <1>3, <1>4, <1>5, <1>6, <1>7, <1>8, <1>10 DEF SharedSteps

LEMMA HeldReject ==
  ASSUME NEW d \in Doc, NEW reason
  PROVE  Held(d) \subseteq Held(Reject(d, reason))
<1> DEFINE e == [address |-> d.address, review |-> d.review, suitability |-> d.suitable,
                 withdrawal |-> reason]
           r == Reject(d, reason)
<1>1. d.rejections \in Seq(Rejection)
  BY DEF Doc
<1>2. r.rejections = Append(d.rejections, e)
  BY DEF Reject, Put, Doc
<1>3. e.address = d.address
  OBVIOUS
<1> HIDE DEF r, e
<1>4. \A i \in DOMAIN d.rejections : i \in DOMAIN r.rejections /\ r.rejections[i] = d.rejections[i]
  BY <1>1, <1>2
<1>5. \E i \in DOMAIN r.rejections : r.rejections[i].address = d.address
  <2>1. Len(d.rejections) + 1 \in DOMAIN r.rejections /\ r.rejections[Len(d.rejections) + 1] = e
    BY <1>1, <1>2
  <2> QED
    BY <2>1, <1>3
<1>6. Held(d) \subseteq Held(r)
  BY <1>4, <1>5 DEF Held
<1> QED
  BY <1>6 DEF r

LEMMA HeldReinstate ==
  ASSUME NEW d \in Doc, d.address = NoAddress, d.rejections # <<>>
  PROVE  Held(d) \subseteq Held(Reinstate(d))
<1> DEFINE e == d.rejections[Len(d.rejections)]
           r == Reinstate(d)
<1>1. d.rejections \in Seq(Rejection) /\ Len(d.rejections) \in Nat \ {0}
  BY DEF Doc
<1>2. r.rejections = Front(d.rejections) /\ r.address = Over(e.address, d.address, NoAddress)
  BY DEF Reinstate, Put, Doc
<1>3. r.address = e.address
  BY <1>2 DEF Over
<1> HIDE DEF r
<1>4. \A i \in DOMAIN d.rejections :
        \/ i = Len(d.rejections)
        \/ i \in DOMAIN Front(d.rejections) /\ Front(d.rejections)[i] = d.rejections[i]
  BY <1>1 DEF Front
<1>5. Held(d) \subseteq Held(r)
  BY <1>2, <1>3, <1>4 DEF Held
<1> QED
  BY <1>5 DEF r

\* No step but typing over it makes an address disappear.
THEOREM NoAddressLost == Spec => AddressesKept
<1>1. ASSUME TypeOK, Next
      PROVE  Held(doc) \subseteq Held(doc') \/ \E a \in scope.addresses : EnterAddress(a)
  <2>1. Still => Held(doc') = Held(doc)
    BY DEF Still, Held
  <2>2. AddressGivenUp => Held(doc) \subseteq Held(Reinstate(doc))
    BY <1>1, Fields, HeldReinstate DEF AddressGivenUp
  <2>3. \A reason : Held(doc) \subseteq Held(Reject(doc, reason))
    BY <1>1, Fields, HeldReject
  <2> QED
    BY <1>1, <2>1, <2>2, <2>3, CaStill, OthersStill DEF Next
<1>2. ASSUME TypeOK, UNCHANGED vars PROVE Held(doc) \subseteq Held(doc')
  BY <1>2 DEF vars
<1>3. TypeOK /\ [Next]_vars
        => [Held(doc) \subseteq Held(doc') \/ \E a \in scope.addresses : EnterAddress(a)]_vars
  BY <1>1, <1>2
<1> QED
  BY <1>3, TypeCorrect, PTL DEF Spec, AddressesKept
-----------------------------------------------------------------------------
(* PrintedAddressWasDecided: what can be in the document while a decision    *)
(* stands that was made about a residence.                                   *)

Unreviewed(r) == r.consent = "None" /\ r.electricity = "None"

\* The decision is a release to a residence, and the choice was not made again
\* after a review.
Standing ==
  /\ stage \in PostApproval /\ doc.release = "Yes"
  /\ ~rechosen /\ decidedOn # NoAddress

\* An address that can be reinstated is the one decided on, or not reviewed.
GivenUpSafely ==
  LET n == Len(doc.rejections)
      last == doc.rejections[n]
  IN /\ n > 0
     /\ last.withdrawal # "none" =>
          \/ last.address = decidedOn
          \/ last.address # NoAddress /\ Unreviewed(last.review)
          \/ /\ last.address = NoAddress /\ Unreviewed(last.review)
             /\ n > 1 /\ doc.rejections[n - 1].withdrawal = "none"

DecidedInv ==
  /\ page = "send/decided" /\ doc.release = "Yes" => decidedOn = doc.address
  /\ Standing =>
       /\ doc.address # decidedOn => Unreviewed(doc.review)
       /\ doc.address = NoAddress => GivenUpSafely
       /\ page \in {"curfewAddress", "newAddress"} => Unreviewed(doc.review)

\* After the approval the address form is reached from the page that asks for
\* another address, or from the review page of an address without a review.
LEMMA AddressForm ==
  ASSUME IInv, stage \in PostApproval, "curfewAddress" \in Reach, page # "curfewAddress"
  PROVE  Unreviewed(doc.review)
<1> DEFINE T == TaskListPages(Status)
<1>0. T = CaPostApprovalPages(Status) /\ page \in Landings
  BY StatusFields DEF IInv, TypeOK, TaskListPages, PostApproval
<1>1. "curfewAddress" \notin T
  BY <1>0, CaPages DEF CaPostApprovalPages, When
<1>2. ASSUME NEW q, "curfewAddress" \in LinksOf(q)
      PROVE  q = "reviewCurfewAddress"
  BY <1>2 DEF LinksOf, When
<1>3. \E q \in WithLinks(T \cup {page}) : "curfewAddress" \in LinksOf(q)
  BY <1>1 DEF Reach, WithLinks
<1>4. "reviewCurfewAddress" \in WithLinks(T \cup {page})
  BY <1>2, <1>3
<1>5. \A q : "reviewCurfewAddress" \notin LinksOf(q)
  BY Links DEF LinkTargets
<1>6. "reviewCurfewAddress" \in T
  BY <1>0, <1>4, <1>5 DEF WithLinks, Landings
<1>7. CaTransition(Status) = "caToRo" /\ ~BassReferralNeeded(doc)
  BY <1>0, <1>6, CaTasks, StatusFields
<1>8. Status.stage # "ELIGIBILITY"
  BY StatusFields DEF PostApproval
<1>9. ~Status.approvedPremisesRequired /\ Status.review = "UNSTARTED"
  BY <1>7, <1>8, StatusFields DEF CaTransition, CanSendCaToRo
<1>10. ~ApprovedPremisesRequired(doc) /\ ReviewState(doc) = "UNSTARTED"
  BY <1>9 DEF Status, StatusOf, Seen, SeesRo, PostApproval
<1> QED
  BY <1>10 DEF ReviewState, Unreviewed

\* The page that asks for another address is reached when there is none.
LEMMA AnotherAddress ==
  ASSUME IInv, stage \in PostApproval, "newAddress" \in Reach, page # "newAddress"
  PROVE  doc.address = NoAddress
<1> DEFINE T == TaskListPages(Status)
<1>1. T = CaPostApprovalPages(Status)
  BY StatusFields DEF IInv, TypeOK, TaskListPages, PostApproval
<1>2. "newAddress" \in T
  <2>1. \A q : "newAddress" \notin LinksOf(q)
    BY Links DEF LinkTargets
  <2> QED
    BY <2>1 DEF Reach, WithLinks
<1>3. "newAddress" = ProposedAddressPage(Status)
  BY <1>1, <1>2, CaPages DEF CaPostApprovalPages, When
<1>4. Status.addressWithdrawn
  BY <1>3 DEF ProposedAddressPage
<1> QED
  BY <1>4 DEF Status, StatusOf, AddressWithdrawn

\* The decision is sent from the page the decision maker's form leads to.
LEMMA DecisionPage ==
  ASSUME IInv, Open("send/decided")
  PROVE  page = "send/decided"
<1>1. stage = "APPROVAL"
  BY OpenReach DEF Where
<1>2. TaskListPages(Status) = DmPages(Status)
  BY <1>1, StatusFields DEF TaskListPages, PostApproval
<1>3. \A q : "send/decided" \notin LinksOf(q)
  BY Links DEF LinkTargets
<1> QED
  BY <1>2, <1>3, DmTasks DEF Open, Reach, WithLinks

\* A step that concerns neither the residence nor the decision.
SameResidence(d) ==
  /\ d.address = doc.address /\ d.rejections = doc.rejections
  /\ d.review = doc.review /\ d.release = doc.release

Aside ==
  /\ SameResidence(doc')
  /\ decidedOn' = decidedOn /\ rechosen' = rechosen
  /\ stage' \in PostApproval => stage \in PostApproval
  /\ page' \notin {"curfewAddress", "newAddress", "send/decided"}

\* Nor the risk assessment.
Untouched(d) == SameResidence(d) /\ d.risk = doc.risk /\ d.suitable = doc.suitable

Quiet == Aside /\ Untouched(doc')

Plain == Landings \ {"curfewAddress", "newAddress", "send/decided"}

Writes(d) == \E n \in Plain, approval \in BOOLEAN : Update(d, n, approval) \/ Write(d, n)

LEMMA AsideStep ==
  ASSUME NEW d, Writes(d), SameResidence(d)
  PROVE  Aside /\ (Untouched(d) => Quiet)
BY DEF Writes, Plain, Update, Write, ModifiedStage, Aside, Quiet, PostApproval

\* An answer to another question leaves the residence alone.
LEMMA OtherAnswer ==
  ASSUME TypeOK, NEW a, NEW b
  PROVE  /\ Untouched(doc)
         /\ Untouched([doc EXCEPT !.excluded = a]) /\ Untouched([doc EXCEPT !.suitability = a])
         /\ Untouched([doc EXCEPT !.exceptional = a]) /\ Untouched([doc EXCEPT !.crdTime = a])
         /\ Untouched([doc EXCEPT !.ap = a]) /\ Untouched([doc EXCEPT !.ap = a, !.optOut = b])
         /\ Untouched([doc EXCEPT !.bass = a]) /\ Untouched([doc EXCEPT !.bass = a, !.optOut = b])
         /\ Untouched([doc EXCEPT !.bass.exists = TRUE, !.optOut = b])
         /\ Untouched([doc EXCEPT !.bass = a, !.bassRejections = b])
         /\ Untouched([doc EXCEPT !.apAddress = a])
         /\ SameResidence([doc EXCEPT !.risk = a, !.suitable = b])
         /\ Untouched([doc EXCEPT !.victim = a]) /\ Untouched([doc EXCEPT !.hours = a])
         /\ Untouched([doc EXCEPT !.conditions = a]) /\ Untouched([doc EXCEPT !.reporting = a])
         /\ Untouched([doc EXCEPT !.checks = a]) /\ Untouched([doc EXCEPT !.postpone = a])
         /\ Untouched([doc EXCEPT !.refusal = a])
BY Fields DEF Untouched, SameResidence, Doc

LEMMA CaAside ==
  ASSUME IInv, CaSteps
  PROVE  \/ Quiet
         \/ \E c \in scope.choices : Choose(c)
         \/ \E a \in scope.addresses : EnterAddress(a)
         \/ AnswerRejected(TRUE) \/ \E another \in BOOLEAN : NewAddress(another)
         \/ \E reason \in {"withdrawAddress", "withdrawConsent"} : Withdraw(reason)
         \/ ReinstateAddress
<1> USE DEF Plain, Landings
<1>0. TypeOK
  BY DEF IInv
<1>1. ASSUME NEW a, Excluded(a) \/ Suitable(a) \/ Exceptional(a) \/ CrdTime(a) PROVE Quiet
  <2>1. \/ Writes([doc EXCEPT !.excluded = a]) \/ Writes([doc EXCEPT !.suitability = a])
        \/ Writes([doc EXCEPT !.exceptional = a]) \/ Writes([doc EXCEPT !.crdTime = a])
    <3>1. Excluded(a) => Writes([doc EXCEPT !.excluded = a])
      BY DEF Excluded, Writes
    <3>2. Suitable(a) => Writes([doc EXCEPT !.suitability = a])
      BY DEF Suitable, Writes
    <3>3. Exceptional(a) => Writes([doc EXCEPT !.exceptional = a])
      BY DEF Exceptional, Writes
    <3>4. CrdTime(a) => Writes([doc EXCEPT !.crdTime = a])
      BY DEF CrdTime, Writes
    <3> QED
      BY <1>1, <3>1, <3>2, <3>3, <3>4
  <2> QED
    BY <1>0, <2>1, OtherAnswer, AsideStep, Zenon DEF Untouched
<1>2. AnswerRejected(FALSE) => Quiet
  <2>1. AnswerRejected(FALSE) => Writes(doc)
    BY DEF AnswerRejected, Writes
  <2> QED
    BY <1>0, <2>1, OtherAnswer, AsideStep, Zenon DEF Untouched
<1>3. ASSUME NEW another, NewBass(another) PROVE Quiet
  <2>1. Writes(doc)
    BY <1>3 DEF NewBass, Writes
  <2> QED
    BY <1>0, <2>1, OtherAnswer, AsideStep, Zenon DEF Untouched
<1>4. ASSUME NEW c, ChooseApprovedPremises(c) \/ ChooseBassApprovedPremises(c) PROVE Quiet
  <2>1. \/ \E a, b : Writes([doc EXCEPT !.ap = a, !.optOut = b])
        \/ \E b : Writes([doc EXCEPT !.bass.exists = TRUE, !.optOut = b])
    <3>1. ChooseApprovedPremises(c) => \E a, b : Writes([doc EXCEPT !.ap = a, !.optOut = b])
      BY DEF ChooseApprovedPremises, Writes
    <3>2. ChooseBassApprovedPremises(c)
            => Writes([doc EXCEPT !.bass.exists = TRUE,
                                  !.optOut = IF c = "OptOut" THEN "Yes" ELSE "No"])
      BY DEF ChooseBassApprovedPremises, Writes
    <3> QED
      BY <1>4, <3>1, <3>2, Zenon
  <2> QED
    BY <1>0, <2>1, OtherAnswer, AsideStep, Zenon DEF Untouched
<1>5. ASSUME \/ \E b : Writes([doc EXCEPT !.bass = b])
             \/ \E b, q : Writes([doc EXCEPT !.bass = b, !.bassRejections = q])
      PROVE  Quiet
  BY <1>0, <1>5, OtherAnswer, AsideStep, Zenon DEF Untouched
<1>6. ASSUME NEW a, RequestBass(a) PROVE Quiet
  <2>1. \E b : Writes([doc EXCEPT !.bass = b])
    BY <1>6 DEF RequestBass, Writes
  <2> QED
    BY <1>5, <2>1
<1>7. ASSUME NEW o, OfferBass(o) PROVE Quiet
  <2>1. \E b : Writes([doc EXCEPT !.bass = b])
    BY <1>7 DEF OfferBass, Writes
  <2> QED
    BY <1>5, <2>1
<1>8. ASSUME NEW p, NEW a, NEW w, AnswerBassRejected(p, a) \/ WithdrawBass(w) PROVE Quiet
  <2>1. \E a2, w2 : Writes(DeactivateBass(doc, a2, w2))
    BY <1>8 DEF AnswerBassRejected, WithdrawBass, Writes
  <2>2. Writes(doc) \/ \E b, q : Writes([doc EXCEPT !.bass = b, !.bassRejections = q])
    BY <2>1 DEF DeactivateBass
  <2>3. Writes(doc) => Quiet
    BY <1>0, OtherAnswer, AsideStep, Zenon DEF Untouched
  <2> QED
    BY <1>5, <2>2, <2>3
<1>9. ReinstateReferral => Quiet
  <2>1. ReinstateReferral => \E b, q : Writes([doc EXCEPT !.bass = b, !.bassRejections = q])
    BY Zenon DEF ReinstateReferral, ReinstateBass, Writes
  <2> QED
    BY <1>5, <2>1
<1>10. ASSUME NEW a, Postpone(a) \/ Refuse(a) PROVE Quiet
  <2>1. Writes([doc EXCEPT !.postpone = a]) \/ Writes([doc EXCEPT !.refusal = a])
    BY <1>10 DEF Postpone, Refuse, Writes
  <2> QED
    BY <1>0, <2>1, OtherAnswer, AsideStep, Zenon DEF Untouched
<1> QED
  BY <1>1, <1>2, <1>3, <1>4, <1>6, <1>7, <1>8, <1>9, <1>10 DEF CaSteps

LEMMA SharedAside ==
  ASSUME IInv, SharedSteps
  PROVE  \/ Quiet
         \/ \E answers \in scope.reviews : ReviewAddress(answers)
         \/ Aside /\ \E answers \in scope.risks : AssessRisk(answers)
<1> USE DEF Plain, Landings
<1>0. TypeOK
  BY DEF IInv
<1>1. ASSUME NEW a, \/ Writes([doc EXCEPT !.ap = a]) \/ Writes([doc EXCEPT !.apAddress = a])
                    \/ Writes([doc EXCEPT !.bass = a]) \/ Writes([doc EXCEPT !.victim = a])
                    \/ Writes([doc EXCEPT !.hours = a]) \/ Writes([doc EXCEPT !.conditions = a])
                    \/ Writes([doc EXCEPT !.reporting = a]) \/ Writes([doc EXCEPT !.checks = a])
      PROVE  Quiet
  BY <1>0, <1>1, OtherAnswer, AsideStep, Zenon DEF Untouched
<1>2. ASSUME NEW a, ApprovedPremises(a) PROVE Quiet
  <2>1. Writes([doc EXCEPT !.ap = a])
    BY <1>2 DEF ApprovedPremises, Writes
  <2> QED
    BY <1>1, <2>1
<1>3. ASSUME NEW f, ApAddress(f) PROVE Quiet
  <2>1. Writes([doc EXCEPT !.apAddress = f]) \/ \E b : Writes([doc EXCEPT !.bass = b])
    BY <1>3 DEF ApAddress, Writes
  <2> QED
    BY <1>1, <2>1
<1>4. ASSUME NEW a, AssessRisk(a) PROVE Aside
  <2>1. Writes([doc EXCEPT !.risk = a.form, !.suitable = a.suitability])
    BY <1>4 DEF AssessRisk, Writes
  <2>2. SameResidence([doc EXCEPT !.risk = a.form, !.suitable = a.suitability])
    BY <1>0, OtherAnswer
  <2> QED
    BY <1>0, <2>1, <2>2, AsideStep
<1>5. ASSUME NEW a, CheckBassArea(a) PROVE Quiet
  <2>1. \E b : Writes([doc EXCEPT !.bass = b])
    BY <1>5 DEF CheckBassArea, Writes
  <2> QED
    BY <1>1, <2>1
<1>6. ASSUME VictimLiaison \/ CurfewHours PROVE Quiet
  <2>1. Writes([doc EXCEPT !.victim = "Full"]) \/ Writes([doc EXCEPT !.hours = "Full"])
    BY <1>6 DEF VictimLiaison, CurfewHours, Writes
  <2> QED
    BY <1>1, <2>1
<1>7. ASSUME NEW f, AdditionalConditions(f) \/ ReportingInstructions(f) \/ FinalChecks(f) PROVE Quiet
  <2>1. \/ Writes([doc EXCEPT !.conditions = f]) \/ Writes([doc EXCEPT !.reporting = f])
        \/ Writes([doc EXCEPT !.checks = f])
    BY <1>7 DEF AdditionalConditions, ReportingInstructions, FinalChecks, Writes
  <2> QED
    BY <1>1, <2>1
<1> QED
  BY <1>2, <1>3, <1>4, <1>5, <1>6, <1>7 DEF SharedSteps

LEMMA AsideDecided ==
  ASSUME DecidedInv, Aside
  PROVE  DecidedInv'
<1>1. Standing' => Standing
  BY DEF Standing, Aside, SameResidence
<1>2. GivenUpSafely' <=> GivenUpSafely
  BY DEF GivenUpSafely, Aside, SameResidence
<1> QED
  BY <1>1, <1>2 DEF DecidedInv, Aside, SameResidence
\* A withdrawal keeps what is given up safe: it was decided on or not reviewed.
LEMMA WithdrawDecided ==
  ASSUME IInv, DecidedInv, NEW reason, Withdraw(reason)
  PROVE  DecidedInv'
<1>0. doc \in Doc
  BY Fields DEF IInv
<1> DEFINE entry == [address |-> doc.address, review |-> doc.review, suitability |-> doc.suitable,
                     withdrawal |-> reason]
           n == Len(doc.rejections)
<1>1. /\ doc' = Reject(doc, reason) /\ ~AddressGivenUp
      /\ stage' = stage /\ page' = "newAddress" /\ decidedOn' = decidedOn /\ rechosen' = rechosen
  BY DEF Withdraw, Write
<1>2. /\ doc'.address = NoAddress /\ doc'.review = NoReview /\ doc'.release = doc.release
      /\ doc'.rejections = Append(doc.rejections, entry)
  BY <1>0, <1>1 DEF Reject, Put, Doc
<1>3. doc.rejections \in Seq(Rejection) /\ n \in Nat
  BY <1>0 DEF Doc
<1>4. Unreviewed(doc'.review)
  BY <1>2 DEF Unreviewed, NoReview
<1> HIDE DEF entry
<1>5. /\ Len(doc'.rejections) = n + 1
      /\ doc'.rejections[n + 1] = entry
      /\ n > 0 => doc'.rejections[n] = doc.rejections[n]
  BY <1>2, <1>3
<1>6. entry.address = doc.address /\ entry.review = doc.review
  BY DEF entry
<1>7. ASSUME Standing' PROVE GivenUpSafely'
  <2>1. Standing
    BY <1>1, <1>2, <1>7 DEF Standing
  <2>2. CASE doc.address = decidedOn
    BY <1>1, <1>3, <1>5, <1>6, <2>2 DEF GivenUpSafely
  <2>3. CASE doc.address # decidedOn /\ doc.address # NoAddress
    BY <1>1, <1>3, <1>5, <1>6, <2>1, <2>3 DEF GivenUpSafely, DecidedInv
  <2>4. CASE doc.address # decidedOn /\ doc.address = NoAddress
    <3>1. n > 0 /\ Unreviewed(doc.review)
      BY <2>1, <2>4 DEF DecidedInv, GivenUpSafely
    <3>2. doc.rejections[n].withdrawal = "none"
      BY <1>1, <1>3, <2>4, <3>1 DEF AddressGivenUp
    <3>3. n + 1 > 0 /\ n + 1 > 1 /\ (n + 1) - 1 = n
      BY <1>3, <3>1
    <3> QED
      BY <1>5, <1>6, <2>4, <3>1, <3>2, <3>3 DEF GivenUpSafely
  <2> QED
    BY <2>2, <2>3, <2>4
<1> QED
  BY <1>1, <1>4, <1>7 DEF DecidedInv

\* What is reinstated was decided on, or has no review.
LEMMA ReinstateDecided ==
  ASSUME IInv, DecidedInv, ReinstateAddress
  PROVE  DecidedInv'
<1>0. doc \in Doc
  BY Fields DEF IInv
<1> DEFINE n == Len(doc.rejections)
           r == doc.rejections[n]
<1>1. /\ doc' = Reinstate(doc) /\ AddressGivenUp
      /\ stage' = stage /\ page' = "taskList" /\ decidedOn' = decidedOn /\ rechosen' = rechosen
  BY DEF ReinstateAddress, Write
<1>2. /\ doc'.address = Over(r.address, doc.address, NoAddress)
      /\ doc'.review = Over(r.review, doc.review, NoReview)
      /\ doc'.release = doc.release /\ doc'.rejections = Front(doc.rejections)
  BY <1>0, <1>1 DEF Reinstate, Put, Doc
<1>3. doc.rejections \in Seq(Rejection) /\ n \in Nat
  BY <1>0 DEF Doc
<1>4. doc.address = NoAddress /\ doc.rejections # <<>> /\ r.withdrawal # "none"
  BY <1>1 DEF AddressGivenUp
<1>5. ASSUME Standing'
      PROVE  /\ doc'.address # decidedOn => Unreviewed(doc'.review)
             /\ doc'.address = NoAddress => GivenUpSafely'
  <2>1. Standing
    BY <1>1, <1>2, <1>5 DEF Standing
  <2>2. decidedOn # NoAddress
    BY <2>1 DEF Standing
  <2>3. Unreviewed(doc.review) /\ GivenUpSafely
    BY <1>4, <2>1, <2>2 DEF DecidedInv
  <2>4. \/ r.address = decidedOn
        \/ r.address # NoAddress /\ Unreviewed(r.review)
        \/ /\ r.address = NoAddress /\ Unreviewed(r.review)
           /\ n > 1 /\ doc.rejections[n - 1].withdrawal = "none"
    BY <1>4, <2>3 DEF GivenUpSafely
  <2>5. CASE r.address = decidedOn
    BY <1>2, <2>2, <2>5 DEF Over
  <2>6. CASE r.address # NoAddress /\ Unreviewed(r.review)
    BY <1>2, <2>3, <2>6 DEF Over
  <2>7. CASE /\ r.address = NoAddress /\ Unreviewed(r.review)
             /\ n > 1 /\ doc.rejections[n - 1].withdrawal = "none"
    <3>1. Unreviewed(doc'.review)
      BY <1>2, <2>3, <2>7 DEF Over
    <3>2. Len(doc'.rejections) = n - 1 /\ doc'.rejections[n - 1] = doc.rejections[n - 1]
      BY <1>2, <1>3, <1>4, <2>7, SeqFacts DEF Front
    <3> QED
      BY <1>3, <2>7, <3>1, <3>2 DEF GivenUpSafely
  <2> QED
    BY <2>4, <2>5, <2>6, <2>7
<1> QED
  BY <1>1, <1>5 DEF DecidedInv

\* Each other step of the case administrator that concerns the residence.
LEMMA AddressDecided ==
  ASSUME IInv, DecidedInv,
         \/ \E c \in scope.choices : Choose(c)
         \/ \E a \in scope.addresses : EnterAddress(a)
         \/ AnswerRejected(TRUE) \/ \E another \in BOOLEAN : NewAddress(another)
  PROVE  DecidedInv'
<1>0. doc \in Doc /\ NoAddress \notin Addresses
  BY Fields, AddressAssumption DEF IInv
<1>1. ASSUME NEW c \in scope.choices, Choose(c) PROVE DecidedInv'
  <2>1. /\ SameResidence(doc') /\ stage' = stage /\ decidedOn' = decidedOn
        /\ page' \notin {"newAddress", "send/decided"}
    BY <1>0, <1>1 DEF Choose, SameResidence, Doc
  <2>2. Standing' => Standing /\ Unreviewed(doc.review)
    <3>1. ~rechosen' => ~rechosen /\ ~EverReviewed(doc)
      BY <1>1, Zenon DEF Choose
    <3>2. ~EverReviewed(doc) => Unreviewed(doc.review)
      BY DEF EverReviewed, Unreviewed, NoReview
    <3> QED
      BY <2>1, <3>1, <3>2 DEF Standing, SameResidence
  <2>3. GivenUpSafely' <=> GivenUpSafely
    BY <2>1 DEF GivenUpSafely, SameResidence
  <2> QED
    BY <2>1, <2>2, <2>3 DEF DecidedInv, SameResidence
<1>2. ASSUME NEW a \in scope.addresses, EnterAddress(a) PROVE DecidedInv'
  <2>1. /\ doc' = [doc EXCEPT !.address = a] /\ decidedOn' = decidedOn /\ rechosen' = rechosen
        /\ stage' \in PostApproval => stage \in PostApproval
        /\ page' \in {"taskList", "curfewAddress"}
    BY <1>2 DEF EnterAddress, Update, ModifiedStage, PostApproval
  <2>2. /\ doc'.address = a /\ doc'.review = doc.review /\ doc'.release = doc.release
    BY <1>0, <2>1 DEF Doc
  <2>3. a # NoAddress
    BY <1>0, ScopeTypes DEF IInv, TypeOK
  <2>4. Standing' => Standing
    BY <2>1, <2>2 DEF Standing
  <2>5. Standing => Unreviewed(doc.review)
    BY <1>2, AddressForm DEF EnterAddress, Open, DecidedInv, Standing
  <2> QED
    BY <2>1, <2>2, <2>3, <2>4, <2>5 DEF DecidedInv
<1>3. ASSUME AnswerRejected(TRUE) PROVE DecidedInv'
  <2>1. doc' = Reject(doc, "none") /\ page' = "curfewAddress"
    BY <1>3 DEF AnswerRejected, Write
  <2>2. Unreviewed(doc'.review)
    BY <1>0, <2>1 DEF Reject, Put, Doc, Unreviewed, NoReview
  <2>3. doc'.rejections = Append(doc.rejections,
          [address |-> doc.address, review |-> doc.review, suitability |-> doc.suitable,
           withdrawal |-> "none"])
    BY <1>0, <2>1 DEF Reject, Put, Doc
  <2>4. /\ Len(doc'.rejections) > 0
        /\ doc'.rejections[Len(doc'.rejections)].withdrawal = "none"
    BY <1>0, <2>3 DEF Doc
  <2> QED
    BY <2>1, <2>2, <2>4 DEF DecidedInv, GivenUpSafely
<1>4. ASSUME NEW another \in BOOLEAN, NewAddress(another) PROVE DecidedInv'
  <2>1. /\ doc' = doc /\ stage' = stage /\ decidedOn' = decidedOn /\ rechosen' = rechosen
        /\ page' \in {"curfewAddress", "choice"}
    BY <1>4 DEF NewAddress, Write
  <2>2. Standing => Unreviewed(doc.review)
    BY <1>4, AnotherAddress DEF NewAddress, Open, DecidedInv, Standing
  <2>3. (Standing' <=> Standing) /\ (GivenUpSafely' <=> GivenUpSafely)
    BY <2>1 DEF Standing, GivenUpSafely
  <2> QED
    BY <2>1, <2>2, <2>3 DEF DecidedInv
<1> QED
  BY <1>1, <1>2, <1>3, <1>4

\* The responsible officer reviews and the decision maker decides before the
\* approval; only the button below the decision leads past it.
LEMMA OthersDecided ==
  ASSUME IInv, DecidedInv,
         \/ \E answers \in scope.reviews : ReviewAddress(answers)
         \/ DmSteps \/ \E d \in Destinations : Send(d)
  PROVE  DecidedInv'
<1>0. doc \in Doc
  BY Fields DEF IInv
<1>1. ASSUME stage' \notin PostApproval, page' # "send/decided" PROVE DecidedInv'
  BY <1>1 DEF DecidedInv, Standing
<1>2. ASSUME NEW answers, ReviewAddress(answers) PROVE DecidedInv'
  <2>1. stage = "PROCESSING_RO"
    BY <1>2, OpenReach DEF ReviewAddress, Where
  <2> QED
    BY <1>1, <1>2, <2>1 DEF ReviewAddress, Update, ModifiedStage, PostApproval
<1>3. ASSUME Consider PROVE DecidedInv'
  <2>1. stage = "APPROVAL"
    BY <1>3, OpenReach DEF Consider, Where
  <2> QED
    BY <1>1, <1>3, <2>1 DEF Consider, Write, PostApproval
<1>4. ASSUME NEW a, Release(a) PROVE DecidedInv'
  <2>1. stage' = "APPROVAL"
    BY <1>4, OpenReach DEF Release, Where
  <2>2. doc'.address = doc.address /\ doc'.release = a
    BY <1>0, <1>4 DEF Release, Doc
  <2> QED
    BY <1>4, <2>1, <2>2 DEF Release, DecidedInv, Standing, PostApproval
<1>5. ASSUME RefuseReason PROVE DecidedInv'
  <2>1. stage' = "APPROVAL"
    BY <1>5, OpenReach DEF RefuseReason, Where, Write
  <2>2. doc'.release = "No"
    BY <1>0, <1>5 DEF RefuseReason, Write, Doc
  <2> QED
    BY <2>1, <2>2 DEF DecidedInv, Standing, PostApproval
<1>6. ASSUME NEW d \in Destinations, Send(d) PROVE DecidedInv'
  <2>1. CASE d # "send/decided"
    BY <1>1, <1>6, <2>1 DEF Send, NewStage, PostApproval, Destinations
  <2>2. CASE d = "send/decided"
    <3>1. page = "send/decided" /\ doc' = doc /\ page' = "taskList" /\ decidedOn' = decidedOn
      BY <1>6, <2>2, DecisionPage DEF Send
    <3>2. Standing' => doc'.address = decidedOn' /\ doc'.address # NoAddress
      BY <3>1 DEF Standing, DecidedInv
    <3> QED
      BY <3>1, <3>2 DEF DecidedInv
  <2> QED
    BY <2>1, <2>2
<1> QED
  BY <1>2, <1>3, <1>4, <1>5, <1>6 DEF DmSteps

LEMMA DecidedInvariant == Spec => []DecidedInv
<1>1. Init => DecidedInv
  BY DEF Init, DecidedInv, Standing, PostApproval
<1>2. ASSUME IInv, DecidedInv, [Next]_vars PROVE DecidedInv'
  <2>1. CASE UNCHANGED vars
    BY <1>2, <2>1 DEF vars, DecidedInv, Standing, GivenUpSafely
  <2>2. CASE CaSteps
    BY <1>2, <2>2, CaAside, AsideDecided, WithdrawDecided, ReinstateDecided, AddressDecided DEF Quiet
  <2>3. CASE SharedSteps
    BY <1>2, <2>3, SharedAside, AsideDecided, OthersDecided DEF Quiet
  <2>4. CASE DmSteps \/ \E d \in Destinations : Send(d)
    BY <1>2, <2>4, OthersDecided
  <2> QED
    BY <1>2, <2>1, <2>2, <2>3, <2>4 DEF Next
<1> QED
  BY <1>1, <1>2, Invariant, PTL DEF Spec

\* The residence a licence prints is the one the decision was made about.
THEOREM DecidedAddressPrinted == Spec => []PrintedAddressWasDecided
<1>1. ASSUME IInv, DecidedInv, PrintOffered, ~rechosen, decidedOn # NoAddress,
             ~ApprovedPremisesRequired(doc), ~BassReferralNeeded(doc)
      PROVE  doc.address = decidedOn
  <2>1. CreateLicenceOffered(Status) /\ stage \in PostApproval
    BY <1>1, PrintFacts DEF IInv
  <2>2. doc.release = "Yes"
    BY <2>1 DEF CreateLicenceOffered, Status, StatusOf, Approved
  <2>3. CurfewAddressApproved(doc)
    BY <1>1, <2>1, PrintStatus, StatusFields DEF CreateLicenceOffered, ValidAddress, BassOfferMade
  <2>4. ~Unreviewed(doc.review)
    BY <2>3 DEF CurfewAddressApproved, Unreviewed
  <2> QED
    BY <1>1, <2>1, <2>2, <2>4 DEF DecidedInv, Standing
<1>2. IInv /\ DecidedInv => PrintedAddressWasDecided
  BY <1>1 DEF PrintedAddressWasDecided
<1> QED
  BY <1>2, Invariant, DecidedInvariant, PTL
-----------------------------------------------------------------------------
(* ReviewTells: what is sent to the responsible officer was checked, and      *)
(* stays as it was while they have it.                                        *)

\* The answers the check of a proposal reads.
SameProposal(d) ==
  /\ d.address = doc.address /\ d.addressProposed = doc.addressProposed
  /\ d.bass.requested = doc.bass.requested /\ d.bass.specificArea = doc.bass.specificArea
  /\ d.bass.town = doc.bass.town

ProposalInv == stage = "PROCESSING_RO" => ProposalAccepted

\* The review pages are on the task list of a case that can be sent for review.
LEMMA ReviewOffered ==
  ASSUME NEW s, s.stage \in Stages, NEW q \in {"reviewBassRequest", "reviewCurfewAddress"},
         q \in TaskListPages(s)
  PROVE  /\ s.stage # "PROCESSING_RO"
         /\ s.stage = "ELIGIBILITY" \/ CaTransition(s) = "caToRo"
         /\ q = "reviewBassRequest" <=> s.bassReferralNeeded
<1>1. ASSUME s.stage = "ELIGIBILITY" PROVE q \in CaEligibilityPages(s)
  <2>1. TaskListPages(s) = CaEligibilityPages(s)
    BY <1>1 DEF TaskListPages, PostApproval
  <2> QED
    BY <2>1
<1>2. s.stage \notin {"ELIGIBILITY", "PROCESSING_RO", "APPROVAL"}
        => q \in CaProcessingPages(s) \cup CaPostApprovalPages(s)
  <2>1. s.stage = "PROCESSING_CA" => TaskListPages(s) = CaProcessingPages(s)
    BY DEF TaskListPages, PostApproval
  <2>2. s.stage \in PostApproval => TaskListPages(s) = CaPostApprovalPages(s)
    BY DEF TaskListPages, PostApproval
  <2> QED
    BY <2>1, <2>2 DEF PostApproval, Stages
<1> USE CaPages DEF When, EligibilityPages
<1>3. s.stage \notin {"PROCESSING_RO", "APPROVAL"}
  BY RoTasks, DmTasks DEF TaskListPages, PostApproval
<1>4. q \in CaProcessingPages(s) \cup CaPostApprovalPages(s)
        => q \in ReviewPage(s) /\ CaTransition(s) = "caToRo"
  <2>1. q \in CaProcessingPages(s) => q \in ReviewPage(s) /\ CaTransition(s) = "caToRo"
    BY DEF CaProcessingPages
  <2>2. q \in CaPostApprovalPages(s) => q \in ReviewPage(s) /\ CaTransition(s) = "caToRo"
    BY DEF CaPostApprovalPages
  <2> QED
    BY <2>1, <2>2
<1>5. q \in CaEligibilityPages(s) => q \in ReviewPage(s)
  BY DEF CaEligibilityPages
<1>6. q \in ReviewPage(s) => (q = "reviewBassRequest" <=> s.bassReferralNeeded)
  BY DEF ReviewPage
<1> QED
  BY <1>1, <1>2, <1>3, <1>4, <1>5, <1>6 DEF Stages, PostApproval

\* The page that offers a referral for review checks the request.
LEMMA RequestAskedFor ==
  ASSUME NEW s, NEW d, s.stage # "PROCESSING_RO", s.bassReferralNeeded,
         s.stage = "ELIGIBILITY" \/ CaTransition(s) = "caToRo",
         Errors(s, d) = {}
  PROVE  BassRequestValid(d)
<1>1. s.stage = "ELIGIBILITY" \/ s.bassAreaCheck = "UNSTARTED"
  BY DEF CaTransition, CanSendCaToRo
<1>2. "bassRequest" \in FormGroup(s, d)
  BY <1>1 DEF FormGroup
<1>3. FormAnswered("bassRequest", d) = BassRequestValid(d)
  BY DEF FormAnswered
<1> QED
  BY <1>2, <1>3 DEF Errors

\* What is sent for review was accepted by the check.
LEMMA SentComplete ==
  ASSUME TypeOK, NEW p \in {"send/addressReview", "send/bassReview"}, Open(p)
  PROVE  ProposalAccepted
<1> DEFINE T == TaskListPages(Status)
           q == IF p = "send/addressReview" THEN "reviewCurfewAddress" ELSE "reviewBassRequest"
<1>1. p \notin T \cup {page}
  <2>1. T \in {CaEligibilityPages(Status), CaProcessingPages(Status), CaPostApprovalPages(Status),
               RoPages(Status), DmPages(Status)}
    BY StatusFields DEF TypeOK, TaskListPages, Stages, PostApproval
  <2>2. p \notin CaTargets
    BY DEF CaTargets, CaForms, EligibilityForms
  <2>3. p \notin T
    BY <2>1, <2>2, CaTasks, RoTasks, DmTasks
  <2> QED
    BY <2>3 DEF TypeOK, Landings
<1>2. q \in T /\ ~ErrorsOnPage
  BY <1>1, Within DEF Open, TypeOK, Landings
<1>3. Status.stage \in Stages
  BY StatusFields DEF TypeOK
<1>4. /\ Status.stage # "PROCESSING_RO"
      /\ Status.stage = "ELIGIBILITY" \/ CaTransition(Status) = "caToRo"
      /\ q = "reviewBassRequest" <=> Status.bassReferralNeeded
  BY <1>2, <1>3, ReviewOffered
<1>5. Errors(Status, doc) = {}
  BY <1>2 DEF ErrorsOnPage
<1>6. CASE Status.bassReferralNeeded
  BY <1>4, <1>5, <1>6, RequestAskedFor, StatusFields DEF ProposalAccepted
<1>7. CASE ~Status.bassReferralNeeded
  BY <1>4, <1>5, <1>7, AddressAskedFor, StatusFields DEF ProposalAccepted
<1> QED
  BY <1>6, <1>7

\* With the responsible officer, the proposal stays as it is.
LEMMA ProposalKept ==
  ASSUME IInv, Next, stage = "PROCESSING_RO"
  PROVE  SameProposal(doc')
<1>0. doc \in Doc /\ doc.bass \in Bass
  BY Fields DEF IInv
<1>1. ASSUME NEW p \in CaForms PROVE ~Open(p)
  BY <1>1, OpenReach DEF Where
<1>2. CASE CaSteps
  <2>1. \E a : Postpone(a) \/ Refuse(a)
    BY <1>1, <1>2 DEF CaForms, EligibilityForms, CaSteps, Excluded, Suitable, Exceptional, CrdTime,
       Choose, EnterAddress, AnswerRejected, NewAddress, NewBass, Withdraw, ReinstateAddress,
       ChooseApprovedPremises, ChooseBassApprovedPremises, RequestBass, AnswerBassRejected,
       OfferBass, WithdrawBass, ReinstateReferral
  <2>2. \E a : doc' = [doc EXCEPT !.postpone = a] \/ doc' = [doc EXCEPT !.refusal = a]
    BY <2>1, DocWritten DEF Postpone, Refuse
  <2> QED
    BY <1>0, <2>2 DEF SameProposal, Doc
<1>3. CASE SharedSteps
  <2>1. ASSUME NEW a, NEW b,
               \/ doc' = [doc EXCEPT !.ap = a] \/ doc' = [doc EXCEPT !.apAddress = a]
               \/ doc' = [doc EXCEPT !.review = a]
               \/ doc' = [doc EXCEPT !.risk = a, !.suitable = b]
               \/ doc' = [doc EXCEPT !.victim = a] \/ doc' = [doc EXCEPT !.hours = a]
               \/ doc' = [doc EXCEPT !.conditions = a] \/ doc' = [doc EXCEPT !.reporting = a]
               \/ doc' = [doc EXCEPT !.checks = a]
        PROVE  SameProposal(doc')
    <3>1. /\ SameProposal([doc EXCEPT !.ap = a]) /\ SameProposal([doc EXCEPT !.apAddress = a])
          /\ SameProposal([doc EXCEPT !.review = a])
          /\ SameProposal([doc EXCEPT !.risk = a, !.suitable = b])
          /\ SameProposal([doc EXCEPT !.victim = a]) /\ SameProposal([doc EXCEPT !.hours = a])
          /\ SameProposal([doc EXCEPT !.conditions = a])
          /\ SameProposal([doc EXCEPT !.reporting = a])
          /\ SameProposal([doc EXCEPT !.checks = a])
      BY <1>0 DEF SameProposal, Doc
    <3> QED
      BY <2>1, <3>1
  <2>2. ASSUME NEW f, ApAddress(f) PROVE SameProposal(doc')
    <3>1. \/ doc' = [doc EXCEPT !.apAddress = f]
          \/ doc' = [doc EXCEPT !.bass = [@ EXCEPT !.exists = TRUE, !.apAddress = f]]
      BY <2>2, DocWritten DEF ApAddress
    <3>2. CASE doc' = [doc EXCEPT !.bass = [@ EXCEPT !.exists = TRUE, !.apAddress = f]]
      BY <1>0, <3>2 DEF SameProposal, Doc, Bass
    <3> QED
      BY <2>1, <3>1, <3>2
  <2>3. ASSUME NEW answers, CheckBassArea(answers) PROVE SameProposal(doc')
    <3>1. doc' = [doc EXCEPT !.bass = [@ EXCEPT !.exists = TRUE, !.suitable = answers.suitable,
                                               !.reason = answers.reason, !.seen = TRUE,
                                               !.ap = answers.ap]]
      BY <2>3, DocWritten DEF CheckBassArea
    <3> QED
      BY <1>0, <3>1 DEF SameProposal, Doc, Bass
  <2>4. ASSUME NEW a, ApprovedPremises(a) PROVE SameProposal(doc')
    BY <2>1, <2>4, DocWritten DEF ApprovedPremises
  <2>5. ASSUME NEW a, ReviewAddress(a) PROVE SameProposal(doc')
    BY <2>1, <2>5, DocWritten DEF ReviewAddress
  <2>6. ASSUME NEW a, AssessRisk(a) PROVE SameProposal(doc')
    BY <2>1, <2>6, DocWritten DEF AssessRisk
  <2>7. VictimLiaison \/ CurfewHours => SameProposal(doc')
    BY <2>1, DocWritten DEF VictimLiaison, CurfewHours
  <2>8. ASSUME NEW f, AdditionalConditions(f) \/ ReportingInstructions(f) \/ FinalChecks(f)
        PROVE  SameProposal(doc')
    BY <2>1, <2>8, DocWritten DEF AdditionalConditions, ReportingInstructions, FinalChecks
  <2> QED
    BY <1>3, <2>2, <2>3, <2>4, <2>5, <2>6, <2>7, <2>8 DEF SharedSteps
<1>4. CASE DmSteps \/ \E d \in Destinations : Send(d)
  <2>1. doc' = doc \/ \E a : doc' = [doc EXCEPT !.release = a]
    BY <1>4 DEF DmSteps, Consider, Release, RefuseReason, Send, Write
  <2> QED
    BY <1>0, <2>1 DEF SameProposal, Doc
<1> QED
  BY <1>2, <1>3, <1>4 DEF Next

LEMMA ProposalInvariant == Spec => []ProposalInv
<1>1. Init => ProposalInv
  BY DEF Init, ProposalInv
<1>2. ASSUME IInv, ProposalInv, [Next]_vars PROVE ProposalInv'
  <2>1. CASE UNCHANGED vars
    BY <1>2, <2>1 DEF vars, ProposalInv, ProposalAccepted, BassReferralNeeded, BassRequestValid,
       CurfewAddressValid
  <2>2. ASSUME NEW p \in {"send/addressReview", "send/bassReview"}, Send(p) PROVE ProposalInv'
    <3>1. doc' = doc /\ ProposalAccepted
      BY <1>2, <2>2, SentComplete DEF IInv, Send
    <3> QED
      BY <3>1 DEF ProposalInv, ProposalAccepted, BassReferralNeeded, BassRequestValid,
         CurfewAddressValid
  <2>3. ASSUME Next, stage = "PROCESSING_RO" PROVE ProposalInv'
    <3>1. ProposalAccepted /\ SameProposal(doc')
      BY <1>2, <2>3, ProposalKept DEF ProposalInv
    <3> QED
      BY <3>1 DEF SameProposal, ProposalInv, ProposalAccepted, BassReferralNeeded,
         BassRequestValid, CurfewAddressValid
  <2> QED
    BY <1>2, <2>1, <2>2, <2>3, CommunityStep DEF ProposalInv
<1> QED
  BY <1>1, <1>2, Invariant, PTL DEF Spec
\* What a version of the risk form does not ask is not in the document, nor kept
\* with an address given up.
RiskInv ==
  /\ doc.risk.version \in {"None", "1"} =>
       /\ doc.suitable.checks = "None"
       /\ \A i \in DOMAIN doc.rejections : doc.rejections[i].suitability.checks = "None"
  /\ doc.risk.version # "1" => ~doc.risk.planning

LEMMA RejectRisk ==
  ASSUME TypeOK, RiskInv, NEW reason, doc' = Reject(doc, reason)
  PROVE  RiskInv'
<1> DEFINE entry == [address |-> doc.address, review |-> doc.review, suitability |-> doc.suitable,
                     withdrawal |-> reason]
<1>0. doc \in Doc /\ doc.rejections \in Seq(Rejection)
  BY Fields DEF Doc
<1>1. /\ doc'.risk = doc.risk /\ doc'.suitable = NoSuitability
      /\ doc'.rejections = Append(doc.rejections, entry)
  BY <1>0 DEF Reject, Put, Doc
<1>2. entry.suitability = doc.suitable
  OBVIOUS
<1> HIDE DEF entry
<1>3. \A i \in DOMAIN doc'.rejections :
        doc'.rejections[i] = entry \/ (i \in DOMAIN doc.rejections /\ doc'.rejections[i] = doc.rejections[i])
  BY <1>0, <1>1
<1> QED
  BY <1>1, <1>2, <1>3 DEF RiskInv, NoSuitability

LEMMA ReinstateRisk ==
  ASSUME TypeOK, RiskInv, doc' = Reinstate(doc), AddressGivenUp
  PROVE  RiskInv'
<1> DEFINE n == Len(doc.rejections)
           r == doc.rejections[n]
<1>0. doc \in Doc /\ doc.rejections \in Seq(Rejection) /\ doc.rejections # <<>>
  BY Fields DEF Doc, AddressGivenUp
<1>1. n \in DOMAIN doc.rejections
  BY <1>0
<1>2. /\ doc'.risk = doc.risk
      /\ doc'.suitable.checks = Over(r.suitability.checks, doc.suitable.checks, "None")
      /\ doc'.rejections = Front(doc.rejections)
  BY <1>0 DEF Reinstate, Put, Doc
<1>3. \A i \in DOMAIN doc'.rejections :
        i \in DOMAIN doc.rejections /\ doc'.rejections[i] = doc.rejections[i]
  BY <1>0, <1>2, SeqFacts DEF Front
<1>4. doc.risk.version \in {"None", "1"} => doc'.suitable.checks = "None"
  BY <1>1, <1>2 DEF RiskInv, Over
<1> QED
  BY <1>2, <1>3, <1>4 DEF RiskInv

LEMMA AssessedRisk ==
  ASSUME TypeOK, RiskInv, NEW answers \in scope.risks, AssessRisk(answers)
  PROVE  RiskInv'
<1>0. doc \in Doc
  BY Fields
<1>1. doc' = [doc EXCEPT !.risk = answers.form, !.suitable = answers.suitability]
  BY DocWritten DEF AssessRisk
<1>2. /\ doc'.risk = answers.form /\ doc'.suitable = answers.suitability
      /\ doc'.rejections = doc.rejections
  BY <1>0, <1>1 DEF Doc
<1>3. /\ answers.form.version # "None"
      /\ IF answers.form.version = "1" THEN answers.suitability.checks = "None"
         ELSE ~answers.form.planning
  BY ScopeAssumption DEF TypeOK
<1>4. answers.form.version = "1" => doc.risk.version \in {"None", "1"}
  BY DEF AssessRisk, RiskVersions
<1> QED
  BY <1>2, <1>3, <1>4 DEF RiskInv

LEMMA RiskInvariant == Spec => []RiskInv
<1>1. Init => RiskInv
  BY DEF Init, RiskInv, EmptyDoc, NoRiskForm, NoSuitability
<1>2. ASSUME IInv, RiskInv, [Next]_vars PROVE RiskInv'
  <2>0. doc \in Doc /\ TypeOK
    BY <1>2, Fields DEF IInv
  <2>1. ASSUME doc'.risk = doc.risk, doc'.suitable = doc.suitable, doc'.rejections = doc.rejections
        PROVE  RiskInv'
    BY <1>2, <2>1 DEF RiskInv
  <2>2. CASE UNCHANGED vars
    BY <2>1, <2>2 DEF vars
  <2>3. ASSUME Quiet PROVE RiskInv'
    BY <2>1, <2>3 DEF Quiet, Untouched, SameResidence
  <2>4. CASE CaSteps
    <3>1. ASSUME NEW c, Choose(c) PROVE RiskInv'
      BY <2>0, <2>1, <3>1 DEF Choose, Doc
    <3>2. ASSUME NEW a, EnterAddress(a) PROVE RiskInv'
      BY <2>0, <2>1, <3>2 DEF EnterAddress, Update, Doc
    <3>3. ASSUME NEW b, AnswerRejected(TRUE) \/ NewAddress(b) PROVE RiskInv'
      BY <1>2, <2>0, <2>1, <3>3, RejectRisk DEF AnswerRejected, NewAddress, Write
    <3>4. ASSUME NEW r, Withdraw(r) PROVE RiskInv'
      BY <1>2, <2>0, <3>4, RejectRisk DEF Withdraw, Write
    <3>5. ASSUME ReinstateAddress PROVE RiskInv'
      BY <1>2, <2>0, <3>5, ReinstateRisk DEF ReinstateAddress, Write
    <3> QED
      BY <1>2, <2>3, <2>4, <3>1, <3>2, <3>3, <3>4, <3>5, CaAside
  <2>5. CASE SharedSteps
    <3>1. ASSUME NEW a, ReviewAddress(a) PROVE RiskInv'
      BY <2>0, <2>1, <3>1 DEF ReviewAddress, Update, Doc
    <3> QED
      BY <1>2, <2>0, <2>3, <2>5, <3>1, SharedAside, AssessedRisk
  <2>6. CASE DmSteps \/ \E d \in Destinations : Send(d)
    <3>1. doc' = doc \/ \E a : doc' = [doc EXCEPT !.release = a]
      BY <2>6 DEF DmSteps, Consider, Release, RefuseReason, Send, Write
    <3> QED
      BY <2>0, <2>1, <3>1 DEF Doc
  <2> QED
    BY <1>2, <2>2, <2>4, <2>5, <2>6 DEF Next
<1> QED
  BY <1>1, <1>2, Invariant, PTL DEF Spec
\* What the task list is told of a case with the responsible officer.
LEMMA RoStatus ==
  ASSUME stage = "PROCESSING_RO"
  PROVE  /\ Status.stage = "PROCESSING_RO"
         /\ Status.bassReferralNeeded = BassReferralNeeded(doc)
         /\ Status.bassAreaNotSuitable = BassAreaNotSuitable(doc)
         /\ Status.curfewAddressRejected = CurfewAddressRejected(doc)
         /\ Status.addressUnsuitable = AddressUnsuitable(doc)
         /\ Status.approvedPremisesRequired <=> ApprovedPremisesRequired(doc)
         /\ Status.addressReviewFailed <=> AddressReviewFailed(doc)
         /\ Status.review = ReviewState(doc) /\ Status.risk = RiskState(doc)
         /\ Status.victim = FillState(doc.victim) /\ Status.hours = FillState(doc.hours)
         /\ Status.conditions = FillState(doc.conditions)
         /\ Status.reporting = FillState(doc.reporting)
BY DEF Status, StatusOf, Seen, SeesRo

LEMMA Filled == ASSUME NEW f \in Fill, FillState(f) = "DONE" PROVE f = "Full"
BY DEF FillState, Fill

\* Every form that is checked has its place, group by group of the check.
LEMMA CheckedMarked ==
  ASSUME stage = "PROCESSING_RO", ~CheckLeftOver
  PROVE  ErrorsMarked
<1> DEFINE group == FormGroup(Status, doc)
           marked == MarkedForms(Status, doc)
           bass == BassReferralNeeded(doc)
<1> USE RoStatus
<1>1. group = RoGroup(Status, doc)
  BY DEF FormGroup
<1>2. LicenceForms(Status) \subseteq {"hours", "conditions", "reporting"}
  BY DEF LicenceForms
<1>3. ASSUME NEW form \in group
      PROVE  \/ form \in marked
             \/ bass /\ \/ form \in {"bassRequest", "misfiledAreaCheck"}
                        \/ form = "curfewAddressReview" /\ CurfewAddressRejected(doc)
                        \/ form = "premises" /\ doc.ap = "Yes"
  <2>1. form \in RoGroup(Status, doc)
    BY <1>1, <1>3
  <2> HIDE DEF group
  <2>2. CASE ApprovedPremisesRequired(doc)
    <3>1. form = PremisesForm(doc) \/ form \in LicenceForms(Status)
      BY <2>1, <2>2 DEF RoGroup
    <3>2. CASE form \in LicenceForms(Status)
      BY <1>2, <2>2, <3>2 DEF MarkedForms, ReviewSections, When
    <3>3. "premises" \in ReviewSections(Status)
      BY <2>2 DEF ReviewSections, When
    <3>4. "bassArea" \in ReviewSections(Status) <=> bass
      BY <1>2 DEF ReviewSections, When
    <3>5. CASE form = PremisesForm(doc) /\ bass
      BY <3>3, <3>4, <3>5 DEF MarkedForms, When, PremisesForm
    <3>6. CASE form = PremisesForm(doc) /\ ~bass
      <4>1. doc.ap = "Yes"
        BY <2>2, <3>6 DEF ApprovedPremisesRequired, CheckLeftOver
      <4> QED
        BY <3>3, <3>4, <3>6, <4>1 DEF MarkedForms, When, PremisesForm
    <3> QED
      BY <3>1, <3>2, <3>5, <3>6
  <2>3. CASE ~ApprovedPremisesRequired(doc) /\ CurfewAddressRejected(doc)
    <3>1. form = "curfewAddressReview" \/ (form = "risk" /\ AddressUnsuitable(doc))
      BY <2>1, <2>3 DEF RoGroup, CurfewAddressRejected
    <3>2. "risk" \in marked \/ ~AddressUnsuitable(doc)
      BY <2>3 DEF MarkedForms, ReviewSections, When
    <3>3. "curfewAddressReview" \in marked \/ bass
      BY <2>3 DEF MarkedForms, ReviewSections, When
    <3> QED
      BY <2>3, <3>1, <3>2, <3>3
  <2>4. CASE ~ApprovedPremisesRequired(doc) /\ ~CurfewAddressRejected(doc) /\ BassAreaNotSuitable(doc)
    <3>1. form \in {"bassRequest", "bassAreaCheck"}
      BY <2>1, <2>4 DEF RoGroup, CurfewAddressRejected
    <3>2. bass
      BY <2>4 DEF CheckLeftOver
    <3>4. "bassArea" \in ReviewSections(Status) /\ "premises" \notin ReviewSections(Status)
      BY <1>2, <2>4, <3>2 DEF ReviewSections, When
    <3> QED
      BY <3>1, <3>2, <3>4 DEF MarkedForms, When
  <2>5. CASE ~ApprovedPremisesRequired(doc) /\ ~CurfewAddressRejected(doc) /\ ~BassAreaNotSuitable(doc)
    <3>1. \/ form \in {"risk", "victim"} \cup LicenceForms(Status)
          \/ bass /\ form \in {"bassRequest", "misfiledAreaCheck"}
          \/ ~bass /\ form = "curfewAddressReview"
      BY <2>1, <2>5 DEF RoGroup, CurfewAddressRejected
    <3>2. {"risk", "victim"} \cup LicenceForms(Status) \subseteq ReviewSections(Status)
      BY <2>5 DEF ReviewSections, When
    <3>3. CASE form \in {"risk", "victim"} \cup LicenceForms(Status)
      BY <1>2, <3>2, <3>3 DEF MarkedForms
    <3>5. CASE ~bass /\ form = "curfewAddressReview"
      <4>1. "curfewAddress" \in ReviewSections(Status)
        BY <2>5, <3>5 DEF ReviewSections, When
      <4> QED
        BY <3>5, <4>1 DEF MarkedForms, When
    <3> QED
      BY <3>1, <3>3, <3>5
  <2> QED
    BY <2>2, <2>3, <2>4, <2>5
<1> QED
  BY <1>3 DEF ErrorsMarked, When

\* A finished risk assessment misses no answer, whatever the version.
LEMMA RiskFinished ==
  ASSUME TypeOK, RiskInv, RiskState(doc) = "DONE"
  PROVE  RiskAnswered(doc)
<1>1. doc.risk \in RiskForm /\ doc.suitable \in Suitability
  BY DEF TypeOK, Doc
<1>2. /\ doc.risk.awaiting /\ doc.suitable.suitable # "None"
      /\ \/ doc.risk.planning \/ doc.suitable.checks = "Yes"
         \/ doc.risk.version = "2" /\ doc.suitable.checks = "No"
      /\ doc.risk.version = "3" => doc.suitable.manage # "None" /\ doc.risk.consulted
  BY DEF RiskState
<1>3. IF doc.risk.version = "1" THEN doc.risk.planning ELSE doc.suitable.checks # "None"
  BY <1>2 DEF RiskInv
<1> QED
  BY <1>2, <1>3 DEF RiskAnswered

\* A residence that is called ready has every answer, task by task.
LEMMA ReadyAnswered ==
  ASSUME TypeOK, stage = "PROCESSING_RO", RiskInv, ~CheckLeftOver
  PROVE  ReadyIsAnswered
<1> SUFFICES ASSUME CanSendRoToCa(Status), ~BassReferralNeeded(doc), ~CurfewAddressRejected(doc),
                    ~Status.optedOut, NEW form \in Errors(Status, doc)
             PROVE  FALSE
  BY RoStatus DEF ReadyIsAnswered
<1> USE RoStatus
<1>0. /\ doc.victim \in Fill /\ doc.hours \in Fill /\ doc.conditions \in Fill
      /\ doc.reporting \in Fill /\ doc.apAddress \in Fill
  BY DEF TypeOK, Doc
<1>1. /\ ReviewState(doc) = "DONE" /\ FillState(doc.victim) = "DONE"
      /\ ~ApprovedPremisesRequired(doc) => RiskState(doc) = "DONE"
      /\ ~Status.useCvl => /\ FillState(doc.hours) = "DONE"
                           /\ FillState(doc.conditions) = "DONE"
                           /\ FillState(doc.reporting) = "DONE"
  BY DEF CanSendRoToCa, AllComplete, When
<1>2. form \in RoGroup(Status, doc) /\ ~FormAnswered(form, doc)
  BY DEF Errors, FormGroup
<1>3. form \notin LicenceForms(Status) \cup {"victim"}
  BY <1>0, <1>1, <1>2, Filled DEF LicenceForms, FormAnswered
<1>4. ~BassAreaNotSuitable(doc) /\ doc.bass.ap # "Yes"
  BY DEF CheckLeftOver
<1>5. CASE ApprovedPremisesRequired(doc)
  <2>1. doc.ap = "Yes"
    BY <1>4, <1>5 DEF ApprovedPremisesRequired
  <2>2. form = "premises"
    BY <1>2, <1>3, <1>5, <2>1 DEF RoGroup, PremisesForm
  <2>3. FillState(doc.apAddress) = "DONE"
    BY <1>1, <1>4, <1>5 DEF ReviewState, ApAddressState
  <2> QED
    BY <1>0, <1>2, <2>2, <2>3, Filled DEF FormAnswered
<1>6. CASE ~ApprovedPremisesRequired(doc)
  <2>1. form \in {"risk", "curfewAddressReview"}
    BY <1>2, <1>3, <1>4, <1>6 DEF RoGroup, CurfewAddressRejected
  <2>2. RiskAnswered(doc)
    BY <1>1, <1>6, RiskFinished
  <2>3. AddressReviewAnswered(doc)
    BY <1>1, <1>6 DEF ReviewState, AddressReviewAnswered
  <2> QED
    BY <1>2, <2>1, <2>2, <2>3 DEF FormAnswered
<1> QED
  BY <1>5, <1>6

\* What the responsible officer is told of a case agrees with what is in it.
THEOREM ReviewAgrees == Spec => []ReviewTells
<1>1. TypeOK /\ ProposalInv /\ RiskInv => ReviewTells
  BY CheckedMarked, ReadyAnswered DEF ReviewTells, ProposalInv
<1> QED
  BY <1>1, TypeCorrect, ProposalInvariant, RiskInvariant, PTL
=============================================================================
