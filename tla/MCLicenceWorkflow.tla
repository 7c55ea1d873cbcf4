-------------------------- MODULE MCLicenceWorkflow --------------------------
(* Values for the constants of LicenceWorkflow, one set per run. *)
EXTENDS LicenceSerial, LicenceOverlap, TLC

CONSTANTS x, y   \* what users answer

NoAnswers == [s \in Sections |-> {}]

\* One user at a time.
SerialAnswers == [NoAnswers EXCEPT !["approval"] = {x}, !["address"] = {x},
                                   !["licenceConditions"] = {Blank, x}, !["template"] = {x, y}]

\* Overlapping requests: the parts the races are about.
OverlapAnswers == [NoAnswers EXCEPT !["template"] = {x}, !["approval"] = {x},
                                    !["licenceConditions"] = {x}]

\* Requests kept apart: what can lose a review, a document's number.
ApartAnswers == [NoAnswers EXCEPT !["approval"] = {x}, !["address"] = {x},
                                  !["template"] = {x, y}, !["curfewHours"] = {x},
                                  !["licenceConditions"] = {x}]

\* The shortest way to a decision: the case admin asks for a refusal at once.
ShortPath == {"caToDmRefusal", "dmToCa"}

\* And every way back to the decision maker from there.
LongerPath == ShortPath \cup {"dmToCaReturn", "caToDm", "caToDmResubmit"}

Symmetry == Permutations(Requests)
=============================================================================
