----------------------------- MODULE LicenceOverlap -----------------------------
(***************************************************************************)
(* How far the requests of LicenceWorkflow have to be kept apart for the   *)
(* decision, and for what a printed document says, to survive.  No code    *)
(* keeps them apart; users who do not act on a case at the same moment do. *)
(* Any number of the other requests overlap.                               *)
(***************************************************************************)
EXTENDS LicenceWorkflow

Busy(p) == req[p].pc # "idle"

HandingOver(p) == Busy(p) /\ req[p].op = "handover"

\* A change of what the decision maker decides on.
Reviewing(p) == Busy(p) /\ req[p].arg \in Reviewed

Printing(p) == Busy(p) /\ req[p].op = "pdf"

Apart(p) == \A o \in Requests \ {p} : ~Busy(o)

HandoversApart == \A p \in Requests : HandingOver(p) => Apart(p)

ReviewsApart == \A p \in Requests : HandingOver(p) \/ Reviewing(p) => Apart(p)

\* No decision is kept open in a browser to be sent, or sent again, later on.
DecisionsFresh == \A page \in pages : page.to # "dmToCa"

PrintsApart == \A p, o \in Requests : Printing(p) /\ Busy(o) => Printing(o)

\* The workflow of users who hand a case over while nobody works on it.
SpecHandoversApart == Init /\ [][Next /\ HandoversApart']_vars

\* And who change its conditions or curfew hours then too, and decide from a
\* page that was opened for it.
SpecReviewsApart == Init /\ [][Next /\ ReviewsApart' /\ DecisionsFresh']_vars

\* Or who print a licence, several of them perhaps, while nobody changes it.
SpecPrintsApart == Init /\ [][Next /\ PrintsApart']_vars

\* Or who do all of this.  Opening a page and the release move no request; all
\* handovers but the decision may be sent from a page kept open.
NextAllApart ==
  \/ \E p \in Requests : (Arrive(p) \/ Proceed(p) \/ Fail(p)) /\ ReviewsApart' /\ PrintsApart'
  \/ \E t \in Sends \ {"dmToCa"} : OpenPage(t)
  \/ Release

SpecAllApart == Init /\ [][NextAllApart]_vars
=============================================================================
