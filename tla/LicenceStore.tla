---------------------------- MODULE LicenceStore ----------------------------
(***************************************************************************)
(* The data of one booking's licence and the statements that change it:    *)
(* the row of table licences, the snapshots of table licence_versions, and *)
(* the pure functions of licenceClient.ts, licenceService.ts, versionInfo  *)
(* and licenceStage.ts over them.  No state: the modules that extend this  *)
(* one decide which process executes which statement, and when.            *)
(*                                                                         *)
(* The licence document is abstracted to five parts, each holding one      *)
(* value:                                                                  *)
(*   approval          approval.release, the decision maker's answer       *)
(*   licenceConditions the conditions, edited as one section               *)
(*   curfewHours       a form whose changes need approval                  *)
(*   template          document.template, the licence type                 *)
(*   address           every other form, and the address records           *)
(***************************************************************************)
EXTENDS Naturals, FiniteSets

CONSTANTS Values,  \* what a part of the document can hold
          Blank    \* a part that has not been answered

ASSUME BlankAssumption == Blank \in Values

Sections == {"approval", "licenceConditions", "curfewHours", "template", "address"}

Doc == [Sections -> Values]

\* No part answered: the default of createLicence.
EmptyDoc == [s \in Sections |-> Blank]

Stages == {"ELIGIBILITY", "PROCESSING_RO", "PROCESSING_CA", "APPROVAL",
           "DECIDED", "MODIFIED", "MODIFIED_APPROVAL", "VARY"}

\* isPostApproval
PostApproval == {"DECIDED", "MODIFIED", "MODIFIED_APPROVAL"}

\* One row of table licences.
Row == [doc : Doc, stage : Stages, version : Nat, vary : Nat]

\* One row of table licence_versions.
Snapshot == [doc : Doc, template : Values, version : Nat, vary : Nat]

-----------------------------------------------------------------------------
(* Statements of licenceClient.ts.  vs is the set of live snapshots.       *)

\* "n in (select max(...))": never true while there is no snapshot.
IsMaxOf(n, ns) == n \in ns /\ \A m \in ns : m <= n

\* Mutant: the guard of updateVersion is dropped.
UpdateVersion_Unguarded(r, vs, postRelease) ==
  IF postRelease THEN [r EXCEPT !.vary = @ + 1] ELSE [r EXCEPT !.version = @ + 1]

\* Mutant: the column name is not substituted in the subselect.
UpdateVersion_WrongColumn(r, vs, postRelease) ==
  IF ~IsMaxOf(IF postRelease THEN r.vary ELSE r.version, {s.vary : s \in vs}) THEN r
  ELSE IF postRelease THEN [r EXCEPT !.vary = @ + 1] ELSE [r EXCEPT !.version = @ + 1]

\* updateVersion: one column moves on, and only when the row still carries
\* the greatest value any snapshot has in that column.
UpdateVersion(r, vs, postRelease) ==
  CASE postRelease /\ IsMaxOf(r.vary, {s.vary : s \in vs}) ->
         [r EXCEPT !.vary = @ + 1]
    [] ~postRelease /\ IsMaxOf(r.version, {s.version : s \in vs}) ->
         [r EXCEPT !.version = @ + 1]
    [] OTHER -> r

SamePair(r, s) == r.version = s.version /\ r.vary = s.vary

\* The unique index on (booking_id, version, vary_version) rejects the insert.
PairTaken(r, vs) == \E s \in vs : SamePair(r, s)

\* Mutant: the snapshot takes the number the next change will get.
SaveApprovedLicenceVersion_Next(r, vs, template) ==
  vs \cup {[doc |-> r.doc, template |-> template,
            version |-> r.version + 1, vary |-> r.vary]}

\* saveApprovedLicenceVersion: a copy of the row as it is now, under the
\* template the caller passes.
SaveApprovedLicenceVersion(r, vs, template) ==
  vs \cup {[doc |-> r.doc, template |-> template,
            version |-> r.version, vary |-> r.vary]}

\* order by version desc, vary_version desc
Later(s, t) == s.version > t.version \/ (s.version = t.version /\ s.vary > t.vary)

\* getApprovedLicenceVersion: the latest snapshot, or the empty set.
ApprovedLicenceVersion(vs) == {s \in vs : \A t \in vs : ~Later(t, s)}

-----------------------------------------------------------------------------
(* versionInfo.js: does the licence that was read need a snapshot?  ap is   *)
(* the approved version that was read with it, at most one snapshot.        *)

IsNewVersion(r, ap) == \A s \in ap : r.version > s.version \/ r.vary > s.vary

IsNewTemplate(r, ap) == \E s \in ap : r.doc.template # s.template

-----------------------------------------------------------------------------
(* Stages *)

Transitions == {"caToRo", "caToDm", "caToDmResubmit", "caToDmRefusal", "roToCa",
                "roToCaAddressRejected", "roToCaOptedOut", "dmToCa", "dmToCaReturn"}

\* licenceStage.ts: where each handover takes the licence.
StageAfter ==
  [t \in Transitions |->
     CASE t = "caToRo" -> "PROCESSING_RO"
       [] t \in {"caToDm", "caToDmResubmit", "caToDmRefusal"} -> "APPROVAL"
       [] t \in {"roToCa", "dmToCaReturn"} -> "PROCESSING_CA"
       [] t = "dmToCa" -> "DECIDED"
       [] t \in {"roToCaAddressRejected", "roToCaOptedOut"} -> "ELIGIBILITY"]

\* Where the task lists offer each handover, from the point of view of the
\* stage alone (caTransitions.ts, roTransitions.ts, caTasks.js, dmTasks.js).
OfferedAt ==
  [t \in Transitions |->
     CASE t = "caToRo" -> {"ELIGIBILITY", "PROCESSING_CA", "MODIFIED"}
       [] t = "caToDm" -> {"PROCESSING_CA", "MODIFIED_APPROVAL"}
       [] t = "caToDmResubmit" -> {"DECIDED", "MODIFIED"}
       [] t = "caToDmRefusal" -> {"ELIGIBILITY", "PROCESSING_CA"} \cup PostApproval
       [] t \in {"roToCa", "roToCaAddressRejected", "roToCaOptedOut"} -> {"PROCESSING_RO"}
       [] t \in {"dmToCa", "dmToCaReturn"} -> {"APPROVAL"}]

\* modificationRequiresApproval and noModify of the form configurations.
RequiresApproval(section) == section \in {"licenceConditions", "curfewHours"}
NoModify(section) == section = "template"

\* Mutant: a modified licence is not sent back.
ModificationStage_DecidedOnly(stageRead, requiresApproval, noModify) ==
  IF noModify \/ stageRead # "DECIDED" THEN {}
  ELSE IF requiresApproval THEN {"MODIFIED_APPROVAL"} ELSE {"MODIFIED"}

\* updateModificationStage: the stage to write, given the stage the request
\* read; the empty set when the call writes nothing.
ModificationStage(stageRead, requiresApproval, noModify) ==
  IF noModify THEN {}
  ELSE IF requiresApproval /\ stageRead \in {"DECIDED", "MODIFIED"}
       THEN {"MODIFIED_APPROVAL"}
       ELSE IF stageRead = "DECIDED" THEN {"MODIFIED"} ELSE {}

\* removeDecision's document.
WithoutDecision(doc) == [doc EXCEPT !["approval"] = Blank]
=============================================================================
