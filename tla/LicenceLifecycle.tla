--------------------------- MODULE LicenceLifecycle ---------------------------
(***************************************************************************)
(* What the service promises about one licence: every change, handover and *)
(* recording is one atomic step on the document, its stage and its two     *)
(* version numbers.  LicenceWorkflow, which takes several statements for   *)
(* each of them, implements it while one request runs at a time            *)
(* (LicenceSerial).                                                        *)
(***************************************************************************)
EXTENDS LicenceStore

VARIABLES licence,   \* the document, its stage and its numbers
          recorded,  \* the documents that were printed, with their numbers
          out        \* the prisoner has left

lifecycle == <<licence, recorded, out>>

Numbered(l) == [doc |-> l.doc, version |-> l.version, vary |-> l.vary]

LifecycleInit ==
  /\ \/ licence = [doc |-> EmptyDoc, stage |-> "ELIGIBILITY", version |-> 1, vary |-> 0]
        /\ out = FALSE
     \/ licence = [doc |-> EmptyDoc, stage |-> "VARY", version |-> 1, vary |-> 1]
        /\ out = TRUE
  /\ recorded = {}

\* The numbers a changed document may carry: at most one of the two moves, by
\* one, and the pair is not that of a recorded document.
Renumbered(l) ==
  {n \in {<<l.version, l.vary>>, <<l.version + 1, l.vary>>, <<l.version, l.vary + 1>>} :
     \A d \in recorded : d.version # n[1] \/ d.vary # n[2]}

\* Where a change of part s leaves the licence: a decided licence whose
\* conditions or curfew hours change goes back for approval.
Restaged(l, s) ==
  IF RequiresApproval(s) /\ l.stage \in {"DECIDED", "MODIFIED"} THEN {"MODIFIED_APPROVAL"}
  ELSE IF l.stage = "DECIDED" THEN {"DECIDED", "MODIFIED"}
  ELSE {l.stage}

Change(s, v) ==
  /\ licence.doc[s] # v
  /\ \E n \in Renumbered(licence) : \E stage \in Restaged(licence, s) :
       licence' = [doc |-> [licence.doc EXCEPT ![s] = v], stage |-> stage,
                   version |-> n[1], vary |-> n[2]]
  /\ UNCHANGED <<recorded, out>>

\* Every handover but a return leaves the document alone.
HandOver(t) ==
  /\ t # "dmToCaReturn"
  /\ licence.stage \in OfferedAt[t]
  /\ t = "dmToCa" => licence.doc["approval"] # Blank
  /\ licence' = [licence EXCEPT !.stage = StageAfter[t]]
  /\ UNCHANGED <<recorded, out>>

\* A return takes the decision off the document.
Return ==
  /\ licence.stage = "APPROVAL"
  /\ \E n \in Renumbered(licence) :
       licence' = [doc |-> WithoutDecision(licence.doc), stage |-> "PROCESSING_CA",
                   version |-> n[1], vary |-> n[2]]
  /\ UNCHANGED <<recorded, out>>

\* A document is recorded once under its numbers.
Record ==
  /\ \A d \in recorded : d.version # licence.version \/ d.vary # licence.vary
  /\ recorded' = recorded \cup {Numbered(licence)}
  /\ UNCHANGED <<licence, out>>

Leave ==
  /\ ~out
  /\ licence.stage \in PostApproval
  /\ out' = TRUE
  /\ UNCHANGED <<licence, recorded>>

LifecycleNext ==
  \/ \E s \in Sections, v \in Values : Change(s, v)
  \/ \E t \in Transitions : HandOver(t)
  \/ Return \/ Record \/ Leave

Lifecycle == LifecycleInit /\ [][LifecycleNext]_lifecycle
=============================================================================
