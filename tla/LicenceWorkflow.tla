--------------------------- MODULE LicenceWorkflow ---------------------------
(***************************************************************************)
(* One booking's licence under concurrent HTTP requests.                   *)
(*                                                                         *)
(* A request reads the licence once, in checkLicenceMiddleware, and then   *)
(* issues its statements one by one; each statement commits on its own.    *)
(* Nothing is locked and nothing is compared again, so the statements of   *)
(* two requests interleave freely.  A request is a process whose pc names  *)
(* the statement it issues next:                                           *)
(*                                                                         *)
(*   form             writeDoc, bump, flag        licenceService.update    *)
(*   conditions       flag, writeSection, bump    updateLicenceConditions  *)
(*   deleteCondition  writeSection, bump          deleteLicenceCondition   *)
(*   moveAddress      writeDoc, bump              reject/reinstate address *)
(*   handover         stage [, writeDoc, bump]    sendCaOrDm, sendRo       *)
(*   pdf              load [, snapshot, reload], print   GET /pdf/create   *)
(***************************************************************************)
EXTENDS LicenceStore

CONSTANTS Requests,      \* the requests that can be in flight together
          Starts,        \* how the licence is created: a subset of {"ELIGIBILITY", "VARY"}
          Ops,           \* the kinds of request users make
          Sends,         \* the handovers users make
          Answers,       \* what users enter, for each part of the document
          MaxOpenPages,  \* handover pages kept open in a browser
          MaxFailures,   \* requests that die half way
          MaxVersion     \* bound: no PDF is requested beyond this version

AllOps == {"form", "conditions", "deleteCondition", "moveAddress", "handover", "pdf"}

ASSUME OpsAssumption ==
  Starts \subseteq {"ELIGIBILITY", "VARY"} /\ Ops \subseteq AllOps /\ Sends \subseteq Transitions
ASSUME AnswersAssumption == Answers \in [Sections -> SUBSET Values]
ASSUME BoundsAssumption ==
  MaxOpenPages \in Nat /\ MaxFailures \in Nat /\ MaxVersion \in Nat

VARIABLES row,       \* the live row of licences
          versions,  \* the live rows of licence_versions
          released,  \* the prison service reports agency OUT
          req,       \* what each request has read and does next
          pages,     \* handover pages that were served and are still open
          failures,  \* requests that died half way so far
          torn,      \* history: one died between a write and updateVersion
          decided    \* history: what the decision maker saw who decided last

vars == <<row, versions, released, req, pages, failures, torn, decided>>

PCs == {"idle", "writeDoc", "writeSection", "bump", "flag", "stage",
        "load", "snapshot", "reload", "print"}

\* What GET /pdf/create uses of the licence it reads.
Reading == [doc : Doc, version : Nat, vary : Nat]
ReadingOf(r) == [doc |-> r.doc, version |-> r.version, vary |-> r.vary]

\* The parts of the document a change of which needs a new decision.
Reviewed == {"licenceConditions", "curfewHours"}

Request == [op : AllOps \cup {"none"},
            arg : Sections \cup Transitions \cup {"none"},
            pc : PCs,
            stage : Stages,              \* the stage it has read, for the flag
            newDoc : Doc,                \* the document it will write
            shown : [Reviewed -> Values],  \* what the decision maker's page showed
            post : BOOLEAN,              \* res.locals.postRelease
            read : Reading,              \* what a pdf request has read of the row
            approved : SUBSET Snapshot,  \* the approved version it has read
            loads : SUBSET {"row", "approved"}]  \* its outstanding queries

\* Mutant: the key of the enumeration is stored in place of its value.
NewRow_EnumKey(stage, vary) ==
  [doc |-> EmptyDoc, stage |-> IF stage = "ELIGIBILITY" THEN "DEFAULT" ELSE stage,
   version |-> 1, vary |-> vary]

NewRow(stage, vary) == [doc |-> EmptyDoc, stage |-> stage, version |-> 1, vary |-> vary]

Unseen == [s \in Reviewed |-> Blank]

\* A field holds its value here whenever the request no longer needs it.
Idle == [op |-> "none", arg |-> "none", pc |-> "idle", stage |-> "ELIGIBILITY",
         newDoc |-> EmptyDoc, shown |-> Unseen, post |-> FALSE, read |-> ReadingOf(NewRow("ELIGIBILITY", 0)),
         approved |-> {}, loads |-> {}]

\* POST eligibilityStart, or POST varyStart for a prisoner already released.
Init ==
  /\ \/ "ELIGIBILITY" \in Starts /\ row = NewRow("ELIGIBILITY", 0) /\ released = FALSE
     \/ "VARY" \in Starts /\ row = NewRow("VARY", 1) /\ released = TRUE
  /\ versions = {}
  /\ req = [p \in Requests |-> Idle]
  /\ pages = {}
  /\ failures = 0
  /\ torn = FALSE
  /\ decided = Unseen

-----------------------------------------------------------------------------
(* What the served pages let a user do. *)

\* The stages at which the task list of the active role is writable and holds
\* the task; after release only the responsible officer writes.
Editable(s) ==
  CASE s = "approval" -> ~released /\ row.stage = "APPROVAL"
    [] s \in Reviewed ->
         released \/ row.stage \in {"PROCESSING_RO", "PROCESSING_CA"} \cup PostApproval
    [] s = "address" -> released \/ row.stage # "APPROVAL"
    [] s = "template" -> released \/ row.stage \in {"DECIDED", "MODIFIED"}

\* Mutant: the decision can be sent before it is given.
HandoverOffered_NoAnswer(t) == ~released /\ row.stage \in OfferedAt[t]

\* A handover link is on the page; the decision page is reached by answering.
HandoverOffered(t) ==
  /\ ~released
  /\ row.stage \in OfferedAt[t]
  /\ t = "dmToCa" => row.doc["approval"] # Blank

\* A handover page as it is served now.  The decision maker's comes at the end
\* of a look at the case: it stands for the answers that were seen then.
Page(t) == [to |-> t, shown |-> IF t = "dmToCa" THEN [s \in Reviewed |-> row.doc[s]] ELSE Unseen]

HandoverPages == pages \cup {Page(t) : t \in Sends}

\* createLicence.ca, createLicence.vary; a template must have been chosen.
PdfOffered ==
  /\ row.doc["template"] # Blank
  /\ \/ released
     \/ row.stage \in {"DECIDED", "MODIFIED"}

-----------------------------------------------------------------------------
(* A request arrives: checkLicenceMiddleware reads the licence and the      *)
(* prisoner's agency, the handler works out what it will write.             *)

Begin(p, op, arg, pc, newDoc, shown) ==
  /\ op \in Ops
  /\ req[p].pc = "idle"
  /\ req' = [req EXCEPT ![p] = [Idle EXCEPT !.op = op, !.arg = arg, !.pc = pc,
                                            !.stage = IF op \in {"form", "conditions"}
                                                      THEN row.stage ELSE @,
                                            !.newDoc = newDoc, !.shown = shown,
                                            !.post = released]]
  /\ UNCHANGED <<row, versions, released, pages, failures, torn, decided>>

\* A form that changes nothing returns before any statement.
SubmitForm(p, s, v) ==
  /\ Editable(s)
  /\ row.doc[s] # v
  /\ Begin(p, "form", s, "writeDoc", [row.doc EXCEPT ![s] = v], Unseen)

SubmitConditions(p, v) ==
  /\ Editable("licenceConditions")
  /\ row.doc["licenceConditions"] # v
  /\ Begin(p, "conditions", "licenceConditions", "flag",
           [EmptyDoc EXCEPT !["licenceConditions"] = v], Unseen)

DeleteCondition(p, v) ==
  /\ Editable("licenceConditions")
  /\ row.doc["licenceConditions"] \notin {v, Blank}
  /\ Begin(p, "deleteCondition", "licenceConditions", "writeSection",
           [EmptyDoc EXCEPT !["licenceConditions"] = v], Unseen)

\* rejectProposedAddress or reinstateProposedAddress, by the case admin.
MoveAddress(p, v) ==
  /\ ~released
  /\ row.stage \in {"PROCESSING_CA"} \cup PostApproval
  /\ row.doc["address"] # v
  /\ Begin(p, "moveAddress", "address", "writeDoc", [row.doc EXCEPT !["address"] = v], Unseen)

\* The POST checks the role and never the stage: an open page will do.
SendHandover(p, page) ==
  /\ \/ HandoverOffered(page.to) /\ page = Page(page.to)
     \/ page \in pages
  /\ Begin(p, "handover", page.to, "stage",
           IF page.to = "dmToCaReturn" THEN WithoutDecision(row.doc) ELSE EmptyDoc, page.shown)

OpenPage(t) ==
  /\ HandoverOffered(t)
  /\ \A page \in pages : page.to # t
  /\ Cardinality(pages) < MaxOpenPages
  /\ pages' = pages \cup {Page(t)}
  /\ UNCHANGED <<row, versions, released, req, failures, torn, decided>>

StartPdf(p) ==
  /\ "pdf" \in Ops
  /\ PdfOffered
  /\ row.version <= MaxVersion /\ row.vary <= MaxVersion
  /\ req[p].pc = "idle"
  /\ req' = [req EXCEPT ![p] = [Idle EXCEPT !.op = "pdf", !.pc = "load",
                                            !.loads = {"row", "approved"}]]
  /\ UNCHANGED <<row, versions, released, pages, failures, torn, decided>>

-----------------------------------------------------------------------------
(* The statements. *)

Goto(p, pc) ==
  req' = [req EXCEPT ![p] = IF pc = "idle" THEN Idle ELSE [@ EXCEPT !.pc = pc]]

\* Mutant: the licence type is saved without updateVersion.
WriteDoc_TypeKeepsVersion(p) ==
  /\ req[p].pc = "writeDoc"
  /\ row' = [row EXCEPT !.doc = req[p].newDoc]
  /\ req' = [req EXCEPT ![p].pc = IF req[p].arg = "template" THEN "flag" ELSE "bump",
                        ![p].newDoc = EmptyDoc]
  /\ UNCHANGED <<versions, released, pages, failures, torn, decided>>

\* updateLicence, first statement: the whole document the request worked out.
WriteDoc(p) ==
  /\ req[p].pc = "writeDoc"
  /\ row' = [row EXCEPT !.doc = req[p].newDoc]
  /\ req' = [req EXCEPT ![p].pc = "bump", ![p].newDoc = EmptyDoc]
  /\ UNCHANGED <<versions, released, pages, failures, torn, decided>>

\* updateSection, first statement: jsonb_set of the one section.
WriteSection(p) ==
  /\ req[p].pc = "writeSection"
  /\ row' = [row EXCEPT !.doc["licenceConditions"] = req[p].newDoc["licenceConditions"]]
  /\ req' = [req EXCEPT ![p].pc = "bump", ![p].newDoc = EmptyDoc]
  /\ UNCHANGED <<versions, released, pages, failures, torn, decided>>

\* updateVersion.  Only update and updateLicenceConditions pass postRelease on.
PostReleaseArgument(p) == req[p].op \in {"form", "conditions"} /\ req[p].post

Bump(p) ==
  /\ req[p].pc = "bump"
  /\ row' = UpdateVersion(row, versions, PostReleaseArgument(p))
  /\ torn' = FALSE
  /\ Goto(p, IF req[p].op = "form" THEN "flag" ELSE "idle")
  /\ UNCHANGED <<versions, released, pages, failures, decided>>

\* updateModificationStage, on the stage that was read when the request began.
FlagModification(p) ==
  /\ req[p].pc = "flag"
  /\ LET to == ModificationStage(req[p].stage, RequiresApproval(req[p].arg),
                                 NoModify(req[p].arg))
     IN  row' = IF to = {} THEN row ELSE [row EXCEPT !.stage = CHOOSE s \in to : TRUE]
  /\ Goto(p, IF req[p].op = "form" THEN "idle" ELSE "writeSection")
  /\ UNCHANGED <<versions, released, pages, failures, torn, decided>>

\* Mutant: a return leaves the decision in place.
MarkForHandover_KeepsDecision(p) ==
  /\ req[p].pc = "stage"
  /\ row' = [row EXCEPT !.stage = StageAfter[req[p].arg]]
  /\ decided' = IF req[p].arg = "dmToCa" THEN req[p].shown ELSE decided
  /\ Goto(p, "idle")
  /\ UNCHANGED <<versions, released, pages, failures, torn>>

\* markForHandover; a return also removes the decision.
MarkForHandover(p) ==
  /\ req[p].pc = "stage"
  /\ row' = [row EXCEPT !.stage = StageAfter[req[p].arg]]
  /\ decided' = IF req[p].arg = "dmToCa" THEN req[p].shown ELSE decided
  /\ Goto(p, IF req[p].arg = "dmToCaReturn" THEN "writeDoc" ELSE "idle")
  /\ UNCHANGED <<versions, released, pages, failures, torn>>

\* sendRo logs and returns when the responsible officer cannot be loaded; the
\* user is shown the page of a completed handover all the same.
ResponsibleOfficerMissing(p) ==
  /\ req[p].pc = "stage"
  /\ req[p].arg = "caToRo"
  /\ Goto(p, "idle")
  /\ UNCHANGED <<row, versions, released, pages, failures, torn, decided>>

-----------------------------------------------------------------------------
(* GET /pdf/create.  getLicence issues its two queries together and they    *)
(* complete in either order.                                                *)

\* What the request does once it holds both answers.
Loaded(r) ==
  CASE r.loads # {} -> r
    [] r.loads = {} /\ r.pc = "load"
         /\ (IsNewVersion(r.read, r.approved) \/ IsNewTemplate(r.read, r.approved)) ->
         [r EXCEPT !.pc = "snapshot", !.approved = {}]
    [] OTHER -> [r EXCEPT !.pc = "print"]

ReadRow(p) ==
  /\ req[p].pc \in {"load", "reload"}
  /\ "row" \in req[p].loads
  /\ req' = [req EXCEPT ![p] = Loaded([@ EXCEPT !.read = ReadingOf(row),
                                                  !.loads = req[p].loads \ {"row"}])]
  /\ UNCHANGED <<row, versions, released, pages, failures, torn, decided>>

ReadApproved(p) ==
  /\ req[p].pc \in {"load", "reload"}
  /\ "approved" \in req[p].loads
  /\ req' = [req EXCEPT ![p] =
               Loaded([@ EXCEPT !.approved = ApprovedLicenceVersion(versions),
                                !.loads = req[p].loads \ {"approved"}])]
  /\ UNCHANGED <<row, versions, released, pages, failures, torn, decided>>

\* Mutant: the licence is not read again after the snapshot.
TakeSnapshot_NoReload(p) ==
  /\ req[p].pc = "snapshot"
  /\ versions' = IF PairTaken(row, versions) THEN versions
                 ELSE SaveApprovedLicenceVersion(row, versions, req[p].read.doc["template"])
  /\ Goto(p, IF PairTaken(row, versions) THEN "idle" ELSE "print")
  /\ UNCHANGED <<row, released, pages, failures, torn, decided>>

\* saveApprovedLicenceVersion: the row as it is now, the template as it was
\* read; when the index rejects the insert the request ends in an error page.
TakeSnapshot(p) ==
  /\ req[p].pc = "snapshot"
  /\ IF PairTaken(row, versions)
     THEN /\ versions' = versions
          /\ Goto(p, "idle")
     ELSE /\ versions' = SaveApprovedLicenceVersion(row, versions,
                                                    req[p].read.doc["template"])
          /\ req' = [req EXCEPT ![p] = [Idle EXCEPT !.op = "pdf", !.pc = "reload",
                                                    !.loads = {"row", "approved"}]]
  /\ UNCHANGED <<row, released, pages, failures, torn, decided>>

\* The document is printed from the row that was read, and labelled with the
\* approved version that was read.
PrintLicence(p) ==
  /\ req[p].pc = "print"
  /\ Goto(p, "idle")
  /\ UNCHANGED <<row, versions, released, pages, failures, torn, decided>>

-----------------------------------------------------------------------------
(* The environment *)

\* The prisoner leaves; the prison service reports it from then on.
Release ==
  /\ ~released
  /\ row.stage \in PostApproval
  /\ released' = TRUE
  /\ UNCHANGED <<row, versions, req, pages, failures, torn, decided>>

\* A statement fails, a called service answers with an error, or the process
\* stops: what was committed stays and the rest never happens.
Fail(p) ==
  /\ failures < MaxFailures
  /\ req[p].pc # "idle"
  /\ failures' = failures + 1
  /\ torn' = (torn \/ req[p].pc = "bump")
  /\ Goto(p, "idle")
  /\ UNCHANGED <<row, versions, released, pages, decided>>

-----------------------------------------------------------------------------
Arrive(p) ==
  \/ \E s \in Sections : \E v \in Answers[s] : SubmitForm(p, s, v)
  \/ \E v \in Answers["licenceConditions"] : SubmitConditions(p, v)
  \/ \E v \in Answers["licenceConditions"] \cup {Blank} : DeleteCondition(p, v)
  \/ \E v \in Answers["address"] : MoveAddress(p, v)
  \/ \E page \in HandoverPages : SendHandover(p, page)
  \/ StartPdf(p)

Proceed(p) ==
  \/ WriteDoc(p) \/ WriteSection(p) \/ Bump(p) \/ FlagModification(p)
  \/ MarkForHandover(p) \/ ResponsibleOfficerMissing(p)
  \/ ReadRow(p) \/ ReadApproved(p) \/ TakeSnapshot(p) \/ PrintLicence(p)

Next ==
  \/ \E p \in Requests : Arrive(p) \/ Proceed(p) \/ Fail(p)
  \/ \E t \in Sends : OpenPage(t)
  \/ Release

Spec == Init /\ [][Next]_vars

-----------------------------------------------------------------------------
(* Properties.  PROJECT.json and the README say which run checks which.     *)

\* Every variable keeps its type.
TypeOK ==
  /\ row \in Row
  /\ versions \subseteq Snapshot
  /\ released \in BOOLEAN
  /\ req \in [Requests -> Request]
  /\ \A p \in Requests : req[p].pc = "stage" => req[p].arg \in Transitions
  /\ pages \subseteq [to : Sends, shown : [Reviewed -> Values]]
  /\ failures \in Nat
  /\ torn \in BOOLEAN
  /\ decided \in [Reviewed -> Values]

\* No request is between two statements.
Quiet == \A p \in Requests : req[p].pc = "idle"

\* A snapshot is never ahead of the row it copies, in either column: the
\* test of updateVersion and isNewVersion both rely on it.
RowAheadOfSnapshots ==
  \A s \in versions : s.version <= row.version /\ s.vary <= row.vary

\* Every version below the one the row carries has a snapshot: no number was
\* passed over, so each version a licence ever had is a recorded document.
NoVersionSkipped ==
  \A n \in 1 .. row.version - 1 : \E s \in versions : s.version = n

\* A row that carries the version of a snapshot is the document of that
\* snapshot, unless a request is between writing it and updateVersion, or one
\* died there: the two statements of updateLicence and updateSection.
SnapshotIntegrity ==
  \A s \in versions :
    SamePair(row, s) /\ s.doc # row.doc =>
      torn \/ \E p \in Requests : req[p].pc = "bump"

\* A change made after a snapshot got a new version by the time no request is
\* running (the claim of Notes.md about updateLicence and updateSection).
ChangeGetsNewVersion ==
  Quiet => \A s \in versions : SamePair(row, s) => s.doc = row.doc

\* A licence past approval carries the decision maker's answer.
DecisionStands ==
  Quiet /\ row.stage \in PostApproval => row.doc["approval"] # Blank

\* A licence that is not waiting for approval has the conditions and the
\* curfew hours that the decision maker saw who decided on it.
ReapprovalHolds ==
  Quiet /\ row.stage \in {"DECIDED", "MODIFIED"} =>
    \A s \in Reviewed : row.doc[s] = decided[s]

\* The printed document is the recorded document of the version printed on it.
PrintedMatchesSnapshot ==
  \A p \in Requests : req[p].pc = "print" =>
    \E s \in req[p].approved : req[p].read.doc = s.doc

\* With no request running, a document printed next can be recorded if it
\* has to be: printing is not blocked until somebody edits the licence.
SnapshotPossible ==
  LET approved == ApprovedLicenceVersion(versions)
  IN  Quiet /\ (IsNewVersion(row, approved) \/ IsNewTemplate(row, approved))
        => ~PairTaken(row, versions)
=============================================================================
