------------------------- MODULE LicenceSerial_proofs -------------------------
(***************************************************************************)
(* What holds while one request runs at a time, for every set of values,   *)
(* every kind of request and every bound: the decision, the reapproval of  *)
(* reviewed changes, the print, and the refinement of LicenceLifecycle.    *)
(*                                                                         *)
(* A request that runs alone finds the row as it read it.  RequestInv says *)
(* so of each kind of request, statement by statement.                     *)
(***************************************************************************)
EXTENDS LicenceSerial, LicenceWorkflow_proofs, FiniteSetTheorems

\* One request at a time: what every theorem of this module assumes.
OneAtATime == \A p, q \in Requests : p = q

-----------------------------------------------------------------------------
(* What a request q that runs alone has read and will write, when the row   *)
(* is r and the snapshots are vs.                                           *)

\* The document d with another answer for part s.
AnotherAnswer(new, d, s) == \E v \in Values \ {d[s]} : new = [d EXCEPT ![s] = v]

FormInv(q, r) ==
  /\ q.op = "form" /\ q.arg \in Sections /\ q.pc \in {"writeDoc", "bump", "flag"}
  /\ q.stage = r.stage
  /\ q.pc = "writeDoc" => AnotherAnswer(q.newDoc, r.doc, q.arg)
  /\ q.arg = "approval" => r.stage = "APPROVAL"

\* The stage is written first, the section after it.
ConditionsInv(q, r) ==
  /\ q.op = "conditions" /\ q.arg = "licenceConditions"
  /\ q.pc \in {"flag", "writeSection", "bump"}
  /\ IF q.pc = "flag" THEN q.stage = r.stage ELSE r.stage \notin {"DECIDED", "MODIFIED"}
  /\ q.pc # "bump" => q.newDoc["licenceConditions"] \in Values \ {r.doc["licenceConditions"]}

DeletionInv(q) == q.op = "deleteCondition" /\ q.pc \in {"writeSection", "bump"}

AddressInv(q, r) ==
  /\ q.op = "moveAddress" /\ q.arg = "address" /\ q.pc \in {"writeDoc", "bump"}
  /\ q.pc = "writeDoc" => AnotherAnswer(q.newDoc, r.doc, "address")

HandoverInv(q, r) ==
  /\ q.op = "handover" /\ q.arg \in Transitions /\ q.pc \in {"stage", "writeDoc", "bump"}
  /\ q.pc # "stage" => q.arg = "dmToCaReturn" /\ r.stage = "PROCESSING_CA"
  /\ q.pc # "bump" /\ q.arg = "dmToCaReturn" => q.newDoc = WithoutDecision(r.doc)

\* A print has read the row and the latest snapshot; from the moment it is not
\* going to take one any more there is one with the numbers of the row.
PdfInv(q, r, vs) ==
  /\ q.op = "pdf" /\ q.pc \in {"load", "snapshot", "reload", "print"}
  /\ q.loads # {} <=> q.pc \in {"load", "reload"}
  /\ "row" \notin q.loads => q.read = ReadingOf(r)
  /\ q.pc # "snapshot" /\ "approved" \notin q.loads => q.approved = ApprovedLicenceVersion(vs)
  /\ q.pc \in {"reload", "print"} => PairTaken(r, vs)

Alone(q, r, vs) ==
  \/ q = Idle
  \/ FormInv(q, r) \/ ConditionsInv(q, r) \/ DeletionInv(q) \/ AddressInv(q, r)
  \/ HandoverInv(q, r) \/ PdfInv(q, r, vs)

RequestInv == \A p \in Requests : Alone(req[p], row, versions)

LEMMA OneRequest ==
  ASSUME OneAtATime, NEW p \in Requests, req \in [Requests -> Request], NEW r,
         req' = [req EXCEPT ![p] = r], Alone(r, row', versions')
  PROVE  RequestInv'
BY DEF OneAtATime, RequestInv

\* What a request has begun with.
LEMMA BeginAlone ==
  ASSUME OneAtATime, TypeOK, NEW p \in Requests, NEW op, NEW arg, NEW pc, NEW d, NEW w,
         Begin(p, op, arg, pc, d, w),
         \A q : /\ q.op = op /\ q.arg = arg /\ q.pc = pc /\ q.newDoc = d
                /\ q.stage = IF op \in {"form", "conditions"} THEN row.stage ELSE "ELIGIBILITY"
                => Alone(q, row, versions)
  PROVE  RequestInv'
<1> DEFINE r == [Idle EXCEPT !.op = op, !.arg = arg, !.pc = pc,
                             !.stage = IF op \in {"form", "conditions"} THEN row.stage ELSE @,
                             !.newDoc = d, !.shown = w, !.post = released]
<1>1. /\ r.op = op /\ r.arg = arg /\ r.pc = pc /\ r.newDoc = d
      /\ r.stage = IF op \in {"form", "conditions"} THEN row.stage ELSE "ELIGIBILITY"
  BY DEF Idle
<1>2. req' = [req EXCEPT ![p] = r] /\ row' = row /\ versions' = versions
  BY DEF Begin
<1> HIDE DEF r
<1>3. Alone(r, row', versions')
  BY <1>1, <1>2
<1> QED
  BY <1>2, <1>3, OneRequest DEF TypeOK

LEMMA ArriveAlone ==
  ASSUME OneAtATime, TypeOK, NEW p \in Requests, Arrive(p)
  PROVE  RequestInv'
<1> USE DEF Alone
<1>1. row \in Row /\ row.doc \in Doc /\ row.stage \in Stages
  BY DEF TypeOK, Row
<1>2. ASSUME NEW s \in Sections, NEW v \in Answers[s], SubmitForm(p, s, v)
      PROVE  RequestInv'
  <2> DEFINE d == [row.doc EXCEPT ![s] = v]
  <2>1. v \in Values \ {row.doc[s]}
    BY <1>2, AnswersAssumption DEF SubmitForm
  <2>2. AnotherAnswer(d, row.doc, s)
    BY <2>1 DEF AnotherAnswer
  <2>3. s = "approval" => row.stage = "APPROVAL"
    BY <1>2 DEF SubmitForm, Editable, Reviewed
  <2>4. Begin(p, "form", s, "writeDoc", d, Unseen)
    BY <1>2 DEF SubmitForm
  <2> HIDE DEF d
  <2>5. ASSUME NEW q, q.op = "form", q.arg = s, q.pc = "writeDoc", q.newDoc = d,
               q.stage = row.stage
        PROVE  Alone(q, row, versions)
    BY <2>2, <2>3, <2>5 DEF FormInv
  <2> QED
    BY <2>4, <2>5, BeginAlone
<1>3. ASSUME NEW v \in Answers["licenceConditions"], SubmitConditions(p, v)
      PROVE  RequestInv'
  <2> DEFINE d == [EmptyDoc EXCEPT !["licenceConditions"] = v]
  <2>1. d["licenceConditions"] \in Values \ {row.doc["licenceConditions"]}
    BY <1>3, AnswersAssumption DEF SubmitConditions, EmptyDoc, Sections
  <2>2. Begin(p, "conditions", "licenceConditions", "flag", d, Unseen)
    BY <1>3 DEF SubmitConditions
  <2> HIDE DEF d
  <2>3. ASSUME NEW q, q.op = "conditions", q.arg = "licenceConditions", q.pc = "flag",
               q.newDoc = d, q.stage = row.stage
        PROVE  Alone(q, row, versions)
    BY <2>1, <2>3 DEF ConditionsInv
  <2> QED
    BY <2>2, <2>3, BeginAlone
<1>4. ASSUME NEW v \in Answers["licenceConditions"] \cup {Blank}, DeleteCondition(p, v)
      PROVE  RequestInv'
  BY <1>4, BeginAlone DEF DeleteCondition, DeletionInv
<1>5. ASSUME NEW v \in Answers["address"], MoveAddress(p, v)
      PROVE  RequestInv'
  <2> DEFINE d == [row.doc EXCEPT !["address"] = v]
  <2>1. v \in Values \ {row.doc["address"]}
    BY <1>5, AnswersAssumption DEF MoveAddress, Sections
  <2>2. AnotherAnswer(d, row.doc, "address")
    BY <2>1 DEF AnotherAnswer
  <2>3. Begin(p, "moveAddress", "address", "writeDoc", d, Unseen)
    BY <1>5 DEF MoveAddress
  <2> HIDE DEF d
  <2>4. ASSUME NEW q, q.op = "moveAddress", q.arg = "address", q.pc = "writeDoc", q.newDoc = d
        PROVE  Alone(q, row, versions)
    BY <2>2, <2>4 DEF AddressInv
  <2> QED
    BY <2>3, <2>4, BeginAlone
<1>6. ASSUME NEW page \in HandoverPages, SendHandover(p, page)
      PROVE  RequestInv'
  <2> DEFINE t == page.to
             d == IF t = "dmToCaReturn" THEN WithoutDecision(row.doc) ELSE EmptyDoc
  <2>1. t \in Transitions
    BY PageType
  <2>2. Begin(p, "handover", t, "stage", d, page.shown)
    BY <1>6 DEF SendHandover
  <2>3. ASSUME NEW q, q.op = "handover", q.arg = t, q.pc = "stage", q.newDoc = d
        PROVE  Alone(q, row, versions)
    BY <2>1, <2>3 DEF HandoverInv
  <2> HIDE DEF t, d
  <2> QED
    BY <2>2, <2>3, BeginAlone
<1>7. CASE StartPdf(p)
  <2> DEFINE r == [Idle EXCEPT !.op = "pdf", !.pc = "load", !.loads = {"row", "approved"}]
  <2>1. PdfInv(r, row', versions')
    BY DEF PdfInv, Idle
  <2>2. req' = [req EXCEPT ![p] = r]
    BY <1>7 DEF StartPdf
  <2> HIDE DEF r
  <2> QED
    BY <2>1, <2>2, OneRequest DEF TypeOK
<1> QED
  BY <1>2, <1>3, <1>4, <1>5, <1>6, <1>7 DEF Arrive

\* A print that does not need a snapshot has found the row's numbers taken.
LEMMA NotNewIsTaken ==
  ASSUME NEW r \in Row, NEW vs \in SUBSET Snapshot,
         \A s \in vs : s.version <= r.version /\ s.vary <= r.vary,
         ~IsNewVersion(ReadingOf(r), ApprovedLicenceVersion(vs))
  PROVE  PairTaken(r, vs)
<1>1. PICK s \in vs : ~(r.version > s.version \/ r.vary > s.vary)
  BY DEF IsNewVersion, ReadingOf, ApprovedLicenceVersion
<1>2. s.version \in Nat /\ s.vary \in Nat /\ r.version \in Nat /\ r.vary \in Nat
  BY DEF Snapshot, Row
<1> QED
  BY <1>1, <1>2 DEF PairTaken, SamePair

\* The two reads of a print, in either order.
LEMMA LoadedAlone ==
  ASSUME NEW r \in Row, NEW vs \in SUBSET Snapshot, NEW q,
         \A s \in vs : s.version <= r.version /\ s.vary <= r.vary,
         q \in Request, q.op = "pdf", q.pc \in {"load", "reload"},
         "row" \notin q.loads => q.read = ReadingOf(r),
         "approved" \notin q.loads => q.approved = ApprovedLicenceVersion(vs),
         q.pc = "reload" => PairTaken(r, vs)
  PROVE  PdfInv(Loaded(q), r, vs)
<1> DEFINE new == IsNewVersion(q.read, q.approved) \/ IsNewTemplate(q.read, q.approved)
<1>1. CASE q.loads # {}
  BY <1>1 DEF Loaded, PdfInv
<1>2. CASE q.loads = {} /\ q.pc = "load" /\ new
  <2>1. Loaded(q) = [q EXCEPT !.pc = "snapshot", !.approved = {}]
    BY <1>2 DEF Loaded
  <2> QED
    BY <1>2, <2>1 DEF PdfInv, Request
<1>3. CASE q.loads = {} /\ ~(q.pc = "load" /\ new)
  <2>1. Loaded(q) = [q EXCEPT !.pc = "print"]
    BY <1>3 DEF Loaded
  <2>2. PairTaken(r, vs)
    BY <1>3, NotNewIsTaken
  <2> QED
    BY <1>3, <2>1, <2>2 DEF PdfInv, Request
<1> QED
  BY <1>1, <1>2, <1>3

LEMMA BackToIdle ==
  ASSUME OneAtATime, TypeOK, NEW p \in Requests, Goto(p, "idle")
  PROVE  RequestInv'
BY OneRequest DEF Goto, Alone, TypeOK

LEMMA ProceedAlone ==
  ASSUME OneAtATime, TypeOK, RequestInv, RowAheadOfSnapshots, NEW p \in Requests, Proceed(p)
  PROVE  RequestInv'
<1> DEFINE q == req[p]
<1>1. /\ row \in Row /\ versions \in SUBSET Snapshot /\ row.doc \in Doc
      /\ q \in Request /\ Alone(q, row, versions) /\ req \in [Requests -> Request]
  BY DEF TypeOK, Row, RequestInv
<1>2. Idle.pc = "idle"
  BY IdleType
<1>3. CASE WriteDoc(p)
  <2> DEFINE n == [q EXCEPT !.pc = "bump", !.newDoc = EmptyDoc]
  <2>1. n.op = q.op /\ n.arg = q.arg /\ n.pc = "bump" /\ n.stage = q.stage
    BY <1>1 DEF Request
  <2>2. req' = [req EXCEPT ![p] = n] /\ row'.stage = row.stage /\ q.pc = "writeDoc"
    BY <1>1, <1>3 DEF WriteDoc, Row
  <2>3. Alone(n, row', versions')
    <3> HIDE DEF n
    <3>1. FormInv(q, row) \/ AddressInv(q, row) \/ HandoverInv(q, row)
      BY <1>1, <1>2, <2>2 DEF Alone, ConditionsInv, DeletionInv, PdfInv
    <3> QED
      BY <2>1, <2>2, <3>1 DEF Alone, FormInv, AddressInv, HandoverInv
  <2> HIDE DEF n
  <2> QED
    BY <1>1, <2>2, <2>3, OneRequest
<1>4. CASE WriteSection(p)
  <2> DEFINE n == [q EXCEPT !.pc = "bump", !.newDoc = EmptyDoc]
  <2>1. n.op = q.op /\ n.arg = q.arg /\ n.pc = "bump" /\ n.stage = q.stage
    BY <1>1 DEF Request
  <2>2. req' = [req EXCEPT ![p] = n] /\ row'.stage = row.stage /\ q.pc = "writeSection"
    BY <1>1, <1>4 DEF WriteSection, Row
  <2>3. Alone(n, row', versions')
    <3> HIDE DEF n
    <3>1. ConditionsInv(q, row) \/ DeletionInv(q)
      BY <1>1, <1>2, <2>2 DEF Alone, FormInv, AddressInv, HandoverInv, PdfInv
    <3> QED
      BY <2>1, <2>2, <3>1 DEF Alone, ConditionsInv, DeletionInv
  <2> HIDE DEF n
  <2> QED
    BY <1>1, <2>2, <2>3, OneRequest
<1>5. CASE Bump(p)
  <2>1. CASE q.op = "form"
    <3> DEFINE n == [q EXCEPT !.pc = "flag"]
    <3>1. n.op = q.op /\ n.arg = q.arg /\ n.pc = "flag" /\ n.stage = q.stage
      BY <1>1 DEF Request
    <3>2. req' = [req EXCEPT ![p] = n] /\ row'.stage = row.stage
      <4>1. PostReleaseArgument(p) \in BOOLEAN
        BY <1>1 DEF PostReleaseArgument, Request
      <4> QED
        BY <1>1, <1>5, <2>1, <4>1, UpdateVersionMoves DEF Bump, Goto
    <3>3. FormInv(q, row)
      BY <1>1, <2>1 DEF Alone, Idle, ConditionsInv, DeletionInv, AddressInv, HandoverInv, PdfInv
    <3> HIDE DEF n
    <3>4. Alone(n, row', versions')
      BY <3>1, <3>2, <3>3 DEF Alone, FormInv
    <3> QED
      BY <1>1, <3>2, <3>4, OneRequest
  <2>2. CASE q.op # "form"
    BY <1>5, <2>2, BackToIdle DEF Bump
  <2> QED
    BY <2>1, <2>2
<1>6. CASE FlagModification(p)
  <2>1. CASE q.op = "form"
    BY <1>6, <2>1, BackToIdle DEF FlagModification
  <2>2. CASE q.op # "form"
    <3> DEFINE n == [q EXCEPT !.pc = "writeSection"]
               to == ModificationStage(q.stage, RequiresApproval(q.arg), NoModify(q.arg))
    <3>1. n.op = q.op /\ n.arg = q.arg /\ n.pc = "writeSection" /\ n.newDoc = q.newDoc
      BY <1>1 DEF Request
    <3>2. ConditionsInv(q, row)
      BY <1>1, <1>2, <1>6, <2>2 DEF FlagModification, Alone, FormInv, DeletionInv, AddressInv,
                                    HandoverInv, PdfInv
    <3>3. /\ req' = [req EXCEPT ![p] = n]
          /\ row' = IF to = {} THEN row ELSE [row EXCEPT !.stage = CHOOSE s \in to : TRUE]
      BY <1>6, <2>2 DEF FlagModification, Goto
    <3>4. to = IF row.stage \in {"DECIDED", "MODIFIED"} THEN {"MODIFIED_APPROVAL"} ELSE {}
      BY <1>6, <3>2 DEF FlagModification, ConditionsInv, ModificationStage, RequiresApproval, NoModify
    <3> HIDE DEF n, to
    <3>5. row'.stage \notin {"DECIDED", "MODIFIED"} /\ row'.doc = row.doc
      BY <1>1, <3>3, <3>4 DEF Row
    <3>6. Alone(n, row', versions')
      BY <1>6, <3>1, <3>2, <3>5 DEF FlagModification, Alone, ConditionsInv
    <3> QED
      BY <1>1, <3>3, <3>6, OneRequest
  <2> QED
    BY <2>1, <2>2
<1>7. CASE MarkForHandover(p)
  <2>1. CASE q.arg # "dmToCaReturn"
    BY <1>7, <2>1, BackToIdle DEF MarkForHandover
  <2>2. CASE q.arg = "dmToCaReturn"
    <3> DEFINE n == [q EXCEPT !.pc = "writeDoc"]
    <3>1. n.op = q.op /\ n.arg = q.arg /\ n.pc = "writeDoc" /\ n.newDoc = q.newDoc
      BY <1>1 DEF Request
    <3>2. HandoverInv(q, row)
      BY <1>1, <1>2, <1>7 DEF MarkForHandover, Alone, FormInv, ConditionsInv, DeletionInv,
                              AddressInv, PdfInv
    <3>3. /\ req' = [req EXCEPT ![p] = n] /\ row'.doc = row.doc
          /\ row'.stage = "PROCESSING_CA"
      BY <1>1, <1>7, <2>2 DEF MarkForHandover, Goto, Row, StageAfter, Transitions
    <3> HIDE DEF n
    <3>4. Alone(n, row', versions')
      BY <1>7, <2>2, <3>1, <3>2, <3>3 DEF MarkForHandover, Alone, HandoverInv
    <3> QED
      BY <1>1, <3>3, <3>4, OneRequest
  <2> QED
    BY <2>1, <2>2
<1>8. CASE ResponsibleOfficerMissing(p) \/ PrintLicence(p)
  BY <1>8, BackToIdle DEF ResponsibleOfficerMissing, PrintLicence
<1>9. CASE ReadRow(p) \/ ReadApproved(p)
  <2>1. PdfInv(q, row, versions) /\ q.pc \in {"load", "reload"}
    BY <1>1, <1>2, <1>9 DEF ReadRow, ReadApproved, Alone, FormInv, ConditionsInv, DeletionInv,
                            AddressInv, HandoverInv
  <2>2. row' = row /\ versions' = versions
    BY <1>9 DEF ReadRow, ReadApproved
  <2>3. CASE ReadRow(p)
    <3> DEFINE n == [q EXCEPT !.read = ReadingOf(row), !.loads = q.loads \ {"row"}]
    <3>1. n \in Request
      BY <1>1 DEF Request, Reading, ReadingOf, Row
    <3>2. /\ n.op = q.op /\ n.pc = q.pc /\ n.read = ReadingOf(row) /\ n.approved = q.approved
          /\ n.loads = q.loads \ {"row"}
      BY <1>1 DEF Request
    <3>3. req' = [req EXCEPT ![p] = Loaded(n)]
      BY <2>3 DEF ReadRow
    <3> HIDE DEF n
    <3>4. PdfInv(Loaded(n), row, versions)
      BY <1>1, <2>1, <3>1, <3>2, LoadedAlone DEF PdfInv, RowAheadOfSnapshots
    <3> QED
      BY <1>1, <2>2, <3>3, <3>4, OneRequest DEF Alone
  <2>4. CASE ReadApproved(p)
    <3> DEFINE n == [q EXCEPT !.approved = ApprovedLicenceVersion(versions),
                              !.loads = q.loads \ {"approved"}]
    <3>1. n \in Request
      BY <1>1, ApprovedIsSnapshots DEF Request
    <3>2. /\ n.op = q.op /\ n.pc = q.pc /\ n.approved = ApprovedLicenceVersion(versions)
          /\ n.read = q.read /\ n.loads = q.loads \ {"approved"}
      BY <1>1 DEF Request
    <3>3. req' = [req EXCEPT ![p] = Loaded(n)]
      BY <2>4 DEF ReadApproved
    <3> HIDE DEF n
    <3>4. PdfInv(Loaded(n), row, versions)
      BY <1>1, <2>1, <3>1, <3>2, LoadedAlone DEF PdfInv, RowAheadOfSnapshots
    <3> QED
      BY <1>1, <2>2, <3>3, <3>4, OneRequest DEF Alone
  <2> QED
    BY <1>9, <2>3, <2>4
<1>10. CASE TakeSnapshot(p)
  <2>1. CASE PairTaken(row, versions)
    BY <1>10, <2>1, BackToIdle DEF TakeSnapshot
  <2>2. CASE ~PairTaken(row, versions)
    <3> DEFINE n == [Idle EXCEPT !.op = "pdf", !.pc = "reload", !.loads = {"row", "approved"}]
    <3>1. PairTaken(row', versions')
      BY <1>10, <2>2, SnapshotTakesPair DEF TakeSnapshot
    <3>2. PdfInv(n, row', versions')
      BY <3>1 DEF PdfInv, Idle
    <3>3. req' = [req EXCEPT ![p] = n]
      BY <1>10, <2>2 DEF TakeSnapshot
    <3> HIDE DEF n
    <3> QED
      BY <1>1, <3>2, <3>3, OneRequest DEF Alone
  <2> QED
    BY <2>1, <2>2
<1> QED
  BY <1>3, <1>4, <1>5, <1>6, <1>7, <1>8, <1>9, <1>10 DEF Proceed

LEMMA RequestInvAlways ==
  ASSUME OneAtATime
  PROVE  Spec => []RequestInv
<1>1. Init => RequestInv
  BY DEF Init, RequestInv, Alone
<1>2. TypeOK /\ VersionInv /\ RequestInv /\ [Next]_vars => RequestInv'
  <2> SUFFICES ASSUME TypeOK, VersionInv, RequestInv, [Next]_vars PROVE RequestInv'
    OBVIOUS
  <2>1. ASSUME NEW p \in Requests, Arrive(p) \/ Proceed(p) \/ Fail(p) PROVE RequestInv'
    BY <2>1, ArriveAlone, ProceedAlone, BackToIdle DEF VersionInv, Fail
  <2>2. CASE Release \/ (\E t \in Sends : OpenPage(t)) \/ UNCHANGED vars
    BY <2>2 DEF Release, OpenPage, vars, RequestInv
  <2> QED
    BY <2>1, <2>2 DEF Next
<1> QED
  BY <1>1, <1>2, TypeCorrect, VersionInvAlways, PTL DEF Spec

-----------------------------------------------------------------------------
(* Printing *)

\* A request that is the only one always prints apart.
LEMMA AlonePrintsApart ==
  ASSUME OneAtATime
  PROVE  Spec => SpecPrintsApart
<1>1. PrintsApart'
  BY DEF OneAtATime, PrintsApart
<1>2. [Next]_vars => [Next /\ PrintsApart']_vars
  BY <1>1
<1> QED
  BY <1>2, PTL DEF Spec, SpecPrintsApart

\* A print whose request ran alone shows the document recorded under the
\* numbers on it: after a snapshot GET /pdf/create reads row and snapshot again.
THEOREM PrintIsRecorded ==
  ASSUME OneAtATime, MaxFailures = 0
  PROVE  Spec => []PrintedMatchesSnapshot
BY AlonePrintsApart, OverlapPrintsRecorded, PTL

\* Between two requests a licence that is due a snapshot can have one: its
\* numbers are free, or its snapshot already has its document and template.
THEOREM SnapshotNeverBlocked ==
  ASSUME OneAtATime, MaxFailures = 0
  PROVE  Spec => []SnapshotPossible
BY AlonePrintsApart, OverlapNeverBlocks, PTL

-----------------------------------------------------------------------------
(* The decision *)

\* With no handover page kept open, a handover starts where it is offered and,
\* running alone, finds the licence there when it writes the stage.  A licence
\* past approval has the decision in every state, between two statements too.
DecisionInv ==
  /\ pages = {}
  /\ row.stage \in PostApproval => row.doc["approval"] # Blank
  /\ \A p \in Requests : req[p].pc = "stage" =>
       /\ row.stage \in OfferedAt[req[p].arg]
       /\ req[p].arg = "dmToCa" => row.doc["approval"] # Blank

\* Only an arriving handover is about to write a stage.
LEMMA StageOnArrival ==
  ASSUME TypeOK, RequestInv, NEW p \in Requests, Proceed(p) \/ Fail(p)
  PROVE  req'[p].pc # "stage"
<1>1. req[p] \in Request /\ req \in [Requests -> Request] /\ Alone(req[p], row, versions)
  BY DEF TypeOK, RequestInv
<1>2. ASSUME NEW pc, pc # "stage", Goto(p, pc) PROVE req'[p].pc # "stage"
  BY <1>1, <1>2, IdleType DEF Goto, Request
<1>3. CASE WriteDoc(p) \/ WriteSection(p)
  BY <1>1, <1>3 DEF WriteDoc, WriteSection, Request
<1>4. CASE \/ Bump(p) \/ FlagModification(p) \/ MarkForHandover(p)
           \/ ResponsibleOfficerMissing(p) \/ PrintLicence(p) \/ Fail(p)
  BY <1>2, <1>4 DEF Bump, FlagModification, MarkForHandover, ResponsibleOfficerMissing,
                    PrintLicence, Fail
<1>5. CASE TakeSnapshot(p)
  BY <1>1, <1>2, <1>5 DEF TakeSnapshot, Idle
<1>6. CASE ReadRow(p) \/ ReadApproved(p)
  <2>1. PICK n : /\ n.pc \in {"load", "reload"} /\ n = [n EXCEPT !.pc = n.pc]
                 /\ req'[p] = Loaded(n) /\ n \in Request
    <3>1. CASE ReadRow(p)
      <4> DEFINE n == [req[p] EXCEPT !.read = ReadingOf(row), !.loads = req[p].loads \ {"row"}]
      <4>1. n \in Request /\ n.pc \in {"load", "reload"} /\ req'[p] = Loaded(n)
        BY <1>1, <3>1 DEF ReadRow, Request, Reading, ReadingOf, TypeOK, Row
      <4> QED
        BY <4>1 DEF Request
    <3>2. CASE ReadApproved(p)
      <4> DEFINE n == [req[p] EXCEPT !.approved = ApprovedLicenceVersion(versions),
                                     !.loads = req[p].loads \ {"approved"}]
      <4>1. n \in Request /\ n.pc \in {"load", "reload"} /\ req'[p] = Loaded(n)
        BY <1>1, <3>2, ApprovedIsSnapshots DEF ReadApproved, Request, TypeOK
      <4> QED
        BY <4>1 DEF Request
    <3> QED
      BY <1>6, <3>1, <3>2
  <2> QED
    BY <2>1 DEF Loaded, Request
<1> QED
  BY <1>3, <1>4, <1>5, <1>6 DEF Proceed

\* The decision survives every statement of a request that runs alone.
LEMMA ProceedKeepsDecision ==
  ASSUME TypeOK, RequestInv, DecisionInv, NEW p \in Requests, Proceed(p),
         row'.stage \in PostApproval
  PROVE  row'.doc["approval"] # Blank
<1> DEFINE q == req[p]
<1>1. /\ row \in Row /\ row.doc \in Doc /\ q \in Request /\ Alone(q, row, versions)
      /\ "approval" \in Sections
  BY DEF TypeOK, Row, RequestInv, Sections
<1>2. CASE WriteDoc(p)
  <2>1. row'.doc = q.newDoc /\ row'.stage = row.stage /\ q.pc = "writeDoc"
    BY <1>1, <1>2 DEF WriteDoc, Row
  <2>2. q.newDoc["approval"] = row.doc["approval"]
    <3>1. FormInv(q, row) \/ AddressInv(q, row) \/ HandoverInv(q, row)
      BY <1>1, <2>1, IdleType DEF Alone, ConditionsInv, DeletionInv, PdfInv
    <3>2. row.stage # "APPROVAL" /\ row.stage # "PROCESSING_CA"
      BY <2>1 DEF PostApproval
    <3> QED
      BY <1>1, <2>1, <3>1, <3>2 DEF FormInv, AddressInv, HandoverInv, AnotherAnswer, Doc
  <2> QED
    BY <2>1, <2>2 DEF DecisionInv
<1>3. CASE WriteSection(p)
  <2>1. row'.doc["approval"] = row.doc["approval"] /\ row'.stage = row.stage
    BY <1>1, <1>3 DEF WriteSection, Row, Doc
  <2> QED
    BY <2>1 DEF DecisionInv
<1>4. CASE Bump(p)
  <2>1. PostReleaseArgument(p) \in BOOLEAN
    BY <1>1 DEF PostReleaseArgument, Request
  <2>2. row'.doc = row.doc /\ row'.stage = row.stage
    BY <1>1, <1>4, <2>1, UpdateVersionMoves DEF Bump, TypeOK
  <2> QED
    BY <2>2 DEF DecisionInv
<1>5. CASE FlagModification(p)
  <2> DEFINE to == ModificationStage(q.stage, RequiresApproval(q.arg), NoModify(q.arg))
  <2>1. q.pc = "flag" /\ row' = IF to = {} THEN row ELSE [row EXCEPT !.stage = CHOOSE s \in to : TRUE]
    BY <1>5 DEF FlagModification
  <2>2. q.stage = row.stage
    BY <1>1, <2>1, IdleType DEF Alone, FormInv, ConditionsInv, DeletionInv, AddressInv,
                                HandoverInv, PdfInv
  <2>3. to # {} => q.stage \in {"DECIDED", "MODIFIED"}
    BY DEF ModificationStage
  <2> HIDE DEF to
  <2>4. row'.doc = row.doc /\ row.stage \in PostApproval
    BY <1>1, <2>1, <2>2, <2>3 DEF Row, PostApproval
  <2> QED
    BY <2>4 DEF DecisionInv
<1>6. CASE MarkForHandover(p)
  <2>1. /\ row'.doc = row.doc /\ row'.stage = StageAfter[q.arg] /\ q.pc = "stage"
        /\ q.arg \in Transitions
    BY <1>1, <1>6 DEF MarkForHandover, Row, TypeOK
  <2>2. q.arg = "dmToCa"
    BY <2>1 DEF StageAfter, Transitions, PostApproval
  <2> QED
    BY <2>1, <2>2 DEF DecisionInv
<1>7. CASE ResponsibleOfficerMissing(p) \/ ReadRow(p) \/ ReadApproved(p) \/ TakeSnapshot(p)
           \/ PrintLicence(p)
  BY <1>7 DEF ResponsibleOfficerMissing, ReadRow, ReadApproved, TakeSnapshot, PrintLicence,
              DecisionInv
<1> QED
  BY <1>2, <1>3, <1>4, <1>5, <1>6, <1>7 DEF Proceed

LEMMA ArriveDecision ==
  ASSUME OneAtATime, TypeOK, DecisionInv, NEW p \in Requests, Arrive(p)
  PROVE  DecisionInv'
<1>1. UNCHANGED <<row, pages>>
  BY DEF Arrive, SubmitForm, SubmitConditions, DeleteCondition, MoveAddress, SendHandover,
         StartPdf, Begin
<1>2. CASE \E page \in HandoverPages : SendHandover(p, page)
  <2>1. PICK page \in HandoverPages : SendHandover(p, page)
    BY <1>2
  <2> DEFINE t == page.to
  <2>2. req'[p].arg = t
    BY <2>1 DEF SendHandover, Begin, TypeOK, Idle
  <2>3. row.stage \in OfferedAt[t] /\ (t = "dmToCa" => row.doc["approval"] # Blank)
    BY <2>1 DEF SendHandover, HandoverOffered, DecisionInv
  <2> QED
    BY <1>1, <2>2, <2>3 DEF DecisionInv, OneAtATime
<1>3. CASE ~\E page \in HandoverPages : SendHandover(p, page)
  <2>1. ASSUME NEW op, NEW arg, NEW pc, NEW d, NEW w, pc # "stage", Begin(p, op, arg, pc, d, w)
        PROVE  req'[p].pc # "stage"
    BY <2>1 DEF Begin, TypeOK, Idle
  <2>2. ASSUME StartPdf(p) PROVE req'[p].pc # "stage"
    BY <2>2 DEF StartPdf, TypeOK, Idle
  <2>3. ASSUME NEW s \in Sections, NEW v \in Answers[s], SubmitForm(p, s, v)
        PROVE  req'[p].pc # "stage"
    BY <2>1, <2>3 DEF SubmitForm
  <2>4. ASSUME NEW v, SubmitConditions(p, v) \/ DeleteCondition(p, v) \/ MoveAddress(p, v)
        PROVE  req'[p].pc # "stage"
    BY <2>1, <2>4 DEF SubmitConditions, DeleteCondition, MoveAddress
  <2>5. req'[p].pc # "stage"
    BY <1>3, <2>2, <2>3, <2>4 DEF Arrive
  <2> QED
    BY <1>1, <2>5 DEF DecisionInv, OneAtATime
<1> QED
  BY <1>2, <1>3

LEMMA DecisionInvAlways ==
  ASSUME OneAtATime, MaxOpenPages = 0
  PROVE  Spec => []DecisionInv
<1>1. Init => DecisionInv
  <2> SUFFICES ASSUME Init PROVE DecisionInv
    OBVIOUS
  <2>1. row.stage \notin PostApproval
    BY DEF Init, NewRow, PostApproval
  <2> QED
    BY <2>1, IdleType DEF Init, DecisionInv
<1>2. TypeOK /\ RequestInv /\ DecisionInv /\ [Next]_vars => DecisionInv'
  <2> SUFFICES ASSUME TypeOK, RequestInv, DecisionInv, [Next]_vars PROVE DecisionInv'
    OBVIOUS
  <2>1. ASSUME NEW p \in Requests, Proceed(p) PROVE DecisionInv'
    <3>1. pages' = pages
      BY <2>1 DEF Proceed, WriteDoc, WriteSection, Bump, FlagModification, MarkForHandover,
                  ResponsibleOfficerMissing, ReadRow, ReadApproved, TakeSnapshot, PrintLicence
    <3>2. \A o \in Requests : req'[o].pc # "stage"
      BY <2>1, StageOnArrival DEF OneAtATime
    <3> QED
      BY <2>1, <3>1, <3>2, ProceedKeepsDecision DEF DecisionInv
  <2>2. ASSUME NEW p \in Requests, Fail(p) PROVE DecisionInv'
    <3>1. \A o \in Requests : req'[o].pc # "stage"
      BY <2>2, StageOnArrival DEF OneAtATime
    <3> QED
      BY <2>2, <3>1 DEF Fail, DecisionInv
  <2>3. ASSUME NEW t \in Sends, OpenPage(t) PROVE FALSE
    BY <2>3, FS_EmptySet DEF OpenPage, DecisionInv
  <2>4. CASE Release \/ UNCHANGED vars
    BY <2>4 DEF Release, vars, DecisionInv
  <2> QED
    BY <2>1, <2>2, <2>3, <2>4, ArriveDecision DEF Next
<1> QED
  BY <1>1, <1>2, TypeCorrect, RequestInvAlways, PTL DEF Spec

\* A licence past approval carries the decision maker's answer, requests that
\* die half way included, as long as no page of a handover is kept open for
\* later: sendCaOrDm itself never looks at the decision.
THEOREM DecisionKept ==
  ASSUME OneAtATime, MaxOpenPages = 0
  PROVE  Spec => []DecisionStands
<1>1. DecisionInv => DecisionStands
  BY DEF DecisionInv, DecisionStands
<1> QED
  BY <1>1, DecisionInvAlways, PTL

-----------------------------------------------------------------------------
(* Reapproval *)

\* A request that is the only one hands over apart and changes a reviewed part
\* apart, and with no page kept open every decision is sent from a fresh one.
LEMMA AloneReviewsApart ==
  ASSUME OneAtATime, MaxOpenPages = 0
  PROVE  Spec => SpecReviewsApart
<1>1. ReviewsApart'
  BY DEF OneAtATime, ReviewsApart, Apart
<1>2. DecisionInv => DecisionsFresh
  BY DEF DecisionInv, DecisionsFresh
<1>3. [Next]_vars /\ DecisionsFresh' => [Next /\ ReviewsApart' /\ DecisionsFresh']_vars
  BY <1>1
<1> QED
  BY <1>2, <1>3, DecisionInvAlways, PTL DEF Spec, SpecReviewsApart

\* With no page kept open, a licence that is not waiting for approval has the
\* conditions and the curfew hours that the decision maker saw who decided last:
\* whatever update and updateLicenceConditions change of them after the decision
\* takes the licence out of DECIDED and MODIFIED until it is decided again.
THEOREM ReapprovalKept ==
  ASSUME OneAtATime, MaxFailures = 0, MaxOpenPages = 0, "deleteCondition" \notin Ops
  PROVE  Spec => []ReapprovalHolds
BY AloneReviewsApart, OverlapKeepsReapproval, PTL

-----------------------------------------------------------------------------
(* The refinement of LicenceLifecycle.  What its instance imports from       *)
(* LicenceStore is what this module does.                                    *)

LEMMA SameVocabulary ==
  /\ Lifecycle!Sections = Sections /\ Lifecycle!Transitions = Transitions
  /\ Lifecycle!PostApproval = PostApproval
  /\ Lifecycle!EmptyDoc = EmptyDoc
  /\ Lifecycle!StageAfter = StageAfter /\ Lifecycle!OfferedAt = OfferedAt
  /\ \A s : Lifecycle!RequiresApproval(s) = RequiresApproval(s)
  /\ \A d : Lifecycle!WithoutDecision(d) = WithoutDecision(d)
<1>1. Lifecycle!Sections = Sections /\ Lifecycle!Transitions = Transitions
  BY DEF Lifecycle!Sections, Sections, Lifecycle!Transitions, Transitions
<1>2. Lifecycle!PostApproval = PostApproval
  BY DEF Lifecycle!PostApproval, PostApproval
<1>3. Lifecycle!EmptyDoc = EmptyDoc
  BY <1>1 DEF Lifecycle!EmptyDoc, EmptyDoc
<1>4. Lifecycle!StageAfter = StageAfter
  BY <1>1 DEF Lifecycle!StageAfter, StageAfter
<1>5. Lifecycle!OfferedAt = OfferedAt
  BY <1>1, <1>2 DEF Lifecycle!OfferedAt, OfferedAt
<1>6. \A s : Lifecycle!RequiresApproval(s) = RequiresApproval(s)
  BY DEF Lifecycle!RequiresApproval, RequiresApproval
<1>7. \A d : Lifecycle!WithoutDecision(d) = WithoutDecision(d)
  BY DEF Lifecycle!WithoutDecision, WithoutDecision
<1> QED
  BY <1>1, <1>2, <1>3, <1>4, <1>5, <1>6, <1>7

Recorded == {[doc |-> s.doc, version |-> s.version, vary |-> s.vary] : s \in versions}

\* The abstract licence is what the one request there is makes of the row.
LEMMA SerialIsFinished ==
  ASSUME OneAtATime
  PROVE  \A p \in Requests : SerialLicence = Finished(req[p])
<1> SUFFICES ASSUME NEW p \in Requests PROVE SerialLicence = Finished(req[p])
  OBVIOUS
<1>1. CASE req[p].pc = "idle"
  <2>1. Running = {}
    BY <1>1 DEF Running, OneAtATime
  <2>2. Finished(req[p]) = row
    BY <1>1 DEF Finished
  <2> QED
    BY <2>1, <2>2 DEF SerialLicence
<1>2. CASE req[p].pc # "idle"
  <2>1. Running = {p}
    BY <1>2 DEF Running, OneAtATime
  <2> QED
    BY <2>1 DEF SerialLicence
<1> QED
  BY <1>1, <1>2

LEMMA SerialIsFinishedNext ==
  ASSUME OneAtATime
  PROVE  (\A p \in Requests : SerialLicence = Finished(req[p]))'
BY SerialIsFinished, PTL

LEMMA Stutter ==
  ASSUME SerialLicence' = SerialLicence, versions' = versions, released' = released
  PROVE  UNCHANGED Lifecycle!lifecycle
BY DEF Lifecycle!lifecycle

LEMMA ChangeStep ==
  ASSUME NEW s \in Sections, NEW v \in Values, NEW u \in Row,
         SerialLicence = row, SerialLicence' = u, versions' = versions, released' = released,
         row.doc[s] # v, u.doc = [row.doc EXCEPT ![s] = v],
         <<u.version, u.vary>> \in Lifecycle!Renumbered(row),
         u.stage \in Lifecycle!Restaged(row, s)
  PROVE  Lifecycle!LifecycleNext
<1>1. u = [doc |-> [row.doc EXCEPT ![s] = v], stage |-> u.stage,
           version |-> u.version, vary |-> u.vary]
  BY DEF Row
<1>2. \E n \in Lifecycle!Renumbered(row) : \E stage \in Lifecycle!Restaged(row, s) :
        u = [doc |-> [row.doc EXCEPT ![s] = v], stage |-> stage, version |-> n[1], vary |-> n[2]]
  BY <1>1
<1>3. Lifecycle!Change(s, v)
  BY <1>2 DEF Lifecycle!Change
<1> QED
  BY <1>3, SameVocabulary DEF Lifecycle!LifecycleNext

\* updateVersion after the document has changed: at most one number moves, and
\* nothing is recorded under the numbers the document gets.
LEMMA NumbersAreFree ==
  ASSUME TypeOK, RowAheadOfSnapshots, NEW r \in Row, r.version = row.version, r.vary = row.vary,
         NEW q \in Request
  PROVE  LET u == Numbers(r, q)
         IN  /\ u \in Row /\ u.doc = r.doc /\ u.stage = r.stage
             /\ <<u.version, u.vary>> \in Lifecycle!Renumbered(row)
<1> DEFINE post == q.op \in {"form", "conditions"} /\ q.post
           u == UpdateVersion(r, versions, post)
<1>1. post \in BOOLEAN /\ versions \in SUBSET Snapshot
  BY DEF Request, TypeOK
<1>2. /\ \A s \in versions : s.version <= r.version /\ s.vary <= r.vary
      /\ row.version \in Nat /\ row.vary \in Nat
  BY DEF RowAheadOfSnapshots, TypeOK, Row
<1> HIDE DEF post
<1>3. u \in Row /\ u.doc = r.doc /\ u.stage = r.stage
  BY <1>1, UpdateVersionMoves
<1>4. <<u.version, u.vary>> \in {<<row.version, row.vary>>, <<row.version + 1, row.vary>>,
                                 <<row.version, row.vary + 1>>}
  BY DEF UpdateVersion, Row
<1>5. ~PairTaken(u, versions)
  BY <1>1, <1>2, UpdateVersionFindsFreePair
<1>6. \A d \in Recorded : d.version # u.version \/ d.vary # u.vary
  BY <1>5 DEF PairTaken, SamePair, Recorded
<1> HIDE DEF u
<1>7. <<u.version, u.vary>> \in Lifecycle!Renumbered(row)
  BY <1>4, <1>6 DEF Lifecycle!Renumbered, Recorded
<1> QED
  BY <1>3, <1>7 DEF Numbers, u, post

\* updateModificationStage on the stage of the row.
LEMMA FlaggedRestages ==
  ASSUME NEW r \in Row, NEW q, q.stage = r.stage, q.arg \in Sections, NEW l, l.stage = r.stage
  PROVE  LET u == Flagged(r, q)
         IN  /\ u \in Row /\ u.doc = r.doc /\ u.version = r.version /\ u.vary = r.vary
             /\ u.stage \in Lifecycle!Restaged(l, q.arg)
<1> DEFINE to == ModificationStage(q.stage, RequiresApproval(q.arg), NoModify(q.arg))
           u == Flagged(r, q)
<1>1. u = IF to = {} THEN r ELSE [r EXCEPT !.stage = CHOOSE s \in to : TRUE]
  BY DEF Flagged
<1>2. u \in Row /\ u.doc = r.doc /\ u.version = r.version /\ u.vary = r.vary
  BY <1>1, ModificationStageType DEF Row
<1>3. u.stage = IF to = {} THEN r.stage ELSE CHOOSE s \in to : TRUE
  BY <1>1 DEF Row
<1>4. CASE RequiresApproval(q.arg) /\ r.stage \in {"DECIDED", "MODIFIED"}
  <2>1. to = {"MODIFIED_APPROVAL"}
    BY <1>4 DEF ModificationStage, RequiresApproval, NoModify
  <2>2. Lifecycle!Restaged(l, q.arg) = {"MODIFIED_APPROVAL"}
    BY <1>4, SameVocabulary DEF Lifecycle!Restaged
  <2> HIDE DEF to, u
  <2> QED
    BY <1>2, <1>3, <2>1, <2>2 DEF u
<1>5. CASE ~(RequiresApproval(q.arg) /\ r.stage \in {"DECIDED", "MODIFIED"})
  <2>1. to = {} \/ (r.stage = "DECIDED" /\ to = {"MODIFIED"})
    BY <1>5 DEF ModificationStage
  <2>2. Lifecycle!Restaged(l, q.arg) = IF r.stage = "DECIDED" THEN {"DECIDED", "MODIFIED"} ELSE {r.stage}
    BY <1>5, SameVocabulary DEF Lifecycle!Restaged
  <2> HIDE DEF to, u
  <2> QED
    BY <1>2, <1>3, <2>1, <2>2 DEF u
<1> QED
  BY <1>4, <1>5

Mapped == Lifecycle!LifecycleNext \/ UNCHANGED Lifecycle!lifecycle

SerialInv == TypeOK /\ RowAheadOfSnapshots /\ RequestInv /\ DecisionInv /\ NoDeletion

\* A request that has written nothing yet leaves the row as it is.
Unstarted == {<<"form", "writeDoc">>, <<"conditions", "flag">>, <<"deleteCondition", "writeSection">>,
              <<"moveAddress", "writeDoc">>, <<"handover", "stage">>}

LEMMA UnstartedIsRow ==
  \A q : <<q.op, q.pc>> \in Unstarted \/ q.pc = "idle" \/ (q.op = "pdf" /\ q.pc # "bump")
           => Finished(q) = row
<1> SUFFICES ASSUME NEW q,
                    <<q.op, q.pc>> \in Unstarted \/ q.pc = "idle" \/ (q.op = "pdf" /\ q.pc # "bump")
             PROVE  Finished(q) = row
  OBVIOUS
<1>1. /\ ~(q.op = "form" /\ q.pc = "bump") /\ ~(q.op = "form" /\ q.pc = "flag")
      /\ ~(q.op = "conditions" /\ q.pc = "writeSection")
      /\ ~(q.op = "handover" /\ q.pc = "writeDoc") /\ ~(q.op # "form" /\ q.pc = "bump")
  BY DEF Unstarted
<1> QED
  BY <1>1 DEF Finished

LEMMA UnstartedIsRowNext ==
  (\A q : <<q.op, q.pc>> \in Unstarted \/ q.pc = "idle" \/ (q.op = "pdf" /\ q.pc # "bump")
            => Finished(q) = row)'
BY UnstartedIsRow, PTL

LEMMA ArriveMaps ==
  ASSUME OneAtATime, SerialInv, NEW p \in Requests, Arrive(p)
  PROVE  Mapped
<1>1. /\ UNCHANGED <<row, versions, released>> /\ req[p].pc = "idle"
  BY DEF Arrive, SubmitForm, SubmitConditions, DeleteCondition, MoveAddress, SendHandover,
         StartPdf, Begin
<1>2. SerialLicence = row
  BY <1>1, SerialIsFinished, UnstartedIsRow
<1>3. SerialLicence' = row'
  <2>1. ASSUME NEW op, NEW arg, NEW pc, NEW d, NEW w, Begin(p, op, arg, pc, d, w), <<op, pc>> \in Unstarted
        PROVE  SerialLicence' = row'
    <3>1. req'[p].op = op /\ req'[p].pc = pc
      BY <2>1 DEF Begin, SerialInv, TypeOK, Idle
    <3>2. <<req'[p].op, req'[p].pc>> \in Unstarted
      BY <2>1, <3>1
    <3> QED
      BY <3>2, SerialIsFinishedNext, UnstartedIsRowNext DEF Unstarted
  <2>2. ASSUME StartPdf(p) PROVE SerialLicence' = row'
    <3>1. req'[p].op = "pdf" /\ req'[p].pc = "load"
      BY <2>2 DEF StartPdf, SerialInv, TypeOK, Idle
    <3> QED
      BY <3>1, SerialIsFinishedNext, UnstartedIsRowNext
  <2>3. ASSUME NEW s \in Sections, NEW v \in Answers[s], SubmitForm(p, s, v)
        PROVE  SerialLicence' = row'
    BY <2>1, <2>3 DEF SubmitForm, Unstarted
  <2>4. ASSUME NEW v, SubmitConditions(p, v) \/ DeleteCondition(p, v) \/ MoveAddress(p, v)
        PROVE  SerialLicence' = row'
    BY <2>1, <2>4 DEF SubmitConditions, DeleteCondition, MoveAddress, Unstarted
  <2>5. ASSUME NEW t, SendHandover(p, t) PROVE SerialLicence' = row'
    BY <2>1, <2>5 DEF SendHandover, Unstarted
  <2> QED
    BY <2>2, <2>3, <2>4, <2>5 DEF Arrive
<1> QED
  BY <1>1, <1>2, <1>3, Stutter DEF Mapped

\* What is left of a request that has.
LEMMA StartedForms ==
  \A q : /\ q.op = "form" /\ q.pc = "bump" => Finished(q) = Flagged(Numbers(row, q), q)
         /\ q.op = "form" /\ q.pc = "flag" => Finished(q) = Flagged(row, q)
         /\ q.op # "form" /\ q.pc = "bump" => Finished(q) = Numbers(row, q)
         /\ q.op = "conditions" /\ q.pc = "writeSection" =>
              Finished(q) = Numbers([row EXCEPT !.doc["licenceConditions"] =
                                       q.newDoc["licenceConditions"]], q)
         /\ q.op = "handover" /\ q.pc = "writeDoc" =>
              Finished(q) = Numbers([row EXCEPT !.doc = q.newDoc], q)
BY DEF Finished

LEMMA StartedFormsNext ==
  (\A q : /\ q.op = "form" /\ q.pc = "bump" => Finished(q) = Flagged(Numbers(row, q), q)
          /\ q.op = "form" /\ q.pc = "flag" => Finished(q) = Flagged(row, q)
          /\ q.op # "form" /\ q.pc = "bump" => Finished(q) = Numbers(row, q)
          /\ q.op = "conditions" /\ q.pc = "writeSection" =>
               Finished(q) = Numbers([row EXCEPT !.doc["licenceConditions"] =
                                        q.newDoc["licenceConditions"]], q)
          /\ q.op = "handover" /\ q.pc = "writeDoc" =>
               Finished(q) = Numbers([row EXCEPT !.doc = q.newDoc], q))'
BY StartedForms, PTL

\* A form or a moved address takes effect when the document is written.
LEMMA WriteDocMaps ==
  ASSUME OneAtATime, SerialInv, NEW p \in Requests, WriteDoc(p)
  PROVE  Mapped
<1> DEFINE q == req[p]
<1>1. /\ row \in Row /\ row.doc \in Doc /\ q \in Request /\ Alone(q, row, versions)
      /\ req \in [Requests -> Request]
  BY DEF SerialInv, TypeOK, Row, RequestInv
<1>2. /\ q.pc = "writeDoc" /\ versions' = versions /\ released' = released
      /\ row' = [row EXCEPT !.doc = q.newDoc]
      /\ req'[p] = [q EXCEPT !.pc = "bump", !.newDoc = EmptyDoc]
  BY <1>1 DEF WriteDoc
<1>3. PICK r \in Row : /\ row' = r /\ r = [row EXCEPT !.doc = q.newDoc]
                      /\ r.doc = q.newDoc /\ r.stage = row.stage
                      /\ r.version = row.version /\ r.vary = row.vary
  BY <1>1, <1>2 DEF Row, Request
<1>4. PICK n \in Request : /\ req'[p] = n /\ n.op = q.op /\ n.arg = q.arg
                          /\ n.stage = q.stage /\ n.pc = "bump" /\ n.post = q.post
  <2> DEFINE m == [q EXCEPT !.pc = "bump", !.newDoc = EmptyDoc]
  <2>1. /\ m \in Request /\ m.op = q.op /\ m.arg = q.arg
        /\ m.stage = q.stage /\ m.pc = "bump" /\ m.post = q.post
    BY <1>1, EmptyDocType DEF Request, PCs
  <2> QED
    BY <1>2, <2>1
<1>5. PICK u \in Row : /\ u = Numbers(r, n) /\ u.doc = q.newDoc /\ u.stage = row.stage
                      /\ <<u.version, u.vary>> \in Lifecycle!Renumbered(row)
  BY <1>3, <1>4, NumbersAreFree DEF SerialInv
<1>6. u = Numbers(row, n)'
  BY <1>2, <1>3, <1>5 DEF Numbers
<1>7. CASE q.op = "form"
  <2>1. FormInv(q, row)
    BY <1>1, <1>7 DEF Alone, Idle, ConditionsInv, DeletionInv, AddressInv, HandoverInv, PdfInv
  <2> DEFINE f == Flagged(u, n)
  <2>2. PICK v \in Values \ {row.doc[q.arg]} : q.newDoc = [row.doc EXCEPT ![q.arg] = v]
    BY <1>2, <2>1 DEF FormInv, AnotherAnswer
  <2>3. SerialLicence = row
    BY <1>2, <1>7, SerialIsFinished, UnstartedIsRow DEF Unstarted
  <2>4. SerialLicence' = f
    <3>1. Finished(req[p])' = Flagged(Numbers(row, n), n)'
      BY <1>4, <1>7, StartedFormsNext
    <3>2. Flagged(Numbers(row, n), n)' = f
      BY <1>6 DEF Flagged
    <3> QED
      BY <3>1, <3>2, SerialIsFinishedNext
  <2>5. /\ f \in Row /\ f.doc = u.doc /\ f.version = u.version /\ f.vary = u.vary
        /\ f.stage \in Lifecycle!Restaged(row, q.arg)
    BY <1>4, <1>5, <2>1, FlaggedRestages DEF FormInv
  <2> HIDE DEF f
  <2> QED
    BY <1>2, <1>5, <2>1, <2>2, <2>3, <2>4, <2>5, ChangeStep DEF FormInv, Mapped
<1>8. CASE q.op = "moveAddress"
  <2>1. AddressInv(q, row)
    BY <1>1, <1>8 DEF Alone, Idle, ConditionsInv, DeletionInv, FormInv, HandoverInv, PdfInv
  <2>2. PICK v \in Values \ {row.doc["address"]} : q.newDoc = [row.doc EXCEPT !["address"] = v]
    BY <1>2, <2>1 DEF AddressInv, AnotherAnswer
  <2>3. SerialLicence = row
    BY <1>2, <1>8, SerialIsFinished, UnstartedIsRow DEF Unstarted
  <2>4. SerialLicence' = u
    BY <1>2, <1>4, <1>6, <1>8, StartedFormsNext, SerialIsFinishedNext
  <2>5. u.stage \in Lifecycle!Restaged(row, "address")
    BY <1>5, SameVocabulary DEF Lifecycle!Restaged, RequiresApproval
  <2> QED
    BY <1>2, <1>5, <2>2, <2>3, <2>4, <2>5, ChangeStep DEF Sections, Mapped
<1>9. CASE q.op = "handover"
  <2>1. SerialLicence = Numbers([row EXCEPT !.doc = q.newDoc], q)
    BY <1>2, <1>9, SerialIsFinished, StartedForms
  <2>2. SerialLicence' = u
    BY <1>2, <1>4, <1>6, <1>9, StartedFormsNext, SerialIsFinishedNext
  <2>3. Numbers(r, q) = u
    BY <1>4, <1>5 DEF Numbers
  <2> QED
    BY <1>2, <2>1, <2>2, <2>3, <1>3, <1>5, Stutter DEF Mapped
<1>10. q.op \in {"form", "moveAddress", "handover"}
  BY <1>1, <1>2, IdleType DEF Alone, FormInv, ConditionsInv, DeletionInv, AddressInv, HandoverInv,
                              PdfInv
<1> QED
  BY <1>7, <1>8, <1>9, <1>10

\* The section of the conditions has taken effect before it is written.
LEMMA WriteSectionMaps ==
  ASSUME OneAtATime, SerialInv, NEW p \in Requests, WriteSection(p)
  PROVE  Mapped
<1> DEFINE q == req[p]
           m == [q EXCEPT !.pc = "bump", !.newDoc = EmptyDoc]
           r == [row EXCEPT !.doc["licenceConditions"] = q.newDoc["licenceConditions"]]
<1>1. q \in Request /\ Alone(q, row, versions) /\ q.op # "deleteCondition" /\ req \in [Requests -> Request]
  BY DEF SerialInv, TypeOK, RequestInv, NoDeletion
<1>2. /\ q.pc = "writeSection" /\ versions' = versions /\ released' = released
      /\ row' = r /\ req'[p] = m
  BY <1>1 DEF WriteSection
<1>3. q.op = "conditions"
  BY <1>1, <1>2, IdleType DEF Alone, FormInv, ConditionsInv, DeletionInv, AddressInv, HandoverInv, PdfInv
<1>4. PICK n : req'[p] = n /\ n.op = q.op /\ n.post = q.post /\ n.pc = "bump"
  <2>1. m.op = q.op /\ m.post = q.post /\ m.pc = "bump"
    BY <1>1 DEF Request
  <2> QED
    BY <1>2, <2>1
<1>5. SerialLicence = Numbers(r, q)
  BY <1>2, <1>3, SerialIsFinished, StartedForms
<1>6. SerialLicence' = Numbers(row, n)'
  BY <1>3, <1>4, SerialIsFinishedNext, StartedFormsNext
<1> HIDE DEF r, m
<1>7. Numbers(row, n)' = Numbers(r, q)
  BY <1>2, <1>4 DEF Numbers
<1> QED
  BY <1>2, <1>5, <1>6, <1>7, Stutter DEF Mapped

\* So has updateVersion.
LEMMA BumpMaps ==
  ASSUME OneAtATime, SerialInv, NEW p \in Requests, Bump(p)
  PROVE  Mapped
<1> DEFINE q == req[p]
<1>1. q \in Request /\ req \in [Requests -> Request]
  BY DEF SerialInv, TypeOK
<1>2. /\ q.pc = "bump" /\ versions' = versions /\ released' = released
      /\ row' = Numbers(row, q)
  BY DEF Bump, Numbers, PostReleaseArgument
<1>3. CASE q.op = "form"
  <2>1. PICK n : req'[p] = n /\ n.op = "form" /\ n.pc = "flag" /\ n.stage = q.stage /\ n.arg = q.arg
    <3> DEFINE m == [q EXCEPT !.pc = "flag"]
    <3>1. m.op = "form" /\ m.pc = "flag" /\ m.stage = q.stage /\ m.arg = q.arg
      BY <1>1, <1>3 DEF Request
    <3>2. req'[p] = m
      BY <1>1, <1>3 DEF Bump, Goto
    <3> QED
      BY <3>1, <3>2
  <2>2. SerialLicence = Flagged(Numbers(row, q), q)
    BY <1>2, <1>3, SerialIsFinished, StartedForms
  <2>3. SerialLicence' = Flagged(row, n)'
    BY <2>1, SerialIsFinishedNext, StartedFormsNext
  <2>4. Flagged(row, n)' = Flagged(Numbers(row, q), q)
    BY <1>2, <2>1 DEF Flagged
  <2> QED
    BY <1>2, <2>2, <2>3, <2>4, Stutter DEF Mapped
<1>4. CASE q.op # "form"
  <2>1. req'[p].pc = "idle"
    BY <1>1, <1>4, IdleType DEF Bump, Goto
  <2>2. SerialLicence = Numbers(row, q)
    BY <1>2, <1>4, SerialIsFinished, StartedForms
  <2>3. SerialLicence' = row'
    BY <2>1, SerialIsFinishedNext, UnstartedIsRowNext
  <2> QED
    BY <1>2, <2>2, <2>3, Stutter DEF Mapped
<1> QED
  BY <1>3, <1>4

\* New conditions take effect when the stage is flagged, which a form does last.
LEMMA FlagModificationMaps ==
  ASSUME OneAtATime, SerialInv, NEW p \in Requests, FlagModification(p)
  PROVE  Mapped
<1> DEFINE q == req[p]
<1>1. /\ q \in Request /\ Alone(q, row, versions) /\ req \in [Requests -> Request]
      /\ row \in Row /\ row.doc \in Doc
  BY DEF SerialInv, TypeOK, RequestInv, Row
<1>2. /\ q.pc = "flag" /\ versions' = versions /\ released' = released
      /\ row' = Flagged(row, q)
  BY DEF FlagModification, Flagged
<1>3. CASE q.op = "form"
  <2>1. req'[p].pc = "idle"
    BY <1>1, <1>3, IdleType DEF FlagModification, Goto
  <2>2. SerialLicence = Flagged(row, q)
    BY <1>2, <1>3, SerialIsFinished, StartedForms
  <2>3. SerialLicence' = row'
    BY <2>1, SerialIsFinishedNext, UnstartedIsRowNext
  <2> QED
    BY <1>2, <2>2, <2>3, Stutter DEF Mapped
<1>4. CASE q.op # "form"
  <2> DEFINE s == "licenceConditions"
             v == q.newDoc["licenceConditions"]
             g == [Flagged(row, q) EXCEPT !.doc["licenceConditions"] = v]
  <2>1. ConditionsInv(q, row)
    BY <1>1, <1>2, <1>4, IdleType DEF Alone, FormInv, DeletionInv, AddressInv, HandoverInv, PdfInv
  <2>2. q.arg = s /\ s \in Sections /\ v \in Values /\ row.doc[s] # v /\ q.stage = row.stage
    BY <1>2, <2>1 DEF ConditionsInv, Sections
  <2>3. PICK f \in Row : /\ f = Flagged(row, q) /\ f.doc = row.doc /\ f.version = row.version
                         /\ f.vary = row.vary /\ f.stage \in Lifecycle!Restaged(row, s)
    BY <1>1, <2>2, FlaggedRestages
  <2>4. /\ g \in Row /\ g.doc = [row.doc EXCEPT ![s] = v] /\ g.version = row.version
        /\ g.vary = row.vary /\ g.stage = f.stage
    BY <1>1, <2>2, <2>3 DEF Row, Doc
  <2>5. PICK n \in Request : req'[p] = n /\ n.op = "conditions" /\ n.pc = "writeSection" /\ n.newDoc = q.newDoc
    <3> DEFINE m == [q EXCEPT !.pc = "writeSection"]
    <3>1. m \in Request /\ m.op = "conditions" /\ m.pc = "writeSection" /\ m.newDoc = q.newDoc
      BY <1>1, <2>1 DEF Request, ConditionsInv, PCs
    <3>2. req'[p] = m
      BY <1>1, <1>4 DEF FlagModification, Goto
    <3> QED
      BY <3>1, <3>2
  <2>6. PICK u \in Row : /\ u = Numbers(g, n) /\ u.doc = g.doc /\ u.stage = g.stage
                         /\ <<u.version, u.vary>> \in Lifecycle!Renumbered(row)
    BY <2>4, <2>5, NumbersAreFree DEF SerialInv
  <2>7. SerialLicence = row
    BY <1>2, <2>1, SerialIsFinished, UnstartedIsRow DEF ConditionsInv, Unstarted
  <2>8. SerialLicence' = u
    <3>1. SerialLicence' = Numbers([row EXCEPT !.doc["licenceConditions"] =
                                      n.newDoc["licenceConditions"]], n)'
      BY <2>5, SerialIsFinishedNext, StartedFormsNext
    <3>2. Numbers([row EXCEPT !.doc["licenceConditions"] = n.newDoc["licenceConditions"]], n)'
            = Numbers(g, n)
      BY <1>2, <2>5 DEF Numbers
    <3> QED
      BY <2>6, <3>1, <3>2
  <2> HIDE DEF s, v, g
  <2> QED
    BY <1>2, <2>2, <2>3, <2>4, <2>6, <2>7, <2>8, ChangeStep DEF Mapped
<1> QED
  BY <1>3, <1>4

\* A handover is over with its stage; a return takes the decision off later,
\* which nobody sees in between.
LEMMA MarkForHandoverMaps ==
  ASSUME OneAtATime, SerialInv, NEW p \in Requests, MarkForHandover(p)
  PROVE  Mapped
<1> DEFINE q == req[p]
<1>1. /\ q \in Request /\ Alone(q, row, versions) /\ req \in [Requests -> Request]
      /\ row \in Row /\ row.doc \in Doc /\ q.arg \in Transitions /\ q.pc = "stage"
  BY DEF SerialInv, TypeOK, RequestInv, Row, MarkForHandover
<1>2. /\ versions' = versions /\ released' = released
      /\ row' = [row EXCEPT !.stage = StageAfter[q.arg]]
  BY DEF MarkForHandover
<1>3. HandoverInv(q, row)
  BY <1>1, IdleType DEF Alone, FormInv, ConditionsInv, DeletionInv, AddressInv, PdfInv
<1>4. /\ row.stage \in OfferedAt[q.arg]
      /\ q.arg = "dmToCa" => row.doc["approval"] # Blank
  BY <1>1 DEF SerialInv, DecisionInv
<1>5. SerialLicence = row
  BY <1>1, <1>3, SerialIsFinished, UnstartedIsRow DEF HandoverInv, Unstarted
<1>6. CASE q.arg # "dmToCaReturn"
  <2>1. req'[p].pc = "idle"
    BY <1>1, <1>6, IdleType DEF MarkForHandover, Goto
  <2>2. SerialLicence' = row'
    BY <2>1, SerialIsFinishedNext, UnstartedIsRowNext
  <2>3. Lifecycle!HandOver(q.arg)
    BY <1>1, <1>2, <1>4, <1>5, <1>6, <2>2, SameVocabulary DEF Lifecycle!HandOver
  <2> QED
    BY <1>1, <2>3, SameVocabulary DEF Lifecycle!LifecycleNext, Mapped
<1>7. CASE q.arg = "dmToCaReturn"
  <2> DEFINE r == [row EXCEPT !.stage = "PROCESSING_CA"]
             g == [r EXCEPT !.doc = q.newDoc]
  <2>1. row.stage = "APPROVAL" /\ row' = r
    BY <1>1, <1>2, <1>4, <1>7 DEF OfferedAt, StageAfter, Transitions
  <2>2. /\ g \in Row /\ g.doc = WithoutDecision(row.doc) /\ g.stage = "PROCESSING_CA"
        /\ g.version = row.version /\ g.vary = row.vary
    BY <1>1, <1>3, <1>7 DEF HandoverInv, Row, Request, Stages
  <2>3. PICK n \in Request : req'[p] = n /\ n.op = "handover" /\ n.pc = "writeDoc" /\ n.newDoc = q.newDoc
    <3> DEFINE m == [q EXCEPT !.pc = "writeDoc"]
    <3>1. m \in Request /\ m.op = "handover" /\ m.pc = "writeDoc" /\ m.newDoc = q.newDoc
      BY <1>1, <1>3 DEF Request, HandoverInv, PCs
    <3>2. req'[p] = m
      BY <1>1, <1>7 DEF MarkForHandover, Goto
    <3> QED
      BY <3>1, <3>2
  <2>4. PICK u \in Row : /\ u = Numbers(g, n) /\ u.doc = g.doc /\ u.stage = g.stage
                         /\ <<u.version, u.vary>> \in Lifecycle!Renumbered(row)
    BY <2>2, <2>3, NumbersAreFree DEF SerialInv
  <2>5. SerialLicence' = u
    <3>1. SerialLicence' = Numbers([row EXCEPT !.doc = n.newDoc], n)'
      BY <2>3, SerialIsFinishedNext, StartedFormsNext
    <3>2. Numbers([row EXCEPT !.doc = n.newDoc], n)' = Numbers(g, n)
      BY <1>2, <2>1, <2>3 DEF Numbers
    <3> QED
      BY <2>4, <3>1, <3>2
  <2> HIDE DEF g, r
  <2>6. u = [doc |-> WithoutDecision(row.doc), stage |-> "PROCESSING_CA",
             version |-> u.version, vary |-> u.vary]
    BY <2>2, <2>4 DEF Row
  <2>7. \E k \in Lifecycle!Renumbered(row) :
          u = [doc |-> WithoutDecision(row.doc), stage |-> "PROCESSING_CA",
               version |-> k[1], vary |-> k[2]]
    BY <2>4, <2>6
  <2>8. Lifecycle!Return
    BY <1>2, <1>5, <2>1, <2>5, <2>7, SameVocabulary DEF Lifecycle!Return
  <2> QED
    BY <2>8 DEF Lifecycle!LifecycleNext, Mapped
<1> QED
  BY <1>6, <1>7

\* The first print of a document records it.
LEMMA TakeSnapshotMaps ==
  ASSUME OneAtATime, SerialInv, NEW p \in Requests, TakeSnapshot(p)
  PROVE  Mapped
<1> DEFINE q == req[p]
<1>1. /\ q.pc = "snapshot" /\ row' = row /\ released' = released
      /\ req \in [Requests -> Request] /\ Alone(q, row, versions)
  BY DEF TakeSnapshot, SerialInv, TypeOK, RequestInv
<1>2. PdfInv(q, row, versions)
  BY <1>1, IdleType DEF Alone, FormInv, ConditionsInv, DeletionInv, AddressInv, HandoverInv
<1>3. SerialLicence = row
  BY <1>1, <1>2, SerialIsFinished, UnstartedIsRow DEF PdfInv
<1>4. CASE PairTaken(row, versions)
  <2>1. versions' = versions /\ req'[p].pc = "idle"
    BY <1>1, <1>4, IdleType DEF TakeSnapshot, Goto
  <2>2. SerialLicence' = row'
    BY <2>1, SerialIsFinishedNext, UnstartedIsRowNext
  <2> QED
    BY <1>1, <1>3, <2>1, <2>2, Stutter DEF Mapped
<1>5. CASE ~PairTaken(row, versions)
  <2> DEFINE s == [doc |-> row.doc, template |-> q.read.doc["template"],
                   version |-> row.version, vary |-> row.vary]
  <2>1. versions' = versions \cup {s} /\ req'[p].pc = "reload" /\ req'[p].op = "pdf"
    BY <1>1, <1>5 DEF TakeSnapshot, SaveApprovedLicenceVersion, Idle
  <2>2. SerialLicence' = row'
    BY <2>1, SerialIsFinishedNext, UnstartedIsRowNext
  <2>3. \A d \in Recorded : d.version # row.version \/ d.vary # row.vary
    BY <1>5 DEF PairTaken, SamePair, Recorded
  <2>4. Recorded' = Recorded \cup {[doc |-> row.doc, version |-> row.version, vary |-> row.vary]}
    <3>1. s.doc = row.doc /\ s.version = row.version /\ s.vary = row.vary
      OBVIOUS
    <3> HIDE DEF s
    <3> QED
      BY <2>1, <3>1 DEF Recorded
  <2>5. Lifecycle!Record
    BY <1>1, <1>3, <2>2, <2>3, <2>4 DEF Lifecycle!Record, Lifecycle!Numbered, Recorded
  <2> QED
    BY <2>5 DEF Lifecycle!LifecycleNext, Mapped
<1> QED
  BY <1>4, <1>5

\* Reading, printing and a handover that was abandoned change nothing.
LEMMA ReadingMaps ==
  ASSUME OneAtATime, SerialInv, NEW p \in Requests,
         ReadRow(p) \/ ReadApproved(p) \/ PrintLicence(p) \/ ResponsibleOfficerMissing(p)
  PROVE  Mapped
<1> DEFINE q == req[p]
<1>1. /\ q.pc \in {"load", "reload", "print", "stage"} /\ Alone(q, row, versions)
      /\ row' = row /\ versions' = versions /\ released' = released
      /\ q \in Request /\ req \in [Requests -> Request]
  BY DEF ReadRow, ReadApproved, PrintLicence, ResponsibleOfficerMissing, SerialInv, TypeOK, RequestInv
<1>2. PdfInv(q, row, versions) \/ (HandoverInv(q, row) /\ q.pc = "stage")
  BY <1>1, IdleType DEF Alone, FormInv, ConditionsInv, DeletionInv, AddressInv, HandoverInv
<1>3. SerialLicence = row
  BY <1>1, <1>2, SerialIsFinished, UnstartedIsRow DEF PdfInv, HandoverInv, Unstarted
<1>4. SerialLicence' = row'
  <2>1. CASE PrintLicence(p) \/ ResponsibleOfficerMissing(p)
    <3>1. req'[p].pc = "idle"
      BY <1>1, <2>1, IdleType DEF PrintLicence, ResponsibleOfficerMissing, Goto
    <3> QED
      BY <3>1, SerialIsFinishedNext, UnstartedIsRowNext
  <2>2. CASE ReadRow(p) \/ ReadApproved(p)
    <3>1. q.op = "pdf" /\ q.pc \in {"load", "reload"}
      BY <1>2, <2>2 DEF ReadRow, ReadApproved, PdfInv
    <3>2. \A n : n.pc = q.pc /\ n.op = q.op /\ n \in Request
                => Loaded(n).op = "pdf" /\ Loaded(n).pc # "bump"
      BY <3>1 DEF Loaded, Request
    <3>3. \E n : n.pc = q.pc /\ n.op = q.op /\ n \in Request /\ req'[p] = Loaded(n)
      <4> DEFINE byRow == [q EXCEPT !.read = ReadingOf(row), !.loads = q.loads \ {"row"}]
                 byApproved == [q EXCEPT !.approved = ApprovedLicenceVersion(versions),
                                         !.loads = q.loads \ {"approved"}]
      <4>1. /\ byRow \in Request /\ byRow.pc = q.pc /\ byRow.op = q.op
            /\ byApproved \in Request /\ byApproved.pc = q.pc /\ byApproved.op = q.op
        BY <1>1, ApprovedIsSnapshots DEF Request, Reading, ReadingOf, SerialInv, TypeOK, Row
      <4>2. req'[p] = Loaded(byRow) \/ req'[p] = Loaded(byApproved)
        BY <1>1, <2>2 DEF ReadRow, ReadApproved
      <4> QED
        BY <4>1, <4>2
    <3>4. req'[p].op = "pdf" /\ req'[p].pc # "bump"
      BY <3>2, <3>3
    <3> QED
      BY <3>4, SerialIsFinishedNext, UnstartedIsRowNext
  <2> QED
    BY <2>1, <2>2
<1> QED
  BY <1>1, <1>3, <1>4, Stutter DEF Mapped

\* A prisoner who leaves with an approved licence leaves with one that is
\* approved when the request that is running has finished.
LEMMA ReleaseMaps ==
  ASSUME OneAtATime, SerialInv, Release
  PROVE  Mapped
<1>1. /\ row \in Row /\ row.stage \in PostApproval /\ ~released /\ released' = TRUE
      /\ UNCHANGED <<row, versions, req>>
  BY DEF Release, SerialInv, TypeOK
<1>2. SerialLicence' = SerialLicence
  BY <1>1 DEF SerialLicence, Running, Finished, Numbers, Flagged
<1>3. SerialLicence.stage \in PostApproval
  <2>1. CASE Running = {}
    BY <1>1, <2>1 DEF SerialLicence
  <2>2. CASE Running # {}
    <3>1. PICK p \in Requests : req[p].pc # "idle"
      BY <2>2 DEF Running
    <3> DEFINE q == req[p]
    <3>2. SerialLicence = Finished(q)
      BY SerialIsFinished
    <3>3. q \in Request
      BY DEF SerialInv, TypeOK
    <3>4. \A r \in Row : r.stage = row.stage => Numbers(r, q) \in Row /\ Numbers(r, q).stage = row.stage
      <4>1. (q.op \in {"form", "conditions"} /\ q.post) \in BOOLEAN /\ versions \in SUBSET Snapshot
        BY <3>3 DEF Request, SerialInv, TypeOK
      <4> QED
        BY <4>1, UpdateVersionMoves DEF Numbers
    <3>5. \A r \in Row : r.stage = row.stage => Flagged(r, q).stage \in PostApproval
      <4> SUFFICES ASSUME NEW r \in Row, r.stage = row.stage
                   PROVE  Flagged(r, q).stage \in PostApproval
        OBVIOUS
      <4> DEFINE to == ModificationStage(q.stage, RequiresApproval(q.arg), NoModify(q.arg))
      <4>1. to \in {{}, {"MODIFIED"}, {"MODIFIED_APPROVAL"}}
        BY DEF ModificationStage
      <4>2. Flagged(r, q) = IF to = {} THEN r ELSE [r EXCEPT !.stage = CHOOSE s \in to : TRUE]
        BY DEF Flagged
      <4> HIDE DEF to
      <4>3. to # {} => (CHOOSE s \in to : TRUE) \in {"MODIFIED", "MODIFIED_APPROVAL"}
        BY <4>1
      <4> QED
        BY <1>1, <4>2, <4>3 DEF Row, PostApproval
    <3>6. /\ [row EXCEPT !.doc["licenceConditions"] = q.newDoc["licenceConditions"]] \in Row
          /\ [row EXCEPT !.doc = q.newDoc] \in Row
      BY <1>1, <3>3 DEF Row, Request, Doc, Sections
    <3>7. /\ [row EXCEPT !.doc["licenceConditions"] = q.newDoc["licenceConditions"]].stage = row.stage
          /\ [row EXCEPT !.doc = q.newDoc].stage = row.stage
      BY <1>1 DEF Row
    <3> QED
      BY <1>1, <3>2, <3>4, <3>5, <3>6, <3>7 DEF Finished
  <2> QED
    BY <2>1, <2>2
<1>4. Lifecycle!Leave
  BY <1>1, <1>2, <1>3, SameVocabulary DEF Lifecycle!Leave
<1> QED
  BY <1>4 DEF Lifecycle!LifecycleNext, Mapped

\* While requests run one at a time, none dies and no page is kept open,
\* several statements are as good as one atomic change of the licence: what
\* update, updateLicenceConditions, the address and handover services and
\* GET /pdf/create do implements LicenceLifecycle.
THEOREM SerialIsAtomic ==
  ASSUME OneAtATime, MaxFailures = 0, MaxOpenPages = 0, "deleteCondition" \notin Ops
  PROVE  Spec => ImplementsLifecycle
<1>1. Init => Lifecycle!LifecycleInit
  <2> SUFFICES ASSUME Init PROVE Lifecycle!LifecycleInit
    OBVIOUS
  <2>1. Running = {} /\ versions = {}
    BY IdleType DEF Init, Running
  <2>2. SerialLicence = row
    BY <2>1 DEF SerialLicence
  <2> QED
    BY <2>1, <2>2, SameVocabulary DEF Init, NewRow, Lifecycle!LifecycleInit
<1>2. TypeOK /\ VersionInv /\ RequestInv /\ DecisionInv /\ NoDeletion /\ [Next]_vars
        => [Lifecycle!LifecycleNext]_(Lifecycle!lifecycle)
  <2> SUFFICES ASSUME TypeOK, VersionInv, RequestInv, DecisionInv, NoDeletion, [Next]_vars
               PROVE  Mapped
    BY DEF Mapped
  <2>1. SerialInv
    BY DEF SerialInv, VersionInv
  <2>2. ASSUME NEW p \in Requests, Proceed(p) PROVE Mapped
    BY <2>1, <2>2, WriteDocMaps, WriteSectionMaps, BumpMaps, FlagModificationMaps,
       MarkForHandoverMaps, TakeSnapshotMaps, ReadingMaps DEF Proceed
  <2>3. ASSUME NEW p \in Requests, Fail(p) PROVE FALSE
    BY <2>3 DEF Fail, TypeOK
  <2>4. ASSUME NEW t \in Sends, OpenPage(t) PROVE FALSE
    BY <2>4, FS_EmptySet DEF OpenPage, DecisionInv
  <2>5. CASE UNCHANGED vars
    <3>1. SerialLicence' = SerialLicence
      BY <2>5 DEF vars, SerialLicence, Running, Finished, Numbers, Flagged
    <3> QED
      BY <2>5, <3>1, Stutter DEF vars, Mapped
  <2> QED
    BY <2>1, <2>2, <2>3, <2>4, <2>5, ArriveMaps, ReleaseMaps DEF Next
<1> QED
  BY <1>1, <1>2, TypeCorrect, VersionInvAlways, RequestInvAlways, DecisionInvAlways,
     NoDeletionAlways, PTL DEF Spec, ImplementsLifecycle, Lifecycle!Lifecycle
=============================================================================
