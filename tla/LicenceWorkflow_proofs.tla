------------------------ MODULE LicenceWorkflow_proofs ------------------------
(***************************************************************************)
(* Proofs about LicenceWorkflow, for every set of requests, every set of   *)
(* values and every bound: requests overlap and die in any way.            *)
(***************************************************************************)
EXTENDS LicenceOverlap, FiniteSetTheorems, TLAPS

USE DEF SamePair

-----------------------------------------------------------------------------
(* Types *)

LEMMA EmptyDocType == EmptyDoc \in Doc
BY BlankAssumption DEF EmptyDoc, Doc

LEMMA IdleType == Idle \in Request /\ Idle.pc = "idle"
<1>1. NewRow("ELIGIBILITY", 0) \in Row
  BY EmptyDocType DEF NewRow, Row, Stages
<1>2. Unseen \in [Reviewed -> Values]
  BY BlankAssumption DEF Unseen
<1>3. QED
  BY <1>1, <1>2, EmptyDocType DEF Idle, Request, Reading, ReadingOf, Row, AllOps, Sections,
                            Transitions, PCs, Stages

\* updateVersion keeps the document and the stage, and moves at most one of
\* the two numbers, by one, off a value some snapshot has.
LEMMA UpdateVersionMoves ==
  ASSUME NEW r \in Row, NEW vs \in SUBSET Snapshot, NEW post \in BOOLEAN
  PROVE  LET q == UpdateVersion(r, vs, post)
         IN  /\ q \in Row
             /\ q.doc = r.doc /\ q.stage = r.stage
             /\ q.version \in {r.version, r.version + 1}
             /\ q.vary \in {r.vary, r.vary + 1}
             /\ q.version # r.version => \E s \in vs : s.version = r.version
<1>1. CASE post /\ IsMaxOf(r.vary, {s.vary : s \in vs})
  BY <1>1 DEF UpdateVersion, Row
<1>2. CASE ~post /\ IsMaxOf(r.version, {s.version : s \in vs})
  <2>1. \E s \in vs : s.version = r.version
    BY <1>2 DEF IsMaxOf
  <2>2. QED
    BY <1>2, <2>1 DEF UpdateVersion, Row
<1>3. CASE /\ ~(post /\ IsMaxOf(r.vary, {s.vary : s \in vs}))
           /\ ~(~post /\ IsMaxOf(r.version, {s.version : s \in vs}))
  BY <1>3 DEF UpdateVersion
<1>4. QED
  BY <1>1, <1>2, <1>3

\* When no snapshot is ahead of the row, no snapshot has the pair the row
\* carries after updateVersion, whichever number it is told to move: a pair
\* that is taken is left, and one that is reached is beyond every snapshot.
LEMMA UpdateVersionFindsFreePair ==
  ASSUME NEW r \in Row, NEW vs \in SUBSET Snapshot, NEW post \in BOOLEAN,
         \A s \in vs : s.version <= r.version /\ s.vary <= r.vary
  PROVE  ~PairTaken(UpdateVersion(r, vs, post), vs)
<1>1. \A s \in vs : s.version \in Nat /\ s.vary \in Nat
  BY DEF Snapshot
<1>2. CASE post /\ IsMaxOf(r.vary, {s.vary : s \in vs})
  <2>1. UpdateVersion(r, vs, post) = [r EXCEPT !.vary = @ + 1]
    BY <1>2 DEF UpdateVersion
  <2>2. QED
    BY <1>1, <2>1 DEF PairTaken, Row
<1>3. CASE ~post /\ IsMaxOf(r.version, {s.version : s \in vs})
  <2>1. UpdateVersion(r, vs, post) = [r EXCEPT !.version = @ + 1]
    BY <1>3 DEF UpdateVersion
  <2>2. QED
    BY <1>1, <2>1 DEF PairTaken, Row
<1>4. CASE /\ ~(post /\ IsMaxOf(r.vary, {s.vary : s \in vs}))
           /\ ~(~post /\ IsMaxOf(r.version, {s.version : s \in vs}))
  <2>1. UpdateVersion(r, vs, post) = r
    BY <1>4 DEF UpdateVersion
  <2>2. ASSUME NEW t \in vs, SamePair(r, t) PROVE FALSE
    <3>1. IsMaxOf(r.vary, {s.vary : s \in vs}) /\ IsMaxOf(r.version, {s.version : s \in vs})
      BY <2>2 DEF IsMaxOf
    <3>2. QED
      BY <1>4, <3>1
  <2>3. QED
    BY <2>1, <2>2 DEF PairTaken
<1>5. QED
  BY <1>2, <1>3, <1>4

\* One part of a document replaced.
LEMMA ChangedDocType ==
  ASSUME NEW d \in Doc, NEW s \in Sections, NEW v \in Values
  PROVE  [d EXCEPT ![s] = v] \in Doc
BY DEF Doc

\* updateModificationStage writes at most one stage, and one past approval.
LEMMA ModificationStageType ==
  ASSUME NEW st, NEW a, NEW n
  PROVE  /\ ModificationStage(st, a, n) \in {{}, {"MODIFIED"}, {"MODIFIED_APPROVAL"}}
         /\ ModificationStage(st, a, n) # {} =>
              (CHOOSE s \in ModificationStage(st, a, n) : TRUE) \in Stages
<1>1. ModificationStage(st, a, n) \in {{}, {"MODIFIED"}, {"MODIFIED_APPROVAL"}}
  BY DEF ModificationStage
<1>2. ASSUME ModificationStage(st, a, n) # {}
      PROVE  (CHOOSE s \in ModificationStage(st, a, n) : TRUE) \in ModificationStage(st, a, n)
  BY <1>2
<1>3. QED
  BY <1>1, <1>2 DEF Stages

LEMMA StageAfterType == \A t \in Transitions : StageAfter[t] \in Stages
BY DEF StageAfter, Transitions, Stages

-----------------------------------------------------------------------------
(* Type correctness, action by action *)

\* A request about to hand over names a transition: this part of TypeOK needs
\* an argument of its own, req'[p] being its only new element.
LEMMA ReqType ==
  ASSUME TypeOK, NEW p \in Requests, NEW r \in Request,
         r.pc = "stage" => r.arg \in Transitions,
         req' = [req EXCEPT ![p] = r]
  PROVE  /\ req' \in [Requests -> Request]
         /\ \A o \in Requests : req'[o].pc = "stage" => req'[o].arg \in Transitions
BY DEF TypeOK

LEMMA BeginType ==
  ASSUME TypeOK, NEW p \in Requests, NEW op \in AllOps,
         NEW arg \in Sections \cup Transitions, NEW pc \in PCs, NEW d \in Doc,
         NEW w \in [Reviewed -> Values], pc = "stage" => arg \in Transitions,
         Begin(p, op, arg, pc, d, w)
  PROVE  TypeOK'
<1> DEFINE r == [Idle EXCEPT !.op = op, !.arg = arg, !.pc = pc,
                             !.stage = IF op \in {"form", "conditions"} THEN row.stage ELSE @,
                             !.newDoc = d, !.shown = w, !.post = released]
<1>1. r \in Request /\ r.pc = pc /\ r.arg = arg
  BY IdleType DEF Request, TypeOK, Row
<1>2. req' = [req EXCEPT ![p] = r]
  BY DEF Begin
<1>3. UNCHANGED <<row, versions, released, pages, failures, torn, decided>>
  BY DEF Begin
<1> HIDE DEF r
<1>4. QED
  BY <1>1, <1>2, <1>3, ReqType DEF TypeOK

LEMMA GotoType ==
  ASSUME TypeOK, NEW p \in Requests, NEW pc \in PCs \ {"stage"}, Goto(p, pc)
  PROVE  /\ req' \in [Requests -> Request]
         /\ \A o \in Requests : req'[o].pc = "stage" => req'[o].arg \in Transitions
<1> DEFINE r == IF pc = "idle" THEN Idle ELSE [req[p] EXCEPT !.pc = pc]
<1>1. r \in Request /\ r.pc # "stage"
  BY IdleType DEF TypeOK, Request
<1>2. req' = [req EXCEPT ![p] = r]
  BY DEF Goto
<1> HIDE DEF r
<1>3. QED
  BY <1>1, <1>2, ReqType

\* A page is of a handover users make, and shows reviewed answers.
LEMMA PageType ==
  ASSUME TypeOK
  PROVE  \A page \in HandoverPages :
           /\ page.to \in Sends /\ page.to \in Transitions
           /\ page.shown \in [Reviewed -> Values]
           /\ page \in [to : Sends, shown : [Reviewed -> Values]]
<1>1. row.doc \in Doc /\ Reviewed \subseteq Sections
  BY DEF TypeOK, Row, Reviewed, Sections
<1>2. Unseen \in [Reviewed -> Values] /\ [s \in Reviewed |-> row.doc[s]] \in [Reviewed -> Values]
  BY <1>1, BlankAssumption DEF Unseen, Doc
<1>3. \A t \in Sends : Page(t) \in [to : Sends, shown : [Reviewed -> Values]]
  BY <1>2 DEF Page
<1> QED
  BY <1>3, OpsAssumption DEF HandoverPages, TypeOK

LEMMA ArriveType ==
  ASSUME TypeOK, NEW p \in Requests, Arrive(p)
  PROVE  TypeOK'
<1> USE DEF TypeOK
<1>1. row.doc \in Doc
  BY DEF Row
<1>0. Unseen \in [Reviewed -> Values]
  BY BlankAssumption DEF Unseen
<1>2. ASSUME NEW s \in Sections, NEW v \in Answers[s], SubmitForm(p, s, v)
      PROVE  TypeOK'
  <2>1. v \in Values
    BY <1>2, AnswersAssumption
  <2>2. [row.doc EXCEPT ![s] = v] \in Doc
    BY <1>1, <2>1, ChangedDocType
  <2>3. QED
    BY <1>0, <1>2, <2>2, BeginType DEF SubmitForm, AllOps, PCs
<1>3. ASSUME NEW v \in Answers["licenceConditions"] \cup {Blank}
      PROVE  [EmptyDoc EXCEPT !["licenceConditions"] = v] \in Doc
  <2>1. "licenceConditions" \in Sections
    BY DEF Sections
  <2>2. v \in Values
    BY <1>3, <2>1, AnswersAssumption, BlankAssumption
  <2>3. QED
    BY <2>1, <2>2, EmptyDocType, ChangedDocType
<1>4. ASSUME NEW v \in Answers["licenceConditions"], SubmitConditions(p, v)
      PROVE  TypeOK'
  BY <1>0, <1>3, <1>4, BeginType DEF SubmitConditions, AllOps, PCs, Sections
<1>5. ASSUME NEW v \in Answers["licenceConditions"] \cup {Blank}, DeleteCondition(p, v)
      PROVE  TypeOK'
  BY <1>0, <1>3, <1>5, BeginType DEF DeleteCondition, AllOps, PCs, Sections
<1>6. ASSUME NEW v \in Answers["address"], MoveAddress(p, v)
      PROVE  TypeOK'
  <2>1. "address" \in Sections
    BY DEF Sections
  <2>2. [row.doc EXCEPT !["address"] = v] \in Doc
    BY <1>1, <2>1, AnswersAssumption, ChangedDocType
  <2>3. QED
    BY <1>0, <1>6, <2>1, <2>2, BeginType DEF MoveAddress, AllOps, PCs
<1>7. ASSUME NEW page \in HandoverPages, SendHandover(p, page)
      PROVE  TypeOK'
  <2>1. page.to \in Transitions /\ page.shown \in [Reviewed -> Values]
    BY PageType
  <2>2. "approval" \in Sections
    BY DEF Sections
  <2>3. WithoutDecision(row.doc) \in Doc
    BY <1>1, <2>2, BlankAssumption, ChangedDocType DEF WithoutDecision
  <2>4. (IF page.to = "dmToCaReturn" THEN WithoutDecision(row.doc) ELSE EmptyDoc) \in Doc
    BY <2>3, EmptyDocType
  <2>5. QED
    BY <1>7, <2>1, <2>4, BeginType DEF SendHandover, AllOps, PCs
<1>8. CASE StartPdf(p)
  <2> DEFINE r == [Idle EXCEPT !.op = "pdf", !.pc = "load", !.loads = {"row", "approved"}]
  <2>1. r \in Request /\ r.pc # "stage"
    BY IdleType DEF Request, AllOps, PCs
  <2>2. req' = [req EXCEPT ![p] = r]
    BY <1>8 DEF StartPdf
  <2> HIDE DEF r
  <2>3. QED
    BY <1>8, <2>1, <2>2, ReqType DEF StartPdf
<1>9. QED
  BY <1>2, <1>4, <1>5, <1>6, <1>7, <1>8 DEF Arrive

\* Loaded only moves the pc of a pdf request.
LEMMA LoadedType ==
  ASSUME NEW r \in Request, r.pc # "stage"
  PROVE  Loaded(r) \in Request /\ Loaded(r).pc # "stage"
BY DEF Loaded, Request, PCs

LEMMA ApprovedIsSnapshots ==
  ASSUME NEW vs \in SUBSET Snapshot
  PROVE  ApprovedLicenceVersion(vs) \in SUBSET Snapshot
BY DEF ApprovedLicenceVersion

LEMMA WriteType ==
  ASSUME TypeOK, NEW p \in Requests,
         req' = [req EXCEPT ![p].pc = "bump", ![p].newDoc = EmptyDoc]
  PROVE  /\ req' \in [Requests -> Request]
         /\ \A o \in Requests : req'[o].pc = "stage" => req'[o].arg \in Transitions
<1> DEFINE r == [req[p] EXCEPT !.pc = "bump", !.newDoc = EmptyDoc]
<1>1. r \in Request /\ r.pc # "stage"
  <2>1. req[p] \in Request
    BY DEF TypeOK
  <2>2. [req[p] EXCEPT !.pc = "bump"] \in Request
    BY <2>1 DEF Request, PCs
  <2>3. ASSUME NEW q \in Request PROVE [q EXCEPT !.newDoc = EmptyDoc] \in Request
    BY EmptyDocType DEF Request
  <2>4. r.pc = "bump"
    BY <2>1 DEF Request
  <2> QED
    BY <2>2, <2>3, <2>4, Zenon
<1>2. req' = [req EXCEPT ![p] = r]
  OBVIOUS
<1> HIDE DEF r
<1>3. QED
  BY <1>1, <1>2, ReqType

LEMMA ProceedType ==
  ASSUME TypeOK, NEW p \in Requests, Proceed(p)
  PROVE  TypeOK'
<1>1. /\ row \in Row /\ row.doc \in Doc /\ versions \in SUBSET Snapshot
      /\ req[p] \in Request /\ req[p].newDoc \in Doc
  BY DEF TypeOK, Row, Request
<1>2. CASE WriteDoc(p)
  <2>1. row' \in Row
    BY <1>1, <1>2 DEF WriteDoc, Row
  <2>2. QED
    BY <1>2, <2>1, WriteType DEF WriteDoc, TypeOK
<1>3. CASE WriteSection(p)
  <2>1. "licenceConditions" \in Sections /\ req[p].newDoc["licenceConditions"] \in Values
    BY <1>1 DEF Sections, Doc
  <2>2. [row.doc EXCEPT !["licenceConditions"] = req[p].newDoc["licenceConditions"]] \in Doc
    BY <1>1, <2>1, ChangedDocType
  <2>3. row' \in Row
    BY <1>1, <1>3, <2>2 DEF WriteSection, Row
  <2>4. QED
    BY <1>3, <2>3, WriteType DEF WriteSection, TypeOK
<1>4. CASE Bump(p)
  <2>1. PostReleaseArgument(p) \in BOOLEAN
    BY <1>1 DEF PostReleaseArgument, Request
  <2>2. row' \in Row
    BY <1>1, <1>4, <2>1, UpdateVersionMoves DEF Bump
  <2>3. QED
    BY <1>4, <2>2, GotoType DEF Bump, PCs, TypeOK
<1>5. CASE FlagModification(p)
  <2>1. row' \in Row
    BY <1>1, <1>5, ModificationStageType DEF FlagModification, Row
  <2>2. QED
    BY <1>5, <2>1, GotoType DEF FlagModification, PCs, TypeOK
<1>6. CASE MarkForHandover(p)
  <2>1. req[p].arg \in Transitions
    BY <1>6 DEF MarkForHandover, TypeOK
  <2>2. row' \in Row
    BY <1>1, <1>6, <2>1, StageAfterType DEF MarkForHandover, Row
  <2>3. decided' \in [Reviewed -> Values]
    BY <1>1, <1>6 DEF MarkForHandover, Request, TypeOK
  <2>4. QED
    BY <1>6, <2>2, <2>3, GotoType DEF MarkForHandover, PCs, TypeOK
<1>7. CASE ResponsibleOfficerMissing(p)
  BY <1>7, GotoType DEF ResponsibleOfficerMissing, PCs, TypeOK
<1>8. CASE ReadRow(p)
  <2> DEFINE q == [req[p] EXCEPT !.read = ReadingOf(row), !.loads = req[p].loads \ {"row"}]
  <2>1. q \in Request /\ q.pc # "stage"
    BY <1>1, <1>8 DEF Request, Reading, ReadingOf, Row, ReadRow
  <2>2. req' = [req EXCEPT ![p] = Loaded(q)]
    BY <1>8 DEF ReadRow
  <2> HIDE DEF q
  <2>3. QED
    BY <1>8, <2>1, <2>2, LoadedType, ReqType DEF ReadRow, TypeOK
<1>9. CASE ReadApproved(p)
  <2> DEFINE q == [req[p] EXCEPT !.approved = ApprovedLicenceVersion(versions),
                                 !.loads = req[p].loads \ {"approved"}]
  <2>1. q \in Request /\ q.pc # "stage"
    BY <1>1, <1>9, ApprovedIsSnapshots DEF Request, ReadApproved
  <2>2. req' = [req EXCEPT ![p] = Loaded(q)]
    BY <1>9 DEF ReadApproved
  <2> HIDE DEF q
  <2>3. QED
    BY <1>9, <2>1, <2>2, LoadedType, ReqType DEF ReadApproved, TypeOK
<1>10. CASE TakeSnapshot(p) /\ PairTaken(row, versions)
  BY <1>10, GotoType DEF TakeSnapshot, PCs, TypeOK
<1>11. CASE TakeSnapshot(p) /\ ~PairTaken(row, versions)
  <2>1. versions' \subseteq Snapshot
    <3>1. "template" \in Sections /\ req[p].read.doc \in Doc
      BY <1>1 DEF Sections, Request, Reading
    <3>2. [doc |-> row.doc, template |-> req[p].read.doc["template"],
           version |-> row.version, vary |-> row.vary] \in Snapshot
      BY <1>1, <3>1 DEF Snapshot, Row, Doc
    <3>3. QED
      BY <1>1, <1>11, <3>2 DEF TakeSnapshot, SaveApprovedLicenceVersion
  <2> DEFINE r == [Idle EXCEPT !.op = "pdf", !.pc = "reload", !.loads = {"row", "approved"}]
  <2>2. r \in Request /\ r.pc # "stage"
    BY IdleType DEF Request, AllOps, PCs
  <2>3. req' = [req EXCEPT ![p] = r]
    BY <1>11 DEF TakeSnapshot
  <2> HIDE DEF r
  <2>4. QED
    BY <1>11, <2>1, <2>2, <2>3, ReqType DEF TakeSnapshot, TypeOK
<1>12. CASE PrintLicence(p)
  BY <1>12, GotoType DEF PrintLicence, PCs, TypeOK
<1>13. QED
  BY <1>2, <1>3, <1>4, <1>5, <1>6, <1>7, <1>8, <1>9, <1>10, <1>11, <1>12 DEF Proceed

\* Every variable keeps its type, whatever the requests do: LicenceWorkflow as
\* a model of checkLicenceMiddleware and the services' statements.
THEOREM TypeCorrect == Spec => []TypeOK
<1>1. Init => TypeOK
  <2> SUFFICES ASSUME Init PROVE TypeOK
    OBVIOUS
  <2>1. row \in Row
    BY EmptyDocType DEF Init, NewRow, Row, Stages
  <2>2. req \in [Requests -> Request] /\ \A p \in Requests : req[p].pc = "idle"
    BY IdleType DEF Init
  <2>3. decided \in [Reviewed -> Values]
    BY BlankAssumption DEF Init, Unseen
  <2>4. QED
    BY <2>1, <2>2, <2>3 DEF Init, TypeOK
<1>2. TypeOK /\ [Next]_vars => TypeOK'
  <2> SUFFICES ASSUME TypeOK, [Next]_vars PROVE TypeOK'
    OBVIOUS
  <2>1. ASSUME NEW p \in Requests, Arrive(p) \/ Proceed(p) PROVE TypeOK'
    BY <2>1, ArriveType, ProceedType
  <2>2. ASSUME NEW p \in Requests, Fail(p) PROVE TypeOK'
    <3>1. torn' \in BOOLEAN /\ failures' \in Nat
      BY <2>2 DEF Fail, TypeOK
    <3>2. QED
      BY <2>2, <3>1, GotoType DEF Fail, PCs, TypeOK
  <2>3. ASSUME NEW t \in Sends, OpenPage(t) PROVE TypeOK'
    <3>1. Page(t) \in [to : Sends, shown : [Reviewed -> Values]]
      BY PageType DEF HandoverPages
    <3> QED
      BY <2>3, <3>1 DEF OpenPage, TypeOK
  <2>4. CASE Release
    BY <2>4 DEF Release, TypeOK
  <2>5. CASE UNCHANGED vars
    BY <2>5 DEF vars, TypeOK
  <2>6. QED
    BY <2>1, <2>2, <2>3, <2>4, <2>5 DEF Next
<1>3. QED
  BY <1>1, <1>2, PTL DEF Spec

-----------------------------------------------------------------------------
(* Versions and snapshots.  The three invariants are inductive together: a  *)
(* free pair after updateVersion needs every snapshot to be behind the row. *)

VersionInv == RowAheadOfSnapshots /\ NoVersionSkipped /\ SnapshotIntegrity

\* A step that touches neither document, numbers nor snapshots and takes no
\* request away from updateVersion.
LEMMA VersionInvKept ==
  ASSUME VersionInv, versions' = versions, torn => torn',
         row'.doc = row.doc, row'.version = row.version, row'.vary = row.vary,
         \A o \in Requests : req[o].pc = "bump" => req'[o].pc = "bump" \/ torn'
  PROVE  VersionInv'
BY DEF VersionInv, RowAheadOfSnapshots, NoVersionSkipped, SnapshotIntegrity

\* A request that is not at updateVersion moves: every other one stays.
LEMMA OthersStay ==
  ASSUME TypeOK, NEW p \in Requests, NEW r, req' = [req EXCEPT ![p] = r],
         req[p].pc # "bump"
  PROVE  \A o \in Requests : req[o].pc = "bump" => req'[o].pc = "bump"
BY DEF TypeOK

LEMMA ArriveVersionInv ==
  ASSUME TypeOK, VersionInv, NEW p \in Requests, Arrive(p)
  PROVE  VersionInv'
<1>1. UNCHANGED <<row, versions, torn>>
  BY DEF Arrive, SubmitForm, SubmitConditions, DeleteCondition, MoveAddress,
         SendHandover, StartPdf, Begin
<1>2. req[p].pc = "idle" /\ \E r : req' = [req EXCEPT ![p] = r]
  BY DEF Arrive, SubmitForm, SubmitConditions, DeleteCondition, MoveAddress,
         SendHandover, StartPdf, Begin
<1>3. QED
  BY <1>1, <1>2, OthersStay, VersionInvKept

LEMMA ProceedVersionInv ==
  ASSUME TypeOK, VersionInv, NEW p \in Requests, Proceed(p)
  PROVE  VersionInv'
<1>1. /\ row \in Row /\ versions \in SUBSET Snapshot /\ req[p] \in Request
      /\ \A s \in versions : s.version <= row.version /\ s.vary <= row.vary
  BY DEF TypeOK, VersionInv, RowAheadOfSnapshots
<1>2. CASE WriteDoc(p) \/ WriteSection(p)
  <2>1. req'[p].pc = "bump"
    BY <1>2 DEF WriteDoc, WriteSection, TypeOK, Request
  <2>2. /\ row'.version = row.version /\ row'.vary = row.vary
        /\ versions' = versions
    BY <1>1, <1>2 DEF WriteDoc, WriteSection, Row
  <2>3. QED
    BY <2>1, <2>2 DEF VersionInv, RowAheadOfSnapshots, NoVersionSkipped, SnapshotIntegrity
<1>3. CASE Bump(p)
  <2>1. PostReleaseArgument(p) \in BOOLEAN
    BY <1>1 DEF PostReleaseArgument, Request
  <2>2. row' = UpdateVersion(row, versions, PostReleaseArgument(p)) /\ versions' = versions
    BY <1>3 DEF Bump
  <2>3. /\ row'.version \in {row.version, row.version + 1}
        /\ row'.vary \in {row.vary, row.vary + 1}
        /\ row'.version # row.version => \E s \in versions : s.version = row.version
    BY <1>1, <2>1, <2>2, UpdateVersionMoves
  <2>4. ~PairTaken(row', versions')
    BY <1>1, <2>1, <2>2, UpdateVersionFindsFreePair
  <2>5. SnapshotIntegrity'
    BY <2>4 DEF SnapshotIntegrity, PairTaken
  <2>6. RowAheadOfSnapshots'
    BY <1>1, <2>2, <2>3 DEF RowAheadOfSnapshots, Row, Snapshot
  <2>7. NoVersionSkipped'
    <3> SUFFICES ASSUME NEW n \in 1 .. row'.version - 1
                 PROVE  \E s \in versions : s.version = n
      BY <2>2 DEF NoVersionSkipped
    <3>1. CASE n \in 1 .. row.version - 1
      BY <3>1 DEF VersionInv, NoVersionSkipped
    <3>2. CASE n \notin 1 .. row.version - 1
      <4>1. row'.version # row.version /\ n = row.version
        BY <1>1, <2>3, <3>2 DEF Row
      <4>2. QED
        BY <2>3, <4>1
    <3>3. QED
      BY <3>1, <3>2
  <2>8. QED
    BY <2>5, <2>6, <2>7 DEF VersionInv
<1>4. CASE FlagModification(p) \/ MarkForHandover(p)
  <2>1. row'.doc = row.doc /\ row'.version = row.version /\ row'.vary = row.vary
    BY <1>1, <1>4 DEF FlagModification, MarkForHandover, Row
  <2>2. req[p].pc # "bump" /\ \E r : req' = [req EXCEPT ![p] = r]
    BY <1>4 DEF FlagModification, MarkForHandover, Goto
  <2>3. UNCHANGED <<versions, torn>>
    BY <1>4 DEF FlagModification, MarkForHandover
  <2>4. QED
    BY <2>1, <2>2, <2>3, OthersStay, VersionInvKept
<1>5. CASE ResponsibleOfficerMissing(p) \/ ReadRow(p) \/ ReadApproved(p) \/ PrintLicence(p)
  <2>1. UNCHANGED <<row, versions, torn>>
    BY <1>5 DEF ResponsibleOfficerMissing, ReadRow, ReadApproved, PrintLicence
  <2>2. req[p].pc # "bump" /\ \E r : req' = [req EXCEPT ![p] = r]
    BY <1>5 DEF ResponsibleOfficerMissing, ReadRow, ReadApproved, PrintLicence, Goto
  <2>3. QED
    BY <2>1, <2>2, OthersStay, VersionInvKept
<1>6. CASE TakeSnapshot(p)
  <2>1. req[p].pc # "bump" /\ \E r : req' = [req EXCEPT ![p] = r]
    BY <1>6 DEF TakeSnapshot, Goto
  <2>2. UNCHANGED <<row, torn>>
    BY <1>6 DEF TakeSnapshot
  <2>3. CASE PairTaken(row, versions)
    BY <1>6, <2>1, <2>2, <2>3, OthersStay, VersionInvKept DEF TakeSnapshot
  <2>4. CASE ~PairTaken(row, versions)
    <3> DEFINE n == [doc |-> row.doc, template |-> req[p].read.doc["template"],
                     version |-> row.version, vary |-> row.vary]
    <3>1. /\ versions' = versions \cup {n}
          /\ n.doc = row.doc /\ n.version = row.version /\ n.vary = row.vary
      BY <1>6, <2>4 DEF TakeSnapshot, SaveApprovedLicenceVersion
    <3> HIDE DEF n
    <3>2. \A o \in Requests : req[o].pc = "bump" => req'[o].pc = "bump"
      BY <2>1, OthersStay
    <3>3. RowAheadOfSnapshots'
      BY <1>1, <2>2, <3>1 DEF RowAheadOfSnapshots, Row
    <3>4. NoVersionSkipped' /\ SnapshotIntegrity'
      BY <2>2, <3>1, <3>2 DEF VersionInv, NoVersionSkipped, SnapshotIntegrity
    <3>5. QED
      BY <3>3, <3>4 DEF VersionInv
  <2>5. QED
    BY <2>3, <2>4
<1>7. QED
  BY <1>2, <1>3, <1>4, <1>5, <1>6 DEF Proceed

LEMMA NextVersionInv == TypeOK /\ VersionInv /\ [Next]_vars => VersionInv'
<1> SUFFICES ASSUME TypeOK, VersionInv, [Next]_vars PROVE VersionInv'
  OBVIOUS
<1>1. ASSUME NEW p \in Requests, Arrive(p) \/ Proceed(p) PROVE VersionInv'
  BY <1>1, ArriveVersionInv, ProceedVersionInv
<1>2. ASSUME NEW p \in Requests, Fail(p) PROVE VersionInv'
  <2>1. \A o \in Requests : req[o].pc = "bump" => req'[o].pc = "bump" \/ torn'
    BY <1>2 DEF Fail, Goto, TypeOK
  <2>2. UNCHANGED <<row, versions>> /\ (torn => torn')
    BY <1>2 DEF Fail
  <2>3. QED
    BY <2>1, <2>2, VersionInvKept
<1>3. ASSUME NEW t \in Sends, OpenPage(t) PROVE VersionInv'
  BY <1>3, VersionInvKept DEF OpenPage
<1>4. CASE Release
  BY <1>4, VersionInvKept DEF Release
<1>5. CASE UNCHANGED vars
  BY <1>5, VersionInvKept DEF vars
<1>6. QED
  BY <1>1, <1>2, <1>3, <1>4, <1>5 DEF Next

LEMMA VersionInvAlways == Spec => []VersionInv
<1>1. Init => VersionInv
  <2> SUFFICES ASSUME Init PROVE VersionInv
    OBVIOUS
  <2>1. versions = {} /\ row.version = 1
    BY DEF Init, NewRow
  <2>2. QED
    BY <2>1 DEF VersionInv, RowAheadOfSnapshots, NoVersionSkipped, SnapshotIntegrity
<1>2. QED
  BY <1>1, NextVersionInv, TypeCorrect, PTL DEF Spec

\* No snapshot gets ahead of the row it was copied from, so the comparisons of
\* updateVersion and versionInfo see every change.
THEOREM SnapshotsBehindRow == Spec => []RowAheadOfSnapshots
<1>1. VersionInv => RowAheadOfSnapshots
  BY DEF VersionInv
<1>2. QED
  BY <1>1, VersionInvAlways, PTL

\* Every version number below the row's has a snapshot.
THEOREM VersionsContiguous == Spec => []NoVersionSkipped
<1>1. VersionInv => NoVersionSkipped
  BY DEF VersionInv
<1>2. QED
  BY <1>1, VersionInvAlways, PTL

\* However requests overlap, a document differs from the snapshot whose version
\* it carries only between the write and updateVersion of some request, or
\* after one died there.
THEOREM DriftOnlyInsideAWrite == Spec => []SnapshotIntegrity
<1>1. VersionInv => SnapshotIntegrity
  BY DEF VersionInv
<1>2. QED
  BY <1>1, VersionInvAlways, PTL

-----------------------------------------------------------------------------
(* Without failures *)

Untorn == failures <= MaxFailures /\ (torn => failures > 0)

LEMMA UntornAlways == Spec => []Untorn
<1>1. Init => Untorn
  BY BoundsAssumption DEF Init, Untorn
<1>2. TypeOK /\ Untorn /\ [Next]_vars => Untorn'
  <2> SUFFICES ASSUME TypeOK, Untorn, [Next]_vars PROVE Untorn'
    OBVIOUS
  <2> USE DEF Untorn
  <2>1. ASSUME NEW p \in Requests, Arrive(p) PROVE Untorn'
    <3>1. UNCHANGED <<failures, torn>>
      BY <2>1 DEF Arrive, SubmitForm, SubmitConditions, DeleteCondition, MoveAddress,
                  SendHandover, StartPdf, Begin
    <3>2. QED
      BY <3>1
  <2>2. ASSUME NEW p \in Requests, Proceed(p) PROVE Untorn'
    <3>1. failures' = failures /\ (torn' => torn)
      <4>1. CASE Bump(p)
        BY <4>1 DEF Bump
      <4>2. CASE Proceed(p) /\ ~Bump(p)
        BY <4>2 DEF Proceed, WriteDoc, WriteSection, FlagModification, MarkForHandover,
                    ResponsibleOfficerMissing, ReadRow, ReadApproved, TakeSnapshot, PrintLicence
      <4>3. QED
        BY <2>2, <4>1, <4>2
    <3>2. QED
      BY <3>1
  <2>3. ASSUME NEW p \in Requests, Fail(p) PROVE Untorn'
    BY <2>3, BoundsAssumption DEF Fail, TypeOK
  <2>4. CASE Release \/ (\E t \in Sends : OpenPage(t)) \/ UNCHANGED vars
    BY <2>4 DEF Release, OpenPage, vars
  <2>5. QED
    BY <2>1, <2>2, <2>3, <2>4 DEF Next
<1>3. QED
  BY <1>1, <1>2, TypeCorrect, PTL DEF Spec

\* As long as no request dies half way, however the requests overlap, every
\* change made after a snapshot has a version of its own once they are done:
\* updateVersion needs no transaction around it to keep that claim of Notes.md.
THEOREM OverlapKeepsVersions ==
  ASSUME MaxFailures = 0
  PROVE  Spec => []ChangeGetsNewVersion
<1>1. VersionInv /\ Untorn /\ TypeOK => ChangeGetsNewVersion
  <2>1. Untorn /\ TypeOK => ~torn
    BY DEF Untorn, TypeOK
  <2>2. QED
    BY <2>1 DEF VersionInv, SnapshotIntegrity, ChangeGetsNewVersion, Quiet
<1>2. QED
  BY <1>1, VersionInvAlways, UntornAlways, TypeCorrect, PTL

-----------------------------------------------------------------------------
(* Overlapping requests and the decision.  Nothing is assumed of how many  *)
(* requests there are, only that some of them run alone (LicenceOverlap).  *)

\* What each kind of request does, statement by statement.
Shape(q) ==
  \/ q = Idle
  \/ q.op = "form" /\ q.arg \in Sections /\ q.pc \in {"writeDoc", "bump", "flag"}
  \/ /\ q.op = "conditions" /\ q.arg = "licenceConditions"
     /\ q.pc \in {"flag", "writeSection", "bump"}
  \/ /\ q.stage = "ELIGIBILITY"
     /\ \/ /\ q.op = "deleteCondition" /\ q.arg = "licenceConditions"
           /\ q.pc \in {"writeSection", "bump"}
        \/ q.op = "moveAddress" /\ q.arg = "address" /\ q.pc \in {"writeDoc", "bump"}
        \/ /\ q.op = "handover" /\ q.arg \in Transitions
           /\ q.pc \in {"stage", "writeDoc", "bump"}
        \/ /\ q.op = "pdf" /\ q.arg = "none"
           /\ q.pc \in {"load", "snapshot", "reload", "print"}

Shapes == \A p \in Requests : Shape(req[p])

\* The step of request p touches no other.
OnlyMoves(p) == req' = [req EXCEPT ![p] = req'[p]]

LEMMA LoadedShape ==
  ASSUME NEW q \in Request, q.op = "pdf", q.pc \in {"load", "reload"},
         q.stage = "ELIGIBILITY", q.arg = "none"
  PROVE  /\ Shape(Loaded(q))
         /\ Loaded(q).op = "pdf" /\ Loaded(q).pc \in {"load", "snapshot", "reload", "print"}
<1>1. Loaded(q) \in {q, [q EXCEPT !.pc = "snapshot", !.approved = {}], [q EXCEPT !.pc = "print"]}
  BY DEF Loaded
<1> QED
  BY <1>1 DEF Shape, Request

LEMMA ArriveShape ==
  ASSUME TypeOK, Shapes, NEW p \in Requests, Arrive(p)
  PROVE  /\ Shape(req'[p]) /\ OnlyMoves(p) /\ ~Busy(p)
         /\ UNCHANGED <<row, decided, pages>>
         /\ req'[p].stage \in {row.stage, "ELIGIBILITY"}
         /\ req'[p].op \in {"form", "conditions"} => req'[p].stage = row.stage
<1> USE DEF Busy, OnlyMoves
<1>1. ASSUME NEW op, NEW arg, NEW pc, NEW d, NEW w, Begin(p, op, arg, pc, d, w)
      PROVE  /\ OnlyMoves(p) /\ ~Busy(p) /\ UNCHANGED <<row, decided, pages>>
             /\ req'[p].op = op /\ req'[p].arg = arg /\ req'[p].pc = pc /\ req'[p].newDoc = d
             /\ req'[p].stage = IF op \in {"form", "conditions"} THEN row.stage ELSE "ELIGIBILITY"
  BY <1>1 DEF Begin, TypeOK, Idle
<1>2. ASSUME NEW s \in Sections, NEW v \in Answers[s], SubmitForm(p, s, v)
      PROVE  \E d, w : Begin(p, "form", s, "writeDoc", d, w)
  BY <1>2 DEF SubmitForm
<1>3. ASSUME NEW v, SubmitConditions(p, v)
      PROVE  \E d, w : Begin(p, "conditions", "licenceConditions", "flag", d, w)
  BY <1>3 DEF SubmitConditions
<1>4. ASSUME NEW v, DeleteCondition(p, v)
      PROVE  \E d, w : Begin(p, "deleteCondition", "licenceConditions", "writeSection", d, w)
  BY <1>4 DEF DeleteCondition
<1>5. ASSUME NEW v, MoveAddress(p, v)
      PROVE  \E d, w : Begin(p, "moveAddress", "address", "writeDoc", d, w)
  BY <1>5 DEF MoveAddress
<1>6. ASSUME NEW page \in HandoverPages, SendHandover(p, page)
      PROVE  /\ page.to \in Transitions
             /\ \E d, w : Begin(p, "handover", page.to, "stage", d, w)
  BY <1>6, PageType DEF SendHandover
<1>7. CASE StartPdf(p)
  <2> DEFINE r == [Idle EXCEPT !.op = "pdf", !.pc = "load", !.loads = {"row", "approved"}]
  <2>1. r.op = "pdf" /\ r.arg = "none" /\ r.pc = "load" /\ r.stage = "ELIGIBILITY"
    BY DEF Idle
  <2>2. /\ req' = [req EXCEPT ![p] = r] /\ req[p].pc = "idle"
        /\ UNCHANGED <<row, decided, pages>>
    BY <1>7 DEF StartPdf
  <2> HIDE DEF r
  <2> QED
    BY <2>1, <2>2 DEF TypeOK, Shape
<1>8. CASE ~StartPdf(p)
  <2>1. \E op, arg, pc, d, w :
          /\ Begin(p, op, arg, pc, d, w)
          /\ \/ op = "form" /\ arg \in Sections /\ pc = "writeDoc"
             \/ op = "conditions" /\ arg = "licenceConditions" /\ pc = "flag"
             \/ op = "deleteCondition" /\ arg = "licenceConditions" /\ pc = "writeSection"
             \/ op = "moveAddress" /\ arg = "address" /\ pc = "writeDoc"
             \/ op = "handover" /\ arg \in Transitions /\ pc = "stage"
    BY <1>2, <1>3, <1>4, <1>5, <1>6, <1>8 DEF Arrive
  <2> QED
    BY <1>1, <2>1 DEF Shape
<1> QED
  BY <1>7, <1>8

\* updateVersion leaves the document and the stage alone.
LEMMA BumpLeaves ==
  ASSUME TypeOK, NEW p \in Requests, Bump(p)
  PROVE  row'.doc = row.doc /\ row'.stage = row.stage
<1>1. row \in Row /\ versions \in SUBSET Snapshot /\ req[p] \in Request
  BY DEF TypeOK
<1>2. PostReleaseArgument(p) \in BOOLEAN
  BY <1>1 DEF PostReleaseArgument, Request
<1> QED
  BY <1>1, <1>2, UpdateVersionMoves DEF Bump

\* A request goes on as what it is, or ends.
LEMMA StepShape ==
  ASSUME TypeOK, Shapes, NEW p \in Requests, Proceed(p) \/ Fail(p)
  PROVE  /\ Busy(p) /\ OnlyMoves(p) /\ Shape(req'[p])
         /\ \/ req'[p] = Idle
            \/ /\ req'[p].op = req[p].op /\ req'[p].arg = req[p].arg
               /\ req'[p].stage = req[p].stage
               /\ req'[p].pc \notin {"idle", "stage"}
<1> DEFINE q == req[p]
           n == req'[p]
           GoesOn == /\ n.op = q.op /\ n.arg = q.arg /\ n.stage = q.stage
                     /\ n.pc \notin {"idle", "stage"}
<1>1. q \in Request /\ req \in [Requests -> Request] /\ Shape(q) /\ q.pc \in PCs
  BY DEF TypeOK, Shapes, Request
<1>2. ASSUME NEW pc, pc \notin {"idle", "stage"}, n = [q EXCEPT !.pc = pc] PROVE GoesOn /\ n.pc = pc
  BY <1>1, <1>2 DEF Request
<1>3. ASSUME NEW pc \in PCs \ {"stage"}, Goto(p, pc)
      PROVE  OnlyMoves(p) /\ (pc = "idle" => n = Idle) /\ (pc # "idle" => GoesOn /\ n.pc = pc)
  <2>1. n = IF pc = "idle" THEN Idle ELSE [q EXCEPT !.pc = pc]
    BY <1>1, <1>3 DEF Goto
  <2>2. OnlyMoves(p)
    BY <1>1, <1>3, <2>1 DEF Goto, OnlyMoves
  <2> QED
    BY <1>2, <1>3, <2>1, <2>2
<1>4. CASE WriteDoc(p) \/ WriteSection(p)
  <2>1. q.pc \in {"writeDoc", "writeSection"} /\ OnlyMoves(p)
    BY <1>1, <1>4 DEF WriteDoc, WriteSection, OnlyMoves
  <2>2. GoesOn /\ n.pc = "bump"
    BY <1>1, <1>4 DEF WriteDoc, WriteSection, Request
  <2>3. Shape(n)
    BY <1>1, <2>1, <2>2, IdleType DEF Shape
  <2> QED
    BY <2>1, <2>2, <2>3 DEF Busy
<1>5. CASE Bump(p) \/ FlagModification(p)
  <2>1. PICK pc \in {"idle", "flag", "writeSection"} :
          /\ Goto(p, pc) /\ q.pc \in {"bump", "flag"}
          /\ pc = "flag" => q.op = "form"
          /\ pc = "writeSection" => q.op # "form" /\ q.pc = "flag"
    BY <1>5 DEF Bump, FlagModification
  <2>2. Shape(n)
    <3>1. CASE pc = "idle"
      BY <1>3, <2>1, <3>1 DEF PCs, Shape
    <3>2. CASE pc # "idle"
      <4>1. GoesOn /\ n.pc = pc
        BY <1>3, <2>1, <3>2 DEF PCs
      <4>2. pc = "flag" \/ pc = "writeSection"
        BY <3>2
      <4>3. pc = "writeSection" => q.op = "conditions" /\ q.arg = "licenceConditions"
        BY <1>1, <2>1, IdleType DEF Shape
      <4>4. pc = "flag" => q.arg \in Sections
        BY <1>1, <2>1, IdleType DEF Shape
      <4> HIDE DEF n
      <4> QED
        BY <2>1, <4>1, <4>2, <4>3, <4>4 DEF Shape
    <3> QED
      BY <3>1, <3>2
  <2> QED
    BY <1>3, <2>1, <2>2 DEF Busy, PCs
<1>6. CASE MarkForHandover(p)
  <2>1. q.pc = "stage" /\ Goto(p, IF q.arg = "dmToCaReturn" THEN "writeDoc" ELSE "idle")
    BY <1>6 DEF MarkForHandover
  <2>2. q.op = "handover" /\ q.arg \in Transitions /\ q.stage = "ELIGIBILITY"
    BY <1>1, <2>1, IdleType DEF Shape
  <2>3. n = Idle \/ (GoesOn /\ n.pc = "writeDoc")
    BY <1>3, <2>1 DEF PCs
  <2>4. Shape(n)
    BY <2>2, <2>3 DEF Shape
  <2> QED
    BY <1>3, <2>1, <2>3, <2>4 DEF Busy, PCs
<1>7. CASE ResponsibleOfficerMissing(p) \/ PrintLicence(p) \/ Fail(p)
  <2>1. q.pc # "idle" /\ Goto(p, "idle")
    BY <1>7 DEF ResponsibleOfficerMissing, PrintLicence, Fail
  <2> QED
    BY <1>3, <2>1 DEF Busy, PCs, Shape
<1>8. CASE ReadRow(p) \/ ReadApproved(p)
  <2>1. /\ q.pc \in {"load", "reload"}
        /\ q.op = "pdf" /\ q.arg = "none" /\ q.stage = "ELIGIBILITY"
    BY <1>1, <1>8, IdleType DEF ReadRow, ReadApproved, Shape
  <2>2. PICK m \in Request : /\ m.op = "pdf" /\ m.pc = q.pc /\ m.stage = q.stage /\ m.arg = q.arg
                             /\ req' = [req EXCEPT ![p] = Loaded(m)]
    <3>1. CASE ReadRow(p)
      <4> DEFINE m == [q EXCEPT !.read = ReadingOf(row), !.loads = q.loads \ {"row"}]
      <4>1. m \in Request /\ m.op = "pdf" /\ m.pc = q.pc /\ m.stage = q.stage /\ m.arg = q.arg
        BY <1>1, <2>1 DEF Request, Reading, ReadingOf, TypeOK, Row
      <4>2. req' = [req EXCEPT ![p] = Loaded(m)]
        BY <3>1 DEF ReadRow
      <4> HIDE DEF m
      <4> QED
        BY <4>1, <4>2
    <3>2. CASE ReadApproved(p)
      <4> DEFINE m == [q EXCEPT !.approved = ApprovedLicenceVersion(versions),
                                !.loads = q.loads \ {"approved"}]
      <4>1. m \in Request /\ m.op = "pdf" /\ m.pc = q.pc /\ m.stage = q.stage /\ m.arg = q.arg
        BY <1>1, <2>1, ApprovedIsSnapshots DEF Request, TypeOK
      <4>2. req' = [req EXCEPT ![p] = Loaded(m)]
        BY <3>2 DEF ReadApproved
      <4> HIDE DEF m
      <4> QED
        BY <4>1, <4>2
    <3> QED
      BY <1>8, <3>1, <3>2
  <2>3. n = Loaded(m) /\ OnlyMoves(p)
    BY <1>1, <2>2 DEF OnlyMoves
  <2>4. Shape(Loaded(m)) /\ Loaded(m).op = "pdf" /\ Loaded(m).pc \notin {"idle", "stage"}
    BY <2>1, <2>2, LoadedShape
  <2>5. Loaded(m).arg = m.arg /\ Loaded(m).stage = m.stage
    BY <2>2 DEF Loaded, Request
  <2> QED
    BY <2>1, <2>2, <2>3, <2>4, <2>5 DEF Busy
<1>9. CASE TakeSnapshot(p)
  <2> DEFINE m == [Idle EXCEPT !.op = "pdf", !.pc = "reload", !.loads = {"row", "approved"}]
  <2>1. m.op = "pdf" /\ m.arg = "none" /\ m.stage = "ELIGIBILITY" /\ m.pc = "reload"
    BY DEF Idle
  <2>2. q.pc = "snapshot" /\ (Goto(p, "idle") \/ req' = [req EXCEPT ![p] = m])
    BY <1>9, Zenon DEF TakeSnapshot
  <2> HIDE DEF m
  <2>3. q.op = "pdf" /\ q.arg = "none" /\ q.stage = "ELIGIBILITY"
    BY <1>1, <2>2, IdleType DEF Shape
  <2>4. CASE Goto(p, "idle")
    BY <1>3, <2>2, <2>4 DEF Busy, PCs, Shape
  <2>5. CASE req' = [req EXCEPT ![p] = m]
    <3>1. n = m /\ OnlyMoves(p)
      BY <1>1, <2>5 DEF OnlyMoves
    <3> QED
      BY <2>1, <2>2, <2>3, <3>1 DEF Busy, Shape
  <2> QED
    BY <2>2, <2>4, <2>5
<1> HIDE DEF q, n
<1> QED
  BY <1>4, <1>5, <1>6, <1>7, <1>8, <1>9 DEF Proceed

LEMMA ShapesAlways == Spec => []Shapes
<1>1. Init => Shapes
  BY DEF Init, Shapes, Shape
<1>2. TypeOK /\ Shapes /\ [Next]_vars => Shapes'
  <2> SUFFICES ASSUME TypeOK, Shapes, [Next]_vars PROVE Shapes'
    OBVIOUS
  <2>1. ASSUME NEW p \in Requests, Shape(req'[p]), OnlyMoves(p) PROVE Shapes'
    BY <2>1 DEF OnlyMoves, Shapes, TypeOK
  <2>2. CASE Release \/ (\E t \in Sends : OpenPage(t)) \/ UNCHANGED vars
    BY <2>2 DEF Release, OpenPage, vars, Shapes
  <2> QED
    BY <2>1, <2>2, ArriveShape, StepShape DEF Next
<1> QED
  BY <1>1, <1>2, TypeCorrect, PTL DEF Spec

-----------------------------------------------------------------------------
(* Printing, when nobody changes the licence meanwhile *)

\* A snapshot takes the numbers of the row it copies.
LEMMA SnapshotTakesPair ==
  ASSUME NEW r, NEW vs, NEW template
  PROVE  PairTaken(r, SaveApprovedLicenceVersion(r, vs, template))
<1> DEFINE n == [doc |-> r.doc, template |-> template, version |-> r.version, vary |-> r.vary]
<1>1. SamePair(r, n)
  BY DEF SamePair
<1> HIDE DEF n
<1>2. SaveApprovedLicenceVersion(r, vs, template) = vs \cup {n}
  BY DEF SaveApprovedLicenceVersion, n
<1> QED
  BY <1>1, <1>2 DEF PairTaken

\* Once a snapshot has the numbers of the row, it is the latest one.
LEMMA ApprovedHasRowPair ==
  ASSUME NEW r \in Row, NEW vs \in SUBSET Snapshot,
         \A s \in vs : s.version <= r.version /\ s.vary <= r.vary,
         PairTaken(r, vs)
  PROVE  /\ \E s \in vs : SamePair(r, s) /\ s \in ApprovedLicenceVersion(vs)
         /\ \A s \in ApprovedLicenceVersion(vs) : s \in vs /\ SamePair(r, s)
<1>1. /\ r.version \in Nat /\ r.vary \in Nat
      /\ \A s \in vs : s.version \in Nat /\ s.vary \in Nat
  BY DEF Row, Snapshot
<1>2. PICK t \in vs : r.version = t.version /\ r.vary = t.vary
  BY DEF PairTaken, SamePair
<1>3. t \in ApprovedLicenceVersion(vs)
  BY <1>1, <1>2 DEF ApprovedLicenceVersion, Later
<1>4. ASSUME NEW s \in ApprovedLicenceVersion(vs) PROVE s \in vs /\ SamePair(r, s)
  <2>1. s \in vs /\ ~Later(t, s)
    BY DEF ApprovedLicenceVersion
  <2> QED
    BY <1>1, <1>2, <2>1 DEF Later, SamePair
<1> QED
  BY <1>2, <1>3, <1>4 DEF SamePair

\* Nothing drifts from the snapshot it shares its numbers with while no
\* request is at updateVersion and none has died there.
LEMMA NoDrift ==
  ASSUME MaxFailures = 0, TypeOK, VersionInv, Untorn,
         \A p \in Requests : req[p].pc # "bump"
  PROVE  \A s \in versions : SamePair(row, s) => s.doc = row.doc
<1>1. ~torn
  BY DEF Untorn, TypeOK
<1> QED
  BY <1>1 DEF VersionInv, SnapshotIntegrity

\* A print finds the row as it read it and its snapshots kept.  Once it takes no
\* more snapshots it has, or will have, read one with the numbers of the row.
PrintReady(q) ==
  /\ q.approved \subseteq versions
  /\ "row" \notin q.loads => q.read = ReadingOf(row)
  /\ q.pc \in {"snapshot", "print"} => q.loads = {}
  /\ q.pc = "reload" => PairTaken(row, versions)
  /\ q.pc \in {"reload", "print"} /\ "approved" \notin q.loads =>
       \E s \in q.approved : SamePair(row, s)

\* The template a snapshot is filed under is the one in its document.
Templates == \A s \in versions : s.template = s.doc["template"]

PrintSafe == Templates /\ \A p \in Requests : Printing(p) => PrintReady(req[p])

LEMMA LoadedReady ==
  ASSUME TypeOK, RowAheadOfSnapshots, NEW q \in Request, q.op = "pdf",
         q.pc \in {"load", "reload"}, q.approved \subseteq versions,
         "row" \notin q.loads => q.read = ReadingOf(row),
         q.pc = "reload" => PairTaken(row, versions),
         q.pc = "reload" /\ "approved" \notin q.loads => \E s \in q.approved : SamePair(row, s)
  PROVE  PrintReady(Loaded(q))
<1> DEFINE new == IsNewVersion(q.read, q.approved) \/ IsNewTemplate(q.read, q.approved)
<1>1. CASE q.loads # {}
  BY <1>1 DEF Loaded, PrintReady
<1>2. CASE q.loads = {} /\ q.pc = "load" /\ new
  <2>1. Loaded(q) = [q EXCEPT !.pc = "snapshot", !.approved = {}]
    BY <1>2 DEF Loaded
  <2> QED
    BY <1>2, <2>1 DEF PrintReady, Request
<1>3. CASE q.loads = {} /\ ~(q.pc = "load" /\ new)
  <2>1. Loaded(q) = [q EXCEPT !.pc = "print"]
    BY <1>3 DEF Loaded
  <2>2. CASE q.pc = "load"
    <3>1. q.read = ReadingOf(row) /\ ~IsNewVersion(q.read, q.approved)
      BY <1>3, <2>2
    <3>2. PICK s \in q.approved : ~(row.version > s.version \/ row.vary > s.vary)
      BY <3>1 DEF IsNewVersion, ReadingOf
    <3>3. s.version \in Nat /\ s.vary \in Nat /\ row.version \in Nat /\ row.vary \in Nat
      BY DEF TypeOK, Snapshot, Row
    <3>4. SamePair(row, s)
      BY <3>2, <3>3 DEF RowAheadOfSnapshots, SamePair
    <3> QED
      BY <1>3, <2>1, <3>1, <3>4 DEF PrintReady, Request
  <2>3. CASE q.pc = "reload"
    BY <1>3, <2>1, <2>3 DEF PrintReady, Request
  <2> QED
    BY <2>2, <2>3
<1> QED
  BY <1>1, <1>2, <1>3

\* The step of a print: the row stays, the snapshots may grow.
LEMMA PrintStep ==
  ASSUME TypeOK, Shapes, RowAheadOfSnapshots, PrintSafe, NEW p \in Requests, Printing(p), Proceed(p)
  PROVE  /\ row' = row /\ versions \subseteq versions' /\ Templates'
         /\ Printing(p)' => PrintReady(req[p])'
<1> DEFINE q == req[p]
           n == req'[p]
<1>1. /\ row \in Row /\ versions \in SUBSET Snapshot /\ q \in Request /\ Shape(q)
      /\ PrintReady(q) /\ Templates
      /\ \A s \in versions : s.version <= row.version /\ s.vary <= row.vary
  BY DEF TypeOK, Shapes, PrintSafe, RowAheadOfSnapshots
<1>2. q.op = "pdf" /\ q.pc \in {"load", "snapshot", "reload", "print"}
  BY <1>1, IdleType DEF Printing, Busy, Shape
<1>3. CASE ReadRow(p)
  <2> DEFINE m == [q EXCEPT !.read = ReadingOf(row), !.loads = q.loads \ {"row"}]
  <2>1. /\ m \in Request /\ m.op = q.op /\ m.pc = q.pc /\ m.approved = q.approved
        /\ m.read = ReadingOf(row) /\ ("approved" \notin m.loads => "approved" \notin q.loads)
    BY <1>1 DEF Request, Reading, ReadingOf, Row
  <2>2. n = Loaded(m) /\ UNCHANGED <<row, versions>> /\ q.pc \in {"load", "reload"}
    BY <1>3 DEF ReadRow, TypeOK
  <2> HIDE DEF m
  <2>3. PrintReady(Loaded(m))
    BY <1>1, <1>2, <2>1, <2>2, LoadedReady DEF PrintReady
  <2> QED
    BY <1>1, <2>2, <2>3 DEF PrintReady, PairTaken, Templates
<1>4. CASE ReadApproved(p)
  <2> DEFINE a == ApprovedLicenceVersion(versions)
             m == [q EXCEPT !.approved = a, !.loads = q.loads \ {"approved"}]
  <2>1. a \in SUBSET Snapshot /\ a \subseteq versions
    BY <1>1, ApprovedIsSnapshots DEF ApprovedLicenceVersion
  <2>2. PairTaken(row, versions) => \E s \in a : SamePair(row, s)
    BY <1>1, ApprovedHasRowPair
  <2> HIDE DEF a
  <2>3. /\ m \in Request /\ m.op = q.op /\ m.pc = q.pc /\ m.approved = a /\ m.read = q.read
        /\ ("row" \notin m.loads => "row" \notin q.loads)
    BY <1>1, <2>1 DEF Request
  <2>4. n = Loaded(m) /\ UNCHANGED <<row, versions>> /\ q.pc \in {"load", "reload"}
    BY <1>4 DEF ReadApproved, TypeOK, a
  <2> HIDE DEF m
  <2>5. PrintReady(Loaded(m))
    BY <1>1, <1>2, <2>1, <2>2, <2>3, <2>4, LoadedReady DEF PrintReady
  <2> QED
    BY <1>1, <2>4, <2>5 DEF PrintReady, PairTaken, Templates
<1>5. CASE TakeSnapshot(p) /\ PairTaken(row, versions)
  <2>1. n = Idle /\ UNCHANGED <<row, versions>>
    BY <1>5 DEF TakeSnapshot, Goto, TypeOK
  <2> QED
    BY <1>1, <2>1, IdleType DEF Printing, Busy, Templates
<1>6. CASE TakeSnapshot(p) /\ ~PairTaken(row, versions)
  <2> DEFINE t == [doc |-> row.doc, template |-> q.read.doc["template"],
                   version |-> row.version, vary |-> row.vary]
             m == [Idle EXCEPT !.op = "pdf", !.pc = "reload", !.loads = {"row", "approved"}]
  <2>1. /\ versions' = SaveApprovedLicenceVersion(row, versions, q.read.doc["template"])
        /\ row' = row /\ req' = [req EXCEPT ![p] = m] /\ q.pc = "snapshot"
    BY <1>6 DEF TakeSnapshot
  <2>2. PairTaken(row, versions')
    BY <2>1, SnapshotTakesPair
  <2>3. versions' = versions \cup {t}
    BY <2>1 DEF SaveApprovedLicenceVersion
  <2>4. q.read.doc = row.doc
    BY <1>1, <2>1 DEF PrintReady, ReadingOf
  <2>5. t.template = t.doc["template"]
    BY <2>4
  <2>6. m.pc = "reload" /\ m.approved = {} /\ m.loads = {"row", "approved"}
    BY DEF Idle
  <2> HIDE DEF t, m
  <2>7. Templates'
    BY <1>1, <2>3, <2>5 DEF Templates
  <2>8. n = m
    BY <2>1 DEF TypeOK
  <2>9. PrintReady(req[p])'
    BY <2>1, <2>2, <2>6, <2>8 DEF PrintReady, PairTaken
  <2> QED
    BY <2>1, <2>3, <2>7, <2>9
<1>7. CASE PrintLicence(p)
  <2>1. n = Idle /\ UNCHANGED <<row, versions>>
    BY <1>7 DEF PrintLicence, Goto, TypeOK
  <2> QED
    BY <1>1, <2>1, IdleType DEF Printing, Busy, Templates
<1> QED
  BY <1>1, <1>2, <1>3, <1>4, <1>5, <1>6, <1>7, IdleType
     DEF Proceed, WriteDoc, WriteSection, Bump, FlagModification, MarkForHandover,
         ResponsibleOfficerMissing, Shape

LEMMA PrintSafeAlways == SpecPrintsApart => [](PrintSafe /\ PrintsApart)
<1>1. Init => PrintSafe /\ PrintsApart
  BY IdleType DEF Init, PrintSafe, PrintsApart, Printing, Busy, Templates
<1>2. TypeOK /\ Shapes /\ VersionInv /\ PrintSafe /\ PrintsApart /\ [Next /\ PrintsApart']_vars
        => (PrintSafe /\ PrintsApart)'
  <2> SUFFICES ASSUME TypeOK, Shapes, VersionInv, PrintSafe, PrintsApart,
                      [Next /\ PrintsApart']_vars
               PROVE  (PrintSafe /\ PrintsApart)'
    OBVIOUS
  <2>1. ASSUME NEW p \in Requests, OnlyMoves(p), row' = row, versions \subseteq versions',
               Templates', Printing(p)' => PrintReady(req[p])'
        PROVE  PrintSafe'
    <3>1. ASSUME NEW o \in Requests \ {p}, Printing(o)' PROVE PrintReady(req[o])'
      <4>1. req'[o] = req[o] /\ Printing(o)
        BY <2>1, <3>1 DEF OnlyMoves, TypeOK, Printing, Busy
      <4> QED
        BY <2>1, <4>1 DEF PrintSafe, PrintReady, PairTaken
    <3> QED
      BY <2>1, <3>1 DEF PrintSafe
  <2>2. ASSUME NEW p \in Requests, Arrive(p) PROVE PrintSafe'
    <3>1. OnlyMoves(p) /\ row' = row /\ Shape(req'[p])
      BY <2>2, ArriveShape
    <3>2. versions' = versions
      BY <2>2 DEF Arrive, SubmitForm, SubmitConditions, DeleteCondition, MoveAddress,
                  SendHandover, StartPdf, Begin
    <3>3. PrintReady(req[p])' \/ ~Printing(p)'
      <4>1. CASE StartPdf(p)
        <5> DEFINE r == [Idle EXCEPT !.op = "pdf", !.pc = "load", !.loads = {"row", "approved"}]
        <5>1. r.pc = "load" /\ r.approved = {} /\ r.loads = {"row", "approved"}
          BY DEF Idle
        <5>2. req'[p] = r
          BY <4>1 DEF StartPdf, TypeOK
        <5> HIDE DEF r
        <5> QED
          BY <5>1, <5>2 DEF PrintReady
      <4>2. ASSUME NEW op, NEW arg, NEW pc, NEW d, NEW w, Begin(p, op, arg, pc, d, w), op # "pdf"
            PROVE  ~Printing(p)'
        BY <4>2 DEF Begin, TypeOK, Idle, Printing
      <4>3. ASSUME NEW s \in Sections, NEW v \in Answers[s], SubmitForm(p, s, v)
            PROVE  ~Printing(p)'
        BY <4>2, <4>3 DEF SubmitForm
      <4>4. ASSUME NEW v, SubmitConditions(p, v) \/ DeleteCondition(p, v) \/ MoveAddress(p, v)
            PROVE  ~Printing(p)'
        BY <4>2, <4>4 DEF SubmitConditions, DeleteCondition, MoveAddress
      <4>5. ASSUME NEW page, SendHandover(p, page) PROVE ~Printing(p)'
        BY <4>2, <4>5 DEF SendHandover
      <4> QED
        BY <2>2, <4>1, <4>3, <4>4, <4>5 DEF Arrive
    <3>4. Templates'
      BY <3>2 DEF PrintSafe, Templates
    <3> QED
      BY <2>1, <3>1, <3>2, <3>3, <3>4
  <2>3. ASSUME NEW p \in Requests, Proceed(p) PROVE PrintSafe'
    <3>1. Busy(p) /\ OnlyMoves(p) /\ (req'[p] = Idle \/ req'[p].op = req[p].op)
      BY <2>3, StepShape
    <3>2. CASE Printing(p)
      BY <2>1, <2>3, <3>1, <3>2, PrintStep DEF VersionInv
    <3>3. CASE ~Printing(p)
      <4>1. \A o \in Requests : ~Printing(o)'
        <5>1. ~Printing(p)'
          BY <3>1, <3>3, IdleType DEF Printing, Busy
        <5>2. ASSUME NEW o \in Requests \ {p} PROVE ~Printing(o)'
          BY <3>1, <3>3, <5>2 DEF PrintsApart, Printing, Busy, OnlyMoves, TypeOK
        <5> QED
          BY <5>1, <5>2
      <4>2. Templates'
        <5>1. ~TakeSnapshot(p)
          BY <3>1, <3>3, IdleType DEF TakeSnapshot, Printing, Shapes, Shape
        <5>2. versions' = versions
          BY <2>3, <5>1 DEF Proceed, WriteDoc, WriteSection, Bump, FlagModification,
                  MarkForHandover, ResponsibleOfficerMissing, ReadRow, ReadApproved, PrintLicence
        <5> QED
          BY <5>2 DEF PrintSafe, Templates
      <4> QED
        BY <4>1, <4>2 DEF PrintSafe
    <3> QED
      BY <3>2, <3>3
  <2>4. ASSUME NEW p \in Requests, Fail(p) PROVE PrintSafe'
    <3>1. OnlyMoves(p)
      BY <2>4, StepShape
    <3>2. row' = row /\ versions' = versions /\ req'[p] = Idle
      BY <2>4 DEF Fail, Goto, TypeOK
    <3>3. Templates' /\ ~Printing(p)'
      BY <3>2, IdleType DEF PrintSafe, Templates, Printing, Busy
    <3> QED
      BY <2>1, <3>1, <3>2, <3>3
  <2>5. ASSUME Release \/ (\E t \in Sends : OpenPage(t)) \/ UNCHANGED vars
        PROVE  (PrintSafe /\ PrintsApart)'
    <3>1. UNCHANGED <<row, req, versions>>
      BY <2>5 DEF Release, OpenPage, vars
    <3> QED
      BY <3>1 DEF PrintSafe, Templates, PrintsApart, Printing, Busy, PrintReady, PairTaken
  <2> QED
    BY <2>2, <2>3, <2>4, <2>5 DEF Next
<1>3. SpecPrintsApart => Spec
  <2>1. [Next /\ PrintsApart']_vars => [Next]_vars
    OBVIOUS
  <2> QED
    BY <2>1, PTL DEF SpecPrintsApart, Spec
<1> QED
  BY <1>1, <1>2, <1>3, TypeCorrect, ShapesAlways, VersionInvAlways, PTL DEF SpecPrintsApart

\* However many prints overlap, and however many changes before and after them,
\* the document printed is the one recorded under the numbers printed on it, as
\* long as nobody changes the licence during a print and none dies:
\* checkAndTakeSnapshot needs no lock against other prints.
THEOREM OverlapPrintsRecorded ==
  ASSUME MaxFailures = 0
  PROVE  SpecPrintsApart => []PrintedMatchesSnapshot
<1>1. ASSUME TypeOK, Shapes, VersionInv, Untorn, PrintSafe, PrintsApart,
             NEW p \in Requests, req[p].pc = "print"
      PROVE  \E s \in req[p].approved : req[p].read.doc = s.doc
  <2>1. Printing(p)
    BY <1>1, IdleType DEF Shapes, Shape, Printing, Busy
  <2>2. \A o \in Requests : req[o].pc # "bump"
    <3> SUFFICES ASSUME NEW o \in Requests, req[o].pc = "bump" PROVE FALSE
      OBVIOUS
    <3>1. req[o].op = "pdf"
      BY <1>1, <2>1 DEF PrintsApart, Printing, Busy
    <3> QED
      BY <1>1, <3>1, IdleType DEF Shapes, Shape
  <2>3. PrintReady(req[p])
    BY <1>1, <2>1 DEF PrintSafe
  <2>4. PICK s \in req[p].approved : s \in versions /\ SamePair(row, s)
    BY <1>1, <2>3 DEF PrintReady
  <2>5. req[p].read.doc = row.doc
    BY <1>1, <2>3 DEF PrintReady, ReadingOf
  <2>6. s.doc = row.doc
    BY <1>1, <2>2, <2>4, NoDrift
  <2> QED
    BY <2>4, <2>5, <2>6
<1>2. TypeOK /\ Shapes /\ VersionInv /\ Untorn /\ PrintSafe /\ PrintsApart => PrintedMatchesSnapshot
  BY <1>1 DEF PrintedMatchesSnapshot
<1>3. SpecPrintsApart => Spec
  <2>1. [Next /\ PrintsApart']_vars => [Next]_vars
    OBVIOUS
  <2> QED
    BY <2>1, PTL DEF SpecPrintsApart, Spec
<1> QED
  BY <1>2, <1>3, TypeCorrect, ShapesAlways, VersionInvAlways, UntornAlways, PrintSafeAlways, PTL

\* With nobody at work on it, a licence that is due a snapshot can have one: its
\* numbers are free, or its snapshot has its document and template already.  So
\* no overlap of prints blocks the prints that come later.
THEOREM OverlapNeverBlocks ==
  ASSUME MaxFailures = 0
  PROVE  SpecPrintsApart => []SnapshotPossible
<1>1. ASSUME TypeOK, VersionInv, Untorn, Templates, Quiet, PairTaken(row, versions)
      PROVE  LET approved == ApprovedLicenceVersion(versions)
             IN  ~IsNewVersion(row, approved) /\ ~IsNewTemplate(row, approved)
  <2> DEFINE approved == ApprovedLicenceVersion(versions)
  <2>1. /\ \E s \in approved : SamePair(row, s)
        /\ \A s \in approved : s \in versions /\ SamePair(row, s)
    BY <1>1, ApprovedHasRowPair DEF TypeOK, VersionInv, RowAheadOfSnapshots
  <2>2. \A s \in approved : s.doc = row.doc /\ s.template = row.doc["template"]
    BY <1>1, <2>1, NoDrift DEF Quiet, Templates
  <2>3. row.version \in Nat /\ row.vary \in Nat
    BY <1>1 DEF TypeOK, Row
  <2> HIDE DEF approved
  <2>4. ~IsNewVersion(row, approved)
    BY <2>1, <2>3 DEF IsNewVersion, SamePair
  <2>5. ~IsNewTemplate(row, approved)
    BY <2>2 DEF IsNewTemplate
  <2> QED
    BY <2>4, <2>5 DEF approved
<1>2. TypeOK /\ VersionInv /\ Untorn /\ Templates => SnapshotPossible
  BY <1>1 DEF SnapshotPossible
<1>3. PrintSafe => Templates
  BY DEF PrintSafe
<1>4. SpecPrintsApart => Spec
  <2>1. [Next /\ PrintsApart']_vars => [Next]_vars
    OBVIOUS
  <2> QED
    BY <2>1, PTL DEF SpecPrintsApart, Spec
<1> QED
  BY <1>2, <1>3, <1>4, TypeCorrect, VersionInvAlways, UntornAlways, PrintSafeAlways, PTL

-----------------------------------------------------------------------------
(* The decision, when handovers run alone *)

\* A handover that is running finds the licence where it was offered; a return
\* has left it with the case administrator when it writes its document.
HandoverReady(q) ==
  IF q.pc = "stage"
  THEN /\ row.stage \in OfferedAt[q.arg]
       /\ q.arg = "dmToCa" => row.doc["approval"] # Blank
  ELSE row.stage = "PROCESSING_CA"

\* Any other request has not read the licence past approval unless it is still
\* there, and has the decision in the document it will write.
KeepsDecision(q) ==
  /\ q.stage \in PostApproval => row.stage \in PostApproval
  /\ q.pc = "writeDoc" /\ row.stage \in PostApproval => q.newDoc["approval"] # Blank

HasDecision == row.stage \in PostApproval => row.doc["approval"] # Blank

DecisionSafe ==
  /\ pages = {}
  /\ HasDecision
  /\ \A p \in Requests :
       IF HandingOver(p) THEN HandoverReady(req[p]) ELSE KeepsDecision(req[p])

\* A step that leaves the licence on its side of the approval, of a request
\* that is no handover, so that none is running.
LEMMA OthersKeepDecision ==
  ASSUME TypeOK, Shapes, DecisionSafe, HandoversApart, NEW p \in Requests, Busy(p), ~HandingOver(p),
         OnlyMoves(p), pages' = pages, HasDecision',
         row'.stage \in PostApproval <=> row.stage \in PostApproval,
         \/ req'[p] = Idle
         \/ req'[p].op = req[p].op /\ req'[p].stage = req[p].stage /\ req'[p].pc # "writeDoc"
  PROVE  DecisionSafe'
<1>1. req \in [Requests -> Request]
  BY DEF TypeOK
<1>2. ASSUME NEW o \in Requests \ {p} PROVE req'[o] = req[o] /\ ~HandingOver(o) /\ ~HandingOver(o)'
  BY <1>1, <1>2 DEF OnlyMoves, HandoversApart, HandingOver, Apart, Busy
<1>3. ASSUME NEW o \in Requests \ {p} PROVE KeepsDecision(req[o])'
  BY <1>2, <1>3 DEF DecisionSafe, KeepsDecision
<1>4. ~HandingOver(p)' /\ KeepsDecision(req[p])'
  <2>1. CASE req'[p] = Idle
    BY <2>1, IdleType DEF HandingOver, Busy, KeepsDecision, Idle, PostApproval
  <2>2. CASE req'[p].op = req[p].op /\ req'[p].stage = req[p].stage /\ req'[p].pc # "writeDoc"
    BY <2>2 DEF HandingOver, Busy, DecisionSafe, KeepsDecision
  <2> QED
    BY <2>1, <2>2
<1> QED
  BY <1>2, <1>3, <1>4 DEF DecisionSafe

\* While a handover runs every other request is idle.
LEMMA HandoverKeepsDecision ==
  ASSUME TypeOK, Shapes, DecisionSafe, HandoversApart, NEW p \in Requests, HandingOver(p),
         OnlyMoves(p), pages' = pages, HasDecision',
         \/ req'[p] = Idle
         \/ /\ req'[p].op = "handover" /\ req'[p].pc \notin {"idle", "stage"}
            /\ row'.stage = "PROCESSING_CA"
  PROVE  DecisionSafe'
<1>1. ASSUME NEW o \in Requests, req'[o] = Idle
      PROVE  ~HandingOver(o)' /\ KeepsDecision(req[o])'
  BY <1>1, IdleType DEF HandingOver, Busy, KeepsDecision, Idle, PostApproval
<1>2. ASSUME NEW o \in Requests \ {p} PROVE req'[o] = Idle
  <2>1. req'[o] = req[o] /\ req[o].pc = "idle"
    BY <1>2 DEF OnlyMoves, HandoversApart, HandingOver, Apart, Busy, TypeOK
  <2> QED
    BY <2>1 DEF Shapes, Shape
<1>3. CASE req'[p] # Idle
  <2>1. HandingOver(p)' /\ HandoverReady(req[p])'
    BY <1>3 DEF HandingOver, Busy, HandoverReady
  <2> QED
    BY <1>1, <1>2, <2>1 DEF DecisionSafe
<1> QED
  BY <1>1, <1>2, <1>3 DEF DecisionSafe

LEMMA ProceedDecisionSafe ==
  ASSUME TypeOK, Shapes, DecisionSafe, HandoversApart, NEW p \in Requests, Proceed(p) \/ Fail(p)
  PROVE  DecisionSafe'
<1> DEFINE q == req[p]
           n == req'[p]
<1>1. /\ row \in Row /\ row.doc \in Doc /\ q \in Request /\ Shape(q) /\ "approval" \in Sections
      /\ HasDecision
  BY DEF TypeOK, Row, Shapes, Sections, DecisionSafe
<1>2. /\ Busy(p) /\ OnlyMoves(p)
      /\ \/ n = Idle
         \/ /\ n.op = q.op /\ n.arg = q.arg /\ n.stage = q.stage
            /\ n.pc \notin {"idle", "stage"}
  BY StepShape
<1>3. pages' = pages
  BY DEF Proceed, WriteDoc, WriteSection, Bump, FlagModification, MarkForHandover,
         ResponsibleOfficerMissing, ReadRow, ReadApproved, TakeSnapshot, PrintLicence, Fail
<1>4. CASE HandingOver(p)
  <2>1. q.op = "handover" /\ q.pc \in {"stage", "writeDoc", "bump"} /\ q.arg \in Transitions
    BY <1>1, <1>4, IdleType DEF HandingOver, Shape, Busy
  <2>2. HandoverReady(q)
    BY <1>4 DEF DecisionSafe
  <2>3. CASE MarkForHandover(p)
    <3>1. /\ row'.doc = row.doc /\ row'.stage = StageAfter[q.arg] /\ q.pc = "stage"
          /\ n = Idle \/ q.arg = "dmToCaReturn"
      BY <1>1, <2>3 DEF MarkForHandover, Row, TypeOK, Goto
    <3>2. StageAfter[q.arg] \in PostApproval => q.arg = "dmToCa"
      BY <2>1 DEF StageAfter, Transitions, PostApproval
    <3>3. HasDecision'
      BY <2>2, <3>1, <3>2 DEF HandoverReady, HasDecision
    <3>4. q.arg = "dmToCaReturn" => row'.stage = "PROCESSING_CA"
      BY <3>1 DEF StageAfter, Transitions
    <3> QED
      BY <1>2, <1>3, <1>4, <2>1, <3>1, <3>3, <3>4, HandoverKeepsDecision
  <2>4. CASE q.pc # "stage"
    <3>1. row.stage = "PROCESSING_CA"
      BY <2>2, <2>4 DEF HandoverReady
    <3>2. row'.stage = row.stage
      <4>1. CASE WriteDoc(p)
        BY <1>1, <4>1 DEF WriteDoc, Row
      <4>2. CASE Bump(p)
        BY <4>2, BumpLeaves
      <4>3. CASE Fail(p)
        BY <4>3 DEF Fail
      <4> QED
        BY <2>1, <2>4, <4>1, <4>2, <4>3
           DEF Proceed, WriteSection, FlagModification, MarkForHandover,
               ResponsibleOfficerMissing, ReadRow, ReadApproved, TakeSnapshot, PrintLicence
    <3>3. HasDecision'
      BY <3>1, <3>2 DEF HasDecision, PostApproval
    <3> QED
      BY <1>2, <1>3, <1>4, <2>1, <3>1, <3>2, <3>3, HandoverKeepsDecision
  <2>5. CASE ResponsibleOfficerMissing(p) \/ Fail(p)
    <3>1. row' = row /\ n = Idle
      BY <1>1, <2>5 DEF ResponsibleOfficerMissing, Fail, Goto, TypeOK
    <3>2. HasDecision'
      BY <1>1, <3>1 DEF HasDecision
    <3> QED
      BY <1>2, <1>3, <1>4, <3>1, <3>2, HandoverKeepsDecision
  <2> QED
    BY <2>3, <2>4, <2>5
       DEF Proceed, WriteDoc, WriteSection, Bump, FlagModification, ReadRow, ReadApproved,
           TakeSnapshot, PrintLicence
<1>5. CASE ~HandingOver(p)
  <2>1. q.pc # "stage" /\ KeepsDecision(q) /\ q.op # "handover"
    BY <1>1, <1>2, <1>5, IdleType DEF Shape, HandingOver, DecisionSafe, Busy
  <2>2. ~MarkForHandover(p) /\ ~ResponsibleOfficerMissing(p)
    BY <2>1 DEF MarkForHandover, ResponsibleOfficerMissing
  <2>3. n.pc # "writeDoc"
    <3>1. CASE Bump(p) \/ FlagModification(p) \/ PrintLicence(p) \/ Fail(p)
      BY <3>1, <1>1, IdleType DEF Bump, FlagModification, PrintLicence, Fail, Goto, Request, TypeOK
    <3>2. CASE WriteDoc(p) \/ WriteSection(p)
      BY <1>1, <3>2 DEF WriteDoc, WriteSection, Request, TypeOK
    <3>3. CASE ReadRow(p) \/ ReadApproved(p) \/ TakeSnapshot(p)
      <4>1. q.op = "pdf"
        BY <1>1, <3>3, IdleType DEF ReadRow, ReadApproved, TakeSnapshot, Shape
      <4>2. n = Idle \/ (n.op = "pdf" /\ Shape(n))
        BY <1>2, <4>1, StepShape
      <4> QED
        BY <4>2, IdleType DEF Shape
    <3> QED
      BY <2>2, <3>1, <3>2, <3>3 DEF Proceed
  <2>4. /\ row'.stage \in PostApproval <=> row.stage \in PostApproval
        /\ HasDecision'
    <3>1. CASE WriteDoc(p)
      BY <1>1, <2>1, <3>1 DEF WriteDoc, Row, KeepsDecision, HasDecision
    <3>2. CASE WriteSection(p)
      <4>1. row'.stage = row.stage /\ row'.doc["approval"] = row.doc["approval"]
        BY <1>1, <3>2 DEF WriteSection, Row, Doc
      <4> QED
        BY <1>1, <4>1 DEF HasDecision
    <3>3. CASE Bump(p)
      <4>1. row'.stage = row.stage /\ row'.doc = row.doc
        BY <3>3, BumpLeaves
      <4> QED
        BY <1>1, <4>1 DEF HasDecision
    <3>4. CASE FlagModification(p)
      <4> DEFINE to == ModificationStage(q.stage, RequiresApproval(q.arg), NoModify(q.arg))
      <4>1. row' = IF to = {} THEN row ELSE [row EXCEPT !.stage = CHOOSE s \in to : TRUE]
        BY <3>4 DEF FlagModification
      <4>2. /\ to \in {{}, {"MODIFIED"}, {"MODIFIED_APPROVAL"}}
            /\ to # {} => q.stage \in {"DECIDED", "MODIFIED"}
        BY DEF ModificationStage
      <4> HIDE DEF to
      <4>3. row'.doc = row.doc
        BY <1>1, <4>1 DEF Row
      <4>4. row' = row \/ (row'.stage \in PostApproval /\ row.stage \in PostApproval)
        <5>1. to # {} => (CHOOSE s \in to : TRUE) \in {"MODIFIED", "MODIFIED_APPROVAL"}
          BY <4>2
        <5> QED
          BY <1>1, <2>1, <4>1, <4>2, <5>1 DEF KeepsDecision, PostApproval, Row
      <4> QED
        BY <1>1, <4>3, <4>4 DEF HasDecision
    <3>5. CASE row' = row
      BY <1>1, <3>5 DEF HasDecision
    <3> QED
      BY <2>2, <3>1, <3>2, <3>3, <3>4, <3>5
         DEF Proceed, ResponsibleOfficerMissing, ReadRow, ReadApproved, TakeSnapshot,
             PrintLicence, Fail
  <2> QED
    BY <1>2, <1>3, <1>5, <2>3, <2>4, OthersKeepDecision
<1> QED
  BY <1>4, <1>5

LEMMA ArriveDecisionSafe ==
  ASSUME TypeOK, Shapes, DecisionSafe, NEW p \in Requests, Arrive(p)
  PROVE  DecisionSafe'
<1> DEFINE n == req'[p]
<1>1. /\ OnlyMoves(p) /\ ~Busy(p) /\ UNCHANGED <<row, pages>>
      /\ n.stage \in {row.stage, "ELIGIBILITY"}
  BY ArriveShape
<1>2. row.doc \in Doc /\ "approval" \in Sections /\ HasDecision
  BY DEF TypeOK, Row, Sections, DecisionSafe
<1>3. ASSUME NEW op, NEW arg, NEW pc, NEW d, NEW w, Begin(p, op, arg, pc, d, w)
      PROVE  n.op = op /\ n.arg = arg /\ n.pc = pc /\ n.newDoc = d
  BY <1>3 DEF Begin, TypeOK, Idle
<1>4. IF HandingOver(p)' THEN HandoverReady(req[p])' ELSE KeepsDecision(req[p])'
  <2>1. CASE \E page \in HandoverPages : SendHandover(p, page)
    <3>1. PICK page \in HandoverPages : SendHandover(p, page)
      BY <2>1
    <3> DEFINE t == page.to
    <3>2. HandoverOffered(t)
      BY <3>1 DEF SendHandover, DecisionSafe
    <3>3. n.op = "handover" /\ n.arg = t /\ n.pc = "stage"
      BY <1>3, <3>1 DEF SendHandover
    <3> HIDE DEF n, t
    <3>4. HandingOver(p)'
      BY <3>3 DEF HandingOver, Busy, n
    <3> QED
      BY <1>1, <3>2, <3>3, <3>4 DEF HandoverReady, HandoverOffered, n
  <2>2. CASE ~\E page \in HandoverPages : SendHandover(p, page)
    <3> DEFINE Fits == /\ n.op # "handover"
                       /\ n.pc = "writeDoc" /\ row.stage \in PostApproval =>
                            n.newDoc["approval"] # Blank
    <3>1. Fits
      <4>1. ASSUME NEW s \in Sections, NEW v, s = "approval" => row.stage = "APPROVAL",
                   n.newDoc = [row.doc EXCEPT ![s] = v], n.op # "handover"
            PROVE  Fits
        BY <1>2, <4>1 DEF Doc, HasDecision, PostApproval
      <4>2. ASSUME NEW s \in Sections, NEW v \in Answers[s], SubmitForm(p, s, v) PROVE Fits
        <5>1. /\ n.newDoc = [row.doc EXCEPT ![s] = v] /\ n.op = "form"
              /\ s = "approval" => row.stage = "APPROVAL"
          BY <1>3, <4>2 DEF SubmitForm, Editable, Reviewed
        <5> QED
          BY <4>1, <5>1
      <4>3. ASSUME NEW v, MoveAddress(p, v) PROVE Fits
        <5>1. n.newDoc = [row.doc EXCEPT !["address"] = v] /\ n.op = "moveAddress"
          BY <1>3, <4>3 DEF MoveAddress
        <5>2. "address" \in Sections /\ "address" # "approval"
          BY DEF Sections
        <5> QED
          BY <4>1, <5>1, <5>2
      <4>4. ASSUME NEW v, SubmitConditions(p, v) \/ DeleteCondition(p, v) PROVE Fits
        <5>1. n.op # "handover" /\ n.pc # "writeDoc"
          BY <1>3, <4>4 DEF SubmitConditions, DeleteCondition
        <5> QED
          BY <5>1
      <4>5. ASSUME StartPdf(p) PROVE Fits
        <5> DEFINE r == [Idle EXCEPT !.op = "pdf", !.pc = "load", !.loads = {"row", "approved"}]
        <5>1. r.op = "pdf" /\ r.pc = "load"
          BY DEF Idle
        <5>2. req' = [req EXCEPT ![p] = r]
          BY <4>5 DEF StartPdf
        <5> HIDE DEF r
        <5> QED
          BY <5>1, <5>2 DEF TypeOK
      <4> HIDE DEF Fits
      <4> QED
        BY <2>2, <4>2, <4>3, <4>4, <4>5 DEF Arrive
    <3>2. n.stage \in PostApproval => row.stage \in PostApproval
      BY <1>1 DEF PostApproval
    <3> QED
      BY <1>1, <3>1, <3>2 DEF HandingOver, KeepsDecision
  <2> QED
    BY <2>1, <2>2
<1>5. ASSUME NEW o \in Requests \ {p} PROVE req'[o] = req[o]
  BY <1>1, <1>5 DEF OnlyMoves, TypeOK
<1>6. HasDecision'
  BY <1>1, <1>2 DEF HasDecision
<1>7. ASSUME NEW o \in Requests \ {p}
      PROVE  IF HandingOver(o)' THEN HandoverReady(req[o])' ELSE KeepsDecision(req[o])'
  BY <1>1, <1>5, <1>7 DEF HandingOver, Busy, DecisionSafe, HandoverReady, KeepsDecision
<1> QED
  BY <1>1, <1>4, <1>6, <1>7 DEF DecisionSafe

\* However many requests overlap, and wherever they die, a licence past approval
\* carries the decision maker's answer, provided nobody works on a case while it
\* is being handed over and no page of a handover is kept open: whole documents
\* written back and stages flagged from an old reading never lose it.
THEOREM OverlapKeepsDecision ==
  ASSUME MaxOpenPages = 0
  PROVE  SpecHandoversApart => []DecisionStands
<1>1. Init => DecisionSafe /\ HandoversApart
  <2> SUFFICES ASSUME Init PROVE DecisionSafe /\ HandoversApart
    OBVIOUS
  <2>1. row.stage \notin PostApproval /\ pages = {}
    BY DEF Init, NewRow, PostApproval
  <2>2. \A p \in Requests : req[p] = Idle
    BY DEF Init
  <2>3. Idle.pc = "idle" /\ Idle.stage \notin PostApproval
    BY DEF Idle, PostApproval
  <2> QED
    BY <2>1, <2>2, <2>3 DEF DecisionSafe, HandoversApart, HasDecision, HandingOver, Busy,
                            KeepsDecision
<1>2. TypeOK /\ Shapes /\ DecisionSafe /\ HandoversApart /\ [Next /\ HandoversApart']_vars
        => (DecisionSafe /\ HandoversApart)'
  <2> SUFFICES ASSUME TypeOK, Shapes, DecisionSafe, HandoversApart, [Next /\ HandoversApart']_vars
               PROVE  (DecisionSafe /\ HandoversApart)'
    OBVIOUS
  <2>1. CASE UNCHANGED vars
    BY <2>1 DEF vars, DecisionSafe, HasDecision, HandingOver, Busy, HandoverReady,
                KeepsDecision, HandoversApart, Apart
  <2>2. ASSUME NEW p \in Requests, Arrive(p) \/ Proceed(p) \/ Fail(p) PROVE DecisionSafe'
    BY <2>2, ArriveDecisionSafe, ProceedDecisionSafe
  <2>3. ASSUME NEW t \in Sends, OpenPage(t) PROVE FALSE
    BY <2>3, FS_EmptySet DEF OpenPage, DecisionSafe
  <2>4. ASSUME Release PROVE DecisionSafe'
    <3>1. UNCHANGED <<row, req, pages>>
      BY <2>4 DEF Release
    <3> QED
      BY <3>1 DEF DecisionSafe, HasDecision, HandingOver, Busy, HandoverReady, KeepsDecision
  <2> QED
    BY <2>1, <2>2, <2>3, <2>4 DEF Next
<1>3. DecisionSafe => DecisionStands
  BY DEF DecisionSafe, HasDecision, DecisionStands
<1>4. SpecHandoversApart => Spec
  <2>1. [Next /\ HandoversApart']_vars => [Next]_vars
    OBVIOUS
  <2> QED
    BY <2>1, PTL DEF SpecHandoversApart, Spec
<1> QED
  BY <1>1, <1>2, <1>3, <1>4, TypeCorrect, ShapesAlways, PTL DEF SpecHandoversApart

-----------------------------------------------------------------------------
(* Reapproval, when handovers and the changes that need it run alone *)

\* deleteLicenceCondition never sends a licence back for approval: what follows
\* is about the requests that do not use it.
NoDeletion == \A p \in Requests : req[p].op # "deleteCondition"

LEMMA NoDeletionAlways ==
  ASSUME "deleteCondition" \notin Ops
  PROVE  Spec => []NoDeletion
<1>1. Init => NoDeletion
  BY DEF Init, NoDeletion, Idle
<1>2. TypeOK /\ Shapes /\ NoDeletion /\ [Next]_vars => NoDeletion'
  <2> SUFFICES ASSUME TypeOK, Shapes, NoDeletion, [Next]_vars PROVE NoDeletion'
    OBVIOUS
  <2>1. ASSUME NEW p \in Requests, OnlyMoves(p), req'[p].op # "deleteCondition" PROVE NoDeletion'
    BY <2>1 DEF NoDeletion, OnlyMoves, TypeOK
  <2>2. ASSUME NEW p \in Requests, Arrive(p) PROVE NoDeletion'
    <3>1. OnlyMoves(p)
      BY <2>2, ArriveShape
    <3>2. ASSUME NEW op, NEW arg, NEW pc, NEW d, NEW w, Begin(p, op, arg, pc, d, w)
          PROVE  NoDeletion'
      <4>1. req'[p].op = op /\ op \in Ops
        BY <3>2 DEF Begin, TypeOK, Idle
      <4> QED
        BY <2>1, <3>1, <4>1
    <3>3. ASSUME StartPdf(p) PROVE NoDeletion'
      <4>1. req'[p].op = "pdf"
        BY <3>3 DEF StartPdf, TypeOK, Idle
      <4> QED
        BY <2>1, <3>1, <4>1
    <3>4. ASSUME NEW s \in Sections, NEW v \in Answers[s], SubmitForm(p, s, v) PROVE NoDeletion'
      BY <3>2, <3>4 DEF SubmitForm
    <3>5. ASSUME NEW v, SubmitConditions(p, v) \/ DeleteCondition(p, v) \/ MoveAddress(p, v)
          PROVE  NoDeletion'
      BY <3>2, <3>5 DEF SubmitConditions, DeleteCondition, MoveAddress
    <3>6. ASSUME NEW page, SendHandover(p, page) PROVE NoDeletion'
      BY <3>2, <3>6 DEF SendHandover
    <3> QED
      BY <2>2, <3>3, <3>4, <3>5, <3>6 DEF Arrive
  <2>3. ASSUME NEW p \in Requests, Proceed(p) \/ Fail(p) PROVE NoDeletion'
    <3>1. OnlyMoves(p) /\ (req'[p] = Idle \/ req'[p].op = req[p].op)
      BY <2>3, StepShape
    <3>2. req'[p].op # "deleteCondition"
      BY <3>1 DEF NoDeletion, Idle
    <3> QED
      BY <2>1, <3>1, <3>2
  <2>4. CASE Release \/ (\E t \in Sends : OpenPage(t)) \/ UNCHANGED vars
    BY <2>4 DEF Release, OpenPage, vars, NoDeletion
  <2> QED
    BY <2>2, <2>3, <2>4 DEF Next
<1> QED
  BY <1>1, <1>2, TypeCorrect, ShapesAlways, PTL DEF Spec

\* Approved, and not waiting for another approval.
Settled == {"DECIDED", "MODIFIED"}

\* A decided or modified licence has the conditions and the curfew hours of the
\* decision, except for the part a form has just written and is about to flag.
BeingFlagged(s) ==
  \E p \in Requests : req[p].op = "form" /\ req[p].arg = s /\ req[p].pc \in {"bump", "flag"}

ReviewInv ==
  row.stage \in Settled =>
    \A s \in Reviewed : row.doc[s] = decided[s] \/ BeingFlagged(s)

\* A running request has read the licence settled only if it still is, has the
\* stage of the row when it must flag from it, and will write the reviewed parts
\* as they are; a decision is on the parts as they are.  Conditions are written with the licence flagged already.
KeepsReview(q) ==
  CASE q.op = "handover" ->
         /\ q.pc # "stage" => row.stage = "PROCESSING_CA"
         /\ q.pc = "stage" /\ q.arg = "dmToCa" => q.shown = [s \in Reviewed |-> row.doc[s]]
    [] q.op = "conditions" /\ q.pc # "flag" -> row.stage \notin Settled
    [] OTHER -> /\ q.stage \in Settled => row.stage \in Settled
                /\ q.arg \in Reviewed => q.stage = row.stage
                /\ q.pc = "writeDoc" => \A s \in Reviewed \ {q.arg} : q.newDoc[s] = row.doc[s]

ReviewSafe == ReviewInv /\ \A p \in Requests : Busy(p) => KeepsReview(req[p])

Sensitive(p) == HandingOver(p) \/ Reviewing(p)

\* A step of a request that is neither: none of those is running.
LEMMA OthersKeepReview ==
  ASSUME TypeOK, Shapes, ReviewSafe, ReviewsApart, NEW p \in Requests, Busy(p), ~Sensitive(p),
         OnlyMoves(p), decided' = decided, \A s \in Reviewed : row'.doc[s] = row.doc[s],
         row'.stage \in Settled <=> row.stage \in Settled,
         \/ req'[p] = Idle
         \/ /\ req'[p].op = req[p].op /\ req'[p].arg = req[p].arg
            /\ req'[p].stage = req[p].stage /\ req'[p].pc # "writeDoc"
  PROVE  ReviewSafe'
<1>1. ASSUME NEW o \in Requests, Busy(o)
      PROVE  /\ req[o].op \in {"form", "moveAddress", "pdf"} /\ req[o].arg \notin Reviewed
             /\ KeepsReview(req[o])
  <2>1. ~Sensitive(o)
    BY <1>1 DEF ReviewsApart, Sensitive, Apart
  <2>2. Shape(req[o]) /\ KeepsReview(req[o])
    BY <1>1 DEF Shapes, ReviewSafe
  <2> QED
    BY <1>1, <2>1, <2>2, IdleType DEF Sensitive, HandingOver, Reviewing, Busy, Shape, Reviewed
<1>2. ASSUME NEW o \in Requests \ {p} PROVE req'[o] = req[o]
  BY <1>2 DEF OnlyMoves, TypeOK
<1>3. ASSUME NEW o \in Requests \ {p}, Busy(o)' PROVE KeepsReview(req[o])'
  <2>1. Busy(o)
    BY <1>2, <1>3 DEF Busy
  <2> QED
    BY <1>1, <1>2, <1>3, <2>1 DEF KeepsReview
<1>4. Busy(p)' => KeepsReview(req[p])'
  <2>1. CASE req'[p] = Idle
    BY <2>1, IdleType DEF Busy
  <2>2. CASE req'[p] # Idle
    BY <1>1, <2>2 DEF KeepsReview
  <2> QED
    BY <2>1, <2>2
<1>5. ReviewInv'
  <2>1. ASSUME NEW s \in Reviewed PROVE ~BeingFlagged(s)
    BY <1>1, <2>1 DEF BeingFlagged, Busy
  <2> QED
    BY <2>1 DEF ReviewSafe, ReviewInv, Settled
<1> QED
  BY <1>3, <1>4, <1>5 DEF ReviewSafe

\* A step of one of those: every other request is idle.
LEMMA AloneKeepsReview ==
  ASSUME TypeOK, Shapes, ReviewsApart, NEW p \in Requests, Busy(p), Sensitive(p), OnlyMoves(p),
         ReviewInv', req'[p] = Idle \/ KeepsReview(req[p])'
  PROVE  ReviewSafe'
<1>1. ASSUME NEW o \in Requests \ {p} PROVE ~Busy(o)'
  BY <1>1 DEF OnlyMoves, TypeOK, ReviewsApart, Sensitive, Apart, Busy
<1>2. Busy(p)' => KeepsReview(req[p])'
  BY IdleType DEF Busy
<1> QED
  BY <1>1, <1>2 DEF ReviewSafe

\* The step of a handover, or of a request that changes a reviewed part.
LEMMA SensitiveStep ==
  ASSUME TypeOK, Shapes, NoDeletion, ReviewSafe, ReviewsApart, NEW p \in Requests, Sensitive(p),
         Proceed(p)
  PROVE  ReviewSafe'
<1> DEFINE q == req[p]
           n == req'[p]
<1>1. /\ row \in Row /\ row.doc \in Doc /\ q \in Request /\ Shape(q) /\ KeepsReview(q)
      /\ Reviewed \subseteq Sections /\ ReviewInv /\ Busy(p)
  BY DEF TypeOK, Row, Shapes, Sections, Reviewed, ReviewSafe, Sensitive, HandingOver, Reviewing
<1>2. /\ OnlyMoves(p)
      /\ \/ n = Idle
         \/ /\ n.op = q.op /\ n.arg = q.arg /\ n.stage = q.stage
            /\ n.pc \notin {"idle", "stage"}
  BY StepShape
<1>3. \/ q.op = "form" /\ q.arg \in Reviewed /\ q.pc \in {"writeDoc", "bump", "flag"}
      \/ /\ q.op = "conditions" /\ q.arg \in Reviewed
         /\ q.pc \in {"flag", "writeSection", "bump"}
      \/ /\ q.op = "handover" /\ q.arg \in Transitions /\ q.pc \in {"stage", "writeDoc", "bump"}
  BY <1>1, IdleType DEF Sensitive, HandingOver, Reviewing, Shape, Busy, Reviewed, NoDeletion
<1>4. ASSUME row'.stage \notin Settled, n = Idle \/ KeepsReview(req[p])' PROVE ReviewSafe'
  BY <1>1, <1>2, <1>4, AloneKeepsReview DEF ReviewInv
<1>5. ASSUME NEW s \in Reviewed, BeingFlagged(s)
      PROVE  q.op = "form" /\ q.arg = s /\ q.pc \in {"bump", "flag"}
  <2>1. PICK o \in Requests : req[o].op = "form" /\ req[o].arg = s /\ req[o].pc \in {"bump", "flag"}
    BY <1>5 DEF BeingFlagged
  <2>2. Busy(o)
    BY <2>1 DEF Busy
  <2>3. o = p
    BY <1>1, <2>2 DEF ReviewsApart, Sensitive, Apart
  <2> QED
    BY <2>1, <2>3
<1>6. CASE WriteDoc(p)
  <2>1. /\ row'.doc = q.newDoc /\ row'.stage = row.stage /\ decided' = decided
        /\ q.pc = "writeDoc" /\ n.pc = "bump" /\ n.op = q.op /\ n.arg = q.arg /\ n.stage = q.stage
    BY <1>1, <1>6 DEF WriteDoc, Row, Request, TypeOK
  <2>2. CASE q.op = "form"
    <3>1. /\ q.arg \in Reviewed /\ q.stage = row.stage
          /\ \A s \in Reviewed \ {q.arg} : q.newDoc[s] = row.doc[s]
      BY <1>1, <1>3, <2>1, <2>2 DEF KeepsReview
    <3>2. BeingFlagged(q.arg)'
      BY <2>1, <2>2 DEF BeingFlagged
    <3>3. ASSUME NEW s \in Reviewed, row.stage \in Settled
          PROVE  row'.doc[s] = decided[s] \/ BeingFlagged(s)'
      <4>1. ~BeingFlagged(s)
        BY <1>5, <2>1, <3>3
      <4> QED
        BY <1>1, <2>1, <3>1, <3>2, <3>3, <4>1 DEF ReviewInv
    <3>4. ReviewInv'
      BY <2>1, <3>3 DEF ReviewInv
    <3>5. KeepsReview(req[p])'
      BY <2>1, <2>2, <3>1 DEF KeepsReview
    <3> QED
      BY <1>1, <1>2, <3>4, <3>5, AloneKeepsReview
  <2>3. CASE q.op = "handover"
    <3>1. row.stage = "PROCESSING_CA"
      BY <1>1, <2>1, <2>3 DEF KeepsReview
    <3> QED
      BY <1>4, <2>1, <2>3, <3>1 DEF KeepsReview, Settled
  <2> QED
    BY <1>3, <2>1, <2>2, <2>3
<1>7. CASE WriteSection(p)
  <2>1. row'.stage = row.stage /\ q.pc = "writeSection" /\ n.pc = "bump" /\ n.op = q.op
    BY <1>1, <1>7 DEF WriteSection, Row, Request, TypeOK
  <2>2. q.op = "conditions"
    BY <1>3, <2>1
  <2> QED
    BY <1>1, <1>4, <2>1, <2>2 DEF KeepsReview
<1>8. CASE Bump(p)
  <2>1. /\ row'.doc = row.doc /\ row'.stage = row.stage /\ decided' = decided
        /\ q.pc = "bump" /\ Goto(p, IF q.op = "form" THEN "flag" ELSE "idle")
    BY <1>8, BumpLeaves DEF Bump
  <2>2. CASE q.op = "form"
    <3>1. n.pc = "flag" /\ n.op = "form" /\ n.arg = q.arg /\ n.stage = q.stage
      BY <1>1, <2>1, <2>2 DEF Goto, Request, TypeOK
    <3>2. \A s \in Reviewed : BeingFlagged(s) => BeingFlagged(s)'
      BY <1>5, <3>1 DEF BeingFlagged
    <3>3. ReviewInv'
      BY <1>1, <2>1, <3>2 DEF ReviewInv
    <3>4. KeepsReview(req[p])'
      BY <1>1, <1>3, <2>1, <2>2, <3>1 DEF KeepsReview
    <3> QED
      BY <1>1, <1>2, <3>3, <3>4, AloneKeepsReview
  <2>3. CASE q.op # "form"
    <3>1. n = Idle
      BY <1>1, <2>1, <2>3 DEF Goto, TypeOK
    <3>2. row.stage \notin Settled
      BY <1>1, <1>3, <2>1, <2>3 DEF KeepsReview, Settled
    <3> QED
      BY <1>4, <2>1, <3>1, <3>2
  <2> QED
    BY <2>2, <2>3
<1>9. CASE FlagModification(p)
  <2> DEFINE to == ModificationStage(q.stage, RequiresApproval(q.arg), NoModify(q.arg))
  <2>1. /\ q.pc = "flag" /\ Goto(p, IF q.op = "form" THEN "idle" ELSE "writeSection")
        /\ row' = IF to = {} THEN row ELSE [row EXCEPT !.stage = CHOOSE s \in to : TRUE]
    BY <1>9 DEF FlagModification
  <2>2. q.arg \in Reviewed /\ q.op \in {"form", "conditions"} /\ q.stage = row.stage
    BY <1>1, <1>3, <2>1 DEF KeepsReview
  <2>3. to = IF q.stage \in Settled THEN {"MODIFIED_APPROVAL"} ELSE {}
    BY <2>2 DEF ModificationStage, RequiresApproval, NoModify, Reviewed, Settled
  <2> HIDE DEF to
  <2>4. row'.stage \notin Settled
    BY <1>1, <2>1, <2>2, <2>3 DEF Row, Settled
  <2>5. n = Idle \/ (n.op = "conditions" /\ n.pc = "writeSection")
    BY <1>1, <2>1, <2>2 DEF Goto, Request, TypeOK
  <2> QED
    BY <1>4, <2>4, <2>5 DEF KeepsReview
<1>10. CASE MarkForHandover(p)
  <2>1. /\ row'.doc = row.doc /\ row'.stage = StageAfter[q.arg] /\ q.pc = "stage"
        /\ q.arg = "dmToCa" => decided' = q.shown
        /\ Goto(p, IF q.arg = "dmToCaReturn" THEN "writeDoc" ELSE "idle")
    BY <1>1, <1>10 DEF MarkForHandover, Row
  <2>2. q.op = "handover" /\ q.arg \in Transitions
    BY <1>3, <2>1
  <2>3. /\ StageAfter[q.arg] \in Settled => q.arg = "dmToCa"
        /\ StageAfter["dmToCaReturn"] = "PROCESSING_CA"
    BY <2>2 DEF StageAfter, Transitions, Settled
  <2>4. n = Idle \/ KeepsReview(req[p])'
    <3>1. q.arg = "dmToCaReturn" => n.op = "handover" /\ n.pc = "writeDoc"
      BY <1>1, <2>1, <2>2 DEF Goto, Request, TypeOK
    <3>2. q.arg # "dmToCaReturn" => n = Idle
      BY <1>1, <2>1 DEF Goto, TypeOK
    <3> QED
      BY <2>1, <2>3, <3>1, <3>2 DEF KeepsReview
  <2>5. ReviewInv'
    <3>1. q.arg = "dmToCa" => q.shown = [s \in Reviewed |-> row.doc[s]]
      BY <1>1, <2>1, <2>2 DEF KeepsReview
    <3> QED
      BY <2>1, <2>3, <3>1 DEF ReviewInv
  <2> QED
    BY <1>1, <1>2, <2>4, <2>5, AloneKeepsReview
<1>11. CASE ResponsibleOfficerMissing(p)
  <2>1. row' = row /\ decided' = decided /\ n = Idle /\ q.pc = "stage"
    BY <1>1, <1>11 DEF ResponsibleOfficerMissing, Goto, TypeOK
  <2>2. ReviewInv'
    BY <1>1, <1>5, <2>1 DEF ReviewInv
  <2> QED
    BY <1>1, <1>2, <2>1, <2>2, AloneKeepsReview
<1> QED
  BY <1>3, <1>6, <1>7, <1>8, <1>9, <1>10, <1>11
     DEF Proceed, ReadRow, ReadApproved, TakeSnapshot, PrintLicence

\* The step of any other request, which overlaps with others of its kind.
LEMMA OrdinaryStep ==
  ASSUME TypeOK, Shapes, NoDeletion, ReviewSafe, ReviewsApart, NEW p \in Requests, ~Sensitive(p),
         Proceed(p)
  PROVE  ReviewSafe'
<1> DEFINE q == req[p]
           n == req'[p]
           Kept == \A s \in Reviewed : row'.doc[s] = row.doc[s]
<1>1. /\ Busy(p) /\ OnlyMoves(p) /\ Shape(n)
      /\ \/ n = Idle
         \/ /\ n.op = q.op /\ n.arg = q.arg /\ n.stage = q.stage
            /\ n.pc \notin {"idle", "stage"}
  BY StepShape
<1>2. /\ row \in Row /\ row.doc \in Doc /\ q \in Request /\ Shape(q) /\ KeepsReview(q)
      /\ Reviewed \subseteq Sections
  BY <1>1 DEF TypeOK, Row, Shapes, Sections, Reviewed, ReviewSafe
<1>3. /\ q.arg \notin Reviewed
      /\ \/ q.op = "form" /\ q.pc \in {"writeDoc", "bump", "flag"}
         \/ q.op = "moveAddress" /\ q.pc \in {"writeDoc", "bump"}
         \/ q.op = "pdf" /\ q.pc \in {"load", "snapshot", "reload", "print"}
  BY <1>1, <1>2, IdleType DEF Sensitive, HandingOver, Reviewing, Shape, Busy, Reviewed
<1>4. /\ q.stage \in Settled => row.stage \in Settled
      /\ q.pc = "writeDoc" => \A s \in Reviewed : q.newDoc[s] = row.doc[s]
  BY <1>2, <1>3 DEF KeepsReview
<1>5. ASSUME Kept, decided' = decided, n.pc # "writeDoc" \/ n = Idle,
             row'.stage \in Settled <=> row.stage \in Settled
      PROVE  ReviewSafe'
  BY <1>1, <1>5, OthersKeepReview
<1>6. CASE WriteDoc(p)
  <2>1. /\ row'.doc = q.newDoc /\ row'.stage = row.stage /\ decided' = decided
        /\ q.pc = "writeDoc" /\ n.pc = "bump"
    BY <1>2, <1>6 DEF WriteDoc, Row, Request, TypeOK
  <2> QED
    BY <1>4, <1>5, <2>1
<1>7. CASE Bump(p)
  <2>1. row'.doc = row.doc /\ row'.stage = row.stage /\ decided' = decided
    BY <1>7, BumpLeaves DEF Bump
  <2>2. n = Idle \/ n.pc = "flag"
    BY <1>2, <1>7 DEF Bump, Goto, Request, TypeOK
  <2> QED
    BY <1>5, <2>1, <2>2
<1>8. CASE FlagModification(p)
  <2> DEFINE to == ModificationStage(q.stage, RequiresApproval(q.arg), NoModify(q.arg))
  <2>1. /\ q.pc = "flag" /\ Goto(p, IF q.op = "form" THEN "idle" ELSE "writeSection")
        /\ row' = IF to = {} THEN row ELSE [row EXCEPT !.stage = CHOOSE s \in to : TRUE]
        /\ decided' = decided
    BY <1>8 DEF FlagModification
  <2>2. to = IF q.arg # "template" /\ q.stage = "DECIDED" THEN {"MODIFIED"} ELSE {}
    BY <1>3 DEF ModificationStage, RequiresApproval, NoModify, Reviewed
  <2> HIDE DEF to
  <2>3. Kept /\ (row'.stage \in Settled <=> row.stage \in Settled)
    BY <1>2, <1>4, <2>1, <2>2 DEF Row, Settled
  <2>4. n = Idle
    BY <1>2, <1>3, <2>1 DEF Goto, TypeOK
  <2> QED
    BY <1>5, <2>1, <2>3, <2>4
<1>9. CASE ReadRow(p) \/ ReadApproved(p) \/ TakeSnapshot(p) \/ PrintLicence(p)
  <2>1. row' = row /\ decided' = decided /\ q.op = "pdf"
    BY <1>3, <1>9 DEF ReadRow, ReadApproved, TakeSnapshot, PrintLicence
  <2>2. n = Idle \/ n.pc # "writeDoc"
    BY <1>1, <2>1 DEF Shape
  <2> QED
    BY <1>5, <2>1, <2>2
<1> QED
  BY <1>3, <1>6, <1>7, <1>8, <1>9
     DEF Proceed, WriteSection, MarkForHandover, ResponsibleOfficerMissing

LEMMA ArriveReviewSafe ==
  ASSUME TypeOK, Shapes, ReviewSafe, DecisionsFresh, "deleteCondition" \notin Ops,
         NEW p \in Requests, Arrive(p)
  PROVE  ReviewSafe'
<1> DEFINE n == req'[p]
<1>1. OnlyMoves(p) /\ ~Busy(p) /\ UNCHANGED <<row, decided>>
  BY ArriveShape
<1>2. row.doc \in Doc
  BY DEF TypeOK, Row
<1>3. ASSUME NEW o \in Requests \ {p} PROVE req'[o] = req[o]
  BY <1>1, <1>3 DEF OnlyMoves, TypeOK
<1>4. ASSUME NEW op, NEW arg, NEW pc, NEW d, NEW w, Begin(p, op, arg, pc, d, w)
      PROVE  /\ n.op = op /\ n.arg = arg /\ n.pc = pc /\ n.newDoc = d /\ n.shown = w /\ op \in Ops
             /\ n.stage = IF op \in {"form", "conditions"} THEN row.stage ELSE "ELIGIBILITY"
  BY <1>4 DEF Begin, TypeOK, Idle
<1>5. KeepsReview(n)
  <2>1. ASSUME NEW s \in Sections, NEW v \in Answers[s], SubmitForm(p, s, v) PROVE KeepsReview(n)
    <3>1. /\ n.op = "form" /\ n.arg = s /\ n.newDoc = [row.doc EXCEPT ![s] = v]
          /\ n.stage = row.stage
      BY <1>4, <2>1 DEF SubmitForm
    <3>2. \A a \in Reviewed \ {s} : n.newDoc[a] = row.doc[a]
      BY <1>2, <3>1 DEF Doc, Reviewed, Sections
    <3> QED
      BY <3>1, <3>2 DEF KeepsReview
  <2>2. ASSUME NEW v, SubmitConditions(p, v) PROVE KeepsReview(n)
    <3>1. n.op = "conditions" /\ n.pc = "flag" /\ n.stage = row.stage
      BY <1>4, <2>2 DEF SubmitConditions
    <3> QED
      BY <3>1 DEF KeepsReview
  <2>3. ASSUME NEW v, DeleteCondition(p, v) PROVE FALSE
    BY <2>3 DEF DeleteCondition, Begin
  <2>4. ASSUME NEW v, MoveAddress(p, v) PROVE KeepsReview(n)
    <3>1. /\ n.op = "moveAddress" /\ n.arg = "address" /\ n.stage = "ELIGIBILITY"
          /\ n.newDoc = [row.doc EXCEPT !["address"] = v]
      BY <1>4, <2>4 DEF MoveAddress
    <3>2. \A a \in Reviewed : n.newDoc[a] = row.doc[a]
      BY <1>2, <3>1 DEF Doc, Reviewed, Sections
    <3> QED
      BY <3>1, <3>2 DEF KeepsReview, Reviewed, Settled
  <2>5. ASSUME NEW page, SendHandover(p, page) PROVE KeepsReview(n)
    <3>1. n.op = "handover" /\ n.pc = "stage" /\ n.arg = page.to /\ n.shown = page.shown
      BY <1>4, <2>5 DEF SendHandover
    <3>2. page.to = "dmToCa" => page = Page("dmToCa")
      BY <2>5 DEF SendHandover, DecisionsFresh
    <3>3. page.to = "dmToCa" => page.shown = [s \in Reviewed |-> row.doc[s]]
      BY <3>2 DEF Page
    <3> QED
      BY <1>1, <3>1, <3>3 DEF KeepsReview
  <2>6. ASSUME StartPdf(p) PROVE KeepsReview(n)
    <3> DEFINE r == [Idle EXCEPT !.op = "pdf", !.pc = "load", !.loads = {"row", "approved"}]
    <3>1. r.op = "pdf" /\ r.pc = "load" /\ r.arg = "none" /\ r.stage = "ELIGIBILITY"
      BY DEF Idle
    <3>2. req' = [req EXCEPT ![p] = r]
      BY <2>6 DEF StartPdf
    <3> HIDE DEF r
    <3> QED
      BY <3>1, <3>2 DEF TypeOK, KeepsReview, Reviewed, Settled
  <2> HIDE DEF n
  <2> QED
    BY <2>1, <2>2, <2>3, <2>4, <2>5, <2>6 DEF Arrive
<1>6. \A o \in Requests : Busy(o)' => KeepsReview(req[o])'
  <2>1. ASSUME NEW o \in Requests \ {p}, Busy(o)' PROVE KeepsReview(req[o])'
    <3>1. KeepsReview(req[o])
      BY <1>3, <2>1 DEF Busy, ReviewSafe
    <3> QED
      BY <1>1, <1>3, <2>1, <3>1 DEF KeepsReview
  <2>2. KeepsReview(req[p])'
    BY <1>1, <1>5 DEF KeepsReview
  <2> QED
    BY <2>1, <2>2
<1>7. ReviewInv'
  <2>1. \A s \in Reviewed : BeingFlagged(s) => BeingFlagged(s)'
    BY <1>1, <1>3 DEF BeingFlagged, Busy
  <2> QED
    BY <1>1, <2>1 DEF ReviewSafe, ReviewInv
<1> QED
  BY <1>6, <1>7 DEF ReviewSafe

\* With any number of overlapping requests, and handover pages kept open other
\* than the decision maker's, a licence that is not waiting for approval has the
\* conditions and the curfew hours that were seen by who decided on it, provided
\* none dies and nobody works on the case while it is handed over or one of those
\* is changed: what update and updateLicenceConditions flag from a reading is
\* flagged from the row.
THEOREM OverlapKeepsReapproval ==
  ASSUME MaxFailures = 0, "deleteCondition" \notin Ops
  PROVE  SpecReviewsApart => []ReapprovalHolds
<1>1. Init => ReviewSafe /\ ReviewsApart /\ DecisionsFresh
  BY IdleType DEF Init, NewRow, ReviewSafe, ReviewInv, ReviewsApart, DecisionsFresh, HandingOver, Reviewing,
                  Busy, Settled
<1>2. TypeOK /\ Shapes /\ NoDeletion /\ ReviewSafe /\ ReviewsApart /\ DecisionsFresh
        /\ [Next /\ ReviewsApart' /\ DecisionsFresh']_vars
        => (ReviewSafe /\ ReviewsApart /\ DecisionsFresh)'
  <2> SUFFICES ASSUME TypeOK, Shapes, NoDeletion, ReviewSafe, ReviewsApart, DecisionsFresh,
                      [Next /\ ReviewsApart' /\ DecisionsFresh']_vars
               PROVE  (ReviewSafe /\ ReviewsApart /\ DecisionsFresh)'
    OBVIOUS
  <2>1. CASE UNCHANGED vars
    BY <2>1 DEF vars, ReviewSafe, ReviewInv, BeingFlagged, Busy, KeepsReview, ReviewsApart,
                HandingOver, Reviewing, Apart, DecisionsFresh
  <2>2. ASSUME NEW p \in Requests, Arrive(p) \/ Proceed(p) PROVE ReviewSafe'
    BY <2>2, ArriveReviewSafe, SensitiveStep, OrdinaryStep
  <2>3. ASSUME NEW p \in Requests, Fail(p) PROVE FALSE
    BY <2>3 DEF Fail, TypeOK
  <2>4. ASSUME Release \/ (\E t \in Sends : OpenPage(t)) PROVE ReviewSafe'
    <3>1. UNCHANGED <<row, req, decided>>
      BY <2>4 DEF Release, OpenPage
    <3> QED
      BY <3>1 DEF ReviewSafe, ReviewInv, BeingFlagged, Busy, KeepsReview
  <2> QED
    BY <2>1, <2>2, <2>3, <2>4 DEF Next
<1>3. ReviewSafe => ReapprovalHolds
  BY DEF ReviewSafe, ReviewInv, BeingFlagged, ReapprovalHolds, Quiet, Settled
<1>4. SpecReviewsApart => Spec
  <2>1. [Next /\ ReviewsApart' /\ DecisionsFresh']_vars => [Next]_vars
    OBVIOUS
  <2> QED
    BY <2>1, PTL DEF SpecReviewsApart, Spec
<1> QED
  BY <1>1, <1>2, <1>3, <1>4, TypeCorrect, ShapesAlways, NoDeletionAlways, PTL DEF SpecReviewsApart

\* A request opens no page and closes none.
LEMMA StepKeepsPages ==
  ASSUME NEW p \in Requests, Arrive(p) \/ Proceed(p) \/ Fail(p)
  PROVE  pages' = pages
<1>1. CASE Arrive(p)
  BY <1>1 DEF Arrive, SubmitForm, SubmitConditions, DeleteCondition, MoveAddress, SendHandover,
              StartPdf, Begin
<1>2. CASE Proceed(p)
  BY <1>2 DEF Proceed, WriteDoc, WriteSection, Bump, FlagModification, MarkForHandover,
              ResponsibleOfficerMissing, ReadRow, ReadApproved, TakeSnapshot, PrintLicence
<1>3. CASE Fail(p)
  BY <1>3 DEF Fail
<1> QED
  BY <1>1, <1>2, <1>3

\* The specification of run apart is an instance of the two before it.
LEMMA AllApartIsApart ==
  (SpecAllApart => SpecReviewsApart) /\ (SpecAllApart => SpecPrintsApart)
<1> DEFINE AllApart == ReviewsApart /\ PrintsApart /\ DecisionsFresh
<1>1. Init => AllApart
  BY IdleType DEF Init, ReviewsApart, PrintsApart, DecisionsFresh, HandingOver, Reviewing,
                  Printing, Busy
<1>2. AllApart /\ [NextAllApart]_vars => AllApart'
  <2> SUFFICES ASSUME AllApart, [NextAllApart]_vars PROVE AllApart'
    OBVIOUS
  <2>1. CASE \E p \in Requests :
               (Arrive(p) \/ Proceed(p) \/ Fail(p)) /\ ReviewsApart' /\ PrintsApart'
    <3>1. pages' = pages
      BY <2>1, StepKeepsPages
    <3> QED
      BY <2>1, <3>1 DEF DecisionsFresh
  <2>2. CASE UNCHANGED req /\ DecisionsFresh'
    BY <2>2 DEF ReviewsApart, PrintsApart, HandingOver, Reviewing, Printing, Busy, Apart
  <2>3. ASSUME NEW t \in Sends \ {"dmToCa"}, OpenPage(t) PROVE UNCHANGED req /\ DecisionsFresh'
    <3>1. pages' = pages \cup {Page(t)} /\ Page(t).to # "dmToCa"
      BY <2>3 DEF OpenPage, Page
    <3> QED
      BY <2>3, <3>1 DEF OpenPage, DecisionsFresh
  <2>4. CASE Release \/ UNCHANGED vars
    BY <2>2, <2>4 DEF Release, vars, DecisionsFresh
  <2> QED
    BY <2>1, <2>2, <2>3, <2>4 DEF NextAllApart
<1>3. /\ AllApart'
      /\ [NextAllApart]_vars
      => [Next /\ ReviewsApart' /\ DecisionsFresh']_vars /\ [Next /\ PrintsApart']_vars
  BY DEF NextAllApart, Next
<1> QED
  BY <1>1, <1>2, <1>3, PTL DEF SpecAllApart, SpecReviewsApart, SpecPrintsApart

\* Users who keep handovers, reviewed changes and prints apart from the rest, and
\* no decision open to be sent later, lose none of the three, whatever else
\* overlaps and whatever other handover pages they keep open.
THEOREM ApartLosesNothing ==
  ASSUME MaxFailures = 0, "deleteCondition" \notin Ops
  PROVE  SpecAllApart => [](ReapprovalHolds /\ PrintedMatchesSnapshot /\ SnapshotPossible)
BY AllApartIsApart, OverlapKeepsReapproval, OverlapPrintsRecorded, OverlapNeverBlocks, PTL
=============================================================================
