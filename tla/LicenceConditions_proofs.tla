----------------------- MODULE LicenceConditions_proofs -----------------------
(***************************************************************************)
(* Theorems about LicenceConditions: its types, that the version recorded  *)
(* stays while requests end under the release they began under, and that   *)
(* every saved condition is known while no request is disturbed either.    *)
(***************************************************************************)
EXTENDS LicenceConditions, SequenceTheorems, TLAPS

-----------------------------------------------------------------------------
(* Types. *)

\* removeBespokeCondition leaves a list of bespoke conditions.
LEMMA RemoveBespokeType ==
  ASSUME NEW list \in Seq(Bespoke), NEW i \in Nat
  PROVE  RemoveBespoke(list, i) \in Seq(Bespoke)
<1>1. CASE i >= Len(list)
  BY <1>1 DEF RemoveBespoke
<1>2. CASE ~(i >= Len(list))
  <2>1. SubSeq(list, 1, i) \in Seq(Bespoke)
    BY <1>2, SubSeqProperties
  <2>2. SubSeq(list, i + 2, Len(list)) \in Seq(Bespoke)
    BY <1>2, SubSeqProperties
  <2> QED BY <1>2, <2>1, <2>2, ConcatProperties DEF RemoveBespoke
<1> QED BY <1>1, <1>2

\* The lists a form can hold are lists of bespoke conditions.
LEMMA BespokeListsType == BespokeLists \subseteq Seq(Bespoke)
BY MaxBespokeAssumption DEF BespokeLists

\* A position on the summary is a number.
LEMMA PositionType == \A n \in Nat : \A i \in 0..(n - 1) : i \in Nat
OBVIOUS

\* The summary lists part of what is saved.
LEMMA ShownType ==
  ASSUME NEW r \in Rows
  PROVE  AdditionalShown(r) \subseteq Conditions /\ BespokeShown(r) \in Nat
BY LenProperties DEF AdditionalShown, BespokeShown, Rows

\* A request carries a section that may be written.
LEMMA WritingType ==
  ASSUME TypeOK, NEW new \in Rows, NEW todo \in {"save", "save conditions"}
  PROVE  /\ Writing(todo, new) \in [todo : {"none", "save", "save conditions", "stamp"},
                                    new : Rows, changed : BOOLEAN,
                                    release : Releases \cup {NoVersion}]
         /\ [Writing(todo, new) EXCEPT !.changed = TRUE] \in
                                   [todo : {"none", "save", "save conditions", "stamp"},
                                    new : Rows, changed : BOOLEAN,
                                    release : Releases \cup {NoVersion}]
<1>1. (new # row) \in BOOLEAN
  OBVIOUS
<1> QED BY <1>1 DEF TypeOK, Writing

\* The empty values are well typed.
LEMMA EmptyType ==
  /\ EmptyRow \in Rows
  /\ NoPage \in [kind : {"none", "selection", "summary"}, version : Releases \cup {NoVersion},
                 additional : SUBSET Conditions, bespoke : Nat]
  /\ NoRequest \in [todo : {"none", "save", "save conditions", "stamp"}, new : Rows,
                    changed : BOOLEAN, release : Releases \cup {NoVersion}]
<1>1. EmptyRow \in Rows
  <2>1. <<>> \in Seq(Bespoke)
    BY EmptySeq
  <2> QED BY <2>1 DEF EmptyRow, Rows, NoVersion
<1> QED BY <1>1 DEF NoPage, NoRequest, NoVersion

\* A licence is read by one of the versions there are.
LEMMA VersionOfType ==
  ASSUME NEW r \in Rows, NEW current \in Releases
  PROVE  VersionOf(r, current) \in Releases
BY DEF VersionOf, Rows

\* The state is well typed at first.
LEMMA TypeInit == Init => TypeOK
<1> SUFFICES ASSUME Init PROVE TypeOK
  OBVIOUS
<1>1. row \in Rows /\ release \in Releases
  <2>1. 1 \in Releases
    BY ReleaseAssumption DEF Releases
  <2> QED BY <2>1, EmptyType DEF Init
<1> QED BY <1>1, EmptyType DEF Init, TypeOK

\* Every step keeps the types.
LEMMA TypeStep == TypeOK /\ [Next]_vars => TypeOK'
<1> SUFFICES ASSUME TypeOK, [Next]_vars PROVE TypeOK'
  OBVIOUS
<1> USE EmptyType
<1>1. ASSUME NEW u \in Users, OpenSelection(u) PROVE TypeOK'
  <2>1. VersionOf(row, release) \in Releases
    BY VersionOfType DEF TypeOK
  <2> QED BY <1>1, <2>1 DEF OpenSelection, Turn, TypeOK, NoPage
<1>2. ASSUME NEW u \in Users, OpenSummary(u) PROVE TypeOK'
  <2>1. AdditionalShown(row) \subseteq Conditions /\ BespokeShown(row) \in Nat
    BY ShownType DEF TypeOK
  <2> QED BY <1>2, <2>1 DEF OpenSummary, Turn, TypeOK, NoPage
<1>3. ASSUME NEW u \in Users, NEW answer \in {"Yes", "No"}, AnswerRequired(u, answer) PROVE TypeOK'
  <2>1. [row EXCEPT !.required = answer] \in Rows
    BY DEF TypeOK, Rows
  <2> QED BY <1>3, <2>1, WritingType DEF AnswerRequired, Turn, TypeOK
<1>4. ASSUME NEW u \in Users, NEW ticked \in SUBSET Conditions, NEW bespoke \in BespokeLists,
             Select(u, ticked, bespoke)
      PROVE  TypeOK'
  <2>1. [row EXCEPT !.additional = Selected(row, ticked), !.bespoke = bespoke] \in Rows
    BY BespokeListsType DEF TypeOK, Rows, Selected
  <2> QED BY <1>4, <2>1, WritingType DEF Select, Turn, TypeOK
<1>5. ASSUME NEW u \in Users, DeleteCondition(u) PROVE TypeOK'
  <2>1. ASSUME NEW c \in pages[u].additional, Delete(u, [row EXCEPT !.additional = @ \ {c}])
        PROVE  TypeOK'
    <3>1. [row EXCEPT !.additional = @ \ {c}] \in Rows
      BY DEF TypeOK, Rows
    <3> QED BY <2>1, <3>1, WritingType DEF Delete, Turn, TypeOK
  <2>2. ASSUME NEW i \in 0..(pages[u].bespoke - 1),
               Delete(u, [row EXCEPT !.bespoke = RemoveBespoke(@, i)])
        PROVE  TypeOK'
    <3>1. RemoveBespoke(row.bespoke, i) \in Seq(Bespoke)
      <4>1. pages[u].bespoke \in Nat
        BY DEF TypeOK
      <4>2. i \in Nat
        BY <4>1, PositionType
      <4>3. row.bespoke \in Seq(Bespoke)
        BY DEF TypeOK, Rows
      <4> QED BY <4>2, <4>3, RemoveBespokeType
    <3>2. [row EXCEPT !.bespoke = RemoveBespoke(@, i)] \in Rows
      BY <3>1 DEF TypeOK, Rows
    <3> QED BY <2>2, <3>2, WritingType DEF Delete, Turn, TypeOK
  <2> QED BY <1>5, <2>1, <2>2 DEF DeleteCondition
<1>6. ASSUME NEW u \in Users, Save(u) PROVE TypeOK'
  <2>1. [requests[u].new EXCEPT !.version = row.version] \in Rows
    BY DEF TypeOK, Rows
  <2>2. row' \in Rows
    BY <1>6, <2>1 DEF Save, TypeOK
  <2>3. requests' \in [Users -> [todo : {"none", "save", "save conditions", "stamp"}, new : Rows,
                                 changed : BOOLEAN, release : Releases \cup {NoVersion}]]
    BY <1>6 DEF Save, TypeOK
  <2> QED BY <1>6, <2>2, <2>3 DEF Save, TypeOK
<1>7. ASSUME NEW u \in Users, Stamp(u) PROVE TypeOK'
  <2>1. NewVersion(requests[u]) \in Releases \cup {NoVersion}
    BY DEF NewVersion, TypeOK
  <2>2. row' \in Rows
    BY <1>7, <2>1 DEF Stamp, TypeOK, Rows
  <2> QED BY <1>7, <2>2 DEF Stamp, TypeOK
<1>8. ASSUME NEW u \in Users, Die(u) PROVE TypeOK'
  BY <1>8 DEF Die, TypeOK
<1>9. CASE Deploy
  BY <1>9 DEF Deploy, TypeOK
<1>10. CASE Reset
  BY <1>10 DEF Reset, TypeOK
<1>11. CASE UNCHANGED vars
  BY <1>11 DEF vars, TypeOK
<1> QED BY <1>1, <1>2, <1>3, <1>4, <1>5, <1>6, <1>7, <1>8, <1>9, <1>10, <1>11 DEF Next, Step

\* Every reachable state of the conditions of a licence is well typed, whatever
\* befalls the requests.
THEOREM TypeCorrect == Spec => []TypeOK
BY TypeInit, TypeStep, PTL DEF Spec

-----------------------------------------------------------------------------
(* The version stays: a request that read a licence without one finds, when  *)
(* it ends, none or the current one, because no release comes while a        *)
(* request is under way.                                                     *)

\* A request under way runs under the current release, and one that read no
\* version finds none or the one it would record itself.
CurrentRequests ==
  \A u \in Users : requests[u].todo # "none" =>
    /\ requests[u].release = release
    /\ requests[u].new.version = NoVersion => row.version \in {NoVersion, release}

LEMMA CurrentInit == Init => CurrentRequests
BY DEF Init, CurrentRequests, NoRequest

\* A request that begins reads the row as it is.
LEMMA CurrentBegin ==
  ASSUME TypeOK, CurrentRequests, NEW u \in Users, UNCHANGED <<row, release>>,
         NEW request, requests' = [requests EXCEPT ![u] = request],
         request.todo = "none" \/ (request.release = release /\ request.new.version = row.version)
  PROVE  CurrentRequests'
BY DEF TypeOK, CurrentRequests

LEMMA CurrentWriting ==
  ASSUME TypeOK, CurrentRequests, NEW u \in Users, UNCHANGED <<row, release>>,
         NEW todo, NEW new, new.version = row.version,
         \/ requests' = [requests EXCEPT ![u] = Writing(todo, new)]
         \/ requests' = [requests EXCEPT ![u] = [Writing(todo, new) EXCEPT !.changed = TRUE]]
  PROVE  CurrentRequests'
<1>1. CASE requests' = [requests EXCEPT ![u] = Writing(todo, new)]
  <2>1. Writing(todo, new).release = release /\ Writing(todo, new).new = new
    BY DEF Writing
  <2> QED BY <1>1, <2>1, CurrentBegin
<1>2. CASE requests' = [requests EXCEPT ![u] = [Writing(todo, new) EXCEPT !.changed = TRUE]]
  <2> DEFINE request == [Writing(todo, new) EXCEPT !.changed = TRUE]
  <2>1. request.release = release /\ request.new = new
    BY DEF Writing
  <2> HIDE DEF request
  <2>2. requests' = [requests EXCEPT ![u] = request]
    BY <1>2 DEF request
  <2> QED BY <2>1, <2>2, CurrentBegin
<1> QED BY <1>1, <1>2

\* Every step keeps it while no release comes with requests under way.
LEMMA CurrentStep ==
  ASSUME TypeOK, CurrentRequests, [Next]_vars, "rollout" \notin Disturbances
  PROVE  CurrentRequests'
<1>1. ASSUME NEW u \in Users, OpenSelection(u) PROVE CurrentRequests'
  BY <1>1, CurrentBegin DEF OpenSelection, Turn, NoRequest
<1>2. ASSUME NEW u \in Users, OpenSummary(u) PROVE CurrentRequests'
  BY <1>2, CurrentBegin DEF OpenSummary, Turn, NoRequest
<1>3. ASSUME NEW u \in Users, NEW answer \in {"Yes", "No"}, AnswerRequired(u, answer)
      PROVE  CurrentRequests'
  <2>1. [row EXCEPT !.required = answer].version = row.version
    BY DEF TypeOK, Rows
  <2> QED BY <1>3, <2>1, CurrentWriting DEF AnswerRequired, Turn
<1>4. ASSUME NEW u \in Users, NEW ticked \in SUBSET Conditions, NEW bespoke \in BespokeLists,
             Select(u, ticked, bespoke)
      PROVE  CurrentRequests'
  <2>1. [row EXCEPT !.additional = Selected(row, ticked), !.bespoke = bespoke].version = row.version
    BY DEF TypeOK, Rows
  <2> QED BY <1>4, <2>1, CurrentWriting DEF Select, Turn
<1>5. ASSUME NEW u \in Users, NEW new, new.version = row.version, Delete(u, new)
      PROVE  CurrentRequests'
  BY <1>5, CurrentWriting DEF Delete, Turn
<1>6. ASSUME NEW u \in Users, DeleteCondition(u) PROVE CurrentRequests'
  <2>1. ASSUME NEW c \in pages[u].additional, Delete(u, [row EXCEPT !.additional = @ \ {c}])
        PROVE  CurrentRequests'
    <3>1. [row EXCEPT !.additional = @ \ {c}].version = row.version
      BY DEF TypeOK, Rows
    <3> QED BY <2>1, <3>1, <1>5
  <2>2. ASSUME NEW i \in 0..(pages[u].bespoke - 1),
               Delete(u, [row EXCEPT !.bespoke = RemoveBespoke(@, i)])
        PROVE  CurrentRequests'
    <3>1. [row EXCEPT !.bespoke = RemoveBespoke(@, i)].version = row.version
      BY DEF TypeOK, Rows
    <3> QED BY <2>2, <3>1, <1>5
  <2> QED BY <1>6, <2>1, <2>2 DEF DeleteCondition
<1>7. ASSUME NEW u \in Users, Save(u) PROVE CurrentRequests'
  <2>1. row'.version = row.version
    BY <1>7 DEF Save, TypeOK, Rows
  <2>2. \A v \in Users : requests'[v].todo # "none" =>
          /\ requests[v].todo # "none"
          /\ requests'[v].release = requests[v].release
          /\ requests'[v].new = requests[v].new
    BY <1>7 DEF Save, TypeOK, NoRequest
  <2> QED BY <1>7, <2>1, <2>2 DEF Save, CurrentRequests
<1>8. ASSUME NEW u \in Users, Stamp(u) PROVE CurrentRequests'
  <2>1. \A v \in Users : requests'[v].todo # "none" => requests'[v] = requests[v]
    BY <1>8 DEF Stamp, TypeOK, NoRequest
  <2>2. NewVersion(requests[u]) \in {NoVersion, release}
    BY <1>8 DEF Stamp, NewVersion, CurrentRequests
  <2>3. row'.version = row.version \/ row'.version = release
    BY <1>8, <2>2 DEF Stamp, TypeOK, Rows
  <2> QED BY <1>8, <2>1, <2>3 DEF Stamp, CurrentRequests
<1>9. ASSUME NEW u \in Users, Die(u) PROVE CurrentRequests'
  BY <1>9, CurrentBegin DEF Die, NoRequest
<1>10. CASE Deploy
  BY <1>10 DEF Deploy, AllIdle, Idle, CurrentRequests
<1>11. CASE Reset
  BY <1>11 DEF Reset, EmptyRow, CurrentRequests
<1>12. CASE UNCHANGED vars
  BY <1>12 DEF vars, CurrentRequests
<1> QED BY <1>1, <1>2, <1>3, <1>4, <1>6, <1>7, <1>8, <1>9, <1>10, <1>11, <1>12 DEF Next, Step

\* setAdditionalConditionsVersion never writes over another version: under any
\* number of overlapping requests, with deaths and resets at any moment, a
\* recorded version stays until the reset, provided no release comes while a
\* request is under way.
THEOREM VersionStaysRecorded ==
  ASSUME "rollout" \notin Disturbances
  PROVE  Spec => VersionStays
<1>1. TypeOK /\ CurrentRequests /\ [Next]_vars
        => [row.version # NoVersion => row'.version = row.version \/ row' = EmptyRow]_vars
  <2> SUFFICES ASSUME TypeOK, CurrentRequests, Next, row.version # NoVersion
               PROVE  row'.version = row.version \/ row' = EmptyRow
    BY DEF vars
  <2>1. ASSUME NEW u \in Users, Save(u) PROVE row'.version = row.version
    BY <2>1 DEF Save, TypeOK, Rows
  <2>2. ASSUME NEW u \in Users, Stamp(u) PROVE row'.version = row.version
    <3>1. CASE NewVersion(requests[u]) = NoVersion
      BY <2>2, <3>1 DEF Stamp
    <3>2. CASE NewVersion(requests[u]) # NoVersion
      <4>1. requests[u].new.version = NoVersion /\ NewVersion(requests[u]) = requests[u].release
        BY <3>2 DEF NewVersion
      <4>2. row.version = release /\ requests[u].release = release
        BY <2>2, <4>1 DEF Stamp, CurrentRequests
      <4> QED BY <2>2, <3>2, <4>1, <4>2 DEF Stamp, TypeOK, Rows
    <3> QED BY <3>1, <3>2
  <2>3. ASSUME NEW u \in Users, Step(u), ~Save(u), ~Stamp(u) PROVE row' = row
    BY <2>3 DEF Step, OpenSelection, OpenSummary, AnswerRequired, Select, DeleteCondition,
                Delete, Die
  <2> QED BY <2>1, <2>2, <2>3 DEF Next, Deploy, Reset
<1>2. Spec => [](TypeOK /\ CurrentRequests)
  <2>1. Init => TypeOK /\ CurrentRequests
    BY TypeInit, CurrentInit
  <2>2. (TypeOK /\ CurrentRequests) /\ [Next]_vars => (TypeOK /\ CurrentRequests)'
    BY TypeStep, CurrentStep
  <2> QED BY <2>1, <2>2, PTL DEF Spec
<1> QED BY <1>1, <1>2, PTL DEF Spec, VersionStays

-----------------------------------------------------------------------------
(* Every saved condition is known, when requests are not disturbed.  The     *)
(* danger is a licence with conditions and no version when a release comes:  *)
(* the request that saved the first conditions is then still to record it.   *)

\* What a request will write is known to the version it read, which is still
\* that of the row.
KnownRequests ==
  \A u \in Users : requests[u].todo # "none" =>
    /\ requests[u].new.additional \subseteq SetOf[VersionOf(requests[u].new, release)]
    /\ requests[u].new.version # NoVersion => row.version = requests[u].new.version

\* A request is about to record the first version.
Stamping == \E w \in Users : requests[w].todo = "stamp" /\ requests[w].new.version = NoVersion

\* While there is no version and none is about to be recorded, there are no
\* conditions, and only a request that will record one has any to save.
Unstamped ==
  \/ row.version # NoVersion
  \/ Stamping
  \/ /\ row.additional = {}
     /\ \A u \in Users : requests[u].todo = "save" /\ requests[u].new.version = NoVersion
                            => requests[u].new.additional = {}

KnownInv == TypeOK /\ CurrentRequests /\ KnownRequests /\ Unstamped /\ ConditionsKnown

LEMMA KnownInit == Init => KnownInv
<1> SUFFICES ASSUME Init PROVE KnownInv
  OBVIOUS
<1>1. TypeOK /\ CurrentRequests
  BY TypeInit, CurrentInit
<1>2. KnownRequests /\ Unstamped /\ ConditionsKnown
  BY DEF Init, KnownRequests, Unstamped, ConditionsKnown, Renders, EmptyRow, NoRequest
<1> QED BY <1>1, <1>2 DEF KnownInv

\* A request that begins, and saves nothing the licence does not have or the
\* version does not know.
LEMMA KnownBegin ==
  ASSUME KnownInv, NEW u \in Users, UNCHANGED <<row, release>>, requests[u].todo = "none",
         NEW request, requests' = [requests EXCEPT ![u] = request],
         \/ request.todo = "none"
         \/ /\ request.new.version = row.version
            /\ request.new.additional \subseteq SetOf[VersionOf(row, release)]
            /\ \/ request.todo = "save conditions"
               \/ request.todo = "save" /\ request.new.additional \subseteq row.additional
  PROVE  KnownRequests' /\ Unstamped' /\ ConditionsKnown'
<1> USE DEF KnownInv
<1>1. requests'[u] = request /\ \A v \in Users \ {u} : requests'[v] = requests[v]
  BY DEF TypeOK
<1>2. KnownRequests'
  <2>1. ASSUME NEW w \in Users, requests'[w].todo # "none"
        PROVE  /\ requests'[w].new.additional \subseteq SetOf[VersionOf(requests'[w].new, release)]
               /\ requests'[w].new.version # NoVersion => row.version = requests'[w].new.version
    <3>1. CASE w = u
      BY <1>1, <2>1, <3>1 DEF VersionOf
    <3>2. CASE w # u
      <4>1. requests'[w] = requests[w]
        BY <1>1, <3>2
      <4> QED
        BY <2>1, <4>1 DEF KnownRequests
    <3> QED
      BY <3>1, <3>2
  <2> QED
    BY <2>1 DEF KnownRequests, VersionOf
<1>3. Stamping => Stamping'
  BY <1>1 DEF Stamping
<1>4. Unstamped'
  BY <1>1, <1>3 DEF Unstamped
<1>5. ConditionsKnown'
  BY DEF ConditionsKnown, Renders, VersionOf
<1> QED BY <1>2, <1>4, <1>5

LEMMA KnownWriting ==
  ASSUME KnownInv, NEW u \in Users, UNCHANGED <<row, release>>, requests[u].todo = "none",
         NEW todo, NEW new, new.version = row.version,
         new.additional \subseteq SetOf[VersionOf(row, release)],
         todo = "save conditions" \/ (todo = "save" /\ new.additional \subseteq row.additional),
         \/ requests' = [requests EXCEPT ![u] = Writing(todo, new)]
         \/ requests' = [requests EXCEPT ![u] = [Writing(todo, new) EXCEPT !.changed = TRUE]]
  PROVE  KnownRequests' /\ Unstamped' /\ ConditionsKnown'
<1>1. CASE requests' = [requests EXCEPT ![u] = Writing(todo, new)]
  <2>1. Writing(todo, new).todo = todo /\ Writing(todo, new).new = new
    BY DEF Writing
  <2> QED BY <1>1, <2>1, KnownBegin
<1>2. CASE requests' = [requests EXCEPT ![u] = [Writing(todo, new) EXCEPT !.changed = TRUE]]
  <2> DEFINE request == [Writing(todo, new) EXCEPT !.changed = TRUE]
  <2>1. request.todo = todo /\ request.new = new
    BY DEF Writing
  <2> HIDE DEF request
  <2>2. requests' = [requests EXCEPT ![u] = request]
    BY <1>2 DEF request
  <2> QED BY <2>1, <2>2, KnownBegin
<1> QED BY <1>1, <1>2

\* The write of the section.
LEMMA KnownSave ==
  ASSUME KnownInv, NEW u \in Users, Save(u)
  PROVE  KnownRequests' /\ Unstamped' /\ ConditionsKnown'
<1> USE DEF KnownInv
<1>1. /\ release' = release
      /\ row'.version = row.version
      /\ row'.additional \in {row.additional, requests[u].new.additional}
  BY DEF Save, TypeOK, Rows
<1>2. /\ \A v \in Users \ {u} : requests'[v] = requests[v]
      /\ requests[u].todo = "save" => requests'[u].todo = "none"
      /\ requests[u].todo = "save conditions" =>
           requests'[u].todo = "stamp" /\ requests'[u].new = requests[u].new
      /\ requests[u].todo \in {"save", "save conditions"}
  BY DEF Save, TypeOK, NoRequest
<1>3. KnownRequests'
  BY <1>1, <1>2 DEF KnownRequests, VersionOf
<1>4. ConditionsKnown'
  <2>1. requests[u].new.additional \subseteq SetOf[VersionOf(row, release)]
    <3>1. requests[u].new.additional \subseteq SetOf[VersionOf(requests[u].new, release)]
      BY <1>2 DEF KnownRequests
    <3>2. VersionOf(requests[u].new, release) = VersionOf(row, release)
      BY <1>2 DEF KnownRequests, CurrentRequests, VersionOf
    <3> QED BY <3>1, <3>2
  <2>2. VersionOf(row', release') = VersionOf(row, release)
    BY <1>1 DEF VersionOf
  <2>3. row'.additional \subseteq SetOf[VersionOf(row, release)]
    BY <1>1, <2>1 DEF ConditionsKnown, Renders
  <2> QED BY <2>2, <2>3 DEF ConditionsKnown, Renders
<1>5. Unstamped'
  <2>1. CASE row.version # NoVersion
    BY <2>1, <1>1 DEF Unstamped
  <2>2. CASE Stamping
    BY <2>2, <1>2 DEF Unstamped, Stamping
  <2>3. CASE row.version = NoVersion /\ ~Stamping
    <3>1. requests[u].new.version = NoVersion
      BY <2>3, <1>2 DEF KnownRequests
    <3>2. CASE requests[u].todo = "save conditions"
      BY <3>1, <3>2, <1>2 DEF Unstamped, Stamping
    <3>3. CASE requests[u].todo = "save"
      <4>1. requests[u].new.additional = {} /\ row.additional = {}
        BY <2>3, <3>1, <3>3 DEF Unstamped
      <4> QED BY <4>1, <2>3, <3>3, <1>1, <1>2 DEF Unstamped
    <3> QED BY <3>2, <3>3, <1>2
  <2> QED BY <2>1, <2>2, <2>3
<1> QED BY <1>3, <1>4, <1>5

\* The statement that records the version.
LEMMA KnownStamp ==
  ASSUME KnownInv, NEW u \in Users, Stamp(u)
  PROVE  KnownRequests' /\ Unstamped' /\ ConditionsKnown'
<1> USE DEF KnownInv
<1>1. /\ requests[u].todo = "stamp" /\ release' = release
      /\ requests'[u].todo = "none"
      /\ \A v \in Users \ {u} : requests'[v] = requests[v]
  BY DEF Stamp, TypeOK, NoRequest
<1>2. requests[u].release = release
  BY <1>1 DEF CurrentRequests
<1>3. release # NoVersion
  <2>1. release \in Releases
    BY DEF TypeOK
  <2> QED BY <2>1, ReleaseAssumption DEF Releases, NoVersion
<1>4. CASE requests[u].new.version = NoVersion
  <2>1. row.version \in {NoVersion, release}
    BY <1>1, <1>4 DEF CurrentRequests
  <2>2. row'.version = release /\ row'.additional = row.additional
    BY <1>2, <1>3, <1>4 DEF Stamp, NewVersion, TypeOK, Rows
  <2>3. KnownRequests'
    BY <1>1, <2>1, <2>2 DEF KnownRequests, VersionOf
  <2>4. Unstamped'
    BY <1>3, <2>2 DEF Unstamped
  <2>5. VersionOf(row', release') = VersionOf(row, release)
    BY <1>1, <2>1, <2>2 DEF VersionOf
  <2>6. ConditionsKnown'
    BY <2>2, <2>5 DEF ConditionsKnown, Renders
  <2> QED BY <2>3, <2>4, <2>6
<1>5. CASE requests[u].new.version # NoVersion
  <2>1. row' = row
    BY <1>5 DEF Stamp, NewVersion
  <2>2. row.version # NoVersion
    BY <1>1, <1>5 DEF KnownRequests
  <2>3. KnownRequests'
    BY <1>1, <2>1 DEF KnownRequests, VersionOf
  <2> QED BY <1>1, <2>1, <2>2, <2>3 DEF Unstamped, ConditionsKnown, Renders, VersionOf
<1> QED BY <1>4, <1>5

\* Every step keeps the invariant when requests are not disturbed.
LEMMA KnownStep ==
  ASSUME KnownInv, [Next]_vars, Disturbances = {}
  PROVE  KnownInv'
<1> DEFINE Goal == KnownRequests' /\ Unstamped' /\ ConditionsKnown'
<1>a. TypeOK' /\ CurrentRequests'
  BY TypeStep, CurrentStep DEF KnownInv
<1>b. row.additional \subseteq SetOf[VersionOf(row, release)]
  BY DEF KnownInv, ConditionsKnown, Renders
<1>1. ASSUME NEW u \in Users, OpenSelection(u) PROVE Goal
  BY <1>1, KnownBegin DEF OpenSelection, Turn, Idle, NoRequest
<1>2. ASSUME NEW u \in Users, OpenSummary(u) PROVE Goal
  BY <1>2, KnownBegin DEF OpenSummary, Turn, Idle, NoRequest
<1>3. ASSUME NEW u \in Users, NEW answer \in {"Yes", "No"}, AnswerRequired(u, answer) PROVE Goal
  <2> DEFINE new == [row EXCEPT !.required = answer]
  <2>1. new.version = row.version /\ new.additional = row.additional
    BY DEF KnownInv, TypeOK, Rows
  <2> HIDE DEF new
  <2>2. UNCHANGED <<row, release>> /\ requests[u].todo = "none"
        /\ requests' = [requests EXCEPT ![u] = Writing("save", new)]
    BY <1>3 DEF AnswerRequired, Turn, Idle, new
  <2> QED BY <2>1, <2>2, <1>b, KnownWriting
<1>4. ASSUME NEW u \in Users, NEW ticked \in SUBSET Conditions, NEW bespoke \in BespokeLists,
             Select(u, ticked, bespoke)
      PROVE  Goal
  <2> DEFINE new == [row EXCEPT !.additional = Selected(row, ticked), !.bespoke = bespoke]
  <2>1. new.version = row.version /\ new.additional \subseteq SetOf[VersionOf(row, release)]
    BY DEF KnownInv, TypeOK, Rows, Selected
  <2> HIDE DEF new
  <2>2. UNCHANGED <<row, release>> /\ requests[u].todo = "none"
        /\ requests' = [requests EXCEPT ![u] = Writing("save conditions", new)]
    BY <1>4 DEF Select, Turn, Idle, new
  <2> QED BY <2>1, <2>2, KnownWriting
<1>5. ASSUME NEW u \in Users, NEW new, new.version = row.version,
             new.additional \subseteq row.additional, Delete(u, new)
      PROVE  Goal
  <2>1. UNCHANGED <<row, release>> /\ requests[u].todo = "none"
        /\ requests' = [requests EXCEPT ![u] = [Writing("save", new) EXCEPT !.changed = TRUE]]
    BY <1>5 DEF Delete, Turn, Idle
  <2> QED BY <1>5, <1>b, <2>1, KnownWriting
<1>6. ASSUME NEW u \in Users, DeleteCondition(u) PROVE Goal
  <2>1. ASSUME NEW c \in pages[u].additional, Delete(u, [row EXCEPT !.additional = @ \ {c}])
        PROVE  Goal
    <3>1. /\ [row EXCEPT !.additional = @ \ {c}].version = row.version
          /\ [row EXCEPT !.additional = @ \ {c}].additional \subseteq row.additional
      BY DEF KnownInv, TypeOK, Rows
    <3> QED BY <2>1, <3>1, <1>5
  <2>2. ASSUME NEW i \in 0..(pages[u].bespoke - 1),
               Delete(u, [row EXCEPT !.bespoke = RemoveBespoke(@, i)])
        PROVE  Goal
    <3>1. /\ [row EXCEPT !.bespoke = RemoveBespoke(@, i)].version = row.version
          /\ [row EXCEPT !.bespoke = RemoveBespoke(@, i)].additional = row.additional
      BY DEF KnownInv, TypeOK, Rows
    <3> QED BY <2>2, <3>1, <1>5
  <2> QED BY <1>6, <2>1, <2>2 DEF DeleteCondition
<1>7. ASSUME NEW u \in Users, Die(u) PROVE Goal
  <2>1. /\ UNCHANGED <<row, release>> /\ requests[u].todo # "stamp"
        /\ requests'[u].todo = "none"
        /\ \A v \in Users \ {u} : requests'[v] = requests[v]
    BY <1>7 DEF Die, KnownInv, TypeOK, NoRequest
  <2>2. KnownRequests'
    BY <2>1 DEF KnownInv, KnownRequests, VersionOf
  <2>3. Unstamped'
    BY <2>1 DEF KnownInv, Unstamped, Stamping
  <2> QED BY <2>1, <2>2, <2>3 DEF KnownInv, ConditionsKnown, Renders, VersionOf
<1>8. ASSUME Deploy PROVE Goal
  <2>1. /\ UNCHANGED <<row, requests>>
        /\ \A u \in Users : requests[u].todo = "none"
    BY <1>8 DEF Deploy, AllIdle, Idle
  <2>2. row.version # NoVersion \/ row.additional = {}
    BY <2>1 DEF KnownInv, Unstamped, Stamping
  <2>3. KnownRequests'
    BY <2>1 DEF KnownRequests
  <2>4. Unstamped'
    BY <2>1, <2>2 DEF Unstamped
  <2>5. ConditionsKnown'
    <3>1. CASE row.version # NoVersion
      <4>1. VersionOf(row', release') = VersionOf(row, release)
        BY <2>1, <3>1 DEF VersionOf
      <4> QED BY <2>1, <4>1, <1>b DEF ConditionsKnown, Renders
    <3>2. CASE row.additional = {}
      BY <2>1, <3>2 DEF ConditionsKnown, Renders
    <3> QED BY <2>2, <3>1, <3>2
  <2> QED BY <2>3, <2>4, <2>5
<1>9. ASSUME Reset PROVE Goal
  <2>1. /\ row' = EmptyRow /\ UNCHANGED <<requests, release>>
        /\ \A u \in Users : requests[u].todo = "none"
    BY <1>9 DEF Reset, AllIdle, Idle
  <2>2. row'.additional = {}
    BY <2>1 DEF EmptyRow
  <2>3. KnownRequests'
    BY <2>1 DEF KnownRequests
  <2>4. Unstamped'
    BY <2>1, <2>2 DEF Unstamped
  <2>5. ConditionsKnown'
    BY <2>2 DEF ConditionsKnown, Renders
  <2> QED BY <2>3, <2>4, <2>5
<1>10. ASSUME UNCHANGED vars PROVE Goal
  <2>1. row' = row /\ release' = release /\ requests' = requests
    BY <1>10 DEF vars
  <2>2. KnownRequests'
    BY <2>1 DEF KnownInv, KnownRequests, VersionOf
  <2>3. Unstamped'
    BY <2>1 DEF KnownInv, Unstamped, Stamping
  <2>4. ConditionsKnown'
    BY <2>1 DEF KnownInv, ConditionsKnown, Renders, VersionOf
  <2> QED BY <2>2, <2>3, <2>4
<1>11. Goal
  <2> HIDE DEF Goal
  <2>1. ASSUME NEW u \in Users, Save(u) \/ Stamp(u) PROVE Goal
    BY <2>1, KnownSave, KnownStamp DEF Goal
  <2>2. ASSUME NEW u \in Users, Step(u) PROVE Goal
    BY <1>1, <1>2, <1>3, <1>4, <1>6, <1>7, <2>1, <2>2 DEF Step
  <2> QED BY <1>8, <1>9, <1>10, <2>2 DEF Next
<1> QED BY <1>a, <1>11 DEF KnownInv

\* However many officers choose, delete and answer at once, on pages of whatever
\* release, a licence never holds a condition its version does not know,
\* provided no request dies between its two statements and neither a release nor
\* a reset comes while one is under way.
THEOREM EveryConditionKnown ==
  ASSUME Disturbances = {}
  PROVE  Spec => []ConditionsKnown
<1>1. KnownInv /\ [Next]_vars => KnownInv'
  BY KnownStep
<1>2. KnownInv => ConditionsKnown
  BY DEF KnownInv
<1> QED BY KnownInit, <1>1, <1>2, PTL DEF Spec
=============================================================================
