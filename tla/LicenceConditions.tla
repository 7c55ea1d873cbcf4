-------------------------- MODULE LicenceConditions --------------------------
(***************************************************************************)
(* The additional and bespoke conditions of one licence.  The conditions   *)
(* an officer can choose from come in versions; a release of the program   *)
(* may bring a new one.  A licence is read by the version recorded in its  *)
(* row or, while there is none, by the current one of the program; it is   *)
(* recorded by a statement of its own after the first conditions were      *)
(* saved.  A saved condition that the version it is read by does not know  *)
(* is an error on every page and in the PDF.                               *)
(*                                                                         *)
(* What is entered with a condition is left out; so are the stage and the  *)
(* version number that every save moves (module LicenceWorkflow).          *)
(***************************************************************************)
EXTENDS Integers, Sequences

CONSTANTS Conditions,    \* every condition of every version
          LastRelease,   \* bound on the versions
          SetOf,         \* the conditions of each version
          Bespoke,       \* bespoke conditions, with what was said of their approval
          MaxBespoke,    \* bound on the bespoke conditions of a licence
          Users,
          Disturbances   \* what may befall a request under way

ASSUME ReleaseAssumption == LastRelease \in Nat /\ LastRelease >= 1
ASSUME SetOfAssumption == SetOf \in [1..LastRelease -> SUBSET Conditions]
ASSUME MaxBespokeAssumption == MaxBespoke \in Nat
ASSUME DisturbancesAssumption == Disturbances \subseteq {"death", "rollout", "reset"}

Releases == 1..LastRelease
NoVersion == 0

BespokeLists == UNION {[1..n -> Bespoke] : n \in 0..MaxBespoke}

VARIABLES row,      \* the licence: its version column and licenceConditions
          release,  \* CURRENT_CONDITION_VERSION of the running program
          pages,    \* the page in front of each user
          requests  \* the request under way of each user

vars == <<row, release, pages, requests>>

Rows == [version : Releases \cup {NoVersion}, required : {"None", "Yes", "No"},
         additional : SUBSET Conditions, bespoke : Seq(Bespoke)]
EmptyRow == [version |-> NoVersion, required |-> "None", additional |-> {}, bespoke |-> <<>>]

NoPage == [kind |-> "none", version |-> NoVersion, additional |-> {}, bespoke |-> 0]
NoRequest == [todo |-> "none", new |-> EmptyRow, changed |-> FALSE, release |-> NoVersion]

\* A request that read the row: the section it will write, whether that differs
\* from what it read, and the release it runs under.  The version stays as read.
Writing(todo, new) ==
  [todo |-> todo, new |-> new, changed |-> new # row, release |-> release]

-----------------------------------------------------------------------------

\* getVersion, forLicence: the version a licence is read by under a release.
VersionOf(r, current) == IF r.version = NoVersion THEN current ELSE r.version

\* createAdditionalMethod: every saved condition is looked up in the version.
Renders(r, current) == r.additional \subseteq SetOf[VersionOf(r, current)]

\* The items of the summary; a bespoke condition goes by its position among the
\* bespoke ones, from 0.  Nothing is listed when no conditions are required.
AdditionalShown(r) == IF r.required = "Yes" THEN r.additional ELSE {}

\* Mutant: the last position is taken for their number.
BespokeShown_LastIndex(r) == IF r.required = "Yes" THEN Len(r.bespoke) - 1 ELSE 0

BespokeShown(r) == IF r.required = "Yes" THEN Len(r.bespoke) ELSE 0

\* removeBespokeCondition: whatever is at that position by now.
RemoveBespoke(list, i) ==
  IF i >= Len(list) THEN list ELSE SubSeq(list, 1, i) \o SubSeq(list, i + 2, Len(list))

Idle(u) == requests[u].todo = "none"
AllIdle == \A u \in Users : Idle(u)

Turn(u, page, request) ==
  /\ pages' = [pages EXCEPT ![u] = page]
  /\ requests' = [requests EXCEPT ![u] = request]

-----------------------------------------------------------------------------
(* Pages. *)

\* GET /additionalConditions
OpenSelection(u) ==
  /\ Idle(u)
  /\ Turn(u, [NoPage EXCEPT !.kind = "selection", !.version = VersionOf(row, release)], NoRequest)
  /\ UNCHANGED <<row, release>>

\* GET /conditionsSummary
OpenSummary(u) ==
  /\ Idle(u)
  /\ row.required = "Yes" => Renders(row, release)
  /\ Turn(u, [NoPage EXCEPT !.kind = "summary", !.additional = AdditionalShown(row),
                            !.bespoke = BespokeShown(row)], NoRequest)
  /\ UNCHANGED <<row, release>>

-----------------------------------------------------------------------------
(* Requests: each reads the licence, then writes from what it read. *)

\* POST /standard
AnswerRequired(u, answer) ==
  /\ Idle(u)
  /\ Turn(u, NoPage, Writing("save", [row EXCEPT !.required = answer]))
  /\ UNCHANGED <<row, release>>

\* Mutant: whatever was ticked is saved.
Selected_All(r, ticked) == ticked

\* createConditionsObjectForLicence: what was ticked and the version knows.
Selected(r, ticked) == ticked \cap SetOf[VersionOf(r, release)]

\* POST /additionalConditions; bespoke conditions without a text are dropped.
Select(u, ticked, bespoke) ==
  /\ Idle(u)
  /\ pages[u].kind = "selection" /\ ticked \subseteq SetOf[pages[u].version]
  /\ Turn(u, NoPage, Writing("save conditions",
       [row EXCEPT !.additional = Selected(row, ticked), !.bespoke = bespoke]))
  /\ UNCHANGED <<row, release>>

Delete(u, new) ==
  /\ Idle(u) /\ pages[u].kind = "summary"
  /\ Turn(u, pages[u], [Writing("save", new) EXCEPT !.changed = TRUE])
  /\ UNCHANGED <<row, release>>

\* POST /additionalConditions/:bookingId/delete/:conditionId.  The page stays
\* until the next one is there: the button can be pressed again.  The section is
\* written even when the item was no longer there.
DeleteCondition(u) ==
  \/ \E c \in pages[u].additional : Delete(u, [row EXCEPT !.additional = @ \ {c}])
  \/ \E i \in 0..(pages[u].bespoke - 1) :
       Delete(u, [row EXCEPT !.bespoke = RemoveBespoke(@, i)])

\* The whole section is written, unless it is as it was read.
Save(u) ==
  LET r == requests[u]
  IN /\ r.todo \in {"save", "save conditions"}
     /\ row' = IF r.changed THEN [r.new EXCEPT !.version = row.version] ELSE row
     /\ requests' = [requests EXCEPT ![u] =
          IF r.todo = "save conditions" THEN [r EXCEPT !.todo = "stamp"] ELSE NoRequest]
     /\ UNCHANGED <<release, pages>>

\* Mutant: the current version is recorded with every save.
NewVersion_Current(r) == r.release

\* getNewVersion, setAdditionalConditionsVersion: only for a licence that was
\* read without one.
NewVersion(r) == IF r.new.version = NoVersion THEN r.release ELSE NoVersion

Stamp(u) ==
  LET version == NewVersion(requests[u])
  IN /\ requests[u].todo = "stamp"
     /\ row' = IF version = NoVersion THEN row ELSE [row EXCEPT !.version = version]
     /\ requests' = [requests EXCEPT ![u] = NoRequest]
     /\ UNCHANGED <<release, pages>>

-----------------------------------------------------------------------------
(* What may happen besides. *)

\* The process or a statement fails; what was written stays.  Between the two
\* statements of a first choice only where that is let happen.
Die(u) ==
  /\ ~Idle(u)
  /\ requests[u].todo = "stamp" => "death" \in Disturbances
  /\ requests' = [requests EXCEPT ![u] = NoRequest]
  /\ UNCHANGED <<row, release, pages>>

\* A new version of the conditions.  A request under way is finished by the
\* program that began it.
Deploy ==
  /\ AllIdle \/ "rollout" \in Disturbances
  /\ release + 1 \in Releases
  /\ release' = release + 1
  /\ UNCHANGED <<row, pages, requests>>

\* The licence is reset and started again; writes go by the booking.
Reset ==
  /\ AllIdle \/ "reset" \in Disturbances
  /\ row' = EmptyRow
  /\ UNCHANGED <<release, pages, requests>>

-----------------------------------------------------------------------------

Init ==
  /\ row = EmptyRow
  /\ release = 1
  /\ pages = [u \in Users |-> NoPage]
  /\ requests = [u \in Users |-> NoRequest]

Step(u) ==
  \/ OpenSelection(u)
  \/ OpenSummary(u)
  \/ \E answer \in {"Yes", "No"} : AnswerRequired(u, answer)
  \/ \E ticked \in SUBSET Conditions, bespoke \in BespokeLists : Select(u, ticked, bespoke)
  \/ DeleteCondition(u)
  \/ Save(u)
  \/ Stamp(u)
  \/ Die(u)

Next == (\E u \in Users : Step(u)) \/ Deploy \/ Reset

Spec == Init /\ [][Next]_vars

-----------------------------------------------------------------------------
(* Properties. *)

\* Every variable keeps its type.
TypeOK ==
  /\ row \in Rows
  /\ release \in Releases
  /\ pages \in [Users -> [kind : {"none", "selection", "summary"}, version : Releases \cup {NoVersion},
                          additional : SUBSET Conditions, bespoke : Nat]]
  /\ requests \in [Users -> [todo : {"none", "save", "save conditions", "stamp"}, new : Rows,
                             changed : BOOLEAN, release : Releases \cup {NoVersion}]]

\* The licence can always be shown and printed: the version it is read by knows
\* every condition saved, whichever releases came in between and however old the
\* pages the conditions were chosen on.
ConditionsKnown == Renders(row, release)

\* Once recorded, the version of a licence stays until the licence is reset
\* ("from that point onwards they will only be able to see that version",
\* conditions/additionalConditions/README.md).
VersionStays ==
  [][row.version # NoVersion => row'.version = row.version \/ row' = EmptyRow]_vars
=============================================================================
