# Licences: a TLA+ model

The application (`src/`) is used by case admins (CA), responsible officers (RO)
and decision makers (DM) to prepare, approve, print and vary a licence for home
detention curfew. It is an Express server over PostgreSQL; several replicas run
behind a load balancer (`helm_deploy/licences/values.yaml`, `replicaCount: 4`).
Everything that makes a licence correct is a JSON document, a stage and two
version numbers in one row, written by requests that read once and write later,
statement by statement, with nothing locked and nothing compared again; what a
page then offers, demands or prints is worked out from that document in several
places that have to agree; and other services are told by calls of their own.
That is what these modules are about.

- [Inventory](#inventory)
- [Modules](#modules)
- [The workflow](#the-workflow-licenceworkflow)
- [Records, resets and the pool](#records-resets-and-the-pool-licencerecord)
- [The scheduled job](#the-scheduled-job-joblock)
- [The journey of a case](#the-journey-of-a-case-licencestatus-tasklists-casereview-caselists-casejourney)
- [What other services are told](#what-other-services-are-told-outcomereporting)
- [Conditions and their versions](#conditions-and-their-versions-licenceconditions)
- [Reminders](#reminders-duedates-reminders)
- [Runs](#runs)
- [Proofs](#proofs)
- [Where the code departs from its documentation](#where-the-code-departs-from-its-documentation)
- [What is not modelled](#what-is-not-modelled)
- [Plan](#plan)

## Inventory

| Component | State it keeps | Operations | Interacts with | Correct when |
|---|---|---|---|---|
| Licence store (`licenceClient.ts`, migrations) | table `licences` (document, `stage`, `version`, `vary_version`), table `licence_versions` (snapshots), both soft-deleted | `createLicence`, `updateLicence`, `updateSection`, `updateVersion`, `updateStage`, `saveApprovedLicenceVersion`, `softDeleteLicence` | pool of `db.ts`; one transaction only, in `softDeleteLicence` | each snapshot is the document printed under its numbers; no number is skipped or reused |
| Licence service (`licenceService.ts`) | none | `update`, `updateLicenceConditions`, `deleteLicenceCondition`, `markForHandover`, `removeDecision`, reject / withdraw / reinstate address, `resetLicence` | store; called by the routes with the licence the middleware has read | the stage follows the workflow; a reviewed change goes back to the DM |
| Request pipeline (`middleware.ts`, `routes/**`) | `res.locals` for one request: licence, prisoner, `postRelease` | GET pages, POST forms | reads the store and the prison service, then calls the service | what was read is still true when it is used |
| Handover (`send.js`, `notificationService.js`, `roNotificationHandler.js`) | none | the transitions between CA, RO and DM | stage change, removal of a decision, e-mails, audit | a handover leaves the stage it was offered at |
| Snapshots and PDF (`pdfService.ts`, `pdf.ts`, `versionInfo.js`) | none | choose the licence type, `checkAndTakeSnapshot`, print | store | what is printed has been recorded |
| Creation and reset (`taskList.ts`, `admin/licence.ts`, `db.ts`) | rows, connection pool | `eligibilityStart`, `varyStart`, reset | store, two connections at once | one live row; no snapshot without its row; no wait for ever |
| Scheduled job (`jobSchedulerService.js`, `jobUtils.js`, `dbLockingClient.js`) | advisory lock of a database session | `onceOnly(roReminders)` | pool of each replica | once per tick, on one replica |
| Task lists and status (`licenceStatus.ts`, `viewModels/taskLists/**`, `caTransitions.ts`, `roTransitions.ts`) | none: derived from document and stage | `getLicenceStatus`, transitions, task lists | pages | what is offered is what the case needs |
| Address and CAS2 history (`address.js`, `bassReferral.js`, `recordList.js`) | lists of rejected records in the document | reject, withdraw, reinstate | service, HDC opt-out events | nothing is lost between the current record and the list; who is printed has somewhere to live |
| Validation (`formValidation.ts`, `review.js`, `config/*.js`) | none | which forms a case needs, what is wrong with them | review pages, handovers | the four places that decide what is missing agree |
| NOMIS push (`nomisPushService.js`, `approval.js`) and HDC events (`hdcService.ts`, `finalChecks.ts`, `address.js`) | checks and approval status in the prison service; events sent to the CVL service | push, reset, opt out and in, postpone, refuse | prison service, CVL | what a user was told went through is known there |
| Conditions (`conditionsService.ts`, `conditionsServiceFactory.ts`, `additionalConditions/**`) | column `additional_conditions_version`, section `licenceConditions` | choose, answer, delete, stamp | store | every saved condition is one its licence's version knows |
| Reminders (`reminderService.js`, `roNotificationSender.js`, `dueDates.js`, `licenceClient.ts`) | `transition_date` | letter to the RO, three kinds of reminder | job, store, e-mail service | reminders agree with the date in the letter |
| Case lists (`licenceStatusLabels.js`, `caseListService.ts`, `caseListFormatter.js`, `views/caseList`) | none | label, tab and button of a case for each role | status; the task list its button leads to | whoever has to go on with a case finds it, under a name that is true |
| Look-ups, users, HTTP clients, views | none, or small administration tables | | | see [What is not modelled](#what-is-not-modelled) |

What is hard here: two requests of two people in either order; a request that
uses at the end what it read at the beginning; two statements that should have
been one; a request that dies between them; a page left open; an answer saved
before it is found invalid; answers given to a question that was then asked
about something else; a service told of half of what happened; two version
counters whose meaning changes when the prisoner leaves; a second connection
needed while one is held; a lock that belongs to a connection and not to the
code that took it; working days counted forwards in one place and backwards in
another. `PROJECT.json` lists each at its line under `hazards`.

## Modules

```
LicenceStore           the row, the snapshots, every statement and stage table (no state)
  LicenceWorkflow      the requests that issue the statements
    LicenceOverlap     how far they have to be kept apart
    LicenceSerial      one request at a time implements ...
      LicenceLifecycle ... the atomic lifecycle (abstract)
      LicenceSerial_proofs
    LicenceWorkflow_proofs     (of both)
LicenceRecord          start, print and reset over the pool
    LicenceRecord_proofs
JobLock                the job on several servers
    JobLock_proofs
LicenceStatus          the answers of a case and the task states (no state)
  CaseLists            the label, tab and button of each role's case list (no state)
  TaskLists            the task list of each role, the transitions (no state)
    CaseReview         validation, and what the review pages say of it (no state)
      CaseJourney      every form and handover of a case, until it can be printed
        CaseJourney_proofs
OutcomeReporting       saving a form and telling NOMIS and CVL
    OutcomeReporting_proofs
LicenceConditions      conditions, their version, and the users who edit them
    LicenceConditions_proofs
DueDates               working days and deadlines (no state)
  Reminders            handover, letter and reminder job over a calendar
    Reminders_proofs
MC*                    values of the constants for TLC
```

`LicenceSerial` extends `LicenceWorkflow` and instantiates `LicenceLifecycle`
with a refinement mapping; `LicenceOverlap` extends `LicenceWorkflow` with
specifications in which some kinds of request do not overlap others. The families are separate because their hazards are:
the workflow has versions and no answers, the journey has answers and no
versions, the records have no content. They meet in their parts: the stage table
of `LicenceStore` and the transitions of `TaskLists` are the same code seen
twice, once as what a POST may write at any time and once as what a page offers.

A definition named `X_Something` before a definition `X` is `X` with a plausible
mistake in it; it is used by no specification and shows, when it is put in the
place of `X`, that the property named beside it in `PROJECT.json` notices.

## The workflow (`LicenceWorkflow`)

**State.** `row` is the live row of `licences`; `versions` are the live rows of
`licence_versions`; `released` is whether the prison service reports agency
`OUT`; `req[p]` is a request: what it has read (`stage`, `post`, `read`,
`approved`), what it will write (`newDoc`) and the statement it issues next
(`pc`); `pages` are handover pages served and still open. `failures`, `torn` and
`decided` are bookkeeping: failures so far, whether the last thing that happened
to the version was a death between a write and `updateVersion`, and the reviewed
answers which the page of the last decision showed: a page is what it leads to and
what it showed when it was opened, so a decision sent from an old one counts for
the answers that were on it and not for those in the row.

**Data.** The document is five parts of one value each: `approval` (the
decision), `licenceConditions`, `curfewHours` (a form marked
`modificationRequiresApproval`), `template` (the licence type, `noModify`) and
`address`, which stands for every other form and for the address records. The
properties tell no more apart.

**Actions.** A request arrives in one step: the middleware's read of the row and
of the prisoner is atomic, and the handler computes from it. Then:

| Request | Statements, in this order | Code |
|---|---|---|
| `SubmitForm` | `WriteDoc`, `Bump`, `FlagModification` | `licenceService.update`, `updateLicence`, `updateVersion`, `updateModificationStage` |
| `SubmitConditions` | `FlagModification`, `WriteSection`, `Bump` | `updateLicenceConditions` |
| `DeleteCondition` | `WriteSection`, `Bump` | `deleteLicenceCondition` |
| `MoveAddress` | `WriteDoc`, `Bump` | `rejectProposedAddress`, `reinstateProposedAddress` |
| `SendHandover` | `MarkForHandover` (or `ResponsibleOfficerMissing`), for a return also `WriteDoc`, `Bump` | `sendCaOrDm`, `sendRo`, `removeDecision` |
| `StartPdf` | `ReadRow`, `ReadApproved` in either order; if a snapshot is due `TakeSnapshot` and both reads again; `PrintLicence` | `checkAndTakeSnapshot`, `getLicence`, `/pdf/create` |

`Release` and `Fail` are the environment. `Fail` ends a request at any statement:
what was committed stays.

**Decisions taken.** A form is posted from a page the task list offers (role and
stage are checked by `Editable`); a handover can also be posted from a page left
open, because the POST checks the role only (`MaxOpenPages`). `Release` happens
past approval. What the answers mean, the push to NOMIS, the letter to the officer
and the stamp of `additional_conditions_version` are the subject of the modules
below and left out of this one; the audit trail is left out of all.

**Fairness.** None: users may stop at any point, and all properties of this
module are safety properties. Deadlock is not checked because the bounds and the
users let the system stop.

**Refinement.** `LicenceLifecycle` is what a reader of the notes believes: a
change is one step that replaces one part, moves the right number and the stage;
a handover is one step; a print is one step that records what it prints.
`LicenceSerial` maps the statements of the one request that runs onto it (the
step is taken at the first statement, the rest are stutters: `Finished` says what
the row will be when the request ends). Run `serial` checks
`ImplementsLifecycle` with one request and no failure, and
`LicenceSerial_proofs!SerialIsAtomic` proves it for every value. With two
requests, or with one that dies, the mapping fails; that is what the other runs
are about.

**Overlap.** Nothing in the code keeps two requests apart, so `Spec` lets any number
of them overlap, and under it the decision, the reapproval and the print can all be
lost (see the departures). `LicenceOverlap` asks how much care of the users would
be enough. Each of its specifications is `Spec` with a hypothesis about who acts at
the same moment, and leaves every other overlap in:

| Specification | Runs alone | Keeps |
|---|---|---|
| `SpecHandoversApart` | a handover | `DecisionStands` |
| `SpecReviewsApart` | a handover, and a change of the conditions or the curfew hours | `ReapprovalHolds` |
| `SpecPrintsApart` | a print, but for other prints | `PrintedMatchesSnapshot`, `SnapshotPossible` |
| `SpecAllApart` | all of these | what run `apart` checks |

The hypotheses are about people, not about the program. They cannot be dropped:
TLC finds `DecisionStands` violated under `Spec`, `ReapprovalHolds` under
`SpecHandoversApart`, and the two others under `Spec`. What the theorems show is which
overlaps the code does survive: a whole document written back from an old
reading, and a stage flagged from one, lose answers but not the decision; the
statements of `checkAndTakeSnapshot` need no lock against other prints.
`SpecReviewsApart` and `SpecAllApart` also ask that no page with a decision on it is
kept open (`DecisionsFresh`): a handover does not look at the stage, so such a page,
sent when the case has moved on, decides a licence with answers it never showed.
Every other handover may be sent late.

## Records, resets and the pool (`LicenceRecord`)

`live` are the rows of a booking not deleted, numbered as inserted; `doomed[p]`
what the open transaction of `p` has marked; `recorded` the live snapshots, each
named by the row it copies; `free` the idle connections and `using` the requests
whose statement has one. Any statement takes a connection (`Acquire`), is executed
and gives it back (`Executed`). `start` is `Look`, `Insert`; `print` is
`ReadLicence`, `TakeSnapshot`; `reset`, which only an administrator sends
(`Admins`), is `Connect`, which keeps its connection until the transaction ends,
`DeleteRow` (waits for the row lock of another reset), `DeleteVersions` (needs
a **second** connection, and commits at once), `Commit`. `Fail` rolls an open
transaction back and gives its connections back; snapshots already deleted stay
deleted. `strayed` records that a snapshot was taken while some reset was
between its second statement and its commit: the row was still there to be
copied, the deletion of the snapshots was already over, and the copy will
outlive the row and be taken for a version of the next one. That window is the
only one (`OrphansOnlyFromInsideReset`).

**Resets.** The run has a pool of two and two administrators, so the pool does run
dry: two resets can each hold a connection, one waiting for its second and the other
for the row, and neither ends. That state is `Jammed`, and `ResetsEnd` says
that it is the only way for a reset that has its transaction not to end: other
requests delay it and do not stop it, two resets can wait for one row, and a
connection that is lost anywhere makes the property fail. Without `Jammed` TLC finds
`ResetsEnd` violated; with one administrator `Jammed` is never reached (50,214
states), and `FewResetsNeverJam` proves that for any numbers of resets and
connections. The default of `pg.Pool` is 10.

**Fairness.** A statement that has its connection is executed: weak fairness of
`DeleteVersions`, `Commit` and the statements of other requests. Waits are served in
turn, by the queue of `pg.Pool` and that of the row lock: strong fairness of
`Acquire` and `DeleteRow` for a reset. Users owe nothing, and a reset that has not
got its first connection is not claimed to get one.

## The scheduled job (`JobLock`)

Each replica fires the job by its own clock (`due`), tries the advisory lock
through its pool, and in `finally` unlocks, loser or not. `holder` is the
session (replica and connection) that has the lock and `depth` how often:
advisory locks nest. Lock and unlock take whichever connection is idle, so
an unlock may be sent on another session than the lock and do nothing.

**Assumptions about time**, each the guard of one action: the overlap timeout
(5 s, `config.ts:317`) is longer than the clocks differ (`EndDelay`); the pool
closes a connection idle for 10 s, which is longer too (`CloseIdle`); a run
ends before the schedule comes due again (`Tick`). `roReminders` catches its own
errors, so the job always returns and the delay always follows.

`TickNotMissed` has `clear` as a condition: when the unlock went to the wrong
session and the connection that kept the lock has stayed busy, the next tick is
missed on every other replica. That the lock comes back is not claimed: a
session under steady traffic is never closed.

## The journey of a case (`LicenceStatus`, `TaskLists`, `CaseReview`, `CaseLists`, `CaseJourney`)

**State.** `stage` and `doc` are the row; `page` is the page the last request led
to; `scope` is what this behaviour is about and never changes. `decidedOn` and
`rechosen` are bookkeeping: the address in the document when the DM released the
offender, and whether the CA made the choice of address again after a review.

**Data.** `doc` has a field for each answer that some guard, task state,
validation or transition looks at. An answer is `None`, `Yes` or `No`; a form
whose fields matter only together is `None`, `Part` or `Full`. An address is none
or one of four: `a1` complete, `a2` the offender's own (and complete), `a3`
incomplete, `a4` complete with a postcode that the schema refuses: its task is
done and the check rejects it. `rejections` is the list of rejected and withdrawn addresses,
`bassRejections` that of referrals. Answers stay when the question they answer
is no longer asked, as they do in the code.

**Operators.** `LicenceStatus` is `getLicenceStatus` (every task state and
decision that something else reads), `isAcceptedBassReferral` and the like, and
the path `pdfFormatter.js` takes to the address it prints. `TaskLists` is the list
of each role at each stage, as the set of pages its visible tasks lead to, with the
transitions of `caTransitions.ts` and `roTransitions.ts`. `CaseReview` is the
validation: the schemas, the group of forms that `formValidation.ts`
asks at a status, the sections that the review page shows and the forms that have a
place in them. A task that is done and a form that is accepted are two things. The
two forms the CA is checked on are modelled as the schemas have them. Of a form
of the RO, `FormAnswered` has the answers it cannot do without; a reporting date
that has passed, a postcode, a condition without its details and the questions no
task counts (the home visit, what must not be disclosed) can still
have a done form refused, and no property claims otherwise. `CaseLists` is the row of a case on each role's list.

**Actions.** One per form or button (34 forms, of which two are the review pages
of the CA, and 11 handovers); the guard is that the page is reachable, which means
a task of the list that is visible, or a link of such a page, or where the last
request redirected (`Reach`). The effect is the handler's: the section written
(`Write`, with `update`'s rule for the stage), the address or referral moved to
the list, or back (`Reject`, `Reinstate`, `DeactivateBass`, `ReinstateBass`), the
redirect. The two review pages of the CA have no `Continue` while answers are
missing, which is a guard; the RO's page only marks the errors and lets the case
be sent.

**Decisions taken.** One request at a time from a page that shows the current
case: overlap and stale pages are `LicenceWorkflow`'s. The forms after release
are not offered. `scope.cvl` stands for the flag that sends the rest of the
licence to another service.

**Properties.** `PrintNeedsAddress` relates two readings of the document: the task
list that offers the print (by the choice and the offer) and the page that is
printed (`PrintedAddress`); what is printed has passed what its kind needs, except
that an offer saved blank prints the residence that lies under it.
`ApprovedIsEligible` and `PrintedAddressWasDecided` relate what can be printed to
answers given long before on other pages. `WithdrawalUndone` and `AddressesKept`
are about the list: reinstating undoes withdrawing field by field, and only typing
over an address removes it. `ReviewTells` is that the four places which decide
what is asked for agree while the RO works: a proposal sent to the RO is one that the
check accepted (`ProposalAccepted`, though choice and answers can change between
the check and the button), each form the check reads has its place in a section
that is shown (`ErrorsMarked`), and a residence called ready to send back lacks no answer
a form cannot do without (`ReadyIsAnswered`). Its exceptions are `CheckLeftOver` and
those named in `ErrorsMarked` and `ReadyIsAnswered`, and are listed among the departures.
`ListAgrees` is that two derivations from one document agree: whoever has to go on
with a case finds it on the active tab, with a button that leads to the task list,
and the label says what the task list then allows.

## What other services are told (`OutcomeReporting`)

**State.** `stage`, `doc` (decision and reason of each question) and `live` are
the row; `nomis` and `cvl` what the other services hold; `request` the form being
processed and the calls it still has to make; `page`, `forms` as above; `settled`
the forms whose last submission ended well.

**Actions.** `Submit` saves the answer and lines up the calls that the handler
makes for it (`CallsOf`), in their order: `pushStatus` with the status for the
decision and the reason, `pushChecks`, the audit record, and the HDC events,
each with its own test of what is news. `SubmitFails` is a failure before the
save. `CallSucceeds` makes the next call; `CallFails` ends the request with
the rest undone, and the user is shown an error and may send the form again.
`Finish` redirects. `Handover`, `Reset` and `Start` are requests too;
`removeDecision`, which a return calls, and a reset change the document under what
was told.

**Decisions taken.** One request at a time; `pushToNomis` is on; an invalid answer
is saved before it is refused, as `standard.js` does. Which stage offers which
form is a superset of what the task lists allow.

**Properties.** `DecisionTold` is about a step: a case does not leave the DM before
NOMIS holds the status of the decision. The others are of the form "if the last
submission of F ended well, then what NOMIS (CVL) holds agrees with the document".
A submission that failed owes nothing, so it is the *retry* that must repair what
the failure left: `ChecksTold`, `EventsTold` (`OptTold` and `RefusalTold`) with
their exceptions named in the formula, and `ResetTold`. `PostponementTold` is the
one that fails.

## Conditions and their versions (`LicenceConditions`)

`row` has the version column and the section; `release` is the version the running
program takes for current; each user has a page (of the licence or release it was
rendered with) and at most one request, which is the `Save` of the section and
then the `Stamp` of `setAdditionalConditionsVersion` if the licence had none when
it was read. `Deploy` is a release of a new set, `Reset` a reset, `Die` a death
between the two statements. The set of each version and which events may fall
*inside* a request are constants: `Disturbances`, some of "death", "rollout" and
"reset". Without them a version stays with the licence and every
condition is known to it; with any of the three `ConditionsKnown` fails, and then
every page of the licence throws. A release or reset between requests is always
there.

## Reminders (`DueDates`, `Reminders`)

`DueDates` has the calendar: a day is working or not, and a moment is a day and
its part: before the cut-off, in its last second, after it (`15:00`, queried as
`14:59:59`). `BusinessAdd` counts forwards (letter), `BusinessSubtract` backwards
(windows). `Reminders` has `now`; the stage and `transition_date` of each case;
the handover request step by step (`MarkForHandover`, `WriteLetter`, the role, and
a failure anywhere); and the job's run: for each kind the query (`FindCases`) and
then the cases one by one in any order (`SendReminder`, `SkipReminder`), with a
query that fails, an officer not found and a death of the server.

`RemindedInTime` says each reminder called for is that of its day: two days
before, on, after the due date, and not on a later handover; `NoneForgotten` that
a run in which nothing failed has called for every case that had one due and
stayed where it was; `PromiseKept` that no reminder contradicts the date in the
letter of the same handover. Time passes by `Tick`, and a run ends on the day it
began: the schedule is a row of the table `job_config`, which an administrator
sets, and the cases are few.

## Runs

| Run | Instance | Distinct states | Shows |
|---|---|---|---|
| `serial` | one request, both starts, every operation but deleting a condition (see the departures), all nine handovers, `MaxVersion` 2 before and after release, no failure, no page kept open | 825,300 | the workflow as designed: types, decision, print, numbering, and the refinement, which contains the reapproval |
| `overlap` | two requests, both starts, forms, deleted conditions, two handovers (a refusal and a decision, the shortest way to a licence that can be printed), PDFs, one failure, `MaxVersion` 1, symmetric requests | 4,662,287 | version numbers and snapshots survive every interleaving of statements |
| `apart` | two requests, both starts, every operation but deleting a condition, five handovers (the shortest way to a decision and every way back from it), two templates, one handover page kept open, the decision's excepted, no failure, symmetric requests | 1,449,165 | with the requests of `SpecAllApart`, what is in force is what the decision's page showed or the licence waits for approval, and what is printed is recorded |
| `records` | three requests, two of which may be resets, two connections, two rows, one failure | 90,462 | see above, with liveness |
| `jobs` | three servers, two connections each, three ticks, two failures | 2,811 | one run per tick |
| `journey` | 20 scopes, four addresses, one rejection | 55,751 | every way a case can go, and what each list says of it |
| `unchecked_address` | one scope | 288 | a finding |
| `reporting` | three scopes of forms, two failures | 2,174,443 | retries repair what failures left |
| `lost_postponement` | one form | 36 | a finding |
| `conditions` | two officers, two releases that drop and add a condition, two bespoke conditions | 998,332 | no condition its version does not know |
| `reminders` | one case, handovers on three days around a weekend and a holiday, one letter again, one failure | 4,907,145 | letter and windows agree |
| `unsent_reminder` | the shortest calendar | 20 | a finding |

**Bounds.** One request suffices for `serial` by definition. Two are enough for
`overlap` and `apart` because each property relates the
row to at most one other writer, and the theorems cover any number. A version of 2 makes every branch of the two
`max` guards and of the snapshot order happen; in `overlap` 1 is enough for a
second snapshot after a change. Two values per part make "changed" and
"unchanged" differ; in `serial` the template has two besides blank since it is
compared with a recorded one. `records` has as many resets as connections, so that they
can hold all of them, and a third request that competes for the pool; a row can be
started while another is reset, and a failure falls between any two steps. Three ticks let a lock be left over in one, met in the next
and nested in a third. A scope of `journey` limits a behaviour to the forms of
one theme (exclusion, two routes to an address, review and rejection, CAS2 area,
withdrawal, decision and return, completion elsewhere ...) with every answer to
them; each pair of routes to an address is in some scope, and the theorems hold
for any scopes. One rejection lets an address be given up, another entered, and
the first one reinstated; the proofs have no bound. `reporting` has the forms
that write the same answer together in one scope. Two failures are one to lose
something and one to spoil the repair. In `conditions` two officers are enough
since each save replaces the whole section. The calendar of `reminders` puts the
window of each kind across a weekend and a holiday, and handovers and jobs on
the days on either side; allowance 2 and notice 1 stand for 10 and 2, and the
theorems for all.

Symmetry is used only in runs without temporal properties. Deadlock is not
checked where bounds or users let the system stop.

## Proofs

Checked by TLAPS, for every value of the constants:

| Theorem | States |
|---|---|
| `LicenceWorkflow_proofs!TypeCorrect` | `TypeOK`: every stage written is a stage |
| `!SnapshotsBehindRow` | no snapshot is ahead of the row in either number |
| `!VersionsContiguous` | every version below the row's has a snapshot |
| `!DriftOnlyInsideAWrite` | a row that shares its numbers with a snapshot and differs from it is being written, or its writer died |
| `!OverlapKeepsVersions` | with `MaxFailures = 0`, once no request runs every change has its own number, for any number of requests |
| `!OverlapKeepsDecision` | any overlap but of handovers, and any deaths: past approval there is a decision |
| `!OverlapKeepsReapproval` | any overlap but of handovers and reviewed changes, any page kept open but the decision's: past approval, a reviewed answer is as the decision's page showed it or the licence waits for approval |
| `!OverlapPrintsRecorded`, `!OverlapNeverBlocks` | any overlap of prints with prints, and of other requests with each other: what is printed is recorded, and a licence due a snapshot can have one |
| `!ApartLosesNothing` | these together, under the specification of run `apart` |
| `LicenceRecord_proofs!TypeCorrect` | types; connections are neither lost nor given back twice |
| `!RowsStayBounded` | no more live rows than requests |
| `!OrphansComeFromInsideResets` | the one window that leaves orphans |
| `!FewResetsNeverJam` | fewer resets than connections: however busy the pool, resets never hold all of it while they wait |
| `LicenceSerial_proofs!PrintIsRecorded` | what is printed is the document recorded under its numbers |
| `!SnapshotNeverBlocked` | a licence due a snapshot between two requests can have one |
| `!DecisionKept` | past approval there is a decision, requests that die included |
| `!ReapprovalKept` | past approval, a reviewed answer is as the decision's page showed it or the licence waits for approval |
| `!SerialIsAtomic` | the statements of each request implement `LicenceLifecycle` |
| `JobLock_proofs!TypeCorrect`, `!JobRunsOnce`, `!RunnerKeepsLock` | types; one execution per tick; the runner's lock is not released by others |
| `!JobNotMissed` | a tick that met no lock left over is executed |
| `CaseJourney_proofs!TypeCorrect`, `!Invariant` | types; the inductive invariant |
| `!NoneIneligible`, `!SomewhereToLive` | an approved case is eligible; what a licence prints has passed what its kind needs |
| `!WithdrawalIsUndone`, `!NoAddressLost` | the list of addresses and referrals loses nothing |
| `!ListsAgree` | the case lists and the task lists agree on every case |
| `!DecidedAddressPrinted` | the residence printed is the one decided on |
| `!ReviewAgrees` | a proposal was accepted, every form checked has its place, a residence called ready lacks no answer |
| `OutcomeReporting_proofs!TypeCorrect`, `!ChecksAlwaysTold`, `!EventsAlwaysTold`, `!DecisionAlwaysTold`, `!ResetAlwaysTold` | the four properties above, for any forms and any number of failures |
| `LicenceConditions_proofs!TypeCorrect`, `!EveryConditionKnown`, `!VersionStaysRecorded` | for any number of officers, releases and conditions |
| `Reminders_proofs!TypeCorrect`, `!RemindersInTime`, `!LettersKeepPromise`, `!NothingForgotten` | for every calendar, schedule, allowance, notice and number of cases |

*The workflow.* None of the three snapshot invariants is inductive alone; their
conjunction with `TypeOK` is (`VersionInv`). The guard of `updateVersion`
compares with the maximum over the snapshots of one column; that the row never
falls behind it needs `RowAheadOfSnapshots`, that a bump does not pass over an
unrecorded number needs `NoVersionSkipped`, and that a snapshot's document still
is the row's needs that the row was not written since without a bump, which is
`SnapshotIntegrity` with its exception, the requests at `bump` and `torn`.
`OverlapKeepsVersions` follows because `torn` stays false when nobody dies.

*Overlapping requests.* `Shapes` comes first and holds under `Spec`: which statement
each kind of request can be at, and about which part of the document; with it,
`ArriveShape` and `StepShape` say that a step moves one request and keeps its kind.
Each specification then has an invariant of its own. `DecisionSafe`: a handover that is running finds the licence where it was offered
(`HandoverReady`), and any other request has not read the licence past approval
unless it is still there, and while it is there has a decision in the document it
will write (`KeepsDecision`); so what it writes, and what it flags from its reading, keep the
decision, and a handover alone is the only step that takes the licence into or out
of those stages. `ReviewSafe`: a request that changes no reviewed answer will
write those the row already has, and has read the licence as settled only if it
still is; a decision that is sent showed what the row has (`DecisionsFresh`); a
request that changes one runs alone, so what it has
written and not yet flagged (`ReviewInv`, `BeingFlagged`) will be flagged from the
stage of the row. `PrintSafe`: a print has read the row as it is, and once it takes
no snapshot any more it has read one with the numbers of the row (`PairTaken`),
its own or another print's; with `SnapshotIntegrity` the document printed is the
recorded one. `AllApartIsApart` shows that run `apart` is an instance of the last two.
`Templates` adds that a snapshot is filed under the template in its
document, so a row that shares its numbers with a snapshot wants no other one and
no insertion is refused.

*One request at a time.* The theorems of `LicenceSerial_proofs` have
`OneAtATime` as hypothesis (no two requests in `Requests`), and each only what
more it needs:

| Theorem | No death | No page kept open | No deleted condition |
|---|---|---|---|
| `PrintIsRecorded`, `SnapshotNeverBlocked` | yes | | |
| `DecisionKept` | | yes | |
| `ReapprovalKept` | yes | yes | yes |
| `SerialIsAtomic` | yes | yes | yes |

Each hypothesis is one of the departures below, and TLC finds the property
violated without it. A request that is the only
one runs apart (`AlonePrintsApart`, `AloneReviewsApart`), so `PrintIsRecorded`,
`SnapshotNeverBlocked` and `ReapprovalKept` follow from the theorems above. `DecisionKept` and the refinement
need more: `RequestInv` says of each kind of request, statement by statement, that
the row still is what the request read, and `DecisionInv` adds to `DecisionStands`
the request under way: a licence is past approval, or about to be taken there,
only with a decision. In `SerialIsAtomic` the
abstract step is the request's *first* statement, and the mapped row (`Finished`)
is what the request will have made of the row; one lemma for each kind of request
shows that its first statement maps to the atomic operation and its other
statements to a stutter.

*The records.* `PoolBalanced` (the free connections, those of transactions and those
of single statements are the pool) strengthens `TypeOK`. `OnlyAdminsHold`: who holds
a transaction may be a reset, so fewer of these than connections cannot hold all.
`RowsBounded` adds to the live rows the requests that have decided to insert:
a request decides only when there is no live row, and then the sum is at
most the number of requests. `SnapshotsFollowRows` adds that before a commit
there is no snapshot left unless one strayed.

*The job.* While some server has still to try (`Contended`), at most one is
active and its session has the lock, so no other gets it; and `ran <= lost`
whenever one is about to run or may still become active. `JobNotMissed` needs the
converse (`RunOrToRun`): in a tick that began without a lock left over, until
somebody has the job nobody has the lock or has failed to get it, and somebody has
still to try. It assumes `Servers # {}`.

*The journey.* `IInv` adds five things to the types. `PageInv`: which stages the
page on the screen can belong to, without which a link could be followed at a
stage that does not offer it. `EligibleInv`: from the DM's page on, a decision in
favour is about an eligible offender, because every form that could make him
ineligible either is not offered there or takes the decision's effect with it.
`AddressInv`: a review that passed belongs to the address in the document, or the
case is not yet past it. `BassInv`: an offer that was accepted is of the referral
the case now asks for. `OptInv`: nobody has opted out while the case is with the
community. The last two are what makes the lists agree; lemmas on `FirstLabel` say
of each label which answer must have been given for it. Three more invariants
rest on these. `DecidedInv`, for `DecidedAddressPrinted`: while a decision about a
residence stands, an address in the document other than `decidedOn`, or one that
could be put back from the list, has no review, and one without a review cannot be
printed. `ProposalInv`, for `ReviewAgrees`: a proposal is accepted when it is sent,
and nothing the RO can do changes the answers the check reads (`ProposalKept`); the
rest is about what the status says of one document (`CheckedMarked`, `ReadyAnswered`). `RiskInv`: a risk assessment has
the answers of its version and no others, by `getRiskVersion` (a saved assessment
keeps its version) and the scopes' assumption that each form of
`riskManagementV1..V3.pug` sends the questions it shows.

Two properties were corrected by their proofs, because each had a counterexample
outside the scopes then checked. `PrintedAddressWasDecided` did not ask for an
address at the decision: an offer of CAS2 accepted before the choice of a residence
makes the list of the DM offer the release although the document holds no
residence (31 steps). `ErrorsMarked` excepted the review of an unsuitable address only:
a residence turned down for want of consent, then approved premises, then CAS2,
is asked for again in the same way; the scope `TurnedDown` now reaches it.

*Reporting.* A base invariant (`TypeOK` and `Coherent`: the calls lined up are a
tail of those the saved answer asks for), and for each property what holds while
its form's calls are under way (`Pending`): either the service already holds
what the document says, or the call that says so is still to come.

*Conditions.* `KnownInv`: the version a request carries is that of the row or,
while nothing is recorded, that of the release, and what it is about to save is
known to it. `EveryConditionKnown` has `Disturbances = {}` as hypothesis and
`VersionStaysRecorded` that no release falls inside a request: exactly the
events that break them.

*Reminders.* Lemmas on the calendar come first: `Index` grows by one on each
working day and `WorkingDay` is its inverse, hence counting forwards and
backwards agree (`Agreement`, `AgreementBack`, `DueDateMonotone`). On them rest
`WindowInv` (every case still to be worked through was in the window and either
still is or was handed over again), `LetterInv` and `CoverInv` (each case the
query had to find is served, or left, or still to come).

Assumptions are those named in the modules (`BlankAssumption`, `OpsAssumption`,
`AnswersAssumption`, `BoundsAssumption`, `RequestsAssumption`, `OpsKnown`,
`PoolAssumption`, `ScopeAssumption`, `ScopesAssumption`, `FailuresAssumption`,
`CalendarAssumption`, `ScheduleAssumption` and those of `LicenceConditions`); TLC
evaluates each.

Every leaf is found by the provers within a fifth of the time they are allowed, so the
proofs do not depend on the speed of the machine.

**Model-checked only.** Liveness (`ResetsEnd`), which is beyond the prover. Every
other property of a passing run is stated by a theorem. Where a theorem has
hypotheses, the run has the same constants: it shows no more than the theorem on
a small instance. In `apart` all hypotheses of `LicenceOverlap` hold together, while
each theorem has only its own. The instance of `OverlapKeepsDecision` is no run: it
is `Apart.cfg` with `SpecHandoversApart`, `MaxOpenPages = 0`, `MaxFailures = 1` and
without prints (1,085,749 states).

## Where the code departs from its documentation

Three are runs that end in a counterexample:

- `unchecked_address`: a rejection can be taken back and another address typed
  over the first; the review stays and counts for the new one
  (`views/review/address.pug:33` says it was checked).
- `lost_postponement`: an answer saved before it was refused counts as told
  (`finalChecks.ts:114`); CVL never hears of the postponement.
- `unsent_reminder`: the rows of a reminder have no `offenderNo`
  (`reminderService.js:80`), the sender throws in a promise nobody awaits, and the
  run reports the reminder as sent. Reminders are off in production
  (`values-prod.yaml:29`, `NOTIFY_ACTIVE_TEMPLATES`).

Others, which a model shows with other constants, which a property excepts by
name, or which were met while reading:

*Workflow.*
- Deleting a condition after release moves `version`, not `vary_version`:
  `deleteLicenceCondition` does not pass `postRelease` on (`licenceService.ts:222`,
  against `Notes.md:851`); `ImplementsLifecycle` with `deleteCondition` among `Ops`.
- A form that read `DECIDED` writes `MODIFIED` over the `MODIFIED_APPROVAL` a
  change of conditions wrote meanwhile (`licenceService.ts:308`, against
  `licenceService.test.ts:1249`); a form writes back the whole document it has
  read (`licenceService.ts:306`); two requests.
- As many resets at once as there are connections wait for each other for ever
  (`licenceClient.ts:281-286`): `Jammed`, which `ResetsEnd` excepts.
- Two starts of one booking create two rows (`taskList.ts:185`). From then on a
  print tries to insert two copies under one pair of numbers and fails.
- A snapshot is inserted with the template read earlier and the row as it is
  (`pdfService.ts:86`). If the licence type changed between, every later print
  wants a new snapshot of numbers already taken and is refused, until an edit;
  `SnapshotPossible` with two requests.
- A request that dies between `updateLicence` and `updateModificationStage`
  leaves a reviewed change at `DECIDED`, and posting it again does nothing
  (`licenceService.ts:302`); `ReapprovalHolds` with `MaxFailures = 1`. One that
  dies between a write and `updateVersion` leaves a document that differs from
  the snapshot of its numbers (`torn`).
- A handover page submitted late takes the licence out of turn: the POST does
  not look at the stage (`licenceService.ts:259-267`); `ImplementsLifecycle` with
  `MaxOpenPages = 1`. When the page is that of the decision, sent again after a
  reviewed answer was changed and the licence flagged, the change is in force without
  the DM having seen it; `ReapprovalHolds` with that page among those kept open.
- A condition deleted past approval, or an address moved, is not sent back to
  the DM; `ReapprovalHolds` with `deleteCondition` among `Ops`.
- A print that overlaps an edit can label a document with a version whose snapshot
  is another; `PrintedMatchesSnapshot` with two requests. Overlapping prints alone
  cannot (`OverlapPrintsRecorded`).
- A form that is saved between the two moments of a handover, when the page of the
  decision is read and when the stage is written, can take the answer away: the
  licence is decided without a decision (`licenceService.ts:266`, `:306`);
  `DecisionStands` with two requests.
- Two requests on either side of the release can move both numbers after one
  snapshot.

*Journey and review pages.*
- After approval the choice of address can be made again and a new address be
  printed under the old review (`rechosen`, excepted in `PrintedAddressWasDecided`).
  A case decided on a CAS2 offer can withdraw the referral, choose a residence and
  reinstate one withdrawn before the decision, and print it without the DM.
- A CAS2 offer saved blank after the decision prints the residence under it, on
  which the DM did not decide (excepted in `PrintNeedsAddress`).
- A CAS2 area found unsuitable without a reason, or to be approved premises, stays
  in the document when the case comes back and a residence is chosen
  (`CheckLeftOver`): the RO is then offered only the rejection of the area, or is
  asked for premises, which are printed. Rejecting the referral at eligibility
  repairs it.
- A CAS2 case whose old residence failed its review may be given approved premises,
  and the address of the premises that is then missing is marked nowhere.
- A case refused for lack of time that is returned has no way to be submitted; a
  case opted out can be printed; reinstating twice from one page can lose an
  address; the refusal form can be undone.
- `bassReferral.js:75` asks whether the area is suitable only of a form that says the
  request was for an area, and the form that is checked never does: an answer is never
  required (`formValidation.test.ts:1275`).
- A task that is done may be refused by the check: the tasks count conditions and
  answers, the schemas look into them (`FormAnswered`).
- The errors of an incomplete CAS2 area check are kept under
  `bassAreaCheck.bassReferral`, and the page reads `bassReferral.bassAreaCheck`:
  it says there is a problem and marks none. A CAS2 case with an unsuitable risk
  is asked for a review of a curfew address whose section is not shown.
  `roTransitions` calls a CAS2 case ready when only the area check is done.
  `licenceDetails.pug` says "ready to send" of any case.
- `formValidation.ts:25` works out today once, when the module is loaded.

*Case lists.*
- `licenceStatusLabels.js:132` asks for a decision `curfewAddressWithdrawn` that no
  status has: a withdrawn residence is listed as "Address suitable". A rejected
  residence of an offender no longer eligible is "Address not suitable" although
  only the eligibility can be gone on with (excepted in `ListAgrees`).
- Cases that can be gone on with are on the inactive tab: eligible to continue in
  spite of the time left, refused for time and waiting for it at `ELIGIBILITY`,
  refused and open for another submission. A postponed case is on the list of the
  DM without a button, a varied one on that of the CA.

*Reporting.*
- A refusal or opt-in whose event failed is not told again on the retry: the
  answer is already saved. Postponed and resumed: NOMIS keeps the postponement,
  and never gets the approval back. `Yes`, blank (saved, refused), `No` posts no
  `RESUME`. A refusal for want of an address or of time has no status on the form
  `refuseReason`. Decisions taken back, resumptions and withdrawn refusals are
  never told to NOMIS, a reset never to CVL. Reasons that are lists are compared by
  reference, so their event is repeated. Excluded and then not excluded with the
  chain abandoned leaves an eligible case with its checks failed in NOMIS.
  `bassReferral.js:8` takes the whole configuration for its flag `pushToNomis`.

*Conditions.*
- A PDF prints bespoke conditions that nobody has approved (`pdfService.ts:22`; the
  task only warns). Pressing delete twice, or on an old summary, removes the next
  bespoke condition, which nothing in the repository forbids; a deletion always writes the section as it was read. Conditions ticked on
  the page of an old release are dropped without a word after the release.
- A death between save and stamp, a release between reading and stamping, or a
  reset inside a request leaves conditions no page can render
  (`additionalConditions/README.md:14`: "will only be able to see that version").

*Reminders.*
- A case handed over in the last second before 15:00 is in no due window and not
  overdue the next day; a handover on a non-working day before the cut-off has a
  letter a working day earlier than its windows; a job on a non-working day repeats
  the next working day's reminders; holidays are listed to 2020.
- The letter counts from now, not from the handover: sent again it promises a
  later date. A missed or failed day's reminder is never sent.
- `sendRo` returns silently when officer or prison is not found, and the page says
  "Case sent"; a failure after `markForHandover` shows an error page, and sending
  again moves the transition date.

*Variation after release (read, not modelled).*
- `vary.ts:30` gives a function where a licence is expected, so the form of the
  curfew address is always blank, against its comment (22-25). A field left blank
  keeps its old value, so a new address can be printed with an old second line
  (`licenceService.ts:635`). The approval of an earlier variation satisfies the
  next. A stale "View current licence" link takes a snapshot and prints a new
  version.

## What is not modelled

- Presentation: views and wording, search and reports, the order of the case lists
  and how they are fetched. They derive everything from the status, which is
  modelled.
- Formats of form fields, the texts that go with an answer, dates of birth and the
  like: an answer is given or not, complete or not.
- Look-ups of officers, prisons and local delivery units: queries to other
  services that are modelled as found or not found where something depends on it.
- Users, roles, sign-in and tokens: library code; a role is assumed where a page
  demands it. HTTP clients are I/O; a call that fails is a failure of its caller.
- The migration of licences to the CVL service, beyond the flag.
- The content of e-mails and PDFs, the audit trail, the administration of the
  job's schedule, migrations of reference data, the mock server, third-party code
  (`jquery-1.11.3.js` alone is 28 % of the lines of the repository).

## Plan

Done: the core with its refinement, the records, the job, the journey with task
lists, review and case lists, reporting, conditions, reminders, and the proofs
listed.

Left, in this order: the variation of a licence after release (the vary forms, what
is printed, the version it gets); whom an e-mail reaches.
