----------------------------- MODULE Reminders -----------------------------
(***************************************************************************)
(* A responsible officer is sent a case, told by e-mail when it is due,    *)
(* and reminded of it: two days before, on the day, and every day it is    *)
(* overdue (roNotificationHandler.js, roNotificationSender.js,             *)
(* reminderService.js, deadlineService.js).                                *)
(*                                                                         *)
(* The handover is a request of several steps, each of which can fail; the *)
(* job of the day reads the cases of one kind of reminder and then works   *)
(* through them one by one, while cases come and go.                       *)
(*                                                                         *)
(* That the job runs once a day, or not at all, is module JobLock.         *)
(***************************************************************************)
EXTENDS DueDates

CONSTANTS Cases,
          Reachable,    \* those whose officer has an e-mail address
          FirstDay,     \* the day a behaviour begins
          Horizon,      \* bound: the day it ends
          HandoverDays, \* bound: the days on which a handover is begun
          JobDays,      \* the schedule of the job
          Active,       \* activeNotificationTypes, those to an officer
          MaxLetters,   \* bound on the letters about a case
          MaxFailures   \* bound on the steps that fail

Types == {"RO_TWO_DAYS", "RO_DUE", "RO_OVERDUE"}

\* The calendar reaches back far enough for the job, and forward for a handover.
ASSUME ScheduleAssumption ==
  /\ Reachable \subseteq Cases
  /\ Horizon \in Days /\ FirstDay \in 0..Horizon
  /\ JobDays \subseteq FirstDay..Horizon /\ HandoverDays \subseteq Days
  /\ Active \subseteq Types \cup {"RO_NEW"}
  /\ MaxLetters \in Nat /\ MaxFailures \in Nat
  /\ \A d \in JobDays : Index(d - 1) > Allowance
  /\ Index(Horizon) + Allowance + 1 <= Cardinality(WorkingDays)

VARIABLES now,       \* the moment
          cases,     \* stage of each case, and transition_date of its last handover
          request,   \* the step the handover request of each case is at
          letters,   \* history: the e-mails RO_NEW about each case
          job,       \* the run under way, and the day of the last one
          finished,  \* history: the last run ended, and nothing failed in it
          asked,     \* history: the reminders sendNotifications was called for
          emailed,   \* history: those an e-mail was sent for
          failures   \* steps that failed so far

vars == <<now, cases, request, letters, job, finished, asked, emailed, failures>>

\* RO_NEW: the handover it is about, the day it was written and the date in it.
Letter == [at : Moment, on : Days, date : Days]

Reminder == [type : Types, day : Days, at : Moment]

\* What the queries of deadlineService select: no more of a case than this.
Row(c) == [booking_id |-> c, transition_date |-> cases[c].at]
Rows == [booking_id : Cases, transition_date : Moment]

\* nextLicence.offenderNo
Prisoner(row) == IF "offenderNo" \in DOMAIN row THEN row["offenderNo"] ELSE "undefined"

Fails == failures < MaxFailures /\ failures' = failures + 1

-----------------------------------------------------------------------------
(* The handover: sendRo. *)

\* POST send/addressReview, from the task list or again from an error page.
\* The officer and the prison are looked up first; when that ends in an error
\* nothing more happens, and the page says "Case sent".
SendRo(c) ==
  /\ now.day \in HandoverDays
  /\ request[c] = "failed" \/ (request[c] = "none" /\ cases[c].stage = "CA")
  /\ \E step \in {"mark", "none"} : request' = [request EXCEPT ![c] = step]
  /\ UNCHANGED <<now, cases, letters, job, finished, asked, emailed, failures>>

\* updateStage: transition_date is the current_timestamp of the database.
MarkForHandover(c) ==
  /\ request[c] = "mark"
  /\ cases' = [cases EXCEPT ![c] = [stage |-> "RO", at |-> now]]
  /\ request' = [request EXCEPT ![c] = "email"]
  /\ UNCHANGED <<now, letters, job, finished, asked, emailed, failures>>

\* Mutant: the letter forgets the cut-off.
WriteLetter_Early(c) ==
  /\ Cardinality(letters[c]) < MaxLetters
  /\ letters' = IF "RO_NEW" \in Active /\ c \in Reachable
                THEN [letters EXCEPT ![c] =
                        @ \cup {[at |-> cases[c].at, on |-> now.day, date |-> BusinessAdd(now.day, Allowance)]}]
                ELSE letters

\* roNotificationSender: without a transition_date it reckons from now.
WriteLetter(c) ==
  /\ Cardinality(letters[c]) < MaxLetters
  /\ letters' = IF "RO_NEW" \in Active /\ c \in Reachable
                THEN [letters EXCEPT ![c] =
                        @ \cup {[at |-> cases[c].at, on |-> now.day, date |-> DueDate(now)]}]
                ELSE letters

\* sendNotifications catches its own errors, so the letter may be missing.
NotifyRo(c) ==
  /\ request[c] = "email"
  /\ WriteLetter(c) \/ letters' = letters
  /\ request' = [request EXCEPT ![c] = "role"]
  /\ UNCHANGED <<now, cases, job, finished, asked, emailed, failures>>

\* Mutant: the request is left in a step of its own.
AssignDeliusRoRole_Sent(c) ==
  /\ request[c] = "role"
  /\ request' = [request EXCEPT ![c] = "sent"]
  /\ UNCHANGED <<now, cases, letters, job, finished, asked, emailed, failures>>

AssignDeliusRoRole(c) ==
  /\ request[c] = "role"
  /\ request' = [request EXCEPT ![c] = "none"]
  /\ UNCHANGED <<now, cases, letters, job, finished, asked, emailed, failures>>

\* The lookup or the warning before the stage is changed, the event after it,
\* or the role after the letter fails: the user is shown an error.
SendRoFails(c) ==
  /\ request[c] \in {"mark", "email", "role"}
  /\ Fails
  /\ request' = [request EXCEPT ![c] = "failed"]
  /\ UNCHANGED <<now, cases, letters, job, finished, asked, emailed>>

\* sendRoEmail: an administrator has the letter sent again, whatever the stage.
SendRoEmail(c) ==
  /\ WriteLetter(c)
  /\ UNCHANGED <<now, cases, request, job, finished, asked, emailed, failures>>

\* The case leaves the officer: markForHandover of roToCa and the like.  Nobody
\* reads the transition_date of a case that is not with an officer.
Return(c) ==
  /\ cases[c].stage = "RO"
  /\ cases' = [cases EXCEPT ![c].stage = "CA"]
  /\ UNCHANGED <<now, request, letters, job, finished, asked, emailed, failures>>

-----------------------------------------------------------------------------
(* The job: notifyRoReminders. *)

\* The kind of reminder that comes next; "none" ends the run.
NextType(type) ==
  CASE type = "RO_OVERDUE" -> "RO_DUE"
    [] type = "RO_DUE" -> "RO_TWO_DAYS"
    [] OTHER -> "none"

IsDue(type, t, today) ==
  CASE type = "RO_OVERDUE" -> IsOverdue(t, today)
    [] type = "RO_DUE" -> IsDueIn(t, today, 0)
    [] type = "RO_TWO_DAYS" -> IsDueIn(t, today, Notice)

StartJob ==
  /\ job.type = "none" /\ now.day \in JobDays /\ job.day < now.day
  /\ job' = [type |-> "RO_OVERDUE", read |-> FALSE, rows |-> {}, day |-> now.day, clean |-> TRUE]
  /\ finished' = FALSE
  /\ UNCHANGED <<now, cases, request, letters, asked, emailed, failures>>

\* caseFinderMethod; a kind that is not active has no cases.
FindCases ==
  /\ job.type # "none" /\ ~job.read
  /\ job' = [job EXCEPT !.read = TRUE,
       !.rows = {Row(c) : c \in {x \in Cases : /\ job.type \in Active
                                               /\ cases[x].stage = "RO"
                                               /\ IsDue(job.type, cases[x].at, now.day)}}]
  /\ UNCHANGED <<now, cases, request, letters, finished, asked, emailed, failures>>

\* sendReminder returns when the officer or the prison is not found.
SkipReminder(row) ==
  /\ row \in job.rows
  /\ job' = [job EXCEPT !.rows = @ \ {row}, !.clean = FALSE]
  /\ Fails
  /\ UNCHANGED <<now, cases, request, letters, finished, asked, emailed>>

\* sendReminder: sendNotifications is called and not waited for.  It throws
\* when there is no prisoner to take the names from.
SendReminder(row) ==
  /\ row \in job.rows
  /\ LET c == row.booking_id
         reminder == [type |-> job.type, day |-> now.day, at |-> row.transition_date]
     IN /\ asked' = [asked EXCEPT ![c] = @ \cup {reminder}]
        /\ emailed' = IF c \in Reachable /\ Prisoner(row) # "undefined"
                      THEN [emailed EXCEPT ![c] = @ \cup {reminder}] ELSE emailed
  /\ job' = [job EXCEPT !.rows = @ \ {row}]
  /\ UNCHANGED <<now, cases, request, letters, finished, failures>>

EndType ==
  /\ job.type # "none" /\ job.read /\ job.rows = {}
  /\ job' = [job EXCEPT !.type = NextType(@), !.read = FALSE]
  /\ finished' = (NextType(job.type) = "none" /\ job.clean)
  /\ UNCHANGED <<now, cases, request, letters, asked, emailed, failures>>

\* notifyCases catches the error of the query and goes on with the next kind.
FindFails ==
  /\ job.type # "none" /\ ~job.read
  /\ job' = [job EXCEPT !.type = NextType(@), !.clean = FALSE]
  /\ Fails
  /\ UNCHANGED <<now, cases, request, letters, finished, asked, emailed>>

\* The server stops in the middle of the run.
JobDies ==
  /\ job.type # "none"
  /\ job' = [job EXCEPT !.type = "none", !.read = FALSE, !.rows = {}, !.clean = FALSE]
  /\ Fails
  /\ UNCHANGED <<now, cases, request, letters, finished, asked, emailed>>

-----------------------------------------------------------------------------
(* Time. *)

\* A run ends on the day it began.
Tick ==
  /\ \/ now.part = "early" /\ now' = [now EXCEPT !.part = "lastSecond"]
     \/ now.part = "lastSecond" /\ now' = [now EXCEPT !.part = "late"]
     \/ /\ now.part = "late" /\ now.day < Horizon /\ job.type = "none"
        /\ now' = [day |-> now.day + 1, part |-> "early"]
  /\ UNCHANGED <<cases, request, letters, job, finished, asked, emailed, failures>>

Init ==
  /\ now = [day |-> FirstDay, part |-> "early"]
  /\ cases = [c \in Cases |-> [stage |-> "CA", at |-> now]]
  /\ request = [c \in Cases |-> "none"]
  /\ letters = [c \in Cases |-> {}]
  /\ job = [type |-> "none", read |-> FALSE, rows |-> {}, day |-> 0, clean |-> TRUE]
  /\ finished = FALSE
  /\ asked = [c \in Cases |-> {}]
  /\ emailed = [c \in Cases |-> {}]
  /\ failures = 0

Next ==
  \/ \E c \in Cases :
       \/ SendRo(c) \/ MarkForHandover(c) \/ NotifyRo(c) \/ AssignDeliusRoRole(c)
       \/ SendRoFails(c) \/ SendRoEmail(c) \/ Return(c)
  \/ StartJob \/ FindCases \/ EndType \/ FindFails \/ JobDies
  \/ \E row \in job.rows : SendReminder(row) \/ SkipReminder(row)
  \/ Tick

Spec == Init /\ [][Next]_vars

-----------------------------------------------------------------------------
(* Properties. *)

\* Every variable keeps its type.
TypeOK ==
  /\ now \in Moment
  /\ cases \in [Cases -> [stage : {"CA", "RO"}, at : Moment]]
  /\ request \in [Cases -> {"none", "failed", "mark", "email", "role"}]
  /\ letters \in [Cases -> SUBSET Letter]
  /\ job \in [type : Types \cup {"none"}, read : BOOLEAN, rows : SUBSET Rows,
              day : Days, clean : BOOLEAN]
  /\ finished \in BOOLEAN
  /\ asked \in [Cases -> SUBSET Reminder]
  /\ emailed \in [Cases -> SUBSET Reminder]
  /\ failures \in 0..MaxFailures

\* Every reminder is about the due date of the handover it was read for, which
\* the letter counts forwards and the query backwards: of a case handed over on
\* a working day, on a working day, whatever was missed, failed or came back.
RemindedInTime ==
  \A c \in Cases : \A r \in asked[c] :
    r.at.day \in WorkingDays /\ r.day \in WorkingDays =>
      /\ r.type = "RO_DUE" => r.day = DueDate(r.at)
      /\ r.type = "RO_TWO_DAYS" => BusinessAdd(r.day, Notice) = DueDate(r.at)
      /\ r.type = "RO_OVERDUE" => r.day > DueDate(r.at)

\* When a run has ended in which nothing failed, no case that is still with its
\* officer was forgotten that day.  A case handed over in the last second before
\* the cut-off is in no window of the day it is due, nor overdue on the next.
NoneForgotten ==
  finished /\ now.day = job.day /\ job.day \in WorkingDays =>
    \A c \in Cases :
      LET at == cases[c].at
          has(type) == [type |-> type, day |-> job.day, at |-> at] \in asked[c]
      IN cases[c].stage = "RO" /\ at.day \in WorkingDays /\ at.part # "lastSecond"
           /\ at.day < job.day =>
           /\ "RO_DUE" \in Active /\ DueDate(at) = job.day => has("RO_DUE")
           /\ "RO_TWO_DAYS" \in Active /\ DueDate(at) = BusinessAdd(job.day, Notice) => has("RO_TWO_DAYS")
           /\ "RO_OVERDUE" \in Active /\ DueDate(at) < job.day => has("RO_OVERDUE")

\* No officer is told that a case is due today after the date their letter gave,
\* although the letter counts from the moment it was written, which is later
\* than the handover, and may have been sent again.
PromiseKept ==
  \A c \in Cases : \A r \in asked[c], letter \in letters[c] :
    /\ r.type = "RO_DUE" /\ letter.at = r.at
    /\ {r.at.day, r.day, letter.on} \subseteq WorkingDays
    => r.day <= letter.date

\* Each reminder the service has decided on is sent, to an officer who can be
\* written to (reminderService.test.ts: "should call notify client for each
\* notification").
ReminderSent == \A c \in Reachable : asked[c] \subseteq emailed[c]
=============================================================================
