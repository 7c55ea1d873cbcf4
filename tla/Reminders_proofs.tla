-------------------------- MODULE Reminders_proofs --------------------------
(***************************************************************************)
(* What Reminders promises for every calendar, allowance and schedule.     *)
(*                                                                         *)
(* The letter counts working days forwards from the handover and the       *)
(* queries count them backwards from today.  Index, the number of working  *)
(* days up to a day, grows by one on each of them, so the two agree        *)
(* (Agreement).  The rest is that a row waiting to be reminded was in a    *)
(* window when it was read, on the day the run is of (WindowInv), and that *)
(* what a clean run has passed was asked for (CoverInv).                   *)
(***************************************************************************)
EXTENDS Reminders, FiniteSetTheorems, TLAPS

-----------------------------------------------------------------------------
(* The calendar. *)

\* The working days up to a day.
Upto(d) == {w \in WorkingDays : w <= d}

LEMMA WorkingDaysFinite == IsFiniteSet(WorkingDays) /\ WorkingDays \subseteq Nat
<1>1. LastDay \in Int /\ WorkingDays \subseteq 0..LastDay
  BY CalendarAssumption DEF Days
<1>2. IsFiniteSet(0..LastDay)
  BY <1>1, FS_Interval
<1>3. IsFiniteSet(WorkingDays)
  BY <1>1, <1>2, FS_Subset
<1>4. ASSUME NEW w \in WorkingDays PROVE w \in Nat
  BY <1>1
<1> QED
  BY <1>3, <1>4

LEMMA UptoFinite ==
  ASSUME NEW d \in Int
  PROVE  /\ IsFiniteSet(Upto(d))
         /\ Index(d) = Cardinality(Upto(d))
         /\ Index(d) \in Nat
         /\ Index(d) <= Cardinality(WorkingDays)
         /\ Cardinality(WorkingDays) \in Nat
<1>1. Upto(d) \subseteq WorkingDays
  BY DEF Upto
<1>2. IsFiniteSet(Upto(d)) /\ Cardinality(Upto(d)) <= Cardinality(WorkingDays)
  BY <1>1, WorkingDaysFinite, FS_Subset
<1>3. Index(d) = Cardinality(Upto(d))
  BY DEF Index, Upto
<1> QED
  BY <1>2, <1>3, WorkingDaysFinite, FS_CardinalityType

\* Index does not fall.
LEMMA IndexMonotone ==
  ASSUME NEW d \in Int, NEW e \in Int, d <= e
  PROVE  Index(d) <= Index(e)
<1>1. ASSUME NEW w \in Upto(d) PROVE w \in Upto(e)
  BY WorkingDaysFinite DEF Upto
<1>2. Upto(d) \subseteq Upto(e)
  BY <1>1
<1>3. Cardinality(Upto(d)) <= Cardinality(Upto(e))
  BY <1>2, UptoFinite, FS_Subset
<1> QED
  BY <1>3, UptoFinite

\* It grows by one on a working day, and on no other.
LEMMA IndexGrows ==
  ASSUME NEW d \in Int
  PROVE  Index(d) = Index(d - 1) + (IF d \in WorkingDays THEN 1 ELSE 0)
<1>1. CASE d \in WorkingDays
  <2>1. ASSUME NEW w \in Upto(d) PROVE w \in Upto(d - 1) \cup {d}
    BY WorkingDaysFinite DEF Upto
  <2>2. ASSUME NEW w \in Upto(d - 1) \cup {d} PROVE w \in Upto(d)
    BY <1>1, WorkingDaysFinite DEF Upto
  <2>3. d \notin Upto(d - 1)
    BY DEF Upto
  <2>4. Upto(d) = Upto(d - 1) \cup {d}
    BY <2>1, <2>2
  <2>5. IsFiniteSet(Upto(d - 1))
    BY UptoFinite
  <2>6. Cardinality(Upto(d)) = Cardinality(Upto(d - 1)) + 1
    BY <2>3, <2>4, <2>5, FS_AddElement
  <2> QED
    BY <1>1, <2>6, UptoFinite
<1>2. CASE d \notin WorkingDays
  <2>1. ASSUME NEW w \in WorkingDays PROVE w <= d <=> w <= d - 1
    BY <1>2, WorkingDaysFinite
  <2>2. Upto(d) = Upto(d - 1)
    BY <2>1 DEF Upto
  <2> QED
    BY <1>2, <2>2, UptoFinite
<1> QED
  BY <1>1, <1>2

\* A later working day has a greater index.
LEMMA IndexStrict ==
  ASSUME NEW d \in Int, NEW e \in WorkingDays, d < e
  PROVE  Index(d) < Index(e)
<1>1. e \in Int /\ e - 1 \in Int /\ d <= e - 1
  BY WorkingDaysFinite
<1>2. Index(d) <= Index(e - 1)
  BY <1>1, IndexMonotone
<1>3. Index(e) = Index(e - 1) + 1
  BY <1>1, IndexGrows
<1> QED
  BY <1>1, <1>2, <1>3, UptoFinite

LEMMA WorkingDayHasIndex ==
  ASSUME NEW i \in 1..Cardinality(WorkingDays)
  PROVE  WorkingDay(i) \in WorkingDays /\ Index(WorkingDay(i)) = i
<1>1. \E w \in WorkingDays : Index(w) = i
  BY CalendarAssumption
<1> QED
  BY <1>1 DEF WorkingDay

LEMMA WorkingDayOfIndex ==
  ASSUME NEW w \in WorkingDays
  PROVE  /\ WorkingDay(Index(w)) = w
         /\ Index(w) \in 1..Cardinality(WorkingDays)
<1>1. w \in Int /\ w - 1 \in Int
  BY WorkingDaysFinite
<1>2. Index(w) \in 1..Cardinality(WorkingDays)
  BY <1>1, IndexGrows, UptoFinite
<1>3. WorkingDay(Index(w)) \in WorkingDays /\ Index(WorkingDay(Index(w))) = Index(w)
  BY <1>2, WorkingDayHasIndex
<1>4. \A v \in WorkingDays : v \in Int /\ Index(v) \in Int
  BY WorkingDaysFinite, UptoFinite
<1>5. ASSUME NEW v \in WorkingDays, Index(v) = Index(w) PROVE v = w
  <2>1. ~(v < w) /\ ~(w < v)
    BY <1>4, <1>5, IndexStrict
  <2> QED
    BY <2>1, <1>4
<1> QED
  BY <1>2, <1>3, <1>5

LEMMA WorkingDayFacts ==
  ASSUME NEW w \in WorkingDays
  PROVE  /\ w \in Int
         /\ Index(w) \in Nat
         /\ Index(w) \in 1..Cardinality(WorkingDays)
         /\ Cardinality(WorkingDays) \in Nat
<1>1. w \in Int
  BY WorkingDaysFinite
<1> QED
  BY <1>1, WorkingDayOfIndex, UptoFinite

\* Working days are in the order of their indexes.
LEMMA OrderOfIndex ==
  ASSUME NEW d \in WorkingDays, NEW i \in 1..Cardinality(WorkingDays)
  PROVE  /\ d < WorkingDay(i) <=> Index(d) < i
         /\ d = WorkingDay(i) <=> Index(d) = i
         /\ d > WorkingDay(i) <=> Index(d) > i
<1> DEFINE e == WorkingDay(i)
<1>1. e \in WorkingDays /\ Index(e) = i
  BY WorkingDayHasIndex
<1> HIDE DEF e
<1>2. d \in Int /\ e \in Int /\ Index(d) \in Int /\ Index(e) \in Int
  BY <1>1, WorkingDaysFinite, UptoFinite
<1>3. (d < e => Index(d) < Index(e)) /\ (e < d => Index(e) < Index(d))
  BY <1>1, <1>2, IndexStrict
<1>4. (d < e <=> Index(d) < i) /\ (d = e <=> Index(d) = i) /\ (d > e <=> Index(d) > i)
  <2>1. d < e \/ d = e \/ d > e
    BY <1>2
  <2> QED
    BY <2>1, <1>1, <1>2, <1>3, WorkingDayOfIndex
<1> QED
  BY <1>4 DEF e

\* The index of the day a handover is due.
DueIndex(t) == Index(t.day) + Allowance + (IF t.part = "late" THEN 1 ELSE 0)

LEMMA DueDateIsWorkingDay ==
  ASSUME NEW t \in Moment, t.day <= Horizon
  PROVE  /\ DueIndex(t) \in 1..Cardinality(WorkingDays)
         /\ DueDate(t) = WorkingDay(DueIndex(t))
         /\ DueDate(t) \in WorkingDays
         /\ DueDate(t) \in Days
         /\ Index(DueDate(t)) = DueIndex(t)
<1>1. t.day \in Int /\ Horizon \in Int /\ Allowance \in Nat /\ Allowance > 0
  BY CalendarAssumption, ScheduleAssumption DEF Moment, Days
<1>2. Index(t.day) \in Nat /\ Index(t.day) <= Index(Horizon) /\ Index(Horizon) \in Nat
  BY <1>1, IndexMonotone, UptoFinite
<1>3. Index(Horizon) + Allowance + 1 <= Cardinality(WorkingDays) /\ Cardinality(WorkingDays) \in Nat
  BY <1>1, ScheduleAssumption, UptoFinite
<1>4. DueIndex(t) \in 1..Cardinality(WorkingDays)
  BY <1>1, <1>2, <1>3 DEF DueIndex
<1>5. DueDate(t) = WorkingDay(DueIndex(t))
  BY <1>1, <1>2 DEF DueDate, BusinessAdd, DueIndex
<1> QED
  BY <1>4, <1>5, WorkingDayHasIndex, CalendarAssumption

\* The day a job on a working day reaches back to.
LEMMA JobReachesBack ==
  ASSUME NEW D \in JobDays, D \in WorkingDays, NEW n \in 0..(Allowance + 1)
  PROVE  /\ Index(D) - n \in 1..Cardinality(WorkingDays)
         /\ BusinessSubtract(D, n) = WorkingDay(Index(D) - n)
<1>1. D \in Int /\ D - 1 \in Int /\ Allowance \in Nat /\ n \in Nat
  BY CalendarAssumption, WorkingDaysFinite
<1>2. Index(D) = Index(D - 1) + 1 /\ Index(D - 1) \in Nat /\ Index(D - 1) > Allowance
  BY <1>1, IndexGrows, UptoFinite, ScheduleAssumption
<1>3. Index(D) <= Cardinality(WorkingDays) /\ Cardinality(WorkingDays) \in Nat
  BY <1>1, UptoFinite
<1> QED
  BY <1>1, <1>2, <1>3 DEF BusinessSubtract

\* The window of a reminder holds the handovers due then, but those of the last
\* second before the cut-off.
LEMMA Window ==
  ASSUME NEW t \in Moment, t.day \in WorkingDays, NEW D \in JobDays, D \in WorkingDays,
         NEW k \in 0..(Allowance - 1)
  PROVE  IsDueIn(t, D, k) <=> DueIndex(t) = Index(D) + k /\ t.part # "lastSecond"
<1> DEFINE n == Allowance - k
<1>1. n \in 1..Allowance /\ Allowance \in Nat /\ k \in Nat
  BY CalendarAssumption
<1>2. Index(t.day) \in Nat /\ Index(D) \in Nat
  BY WorkingDayFacts
<1>3. /\ Index(D) - n \in 1..Cardinality(WorkingDays)
      /\ BusinessSubtract(D, n) = WorkingDay(Index(D) - n)
  <2>1. n \in 0..(Allowance + 1)
    BY <1>1
  <2> QED
    BY <2>1, JobReachesBack
<1>4. /\ Index(D) - (n + 1) \in 1..Cardinality(WorkingDays)
      /\ BusinessSubtract(D, n + 1) = WorkingDay(Index(D) - (n + 1))
  <2>1. n + 1 \in 0..(Allowance + 1)
    BY <1>1
  <2> QED
    BY <2>1, JobReachesBack
<1>5. FromCutOff(t, BusinessSubtract(D, n + 1)) <=>
        Index(t.day) > Index(D) - (n + 1) \/ (Index(t.day) = Index(D) - (n + 1) /\ t.part = "late")
  BY <1>4, OrderOfIndex DEF FromCutOff
<1>6. BeforeCutOff(t, BusinessSubtract(D, n)) <=>
        Index(t.day) < Index(D) - n \/ (Index(t.day) = Index(D) - n /\ t.part = "early")
  BY <1>3, OrderOfIndex DEF BeforeCutOff
<1>7. t.part \in {"early", "lastSecond", "late"}
  BY DEF Moment, Parts
<1>8. IsDueIn(t, D, k) <=> FromCutOff(t, BusinessSubtract(D, n + 1)) /\ BeforeCutOff(t, BusinessSubtract(D, n))
  BY DEF IsDueIn
<1> HIDE DEF n
<1>9. n = Allowance - k
  BY DEF n
<1> QED
  BY <1>1, <1>2, <1>5, <1>6, <1>7, <1>8, <1>9 DEF DueIndex

LEMMA Overdue ==
  ASSUME NEW t \in Moment, t.day \in WorkingDays, NEW D \in JobDays, D \in WorkingDays
  PROVE  /\ IsOverdue(t, D) => DueIndex(t) < Index(D)
         /\ DueIndex(t) < Index(D) /\ t.part # "lastSecond" => IsOverdue(t, D)
<1>1. Allowance \in Nat /\ Allowance + 1 \in 0..(Allowance + 1)
  BY CalendarAssumption
<1>2. Index(t.day) \in Nat /\ Index(D) \in Nat
  BY WorkingDayFacts
<1>3. /\ Index(D) - (Allowance + 1) \in 1..Cardinality(WorkingDays)
      /\ BusinessSubtract(D, Allowance + 1) = WorkingDay(Index(D) - (Allowance + 1))
  BY <1>1, JobReachesBack
<1> DEFINE i == Index(D) - (Allowance + 1)
<1>4. IsOverdue(t, D) <=> Index(t.day) < i \/ (Index(t.day) = i /\ t.part = "early")
  <2>1. IsOverdue(t, D) <=> t.day < WorkingDay(i) \/ (t.day = WorkingDay(i) /\ t.part = "early")
    BY <1>3 DEF IsOverdue, BeforeCutOff
  <2> QED
    BY <2>1, <1>3, OrderOfIndex
<1>5. t.part \in {"early", "lastSecond", "late"}
  BY DEF Moment, Parts
<1> QED
  BY <1>1, <1>2, <1>4, <1>5 DEF DueIndex

\* What the type of a reminder says of the day the case is due.
Due(type, t, D) ==
  /\ type = "RO_DUE" => D = DueDate(t)
  /\ type = "RO_TWO_DAYS" => BusinessAdd(D, Notice) = DueDate(t)
  /\ type = "RO_OVERDUE" => D > DueDate(t)

LEMMA Agreement ==
  ASSUME NEW t \in Moment, t.day \in WorkingDays, NEW D \in JobDays, D \in WorkingDays,
         NEW type \in Types, IsDue(type, t, D)
  PROVE  Due(type, t, D)
<1>1. /\ Allowance \in Nat /\ Notice \in 0..(Allowance - 1) /\ 0 \in 0..(Allowance - 1)
  BY CalendarAssumption
<1>2. Index(t.day) \in Nat /\ Index(D) \in Nat /\ Index(D) <= Cardinality(WorkingDays)
      /\ Cardinality(WorkingDays) \in Nat /\ D \in Int
  BY WorkingDayFacts
<1>3. DueDate(t) = WorkingDay(DueIndex(t))
  BY <1>1, <1>2 DEF DueDate, BusinessAdd, DueIndex
<1>4. CASE type = "RO_DUE"
  <2>1. DueIndex(t) = Index(D)
    BY <1>1, <1>2, <1>4, Window DEF IsDue
  <2> QED
    BY <2>1, <1>3, <1>4, WorkingDayOfIndex DEF Due
<1>5. CASE type = "RO_TWO_DAYS"
  <2>1. DueIndex(t) = Index(D) + Notice
    BY <1>1, <1>5, Window DEF IsDue
  <2> QED
    BY <2>1, <1>3, <1>5 DEF Due, BusinessAdd
<1>6. CASE type = "RO_OVERDUE"
  <2>1. DueIndex(t) < Index(D)
    BY <1>6, Overdue DEF IsDue
  <2>2. DueIndex(t) \in 1..Cardinality(WorkingDays)
    <3>1. Index(t.day) > 0
      BY WorkingDayOfIndex
    <3> QED
      BY <2>1, <3>1, <1>1, <1>2 DEF DueIndex
  <2>3. D > DueDate(t)
    BY <2>1, <2>2, <1>3, OrderOfIndex
  <2> QED
    BY <2>3, <1>6 DEF Due
<1> QED
  BY <1>4, <1>5, <1>6 DEF Types

\* The other way, for a handover before the last second.
LEMMA AgreementBack ==
  ASSUME NEW t \in Moment, t.day \in WorkingDays, t.day <= Horizon, t.part # "lastSecond",
         NEW D \in JobDays, D \in WorkingDays
  PROVE  /\ DueDate(t) = D => IsDue("RO_DUE", t, D)
         /\ DueDate(t) = BusinessAdd(D, Notice) => IsDue("RO_TWO_DAYS", t, D)
         /\ DueDate(t) < D => IsDue("RO_OVERDUE", t, D)
<1>1. /\ Allowance \in Nat /\ Notice \in 0..(Allowance - 1) /\ 0 \in 0..(Allowance - 1)
      /\ Notice \in Nat
  BY CalendarAssumption
<1>2. /\ Index(D) \in 1..Cardinality(WorkingDays) /\ Cardinality(WorkingDays) \in Nat
      /\ Index(t.day) \in Nat /\ D \in Int
  BY WorkingDayFacts
<1>3. /\ DueIndex(t) \in 1..Cardinality(WorkingDays)
      /\ DueDate(t) \in WorkingDays /\ Index(DueDate(t)) = DueIndex(t)
  BY DueDateIsWorkingDay
<1>4. ASSUME DueDate(t) = D PROVE IsDue("RO_DUE", t, D)
  <2>1. DueIndex(t) = Index(D) + 0
    BY <1>2, <1>3, <1>4
  <2>2. IsDueIn(t, D, 0)
    BY <2>1, <1>1, Window
  <2> QED
    BY <2>2 DEF IsDue
<1>5. ASSUME DueDate(t) = BusinessAdd(D, Notice) PROVE IsDue("RO_TWO_DAYS", t, D)
  <2>1. Index(D) + Notice \in 1..Cardinality(WorkingDays)
    <3>1. D <= Horizon /\ Horizon \in Int
      BY ScheduleAssumption DEF Days
    <3>2. Index(D) <= Index(Horizon) /\ Index(Horizon) \in Nat
      BY <3>1, <1>2, IndexMonotone, UptoFinite
    <3> QED
      BY <3>2, <1>1, <1>2, ScheduleAssumption
  <2>2. DueIndex(t) = Index(D) + Notice
    BY <2>1, <1>3, <1>5, WorkingDayHasIndex DEF BusinessAdd
  <2>3. IsDueIn(t, D, Notice)
    BY <2>2, <1>1, Window
  <2> QED
    BY <2>3 DEF IsDue
<1>6. ASSUME DueDate(t) < D PROVE IsDue("RO_OVERDUE", t, D)
  <2>1. DueIndex(t) < Index(D)
    <3>1. DueDate(t) \in Int
      BY <1>3, WorkingDayFacts
    <3>2. Index(DueDate(t)) < Index(D)
      BY <3>1, <1>6, IndexStrict
    <3> QED
      BY <3>2, <1>3
  <2> QED
    BY <2>1, Overdue DEF IsDue
<1> QED
  BY <1>4, <1>5, <1>6

-----------------------------------------------------------------------------
(* Types. *)

JobInv ==
  /\ job.type = "none" => job.rows = {} /\ ~job.read
  /\ ~job.read => job.rows = {}
  /\ job.type # "none" => job.day = now.day /\ now.day \in JobDays
  /\ finished => job.day \in JobDays /\ job.day <= now.day /\ job.type = "none"

TypeInv ==
  /\ TypeOK
  /\ now.day <= Horizon
  /\ \A c \in Cases : cases[c].at.day <= Horizon
  /\ JobInv

\* What the steps of the handover and of the job leave of the calendar.
LEMMA DaysFacts ==
  /\ Horizon \in Nat /\ FirstDay \in Nat /\ FirstDay <= Horizon
  /\ Days \subseteq Nat /\ (\A d \in Days : d \in Int) /\ FirstDay \in Days /\ Horizon \in Days /\ 0 \in Days
  /\ \A d \in JobDays : d \in Days /\ d <= Horizon
  /\ \A d \in Days : d < Horizon => d + 1 \in Days
BY CalendarAssumption, ScheduleAssumption DEF Days

LEMMA LetterTyped ==
  ASSUME TypeInv, NEW c \in Cases, WriteLetter(c)
  PROVE  letters' \in [Cases -> SUBSET Letter]
<1>1. /\ now \in Moment /\ now.day <= Horizon /\ cases[c].at \in Moment
      /\ letters \in [Cases -> SUBSET Letter]
  BY DEF TypeInv, TypeOK
<1>2. DueDate(now) \in Days /\ now.day \in Days
  BY <1>1, DueDateIsWorkingDay DEF Moment
<1>3. [at |-> cases[c].at, on |-> now.day, date |-> DueDate(now)] \in Letter
  BY <1>1, <1>2 DEF Letter
<1> QED
  BY <1>1, <1>3 DEF WriteLetter

LEMMA TypeInit == Init => TypeInv
<1> SUFFICES ASSUME Init PROVE TypeInv
  OBVIOUS
<1>1. now \in Moment /\ now.day = FirstDay
  BY DaysFacts DEF Init, Moment, Parts
<1>2. cases \in [Cases -> [stage : {"CA", "RO"}, at : Moment]] /\ \A c \in Cases : cases[c].at = now
  BY <1>1 DEF Init
<1>3. job \in [type : Types \cup {"none"}, read : BOOLEAN, rows : SUBSET Rows,
               day : Days, clean : BOOLEAN]
  BY DaysFacts DEF Init
<1>4. request \in [Cases -> {"none", "failed", "mark", "email", "role"}]
  BY DEF Init
<1>5. letters \in [Cases -> SUBSET Letter]
  BY DEF Init
<1>6. asked \in [Cases -> SUBSET Reminder] /\ emailed \in [Cases -> SUBSET Reminder]
  BY DEF Init
<1>7. finished \in BOOLEAN /\ failures \in 0..MaxFailures
  <2>1. finished \in BOOLEAN
    BY DEF Init
  <2>2. failures = 0 /\ MaxFailures \in Nat
    BY ScheduleAssumption DEF Init
  <2> QED
    BY <2>1, <2>2
<1>8. TypeOK
  BY <1>1, <1>2, <1>3, <1>4, <1>5, <1>6, <1>7 DEF TypeOK
<1>9. JobInv
  BY DEF Init, JobInv
<1> QED
  BY <1>1, <1>2, <1>8, <1>9, DaysFacts DEF TypeInv

LEMMA RowTyped ==
  ASSUME TypeOK, NEW c \in Cases
  PROVE  Row(c) \in Rows /\ Row(c).booking_id = c /\ Row(c).transition_date = cases[c].at
BY DEF TypeOK, Row, Rows

LEMMA FailsTyped ==
  ASSUME TypeOK, Fails
  PROVE  failures' \in 0..MaxFailures
BY ScheduleAssumption DEF TypeOK, Fails

LEMMA TypeNext == TypeInv /\ [Next]_vars => TypeInv'
<1> SUFFICES ASSUME TypeInv, [Next]_vars PROVE TypeInv'
  OBVIOUS
<1> USE DEF TypeInv, TypeOK, JobInv
<1>1. ASSUME NEW c \in Cases, SendRo(c) PROVE TypeInv'
  BY <1>1 DEF SendRo
<1>2. ASSUME NEW c \in Cases, MarkForHandover(c) PROVE TypeInv'
  BY <1>2 DEF MarkForHandover
<1>3. ASSUME NEW c \in Cases, NotifyRo(c) PROVE TypeInv'
  BY <1>3, LetterTyped DEF NotifyRo
<1>4. ASSUME NEW c \in Cases, AssignDeliusRoRole(c) PROVE TypeInv'
  BY <1>4 DEF AssignDeliusRoRole
<1>5. ASSUME NEW c \in Cases, SendRoFails(c) PROVE TypeInv'
  BY <1>5, FailsTyped DEF SendRoFails
<1>6. ASSUME NEW c \in Cases, SendRoEmail(c) PROVE TypeInv'
  BY <1>6, LetterTyped DEF SendRoEmail
<1>7. ASSUME NEW c \in Cases, Return(c) PROVE TypeInv'
  BY <1>7 DEF Return
<1>8. CASE StartJob
  <2>1. now.day \in Days /\ now.day \in JobDays
    BY <1>8 DEF StartJob, Moment
  <2> QED
    BY <1>8, <2>1 DEF StartJob, Types
<1>9. CASE FindCases
  <2>1. job'.rows \subseteq Rows
    BY <1>9, RowTyped DEF FindCases
  <2> QED
    BY <1>9, <2>1 DEF FindCases
<1>10. CASE EndType
  <2>1. NextType(job.type) \in Types \cup {"none"}
    BY DEF NextType, Types
  <2>2. /\ job' = [job EXCEPT !.type = NextType(@), !.read = FALSE]
        /\ job.rows = {} /\ job.type # "none"
        /\ UNCHANGED <<now, cases, request, letters, asked, emailed, failures>>
    BY <1>10 DEF EndType
  <2>3. /\ job'.type = NextType(job.type) /\ job'.rows = {} /\ job'.read = FALSE
        /\ job'.day = job.day /\ job'.clean = job.clean
    BY <2>2
  <2>4. finished' \in BOOLEAN /\ (finished' => NextType(job.type) = "none")
    BY <1>10 DEF EndType
  <2>5. job' \in [type : Types \cup {"none"}, read : BOOLEAN, rows : SUBSET Rows,
                  day : Days, clean : BOOLEAN]
    BY <2>1, <2>2
  <2>6. TypeOK'
    BY <2>2, <2>4, <2>5
  <2>7. JobInv'
    BY <2>2, <2>3, <2>4, DaysFacts DEF Moment
  <2> QED
    BY <2>2, <2>6, <2>7
<1>11. CASE FindFails
  <2>1. NextType(job.type) \in Types \cup {"none"}
    BY DEF NextType, Types
  <2> QED
    BY <1>11, <2>1, FailsTyped DEF FindFails
<1>12. CASE JobDies
  BY <1>12, FailsTyped DEF JobDies
<1>13. ASSUME NEW row \in job.rows, SendReminder(row) PROVE TypeInv'
  <2>1. /\ row \in Rows /\ row.booking_id \in Cases /\ row.transition_date \in Moment
        /\ job.type \in Types /\ now.day \in Days
    BY DEF Rows, Moment
  <2> DEFINE reminder == [type |-> job.type, day |-> now.day, at |-> row.transition_date]
  <2>2. reminder \in Reminder
    BY <2>1 DEF Reminder
  <2> HIDE DEF reminder
  <2>3. /\ asked' = [asked EXCEPT ![row.booking_id] = @ \cup {reminder}]
        /\ emailed' \in {emailed, [emailed EXCEPT ![row.booking_id] = @ \cup {reminder}]}
    BY <1>13 DEF SendReminder, reminder
  <2>4. asked' \in [Cases -> SUBSET Reminder] /\ emailed' \in [Cases -> SUBSET Reminder]
    BY <2>1, <2>2, <2>3
  <2>5. /\ job' = [job EXCEPT !.rows = @ \ {row}]
        /\ UNCHANGED <<now, cases, request, letters, finished, failures>>
    BY <1>13 DEF SendReminder
  <2> QED
    BY <2>4, <2>5
<1>14. ASSUME NEW row \in job.rows, SkipReminder(row) PROVE TypeInv'
  BY <1>14, FailsTyped DEF SkipReminder
<1>15. CASE Tick
  <2>1. /\ now' \in Moment /\ now'.day <= Horizon /\ now'.day >= now.day
        /\ job.type # "none" => now'.day = now.day
    BY <1>15, DaysFacts DEF Tick, Moment, Parts
  <2> QED
    BY <1>15, <2>1, DaysFacts DEF Tick, Moment
<1>16. CASE UNCHANGED vars
  BY <1>16 DEF vars
<1> QED
  BY <1>1, <1>2, <1>3, <1>4, <1>5, <1>6, <1>7, <1>8, <1>9, <1>10, <1>11, <1>12, <1>13, <1>14, <1>15, <1>16
  DEF Next

\* Every variable keeps its type: the handover, its failures, the job and the
\* calendar they share (reminderService.js, roNotificationHandler.js).
THEOREM TypeCorrect == Spec => []TypeOK
<1>1. TypeInv => TypeOK
  BY DEF TypeInv
<1> QED
  BY TypeInit, TypeNext, <1>1, PTL DEF Spec

-----------------------------------------------------------------------------
(* Every reminder is in time. *)

\* What waits to be reminded was in a window when it was read, today, and what
\* was asked for was in one on its day.
WindowInv ==
  /\ \A row \in job.rows : IsDue(job.type, row.transition_date, job.day)
  /\ \A c \in Cases : \A r \in asked[c] : r.day \in JobDays /\ IsDue(r.type, r.at, r.day)

LEMMA WindowInit == Init => WindowInv
BY DEF Init, WindowInv

LEMMA WindowNext == TypeInv /\ WindowInv /\ [Next]_vars => WindowInv'
<1> SUFFICES ASSUME TypeInv, WindowInv, [Next]_vars PROVE WindowInv'
  OBVIOUS
<1>1. ASSUME UNCHANGED <<job, asked>> PROVE WindowInv'
  BY <1>1 DEF WindowInv
<1>2. ASSUME UNCHANGED asked, job'.rows = {} PROVE WindowInv'
  BY <1>2 DEF WindowInv
<1>3. job.type = "none" => job.rows = {}
  BY DEF TypeInv, JobInv
<1>4. job \in [type : Types \cup {"none"}, read : BOOLEAN, rows : SUBSET Rows,
               day : Days, clean : BOOLEAN]
  BY DEF TypeInv, TypeOK
<1>5. ASSUME NEW c \in Cases,
             \/ SendRo(c) \/ MarkForHandover(c) \/ NotifyRo(c) \/ AssignDeliusRoRole(c)
             \/ SendRoFails(c) \/ SendRoEmail(c) \/ Return(c)
      PROVE  WindowInv'
  BY <1>1, <1>5 DEF SendRo, MarkForHandover, NotifyRo, AssignDeliusRoRole, SendRoFails, SendRoEmail, Return
<1>6. CASE StartJob
  BY <1>2, <1>4, <1>6 DEF StartJob
<1>7. CASE FindCases
  <2>1. job'.rows = {Row(c) : c \in {x \in Cases : /\ job.type \in Active
                                                  /\ cases[x].stage = "RO"
                                                  /\ IsDue(job.type, cases[x].at, now.day)}}
    BY <1>4, <1>7 DEF FindCases
  <2>2. job'.type = job.type /\ job'.day = job.day /\ job.day = now.day /\ UNCHANGED asked
    BY <1>4, <1>7 DEF FindCases, TypeInv, JobInv
  <2>3. ASSUME NEW row \in job'.rows PROVE IsDue(job'.type, row.transition_date, job'.day)
    <3>1. PICK c \in Cases : row = Row(c) /\ IsDue(job.type, cases[c].at, now.day)
      BY <2>1
    <3>2. row.transition_date = cases[c].at
      BY <3>1, RowTyped DEF TypeInv
    <3> QED
      BY <2>2, <3>1, <3>2
  <2> QED
    BY <2>2, <2>3 DEF WindowInv
<1>8. CASE EndType
  BY <1>2, <1>4, <1>8 DEF EndType
<1>9. CASE FindFails
  BY <1>2, <1>4, <1>9 DEF FindFails, TypeInv, JobInv
<1>10. CASE JobDies
  BY <1>2, <1>4, <1>10 DEF JobDies
<1>11. ASSUME NEW row \in job.rows, SendReminder(row) PROVE WindowInv'
  <2> DEFINE reminder == [type |-> job.type, day |-> now.day, at |-> row.transition_date]
  <2>1. reminder.day \in JobDays /\ IsDue(reminder.type, reminder.at, reminder.day)
    BY <1>3, <1>11 DEF TypeInv, JobInv, WindowInv
  <2>2. asked' = [asked EXCEPT ![row.booking_id] = @ \cup {reminder}]
    BY <1>11 DEF SendReminder
  <2> HIDE DEF reminder
  <2>3. asked \in [Cases -> SUBSET Reminder]
    BY DEF TypeInv, TypeOK
  <2>4. \A c \in Cases : \A r \in asked'[c] : r \in asked[c] \/ r = reminder
    BY <2>2, <2>3
  <2>5. job'.rows \subseteq job.rows /\ job'.type = job.type /\ job'.day = job.day
    BY <1>4, <1>11 DEF SendReminder
  <2>6. \A c \in Cases : \A r \in asked'[c] : r.day \in JobDays /\ IsDue(r.type, r.at, r.day)
    BY <2>1, <2>4 DEF WindowInv
  <2> QED
    BY <2>5, <2>6 DEF WindowInv
<1>12. ASSUME NEW row \in job.rows, SkipReminder(row) PROVE WindowInv'
  BY <1>4, <1>12 DEF SkipReminder, WindowInv
<1>13. CASE Tick
  BY <1>1, <1>13 DEF Tick
<1>14. CASE UNCHANGED vars
  BY <1>1, <1>14 DEF vars
<1> QED
  BY <1>5, <1>6, <1>7, <1>8, <1>9, <1>10, <1>11, <1>12, <1>13, <1>14 DEF Next

LEMMA InTime == TypeInv /\ WindowInv => RemindedInTime
<1> SUFFICES ASSUME TypeInv, WindowInv, NEW c \in Cases, NEW r \in asked[c],
                    r.at.day \in WorkingDays, r.day \in WorkingDays
             PROVE  /\ r.type = "RO_DUE" => r.day = DueDate(r.at)
                    /\ r.type = "RO_TWO_DAYS" => BusinessAdd(r.day, Notice) = DueDate(r.at)
                    /\ r.type = "RO_OVERDUE" => r.day > DueDate(r.at)
  BY DEF RemindedInTime
<1>1. r.at \in Moment /\ r.type \in Types
  BY DEF TypeInv, TypeOK, Reminder
<1>2. r.day \in JobDays /\ IsDue(r.type, r.at, r.day)
  BY DEF WindowInv
<1>3. Due(r.type, r.at, r.day)
  BY <1>1, <1>2, Agreement
<1> QED
  BY <1>3 DEF Due

\* The reminders, which count working days backwards from today, are about the
\* date a handover is due, counted forwards from it: whatever the calendar, the
\* days allowed, the schedule of the job and the failures (dueDates.js).
THEOREM RemindersInTime == Spec => []RemindedInTime
BY TypeInit, TypeNext, WindowInit, WindowNext, InTime, PTL DEF Spec

-----------------------------------------------------------------------------
(* The letter's promise. *)

\* A moment that no later moment's due date precedes: what counts is whether
\* the day is later, or the cut-off has passed.
NotAfter(t, u) == t.day < u.day \/ (t.day = u.day /\ (t.part = "late" => u.part = "late"))

\* A letter was written at some moment of its day, after the handover it is about.
LetterInv ==
  /\ \A c \in Cases : NotAfter(cases[c].at, now)
  /\ \A c \in Cases : \A letter \in letters[c] :
       \E u \in Moment : /\ u.day = letter.on /\ u.day <= Horizon
                       /\ letter.date = DueDate(u)
                       /\ NotAfter(letter.at, u)

LEMMA LetterInit == Init => LetterInv
<1> SUFFICES ASSUME Init PROVE LetterInv
  OBVIOUS
<1>1. now.day \in Int
  BY DaysFacts DEF Init
<1> QED
  BY <1>1 DEF Init, LetterInv, NotAfter

LEMMA LetterWritten ==
  ASSUME TypeInv, LetterInv, NEW c \in Cases, WriteLetter(c), UNCHANGED <<now, cases>>
  PROVE  LetterInv'
<1> DEFINE letter == [at |-> cases[c].at, on |-> now.day, date |-> DueDate(now)]
<1> DEFINE Written(l) == \E u \in Moment : /\ u.day = l.on /\ u.day <= Horizon
                                          /\ l.date = DueDate(u)
                                          /\ NotAfter(l.at, u)
<1>1. now \in Moment /\ now.day <= Horizon /\ NotAfter(cases[c].at, now)
  BY DEF TypeInv, TypeOK, LetterInv
<1>2. letter.on = now.day /\ letter.date = DueDate(now) /\ letter.at = cases[c].at
  OBVIOUS
<1>3. letters' = letters \/ letters' = [letters EXCEPT ![c] = @ \cup {letter}]
  BY DEF WriteLetter
<1> HIDE DEF letter
<1>4. Written(letter)
  BY <1>1, <1>2
<1>5. \A d \in Cases : \A l \in letters[d] : Written(l)
  BY DEF LetterInv
<1>6. \A d \in Cases : \A l \in letters'[d] : l \in letters[d] \/ l = letter
  BY <1>3 DEF TypeInv, TypeOK
<1>7. \A d \in Cases : \A l \in letters'[d] : Written(l)
  BY <1>4, <1>5, <1>6
<1>8. \A d \in Cases : NotAfter(cases'[d].at, now')
  BY DEF LetterInv
<1> QED
  BY <1>7, <1>8 DEF LetterInv

LEMMA LetterNext == TypeInv /\ LetterInv /\ [Next]_vars => LetterInv'
<1> SUFFICES ASSUME TypeInv, LetterInv, [Next]_vars PROVE LetterInv'
  OBVIOUS
<1>1. ASSUME UNCHANGED <<now, cases, letters>> PROVE LetterInv'
  BY <1>1 DEF LetterInv
<1>2. ASSUME UNCHANGED letters, \A c \in Cases : NotAfter(cases'[c].at, now') PROVE LetterInv'
  BY <1>2 DEF LetterInv
<1>3. now \in Moment /\ now.day \in Int
  BY DaysFacts DEF TypeInv, TypeOK, Moment
<1>4. cases \in [Cases -> [stage : {"CA", "RO"}, at : Moment]]
  BY DEF TypeInv, TypeOK
<1>5. ASSUME NEW c \in Cases, SendRo(c) \/ AssignDeliusRoRole(c) \/ SendRoFails(c) PROVE LetterInv'
  BY <1>1, <1>5 DEF SendRo, AssignDeliusRoRole, SendRoFails
<1>6. ASSUME NEW c \in Cases, MarkForHandover(c) PROVE LetterInv'
  <2>1. \A d \in Cases : cases'[d].at = cases[d].at \/ cases'[d].at = now
    BY <1>4, <1>6 DEF MarkForHandover
  <2>2. NotAfter(now, now) /\ now' = now /\ UNCHANGED letters
    BY <1>3, <1>6 DEF NotAfter, MarkForHandover
  <2> QED
    BY <1>2, <2>1, <2>2 DEF LetterInv
<1>7. ASSUME NEW c \in Cases, NotifyRo(c) PROVE LetterInv'
  BY <1>1, <1>7, LetterWritten DEF NotifyRo
<1>8. ASSUME NEW c \in Cases, SendRoEmail(c) PROVE LetterInv'
  BY <1>8, LetterWritten DEF SendRoEmail
<1>9. ASSUME NEW c \in Cases, Return(c) PROVE LetterInv'
  <2>1. \A d \in Cases : cases'[d].at = cases[d].at
    BY <1>4, <1>9 DEF Return
  <2> QED
    BY <1>2, <1>9, <2>1 DEF LetterInv, Return
<1>10. CASE StartJob \/ FindCases \/ EndType \/ FindFails \/ JobDies
  BY <1>1, <1>10 DEF StartJob, FindCases, EndType, FindFails, JobDies
<1>11. ASSUME NEW row \in job.rows, SendReminder(row) \/ SkipReminder(row) PROVE LetterInv'
  BY <1>1, <1>11 DEF SendReminder, SkipReminder
<1>12. CASE Tick
  <2>1. /\ now' \in Moment
        /\ \/ now'.day = now.day /\ now.part # "late"
           \/ now'.day = now.day + 1
    BY <1>3, <1>12, DaysFacts DEF Tick, Moment, Parts
  <2>2. ASSUME NEW c \in Cases PROVE NotAfter(cases'[c].at, now')
    <3>1. cases'[c].at = cases[c].at /\ NotAfter(cases[c].at, now) /\ cases[c].at.day \in Int
      BY <1>4, <1>12, DaysFacts DEF Tick, LetterInv, Moment
    <3> QED
      BY <2>1, <3>1, <1>3 DEF NotAfter
  <2>3. UNCHANGED letters
    BY <1>12 DEF Tick
  <2> QED
    BY <1>2, <2>2, <2>3
<1>13. CASE UNCHANGED vars
  BY <1>1, <1>13 DEF vars
<1> QED
  BY <1>5, <1>6, <1>7, <1>8, <1>9, <1>10, <1>11, <1>12, <1>13 DEF Next

\* What is handed over later is not due earlier.
LEMMA DueDateMonotone ==
  ASSUME NEW t \in Moment, NEW u \in Moment, t.day \in WorkingDays, u.day \in WorkingDays,
         u.day <= Horizon, NotAfter(t, u)
  PROVE  DueDate(t) <= DueDate(u)
<1>1. /\ t.day \in Int /\ u.day \in Int /\ Horizon \in Int /\ Allowance \in Nat
      /\ Index(t.day) \in Nat /\ Index(u.day) \in Nat
  <2>1. Horizon \in Int /\ Allowance \in Nat
    BY CalendarAssumption, DaysFacts
  <2> QED
    BY <2>1, WorkingDayFacts
<1>2. t.day <= Horizon
  BY <1>1 DEF NotAfter
<1>3. DueIndex(t) <= DueIndex(u)
  <2>1. CASE t.day < u.day
    <3>1. Index(t.day) < Index(u.day)
      BY <1>1, <2>1, IndexStrict
    <3> QED
      BY <1>1, <3>1 DEF DueIndex
  <2>2. CASE t.day = u.day /\ (t.part = "late" => u.part = "late")
    BY <1>1, <2>2 DEF DueIndex
  <2> QED
    BY <2>1, <2>2 DEF NotAfter
<1>4. /\ DueDate(t) \in WorkingDays /\ Index(DueDate(t)) = DueIndex(t)
      /\ DueDate(u) \in WorkingDays /\ Index(DueDate(u)) = DueIndex(u)
  BY <1>2, DueDateIsWorkingDay
<1>5. DueDate(t) \in Int /\ DueDate(u) \in Int /\ DueIndex(t) \in Int /\ DueIndex(u) \in Int
  BY <1>4, WorkingDayFacts
<1>6. ~(DueDate(u) < DueDate(t))
  <2>1. DueDate(u) < DueDate(t) => Index(DueDate(u)) < Index(DueDate(t))
    BY <1>4, <1>5, IndexStrict
  <2> QED
    BY <2>1, <1>3, <1>4, <1>5
<1> QED
  BY <1>5, <1>6

LEMMA Kept == TypeInv /\ WindowInv /\ LetterInv => PromiseKept
<1> SUFFICES ASSUME TypeInv, WindowInv, LetterInv, NEW c \in Cases,
                    NEW r \in asked[c], NEW letter \in letters[c],
                    r.type = "RO_DUE", letter.at = r.at,
                    {r.at.day, r.day, letter.on} \subseteq WorkingDays
             PROVE  r.day <= letter.date
  BY DEF PromiseKept
<1>1. r.at \in Moment
  BY DEF TypeInv, TypeOK, Reminder
<1>2. r.day = DueDate(r.at)
  BY InTime DEF RemindedInTime
<1>3. PICK u \in Moment : /\ u.day = letter.on /\ u.day <= Horizon
                          /\ letter.date = DueDate(u)
                          /\ NotAfter(letter.at, u)
  BY DEF LetterInv
<1>4. DueDate(r.at) <= DueDate(u)
  BY <1>1, <1>3, DueDateMonotone
<1> QED
  BY <1>2, <1>3, <1>4

\* No reminder that a case is due comes after the date in a letter about the
\* same handover, which counts from when it was written, although letters can
\* be late, missing or sent again (roNotificationSender.js).
THEOREM LettersKeepPromise == Spec => []PromiseKept
BY TypeInit, TypeNext, WindowInit, WindowNext, LetterInit, LetterNext, Kept, PTL DEF Spec

-----------------------------------------------------------------------------
(* Nobody is forgotten. *)

\* What the run of today owes a case of one kind of reminder, and has done.
Served(c, type) ==
  /\ cases[c].stage = "RO" /\ cases[c].at.day < job.day
  /\ type \in Active /\ IsDue(type, cases[c].at, job.day)
  => [type |-> type, day |-> job.day, at |-> cases[c].at] \in asked[c]

\* The kinds a run has gone through.
Passed(type) ==
  CASE type = "RO_OVERDUE" -> {}
    [] type = "RO_DUE" -> {"RO_OVERDUE"}
    [] type = "RO_TWO_DAYS" -> {"RO_OVERDUE", "RO_DUE"}
    [] OTHER -> Types

\* A run in which nothing failed has served the kinds it has passed, and of the
\* kind it is at the cases that no longer wait.
CoverInv ==
  /\ job.type # "none" /\ job.clean =>
       \A c \in Cases :
         /\ \A type \in Passed(job.type) : Served(c, type)
         /\ job.read => Served(c, job.type) \/ Row(c) \in job.rows
  /\ finished => \A c \in Cases : \A type \in Types : Served(c, type)

LEMMA CoverInit == Init => CoverInv
BY DEF Init, CoverInv

\* A step that leaves the run alone and only hands cases over today, or takes
\* them back, or asks for more, leaves everybody served.
LEMMA StaysServed ==
  ASSUME NEW c \in Cases, NEW type,
         job'.day = job.day,
         asked[c] \subseteq asked'[c],
         \/ cases'[c] = cases[c]
         \/ cases'[c].stage # "RO"
         \/ ~(cases'[c].at.day < job.day)
  PROVE  Served(c, type) => Served(c, type)'
BY DEF Served

LEMMA StaysCovered ==
  ASSUME CoverInv, UNCHANGED <<job, asked>>, finished' = finished,
         \A c \in Cases : \/ cases'[c] = cases[c]
                         \/ /\ cases'[c].stage # "RO"
                         \/ ~(cases'[c].at.day < job.day)
  PROVE  CoverInv'
<1>1. ASSUME NEW c \in Cases, NEW type, Served(c, type) PROVE Served(c, type)'
  BY <1>1, StaysServed
<1>2. ASSUME NEW c \in Cases, Row(c) \in job.rows PROVE Row(c)' \in job.rows \/ Served(c, job.type)'
  BY <1>2 DEF Row, Served
<1> QED
  BY <1>1, <1>2 DEF CoverInv

LEMMA CoverNext == TypeInv /\ CoverInv /\ [Next]_vars => CoverInv'
<1> SUFFICES ASSUME TypeInv, CoverInv, [Next]_vars PROVE CoverInv'
  OBVIOUS
<1>1. job \in [type : Types \cup {"none"}, read : BOOLEAN, rows : SUBSET Rows,
               day : Days, clean : BOOLEAN]
  BY DEF TypeInv, TypeOK
<1>2. cases \in [Cases -> [stage : {"CA", "RO"}, at : Moment]] /\ asked \in [Cases -> SUBSET Reminder]
  BY DEF TypeInv, TypeOK
<1>3. JobInv /\ now.day \in Int /\ job.day \in Int
  BY <1>1, DaysFacts DEF TypeInv, TypeOK, Moment
<1>4. ASSUME UNCHANGED <<job, asked, cases, finished>> PROVE CoverInv'
  BY <1>4, StaysCovered
<1>5. ASSUME UNCHANGED <<finished, cases, asked>>, job.type # "none", job'.day = job.day, ~job'.clean
      PROVE  CoverInv'
  <2>1. ~finished
    BY <1>3, <1>5 DEF JobInv
  <2> QED
    BY <1>5, <2>1 DEF CoverInv
<1>6. ASSUME NEW c \in Cases,
             SendRo(c) \/ NotifyRo(c) \/ AssignDeliusRoRole(c) \/ SendRoFails(c) \/ SendRoEmail(c)
      PROVE  CoverInv'
  BY <1>4, <1>6 DEF SendRo, NotifyRo, AssignDeliusRoRole, SendRoFails, SendRoEmail
<1>7. ASSUME NEW c \in Cases, MarkForHandover(c) PROVE CoverInv'
  <2>1. \A d \in Cases : cases'[d] = cases[d] \/ cases'[d].at = now
    BY <1>2, <1>7 DEF MarkForHandover
  <2>2. finished \/ job.type # "none" => ~(now.day < job.day)
    BY <1>3 DEF JobInv
  <2>3. UNCHANGED <<job, asked, finished>>
    BY <1>7 DEF MarkForHandover
  <2>4. CASE finished \/ job.type # "none"
    BY <2>1, <2>2, <2>3, <2>4, StaysCovered
  <2>5. CASE ~finished /\ job.type = "none"
    BY <2>3, <2>5 DEF CoverInv
  <2> QED
    BY <2>4, <2>5
<1>8. ASSUME NEW c \in Cases, Return(c) PROVE CoverInv'
  <2>1. \A d \in Cases : cases'[d] = cases[d] \/ cases'[d].stage = "CA"
    BY <1>2, <1>8 DEF Return
  <2>2. UNCHANGED <<job, asked, finished>>
    BY <1>8 DEF Return
  <2> QED
    BY <2>1, <2>2, StaysCovered
<1>9. CASE StartJob
  <2>1. job'.type = "RO_OVERDUE" /\ job'.read = FALSE /\ finished' = FALSE
    BY <1>9 DEF StartJob
  <2> QED
    BY <2>1 DEF CoverInv, Passed
<1>10. CASE FindCases
  <2>1. /\ job'.type = job.type /\ job'.day = job.day /\ job'.clean = job.clean
        /\ job'.rows = {Row(c) : c \in {x \in Cases : /\ job.type \in Active
                                                     /\ cases[x].stage = "RO"
                                                     /\ IsDue(job.type, cases[x].at, now.day)}}
    BY <1>1, <1>10 DEF FindCases
  <2>2. UNCHANGED <<cases, asked, finished>> /\ job.day = now.day /\ ~finished
    BY <1>3, <1>10 DEF FindCases, JobInv
  <2>3. ASSUME NEW c \in Cases PROVE Served(c, job.type)' \/ Row(c)' \in job'.rows
    <3>1. CASE job.type \in Active /\ cases[c].stage = "RO" /\ IsDue(job.type, cases[c].at, now.day)
      <4>1. Row(c) \in job'.rows
        BY <2>1, <3>1
      <4> QED
        BY <4>1, <2>2 DEF Row
    <3>2. CASE ~(job.type \in Active /\ cases[c].stage = "RO" /\ IsDue(job.type, cases[c].at, now.day))
      BY <2>1, <2>2, <3>2 DEF Served
    <3> QED
      BY <3>1, <3>2
  <2>4. ASSUME NEW c \in Cases, NEW type, Served(c, type) PROVE Served(c, type)'
    BY <2>1, <2>2, <2>4, StaysServed
  <2> QED
    BY <2>1, <2>2, <2>3, <2>4 DEF CoverInv
<1>11. CASE EndType
  <2>1. /\ job.type # "none" /\ job.read = TRUE /\ job.rows = {} /\ UNCHANGED <<cases, asked>>
        /\ job' = [job EXCEPT !.type = NextType(@), !.read = FALSE]
    BY <1>11 DEF EndType
  <2>2. /\ job'.type = NextType(job.type) /\ job'.read = FALSE /\ job'.day = job.day
        /\ job'.clean = job.clean
    BY <1>1, <2>1
  <2>3. finished' => NextType(job.type) = "none" /\ job.clean
    BY <1>11 DEF EndType
  <2>4. ASSUME job.clean, NEW c \in Cases, NEW type \in Passed(NextType(job.type)) PROVE Served(c, type)'
    <3>1. type \in Passed(job.type) \/ type = job.type
      BY <1>1, <2>1 DEF Passed, NextType, Types
    <3>2. Served(c, type)
      BY <2>1, <2>4, <3>1 DEF CoverInv
    <3> QED
      BY <2>1, <2>2, <3>2, StaysServed
  <2>5. Passed("none") = Types
    BY DEF Passed
  <2> QED
    BY <2>2, <2>3, <2>4, <2>5 DEF CoverInv
<1>12. CASE FindFails
  <2>1. job.type # "none" /\ job'.day = job.day /\ ~job'.clean /\ UNCHANGED <<finished, cases, asked>>
    BY <1>1, <1>12 DEF FindFails
  <2> QED
    BY <2>1, <1>5
<1>13. CASE JobDies
  <2>1. job.type # "none" /\ job'.day = job.day /\ ~job'.clean /\ UNCHANGED <<finished, cases, asked>>
    BY <1>1, <1>13 DEF JobDies
  <2> QED
    BY <2>1, <1>5
<1>14. ASSUME NEW row \in job.rows, SkipReminder(row) PROVE CoverInv'
  <2>1. job'.day = job.day /\ ~job'.clean /\ UNCHANGED <<finished, cases, asked>>
    BY <1>1, <1>14 DEF SkipReminder
  <2> QED
    BY <2>1, <1>3, <1>5, <1>14 DEF JobInv
<1>15. ASSUME NEW row \in job.rows, SendReminder(row) PROVE CoverInv'
  <2> DEFINE reminder == [type |-> job.type, day |-> now.day, at |-> row.transition_date]
  <2>1. /\ asked' = [asked EXCEPT ![row.booking_id] = @ \cup {reminder}]
        /\ job' = [job EXCEPT !.rows = @ \ {row}]
        /\ UNCHANGED <<cases, finished>>
    BY <1>15 DEF SendReminder
  <2>2. job.type # "none" /\ job.day = now.day /\ ~finished
    BY <1>3 DEF JobInv
  <2>3. /\ job'.type = job.type /\ job'.read = job.read /\ job'.day = job.day
        /\ job'.clean = job.clean /\ job'.rows = job.rows \ {row}
    BY <1>1, <2>1
  <2>4. ASSUME NEW c \in Cases PROVE asked[c] \subseteq asked'[c]
    BY <1>2, <2>1
  <2>5. ASSUME NEW c \in Cases, NEW type, Served(c, type) PROVE Served(c, type)'
    BY <2>1, <2>3, <2>4, <2>5, StaysServed
  <2>6. ASSUME NEW c \in Cases, Row(c) \in job.rows PROVE Served(c, job.type)' \/ Row(c)' \in job'.rows
    <3>1. Row(c)' = Row(c)
      BY <2>1 DEF Row
    <3>2. CASE Row(c) # row
      BY <2>3, <2>6, <3>1, <3>2
    <3>3. CASE Row(c) = row
      <4>1. row.booking_id = c /\ row.transition_date = cases[c].at
        BY <3>3, RowTyped DEF TypeInv
      <4>2. reminder = [type |-> job.type, day |-> job.day, at |-> cases[c].at]
        BY <2>2, <4>1
      <4>3. reminder \in asked'[c]
        BY <1>2, <2>1, <4>1
      <4> QED
        BY <2>1, <2>3, <4>2, <4>3 DEF Served
    <3> QED
      BY <3>2, <3>3
  <2> QED
    BY <2>1, <2>2, <2>3, <2>5, <2>6 DEF CoverInv
<1>16. CASE Tick
  BY <1>4, <1>16 DEF Tick
<1>17. CASE UNCHANGED vars
  BY <1>4, <1>17 DEF vars
<1> QED
  BY <1>6, <1>7, <1>8, <1>9, <1>10, <1>11, <1>12, <1>13, <1>14, <1>15, <1>16, <1>17 DEF Next

LEMMA Remembered == TypeInv /\ CoverInv => NoneForgotten
<1> SUFFICES ASSUME TypeInv, CoverInv, finished, job.day \in WorkingDays, NEW c \in Cases,
                    cases[c].stage = "RO", cases[c].at.day \in WorkingDays,
                    cases[c].at.part # "lastSecond", cases[c].at.day < job.day
             PROVE  LET at == cases[c].at
                        has(type) == [type |-> type, day |-> job.day, at |-> at] \in asked[c]
                    IN /\ "RO_DUE" \in Active /\ DueDate(at) = job.day => has("RO_DUE")
                       /\ "RO_TWO_DAYS" \in Active /\ DueDate(at) = BusinessAdd(job.day, Notice) => has("RO_TWO_DAYS")
                       /\ "RO_OVERDUE" \in Active /\ DueDate(at) < job.day => has("RO_OVERDUE")
  BY DEF NoneForgotten
<1> DEFINE at == cases[c].at
<1>1. at \in Moment /\ at.day <= Horizon
  BY DEF TypeInv, TypeOK
<1>2. job.day \in JobDays
  BY DEF TypeInv, JobInv
<1>3. \A type \in Types : Served(c, type)
  BY DEF CoverInv
<1>4. /\ DueDate(at) = job.day => IsDue("RO_DUE", at, job.day)
      /\ DueDate(at) = BusinessAdd(job.day, Notice) => IsDue("RO_TWO_DAYS", at, job.day)
      /\ DueDate(at) < job.day => IsDue("RO_OVERDUE", at, job.day)
  BY <1>1, <1>2, AgreementBack
<1> QED
  BY <1>3, <1>4 DEF Served, Types

\* When a run in which nothing failed has ended, every case still with its
\* officer has had the reminder of the day, but for a handover in the last
\* second before the cut-off (reminderService.js, deadlineService.js).
THEOREM NothingForgotten == Spec => []NoneForgotten
BY TypeInit, TypeNext, CoverInit, CoverNext, Remembered, PTL DEF Spec
=============================================================================
