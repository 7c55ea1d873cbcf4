------------------------------ MODULE DueDates ------------------------------
(***************************************************************************)
(* The working days of a responsible officer (dueDates.js): when a case    *)
(* that was handed over is due, and which cases a reminder looks for on a  *)
(* given day.  The two are computed in opposite directions, one forwards   *)
(* from the handover, the other backwards from today.                      *)
(*                                                                         *)
(* Days are numbered; a moment is a day and the part of it, as the cut-off *)
(* of 15:00:00 and the 14:59:59 of the queries divide it.                  *)
(***************************************************************************)
EXTENDS Integers, FiniteSets

CONSTANTS LastDay,      \* bound: days are numbered from 0
          WorkingDays,  \* neither weekend nor holiday
          Allowance,    \* roNewCaseWorkingDays
          Notice        \* days of notice of the first reminder

Days == 0..LastDay
Parts == {"early", "lastSecond", "late"}
Moment == [day : Days, part : Parts]

\* How many working days there are up to a day.
Index(d) == Cardinality({w \in WorkingDays : w <= d})

\* The last conjunct is so of any set of days; TLC evaluates it.
ASSUME CalendarAssumption ==
  /\ LastDay \in Nat /\ WorkingDays \subseteq Days
  /\ Allowance \in Nat /\ Notice \in 1..(Allowance - 1)
  /\ \A i \in 1..Cardinality(WorkingDays) : \E w \in WorkingDays : Index(w) = i

WorkingDay(i) == CHOOSE w \in WorkingDays : Index(w) = i

\* moment-business-days, n > 0: the n-th working day after d, or before it.
BusinessAdd(d, n) == WorkingDay(Index(d) + n)
BusinessSubtract(d, n) == WorkingDay(Index(d - 1) + 1 - n)

\* addRoWorkingDays
DueDate(t) == BusinessAdd(t.day, Allowance + (IF t.part = "late" THEN 1 ELSE 0))

\* transition_date < d 14:59:59, and transition_date >= d 15:00:00
BeforeCutOff(t, d) == t.day < d \/ (t.day = d /\ t.part = "early")
FromCutOff(t, d) == t.day > d \/ (t.day = d /\ t.part = "late")

\* Mutant: a case is overdue from the day after the next.
IsOverdue_TwoDays(t, today) == BeforeCutOff(t, BusinessSubtract(today, Allowance + 2))

\* getRoOverdueCasesDate
IsOverdue(t, today) == BeforeCutOff(t, BusinessSubtract(today, Allowance + 1))

\* Mutant: the window begins at midnight.
IsDueIn_FromMidnight(t, today, days) ==
  /\ t.day >= BusinessSubtract(today, Allowance - days + 1)
  /\ BeforeCutOff(t, BusinessSubtract(today, Allowance - days))

\* getRoDueCasesDates
IsDueIn(t, today, days) ==
  /\ FromCutOff(t, BusinessSubtract(today, Allowance - days + 1))
  /\ BeforeCutOff(t, BusinessSubtract(today, Allowance - days))
=============================================================================
