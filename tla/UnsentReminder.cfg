\* The query of the reminders selects no prisoner: one case, handed over from Friday to Monday, due in three working days.
SPECIFICATION Spec
CONSTANTS
  Cases = {a}
  Reachable = {a}
  LastDay = 20
  WorkingDays <- Weekdays
  Allowance = 2
  Notice = 1
  FirstDay = 4
  Horizon = 11
  HandoverDays = {4, 5, 7}
  JobDays = {8, 10, 11}
  Active = {"RO_NEW", "RO_TWO_DAYS", "RO_DUE", "RO_OVERDUE"}
  MaxLetters = 1
  MaxFailures = 0
CHECK_DEADLOCK FALSE
INVARIANT ReminderSent
