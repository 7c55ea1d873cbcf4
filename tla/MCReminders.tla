----------------------------- MODULE MCReminders -----------------------------
(* Day 0 is a Monday; the Wednesday of the second week is a holiday. *)
EXTENDS Reminders

Weekdays == {d \in Days : d % 7 < 5} \ {9}
=============================================================================
