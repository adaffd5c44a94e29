---------------------------- MODULE MCClockTasks ----------------------------
(* Instances of ClockTasks for TLC, and the comparison of TimeService with *)
(* the calendar, over all dates.                                           *)
EXTENDS ClockTasks, TimeService

AllPeriods  == Periods
Midnight    == {<<0, 0>>}
\* Just before, in and after a scheduled restart, and around a sample.
Critical    == {<<5, 58>>, <<5, 59>>, <<6, 0>>, <<6, 1>>}

ASSUME DSTChecked    == DSTFollowsCalendar
ASSUME AdjustChecked == AdjustsByOneHour
ASSUME ShiftChecked  == ShiftsFit
=============================================================================
