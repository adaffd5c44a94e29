---------------------------- MODULE MCInputAlarm ----------------------------
(* Instances of InputAlarm for TLC. *)
EXTENDS InputAlarm

ShortAndLong == {0, 2}
=============================================================================
