---------------------------- MODULE MCSensorAlarm ----------------------------
(* Instances of SensorAlarm for TLC.                                       *)
EXTENDS SensorAlarm

Fridge(delay, on) == [HIGHLIMIT |-> 2, LOWLIMIT |-> -2, HIS |-> 1,
                      DELAY |-> delay, ENBLE |-> on]

\* One sensor: every band of the hysteresis (low alarm, low band, normal,
\* high band, high alarm), delays 0, 1 and 2.
BandTemps == {-3, -2, 0, 2, 3}
OneSettings == {Fridge(0, 1), Fridge(1, 1), Fridge(2, 1), Fridge(2, 0)}

\* Two sensors: normal and too high only.
TwoTemps == {0, 3}
TwoSettings == {Fridge(1, 1), Fridge(2, 0)}
=============================================================================
