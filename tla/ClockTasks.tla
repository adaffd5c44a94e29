----------------------------- MODULE ClockTasks -----------------------------
(***************************************************************************)
(* What the main loop does by the clock: samples for the temperature log   *)
(* (CheckScanTime and ptSaveTemp), rows of the HACCP log (CheckHaccpScan)  *)
(* and the scheduled restart every four hours (Check4hour).  Each of the   *)
(* three reads the real-time clock by itself, compares the minute with the *)
(* one it saw last, and the boot code seeds those remembered minutes.      *)
(*                                                                         *)
(* The clock runs in half minutes.  The watchdog bites after two seconds,  *)
(* so a running loop makes at least two turns in every half minute, and a  *)
(* restart (watchdog and boot code) takes less than half a minute, but it  *)
(* can cross the end of one.                                               *)
(***************************************************************************)
EXTENDS Integers

CONSTANTS
    ScanSetups,    \* sampling periods in use, in minutes
    StartTimes,    \* <<hour, minute>> at power-up
    SetTimes,      \* what the clock may be set to (web page, SNTP)
    MaxDisturb     \* bound: settings of the clock and unscheduled restarts

Periods == {5, 10, 15, 30, 60, 120, 240, 360}
Times   == (0 .. 23) \X (0 .. 59)

ASSUME SetupsAssumption == ScanSetups \subseteq Periods
ASSUME TimesAssumption  == StartTimes \subseteq Times /\ SetTimes \subseteq Times
ASSUME DisturbAssumption == MaxDisturb \in Nat

VARIABLES
    hr, mn, half,     \* the real-time clock
    pc,               \* next call of the main loop, "off" while restarting
    steps,            \* calls since the clock last moved, up to Pace
    oldmin, old_reset_min, old_haccp_min,
    scanflag,
    waiting,          \* ptSaveTemp has passed its PT_YIELD
    scansetup,        \* 0 until it is loaded
    EE_SCAN_TIME,     \* the period kept in EEPROM, 0 while it is blank
    disturbed,        \* disturbances so far
    (* history variables, about the minute the clock shows *)
    samples, haccps, resets,   \* SaveTemp, SaveHaccp and Check4hour's restarts
    calm              \* whole minutes since the last disturbance, up to 2

clock   == <<hr, mn, half>>
olds    == <<oldmin, old_reset_min, old_haccp_min>>
setup   == <<scansetup, EE_SCAN_TIME>>
minutes == <<samples, haccps, resets>>
vars == <<clock, pc, steps, olds, scanflag, waiting, setup, disturbed, minutes, calm>>

Pace == 8   \* two turns of four calls in a half minute
Calls == {"CheckScanTime", "Check4hour", "CheckHaccpScan", "ReadTemperature"}

TypeOK ==
    /\ hr \in 0 .. 23 /\ mn \in 0 .. 59 /\ half \in 0 .. 1
    /\ pc \in Calls \cup {"off"}
    /\ steps \in 0 .. Pace
    /\ oldmin \in 0 .. 59 /\ old_reset_min \in 0 .. 59 /\ old_haccp_min \in 0 .. 59
    /\ scanflag \in {0, 1}
    /\ waiting \in BOOLEAN
    /\ scansetup \in Periods \cup {0}
    /\ EE_SCAN_TIME \in Periods \cup {0}
    /\ disturbed \in 0 .. MaxDisturb
    /\ samples \in Nat /\ haccps \in Nat /\ resets \in Nat
    /\ calm \in 0 .. 2
-----------------------------------------------------------------------------
\* Power-up, with a blank EEPROM (first boot) or a configured one.
Init ==
    /\ \E t \in StartTimes : hr = t[1] /\ mn = t[2]
    /\ half = 0
    /\ pc = "off" /\ steps = 0
    /\ oldmin = 0 /\ old_reset_min = 0 /\ old_haccp_min = 0
    /\ scanflag = 0 /\ waiting = FALSE
    /\ scansetup = 0 /\ EE_SCAN_TIME \in ScanSetups \cup {0}
    /\ disturbed = 0
    /\ samples = 0 /\ haccps = 0 /\ resets = 0 /\ calm = 0

NewMinute ==
    /\ samples' = 0 /\ haccps' = 0 /\ resets' = 0

\* The clock moves on.  While the device restarts it does so at most once.
Tick ==
    /\ IF pc = "off" THEN steps = 0 /\ steps' = 1
                     ELSE steps = Pace /\ steps' = 0
    /\ half' = 1 - half
    /\ IF half = 0
       THEN UNCHANGED <<hr, mn, minutes, calm>>
       ELSE /\ mn' = (mn + 1) % 60
            /\ hr' = IF mn = 59 THEN (hr + 1) % 24 ELSE hr
            /\ NewMinute
            /\ calm' = IF calm = 2 THEN 2 ELSE calm + 1
    /\ UNCHANGED <<pc, olds, scanflag, waiting, setup, disturbed>>

Loop(p, q) ==
    /\ pc = p /\ pc' = q
    /\ steps' = IF steps = Pace THEN Pace ELSE steps + 1

\* Mutant: what is due in the minute of the boot shall still be done.
Boot_MinuteBefore ==
    /\ pc = "off"
    /\ pc' = "CheckScanTime" /\ steps' = 0
    /\ oldmin' = mn /\ old_reset_min' = (mn + 59) % 60 /\ old_haccp_min' = (mn + 59) % 60
    /\ scanflag' = 0 /\ waiting' = FALSE
    /\ IF EE_SCAN_TIME = 0 THEN EE_SCAN_TIME' = 15 /\ scansetup' = 0
                           ELSE scansetup' = EE_SCAN_TIME /\ UNCHANGED EE_SCAN_TIME
    /\ UNCHANGED <<clock, disturbed, minutes, calm>>

\* The boot code up to the main loop.  InitParam loads the period, or, with a
\* blank EEPROM, writes the default there and leaves the variable at zero.
Boot ==
    /\ pc = "off"
    /\ pc' = "CheckScanTime" /\ steps' = 0
    /\ oldmin' = mn /\ old_reset_min' = mn /\ old_haccp_min' = mn
    /\ scanflag' = 0 /\ waiting' = FALSE
    /\ IF EE_SCAN_TIME = 0 THEN EE_SCAN_TIME' = 15 /\ scansetup' = 0
                           ELSE scansetup' = EE_SCAN_TIME /\ UNCHANGED EE_SCAN_TIME
    /\ UNCHANGED <<clock, disturbed, minutes, calm>>
-----------------------------------------------------------------------------
\* The minutes of CheckScanTime's switch.  The branch for 15 runs on into the
\* branch for 30.
Minutes5  == {1, 6, 11, 16, 21, 26, 31, 36, 41, 46, 51, 56}
Minutes10 == {1, 11, 21, 31, 41, 51}
Minutes30 == {1, 31}
Minutes15 == {1, 16, 31, 46} \cup Minutes30

Hours120 == {0, 2, 4, 6, 8, 10, 12, 14, 16, 18, 20, 22}
Hours240 == {0, 4, 8, 12, 16, 20}
Hours360 == {0, 6, 12, 18}

FirstMinute == oldmin = 0 /\ mn = 1

ScanDue ==
    \/ scansetup = 5   /\ mn \in Minutes5  /\ oldmin # mn
    \/ scansetup = 10  /\ mn \in Minutes10 /\ oldmin # mn
    \/ scansetup = 15  /\ mn \in Minutes15 /\ oldmin # mn
    \/ scansetup = 30  /\ mn \in Minutes30 /\ oldmin # mn
    \/ scansetup = 60  /\ FirstMinute
    \/ scansetup = 120 /\ hr \in Hours120 /\ FirstMinute
    \/ scansetup = 240 /\ hr \in Hours240 /\ FirstMinute
    \/ scansetup = 360 /\ hr \in Hours360 /\ FirstMinute

\* The status SMS at the end of the function is dead code: nothing sets
\* sms_status.
CheckScanTime ==
    /\ Loop("CheckScanTime", "Check4hour")
    /\ scanflag' = IF ScanDue THEN 1 ELSE scanflag
    /\ oldmin' = mn
    /\ UNCHANGED <<clock, old_reset_min, old_haccp_min, waiting, setup, disturbed,
                   minutes, calm>>

ResetHours == {1, 5, 9, 13, 17, 21}
ResetDue == mn = 59 /\ old_reset_min # mn /\ hr \in ResetHours

\* Mutant: the loop for ever goes on feeding the watchdog.
Check4hour_Hangs ==
    \/ ResetDue /\ pc = "Check4hour" /\ pc' = "hung"
       /\ UNCHANGED <<clock, steps, olds, scanflag, waiting, setup, disturbed,
                      minutes, calm>>
    \/ pc = "hung" /\ UNCHANGED vars
    \/ /\ ~ResetDue
       /\ Loop("Check4hour", "CheckHaccpScan")
       /\ old_reset_min' = mn
       /\ UNCHANGED <<clock, oldmin, old_haccp_min, scanflag, waiting, setup,
                      disturbed, minutes, calm>>

\* When the restart is due the function loops for ever and the watchdog bites.
Check4hour ==
    \/ /\ ResetDue
       /\ pc = "Check4hour" /\ pc' = "off" /\ steps' = 0
       /\ resets' = resets + 1
       /\ UNCHANGED <<clock, olds, scanflag, waiting, setup, disturbed, samples,
                      haccps, calm>>
    \/ /\ ~ResetDue
       /\ Loop("Check4hour", "CheckHaccpScan")
       /\ old_reset_min' = mn
       /\ UNCHANGED <<clock, oldmin, old_haccp_min, scanflag, waiting, setup,
                      disturbed, minutes, calm>>

HaccpHours == {6, 10, 14, 18, 22}

HaccpDue == mn = 0 /\ old_haccp_min # mn /\ hr \in HaccpHours

CheckHaccpScan ==
    /\ Loop("CheckHaccpScan", "ReadTemperature")
    /\ haccps' = haccps + (IF HaccpDue THEN 1 ELSE 0)
    /\ old_haccp_min' = mn
    /\ UNCHANGED <<clock, oldmin, old_reset_min, scanflag, waiting, setup, disturbed,
                   samples, resets, calm>>

\* Mutant: the flag is not taken down.
ReadTemperature_KeepsFlag ==
    /\ Loop("ReadTemperature", "CheckScanTime")
    /\ waiting' = ~(waiting /\ scanflag = 1)
    /\ samples' = samples + (IF waiting /\ scanflag = 1 THEN 1 ELSE 0)
    /\ UNCHANGED <<clock, olds, scanflag, setup, disturbed, haccps, resets, calm>>

\* ptSaveTemp, polled by ReadTemperature: yields once, waits for the flag,
\* takes it down and saves.
ReadTemperature ==
    /\ Loop("ReadTemperature", "CheckScanTime")
    /\ IF waiting /\ scanflag = 1
       THEN scanflag' = 0 /\ samples' = samples + 1 /\ waiting' = FALSE
       ELSE waiting' = TRUE /\ UNCHANGED <<scanflag, samples>>
    /\ UNCHANGED <<clock, olds, setup, disturbed, haccps, resets, calm>>
-----------------------------------------------------------------------------
Disturb ==
    /\ disturbed < MaxDisturb
    /\ disturbed' = disturbed + 1
    /\ calm' = 0

\* SaveTime and sntp_set_system_time, in a packet handled between
\* CheckHaccpScan and ReadTemperature.
SetTime(t, h) ==
    /\ pc = "ReadTemperature" /\ Disturb
    /\ hr' = t[1] /\ mn' = t[2] /\ half' = h
    /\ IF t = <<hr, mn>> THEN UNCHANGED minutes ELSE NewMinute
    /\ UNCHANGED <<pc, steps, olds, scanflag, waiting, setup>>

\* SaveSample, in a packet.  The page sends both the report time and the
\* period; the handler puts one after the other into scansetup.
SaveSample(p) ==
    /\ pc = "ReadTemperature" /\ Disturb
    /\ scansetup' = p /\ EE_SCAN_TIME' = p
    /\ UNCHANGED <<clock, pc, steps, olds, scanflag, waiting, minutes>>

\* The reset page, a hang that the watchdog ends, or a brown-out.
Restart ==
    /\ pc # "off" /\ Disturb
    /\ pc' = "off" /\ steps' = 0
    /\ UNCHANGED <<clock, olds, scanflag, waiting, setup, minutes>>

MainLoop == Boot \/ CheckScanTime \/ Check4hour \/ CheckHaccpScan \/ ReadTemperature

Next ==
    \/ Tick
    \/ MainLoop
    \/ \E t \in SetTimes, h \in 0 .. 1 : SetTime(t, h)
    \/ \E p \in ScanSetups : SaveSample(p)
    \/ Restart

Spec == Init /\ [][Next]_vars

(* The loop runs for ever and so does the clock.                           *)
FairSpec == Spec /\ WF_vars(MainLoop) /\ WF_vars(Tick)
-----------------------------------------------------------------------------
MinuteEnds == mn' # mn /\ calm' # 0

(* Samples are taken at minute 1 of every period, counted from midnight    *)
(* for periods of hours, once each and at no other time, also across the   *)
(* scheduled restarts.                                                     *)
SampleTime == IF scansetup < 60 THEN mn % scansetup = 1
                                ELSE mn = 1 /\ (60 * hr) % scansetup = 0
SamplesOnTime ==
    [][MinuteEnds /\ calm = 2 /\ scansetup # 0
         => samples = (IF SampleTime THEN 1 ELSE 0)]_vars

(* A row of the HACCP log is written at 6:00 and every four hours until    *)
(* 22:00, once each, although a restart happens one minute earlier.        *)
HaccpTime == mn = 0 /\ hr >= 6 /\ hr % 4 = 2
HaccpOnTime == [][MinuteEnds /\ calm = 2
                    => haccps = (IF HaccpTime THEN 1 ELSE 0)]_vars

(* Six restarts a day.                                                     *)
RestartTime == mn = 59 /\ hr % 4 = 1
RestartsOnTime == [][MinuteEnds /\ calm = 2
                       => resets = (IF RestartTime THEN 1 ELSE 0)]_vars

(* The three timetables together: after two minutes without a disturbance, *)
(* each task was done in its minutes and in no other, although the branch  *)
(* for 15 minutes runs on into the next, each task reads the clock by      *)
(* itself, and a restart may cross the minute.                             *)
KeepsTimetable == SamplesOnTime /\ HaccpOnTime /\ RestartsOnTime

(* However the clock is set and whatever else restarts the device, the     *)
(* scheduled restart does not repeat itself in the minute that caused it.  *)
NoRestartLoop == resets <= 1

(* No HACCP row is written twice in its minute, although the restart and   *)
(* the settings of the clock all rewrite the remembered minutes.           *)
NoDoubleRow == haccps <= 1

(* Samples go on being taken, even from the first boot, whose default      *)
(* period takes effect only at the next scheduled restart.                 *)
SamplingGoesOn == []<>(samples = 1)
=============================================================================
