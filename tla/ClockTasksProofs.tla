-------------------------- MODULE ClockTasksProofs --------------------------
(***************************************************************************)
(* The scheduled restart does not repeat itself, no HACCP row is written   *)
(* twice and the timetable is kept, for every set of periods, start times  *)
(* and clock settings and any number of disturbances.                      *)
(***************************************************************************)
EXTENDS ClockTasks, TLAPS

\* A restart or a row happened in this minute: the clock still shows that
\* minute, and once the loop runs again the remembered minute is that one.
RestartRemembered ==
    resets # 0 => mn = 59 /\ (pc # "off" => old_reset_min = 59)

RowRemembered ==
    haccps # 0 => mn = 0 /\ (pc # "off" => old_haccp_min = 0)

IInv == /\ TypeOK
        /\ NoRestartLoop /\ RestartRemembered
        /\ NoDoubleRow /\ RowRemembered

\* Power-up establishes the invariant.
LEMMA InitInv == Init => IInv
<1> SUFFICES ASSUME Init
             PROVE  IInv
  OBVIOUS
<1>1. hr \in 0 .. 23 /\ mn \in 0 .. 59
  <2>1. PICK t \in StartTimes : hr = t[1] /\ mn = t[2]
    BY DEF Init
  <2>2. t \in (0 .. 23) \X (0 .. 59)
    BY TimesAssumption DEF Times
  <2> QED
    BY <2>1, <2>2
<1>2. waiting \in BOOLEAN
  BY DEF Init
<1>3. TypeOK
  BY <1>1, <1>2, SetupsAssumption, DisturbAssumption DEF Init, TypeOK, Pace, Calls
<1> QED
  BY <1>3 DEF Init, IInv, NoRestartLoop, RestartRemembered, NoDoubleRow, RowRemembered

\* Every call of the main loop, tick of the clock and disturbance keeps the
\* types.
LEMMA StepTypes == IInv /\ [Next]_vars => TypeOK'
<1> SUFFICES ASSUME IInv, [Next]_vars
             PROVE  TypeOK'
  OBVIOUS
<1> USE SetupsAssumption, TimesAssumption, DisturbAssumption
    DEF IInv, TypeOK, Pace, Calls, clock, olds, setup, minutes
<1>1. CASE Tick
  BY <1>1 DEF Tick, NewMinute
<1>2. CASE Boot
  <2>1. waiting' \in BOOLEAN
    BY <1>2 DEF Boot
  <2> QED
    BY <1>2, <2>1 DEF Boot, Periods
<1>3. CASE CheckScanTime
  BY <1>3 DEF CheckScanTime, Loop
<1>4. CASE Check4hour
  BY <1>4 DEF Check4hour, Loop
<1>5. CASE CheckHaccpScan
  BY <1>5 DEF CheckHaccpScan, Loop
<1>6. CASE ReadTemperature
  <2>1. waiting' \in BOOLEAN
    BY <1>6 DEF ReadTemperature
  <2> QED
    BY <1>6, <2>1 DEF ReadTemperature, Loop
<1>7. CASE \E t \in SetTimes, h \in 0 .. 1 : SetTime(t, h)
  <2>1. PICK t \in SetTimes, h \in 0 .. 1 : SetTime(t, h)
    BY <1>7
  <2>2. t[1] \in 0 .. 23 /\ t[2] \in 0 .. 59
    BY DEF Times
  <2> QED
    BY <2>1, <2>2 DEF SetTime, Disturb, NewMinute
<1>8. CASE \E p \in ScanSetups : SaveSample(p)
  BY <1>8 DEF SaveSample, Disturb
<1>9. CASE Restart
  BY <1>9 DEF Restart, Disturb
<1>10. CASE UNCHANGED vars
  BY <1>10 DEF vars
<1> QED
  BY <1>1, <1>2, <1>3, <1>4, <1>5, <1>6, <1>7, <1>8, <1>9, <1>10 DEF Next, MainLoop

\* ... and keeps the restarts and rows of a minute remembered, which is why
\* neither happens twice.
LEMMA StepRemembers ==
    IInv /\ [Next]_vars
      => NoRestartLoop' /\ RestartRemembered' /\ NoDoubleRow' /\ RowRemembered'
<1> SUFFICES ASSUME IInv, [Next]_vars
             PROVE  NoRestartLoop' /\ RestartRemembered' /\ NoDoubleRow' /\ RowRemembered'
  OBVIOUS
<1> USE DEF IInv, TypeOK, NoRestartLoop, RestartRemembered, NoDoubleRow, RowRemembered,
            clock, olds, minutes, Calls
<1>1. CASE Tick
  BY <1>1 DEF Tick, NewMinute
<1>2. CASE Boot
  BY <1>2 DEF Boot
<1>3. CASE CheckScanTime
  BY <1>3 DEF CheckScanTime, Loop
<1>4. CASE Check4hour
  <2>1. CASE ResetDue
    BY <1>4, <2>1 DEF Check4hour, ResetDue, Loop
  <2>2. CASE ~ResetDue
    BY <1>4, <2>2 DEF Check4hour, Loop
  <2> QED
    BY <2>1, <2>2
<1>5. CASE CheckHaccpScan
  BY <1>5 DEF CheckHaccpScan, HaccpDue, Loop
<1>6. CASE ReadTemperature
  BY <1>6 DEF ReadTemperature, Loop
<1>7. CASE \E t \in SetTimes, h \in 0 .. 1 : SetTime(t, h)
  <2>1. PICK t \in SetTimes, h \in 0 .. 1 : SetTime(t, h)
    BY <1>7
  <2>2. t \in Times
    BY TimesAssumption
  <2> QED
    BY <2>1, <2>2 DEF SetTime, NewMinute, Times
<1>8. CASE \E p \in ScanSetups : SaveSample(p)
  BY <1>8 DEF SaveSample
<1>9. CASE Restart
  BY <1>9 DEF Restart
<1>10. CASE UNCHANGED vars
  BY <1>10 DEF vars
<1> QED
  BY <1>1, <1>2, <1>3, <1>4, <1>5, <1>6, <1>7, <1>8, <1>9, <1>10 DEF Next, MainLoop

\* IInv is an invariant of the clock-driven tasks.
THEOREM Invariance == Spec => []IInv
<1>1. IInv /\ [Next]_vars => IInv'
  BY StepTypes, StepRemembers DEF IInv
<1> QED
  BY InitInv, <1>1, PTL DEF Spec

\* Every variable of the clock's tasks keeps its type: what a task remembers is
\* a minute it has seen, and the boot leaves no half-set memory behind.
THEOREM ClockTypeCorrect == Spec => []TypeOK
<1>1. IInv => TypeOK
  BY DEF IInv
<1> QED
  BY Invariance, <1>1, PTL

\* Check4hour: however the clock is set and whatever else restarts the device,
\* the scheduled restart happens at most once in a minute.
THEOREM RestartsOnce == Spec => []NoRestartLoop
<1>1. IInv => NoRestartLoop
  BY DEF IInv
<1> QED
  BY Invariance, <1>1, PTL

\* CheckHaccpScan: no row is written twice in a minute.
THEOREM RowsOnce == Spec => []NoDoubleRow
<1>1. IInv => NoDoubleRow
  BY DEF IInv
<1> QED
  BY Invariance, <1>1, PTL
-----------------------------------------------------------------------------
(***************************************************************************)
(* The timetable.  In the calm a minute is told from the one before by the *)
(* remembered minutes: each is the minute on the clock as soon as its task *)
(* has looked at it, which takes at most one turn of the loop, and the     *)
(* minute before until then.  A turn takes four calls, and a half minute   *)
(* has room for two.                                                       *)
(***************************************************************************)
Place(p) == CASE p = "CheckScanTime"  -> 0
              [] p = "Check4hour"     -> 1
              [] p = "CheckHaccpScan" -> 2
              [] OTHER                -> 3

\* Calls of the loop before call p.
Until(p) == IF Place(pc) <= Place(p) THEN Place(p) - Place(pc)
                                     ELSE Place(p) - Place(pc) + 4

\* Call p comes within b + 1 calls of the clock's last move.
Within(p, b) == steps + Until(p) <= b

MinuteBefore == IF mn = 0 THEN 59 ELSE mn - 1
Running == pc # "off"

\* In the first half of a minute a task has looked at the clock, or will
\* have before the first turn is over.
Looked ==
    calm >= 1 /\ half = 0 /\ Running =>
        /\ oldmin = mn \/ Within("CheckScanTime", 3)
        /\ old_reset_min = mn \/ Within("Check4hour", 3)
        /\ old_haccp_min = mn \/ Within("CheckHaccpScan", 3)

\* In the second half all have; a sample that is due is taken in the first
\* turn, or in the second when ptSaveTemp has yet to pass its PT_YIELD; and a
\* device that is off has been since the first half.
SecondHalf ==
    calm >= 1 /\ half = 1 =>
        IF Running
        THEN /\ oldmin = mn /\ old_reset_min = mn /\ old_haccp_min = mn
             /\ scanflag = 1 => Within("ReadTemperature", IF waiting THEN 7 ELSE 3)
        ELSE steps = 1

\* After a whole calm minute, what is remembered is this minute or the last.
Followed ==
    calm = 2 /\ half = 0 /\ Running =>
        /\ oldmin \in {mn, MinuteBefore}
        /\ old_reset_min \in {mn, MinuteBefore}
        /\ old_haccp_min \in {mn, MinuteBefore}

\* Then the device is off only for the scheduled restart, and what has been
\* done in this minute is what the tasks that have looked found due.
OffOnTime == calm = 2 /\ ~Running => RestartTime

SamplesTell ==
    calm = 2 => samples + scanflag =
                  IF scansetup # 0 /\ oldmin = mn /\ SampleTime THEN 1 ELSE 0
RowsTell ==
    calm = 2 => haccps = IF old_haccp_min = mn /\ HaccpTime THEN 1 ELSE 0
RestartsTell ==
    calm = 2 => resets = IF (Running => old_reset_min = mn) /\ RestartTime THEN 1 ELSE 0

TInv == /\ Looked /\ SecondHalf /\ Followed /\ OffOnTime
        /\ SamplesTell /\ RowsTell /\ RestartsTell

\* The lists of minutes and hours in the code are the arithmetic of the
\* timetable.
LEMMA ListedMinutes ==
    \A m \in 0 .. 59 : /\ m \in Minutes5 <=> m % 5 = 1
                       /\ m \in Minutes10 <=> m % 10 = 1
                       /\ m \in Minutes15 <=> m % 15 = 1
                       /\ m \in Minutes30 <=> m % 30 = 1
  BY DEF Minutes5, Minutes10, Minutes15, Minutes30

LEMMA ListedHours ==
    \A h \in 0 .. 23 : /\ h \in Hours120 <=> (60 * h) % 120 = 0
                       /\ h \in Hours240 <=> (60 * h) % 240 = 0
                       /\ h \in Hours360 <=> (60 * h) % 360 = 0
                       /\ (60 * h) % 60 = 0
                       /\ h \in ResetHours <=> h % 4 = 1
                       /\ h \in HaccpHours <=> h >= 6 /\ h % 4 = 2
  BY DEF Hours120, Hours240, Hours360, ResetHours, HaccpHours

\* A task that remembers the minute before finds due exactly what the
\* timetable names, and one that remembers this minute finds nothing due.
LEMMA DueOnTime ==
    ASSUME TypeOK
    PROVE  /\ oldmin = mn => ~ScanDue
           /\ scansetup = 0 => ~ScanDue
           /\ oldmin = MinuteBefore /\ scansetup # 0 => (ScanDue <=> SampleTime)
           /\ old_reset_min = mn => ~ResetDue
           /\ old_reset_min = MinuteBefore => (ResetDue <=> RestartTime)
           /\ old_haccp_min = mn => ~HaccpDue
           /\ old_haccp_min = MinuteBefore => (HaccpDue <=> HaccpTime)
           /\ MinuteBefore # mn
  <1>1. /\ hr \in 0 .. 23 /\ mn \in 0 .. 59 /\ MinuteBefore # mn
        /\ scansetup \in {0, 5, 10, 15, 30, 60, 120, 240, 360}
    BY DEF TypeOK, Periods, MinuteBefore
  <1>2. oldmin = mn \/ scansetup = 0 => ~ScanDue
    BY <1>1 DEF ScanDue, FirstMinute
  <1>3. ASSUME oldmin = MinuteBefore, scansetup # 0 PROVE ScanDue <=> SampleTime
    <2>1. FirstMinute <=> mn = 1
      BY <1>1, <1>3 DEF FirstMinute, MinuteBefore
    <2>2. oldmin # mn
      BY <1>1, <1>3
    <2>3. CASE scansetup \in {5, 10, 15, 30}
      BY <1>1, <2>2, <2>3, ListedMinutes DEF ScanDue, SampleTime
    <2>4. CASE scansetup \in {60, 120, 240, 360}
      BY <1>1, <2>1, <2>4, ListedHours DEF ScanDue, SampleTime
    <2> QED BY <1>1, <1>3, <2>3, <2>4
  <1>4. /\ old_reset_min = mn => ~ResetDue
        /\ old_reset_min = MinuteBefore => (ResetDue <=> RestartTime)
    BY <1>1, ListedHours DEF ResetDue, RestartTime
  <1>5. /\ old_haccp_min = mn => ~HaccpDue
        /\ old_haccp_min = MinuteBefore => (HaccpDue <=> HaccpTime)
    BY <1>1, ListedHours DEF HaccpDue, HaccpTime
  <1> QED BY <1>1, <1>2, <1>3, <1>4, <1>5

\* A call brings every other call nearer by as much as it takes.
LEMMA CallsFollow ==
    ASSUME TypeOK, NEW p \in Calls, NEW q \in Calls, Loop(p, q),
           Place(q) = IF p = "ReadTemperature" THEN 0 ELSE Place(p) + 1
    PROVE  /\ \A x \in Calls, b \in {3, 7} : x # p /\ Within(x, b) => Within(x, b)'
           /\ Within(p, 3) => Within(p, 7)'
           /\ Running /\ Running'
  <1>1. steps \in 0 .. 8 /\ pc = p /\ pc' = q /\ steps' = IF steps = 8 THEN 8 ELSE steps + 1
    BY DEF TypeOK, Loop, Pace
  <1>2. \A x \in Calls : Place(x) \in 0 .. 3
    BY DEF Calls, Place
  <1>3. ASSUME NEW x \in Calls, x # p PROVE Until(x)' = Until(x) - 1 /\ Until(x) \in 1 .. 3
    BY <1>1, <1>3 DEF Calls, Place, Until
  <1>4. Until(p)' = 3 /\ Until(p) = 0
    BY <1>1 DEF Calls, Place, Until
  <1>5. ASSUME NEW x \in Calls, NEW b \in {3, 7}, x # p, Within(x, b) PROVE Within(x, b)'
    BY <1>1, <1>3, <1>5 DEF Within
  <1>6. Within(p, 3) => Within(p, 7)'
    BY <1>1, <1>4 DEF Within
  <1>7. Running /\ Running'
    BY <1>1 DEF Running, Calls
  <1> QED BY <1>5, <1>6, <1>7

\* The clock moves: in the middle of a minute every task has looked, and at
\* its end nothing is pending.
LEMMA TickKeeps == ASSUME TypeOK, TInv, Tick PROVE TInv'
  <1>0. /\ mn \in 0 .. 59 /\ hr \in 0 .. 23 /\ half \in {0, 1} /\ calm \in 0 .. 2
        /\ half' = 1 - half /\ calm' \in 0 .. 2
        /\ Running' = Running
        /\ UNCHANGED <<pc, oldmin, old_reset_min, old_haccp_min, scanflag, waiting, scansetup>>
        /\ Running => steps = 8 /\ steps' = 0
        /\ ~Running => steps = 0 /\ steps' = 1
    BY DEF Tick, TypeOK, Running, olds, setup, Pace
  <1>1. \A x \in Calls, b \in {3, 7} :
           /\ Running => ~Within(x, b)
           /\ Running => Within(x, b)'
    <2>1. ASSUME NEW x \in Calls PROVE Until(x) \in 0 .. 3 /\ Until(x)' \in 0 .. 3
      BY <1>0, <2>1 DEF TypeOK, Calls, Until, Place
    <2> QED BY <1>0, <2>1 DEF Within
  <1>2. CASE half = 0
    <2>1. UNCHANGED <<hr, mn, samples, haccps, resets, calm>> /\ half' = 1
      BY <1>0, <1>2 DEF Tick, minutes
    <2>2. Looked' /\ Followed'
      BY <2>1 DEF Looked, Followed
    <2>3. SecondHalf'
      <3>1. calm >= 1 /\ Running => oldmin = mn /\ old_reset_min = mn /\ old_haccp_min = mn
        BY <1>1, <1>2 DEF TInv, Looked, Calls
      <3>2. Running => Within("ReadTemperature", 3)' /\ Within("ReadTemperature", 7)'
        BY <1>1 DEF Calls
      <3> QED BY <1>0, <2>1, <3>1, <3>2 DEF SecondHalf
    <2>4. SamplesTell' /\ RowsTell' /\ RestartsTell' /\ OffOnTime'
      BY <1>0, <2>1 DEF TInv, SamplesTell, RowsTell, RestartsTell, OffOnTime,
                        SampleTime, HaccpTime, RestartTime
    <2> QED BY <2>2, <2>3, <2>4 DEF TInv
  <1>3. CASE half = 1
    <2>1. /\ half' = 0 /\ samples' = 0 /\ haccps' = 0 /\ resets' = 0
          /\ mn' = (mn + 1) % 60 /\ calm' = IF calm = 2 THEN 2 ELSE calm + 1
      BY <1>0, <1>3 DEF Tick, NewMinute
    <2>2. mn' # mn /\ MinuteBefore' = mn
      BY <1>0, <2>1 DEF MinuteBefore
    <2>3. calm >= 1 => /\ Running /\ scanflag = 0
                       /\ oldmin = mn /\ old_reset_min = mn /\ old_haccp_min = mn
      <3>1. calm >= 1 => Running
        BY <1>0, <1>3 DEF TInv, SecondHalf
      <3>2. scanflag \in {0, 1}
        BY DEF TypeOK
      <3> QED BY <1>1, <1>3, <3>1, <3>2 DEF TInv, SecondHalf, Calls
    <2>4. calm' = 2 => calm >= 1
      BY <1>0, <2>1
    <2>5. Looked' /\ SecondHalf'
      BY <1>0, <1>1, <2>1 DEF Looked, SecondHalf, Calls
    <2>6. Followed' /\ OffOnTime'
      BY <1>0, <2>2, <2>3, <2>4 DEF Followed, OffOnTime
    <2>7. SamplesTell' /\ RowsTell' /\ RestartsTell'
      BY <1>0, <2>1, <2>2, <2>3, <2>4 DEF SamplesTell, RowsTell, RestartsTell
    <2> QED BY <2>5, <2>6, <2>7 DEF TInv
  <1> QED BY <1>0, <1>2, <1>3

\* The boot code seeds all three minutes from the clock.  In the calm it
\* follows the scheduled restart only, in whose minute no other task is due.
LEMMA BootKeeps == ASSUME TypeOK, TInv, Boot PROVE TInv'
  <1>0. /\ Running' /\ ~Running /\ mn' = mn /\ hr' = hr /\ half' = half /\ calm' = calm
        /\ mn \in 0 .. 59
        /\ oldmin' = mn /\ old_reset_min' = mn /\ old_haccp_min' = mn /\ scanflag' = 0
        /\ UNCHANGED <<samples, haccps, resets>>
    BY DEF Boot, Running, clock, minutes, TypeOK
  <1>1. scansetup \in Periods \cup {0} /\ scansetup' \in Periods \cup {0}
    BY DEF Boot, TypeOK
  <1>2. Looked' /\ SecondHalf' /\ Followed' /\ OffOnTime'
    BY <1>0 DEF Looked, SecondHalf, Followed, OffOnTime
  <1>3. calm = 2 => RestartTime /\ mn = 59
    BY <1>0 DEF TInv, OffOnTime, RestartTime
  <1>4. mn = 59 => /\ scansetup # 0 => ~SampleTime
                   /\ scansetup' # 0 => ~SampleTime'
                   /\ ~HaccpTime /\ ~HaccpTime'
    <2>1. \A p \in Periods : p < 60 => 59 % p # 1
      BY DEF Periods
    <2>2. scansetup # 0 => scansetup \in Periods
      BY <1>1
    <2>3. scansetup' # 0 => scansetup' \in Periods
      BY <1>1
    <2> QED BY <1>0, <2>1, <2>2, <2>3 DEF SampleTime, HaccpTime
  <1>5. SamplesTell'
    <2>1. calm = 2 => samples + scanflag = 0
      BY <1>3, <1>4 DEF TInv, SamplesTell
    <2>2. samples \in Nat /\ scanflag \in {0, 1}
      BY DEF TypeOK
    <2>3. calm = 2 => samples' + scanflag' = 0
      BY <1>0, <2>1, <2>2
    <2> QED BY <1>0, <1>3, <1>4, <2>3 DEF SamplesTell
  <1>6. RowsTell'
    BY <1>0, <1>3, <1>4 DEF TInv, RowsTell
  <1>7. RestartsTell'
    BY <1>0, <1>3 DEF TInv, RestartsTell, RestartTime
  <1> QED BY <1>2, <1>5, <1>6, <1>7 DEF TInv

\* CheckScanTime raises the flag exactly in the minutes of the timetable.
LEMMA ScanKeeps == ASSUME TypeOK, TInv, CheckScanTime PROVE TInv'
  <1>0. /\ UNCHANGED <<hr, mn, half, old_reset_min, old_haccp_min, waiting, scansetup,
                       samples, haccps, resets, calm>>
        /\ oldmin' = mn
        /\ scanflag' = (IF ScanDue THEN 1 ELSE scanflag)
        /\ Loop("CheckScanTime", "Check4hour")
        /\ samples \in Nat /\ scanflag \in {0, 1} /\ half \in {0, 1} /\ calm \in 0 .. 2
    BY DEF CheckScanTime, clock, setup, minutes, TypeOK
  <1>1. /\ \A x \in Calls, b \in {3, 7} :
             x # "CheckScanTime" /\ Within(x, b) => Within(x, b)'
        /\ Running /\ Running'
    BY <1>0, CallsFollow DEF Calls, Place
  <1>2. Looked' /\ Followed' /\ OffOnTime'
    BY <1>0, <1>1 DEF TInv, Looked, Followed, OffOnTime, MinuteBefore, Calls
  <1>3. SecondHalf'
    <2>1. calm >= 1 /\ half = 1 => oldmin = mn /\ scanflag' = scanflag
      BY <1>0, <1>1, DueOnTime DEF TInv, SecondHalf
    <2> QED BY <1>0, <1>1, <2>1 DEF TInv, SecondHalf, Calls
  <1>4. SamplesTell'
    <2> SUFFICES ASSUME calm = 2
                 PROVE  samples + scanflag' = IF scansetup # 0 /\ SampleTime THEN 1 ELSE 0
      BY <1>0 DEF SamplesTell, SampleTime
    <2>1. oldmin = mn \/ oldmin = MinuteBefore
      BY <1>0, <1>1 DEF TInv, Followed, SecondHalf
    <2>2. CASE oldmin = mn
      <3>1. scanflag' = scanflag
        BY <1>0, <2>2, DueOnTime
      <3> QED BY <2>2, <3>1 DEF TInv, SamplesTell
    <2>3. CASE oldmin = MinuteBefore
      <3>1. samples + scanflag = 0
        BY <2>3, DueOnTime DEF TInv, SamplesTell
      <3>2. samples = 0 /\ scanflag = 0
        BY <1>0, <3>1
      <3>3. ScanDue <=> scansetup # 0 /\ SampleTime
        BY <2>3, DueOnTime
      <3> QED BY <1>0, <3>2, <3>3
    <2> QED BY <2>1, <2>2, <2>3
  <1>5. RowsTell' /\ RestartsTell'
    BY <1>0, <1>1 DEF TInv, RowsTell, RestartsTell, HaccpTime, RestartTime
  <1> QED BY <1>2, <1>3, <1>4, <1>5 DEF TInv

\* Check4hour restarts the device exactly in the minutes of the timetable.
LEMMA ResetKeeps == ASSUME TypeOK, TInv, Check4hour PROVE TInv'
  <1>0. /\ UNCHANGED <<hr, mn, half, oldmin, old_haccp_min, waiting, scansetup, scanflag,
                       samples, haccps, calm>>
        /\ half \in {0, 1} /\ calm \in 0 .. 2 /\ Running
    BY DEF Check4hour, clock, olds, setup, minutes, TypeOK, Running, Loop
  <1>1. calm >= 1 /\ half = 1 => old_reset_min = mn
    BY <1>0 DEF TInv, SecondHalf
  <1>2. calm = 2 => /\ old_reset_min \in {mn, MinuteBefore}
                    /\ old_reset_min = MinuteBefore => resets = 0
    BY <1>0, <1>1, DueOnTime DEF TInv, Followed, RestartsTell
  <1>3. SamplesTell' /\ RowsTell'
    BY <1>0 DEF TInv, SamplesTell, RowsTell, SampleTime, HaccpTime
  <1>4. CASE ResetDue
    <2>1. ~Running' /\ resets' = resets + 1 /\ old_reset_min # mn
      BY <1>4, DueOnTime DEF Check4hour, Running
    <2>2. Looked' /\ SecondHalf' /\ Followed'
      BY <1>0, <1>1, <2>1 DEF Looked, SecondHalf, Followed
    <2>3. calm = 2 => RestartTime /\ resets = 0
      BY <1>2, <1>4, <2>1, DueOnTime
    <2> QED BY <1>0, <1>3, <2>1, <2>2, <2>3 DEF TInv, OffOnTime, RestartsTell, RestartTime
  <1>5. CASE ~ResetDue
    <2>1. /\ Loop("Check4hour", "CheckHaccpScan") /\ old_reset_min' = mn /\ resets' = resets
      BY <1>5 DEF Check4hour, minutes
    <2>2. /\ \A x \in Calls, b \in {3, 7} :
               x # "Check4hour" /\ Within(x, b) => Within(x, b)'
          /\ Running'
      BY <2>1, CallsFollow DEF Calls, Place
    <2>3. Looked' /\ Followed' /\ OffOnTime'
      BY <1>0, <2>1, <2>2 DEF TInv, Looked, Followed, OffOnTime, MinuteBefore, Calls
    <2>4. SecondHalf'
      BY <1>0, <2>1, <2>2 DEF TInv, SecondHalf, Calls
    <2>5. RestartsTell'
      <3>1. calm = 2 /\ old_reset_min = MinuteBefore => ~RestartTime
        BY <1>5, DueOnTime
      <3> QED BY <1>0, <1>2, <2>1, <2>2, <3>1 DEF TInv, RestartsTell, RestartTime
    <2> QED BY <1>3, <2>3, <2>4, <2>5 DEF TInv
  <1> QED BY <1>4, <1>5

\* CheckHaccpScan writes its rows exactly in the minutes of the timetable.
LEMMA RowKeeps == ASSUME TypeOK, TInv, CheckHaccpScan PROVE TInv'
  <1>0. /\ UNCHANGED <<hr, mn, half, oldmin, old_reset_min, waiting, scansetup, scanflag,
                       samples, resets, calm>>
        /\ half \in {0, 1} /\ calm \in 0 .. 2
        /\ Loop("CheckHaccpScan", "ReadTemperature") /\ old_haccp_min' = mn
        /\ haccps' = haccps + (IF HaccpDue THEN 1 ELSE 0)
    BY DEF CheckHaccpScan, clock, setup, TypeOK
  <1>1. /\ \A x \in Calls, b \in {3, 7} :
             x # "CheckHaccpScan" /\ Within(x, b) => Within(x, b)'
        /\ Running /\ Running'
    BY <1>0, CallsFollow DEF Calls, Place
  <1>2. Looked' /\ Followed' /\ OffOnTime'
    BY <1>0, <1>1 DEF TInv, Looked, Followed, OffOnTime, MinuteBefore, Calls
  <1>3. SecondHalf'
    BY <1>0, <1>1 DEF TInv, SecondHalf, Calls
  <1>4. SamplesTell' /\ RestartsTell'
    BY <1>0, <1>1 DEF TInv, SamplesTell, RestartsTell, SampleTime, RestartTime
  <1>5. RowsTell'
    <2> SUFFICES ASSUME calm = 2 PROVE haccps' = IF HaccpTime THEN 1 ELSE 0
      BY <1>0 DEF RowsTell, HaccpTime
    <2>1. old_haccp_min = mn \/ old_haccp_min = MinuteBefore
      BY <1>0, <1>1 DEF TInv, Followed, SecondHalf
    <2> QED BY <1>0, <2>1, DueOnTime DEF TInv, RowsTell
  <1> QED BY <1>2, <1>3, <1>4, <1>5 DEF TInv

\* ptSaveTemp turns the flag into a sample, at its second turn at the latest.
LEMMA ReadKeeps == ASSUME TypeOK, TInv, ReadTemperature PROVE TInv'
  <1>0. /\ UNCHANGED <<hr, mn, half, oldmin, old_reset_min, old_haccp_min, scansetup,
                       haccps, resets, calm>>
        /\ half \in {0, 1} /\ calm \in 0 .. 2 /\ samples \in Nat /\ scanflag \in {0, 1}
        /\ Loop("ReadTemperature", "CheckScanTime")
    BY DEF ReadTemperature, clock, olds, setup, TypeOK
  <1>1. /\ \A x \in Calls, b \in {3, 7} :
             x # "ReadTemperature" /\ Within(x, b) => Within(x, b)'
        /\ Within("ReadTemperature", 3) => Within("ReadTemperature", 7)'
        /\ Running /\ Running'
    BY <1>0, CallsFollow DEF Calls, Place
  <1>2. Looked' /\ Followed' /\ OffOnTime'
    BY <1>0, <1>1 DEF TInv, Looked, Followed, OffOnTime, MinuteBefore, Calls
  <1>3. \/ scanflag = 1 /\ waiting /\ scanflag' = 0 /\ samples' = samples + 1
        \/ scanflag = 1 /\ ~waiting /\ waiting' /\ scanflag' = 1 /\ samples' = samples
        \/ scanflag = 0 /\ scanflag' = 0 /\ samples' = samples
    BY <1>0 DEF ReadTemperature
  <1>4. samples' + scanflag' = samples + scanflag
    BY <1>0, <1>3
  <1>5. SecondHalf'
    <2> SUFFICES ASSUME calm >= 1, half = 1, scanflag' = 1
                 PROVE  Within("ReadTemperature", 7)' /\ waiting'
      BY <1>0, <1>1 DEF TInv, SecondHalf, Within
    <2>1. scanflag = 1 /\ ~waiting /\ waiting'
      BY <1>3
    <2>2. Within("ReadTemperature", 3)
      BY <1>1, <2>1 DEF TInv, SecondHalf
    <2> QED BY <1>1, <2>1, <2>2
  <1>6. SamplesTell' /\ RowsTell' /\ RestartsTell'
    BY <1>0, <1>1, <1>4 DEF TInv, SamplesTell, RowsTell, RestartsTell,
                             SampleTime, HaccpTime, RestartTime
  <1> QED BY <1>2, <1>5, <1>6 DEF TInv

\* The invariant is kept by every step: a disturbance ends the calm.
LEMMA TInvPreserved == ASSUME TypeOK, TInv, [Next]_vars PROVE TInv'
  <1>1. ASSUME \/ \E t \in SetTimes, h \in 0 .. 1 : SetTime(t, h)
               \/ \E p \in ScanSetups : SaveSample(p)
               \/ Restart
        PROVE  TInv'
    <2>1. calm' = 0
      BY <1>1 DEF SetTime, SaveSample, Restart, Disturb
    <2> QED BY <2>1 DEF TInv, Looked, SecondHalf, Followed, OffOnTime,
                        SamplesTell, RowsTell, RestartsTell
  <1>2. CASE UNCHANGED vars
    BY <1>2 DEF vars, clock, olds, setup, minutes, TInv, Looked, SecondHalf, Followed,
                OffOnTime, SamplesTell, RowsTell, RestartsTell, Running, MinuteBefore,
                Within, Until, SampleTime, HaccpTime, RestartTime
  <1> QED BY <1>1, <1>2, TickKeeps, BootKeeps, ScanKeeps, ResetKeeps, RowKeeps, ReadKeeps
          DEF Next, MainLoop

\* At the end of a second calm minute nothing is pending, so that what was
\* done is what the timetable says.
LEMMA MinuteIsComplete ==
    ASSUME TypeOK, TInv, [Next]_vars, MinuteEnds, calm = 2
    PROVE  /\ scansetup # 0 => samples = (IF SampleTime THEN 1 ELSE 0)
           /\ haccps = (IF HaccpTime THEN 1 ELSE 0)
           /\ resets = (IF RestartTime THEN 1 ELSE 0)
  <1>1. CASE Tick /\ half = 1
    <2>1. /\ Running => steps = 8
          /\ ~Running => steps = 0
      BY <1>1 DEF Tick, Running, Pace
    <2>2. /\ Running
          /\ oldmin = mn /\ old_reset_min = mn /\ old_haccp_min = mn
          /\ scanflag = 1 => Within("ReadTemperature", IF waiting THEN 7 ELSE 3)
      BY <1>1, <2>1 DEF TInv, SecondHalf
    <2>3. Until("ReadTemperature") \in 0 .. 3
      BY <2>2 DEF TypeOK, Calls, Until, Place, Running
    <2>4. scanflag = 0
      BY <2>1, <2>2, <2>3 DEF Within, TypeOK
    <2>5. samples \in Nat
      BY DEF TypeOK
    <2> QED BY <2>2, <2>4, <2>5 DEF TInv, SamplesTell, RowsTell, RestartsTell
  <1>2. CASE Tick /\ half # 1
    <2>1. half = 0
      BY <1>2 DEF TypeOK
    <2> QED BY <1>2, <2>1 DEF Tick, MinuteEnds
  <1>3. ASSUME MainLoop \/ UNCHANGED vars PROVE FALSE
    <2>1. mn' = mn
      BY <1>3 DEF MainLoop, Boot, CheckScanTime, Check4hour, CheckHaccpScan,
                  ReadTemperature, vars, clock
    <2> QED BY <2>1 DEF MinuteEnds
  <1>4. ASSUME \/ \E t \in SetTimes, h \in 0 .. 1 : SetTime(t, h)
               \/ \E p \in ScanSetups : SaveSample(p)
               \/ Restart
        PROVE  FALSE
    BY <1>4 DEF SetTime, SaveSample, Restart, Disturb, MinuteEnds
  <1> QED BY <1>1, <1>2, <1>3, <1>4 DEF Next

\* From the second whole minute after a disturbance on, samples, HACCP rows
\* and scheduled restarts happen once in each of their minutes and in no
\* other: for every period, over the scheduled restarts, although each task
\* reads the clock by itself and the restart may cross the half minute.
THEOREM TimetableKept == Spec => KeepsTimetable
<1>1. Init => TInv
  BY DEF Init, TInv, Looked, SecondHalf, Followed, OffOnTime, SamplesTell, RowsTell,
         RestartsTell
<1>2. TypeOK /\ TInv /\ [Next]_vars => TInv'
  BY TInvPreserved
<1>3. TypeOK /\ TInv /\ [Next]_vars =>
        /\ [MinuteEnds /\ calm = 2 /\ scansetup # 0
              => samples = (IF SampleTime THEN 1 ELSE 0)]_vars
        /\ [MinuteEnds /\ calm = 2 => haccps = (IF HaccpTime THEN 1 ELSE 0)]_vars
        /\ [MinuteEnds /\ calm = 2 => resets = (IF RestartTime THEN 1 ELSE 0)]_vars
  BY MinuteIsComplete
<1> QED
  BY <1>1, <1>2, <1>3, ClockTypeCorrect, PTL
     DEF Spec, KeepsTimetable, SamplesOnTime, HaccpOnTime, RestartsOnTime
=============================================================================
