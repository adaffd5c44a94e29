----------------------------- MODULE SensorAlarm -----------------------------
(***************************************************************************)
(* Temperature alarms: the read cycle ptReadTemp, the hysteresis automaton *)
(* test_alarm and the per-second countdown of ptAlarmDelay.                *)
(*                                                                         *)
(* The firmware is one cooperative loop, so an action is what a handler    *)
(* does between two points at which it waits.  ptReadTemp waits once per   *)
(* enabled sensor (DS18B20 conversion, 1 s); everything else can run while *)
(* it waits: the countdown, the web form, the logger (which overwrites     *)
(* temp[] with means) and a reset.                                         *)
(*                                                                         *)
(* senzor[] is kept in EEPROM and reloaded at boot, NV_DELAY and the alarm *)
(* file are non-volatile; State, error_counter, temp and the protothread   *)
(* position are RAM and are zeroed by a reset.                             *)
(***************************************************************************)
EXTENDS Integers

CONSTANTS
    N,                    \* NUMBER_OF_SENSOR
    Temps,                \* temperatures that a reading or a mean can be
    Settings,             \* contents of a senzor[] entry the web form can store
    ONEWIRE_ERROR_COUNT,  \* failed readings before the sensor is reported
    NVMOD,                \* a backup SRAM word counts modulo NVMOD (2^32)
    MaxResets             \* bound: resets in a behaviour

Sensors == 0 .. N - 1

NO_ALARM  == 0
ALARM_HI  == 1
ALARM_LOW == 2
ALARM_ERR == 3

SettingType == [HIGHLIMIT : Int, LOWLIMIT : Int, HIS : Nat,
                DELAY : Nat, ENBLE : {0, 1}]

ASSUME NAssumption == N \in Nat \ {0}
ASSUME TempsAssumption == Temps \subseteq Int /\ 0 \in Temps
ASSUME SettingsAssumption == Settings \subseteq SettingType
ASSUME CountAssumption == ONEWIRE_ERROR_COUNT \in Nat \ {0}
\* DELAY has 16 bits, the backup SRAM word that counts up to it has 32.
ASSUME WidthAssumption == /\ NVMOD \in Nat /\ NVMOD > 2
                          /\ \A s \in Settings : s.DELAY < NVMOD - 1
ASSUME ResetsAssumption == MaxResets \in Nat

VARIABLES
    senzor,         \* configuration of each sensor (EEPROM, mirrored in RAM)
    temp,           \* temp[k]: last reading, or the mean the logger put there
    State,          \* senzor[k].STATE, the hysteresis automaton
    error_counter,  \* senzor[k].error_counter
    rd,             \* sensor ptReadTemp waits for; N: before a cycle
    NV_DELAY,       \* NV_DELAY_SEN1 + 4k: 0, or 1 + seconds counted
    alarmFile,      \* kind of the last row SaveAlarm wrote for the sensor
    resets,         \* number of resets so far
    (* history variables: read by the properties, never by the actions *)
    episode,        \* "quiet", "armed" (countdown runs) or "reported"
    current,        \* sensors whose temp[] was read in the running cycle
    late            \* sensors enabled, or whose temp[] was replaced, since it began

vars == <<senzor, temp, State, error_counter, rd, NV_DELAY, alarmFile,
          resets, episode, current, late>>
-----------------------------------------------------------------------------
(* test_alarm(): the new state of the automaton.  Its return value is the  *)
(* new state when an alarm sets in and 0 otherwise.                        *)
RaisesHigh(t, s) == t >= s.HIGHLIMIT + s.HIS
RaisesLow(t, s)  == t <= s.LOWLIMIT - s.HIS
ClearsHigh(t, s) == t <= s.HIGHLIMIT - s.HIS
ClearsLow(t, s)  == t >= s.LOWLIMIT + s.HIS

\* Mutant: a high alarm may turn into a low one without passing NO_ALARM.
test_alarm_Jump(t, s, st) ==
    CASE st = ALARM_LOW \/ (st = ALARM_HI /\ ~ClearsHigh(t, s)) ->
            IF st = ALARM_LOW /\ ClearsLow(t, s) THEN NO_ALARM ELSE st
      [] OTHER -> IF RaisesHigh(t, s) THEN ALARM_HI
                  ELSE IF RaisesLow(t, s) THEN ALARM_LOW ELSE NO_ALARM

test_alarm(t, s, st) ==
    CASE st = NO_ALARM  -> IF RaisesHigh(t, s) THEN ALARM_HI
                           ELSE IF RaisesLow(t, s) THEN ALARM_LOW
                           ELSE NO_ALARM
      [] st = ALARM_HI  -> IF ClearsHigh(t, s) THEN NO_ALARM ELSE ALARM_HI
      [] st = ALARM_LOW -> IF ClearsLow(t, s) THEN NO_ALARM ELSE ALARM_LOW

(* The second loop of ptReadTemp, for one sensor: te and er are the        *)
(* temperature and the error counter the first loop left.                  *)
Tested(k, er) == senzor[k].ENBLE = 1 /\ er = 0

NextState(k, te, er) ==
    IF Tested(k, er) THEN test_alarm(te, senzor[k], State[k]) ELSE State[k]

\* Mutant: the fault is looked for one past the count.
Alarm_Late(k, te, er) ==
    CASE Tested(k, er) /\ State[k] = NO_ALARM -> NextState(k, te, er)
      [] senzor[k].ENBLE = 1 /\ er = ONEWIRE_ERROR_COUNT + 1 -> ALARM_ERR
      [] OTHER -> NO_ALARM

\* Mutant: an alarm that stands is raised again by every cycle.
Alarm_Again(k, te, er) ==
    CASE Tested(k, er) -> NextState(k, te, er)
      [] senzor[k].ENBLE = 1 /\ er = ONEWIRE_ERROR_COUNT -> ALARM_ERR
      [] OTHER -> NO_ALARM

Alarm(k, te, er) ==
    CASE Tested(k, er) /\ State[k] = NO_ALARM -> NextState(k, te, er)
      [] senzor[k].ENBLE = 1 /\ er = ONEWIRE_ERROR_COUNT -> ALARM_ERR
      [] OTHER -> NO_ALARM

\* Mutant: the countdown is cleared whenever the automaton is at NO_ALARM.
Cleared_Always(k, te, er) == NextState(k, te, er) = NO_ALARM

Cleared(k, te, er) ==
    State[k] # NO_ALARM /\ NextState(k, te, er) = NO_ALARM

(* Reported once per fault: the counter skips past ONEWIRE_ERROR_COUNT and *)
(* stays there until a reading succeeds.                                   *)
NextErrorCounter(k, er) ==
    IF senzor[k].ENBLE = 1 /\ er = ONEWIRE_ERROR_COUNT THEN er + 2 ELSE er

EvaluateAll(te, er) ==
    /\ State' = [k \in Sensors |-> NextState(k, te[k], er[k])]
    /\ error_counter' = [k \in Sensors |-> NextErrorCounter(k, er[k])]
    /\ NV_DELAY' = [k \in Sensors |->
                      IF Alarm(k, te[k], er[k]) # NO_ALARM THEN 1
                      ELSE IF Cleared(k, te[k], er[k]) THEN 0
                      ELSE NV_DELAY[k]]
    /\ alarmFile' = [k \in Sensors |->
                      IF Alarm(k, te[k], er[k]) # NO_ALARM
                      THEN Alarm(k, te[k], er[k]) ELSE alarmFile[k]]
    /\ episode' = [k \in Sensors |->
                      IF Alarm(k, te[k], er[k]) # NO_ALARM THEN "armed"
                      ELSE IF Cleared(k, te[k], er[k]) THEN "quiet"
                      ELSE episode[k]]
-----------------------------------------------------------------------------
\* A countdown word that will be reported: 0 is idle, and the largest word
\* (possible only in backup SRAM that was never written) wraps to 0.
Running(d) == d \in 1 .. NVMOD - 2

Init ==
    /\ senzor \in [Sensors -> Settings]
    /\ temp = [k \in Sensors |-> 0]
    /\ State = [k \in Sensors |-> NO_ALARM]
    /\ error_counter = [k \in Sensors |-> 0]
    /\ rd = N
    /\ NV_DELAY \in [Sensors -> 0 .. NVMOD - 1]   \* InitNV does not clear it
    /\ alarmFile = [k \in Sensors |-> NO_ALARM]
    /\ resets = 0
    /\ episode = [k \in Sensors |-> IF Running(NV_DELAY[k]) THEN "armed" ELSE "quiet"]
    /\ current = {} /\ late = {}

Enabled(k) == senzor[k].ENBLE = 1

\* ptReadTemp up to the first wait: starts the conversion of sensor k.
ReadStart(k) ==
    /\ rd = N
    /\ Enabled(k)
    /\ \A j \in Sensors : j < k => ~Enabled(j)
    /\ rd' = k
    /\ current' = {} /\ late' = {}
    /\ UNCHANGED <<senzor, temp, State, error_counter, NV_DELAY, alarmFile,
                   resets, episode>>

\* The conversion time of the sensor is over; its scratchpad has been read
\* and the checksum accepted.
ReadOK(t) ==
    /\ temp' = [temp EXCEPT ![rd] = t]
    /\ error_counter' = [error_counter EXCEPT ![rd] = 0]
    /\ current' = current \cup {rd}

\* Mutant: the failure of a sensor that was good is not counted.
ErrorsAfterKO_Forgives ==
    [error_counter EXCEPT ![rd] =
        IF @ \in 1 .. ONEWIRE_ERROR_COUNT - 1 THEN @ + 1 ELSE @]

\* Mutant: the counter stops one short of the count.
ErrorsAfterKO_Short ==
    [error_counter EXCEPT ![rd] = IF @ + 1 < ONEWIRE_ERROR_COUNT THEN @ + 1 ELSE @]

\* ... or the checksum was wrong (or the reading was the power-on value).
ErrorsAfterKO ==
    [error_counter EXCEPT ![rd] = IF @ < ONEWIRE_ERROR_COUNT THEN @ + 1 ELSE @]

ReadKO ==
    /\ temp' = temp
    /\ error_counter' = ErrorsAfterKO
    /\ UNCHANGED current

IsNextEnabled(k) ==
    /\ k > rd
    /\ Enabled(k)
    /\ \A j \in Sensors : rd < j /\ j < k => ~Enabled(j)

IsLast == \A j \in Sensors : j > rd => ~Enabled(j)

\* Sensor rd has been read and the conversion of the next enabled one begins.
ReadNext(k) ==
    /\ rd \in Sensors
    /\ IsNextEnabled(k)
    /\ rd' = k
    /\ (\E t \in Temps : ReadOK(t)) \/ ReadKO
    /\ UNCHANGED <<senzor, State, NV_DELAY, alarmFile, resets, episode, late>>

\* Sensor rd was the last enabled one: the alarms of all sensors are
\* evaluated in the same step.
ReadLastOK(t) ==
    /\ rd \in Sensors
    /\ IsLast
    /\ rd' = N
    /\ temp' = [temp EXCEPT ![rd] = t]
    /\ current' = current \cup {rd}
    /\ EvaluateAll(temp', [error_counter EXCEPT ![rd] = 0])
    /\ UNCHANGED <<senzor, resets, late>>

ReadLastKO ==
    /\ rd \in Sensors
    /\ IsLast
    /\ rd' = N
    /\ EvaluateAll(temp, ErrorsAfterKO)
    /\ UNCHANGED <<senzor, temp, resets, current, late>>

\* ptAlarmDelay, the loop over the sensors, once a second.  SendWApp and
\* SendSMS are called for the sensors in Due.
Counted(d) == IF d = 0 THEN 0 ELSE IF d = NVMOD - 1 THEN 0 ELSE d + 1

\* Mutant: one second early.
Due_Early(k) == NV_DELAY[k] # 0 /\ Counted(NV_DELAY[k]) >= senzor[k].DELAY

Due(k) == Counted(NV_DELAY[k]) > senzor[k].DELAY

AlarmDelay ==
    /\ NV_DELAY' = [k \in Sensors |->
                      IF Due(k) THEN 0 ELSE Counted(NV_DELAY[k])]
    /\ episode' = [k \in Sensors |->
                      IF Due(k) THEN "reported" ELSE episode[k]]
    /\ UNCHANGED <<senzor, temp, State, error_counter, rd, alarmFile, resets,
                   current, late>>

\* Sensor(): the web form stores new settings for sensor k.
Sensor(k, s) ==
    /\ s # senzor[k]
    /\ senzor' = [senzor EXCEPT ![k] = s]
    /\ late' = IF rd = N \/ Enabled(k) THEN late ELSE late \cup {k}
    /\ UNCHANGED <<temp, State, error_counter, rd, NV_DELAY, alarmFile, resets,
                   episode, current>>

\* SaveTemp/SaveHaccp replace the readings of enabled sensors by the means
\* being logged (module Logger says which means), and temp[0] always.
SaveMeans(m) ==
    /\ \A k \in Sensors \ {0} : ~Enabled(k) => m[k] = temp[k]
    /\ temp' = m
    /\ current' = {k \in current : m[k] = temp[k]}
    /\ late' = IF rd = N THEN late ELSE late \cup {k \in Sensors : m[k] # temp[k]}
    /\ UNCHANGED <<senzor, State, error_counter, rd, NV_DELAY, alarmFile,
                   resets, episode>>

\* Reset, by Check4hour's endless loop and the watchdog or by a power cycle.
Reset ==
    /\ resets < MaxResets
    /\ resets' = resets + 1
    /\ temp' = [k \in Sensors |-> 0]
    /\ State' = [k \in Sensors |-> NO_ALARM]
    /\ error_counter' = [k \in Sensors |-> 0]
    /\ rd' = N
    /\ current' = {} /\ late' = {}
    /\ UNCHANGED <<senzor, NV_DELAY, alarmFile, episode>>

Read ==
    \/ \E k \in Sensors : ReadStart(k) \/ ReadNext(k)
    \/ \E t \in Temps : ReadLastOK(t)
    \/ ReadLastKO

Next ==
    \/ Read
    \/ AlarmDelay
    \/ \E k \in Sensors, s \in Settings : Sensor(k, s)
    \/ \E m \in [Sensors -> Temps] : SaveMeans(m)
    \/ Reset

Spec == Init /\ [][Next]_vars

(* The main loop polls both threads for ever and their waits are bounded   *)
(* by timers.                                                              *)
FairSpec == Spec /\ WF_vars(Read) /\ WF_vars(AlarmDelay)
-----------------------------------------------------------------------------
TypeOK ==
    /\ senzor \in [Sensors -> Settings]
    /\ temp \in [Sensors -> Temps]
    /\ State \in [Sensors -> {NO_ALARM, ALARM_HI, ALARM_LOW}]
    /\ error_counter \in [Sensors -> 0 .. ONEWIRE_ERROR_COUNT + 2]
    /\ rd \in 0 .. N
    /\ NV_DELAY \in [Sensors -> 0 .. NVMOD - 1]
    /\ alarmFile \in [Sensors -> NO_ALARM .. ALARM_ERR]
    /\ resets \in 0 .. MaxResets
    /\ episode \in [Sensors -> {"quiet", "armed", "reported"}]
    /\ current \subseteq Sensors /\ late \subseteq Sensors

(* An alarm is never silent: while the automaton of a sensor is in an      *)
(* alarm state, or the sensor has been declared faulty, its countdown runs *)
(* or its report has gone out.  The automaton is RAM, the countdown is     *)
(* backup SRAM written by the two threads and left alone by a reset.       *)
NoSilentAlarm ==
    \A k \in Sensors :
        State[k] # NO_ALARM \/ error_counter[k] > ONEWIRE_ERROR_COUNT
          => Running(NV_DELAY[k]) \/ episode[k] = "reported"

(* The countdown word in backup SRAM is exactly the state of the episode:  *)
(* it runs from the alarm until the report or the end of the alarm, over   *)
(* any number of resets, and nothing else starts or stops it.              *)
EpisodeMatchesCountdown ==
    \A k \in Sensors : episode[k] = "armed" <=> Running(NV_DELAY[k])

(* The alarm file explains every alarm: its last row for a sensor in alarm *)
(* names that alarm, or the fault that followed it.                        *)
AlarmIsLogged ==
    \A k \in Sensors :
        State[k] # NO_ALARM => alarmFile[k] \in {State[k], ALARM_ERR}

(* The chain keeps the contract of module AlarmContract: a report needs a  *)
(* countdown of its own, leaves at the first second at which the delay has *)
(* passed, and only once, whatever the readings, resets and settings do.   *)
Contract == INSTANCE AlarmContract WITH
    Source <- Sensors,
    Delays <- {s.DELAY : s \in Settings},
    status <- episode,
    waited <- [k \in Sensors |-> IF Running(NV_DELAY[k]) THEN NV_DELAY[k] - 1 ELSE 0],
    delay  <- [k \in Sensors |-> senzor[k].DELAY]

KeepsContract == Contract!CSpec

(* A sensor is tested only on what was read in this cycle, failed readings *)
(* included, unless the form has enabled it or SaveTemp has replaced its   *)
(* reading while the cycle was under way.                                  *)
TestsCurrentReading ==
    [][(rd \in Sensors /\ rd' = N /\ resets' = resets) =>
         (\A k \in Sensors :
            Enabled(k) /\ error_counter'[k] = 0 => k \in (current \cup late)')]_vars

(* The reading has been too high for good, and clears a low alarm.         *)
TooHot(k) ==
    LET s == senzor[k]
    IN  /\ Enabled(k) /\ error_counter[k] = 0
        /\ RaisesHigh(temp[k], s) /\ ~ClearsHigh(temp[k], s)
        /\ ClearsLow(temp[k], s)

(* A temperature that stays too high is reported, whatever happened before.*)
HighAlarmReported ==
    \A k \in Sensors : <>[]TooHot(k)
        => <>[](State[k] = ALARM_HI /\ episode[k] = "reported")

(* A sensor that cannot be read any more is reported.                      *)
FaultReported ==
    \A k \in Sensors : <>[](Enabled(k) /\ error_counter[k] > 0)
        => <>[](episode[k] = "reported")
=============================================================================
