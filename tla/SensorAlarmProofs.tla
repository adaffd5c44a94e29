-------------------------- MODULE SensorAlarmProofs --------------------------
(***************************************************************************)
(* Proofs about SensorAlarm for every number of sensors, every set of      *)
(* temperatures and settings, every error threshold and counter width.     *)
(***************************************************************************)
EXTENDS SensorAlarm, TLAPS

(* The inductive invariant.  NoSilentAlarm alone is not inductive: that a  *)
(* countdown which is not due keeps running needs the width of the counter *)
(* (TypeOK), and the refinement needs EpisodeMatchesCountdown.             *)
IInv ==
    /\ TypeOK
    /\ EpisodeMatchesCountdown
    /\ NoSilentAlarm
    /\ AlarmIsLogged

(* What one evaluation of a sensor does: the automaton stays in its type,  *)
(* an alarm is of a known kind, and each way an alarm state can set in or  *)
(* end comes with the matching write to the countdown word.                *)
LEMMA EvaluationFacts ==
    ASSUME TypeOK, NEW k \in Sensors, NEW te \in Temps,
           NEW er \in 0 .. ONEWIRE_ERROR_COUNT + 2
    PROVE  /\ NextState(k, te, er) \in {NO_ALARM, ALARM_HI, ALARM_LOW}
           /\ Alarm(k, te, er) \in NO_ALARM .. ALARM_ERR
           /\ NextErrorCounter(k, er) \in 0 .. ONEWIRE_ERROR_COUNT + 2
           /\ Cleared(k, te, er) => NextState(k, te, er) = NO_ALARM /\ er = 0
           /\ Cleared(k, te, er) => NextErrorCounter(k, er) = 0
           /\ State[k] = NO_ALARM /\ NextState(k, te, er) # NO_ALARM
                => Alarm(k, te, er) = NextState(k, te, er)
           /\ State[k] # NO_ALARM /\ ~Cleared(k, te, er)
                => /\ NextState(k, te, er) = State[k]
                   /\ Alarm(k, te, er) \in {NO_ALARM, ALARM_ERR}
           /\ NextErrorCounter(k, er) > ONEWIRE_ERROR_COUNT
                => Alarm(k, te, er) # NO_ALARM \/ er > ONEWIRE_ERROR_COUNT
  <1>1. senzor[k] \in SettingType /\ State[k] \in {NO_ALARM, ALARM_HI, ALARM_LOW}
    BY SettingsAssumption DEF TypeOK
  <1>2. te \in Int BY TempsAssumption
  <1>3. NextState(k, te, er) \in {NO_ALARM, ALARM_HI, ALARM_LOW}
    BY <1>1, <1>2 DEF NextState, Tested, test_alarm, NO_ALARM, ALARM_HI, ALARM_LOW
  <1>4. /\ State[k] # NO_ALARM /\ ~Cleared(k, te, er)
             => NextState(k, te, er) = State[k]
        /\ Cleared(k, te, er) => Tested(k, er)
    BY <1>1, <1>2 DEF Cleared, NextState, Tested, test_alarm, NO_ALARM, ALARM_HI, ALARM_LOW
  <1> QED
    BY <1>1, <1>3, <1>4, CountAssumption
    DEF Alarm, Cleared, NextErrorCounter, Tested, NextState,
        NO_ALARM, ALARM_HI, ALARM_LOW, ALARM_ERR

(* One second of the countdown: a word that is not due stays within its    *)
(* width, and a running word that is not due keeps running.                *)
LEMMA CountFacts ==
    ASSUME TypeOK, NEW k \in Sensors
    PROVE  /\ Counted(NV_DELAY[k]) \in 0 .. NVMOD - 1
           /\ Due(k) => Running(NV_DELAY[k])
           /\ ~Due(k) => (Running(Counted(NV_DELAY[k])) <=> Running(NV_DELAY[k]))
           /\ ~Running(0)
  <1>1. /\ senzor[k].DELAY \in Nat
        /\ senzor[k].DELAY < NVMOD - 1
        /\ NV_DELAY[k] \in 0 .. NVMOD - 1
    BY SettingsAssumption, WidthAssumption DEF TypeOK, SettingType
  <1> QED
    BY <1>1, WidthAssumption DEF Counted, Due, Running

(* The evaluation that ends a read cycle preserves the invariant, for any  *)
(* readings: te and er stand for the temperatures and error counters the   *)
(* first loop of ptReadTemp left.                                          *)
LEMMA EvaluateAllPreserves ==
    ASSUME IInv,
           NEW te \in [Sensors -> Temps],
           NEW er \in [Sensors -> 0 .. ONEWIRE_ERROR_COUNT + 2],
           \A k \in Sensors : er[k] > ONEWIRE_ERROR_COUNT
                                => error_counter[k] > ONEWIRE_ERROR_COUNT,
           EvaluateAll(te, er)
    PROVE  /\ State' \in [Sensors -> {NO_ALARM, ALARM_HI, ALARM_LOW}]
           /\ error_counter' \in [Sensors -> 0 .. ONEWIRE_ERROR_COUNT + 2]
           /\ NV_DELAY' \in [Sensors -> 0 .. NVMOD - 1]
           /\ alarmFile' \in [Sensors -> NO_ALARM .. ALARM_ERR]
           /\ episode' \in [Sensors -> {"quiet", "armed", "reported"}]
           /\ EpisodeMatchesCountdown'
           /\ NoSilentAlarm'
           /\ AlarmIsLogged'
  <1> USE DEF IInv
  <1>1. ASSUME NEW k \in Sensors
        PROVE  te[k] \in Temps /\ er[k] \in 0 .. ONEWIRE_ERROR_COUNT + 2
    OBVIOUS
  <1>2. State' \in [Sensors -> {NO_ALARM, ALARM_HI, ALARM_LOW}]
    BY <1>1, EvaluationFacts DEF EvaluateAll
  <1>3. error_counter' \in [Sensors -> 0 .. ONEWIRE_ERROR_COUNT + 2]
    BY <1>1, EvaluationFacts DEF EvaluateAll
  <1>4. NV_DELAY' \in [Sensors -> 0 .. NVMOD - 1]
    BY WidthAssumption DEF EvaluateAll, TypeOK
  <1>5. alarmFile' \in [Sensors -> NO_ALARM .. ALARM_ERR]
    BY <1>1, EvaluationFacts DEF EvaluateAll, TypeOK
  <1>6. episode' \in [Sensors -> {"quiet", "armed", "reported"}]
    BY DEF EvaluateAll, TypeOK
  <1>7. EpisodeMatchesCountdown'
    BY WidthAssumption DEF EvaluateAll, EpisodeMatchesCountdown, Running, TypeOK
  <1>8. NoSilentAlarm'
    <2> SUFFICES ASSUME NEW k \in Sensors,
                        \/ State'[k] # NO_ALARM
                        \/ error_counter'[k] > ONEWIRE_ERROR_COUNT
                 PROVE  Running(NV_DELAY'[k]) \/ episode'[k] = "reported"
      BY DEF NoSilentAlarm
    <2>1. /\ State'[k] = NextState(k, te[k], er[k])
          /\ error_counter'[k] = NextErrorCounter(k, er[k])
      BY DEF EvaluateAll
    <2>2. CASE Alarm(k, te[k], er[k]) # NO_ALARM
      BY <2>2, WidthAssumption DEF EvaluateAll, Running
    <2>3. CASE Alarm(k, te[k], er[k]) = NO_ALARM
      <3>1. ~Cleared(k, te[k], er[k])
        BY <1>1, <2>1, EvaluationFacts, CountAssumption
      <3>2. State[k] # NO_ALARM \/ error_counter[k] > ONEWIRE_ERROR_COUNT
        BY <1>1, <2>1, <2>3, EvaluationFacts
      <3> QED BY <2>3, <3>1, <3>2 DEF EvaluateAll, NoSilentAlarm
    <2> QED BY <2>2, <2>3
  <1>9. AlarmIsLogged'
    <2> SUFFICES ASSUME NEW k \in Sensors, State'[k] # NO_ALARM
                 PROVE  alarmFile'[k] \in {State'[k], ALARM_ERR}
      BY DEF AlarmIsLogged
    <2>1. State'[k] = NextState(k, te[k], er[k])
      BY DEF EvaluateAll
    <2>2. CASE State[k] = NO_ALARM
      BY <1>1, <2>1, <2>2, EvaluationFacts DEF EvaluateAll
    <2>3. CASE State[k] # NO_ALARM
      <3>1. /\ State'[k] = State[k]
            /\ Alarm(k, te[k], er[k]) \in {NO_ALARM, ALARM_ERR}
        BY <1>1, <2>1, <2>3, EvaluationFacts
      <3> QED BY <3>1, <2>3 DEF EvaluateAll, AlarmIsLogged
    <2> QED BY <2>2, <2>3
  <1> QED BY <1>2, <1>3, <1>4, <1>5, <1>6, <1>7, <1>8, <1>9
-----------------------------------------------------------------------------
(* Every initial state, whatever backup SRAM holds, satisfies IInv.        *)
LEMMA InitEstablishes == Init => IInv
  <1> SUFFICES ASSUME Init PROVE IInv OBVIOUS
  <1>1. TypeOK
    BY NAssumption, TempsAssumption, CountAssumption, WidthAssumption,
       ResetsAssumption
    DEF Init, TypeOK, NO_ALARM, ALARM_HI, ALARM_LOW, ALARM_ERR, Sensors, Running
  <1>2. EpisodeMatchesCountdown
    BY DEF Init, EpisodeMatchesCountdown
  <1>3. NoSilentAlarm /\ AlarmIsLogged
    BY CountAssumption DEF Init, NoSilentAlarm, AlarmIsLogged
  <1> QED BY <1>1, <1>2, <1>3 DEF IInv

(* The failed reading keeps the error counters in range and never lifts    *)
(* one above ONEWIRE_ERROR_COUNT.                                          *)
LEMMA ErrorsAfterKOFacts ==
    ASSUME TypeOK, rd \in Sensors
    PROVE  /\ ErrorsAfterKO \in [Sensors -> 0 .. ONEWIRE_ERROR_COUNT + 2]
           /\ \A k \in Sensors : ErrorsAfterKO[k] > ONEWIRE_ERROR_COUNT
                                   => error_counter[k] > ONEWIRE_ERROR_COUNT
  BY CountAssumption DEF TypeOK, ErrorsAfterKO

(* The steps of ptReadTemp that do not end a cycle preserve IInv.          *)
LEMMA ReadOnPreserves ==
    ASSUME IInv, NEW k \in Sensors, ReadStart(k) \/ ReadNext(k)
    PROVE  IInv'
  <1> USE DEF IInv
  <1>1. CASE ReadStart(k)
    BY <1>1, NAssumption
    DEF ReadStart, TypeOK, EpisodeMatchesCountdown, NoSilentAlarm,
        AlarmIsLogged, Sensors
  <1>2. CASE ReadNext(k)
    <2>1. /\ temp' \in [Sensors -> Temps]
          /\ error_counter' \in [Sensors -> 0 .. ONEWIRE_ERROR_COUNT + 2]
          /\ \A j \in Sensors : error_counter'[j] > ONEWIRE_ERROR_COUNT
                                  => error_counter[j] > ONEWIRE_ERROR_COUNT
          /\ current' \subseteq Sensors
      <3>1. CASE \E t \in Temps : ReadOK(t)
        BY <1>2, <3>1, CountAssumption DEF ReadNext, ReadOK, TypeOK
      <3>2. CASE ReadKO
        BY <1>2, <3>2, ErrorsAfterKOFacts DEF ReadNext, ReadKO, TypeOK
      <3> QED BY <1>2, <3>1, <3>2 DEF ReadNext
    <2>2. TypeOK'
      <3>1. rd' \in 0 .. N BY <1>2, NAssumption DEF ReadNext, Sensors
      <3> QED BY <1>2, <2>1, <3>1 DEF ReadNext, TypeOK
    <2>3. EpisodeMatchesCountdown' /\ NoSilentAlarm' /\ AlarmIsLogged'
      BY <1>2, <2>1 DEF ReadNext, EpisodeMatchesCountdown, NoSilentAlarm,
                        AlarmIsLogged
    <2> QED BY <2>2, <2>3
  <1> QED BY <1>1, <1>2

(* The step that ends a cycle, with a good or a failed last reading.       *)
LEMMA ReadLastPreserves ==
    ASSUME IInv, ReadLastKO \/ \E t \in Temps : ReadLastOK(t)
    PROVE  IInv'
  <1> USE DEF IInv
  <1>1. ASSUME NEW t \in Temps, ReadLastOK(t) PROVE IInv'
    <2> DEFINE er == [error_counter EXCEPT ![rd] = 0]
    <2>1. /\ temp' \in [Sensors -> Temps]
          /\ er \in [Sensors -> 0 .. ONEWIRE_ERROR_COUNT + 2]
          /\ \A k \in Sensors : er[k] > ONEWIRE_ERROR_COUNT
                                  => error_counter[k] > ONEWIRE_ERROR_COUNT
      BY <1>1, CountAssumption DEF ReadLastOK, TypeOK
    <2>2. EvaluateAll(temp', er)
      BY <1>1 DEF ReadLastOK
    <2> HIDE DEF er
    <2>3. /\ State' \in [Sensors -> {NO_ALARM, ALARM_HI, ALARM_LOW}]
          /\ error_counter' \in [Sensors -> 0 .. ONEWIRE_ERROR_COUNT + 2]
          /\ NV_DELAY' \in [Sensors -> 0 .. NVMOD - 1]
          /\ alarmFile' \in [Sensors -> NO_ALARM .. ALARM_ERR]
          /\ episode' \in [Sensors -> {"quiet", "armed", "reported"}]
          /\ EpisodeMatchesCountdown' /\ NoSilentAlarm' /\ AlarmIsLogged'
      BY <2>1, <2>2, EvaluateAllPreserves
    <2>4. TypeOK'
      BY <1>1, <2>1, <2>3, NAssumption DEF ReadLastOK, TypeOK
    <2> QED BY <2>3, <2>4
  <1>2. ASSUME ReadLastKO PROVE IInv'
    <2>1. EvaluateAll(temp, ErrorsAfterKO) /\ rd \in Sensors
      BY <1>2 DEF ReadLastKO
    <2>2. temp \in [Sensors -> Temps] BY DEF TypeOK
    <2>3. /\ State' \in [Sensors -> {NO_ALARM, ALARM_HI, ALARM_LOW}]
          /\ error_counter' \in [Sensors -> 0 .. ONEWIRE_ERROR_COUNT + 2]
          /\ NV_DELAY' \in [Sensors -> 0 .. NVMOD - 1]
          /\ alarmFile' \in [Sensors -> NO_ALARM .. ALARM_ERR]
          /\ episode' \in [Sensors -> {"quiet", "armed", "reported"}]
          /\ EpisodeMatchesCountdown' /\ NoSilentAlarm' /\ AlarmIsLogged'
      BY <2>1, <2>2, ErrorsAfterKOFacts, EvaluateAllPreserves
    <2>4. TypeOK'
      BY <1>2, <2>3, NAssumption DEF ReadLastKO, TypeOK
    <2> QED BY <2>3, <2>4
  <1> QED BY <1>1, <1>2

(* One second of ptAlarmDelay.                                             *)
LEMMA AlarmDelayPreserves ==
    ASSUME IInv, AlarmDelay
    PROVE  IInv'
  <1> USE DEF IInv
  <1>1. ASSUME NEW k \in Sensors
        PROVE  /\ NV_DELAY'[k] = IF Due(k) THEN 0 ELSE Counted(NV_DELAY[k])
               /\ episode'[k] = IF Due(k) THEN "reported" ELSE episode[k]
               /\ NV_DELAY'[k] \in 0 .. NVMOD - 1
    BY CountFacts, WidthAssumption DEF AlarmDelay
  <1>2. TypeOK'
    BY <1>1 DEF AlarmDelay, TypeOK
  <1>3. EpisodeMatchesCountdown'
    BY <1>1, CountFacts DEF EpisodeMatchesCountdown
  <1>4. NoSilentAlarm'
    BY <1>1, CountFacts DEF AlarmDelay, NoSilentAlarm
  <1>5. AlarmIsLogged'
    BY DEF AlarmDelay, AlarmIsLogged
  <1> QED BY <1>2, <1>3, <1>4, <1>5

(* The web form, the logger and a reset leave the countdowns alone.        *)
LEMMA EnvironmentPreserves ==
    ASSUME IInv,
           \/ \E k \in Sensors, s \in Settings : Sensor(k, s)
           \/ \E m \in [Sensors -> Temps] : SaveMeans(m)
           \/ Reset
    PROVE  IInv'
  <1> USE DEF IInv
  <1>1. ASSUME NEW k \in Sensors, NEW s \in Settings, Sensor(k, s) PROVE IInv'
    BY <1>1 DEF Sensor, TypeOK, EpisodeMatchesCountdown, NoSilentAlarm,
                AlarmIsLogged
  <1>2. ASSUME NEW m \in [Sensors -> Temps], SaveMeans(m) PROVE IInv'
    BY <1>2 DEF SaveMeans, TypeOK, EpisodeMatchesCountdown, NoSilentAlarm,
                AlarmIsLogged
  <1>3. ASSUME Reset PROVE IInv'
    BY <1>3, NAssumption, TempsAssumption, CountAssumption, ResetsAssumption
    DEF Reset, TypeOK, EpisodeMatchesCountdown, NoSilentAlarm, AlarmIsLogged,
        NO_ALARM, ALARM_HI, ALARM_LOW, Sensors
  <1> QED BY <1>1, <1>2, <1>3

(* Every step preserves IInv.                                              *)
LEMMA NextPreserves == IInv /\ [Next]_vars => IInv'
  <1> SUFFICES ASSUME IInv, [Next]_vars PROVE IInv' OBVIOUS
  <1>1. CASE Read
    BY <1>1, ReadOnPreserves, ReadLastPreserves DEF Read
  <1>2. CASE AlarmDelay
    BY <1>2, AlarmDelayPreserves
  <1>3. CASE \/ \E k \in Sensors, s \in Settings : Sensor(k, s)
             \/ \E m \in [Sensors -> Temps] : SaveMeans(m)
             \/ Reset
    BY <1>3, EnvironmentPreserves
  <1>4. CASE UNCHANGED vars
    BY <1>4 DEF vars, IInv, TypeOK, EpisodeMatchesCountdown, NoSilentAlarm,
                AlarmIsLogged
  <1> QED BY <1>1, <1>2, <1>3, <1>4 DEF Next

(* IInv, and with it each of its parts, holds in every reachable state.    *)
THEOREM Invariance == Spec => []IInv
  BY InitEstablishes, NextPreserves, PTL DEF Spec

(* Every variable keeps its type: in particular the countdown words of the *)
(* backup SRAM never leave their width.                                    *)
THEOREM TypeCorrect == Spec => []TypeOK
  <1>1. IInv => TypeOK BY DEF IInv
  <1> QED BY <1>1, Invariance, PTL

(* A countdown word in the backup SRAM runs exactly while an alarm or a    *)
(* fault waits for its report, whatever the form does to limits and delays *)
(* and wherever a restart hits.                                            *)
THEOREM CountdownTellsTheEpisode == Spec => []EpisodeMatchesCountdown
  <1>1. IInv => EpisodeMatchesCountdown BY DEF IInv
  <1> QED BY <1>1, Invariance, PTL

(* An alarm or a declared fault is never silent: ptReadTemp, ptAlarmDelay, *)
(* the web form, the logger and resets cannot between them leave a sensor  *)
(* in alarm without a running countdown or a report.                       *)
THEOREM NeverSilent == Spec => []NoSilentAlarm
  <1>1. IInv => NoSilentAlarm BY DEF IInv
  <1> QED BY <1>1, Invariance, PTL

(* The last row of the alarm file names the alarm a sensor is in.          *)
THEOREM AlarmsLogged == Spec => []AlarmIsLogged
  <1>1. IInv => AlarmIsLogged BY DEF IInv
  <1> QED BY <1>1, Invariance, PTL
-----------------------------------------------------------------------------
(* The refinement: SensorAlarm implements AlarmContract.                   *)

(* The delays of the settings in use are delays of the contract.           *)
LEMMA DelaysTyped ==
    ASSUME TypeOK
    PROVE  [k \in Sensors |-> senzor[k].DELAY]
             \in [Sensors -> {s.DELAY : s \in Settings}]
  BY DEF TypeOK

(* An initial state maps to an initial state of the contract.              *)
LEMMA InitRefines == Init => Contract!CInit
  <1> SUFFICES ASSUME Init PROVE Contract!CInit OBVIOUS
  <1>1. TypeOK BY InitEstablishes DEF IInv
  <1>2. episode \in [Sensors -> {"quiet", "armed"}] BY DEF Init
  <1>3. [k \in Sensors |-> IF Running(NV_DELAY[k]) THEN NV_DELAY[k] - 1 ELSE 0]
          \in [Sensors -> Nat]
    BY <1>1 DEF TypeOK, Running
  <1> QED BY <1>1, <1>2, <1>3, DelaysTyped DEF Contract!CInit

(* The end of a read cycle is an evaluation of the contract.               *)
LEMMA EvaluateAllRefines ==
    ASSUME IInv, NEW te, NEW er, EvaluateAll(te, er), senzor' = senzor
    PROVE  Contract!Evaluate
  <1> SUFFICES ASSUME NEW k \in Sensors
               PROVE  Contract!Raised(k) \/ Contract!Withdrawn(k) \/ Contract!Kept(k)
    BY DEF Contract!Evaluate
  <1>1. CASE Alarm(k, te[k], er[k]) # NO_ALARM
    BY <1>1, WidthAssumption DEF EvaluateAll, Contract!Raised, Running
  <1>2. CASE Alarm(k, te[k], er[k]) = NO_ALARM /\ Cleared(k, te[k], er[k])
    BY <1>2 DEF EvaluateAll, Contract!Withdrawn
  <1>3. CASE Alarm(k, te[k], er[k]) = NO_ALARM /\ ~Cleared(k, te[k], er[k])
    BY <1>3 DEF EvaluateAll, Contract!Kept
  <1> QED BY <1>1, <1>2, <1>3

(* One run of ptAlarmDelay is one second of the contract.                  *)
LEMMA AlarmDelayRefines ==
    ASSUME IInv, AlarmDelay
    PROVE  Contract!Second
  <1> SUFFICES ASSUME NEW k \in Sensors
               PROVE  IF Contract!Ripe(k) THEN episode'[k] = "reported"
                      ELSE /\ episode'[k] = episode[k]
                           /\ episode[k] = "armed" =>
                                (IF Running(NV_DELAY'[k]) THEN NV_DELAY'[k] - 1 ELSE 0)
                                = (IF Running(NV_DELAY[k]) THEN NV_DELAY[k] - 1 ELSE 0) + 1
    BY DEF Contract!Second, AlarmDelay
  <1>1. /\ senzor[k].DELAY \in Nat
        /\ senzor[k].DELAY < NVMOD - 1
        /\ NV_DELAY[k] \in 0 .. NVMOD - 1
    BY SettingsAssumption, WidthAssumption DEF IInv, TypeOK, SettingType
  <1>2. /\ NV_DELAY'[k] = IF Due(k) THEN 0 ELSE Counted(NV_DELAY[k])
        /\ episode'[k] = IF Due(k) THEN "reported" ELSE episode[k]
    BY DEF AlarmDelay
  <1>3. episode[k] = "armed" <=> Running(NV_DELAY[k])
    BY DEF IInv, EpisodeMatchesCountdown
  <1>4. Contract!Ripe(k) <=> Due(k)
    BY <1>1, <1>3, WidthAssumption DEF Contract!Ripe, Due, Counted, Running
  <1> QED BY <1>1, <1>2, <1>3, <1>4, WidthAssumption DEF Due, Counted, Running

(* Every step maps to a step of the contract or leaves it unchanged.       *)
LEMMA NextRefines ==
    ASSUME IInv, IInv', [Next]_vars
    PROVE  [Contract!CNext]_(Contract!cvars)
  <1> USE DEF Contract!CNext, Contract!cvars
  <1>1. CASE \E k \in Sensors : ReadStart(k) \/ ReadNext(k)
    BY <1>1 DEF ReadStart, ReadNext
  <1>2. CASE ReadLastKO \/ \E t \in Temps : ReadLastOK(t)
    BY <1>2, EvaluateAllRefines DEF ReadLastKO, ReadLastOK
  <1>3. CASE AlarmDelay
    BY <1>3, AlarmDelayRefines
  <1>4. CASE \E k \in Sensors, s \in Settings : Sensor(k, s)
    <2>1. [k \in Sensors |-> senzor'[k].DELAY]
             \in [Sensors -> {s.DELAY : s \in Settings}]
      BY DEF IInv, TypeOK
    <2> QED BY <1>4, <2>1 DEF Sensor, Contract!Configure
  <1>5. CASE (\E m \in [Sensors -> Temps] : SaveMeans(m)) \/ Reset
    BY <1>5 DEF SaveMeans, Reset
  <1>6. CASE UNCHANGED vars
    BY <1>6 DEF vars
  <1> QED BY <1>1, <1>2, <1>3, <1>4, <1>5, <1>6 DEF Next, Read

(* The alarm chain keeps its contract for every number of sensors, all     *)
(* temperatures and settings and any sequence of resets: a report is sent  *)
(* only for an alarm that was raised and not withdrawn, at the first       *)
(* second at which its delay has passed, and once.                         *)
THEOREM Refinement == Spec => KeepsContract
  BY Invariance, InitRefines, NextRefines, PTL
  DEF Spec, KeepsContract, Contract!CSpec
-----------------------------------------------------------------------------
(* Test on current readings: what the cycle has passed so far.             *)

(* The sensors before the one that ptReadTemp waits for were read in this  *)
(* cycle, or they failed and their error counter tells so, or they were    *)
(* not there to be read, or not any more, when their turn came (late).     *)
PassedAreCurrent ==
    rd \in Sensors =>
        \A j \in Sensors : j < rd /\ Enabled(j) =>
            j \in current \cup late \/ error_counter[j] # 0

(* A failed reading leaves its sensor's error counter above zero, and the  *)
(* other counters alone.                                                   *)
LEMMA FailureCounts ==
    ASSUME TypeOK, rd \in Sensors
    PROVE  /\ ErrorsAfterKO[rd] # 0
           /\ \A j \in Sensors : j # rd => ErrorsAfterKO[j] = error_counter[j]
  BY CountAssumption DEF TypeOK, ErrorsAfterKO

(* The end of a sensor's reading, good or failed, brings it among those    *)
(* that have been passed.                                                  *)
LEMMA ReadingPasses ==
    ASSUME TypeOK, PassedAreCurrent, rd \in Sensors,
           NEW er, NEW cur, NEW j \in Sensors, Enabled(j), j <= rd,
           \/ er = ErrorsAfterKO /\ cur = current
           \/ er = [error_counter EXCEPT ![rd] = 0] /\ cur = current \cup {rd}
    PROVE  j \in cur \cup late \/ er[j] # 0
  <1>1. CASE j = rd
    BY <1>1, FailureCounts
  <1>2. CASE j # rd
    <2>1. j < rd
      BY <1>2 DEF Sensors
    <2>2. er[j] = error_counter[j]
      BY <1>2, FailureCounts DEF TypeOK
    <2> QED BY <2>1, <2>2 DEF PassedAreCurrent
  <1> QED BY <1>1, <1>2

(* Every step preserves it.                                                *)
LEMMA PassedPreserved ==
    ASSUME TypeOK, PassedAreCurrent, [Next]_vars PROVE PassedAreCurrent'
  <1> SUFFICES ASSUME rd' \in Sensors, NEW j \in Sensors, j < rd', Enabled(j)'
               PROVE  j \in (current \cup late)' \/ error_counter'[j] # 0
    BY DEF PassedAreCurrent, Sensors
  <1>1. ASSUME NEW k \in Sensors, ReadStart(k) PROVE FALSE
    BY <1>1 DEF ReadStart, Enabled
  <1>2. ASSUME NEW k \in Sensors, ReadNext(k)
        PROVE  j \in (current \cup late)' \/ error_counter'[j] # 0
    <2>1. rd \in Sensors /\ late' = late /\ Enabled(j) /\ j <= rd
      BY <1>2 DEF ReadNext, IsNextEnabled, Enabled, Sensors
    <2>2. \/ error_counter' = ErrorsAfterKO /\ current' = current
          \/ /\ error_counter' = [error_counter EXCEPT ![rd] = 0]
             /\ current' = current \cup {rd}
      BY <1>2 DEF ReadNext, ReadOK, ReadKO
    <2> QED BY <2>1, <2>2, ReadingPasses
  <1>3. ASSUME ReadLastKO \/ (\E t \in Temps : ReadLastOK(t)) \/ Reset PROVE FALSE
    BY <1>3, NAssumption DEF ReadLastKO, ReadLastOK, Reset, Sensors
  <1>4. ASSUME NEW k \in Sensors, NEW s \in Settings, Sensor(k, s)
        PROVE  j \in (current \cup late)' \/ error_counter'[j] # 0
    <2>1. /\ rd' = rd /\ rd # N /\ rd \in Sensors
          /\ current' = current /\ error_counter' = error_counter
      BY <1>4 DEF Sensor, Sensors
    <2>2. CASE Enabled(j)
      <3>1. late \subseteq late'
        BY <1>4 DEF Sensor
      <3> QED BY <2>1, <2>2, <3>1 DEF PassedAreCurrent
    <2>3. CASE ~Enabled(j)
      <3>1. j = k
        BY <1>4, <2>3 DEF Sensor, Enabled, TypeOK
      <3> QED BY <1>4, <2>1, <2>3, <3>1 DEF Sensor
    <2> QED BY <2>2, <2>3
  <1>5. ASSUME NEW m \in [Sensors -> Temps], SaveMeans(m)
        PROVE  j \in (current \cup late)' \/ error_counter'[j] # 0
    <2>1. /\ rd' = rd /\ rd # N /\ rd \in Sensors /\ Enabled(j)
          /\ error_counter' = error_counter
      BY <1>5 DEF SaveMeans, Enabled, Sensors
    <2>2. /\ late' = late \cup {k \in Sensors : m[k] # temp[k]}
          /\ current' = {k \in current : m[k] = temp[k]}
      BY <1>5, <2>1 DEF SaveMeans
    <2> QED BY <2>1, <2>2 DEF PassedAreCurrent
  <1>6. CASE AlarmDelay \/ UNCHANGED vars
    BY <1>6 DEF AlarmDelay, vars, PassedAreCurrent, Enabled
  <1> QED BY <1>1, <1>2, <1>3, <1>4, <1>5, <1>6 DEF Next, Read

(* The evaluation at the end of a cycle tests readings of that cycle.      *)
LEMMA EvaluatesCurrent ==
    ASSUME TypeOK, PassedAreCurrent, [Next]_vars,
           rd \in Sensors, rd' = N, resets' = resets,
           NEW k \in Sensors, Enabled(k), error_counter'[k] = 0
    PROVE  k \in (current \cup late)'
  <1>0. rd # N
    BY DEF Sensors
  <1>1. ASSUME NEW er, NEW cur, NEW te, IsLast, EvaluateAll(te, er), late' = late, current' = cur,
               \/ er = ErrorsAfterKO /\ cur = current
               \/ er = [error_counter EXCEPT ![rd] = 0] /\ cur = current \cup {rd}
        PROVE  k \in (current \cup late)'
    <2>1. k <= rd
      BY <1>1 DEF IsLast, Sensors
    <2>2. k \in cur \cup late \/ er[k] # 0
      BY <1>1, <2>1, ReadingPasses
    <2>3. er[k] = 0
      BY <1>1, CountAssumption DEF EvaluateAll, NextErrorCounter
    <2> QED BY <1>1, <2>2, <2>3
  <1>2. CASE \E t \in Temps : ReadLastOK(t)
    <2>1. PICK t \in Temps : ReadLastOK(t)
      BY <1>2
    <2> QED BY <1>1, <2>1 DEF ReadLastOK
  <1>3. CASE ReadLastKO
    BY <1>1, <1>3 DEF ReadLastKO
  <1>4. ASSUME NEW j \in Sensors, ReadStart(j) \/ ReadNext(j) PROVE FALSE
    BY <1>0, <1>4 DEF ReadStart, ReadNext, Sensors
  <1>5. CASE AlarmDelay
    BY <1>0, <1>5 DEF AlarmDelay
  <1>6. ASSUME NEW j \in Sensors, NEW s \in Settings, Sensor(j, s) PROVE FALSE
    BY <1>0, <1>6 DEF Sensor
  <1>7. ASSUME NEW m \in [Sensors -> Temps], SaveMeans(m) PROVE FALSE
    BY <1>0, <1>7 DEF SaveMeans
  <1>8. CASE Reset
    BY <1>8 DEF Reset, TypeOK
  <1>9. CASE UNCHANGED vars
    BY <1>0, <1>9 DEF vars
  <1> QED BY <1>2, <1>3, <1>4, <1>5, <1>6, <1>7, <1>8, <1>9 DEF Next, Read

(* At the end of a cycle test_alarm works on readings of that cycle only,  *)
(* except for sensors that the form has enabled or whose reading SaveTemp  *)
(* has replaced by a mean while the cycle waited.                          *)
THEOREM TestsAreCurrent == Spec => TestsCurrentReading
  <1>1. Init => PassedAreCurrent
    BY DEF Init, PassedAreCurrent, Sensors
  <1>2. TypeOK /\ PassedAreCurrent /\ [Next]_vars => PassedAreCurrent'
    BY PassedPreserved
  <1>3. TypeOK /\ PassedAreCurrent /\ [Next]_vars =>
          [(rd \in Sensors /\ rd' = N /\ resets' = resets) =>
             (\A k \in Sensors :
                Enabled(k) /\ error_counter'[k] = 0 => k \in (current \cup late)')]_vars
    BY EvaluatesCurrent
  <1> QED BY <1>1, <1>2, <1>3, TypeCorrect, PTL DEF Spec, TestsCurrentReading
=============================================================================
