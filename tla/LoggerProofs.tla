---------------------------- MODULE LoggerProofs ----------------------------
(***************************************************************************)
(* The MKT buffer of every sensor holds its most recent samples, for every *)
(* number of sensors and every length of the buffer; and no reading is     *)
(* used twice, restarts between any two writes included.                   *)
(***************************************************************************)
EXTENDS Logger, FiniteSetTheorems, TLAPS

\* Where the loop is: the sensor of an unfinished reading or mean exists.
PlaceOK ==
    /\ k \in Nat \ {0}
    /\ job \in {"count", "SaveTemp2", "SaveHaccp2"} => k \in Sensors

SumsOK ==
    /\ readings \in Nat
    /\ sum \in [Sensors -> SUBSET (1 .. readings)]
    /\ count \in [Sensors -> Nat]

BuffersOK ==
    /\ ftmp \in Values
    /\ mktlog \in [Sensors -> [0 .. M - 1 -> Values]]
    /\ mktcount \in [Sensors -> 0 .. M]
    /\ sampled \in [Sensors -> Seq(Values)]
    /\ shifted \in [Sensors -> Nat]

Types == PlaceOK /\ SumsOK /\ BuffersOK

\* Zero is a value, and so is a mean of readings.
LEMMA ValuesAre ==
    /\ Zero \in Values
    /\ \A S \in SUBSET Nat, n \in Nat : Mean(S, n) \in Values
BY DEF Zero, Mean, Values

\* Power-up establishes the types.
LEMMA InitTypes == Init => Types
<1> SUFFICES ASSUME Init
             PROVE  Types
  OBVIOUS
<1>1. PlaceOK
  BY SizesAssumption DEF Init, PlaceOK
<1>2. SumsOK
  BY DEF Init, SumsOK
<1>3. mktcount \in [Sensors -> 0 .. M]
  BY SizesAssumption DEF Init
<1>4. BuffersOK
  BY <1>3, ValuesAre DEF Init, BuffersOK
<1> QED
  BY <1>1, <1>2, <1>4 DEF Types

\* The main loop's place stays a sensor where one is needed.
LEMMA StepPlace == PlaceOK /\ [Next]_vars => PlaceOK'
<1> SUFFICES ASSUME PlaceOK, [Next]_vars
             PROVE  PlaceOK'
  OBVIOUS
<1> USE SizesAssumption DEF PlaceOK, Sensors
<1>1. ASSUME NEW s \in Sensors, ReadSum(s)
      PROVE  PlaceOK'
  BY <1>1 DEF ReadSum
<1>2. CASE SaveSum("SaveTemp", "SaveTemp2") \/ SaveSum("SaveHaccp", "SaveHaccp2")
  BY <1>2 DEF SaveSum
<1>3. CASE UNCHANGED <<job, k>>
  BY <1>3
<1>4. ASSUME k' \in Nat \ {0}, job' \in {"idle", "SaveTemp", "SaveHaccp"}
      PROVE  PlaceOK'
  BY <1>4
<1>5. CASE SaveTemp
  BY <1>2, <1>4, <1>5 DEF SaveTemp, SaveBegin, SaveOld, SaveTempCount
<1>6. CASE SaveHaccp
  BY <1>2, <1>4, <1>6 DEF SaveHaccp, SaveBegin, SaveOld, SaveHaccpCount
<1>7. CASE ReadCount \/ SaveEnd \/ Restart \/ \E j \in 0 .. M - 1 : RestartInUpdate(j)
  BY <1>4, <1>7 DEF ReadCount, SaveEnd, Restart, RestartInUpdate, Rebooted
<1>8. ASSUME NEW s \in Sensors, NEW en, Sensor(s, en)
      PROVE  PlaceOK'
  BY <1>3, <1>8 DEF Sensor
<1> QED
  BY <1>1, <1>3, <1>5, <1>6, <1>7, <1>8 DEF Next, vars

\* Sums consist of readings taken so far.
LEMMA StepSums == PlaceOK /\ SumsOK /\ [Next]_vars => SumsOK'
<1> SUFFICES ASSUME PlaceOK, SumsOK, [Next]_vars
             PROVE  SumsOK'
  OBVIOUS
<1>1. ASSUME NEW s \in Sensors, ReadSum(s)
      PROVE  SumsOK'
  <2>1. readings' = readings + 1 /\ readings' \in Nat /\ UNCHANGED count
    BY <1>1 DEF ReadSum, SumsOK
  <2>2. sum' = [sum EXCEPT ![s] = sum[s] \cup {readings'}]
    BY <1>1 DEF ReadSum
  <2>3. ASSUME NEW t \in Sensors
        PROVE  sum'[t] \subseteq 1 .. readings'
    <3>1. sum[t] \subseteq 1 .. readings
      BY DEF SumsOK
    <3>2. sum'[t] \subseteq sum[t] \cup {readings'}
      BY <2>2 DEF SumsOK
    <3>3. \A r \in 1 .. readings : r \in 1 .. readings'
      BY <2>1 DEF SumsOK
    <3>4. readings' \in 1 .. readings'
      BY <2>1 DEF SumsOK
    <3> QED
      BY <3>1, <3>2, <3>3, <3>4
  <2>4. sum' = [t \in Sensors |-> sum'[t]]
    BY <2>2 DEF SumsOK
  <2> QED
    BY <2>1, <2>3, <2>4 DEF SumsOK
<1>2. ASSUME NEW what, NEW what2, SaveSum(what, what2)
      PROVE  SumsOK'
  BY <1>2 DEF SaveSum, SumsOK, bounds
<1>3. CASE UNCHANGED <<sum, count, readings>>
  BY <1>3 DEF SumsOK
<1>4. CASE /\ UNCHANGED <<sum, readings>>
           /\ \E t \in Sensors : \E n \in Nat : count' = [count EXCEPT ![t] = n]
  BY <1>4 DEF SumsOK
<1>5. CASE ReadCount \/ SaveTempCount \/ SaveHaccpCount \/ \E j \in 0 .. M - 1 : RestartInUpdate(j)
  <2>1. k \in Sensors /\ UNCHANGED <<sum, readings>>
    BY <1>5 DEF ReadCount, SaveTempCount, SaveHaccpCount, RestartInUpdate, Rebooted, PlaceOK, bounds
  <2>2. count[k] \in Nat /\ count[k] + 1 \in Nat
    BY <2>1 DEF SumsOK
  <2>3. count' = [count EXCEPT ![k] = count[k] + 1] \/ count' = [count EXCEPT ![k] = 0]
    BY <1>5 DEF ReadCount, SaveTempCount, SaveHaccpCount, RestartInUpdate, Rebooted
  <2> QED
    BY <1>4, <2>1, <2>2, <2>3
<1>6. CASE SaveTemp
  BY <1>2, <1>3, <1>5, <1>6 DEF SaveTemp, SaveBegin, SaveOld, nvram, bounds
<1>7. CASE SaveHaccp
  BY <1>2, <1>3, <1>5, <1>7 DEF SaveHaccp, SaveBegin, SaveOld, nvram, bounds
<1>8. CASE SaveEnd \/ Restart
  BY <1>3, <1>8 DEF SaveEnd, Restart, Rebooted, nvram, bounds
<1>9. ASSUME NEW s \in Sensors, NEW en, Sensor(s, en)
      PROVE  SumsOK'
  BY <1>3, <1>9 DEF Sensor, nvram
<1> QED
  BY <1>1, <1>3, <1>5, <1>6, <1>7, <1>8, <1>9 DEF Next, vars, nvram, bounds

\* The MKT buffers hold values.
LEMMA StepBuffers == Types /\ [Next]_vars => BuffersOK'
<1> SUFFICES ASSUME PlaceOK, SumsOK, BuffersOK, [Next]_vars
             PROVE  BuffersOK'
  BY DEF Types
<1>1. ASSUME NEW what, NEW what2, SaveSum(what, what2)
      PROVE  BuffersOK'
  <2>1. k \in Sensors
    BY <1>1, SizesAssumption DEF SaveSum, PlaceOK, Sensors
  <2>2. sum[k] \in SUBSET Nat /\ count[k] \in Nat
    <3>1. sum[k] \in SUBSET (1 .. readings) /\ count[k] \in Nat
      BY <2>1 DEF SumsOK
    <3>2. \A r \in 1 .. readings : r \in Nat
      BY DEF SumsOK
    <3> QED
      BY <3>1, <3>2
  <2>3. ftmp' \in Values
    BY <1>1, <2>2, ValuesAre DEF SaveSum
  <2> QED
    BY <1>1, <2>3 DEF SaveSum, BuffersOK
<1>2. CASE SaveTempCount
  <2>1. k \in Sensors
    BY <1>2 DEF SaveTempCount, PlaceOK
  <2>2. /\ mktlog[k] \in [0 .. M - 1 -> Values] /\ mktcount[k] \in 0 .. M
        /\ sampled[k] \in Seq(Values) /\ ftmp \in Values
    BY <2>1 DEF BuffersOK
  <2>3. UpdateMKT(mktlog[k], mktcount[k], ftmp) \in [0 .. M - 1 -> Values]
    BY <2>2, SizesAssumption DEF UpdateMKT
  <2>4. NextCount(mktcount[k]) \in 0 .. M
    BY <2>2, SizesAssumption DEF NextCount
  <2>5. Append(sampled[k], ftmp) \in Seq(Values)
    BY <2>2
  <2>6. mktlog' \in [Sensors -> [0 .. M - 1 -> Values]]
    BY <1>2, <2>3 DEF SaveTempCount, BuffersOK
  <2>7. mktcount' \in [Sensors -> 0 .. M]
    BY <1>2, <2>4 DEF SaveTempCount, BuffersOK
  <2>8. sampled' \in [Sensors -> Seq(Values)]
    BY <1>2, <2>5 DEF SaveTempCount, BuffersOK
  <2> QED
    BY <1>2, <2>2, <2>6, <2>7, <2>8 DEF SaveTempCount, BuffersOK
<1>3. ASSUME NEW j \in 0 .. M - 1, RestartInUpdate(j)
      PROVE  BuffersOK'
  <2>1. k \in Sensors
    BY <1>3 DEF RestartInUpdate, PlaceOK
  <2>2. mktlog[k] \in [0 .. M - 1 -> Values] /\ mktcount[k] \in 0 .. M /\ ftmp \in Values
    BY <2>1 DEF BuffersOK
  <2>3. UpdateMKTCut(mktlog[k], mktcount[k], ftmp, j) \in [0 .. M - 1 -> Values]
    BY <2>2, SizesAssumption DEF UpdateMKTCut
  <2>4. mktlog' \in [Sensors -> [0 .. M - 1 -> Values]]
    BY <1>3, <2>3 DEF RestartInUpdate, BuffersOK
  <2>5. Len(sampled[k]) \in Nat
    BY <2>1 DEF BuffersOK
  <2>6. shifted' \in [Sensors -> Nat]
    BY <1>3, <2>5 DEF RestartInUpdate, BuffersOK
  <2> QED
    BY <1>3, <2>4, <2>6, ValuesAre DEF RestartInUpdate, Rebooted, BuffersOK
<1>4. CASE UNCHANGED <<mktlog, mktcount, sampled, shifted>> /\ ftmp' \in {ftmp, Zero}
  BY <1>4, ValuesAre DEF BuffersOK
<1>5. CASE SaveTemp
  BY <1>1, <1>2, <1>4, <1>5 DEF SaveTemp, SaveBegin, SaveOld, nvram, history
<1>6. CASE SaveHaccp
  BY <1>1, <1>4, <1>6 DEF SaveHaccp, SaveBegin, SaveOld, SaveHaccpCount, nvram, history
<1>7. CASE (\E s \in Sensors : ReadSum(s)) \/ ReadCount \/ SaveEnd \/ Restart
  BY <1>4, <1>7 DEF ReadSum, ReadCount, SaveEnd, Restart, Rebooted, nvram, history
<1>8. ASSUME NEW s \in Sensors, NEW en, Sensor(s, en)
      PROVE  BuffersOK'
  BY <1>4, <1>8 DEF Sensor, nvram, history
<1> QED
  BY <1>3, <1>4, <1>5, <1>6, <1>7, <1>8 DEF Next, vars, nvram, history

\* The types are an invariant of the logger.
THEOREM TypesHold == Spec => []Types
<1>1. Types /\ [Next]_vars => Types'
  BY StepPlace, StepSums, StepBuffers DEF Types
<1> QED
  BY InitTypes, <1>1, PTL DEF Spec
-----------------------------------------------------------------------------
\* UpdateMKT: if the buffer holds the most recent samples, it does so after
\* one more was shifted in.
LEMMA UpdateKeepsWindow ==
    ASSUME NEW log \in [0 .. M - 1 -> Values], NEW n \in 0 .. M,
           NEW hist \in Seq(Values), NEW v \in Values, NEW d \in Nat,
           n = (IF Len(hist) < M THEN Len(hist) ELSE M),
           \A i \in 0 .. n - 1 : Len(hist) - n + i + 1 > d
                                  => log[i] = hist[Len(hist) - n + i + 1]
    PROVE  LET h == Append(hist, v)
               c == NextCount(n)
           IN  /\ c = (IF Len(h) < M THEN Len(h) ELSE M)
               /\ \A i \in 0 .. c - 1 : Len(h) - c + i + 1 > d
                    => UpdateMKT(log, n, v)[i] = h[Len(h) - c + i + 1]
<1> DEFINE h == Append(hist, v)
           c == NextCount(n)
           new == UpdateMKT(log, n, v)
           L == Len(hist)
<1>1. /\ Len(h) = L + 1 /\ L \in Nat
      /\ \A i \in 1 .. L : h[i] = hist[i]
      /\ h[L + 1] = v
  OBVIOUS
<1>2. M \in Nat \ {0}
  BY SizesAssumption
<1>3. c = IF n < M THEN n + 1 ELSE n
  BY DEF NextCount
<1>4. n < M => new = [log EXCEPT ![n] = v]
  BY DEF UpdateMKT
<1>5. n = M => new = [x \in 0 .. M - 1 |-> IF x < M - 1 THEN log[x + 1] ELSE v]
  BY <1>2 DEF UpdateMKT
<1>6. /\ n = (IF L < M THEN L ELSE M)
      /\ \A i \in 0 .. n - 1 : L - n + i + 1 > d => log[i] = hist[L - n + i + 1]
  OBVIOUS
<1> HIDE DEF h, c, new, L
<1>7. c = (IF Len(h) < M THEN Len(h) ELSE M)
  BY <1>1, <1>2, <1>3, <1>6
<1>8. ASSUME NEW i \in 0 .. c - 1, Len(h) - c + i + 1 > d
      PROVE  new[i] = h[Len(h) - c + i + 1]
  <2>1. CASE n < M
    <3>0. n = L /\ c = L + 1
      BY <2>1, <1>1, <1>2, <1>3, <1>6
    <3>1. n = L /\ c = n + 1 /\ Len(h) - c + i + 1 = i + 1
      BY <3>0, <1>1
    <3>2. CASE i = n
      <4>1. new[n] = v
        BY <1>2, <1>4, <2>1
      <4> QED
        BY <4>1, <3>1, <3>2, <1>1
    <3>3. CASE i # n
      <4>1. i \in 0 .. n - 1
        BY <3>1, <3>3
      <4>2. new[i] = log[i]
        BY <1>2, <1>4, <2>1, <4>1
      <4>3. log[i] = hist[i + 1]
        <5>2. L - n + i + 1 = i + 1
          BY <3>1, <4>1, <1>1
        <5>1. log[i] = hist[L - n + i + 1]
          BY <1>6, <1>8, <3>1, <4>1, <5>2
        <5> QED
          BY <5>1, <5>2
      <4>4. h[i + 1] = hist[i + 1]
        <5>1. i + 1 \in 1 .. L
          BY <1>1, <3>1, <4>1
        <5> QED
          BY <1>1, <5>1
      <4> QED
        BY <4>2, <4>3, <4>4, <3>1
    <3> QED
      BY <3>2, <3>3
  <2>2. CASE n = M
    <3>1. c = M /\ L >= M /\ Len(h) - c + i + 1 = L - M + i + 2
      BY <2>2, <1>1, <1>2, <1>3, <1>6
    <3>2. i \in 0 .. M - 1 /\ new[i] = (IF i < M - 1 THEN log[i + 1] ELSE v)
      BY <1>5, <2>2, <3>1
    <3>3. CASE i = M - 1
      <4>1. L - M + i + 2 = L + 1
        BY <1>1, <1>2, <3>3
      <4> QED
        BY <1>1, <3>1, <3>2, <3>3, <4>1
    <3>4. CASE i < M - 1
      <4>1. i + 1 \in 0 .. n - 1
        BY <2>2, <3>2, <3>4
      <4>3. L - n + (i + 1) + 1 = L - M + i + 2 /\ L - M + i + 2 \in 1 .. L
        <5>1. L \in Int /\ M \in Int /\ i \in Int /\ L >= M /\ 0 <= i /\ i <= M - 2
          BY <1>1, <1>2, <3>1, <3>2, <3>4
        <5>2. L - M + i + 2 \in Int /\ 1 <= L - M + i + 2 /\ L - M + i + 2 <= L
          BY <5>1
        <5>3. L - n + (i + 1) + 1 = L - M + i + 2
          BY <5>1, <2>2
        <5>4. L - M + i + 2 \in 1 .. L
          BY <5>1, <5>2
        <5> QED
          BY <5>3, <5>4
      <4>2. log[i + 1] = hist[L - n + (i + 1) + 1]
        BY <1>6, <1>8, <3>1, <4>1, <4>3
      <4>4. h[L - M + i + 2] = hist[L - M + i + 2]
        BY <1>1, <4>3
      <4> QED
        BY <3>1, <3>2, <3>4, <4>2, <4>3, <4>4
    <3> QED
      BY <1>2, <3>2, <3>3, <3>4
  <2> QED
    BY <1>2, <2>1, <2>2
<1> QED
  BY <1>7, <1>8 DEF h, c, new

\* What MktIsRecent says of one sensor.
Recent(s) ==
    /\ mktcount[s] = IF Len(sampled[s]) < M THEN Len(sampled[s]) ELSE M
    /\ \A i \in 0 .. mktcount[s] - 1 :
         SampleAt(s, i) > shifted[s] => mktlog[s][i] = sampled[s][SampleAt(s, i)]

\* SaveTempCount keeps the buffers recent.
LEMMA SaveKeepsMkt ==
    ASSUME Types, MktIsRecent, SaveTempCount, NEW s \in Sensors
    PROVE  Recent(s)'
<1>1. CASE s = k
  <2>1. /\ mktlog'[s] = UpdateMKT(mktlog[s], mktcount[s], ftmp)
        /\ mktcount'[s] = NextCount(mktcount[s])
        /\ sampled'[s] = Append(sampled[s], ftmp)
        /\ shifted'[s] = shifted[s]
    BY <1>1 DEF SaveTempCount, Types, BuffersOK
  <2>2. /\ mktlog[s] \in [0 .. M - 1 -> Values] /\ mktcount[s] \in 0 .. M
        /\ sampled[s] \in Seq(Values) /\ ftmp \in Values /\ shifted[s] \in Nat
    BY DEF Types, BuffersOK
  <2>3. /\ mktcount[s] = (IF Len(sampled[s]) < M THEN Len(sampled[s]) ELSE M)
        /\ \A i \in 0 .. mktcount[s] - 1 :
             Len(sampled[s]) - mktcount[s] + i + 1 > shifted[s]
               => mktlog[s][i] = sampled[s][Len(sampled[s]) - mktcount[s] + i + 1]
    BY DEF MktIsRecent, SampleAt
  <2> DEFINE log == mktlog[s]
             n == mktcount[s]
             old == sampled[s]
             d == shifted[s]
             hist == Append(old, ftmp)
             c == NextCount(n)
             new == UpdateMKT(log, n, ftmp)
  <2>4. /\ log \in [0 .. M - 1 -> Values] /\ n \in 0 .. M
        /\ old \in Seq(Values) /\ ftmp \in Values /\ d \in Nat
        /\ n = (IF Len(old) < M THEN Len(old) ELSE M)
        /\ \A i \in 0 .. n - 1 : Len(old) - n + i + 1 > d
                                 => log[i] = old[Len(old) - n + i + 1]
    BY <2>2, <2>3
  <2> HIDE DEF log, n, old, d
  <2>5. /\ c = (IF Len(hist) < M THEN Len(hist) ELSE M)
        /\ \A i \in 0 .. c - 1 : Len(hist) - c + i + 1 > d
                                 => new[i] = hist[Len(hist) - c + i + 1]
    BY <2>4, UpdateKeepsWindow, Zenon
  <2>6. mktlog'[s] = new /\ mktcount'[s] = c /\ sampled'[s] = hist /\ shifted'[s] = d
    BY <2>1 DEF log, n, old, d
  <2> HIDE DEF hist, c, new
  <2> QED
    BY <2>5, <2>6 DEF Recent, SampleAt
<1>2. CASE s # k
  <2>1. /\ mktlog'[s] = mktlog[s] /\ mktcount'[s] = mktcount[s]
        /\ sampled'[s] = sampled[s] /\ shifted'[s] = shifted[s]
    BY <1>2 DEF SaveTempCount, Types, BuffersOK
  <2> QED
    BY <2>1 DEF MktIsRecent, Recent, SampleAt
<1> QED
  BY <1>1, <1>2

\* A restart within UpdateMKT spoils only what was in a full buffer.
LEMMA RestartKeepsMkt ==
    ASSUME Types, MktIsRecent, NEW j \in 0 .. M - 1, RestartInUpdate(j),
           NEW s \in Sensors
    PROVE  Recent(s)'
<1>0. /\ mktlog[s] \in [0 .. M - 1 -> Values] /\ mktcount[s] \in 0 .. M
      /\ Len(sampled[s]) \in Nat /\ shifted[s] \in Nat /\ M \in Nat \ {0}
  BY SizesAssumption DEF Types, BuffersOK
<1>1. UNCHANGED <<mktcount, sampled>>
  BY DEF RestartInUpdate, Rebooted
<1>2. CASE s = k /\ mktcount[s] = M
  <2>1. shifted'[s] = Len(sampled[s])
    BY <1>2 DEF RestartInUpdate, Types, BuffersOK
  <2>2. \A i \in 0 .. mktcount[s] - 1 : ~(SampleAt(s, i) > Len(sampled[s]))
    BY <1>0 DEF SampleAt
  <2> QED
    BY <1>1, <2>1, <2>2 DEF MktIsRecent, Recent, SampleAt
<1>3. CASE s = k /\ mktcount[s] < M
  <2>1. shifted'[s] = shifted[s]
    BY <1>0, <1>3 DEF RestartInUpdate
  <2>2. mktlog'[s] = UpdateMKTCut(mktlog[s], mktcount[s], ftmp, j)
    BY <1>3 DEF RestartInUpdate, Types, BuffersOK
  <2>3. \A i \in 0 .. mktcount[s] - 1 : mktlog'[s][i] = mktlog[s][i]
    BY <1>0, <1>3, <2>2 DEF UpdateMKTCut
  <2> QED
    BY <1>1, <2>1, <2>3 DEF MktIsRecent, Recent, SampleAt
<1>4. CASE s # k
  <2>1. mktlog'[s] = mktlog[s] /\ shifted'[s] = shifted[s]
    BY <1>4 DEF RestartInUpdate, Types, BuffersOK
  <2> QED
    BY <1>1, <2>1 DEF MktIsRecent, Recent, SampleAt
<1> QED
  BY <1>0, <1>2, <1>3, <1>4

\* Every step keeps the buffers recent.
LEMMA StepMkt == Types /\ MktIsRecent /\ [Next]_vars => MktIsRecent'
<1> SUFFICES ASSUME Types, MktIsRecent, [Next]_vars
             PROVE  MktIsRecent'
  OBVIOUS
<1>1. CASE SaveTempCount
  BY <1>1, SaveKeepsMkt DEF MktIsRecent, Recent
<1>2. ASSUME NEW j \in 0 .. M - 1, RestartInUpdate(j)
      PROVE  MktIsRecent'
  BY <1>2, RestartKeepsMkt DEF MktIsRecent, Recent
<1>3. CASE UNCHANGED <<mktlog, mktcount, sampled, shifted>>
  BY <1>3 DEF MktIsRecent, SampleAt
<1>4. \/ SaveTempCount \/ \E j \in 0 .. M - 1 : RestartInUpdate(j)
      \/ UNCHANGED <<mktlog, mktcount, sampled, shifted>>
  BY DEF Next, ReadSum, ReadCount, SaveTemp, SaveHaccp, SaveBegin, SaveOld, SaveSum,
         SaveHaccpCount, SaveEnd, Sensor, Restart, Rebooted, vars, nvram, history
<1> QED
  BY <1>1, <1>2, <1>3, <1>4

\* UpdateMKT's buffers hold the most recent samples, and are whole again a
\* buffer's length after a restart has hit their shift.
THEOREM MktWindow == Spec => []MktIsRecent
<1>1. Init => MktIsRecent
  BY SizesAssumption DEF Init, MktIsRecent, SampleAt
<1>2. Types /\ MktIsRecent /\ [Next]_vars => MktIsRecent'
  BY StepMkt
<1> QED
  BY <1>1, <1>2, TypesHold, PTL DEF Spec
-----------------------------------------------------------------------------
\* A mean consists of readings that were taken.
MeansOld == \A s \in Sensors : \A m \in means[s] : m.of \subseteq 1 .. readings

Once == NoReadingTwice /\ MeansOld

\* Only a reading and a mean that is computed touch the sums.
LEMMA ReadingSteps ==
    ASSUME [Next]_vars
    PROVE  \/ \E s \in Sensors : ReadSum(s)
           \/ \E what, what2 \in Jobs : SaveSum(what, what2)
           \/ UNCHANGED <<means, sum, readings>>
BY DEF Next, ReadCount, SaveTemp, SaveHaccp, SaveBegin, SaveOld, Jobs, SaveTempCount,
       SaveHaccpCount, SaveEnd, Sensor, Restart, RestartInUpdate, Rebooted, vars, nvram, history, bounds

\* Every step, a restart included, keeps readings from being used twice.
LEMMA StepOnce == Types /\ Types' /\ means \in [Sensors -> SUBSET Values] /\ Once /\ [Next]_vars
                    => Once' /\ means' \in [Sensors -> SUBSET Values]
<1> SUFFICES ASSUME Types, Types', means \in [Sensors -> SUBSET Values], Once, [Next]_vars
             PROVE  Once' /\ means' \in [Sensors -> SUBSET Values]
  OBVIOUS
<1>1. ASSUME NEW s \in Sensors, ReadSum(s)
      PROVE  Once' /\ means' \in [Sensors -> SUBSET Values]
  <2>1. UNCHANGED means /\ readings' = readings + 1
    BY <1>1 DEF ReadSum
  <2>2. MeansOld'
    BY <2>1 DEF Once, MeansOld, Types, SumsOK, PlaceOK
  <2>3. \A t \in Sensors : sum'[t] \subseteq sum[t] \cup {readings + 1}
    BY <1>1 DEF ReadSum, Types, SumsOK, PlaceOK
  <2>4. \A t \in Sensors : \A m \in means[t] : readings + 1 \notin m.of
    BY DEF Once, MeansOld, Types, SumsOK, PlaceOK
  <2>5. NoReadingTwice'
    BY <2>1, <2>3, <2>4 DEF Once, NoReadingTwice
  <2> QED
    BY <2>1, <2>2, <2>5 DEF Once
<1>2. ASSUME NEW what, NEW what2, SaveSum(what, what2)
      PROVE  Once' /\ means' \in [Sensors -> SUBSET Values]
  <2>1. /\ k \in Sensors /\ ftmp' \in Values /\ ftmp'.of = sum[k]
        /\ sum' = [sum EXCEPT ![k] = {}]
        /\ means' = [means EXCEPT ![k] = @ \cup {ftmp'}]
        /\ UNCHANGED readings
    <3>1. k \in Sensors
      BY <1>2, SizesAssumption DEF SaveSum, Types, PlaceOK, Sensors
    <3>2. ftmp' \in Values
      BY DEF Types, BuffersOK
    <3> QED
      BY <1>2, <3>1, <3>2 DEF SaveSum, Mean, bounds
  <2>2. means' \in [Sensors -> SUBSET Values]
    BY <2>1
  <2>3. ASSUME NEW t \in Sensors
        PROVE  /\ \A m \in means'[t] : m.of \subseteq 1 .. readings
               /\ \A m, n \in means'[t] : m # n => m.of \cap n.of = {}
               /\ \A m \in means'[t] : m.of \cap sum'[t] = {}
    <3>1. CASE t = k
      <4>1. means'[t] = means[t] \cup {ftmp'} /\ sum'[t] = {}
        BY <2>1, <3>1 DEF Types, SumsOK, PlaceOK
      <4>2. sum[t] \subseteq 1 .. readings
        BY DEF Types, SumsOK, PlaceOK
      <4> QED
        BY <4>1, <4>2, <2>1, <3>1 DEF Once, NoReadingTwice, MeansOld
    <3>2. CASE t # k
      <4>1. means'[t] = means[t] /\ sum'[t] = sum[t]
        BY <2>1, <3>2 DEF Types, SumsOK, PlaceOK
      <4> QED
        BY <4>1 DEF Once, NoReadingTwice, MeansOld
    <3> QED
      BY <3>1, <3>2
  <2> QED
    BY <2>1, <2>2, <2>3 DEF Once, NoReadingTwice, MeansOld
<1>3. CASE UNCHANGED <<means, sum, readings>>
  BY <1>3 DEF Once, NoReadingTwice, MeansOld
<1> QED
  BY <1>1, <1>2, <1>3, ReadingSteps

\* ptReadTemp, SaveTemp and SaveHaccp: no reading goes into two means, whatever
\* two writes to the backup SRAM a restart comes between.
THEOREM ReadingsUsedOnce == Spec => []NoReadingTwice
<1> DEFINE I == Once /\ means \in [Sensors -> SUBSET Values]
<1>1. Init => I
  BY DEF Init, Once, NoReadingTwice, MeansOld
<1>2. Types /\ Types' /\ I /\ [Next]_vars => I'
  BY StepOnce
<1>3. I => NoReadingTwice
  BY DEF Once
<1> QED
  BY <1>1, <1>2, <1>3, TypesHold, PTL DEF Spec
-----------------------------------------------------------------------------
\* ptReadTemp, SaveTemp and SaveHaccp: a reading waits in its sum until it is in
\* a mean, for any number of sensors and a restart between any two writes.
THEOREM NothingLost == Spec => []NoReadingLost
<1> DEFINE MeansTyped == means \in [Sensors -> SUBSET Values]
<1> DEFINE I == Once /\ MeansTyped /\ NoReadingLost
<1>1. Init => I
  BY DEF Init, Once, NoReadingTwice, MeansOld, NoReadingLost
<1>2. ASSUME Types, Types', I, [Next]_vars
      PROVE  NoReadingLost'
  <2>0. /\ readings \in Nat /\ sum \in [Sensors -> SUBSET (1 .. readings)]
        /\ MeansTyped /\ NoReadingLost
    BY <1>2 DEF Types, SumsOK
  <2>1. ASSUME NEW s \in Sensors, ReadSum(s)
        PROVE  NoReadingLost'
    <3>1. /\ readings' = readings + 1 /\ UNCHANGED means
          /\ \A t \in Sensors : sum[t] \subseteq sum'[t]
          /\ readings' \in sum'[s]
      BY <2>0, <2>1 DEF ReadSum
    <3>2. ASSUME NEW r \in 1 .. readings'
          PROVE  \E t \in Sensors : r \in sum'[t] \/ \E m \in means'[t] : r \in m.of
      <4>1. CASE r = readings'
        BY <3>1, <4>1
      <4>2. CASE r # readings'
        <5>1. r \in 1 .. readings
          BY <2>0, <3>1, <3>2, <4>2
        <5> QED
          BY <2>0, <3>1, <5>1 DEF NoReadingLost
      <4> QED
        BY <4>1, <4>2
    <3> QED
      BY <3>2 DEF NoReadingLost
  <2>2. ASSUME NEW what, NEW what2, SaveSum(what, what2)
        PROVE  NoReadingLost'
    <3>1. k \in Sensors
      BY <1>2, <2>2, SizesAssumption DEF SaveSum, Types, PlaceOK, Sensors
    <3>2. /\ UNCHANGED readings
          /\ \A t \in Sensors : means[t] \subseteq means'[t]
          /\ ftmp' \in means'[k] /\ ftmp'.of = sum[k]
          /\ \A t \in Sensors : t # k => sum'[t] = sum[t]
      BY <2>0, <2>2, <3>1 DEF SaveSum, Mean, bounds
    <3>3. ASSUME NEW r \in 1 .. readings
          PROVE  \E t \in Sensors : r \in sum'[t] \/ \E m \in means'[t] : r \in m.of
      <4>1. PICK t \in Sensors : r \in sum[t] \/ \E m \in means[t] : r \in m.of
        BY <2>0 DEF NoReadingLost
      <4> QED
        BY <3>1, <3>2, <4>1
    <3> QED
      BY <3>2, <3>3 DEF NoReadingLost
  <2>3. CASE UNCHANGED <<means, sum, readings>>
    BY <2>0, <2>3 DEF NoReadingLost
  <2> QED
    BY <1>2, <2>1, <2>2, <2>3, ReadingSteps
<1>3. Types /\ Types' /\ I /\ [Next]_vars => I'
  BY <1>2, StepOnce
<1>4. I => NoReadingLost
  OBVIOUS
<1> QED
  BY <1>1, <1>3, <1>4, TypesHold, PTL DEF Spec
\* ptReadTemp, SaveTemp and SaveHaccp: a reading is in exactly one mean or still
\* in a sum, for any number of sensors and a restart between any two writes.
THEOREM ReadingsCountOnce == Spec => []EachReadingOnce
<1>1. NoReadingLost /\ NoReadingTwice => EachReadingOnce
  BY DEF EachReadingOnce
<1> QED
  BY <1>1, NothingLost, ReadingsUsedOnce, PTL
-----------------------------------------------------------------------------
\* A sum is what is left of the readings since the last sample when those that
\* a mean has used up are taken away; it is empty while its mean is stored.
Remainder == \A s \in Sensors : \A r :
    r \in sum[s] <=> r \in since[s] /\ \A m \in means[s] : r \notin m.of

Emptied == job \in {"SaveTemp2", "SaveHaccp2"} => sum[k] = {}

\* MeanOfPeriod, reading by reading.
OfPeriod == job = "SaveTemp2" => \A r :
    r \in ftmp.of <=> r \in since[k] /\ \A m \in means[k] : m # ftmp => r \notin m.of

PeriodInv ==
    /\ means \in [Sensors -> SUBSET Values] /\ Once
    /\ since \in [Sensors -> SUBSET Nat]
    /\ Remainder /\ Emptied /\ OfPeriod

\* The steps that touch neither sums nor means nor the sets of readings since
\* the last sample leave the two places where a mean is stored, or do not enter
\* them.
LEMMA OtherSteps ==
    ASSUME [Next]_vars
    PROVE  \/ \E s \in Sensors : ReadSum(s)
           \/ SaveSum("SaveTemp", "SaveTemp2") \/ SaveSum("SaveHaccp", "SaveHaccp2")
           \/ SaveTempCount
           \/ /\ UNCHANGED <<sum, means, since>>
              /\ \/ job' \notin {"SaveTemp2", "SaveHaccp2"}
                 \/ UNCHANGED <<job, k, ftmp>>
BY DEF Next, ReadCount, SaveTemp, SaveHaccp, SaveBegin, SaveOld, SaveHaccpCount, SaveEnd,
       Sensor, Restart, RestartInUpdate, Rebooted, vars, nvram, history, bounds

LEMMA StepPeriod ==
    ASSUME Types, Types', PeriodInv, Once', means' \in [Sensors -> SUBSET Values], [Next]_vars
    PROVE  PeriodInv'
<1>0. /\ readings \in Nat /\ sum \in [Sensors -> SUBSET (1 .. readings)]
      /\ since \in [Sensors -> SUBSET Nat] /\ means \in [Sensors -> SUBSET Values]
  BY DEF Types, SumsOK, PeriodInv
<1>1. ASSUME NEW s \in Sensors, ReadSum(s)
      PROVE  PeriodInv'
  <2>1. /\ readings' = readings + 1 /\ readings' \in Nat /\ means' = means /\ job' = "count"
        /\ sum' = [sum EXCEPT ![s] = @ \cup {readings'}]
        /\ since' = [since EXCEPT ![s] = @ \cup {readings'}]
    BY <1>0, <1>1 DEF ReadSum
  <2>2. \A t \in Sensors : \A m \in means[t] : readings' \notin m.of
    BY <1>0, <2>1 DEF PeriodInv, Once, MeansOld
  <2>3. since' \in [Sensors -> SUBSET Nat]
    BY <1>0, <2>1
  <2>4. Remainder'
    <3>1. ASSUME NEW t \in Sensors, NEW r
          PROVE  r \in sum'[t] <=> r \in since'[t] /\ \A m \in means[t] : r \notin m.of
      <4>1. CASE t = s
        <5>1. sum'[t] = sum[t] \cup {readings'} /\ since'[t] = since[t] \cup {readings'}
          BY <1>0, <2>1, <4>1
        <5> QED
          BY <2>2, <5>1 DEF PeriodInv, Remainder
      <4>2. CASE t # s
        <5>1. sum'[t] = sum[t] /\ since'[t] = since[t]
          BY <1>0, <2>1, <4>2
        <5> QED
          BY <5>1 DEF PeriodInv, Remainder
      <4> QED
        BY <4>1, <4>2
    <3> QED
      BY <2>1, <3>1 DEF Remainder
  <2> QED
    BY <2>1, <2>3, <2>4 DEF PeriodInv, Emptied, OfPeriod
<1>2. ASSUME NEW what, NEW what2, SaveSum(what, what2)
      PROVE  PeriodInv'
  <2>1. k \in Sensors
    BY <1>2, SizesAssumption DEF SaveSum, Types, PlaceOK, Sensors
  <2>2. /\ UNCHANGED <<k, since>> /\ ftmp'.of = sum[k]
        /\ sum'[k] = {} /\ means'[k] = means[k] \cup {ftmp'}
        /\ \A t \in Sensors : t # k => sum'[t] = sum[t] /\ means'[t] = means[t]
    BY <1>0, <1>2, <2>1 DEF SaveSum, Mean
  <2>3. \A r : r \in sum[k] <=> r \in since[k] /\ \A m \in means[k] : r \notin m.of
    BY <2>1 DEF PeriodInv, Remainder
  <2>4. Remainder'
    <3>1. ASSUME NEW t \in Sensors, NEW r
          PROVE  r \in sum'[t] <=> r \in since[t] /\ \A m \in means'[t] : r \notin m.of
      <4>1. CASE t = k
        BY <2>2, <2>3, <4>1
      <4>2. CASE t # k
        BY <2>2, <4>2 DEF PeriodInv, Remainder
      <4> QED
        BY <4>1, <4>2
    <3> QED
      BY <2>2, <3>1 DEF Remainder
  <2>5. ASSUME NEW r
        PROVE  r \in ftmp'.of <=>
                 r \in since[k] /\ \A m \in means'[k] : m # ftmp' => r \notin m.of
    BY <2>2, <2>3
  <2> QED
    BY <2>2, <2>4, <2>5 DEF PeriodInv, Emptied, OfPeriod
<1>3. CASE SaveTempCount
  <2>1. /\ k \in Sensors /\ sum[k] = {} /\ UNCHANGED <<sum, means>>
        /\ since' = [since EXCEPT ![k] = {}] /\ job' = "SaveTemp"
    BY <1>3 DEF SaveTempCount, Types, PlaceOK, PeriodInv, Emptied
  <2>2. Remainder'
    BY <1>0, <2>1 DEF PeriodInv, Remainder
  <2>3. since' \in [Sensors -> SUBSET Nat]
    BY <1>0, <2>1
  <2> QED
    BY <2>1, <2>2, <2>3 DEF PeriodInv, Emptied, OfPeriod
<1>4. CASE /\ UNCHANGED <<sum, means, since>>
           /\ \/ job' \notin {"SaveTemp2", "SaveHaccp2"}
              \/ UNCHANGED <<job, k, ftmp>>
  BY <1>4 DEF PeriodInv, Remainder, Emptied, OfPeriod
<1> QED
  BY <1>1, <1>2, <1>3, <1>4, OtherSteps

\* PeriodInv, with what it needs, is an invariant.
LEMMA PeriodHolds == Spec => []PeriodInv
<1>1. Init => PeriodInv
  BY DEF Init, PeriodInv, Once, NoReadingTwice, MeansOld, Remainder, Emptied, OfPeriod
<1>2. Types /\ Types' /\ PeriodInv /\ [Next]_vars => PeriodInv'
  BY StepOnce, StepPeriod DEF PeriodInv
<1> QED
  BY <1>1, <1>2, TypesHold, PTL DEF Spec

\* SaveTemp: the mean that goes into the log of the temperatures is over all
\* the readings since the sample before, except those another mean has used.
THEOREM SamplesCoverTheirPeriod == Spec => []MeanOfPeriod
<1>1. PeriodInv => MeanOfPeriod
  BY DEF PeriodInv, OfPeriod, MeanOfPeriod
<1> QED
  BY <1>1, PeriodHolds, PTL
-----------------------------------------------------------------------------
\* The count of a sensor is the number of readings in its sum, unless one of the
\* two words is about to follow the other or a restart has parted them.
Behind(s) == IF job = "count" /\ k = s THEN 1 ELSE 0

Storing(s) == job \in {"SaveTemp2", "SaveHaccp2"} /\ k = s

Tally == \A s \in Sensors :
    s \in torn \/ Storing(s) \/ Cardinality(sum[s]) = count[s] + Behind(s)

TallyInv == Tally /\ Emptied /\ MeansAreTrue

\* A sum is a finite set, and a new reading makes it one larger.
LEMMA SumsAreFinite ==
    ASSUME Types, NEW s \in Sensors
    PROVE  /\ IsFiniteSet(sum[s]) /\ Cardinality(sum[s]) \in Nat
           /\ Cardinality(sum[s] \cup {readings + 1}) = Cardinality(sum[s]) + 1
<1>1. IsFiniteSet(1 .. readings) /\ sum[s] \subseteq 1 .. readings /\ readings + 1 \notin 1 .. readings
  BY FS_Interval DEF Types, SumsOK
<1>2. IsFiniteSet(sum[s])
  BY <1>1, FS_Subset
<1>3. readings + 1 \notin sum[s]
  BY <1>1
<1> QED
  BY <1>2, <1>3, FS_CardinalityType, FS_AddElement

\* A step that clears the count of the sensor whose mean is stored.
LEMMA ClearedCount ==
    ASSUME Types, TallyInv, job \in {"SaveTemp2", "SaveHaccp2"},
           count' = [count EXCEPT ![k] = 0], sum' = sum, torn' = torn \ {k},
           job' \in {"idle", "SaveTemp", "SaveHaccp"}
    PROVE  TallyInv'
<1>1. k \in Sensors /\ sum[k] = {} /\ count'[k] = 0
      /\ \A s \in Sensors : s # k => count'[s] = count[s]
  BY DEF Types, PlaceOK, SumsOK, TallyInv, Emptied
<1>2. ASSUME NEW s \in Sensors
      PROVE  s \in torn' \/ Cardinality(sum'[s]) = count'[s]
  <2>1. CASE s = k
    BY <1>1, <2>1, FS_EmptySet
  <2>2. CASE s # k
    BY <1>1, <2>2 DEF TallyInv, Tally, Behind, Storing, Types, SumsOK
  <2> QED
    BY <2>1, <2>2
<1>3. \A s \in Sensors : count'[s] = count'[s] + Behind(s)'
  <2>1. \A s \in Sensors : count'[s] \in Nat
    BY <1>1 DEF Types, SumsOK
  <2> QED
    BY <2>1 DEF Behind
<1> QED
  BY <1>2, <1>3 DEF TallyInv, Tally, Emptied, MeansAreTrue

LEMMA StepTally ==
    ASSUME Types, TallyInv, [Next]_vars
    PROVE  TallyInv'
<1>0. \A s \in Sensors : count[s] \in Nat /\ Cardinality(sum[s]) \in Nat
  BY SumsAreFinite DEF Types, SumsOK
<1>1. ASSUME NEW s \in Sensors, ReadSum(s)
      PROVE  TallyInv'
  <2>1. /\ job = "idle" /\ job' = "count" /\ k' = s /\ UNCHANGED <<count, torn>>
        /\ sum'[s] = sum[s] \cup {readings + 1}
        /\ \A t \in Sensors : t # s => sum'[t] = sum[t]
    BY <1>1 DEF ReadSum, Types, SumsOK
  <2>2. ASSUME NEW t \in Sensors
        PROVE  t \in torn \/ Cardinality(sum'[t]) = count[t] + (IF t = s THEN 1 ELSE 0)
    <3>1. t \in torn \/ Cardinality(sum[t]) = count[t]
      BY <1>0, <2>1 DEF TallyInv, Tally, Behind, Storing
    <3>2. CASE t = s
      BY <1>0, <2>1, <3>1, <3>2, SumsAreFinite
    <3>3. CASE t # s
      BY <1>0, <2>1, <3>1, <3>3
    <3> QED
      BY <3>2, <3>3
  <2> QED
    BY <2>1, <2>2 DEF TallyInv, Tally, Behind, Emptied, MeansAreTrue
<1>2. CASE ReadCount
  <2>1. /\ job = "count" /\ job' = "idle" /\ UNCHANGED <<sum, torn>> /\ k \in Sensors
        /\ count'[k] = count[k] + 1
        /\ \A t \in Sensors : t # k => count'[t] = count[t]
    BY <1>2 DEF ReadCount, history, Types, PlaceOK, SumsOK
  <2>2. ASSUME NEW t \in Sensors
        PROVE  t \in torn \/ Cardinality(sum[t]) = count'[t] + 0
    <3>1. t \in torn \/ Cardinality(sum[t]) = count[t] + (IF t = k THEN 1 ELSE 0)
      BY <2>1 DEF TallyInv, Tally, Behind, Storing
    <3> QED
      BY <1>0, <2>1, <3>1
  <2> QED
    BY <2>1, <2>2 DEF TallyInv, Tally, Behind, Emptied, MeansAreTrue
<1>3. ASSUME NEW what, NEW what2, SaveSum(what, what2),
             what \in {"SaveTemp", "SaveHaccp"}, what2 \in {"SaveTemp2", "SaveHaccp2"}
      PROVE  TallyInv'
  <2>1. k \in Sensors
    BY <1>3, SizesAssumption DEF SaveSum, Types, PlaceOK, Sensors
  <2>2. /\ job \in {"SaveTemp", "SaveHaccp"} /\ job' \in {"SaveTemp2", "SaveHaccp2"}
        /\ UNCHANGED <<k, count, torn>>
        /\ ftmp'.of = sum[k] /\ ftmp'.by = count[k] /\ sum'[k] = {}
        /\ \A t \in Sensors : t # k => sum'[t] = sum[t]
    BY <1>3, <2>1 DEF SaveSum, Mean, Types, SumsOK
  <2>3. \A t \in Sensors : t \in torn \/ Cardinality(sum[t]) = count[t]
    BY <1>0, <2>2 DEF TallyInv, Tally, Behind, Storing
  <2>4. Tally'
    BY <1>0, <2>2, <2>3 DEF Tally, Behind, Storing
  <2>5. MeansAreTrue' /\ Emptied'
    BY <2>1, <2>2, <2>3 DEF MeansAreTrue, Emptied
  <2> QED
    BY <2>4, <2>5 DEF TallyInv
<1>4. CASE SaveTempCount \/ SaveHaccpCount \/ \E j \in 0 .. M - 1 : RestartInUpdate(j)
  BY <1>4, ClearedCount DEF SaveTempCount, SaveHaccpCount, RestartInUpdate, Rebooted
<1>5. CASE Restart
  <2>1. /\ UNCHANGED <<sum, count>> /\ job' = "idle"
        /\ torn' = IF job \in {"count", "SaveTemp2", "SaveHaccp2"} THEN torn \cup {k} ELSE torn
    BY <1>5 DEF Restart, Rebooted
  <2>2. ASSUME NEW t \in Sensors
        PROVE  t \in torn' \/ Cardinality(sum[t]) = count[t] + 0
    BY <1>0, <2>1 DEF TallyInv, Tally, Behind, Storing
  <2> QED
    BY <2>1, <2>2 DEF TallyInv, Tally, Behind, Emptied, MeansAreTrue
<1>6. CASE /\ UNCHANGED <<sum, count, torn>>
           /\ job \notin {"count", "SaveTemp2", "SaveHaccp2"}
           /\ job' \notin {"count", "SaveTemp2", "SaveHaccp2"}
  BY <1>6 DEF TallyInv, Tally, Behind, Storing, Emptied, MeansAreTrue
<1>7. CASE UNCHANGED vars
  BY <1>7 DEF vars, nvram, history, TallyInv, Tally, Behind, Storing, Emptied, MeansAreTrue
<1>8. CASE SaveTemp \/ SaveHaccp
  BY <1>3, <1>4, <1>6, <1>8 DEF SaveTemp, SaveHaccp, SaveBegin, SaveOld, nvram, history
<1>9. CASE SaveEnd \/ \E s \in Sensors, en \in {0, 1} : Sensor(s, en)
  BY <1>6, <1>9 DEF SaveEnd, Sensor, nvram, history
<1> QED
  BY <1>1, <1>2, <1>4, <1>5, <1>7, <1>8, <1>9 DEF Next

\* SaveTemp and SaveHaccp divide by the number of readings they have added up,
\* except for a sensor whose sum and count a restart has parted.
THEOREM MeansDivideRight == Spec => []MeansAreTrue
<1>1. Init => TallyInv
  BY FS_EmptySet DEF Init, TallyInv, Tally, Behind, Storing, Emptied, MeansAreTrue
<1>2. TallyInv => MeansAreTrue
  BY DEF TallyInv
<1>3. Types /\ TallyInv /\ [Next]_vars => TallyInv'
  BY StepTally
<1> QED
  BY <1>1, <1>2, <1>3, TypesHold, PTL DEF Spec
-----------------------------------------------------------------------------
\* No sensor has counted more readings than were taken.
CountsBounded == \A s \in Sensors : count[s] + Behind(s) <= readings

LEMMA StepCounts ==
    ASSUME Types, CountsBounded, [Next]_vars
    PROVE  CountsBounded'
<1>0. readings \in Nat /\ count \in [Sensors -> Nat]
  BY DEF Types, SumsOK
<1>1. ASSUME NEW s \in Sensors, ReadSum(s)
      PROVE  CountsBounded'
  BY <1>0, <1>1 DEF ReadSum, CountsBounded, Behind
<1>2. CASE ReadCount
  <2>1. job = "count" /\ job' = "idle" /\ readings' = readings /\ k \in Sensors
    BY <1>2 DEF ReadCount, bounds, Types, PlaceOK
  <2>2. \A s \in Sensors : count'[s] = count[s] + Behind(s)
    BY <1>0, <1>2, <2>1 DEF ReadCount, Behind
  <2>3. \A s \in Sensors : count'[s] \in Nat
    BY <1>0, <2>2 DEF Behind
  <2> QED
    BY <2>1, <2>2, <2>3 DEF CountsBounded, Behind
<1>3. CASE /\ readings' = readings /\ job' # "count"
           /\ count' = count \/ \E t \in Sensors : count' = [count EXCEPT ![t] = 0]
  <2>1. \A s \in Sensors : count'[s] \in Nat /\ count'[s] <= count[s]
    BY <1>0, <1>3
  <2>2. \A s \in Sensors : count[s] <= readings
    BY <1>0 DEF CountsBounded, Behind
  <2> QED
    BY <1>0, <1>3, <2>1, <2>2 DEF CountsBounded, Behind
<1>4. CASE SaveTempCount \/ SaveHaccpCount \/ \E j \in 0 .. M - 1 : RestartInUpdate(j)
  BY <1>3, <1>4 DEF SaveTempCount, SaveHaccpCount, RestartInUpdate, Rebooted, bounds,
                    Types, PlaceOK
<1>5. CASE SaveTemp \/ SaveHaccp
  BY <1>3, <1>4, <1>5 DEF SaveTemp, SaveHaccp, SaveBegin, SaveOld, SaveSum, nvram, bounds
<1>6. CASE SaveEnd \/ Restart \/ \E s \in Sensors, en \in {0, 1} : Sensor(s, en)
  BY <1>3, <1>6 DEF SaveEnd, Restart, Rebooted, Sensor, nvram, bounds
<1>7. CASE UNCHANGED vars
  BY <1>7 DEF vars, nvram, bounds, CountsBounded, Behind
<1> QED
  BY <1>1, <1>2, <1>4, <1>5, <1>6, <1>7 DEF Next

\* The words and counters that only TypeOK speaks of.
Counters ==
    /\ ENBLE \in [Sensors -> {0, 1}]
    /\ job \in Jobs /\ k \in 1 .. N + 1
    /\ readings \in 0 .. MaxReadings /\ saves \in 0 .. MaxSaves
    /\ forms \in 0 .. MaxForms /\ restarts \in 0 .. MaxRestarts
    /\ torn \subseteq Sensors

LEMMA StepCounters ==
    ASSUME Types, Counters, [Next]_vars
    PROVE  Counters'
<1> USE SizesAssumption, BoundsAssumption DEF Counters, Sensors, Jobs
<1>1. ASSUME NEW s \in Sensors, ReadSum(s)
      PROVE  Counters'
  BY <1>1 DEF ReadSum
<1>2. CASE ReadCount \/ SaveEnd
  <2>1. /\ job' = "idle" /\ (k' = k \/ k' = 1)
        /\ UNCHANGED <<ENBLE, readings, saves, forms, restarts, torn>>
    BY <1>2 DEF ReadCount, SaveEnd, nvram, bounds, history
  <2> QED
    BY <2>1
<1>3. ASSUME NEW w \in {"SaveTemp", "SaveHaccp"}, SaveBegin(w) \/ SaveOld(w)
      PROVE  Counters'
  <2>1. job' \in Jobs /\ UNCHANGED <<ENBLE, readings, forms, restarts, torn>>
    BY <1>3 DEF SaveBegin, SaveOld, bounds, history
  <2>2. saves' \in 0 .. MaxSaves
    BY <1>3 DEF SaveBegin, SaveOld, bounds
  <2>3. k' \in 1 .. N + 1
    BY <1>3 DEF SaveBegin, SaveOld
  <2> QED
    BY <2>1, <2>2, <2>3
<1>4. CASE SaveSum("SaveTemp", "SaveTemp2") \/ SaveSum("SaveHaccp", "SaveHaccp2")
  BY <1>4 DEF SaveSum, bounds
<1>5. CASE SaveTempCount \/ SaveHaccpCount
  <2>1. k \in Sensors
    BY <1>5 DEF SaveTempCount, SaveHaccpCount, Types, PlaceOK
  <2>2. /\ job' \in Jobs /\ k' = k + 1 /\ torn' \subseteq torn
        /\ UNCHANGED <<ENBLE, readings, saves, forms, restarts>>
    BY <1>5 DEF SaveTempCount, SaveHaccpCount, bounds
  <2> QED
    BY <2>1, <2>2
<1>6. ASSUME NEW s \in Sensors, NEW en \in {0, 1}, Sensor(s, en)
      PROVE  Counters'
  BY <1>6 DEF Sensor, nvram, history
<1>7. CASE Restart \/ \E j \in 0 .. M - 1 : RestartInUpdate(j)
  <2>1. /\ UNCHANGED <<ENBLE, readings, saves, forms>>
        /\ restarts' \in 0 .. MaxRestarts /\ job' = "idle" /\ k' = 1
    BY <1>7 DEF Restart, RestartInUpdate, Rebooted
  <2>2. torn' \subseteq Sensors
    BY <1>7 DEF Restart, RestartInUpdate, Types, PlaceOK
  <2> QED
    BY <2>1, <2>2
<1>8. CASE UNCHANGED vars
  BY <1>8 DEF vars, bounds, history
<1> QED
  BY <1>1, <1>2, <1>3, <1>4, <1>5, <1>6, <1>7, <1>8 DEF Next, SaveTemp, SaveHaccp

\* Sums, counts and MKT buffers keep their types: no count passes the number of
\* readings, and the MKT count stays within its buffer.
THEOREM LoggerTypeCorrect == Spec => []TypeOK
<1>1. Init => CountsBounded /\ Counters
  BY SizesAssumption, BoundsAssumption
  DEF Init, CountsBounded, Behind, Counters, Jobs, Sensors
<1>2. Types /\ CountsBounded /\ Counters /\ [Next]_vars => CountsBounded' /\ Counters'
  BY StepCounts, StepCounters
<1>3. ASSUME Types, CountsBounded, Counters
      PROVE  TypeOK
  <2>1. \A r \in 1 .. readings : r \in 1 .. MaxReadings
    BY <1>3, BoundsAssumption DEF Counters
  <2>2. sum \in [Sensors -> SUBSET (1 .. MaxReadings)]
    BY <1>3, <2>1 DEF Types, SumsOK
  <2>3. count \in [Sensors -> 0 .. MaxReadings]
    BY <1>3, BoundsAssumption DEF Types, SumsOK, CountsBounded, Behind, Counters
  <2> QED
    BY <1>3, <2>2, <2>3 DEF Types, BuffersOK, Counters, TypeOK
<1>4. Types /\ CountsBounded /\ Counters => TypeOK
  BY <1>3
<1> QED
  BY <1>1, <1>2, <1>4, TypesHold, PTL DEF Spec
=============================================================================
