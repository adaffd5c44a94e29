------------------------------- MODULE Logger -------------------------------
(***************************************************************************)
(* The temperature logs: readings are added up in battery-backed SRAM,     *)
(* SaveTemp and SaveHaccp turn the sums into the means of a row, and       *)
(* SaveTemp also shifts the mean into the buffer from which the mean       *)
(* kinetic temperature (MKT) is calculated.                                *)
(*                                                                         *)
(* Readings are numbered.  A sum is the set of readings it adds up; a mean *)
(* is a sum with the count it was divided by.  The words of the SRAM are   *)
(* written one at a time and survive a restart; everything else does not.  *)
(* The text of a row is left out, and so is temp[], which only carries     *)
(* values from one statement to the next here (module SensorAlarm has what *)
(* SaveTemp does to the readings there).                                   *)
(***************************************************************************)
EXTENDS Integers, Sequences, FiniteSets

CONSTANTS
    N,             \* sensors are 1 .. N (eight in the firmware)
    M,             \* length of the MKT buffer (twenty in the firmware)
    MaxReadings,   \* bound: readings in a behaviour
    MaxSaves,      \* bound: rows in a behaviour
    MaxForms,      \* bound: changes of a sensor's settings
    MaxRestarts    \* bound: restarts of the device

Sensors == 1 .. N

ASSUME SizesAssumption == N \in Nat \ {0} /\ M \in Nat \ {0}
ASSUME BoundsAssumption ==
    MaxReadings \in Nat /\ MaxSaves \in Nat /\ MaxForms \in Nat /\ MaxRestarts \in Nat

VARIABLES
    ENBLE,                \* the sensor is in use
    sum, count,           \* NV_SUM_SENk, NV_COUNT_SENk
    mktlog, mktcount,     \* NV_MKT_SENk, NV_MKT_COUNT_SENk
    job, k, ftmp,         \* what the loop is at, its sensor and local variable
    readings, saves, forms, restarts,
    (* history variables *)
    means,                \* means computed from the sums, by sensor
    sampled,              \* means SaveTemp put into the MKT buffer, in order
    since,                \* readings since SaveTemp's last mean, by sensor
    torn,                 \* sensors whose sum and count a restart has parted
    shifted               \* samples before a restart hit UpdateMKT's shift

nvram    == <<sum, count, mktlog, mktcount>>
history  == <<means, sampled, since, torn, shifted>>
bounds   == <<readings, saves, forms, restarts>>
vars == <<ENBLE, nvram, job, k, ftmp, bounds, history>>

Values == [of : SUBSET Nat, by : Nat]
Mean(S, n) == [of |-> S, by |-> n]
Zero == Mean({}, 0)

Jobs == {"idle", "count", "SaveTemp", "SaveTemp2", "SaveHaccp", "SaveHaccp2"}

TypeOK ==
    /\ ENBLE \in [Sensors -> {0, 1}]
    /\ sum \in [Sensors -> SUBSET (1 .. MaxReadings)]
    /\ count \in [Sensors -> 0 .. MaxReadings]
    /\ \A s \in Sensors : mktlog[s] \in [0 .. M - 1 -> Values]
    /\ mktcount \in [Sensors -> 0 .. M]
    /\ job \in Jobs /\ k \in 1 .. N + 1
    /\ ftmp \in Values
    /\ readings \in 0 .. MaxReadings /\ saves \in 0 .. MaxSaves
    /\ forms \in 0 .. MaxForms /\ restarts \in 0 .. MaxRestarts
    /\ torn \subseteq Sensors
-----------------------------------------------------------------------------
Init ==
    /\ ENBLE \in [Sensors -> {0, 1}]
    /\ sum = [s \in Sensors |-> {}] /\ count = [s \in Sensors |-> 0]
    /\ mktlog = [s \in Sensors |-> [i \in 0 .. M - 1 |-> Zero]]
    /\ mktcount = [s \in Sensors |-> 0]
    /\ job = "idle" /\ k = 1 /\ ftmp = Zero
    /\ readings = 0 /\ saves = 0 /\ forms = 0 /\ restarts = 0
    /\ means = [s \in Sensors |-> {}]
    /\ sampled = [s \in Sensors |-> <<>>]
    /\ since = [s \in Sensors |-> {}]
    /\ torn = {} /\ shifted = [s \in Sensors |-> 0]

\* Mutant: the reading replaces the sum.
ReadSum_Overwrites(s) ==
    /\ job = "idle" /\ ENBLE[s] = 1 /\ readings < MaxReadings
    /\ readings' = readings + 1
    /\ sum' = [sum EXCEPT ![s] = {readings'}]
    /\ job' = "count" /\ k' = s
    /\ since' = [since EXCEPT ![s] = @ \cup {readings'}]
    /\ UNCHANGED <<ENBLE, count, mktlog, mktcount, ftmp, saves, forms, restarts,
                   means, sampled, torn, shifted>>

\* ptReadTemp, a good reading of sensor s: first the sum ...
ReadSum(s) ==
    /\ job = "idle" /\ ENBLE[s] = 1 /\ readings < MaxReadings
    /\ readings' = readings + 1
    /\ sum' = [sum EXCEPT ![s] = @ \cup {readings'}]
    /\ job' = "count" /\ k' = s
    /\ since' = [since EXCEPT ![s] = @ \cup {readings'}]
    /\ UNCHANGED <<ENBLE, count, mktlog, mktcount, ftmp, saves, forms, restarts,
                   means, sampled, torn, shifted>>

\* ... then the count.
ReadCount ==
    /\ job = "count"
    /\ count' = [count EXCEPT ![k] = @ + 1]
    /\ job' = "idle"
    /\ UNCHANGED <<ENBLE, sum, mktlog, mktcount, k, ftmp, bounds, history>>
-----------------------------------------------------------------------------
\* SaveTemp or SaveHaccp begins.
SaveBegin(what) ==
    /\ job = "idle" /\ saves < MaxSaves
    /\ saves' = saves + 1
    /\ job' = what /\ k' = 1
    /\ UNCHANGED <<ENBLE, nvram, ftmp, readings, forms, restarts, history>>

\* A disabled sensor, or one without readings.
SaveOld(what) ==
    /\ job = what /\ k <= N
    /\ ENBLE[k] = 0 \/ count[k] = 0
    /\ k' = k + 1
    /\ UNCHANGED <<ENBLE, nvram, job, ftmp, bounds, history>>

\* Mutant: the count is cleared first, the sum with the next write.
SaveSum_CountFirst(what, what2) ==
    /\ job = what /\ k <= N
    /\ ENBLE[k] = 1 /\ count[k] # 0
    /\ ftmp' = Mean(sum[k], count[k])
    /\ count' = [count EXCEPT ![k] = 0]
    /\ job' = what2
    /\ means' = [means EXCEPT ![k] = @ \cup {ftmp'}]
    /\ UNCHANGED <<ENBLE, sum, mktlog, mktcount, k, bounds, sampled, since, torn, shifted>>

\* The mean is computed and the sum cleared.
SaveSum(what, what2) ==
    /\ job = what /\ k <= N
    /\ ENBLE[k] = 1 /\ count[k] # 0
    /\ ftmp' = Mean(sum[k], count[k])
    /\ sum' = [sum EXCEPT ![k] = {}]
    /\ job' = what2
    /\ means' = [means EXCEPT ![k] = @ \cup {ftmp'}]
    /\ UNCHANGED <<ENBLE, count, mktlog, mktcount, k, bounds, sampled, since, torn, shifted>>

\* Mutant: the oldest sample stays where it is.
UpdateMKT_KeepsFirst(log, lgcount, v) ==
    IF lgcount < M THEN [log EXCEPT ![lgcount] = v]
                   ELSE [log EXCEPT ![M - 1] = v]

\* UpdateMKT: fills the buffer, then shifts the oldest sample out.
UpdateMKT(log, lgcount, v) ==
    IF lgcount < M THEN [log EXCEPT ![lgcount] = v]
                   ELSE [i \in 0 .. M - 1 |-> IF i < M - 1 THEN log[i + 1] ELSE v]

NextCount(lgcount) == IF lgcount < M THEN lgcount + 1 ELSE lgcount

\* Mutant: the count is kept.
SaveTempCount_KeepsCount ==
    /\ job = "SaveTemp2" /\ job' = "SaveTemp" /\ k' = k + 1
    /\ mktlog' = [mktlog EXCEPT ![k] = UpdateMKT(@, mktcount[k], ftmp)]
    /\ mktcount' = [mktcount EXCEPT ![k] = NextCount(@)]
    /\ sampled' = [sampled EXCEPT ![k] = Append(@, ftmp)]
    /\ since' = [since EXCEPT ![k] = {}]
    /\ torn' = torn \ {k}
    /\ UNCHANGED <<ENBLE, sum, count, ftmp, bounds, means, shifted>>

\* SaveTemp goes on: the count is cleared, the mean goes into the MKT buffer.
SaveTempCount ==
    /\ job = "SaveTemp2" /\ job' = "SaveTemp" /\ k' = k + 1
    /\ count' = [count EXCEPT ![k] = 0]
    /\ mktlog' = [mktlog EXCEPT ![k] = UpdateMKT(@, mktcount[k], ftmp)]
    /\ mktcount' = [mktcount EXCEPT ![k] = NextCount(@)]
    /\ sampled' = [sampled EXCEPT ![k] = Append(@, ftmp)]
    /\ since' = [since EXCEPT ![k] = {}]
    /\ torn' = torn \ {k}
    /\ UNCHANGED <<ENBLE, sum, ftmp, bounds, means, shifted>>

\* SaveHaccp goes on: it leaves the MKT buffer alone.
SaveHaccpCount ==
    /\ job = "SaveHaccp2" /\ job' = "SaveHaccp" /\ k' = k + 1
    /\ count' = [count EXCEPT ![k] = 0]
    /\ torn' = torn \ {k}
    /\ UNCHANGED <<ENBLE, sum, mktlog, mktcount, ftmp, bounds, means, sampled, since,
                   shifted>>

\* The row is appended to the file.
SaveEnd ==
    /\ job \in {"SaveTemp", "SaveHaccp"} /\ k = N + 1
    /\ job' = "idle" /\ k' = 1
    /\ UNCHANGED <<ENBLE, nvram, ftmp, bounds, history>>

SaveTemp ==
    \/ SaveBegin("SaveTemp") \/ SaveOld("SaveTemp")
    \/ SaveSum("SaveTemp", "SaveTemp2") \/ SaveTempCount

SaveHaccp ==
    \/ SaveBegin("SaveHaccp") \/ SaveOld("SaveHaccp")
    \/ SaveSum("SaveHaccp", "SaveHaccp2") \/ SaveHaccpCount
-----------------------------------------------------------------------------
\* The sensor's form switches the sensor on or off.
Sensor(s, en) ==
    /\ job = "idle" /\ forms < MaxForms
    /\ forms' = forms + 1
    /\ ENBLE' = [ENBLE EXCEPT ![s] = en]
    /\ UNCHANGED <<nvram, job, k, ftmp, readings, saves, restarts, history>>

\* InitNV finds its mark and leaves the backup SRAM alone.
Rebooted ==
    /\ restarts < MaxRestarts
    /\ restarts' = restarts + 1
    /\ job' = "idle" /\ k' = 1 /\ ftmp' = Zero
    /\ UNCHANGED <<ENBLE, sum, mktcount, readings, saves, forms, means, sampled, since>>

\* A restart at any point of the loop, of a reading or of a row.
Restart ==
    /\ Rebooted
    /\ torn' = IF job \in {"count", "SaveTemp2", "SaveHaccp2"} THEN torn \cup {k} ELSE torn
    /\ UNCHANGED <<count, mktlog, shifted>>

\* The buffer when the restart comes after j of the writes of UpdateMKT.
UpdateMKTCut(log, lgcount, v, j) ==
    IF lgcount < M THEN IF j = 0 THEN log ELSE [log EXCEPT ![lgcount] = v]
                   ELSE [i \in 0 .. M - 1 |-> IF i < j THEN log[i + 1] ELSE log[i]]

\* A restart within UpdateMKT.
RestartInUpdate(j) ==
    /\ job = "SaveTemp2"
    /\ Rebooted
    /\ count' = [count EXCEPT ![k] = 0]
    /\ mktlog' = [mktlog EXCEPT ![k] = UpdateMKTCut(@, mktcount[k], ftmp, j)]
    /\ torn' = torn \ {k}
    /\ shifted' = IF mktcount[k] = M THEN [shifted EXCEPT ![k] = Len(sampled[k])]
                                     ELSE shifted

Next ==
    \/ \E s \in Sensors : ReadSum(s)
    \/ ReadCount
    \/ SaveTemp \/ SaveHaccp \/ SaveEnd
    \/ \E s \in Sensors, en \in {0, 1} : Sensor(s, en)
    \/ Restart
    \/ \E j \in 0 .. M - 1 : RestartInUpdate(j)

Spec == Init /\ [][Next]_vars
-----------------------------------------------------------------------------
\* The i-th place of the sensor's MKT buffer is for this sample.
SampleAt(s, i) == Len(sampled[s]) - mktcount[s] + i + 1

(* The MKT buffer holds the most recent samples, oldest first, as many as  *)
(* there are up to its length.  A restart within the shift of a full       *)
(* buffer spoils it only until the samples of that moment have left it.    *)
MktIsRecent ==
    \A s \in Sensors :
        /\ mktcount[s] = IF Len(sampled[s]) < M THEN Len(sampled[s]) ELSE M
        /\ \A i \in 0 .. mktcount[s] - 1 :
             SampleAt(s, i) > shifted[s] => mktlog[s][i] = sampled[s][SampleAt(s, i)]

(* A mean is divided by the number of readings in its sum, unless a        *)
(* restart came between the two words since they were last cleared.        *)
MeansAreTrue ==
    job \in {"SaveTemp2", "SaveHaccp2"} =>
        k \in torn \/ Cardinality(ftmp.of) = ftmp.by

(* No reading is lost on its way to a mean: it is in one or waits in a     *)
(* sum, wherever a restart hits.                                           *)
NoReadingLost ==
    \A r \in 1 .. readings :
        \E s \in Sensors : r \in sum[s] \/ \E m \in means[s] : r \in m.of

(* No reading goes into two means, wherever a restart hits.                *)
NoReadingTwice ==
    \A s \in Sensors :
        /\ \A m, n \in means[s] : m # n => m.of \cap n.of = {}
        /\ \A m \in means[s] : m.of \cap sum[s] = {}

(* Both: a reading gets into exactly one mean, or is still on its way.     *)
EachReadingOnce == NoReadingLost /\ NoReadingTwice

(* A sample of the temperature log is the mean over all the readings since *)
(* the sample before, but those that another mean (a HACCP row, or one     *)
(* that a restart has lost) has used up.                                   *)
MeanOfPeriod ==
    job = "SaveTemp2" =>
        ftmp.of = since[k] \ UNION {m.of : m \in means[k] \ {ftmp}}
=============================================================================
