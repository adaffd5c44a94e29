-------------------------- MODULE OneWireReadProofs --------------------------
(***************************************************************************)
(* Proofs about OneWireRead, for any number of sensors on any bridges, any *)
(* length of a scratchpad and any number of failing calls and lost         *)
(* supplies: what ptReadTemp takes for a temperature is the sensor's own.  *)
(***************************************************************************)
EXTENDS OneWireRead, FiniteSetTheorems, TLAPS

(* The numbers that the bytes in memory carry for a sensor are fewer than  *)
(* the conversions: there is one that none of them carries.                *)
LEMMA FreshExists ==
    ASSUME TypeOK, NEW s \in Sensors
    PROVE  /\ Fresh(s) \in Conversions
           /\ \A i \in Cells : Fresh(s) # dsBuf[i].n
           /\ Fresh(s) # temp[s].n /\ Fresh(s) # conv[s]
  <1> DEFINE f == [i \in Cells |-> dsBuf[i].n]
             inBuf == {f[i] : i \in Cells}
             used == (inBuf \cup {temp[s].n}) \cup {conv[s]}
  <1>1. IsFiniteSet(Cells) /\ Cardinality(Cells) = BYTES
    BY FS_Interval, BytesAssumption DEF Cells
  <1>2. IsFiniteSet(inBuf) /\ Cardinality(inBuf) <= BYTES
    <2>1. f \in Surjection(Cells, inBuf)
      BY DEF Surjection
    <2> HIDE DEF f
    <2> QED BY <1>1, <2>1, FS_Surjection
  <1>3. IsFiniteSet(used) /\ Cardinality(used) <= BYTES + 2
    <2> HIDE DEF inBuf
    <2>1. Cardinality(inBuf) \in Nat /\ BYTES \in Nat
      BY <1>2, FS_CardinalityType, BytesAssumption
    <2>2. ASSUME NEW S, NEW x, IsFiniteSet(S)
          PROVE  /\ IsFiniteSet(S \cup {x})
                 /\ Cardinality(S) \in Nat /\ Cardinality(S \cup {x}) \in Nat
                 /\ Cardinality(S \cup {x}) <= Cardinality(S) + 1
      <3>1. /\ IsFiniteSet(S \cup {x})
            /\ Cardinality(S) \in Nat /\ Cardinality(S \cup {x}) \in Nat
        BY <2>2, FS_AddElement, FS_CardinalityType
      <3>2. \/ Cardinality(S \cup {x}) = Cardinality(S)
            \/ Cardinality(S \cup {x}) = Cardinality(S) + 1
        BY <2>2, FS_AddElement
      <3> QED BY <3>1, <3>2
    <2> DEFINE with == inBuf \cup {temp[s].n}
    <2>3. IsFiniteSet(with) /\ Cardinality(with) <= Cardinality(inBuf) + 1
          /\ Cardinality(with) \in Nat
      BY <1>2, <2>2
    <2> HIDE DEF with
    <2>4. IsFiniteSet(with \cup {conv[s]}) /\ Cardinality(with \cup {conv[s]}) \in Nat
          /\ Cardinality(with \cup {conv[s]}) <= Cardinality(with) + 1
      BY <2>2, <2>3
    <2>5. Cardinality(with \cup {conv[s]}) <= BYTES + 2
      BY <1>2, <2>1, <2>3, <2>4
    <2>6. used = with \cup {conv[s]}
      BY DEF with
    <2> QED BY <2>4, <2>5, <2>6
  <1>4. ~(Conversions \subseteq used)
    <2> HIDE DEF used
    <2>1. ASSUME Conversions \subseteq used PROVE FALSE
      <3>1. Cardinality(Conversions) <= Cardinality(used)
        BY <1>3, <2>1, FS_Subset
      <3>2. Cardinality(Conversions) \in Nat /\ Cardinality(used) \in Nat
        BY <1>3, FS_CardinalityType, ConversionsAssumption
      <3> QED BY <1>3, <3>1, <3>2, ConversionsAssumption, BytesAssumption
    <2> QED BY <2>1
  <1>5. \E n \in Conversions : \A i \in Cells : n # dsBuf[i].n /\ n # temp[s].n /\ n # conv[s]
    BY <1>4
  <1>6. 0 \in Cells
    BY BytesAssumption DEF Cells
  <1> QED BY <1>5, <1>6 DEF Fresh

(* What a bus call may return, heard or not.                               *)
LEMMA CallFacts ==
    ASSUME held \in BOOLEAN, glitches \in 0 .. MaxGlitches,
           NEW heard \in BOOLEAN, NEW ok \in BOOLEAN, NEW after \in BOOLEAN,
           Call(heard, ok, after)
    PROVE  /\ held' \in BOOLEAN /\ glitches' \in 0 .. MaxGlitches
           /\ ok => heard /\ ~held'
           /\ glitches' = glitches /\ ~held => heard /\ ok /\ ~held'
           /\ glitches' = glitches /\ ~after => ~held'
  <1>1. CASE ~held /\ heard /\ ok /\ held' = FALSE /\ UNCHANGED glitches
    BY <1>1
  <1>2. CASE held /\ ~heard /\ ~ok /\ held' = after /\ UNCHANGED glitches
    BY <1>2
  <1>3. CASE ~held /\ ~ok /\ held' \in BOOLEAN /\ glitches < MaxGlitches /\ glitches' = glitches + 1
    <2>1. glitches' \in 0 .. MaxGlitches /\ glitches' # glitches
      BY <1>3, GlitchesAssumption
    <2> QED BY <1>3, <2>1
  <1> QED BY <1>1, <1>2, <1>3 DEF Call

\* The types of what a bus call changes.
BusTypeOK ==
    /\ held \in BOOLEAN
    /\ slave \in [Sensors -> {"deaf", "ready", "selected", "sending"}]
    /\ conv \in [Sensors -> Conversions \cup {POWER_ON}]
    /\ sent \in [Sensors -> 0 .. BYTES]
    /\ glitches \in 0 .. MaxGlitches
    /\ calm \in 0 .. 3

(* Each of the calls keeps the bus's types.                                *)
LEMMA CallsTyped ==
    ASSUME TypeOK, NEW heard \in BOOLEAN, NEW ok \in BOOLEAN
    PROVE  /\ OWreset(heard, ok) => BusTypeOK'
           /\ \A seen \in {"all", "some", "none"} : MatchRom(seen, ok) => BusTypeOK'
           /\ Convert(heard, ok) => BusTypeOK'
           /\ ReadScratchpad(heard, ok) => BusTypeOK'
           /\ OWReadByte(heard, ok) => BusTypeOK' /\ dsBuf' \in [Cells -> Byte]
  <1>0. BusTypeOK
    BY DEF TypeOK, BusTypeOK
  <1>1. ASSUME NEW c \in 0 .. 3, Calm(c) PROVE calm' \in 0 .. 3
    BY <1>1 DEF Calm
  <1>2. ASSUME NEW h \in BOOLEAN, NEW after \in BOOLEAN, Call(h, ok, after)
        PROVE  held' \in BOOLEAN /\ glitches' \in 0 .. MaxGlitches
    BY <1>0, <1>2, CallFacts DEF BusTypeOK
  <1>3. ASSUME OWreset(heard, ok) PROVE BusTypeOK'
    <2>1. held' \in BOOLEAN /\ glitches' \in 0 .. MaxGlitches
      BY <1>2, <1>3 DEF OWreset
    <2>2. (IF calm < 3 THEN calm + 1 ELSE 3) \in 0 .. 3
      BY <1>0 DEF BusTypeOK
    <2>3. calm' \in 0 .. 3
      BY <1>1, <1>3, <2>2 DEF OWreset
    <2>4. slave' \in [Sensors -> {"deaf", "ready", "selected", "sending"}]
      BY <1>0, <1>3 DEF OWreset, BusTypeOK
    <2> QED BY <1>0, <1>3, <2>1, <2>3, <2>4 DEF OWreset, BusTypeOK
  <1>4. ASSUME NEW seen \in {"all", "some", "none"}, MatchRom(seen, ok) PROVE BusTypeOK'
    <2>1. held' \in BOOLEAN /\ glitches' \in 0 .. MaxGlitches
      BY <1>2, <1>4 DEF MatchRom
    <2>2. calm' \in 0 .. 3
      BY <1>0, <1>1, <1>4 DEF MatchRom, BusTypeOK
    <2>3. slave' \in [Sensors -> {"deaf", "ready", "selected", "sending"}]
      BY <1>0, <1>4 DEF MatchRom, BusTypeOK
    <2> QED BY <1>0, <1>4, <2>1, <2>2, <2>3 DEF MatchRom, BusTypeOK
  <1>5. ASSUME Convert(heard, ok) PROVE BusTypeOK'
    <2>1. held' \in BOOLEAN /\ glitches' \in 0 .. MaxGlitches
      BY <1>2, <1>5 DEF Convert
    <2>2. calm' \in 0 .. 3
      BY <1>0, <1>1, <1>5 DEF Convert, BusTypeOK
    <2>3. slave' \in [Sensors -> {"deaf", "ready", "selected", "sending"}]
      BY <1>0, <1>5 DEF Convert, BusTypeOK
    <2>4. conv' \in [Sensors -> Conversions \cup {POWER_ON}]
      BY <1>0, <1>5, FreshExists DEF Convert, BusTypeOK
    <2> QED BY <1>0, <1>5, <2>1, <2>2, <2>3, <2>4 DEF Convert, BusTypeOK
  <1>6. ASSUME ReadScratchpad(heard, ok) PROVE BusTypeOK'
    <2>1. held' \in BOOLEAN /\ glitches' \in 0 .. MaxGlitches
      BY <1>2, <1>6 DEF ReadScratchpad
    <2>2. calm' \in 0 .. 3
      BY <1>0, <1>1, <1>6 DEF ReadScratchpad, BusTypeOK
    <2>3. slave' \in [Sensors -> {"deaf", "ready", "selected", "sending"}]
      BY <1>0, <1>6 DEF ReadScratchpad, BusTypeOK
    <2>4. sent' \in [Sensors -> 0 .. BYTES]
      BY <1>0, <1>6, BytesAssumption DEF ReadScratchpad, BusTypeOK
    <2> QED BY <1>0, <1>6, <2>1, <2>2, <2>3, <2>4 DEF ReadScratchpad, BusTypeOK
  <1>7. ASSUME OWReadByte(heard, ok) PROVE BusTypeOK' /\ dsBuf' \in [Cells -> Byte]
    <2>1. held' \in BOOLEAN /\ glitches' \in 0 .. MaxGlitches
      BY <1>2, <1>7 DEF OWReadByte
    <2>2. calm' \in 0 .. 3
      BY <1>0, <1>1, <1>7 DEF OWReadByte, BusTypeOK
    <2>3. sent' \in [Sensors -> 0 .. BYTES]
      BY <1>0, <1>7, BytesAssumption DEF OWReadByte, Senders, BusTypeOK
    <2>4. OnTheWire \in Byte
      <3>1. CASE Senders = {}
        BY <3>1, BytesAssumption DEF OnTheWire, Byte, Cells
      <3>2. CASE Senders # {}
        <4> DEFINE s == CHOOSE s \in Senders : TRUE
        <4>1. s \in Sensors /\ sent[s] \in Cells /\ conv[s] \in Conversions \cup {POWER_ON}
          <5>1. s \in Senders
            BY <3>2
          <5>2. s \in Sensors /\ sent[s] < BYTES
            BY <5>1 DEF Senders
          <5> HIDE DEF s
          <5> QED BY <1>0, <5>2, BytesAssumption DEF BusTypeOK, Cells
        <4>2. OnTheWire = [s |-> s, n |-> conv[s], p |-> sent[s]]
          BY <3>2 DEF OnTheWire
        <4> HIDE DEF s
        <4> QED BY <4>1, <4>2 DEF Byte
      <3> QED BY <3>1, <3>2
    <2>5. dsBuf' \in [Cells -> Byte]
      BY <1>7, <2>4 DEF OWReadByte, dsBufAfter, TypeOK
    <2> QED BY <1>0, <1>7, <2>1, <2>2, <2>3, <2>5 DEF OWReadByte, BusTypeOK
  <1> QED BY <1>3, <1>4, <1>5, <1>6, <1>7

(* A reading has stored nothing before it asks for bytes.                  *)
NothingYet ==
    pc \in {"match1", "convert", "wait", "match2", "command"} => stored = {}

\* The types of what ptReadTemp itself keeps.
ThreadTypeOK ==
    /\ pc \in {"reset1", "match1", "convert", "wait", "match2", "command", "read", "check"}
    /\ k \in Sensors /\ cnt \in Cells
    /\ dsBuf \in [Cells -> Byte]
    /\ temp \in [Sensors -> Reading]
    /\ state \in [Sensors -> {"none", "OK", "KO"}]
    /\ stale \in BOOLEAN
    /\ failed \subseteq {"reset", "match", "command", "byte"}
    /\ stored \subseteq Cells

LEMMA TypeParts == TypeOK <=> ThreadTypeOK /\ BusTypeOK
  BY DEF TypeOK, ThreadTypeOK, BusTypeOK

(* The types of the thread, for every step.                                *)
LEMMA TypesPreserved ==
    ASSUME TypeOK, NothingYet, [Next]_vars PROVE TypeOK' /\ NothingYet'
  <1> DEFINE Goal == ThreadTypeOK' /\ BusTypeOK' /\ NothingYet'
  <1>0. ThreadTypeOK /\ BusTypeOK /\ 0 \in Cells
    BY TypeParts, BytesAssumption DEF Cells
  <1>1. ASSUME StartReset PROVE Goal
    <2>1. PICK heard, ok \in BOOLEAN : OWreset(heard, ok) /\ stale' = ~ok
      BY <1>1 DEF StartReset
    <2>2. BusTypeOK' /\ stale' \in BOOLEAN
      BY <2>1, CallsTyped
    <2>3. pc' = "match1" /\ failed' = {} /\ stored' = {} /\ UNCHANGED <<k, cnt, dsBuf, temp, state>>
      BY <1>1 DEF StartReset, At
    <2>4. ThreadTypeOK'
      BY <1>0, <2>2, <2>3, BytesAssumption DEF ThreadTypeOK
    <2> QED BY <2>2, <2>3, <2>4 DEF NothingYet
  <1>2. ASSUME StartMatch PROVE Goal
    <2>1. PICK seen \in {"all", "some", "none"}, ok \in BOOLEAN :
             MatchRom(seen, ok) /\ stale' = (stale \/ ~ok)
      BY <1>2 DEF StartMatch
    <2>2. BusTypeOK' /\ stale' \in BOOLEAN
      BY <2>1, CallsTyped
    <2>3. /\ pc = "match1" /\ pc' = "convert"
          /\ UNCHANGED <<k, cnt, dsBuf, temp, state, failed, stored>>
      BY <1>2 DEF StartMatch, At
    <2>4. ThreadTypeOK'
      BY <1>0, <2>2, <2>3 DEF ThreadTypeOK
    <2> QED BY <2>2, <2>3, <2>4 DEF NothingYet
  <1>3. ASSUME StartConvert PROVE Goal
    <2>1. PICK heard, ok \in BOOLEAN : Convert(heard, ok) /\ stale' = (stale \/ ~ok)
      BY <1>3 DEF StartConvert
    <2>2. BusTypeOK' /\ stale' \in BOOLEAN
      BY <2>1, CallsTyped
    <2>3. /\ pc = "convert" /\ pc' = "wait"
          /\ UNCHANGED <<k, cnt, dsBuf, temp, state, failed, stored>>
      BY <1>3 DEF StartConvert, At
    <2>4. ThreadTypeOK'
      BY <1>0, <2>2, <2>3 DEF ThreadTypeOK
    <2> QED BY <2>2, <2>3, <2>4 DEF NothingYet
  <1>4. ASSUME ReadReset PROVE Goal
    <2>1. PICK heard, ok \in BOOLEAN :
             OWreset(heard, ok) /\ failed' = IF ok THEN {} ELSE {"reset"}
      BY <1>4 DEF ReadReset
    <2>2. BusTypeOK'
      BY <2>1, CallsTyped
    <2>3. /\ pc = "wait" /\ pc' = "match2" /\ failed' \subseteq {"reset"}
          /\ UNCHANGED <<k, cnt, dsBuf, temp, state, stale, stored>>
      BY <1>4, <2>1 DEF ReadReset, At
    <2>4. ThreadTypeOK'
      BY <1>0, <2>3 DEF ThreadTypeOK
    <2> QED BY <2>2, <2>3, <2>4 DEF NothingYet
  <1>5. ASSUME ReadMatch PROVE Goal
    <2>1. PICK seen \in {"all", "some", "none"}, ok \in BOOLEAN :
             MatchRom(seen, ok) /\ failed' = IF ok THEN failed ELSE failed \cup {"match"}
      BY <1>5 DEF ReadMatch
    <2>2. BusTypeOK'
      BY <2>1, CallsTyped
    <2>3. /\ pc = "match2" /\ pc' = "command" /\ failed' \subseteq failed \cup {"match"}
          /\ UNCHANGED <<k, cnt, dsBuf, temp, state, stale, stored>>
      BY <1>5, <2>1 DEF ReadMatch, At
    <2>4. ThreadTypeOK'
      BY <1>0, <2>3 DEF ThreadTypeOK
    <2> QED BY <2>2, <2>3, <2>4 DEF NothingYet
  <1>6. ASSUME ReadCommand PROVE Goal
    <2>1. PICK heard, ok \in BOOLEAN :
             ReadScratchpad(heard, ok) /\ failed' = IF ok THEN failed ELSE failed \cup {"command"}
      BY <1>6 DEF ReadCommand
    <2>2. BusTypeOK'
      BY <2>1, CallsTyped
    <2>3. /\ pc = "command" /\ pc' = "read" /\ cnt' = 0 /\ failed' \subseteq failed \cup {"command"}
          /\ UNCHANGED <<k, dsBuf, temp, state, stale, stored>>
      BY <1>6, <2>1 DEF ReadCommand, At
    <2>4. ThreadTypeOK'
      BY <1>0, <2>3 DEF ThreadTypeOK
    <2> QED BY <1>0, <2>2, <2>3, <2>4 DEF NothingYet
  <1>7. ASSUME ReadByte PROVE Goal
    <2>1. PICK heard, ok \in BOOLEAN :
             /\ OWReadByte(heard, ok)
             /\ failed' = IF ok THEN failed ELSE failed \cup {"byte"}
             /\ stored' = IF ok THEN stored \cup {cnt} ELSE stored
      BY <1>7 DEF ReadByte
    <2>2. BusTypeOK' /\ dsBuf' \in [Cells -> Byte]
      BY <2>1, CallsTyped
    <2>3. /\ pc = "read" /\ failed' \subseteq failed \cup {"byte"}
          /\ stored' \subseteq stored \cup {cnt}
          /\ UNCHANGED <<k, temp, state, stale>>
      BY <1>7, <2>1 DEF ReadByte
    <2>4. stored \subseteq Cells /\ cnt \in Cells /\ cnt \in 0 .. BYTES - 1
      BY <1>0 DEF ThreadTypeOK, Cells
    <2>5. \/ cnt = BYTES - 1 /\ pc' = "check" /\ cnt' = cnt
          \/ cnt # BYTES - 1 /\ cnt' = cnt + 1 /\ pc' = "read"
      BY <1>7 DEF ReadByte, LastByte
    <2>6. cnt' \in Cells /\ stored' \subseteq Cells
      <3>1. stored' \subseteq Cells
        BY <2>3, <2>4
      <3>2. cnt' \in Cells
        BY <2>4, <2>5, BytesAssumption DEF Cells
      <3> QED BY <3>1, <3>2
    <2>7. ThreadTypeOK'
      BY <1>0, <2>2, <2>3, <2>5, <2>6 DEF ThreadTypeOK
    <2> QED BY <2>2, <2>5, <2>6, <2>7 DEF NothingYet
  <1>8. ASSUME Check PROVE Goal
    <2>1. /\ pc' = "reset1" /\ k' = (k + 1) % N
          /\ UNCHANGED <<cnt, dsBuf, stale, failed, stored, busVars>>
      BY <1>8 DEF Check, At
    <2>2. BusTypeOK'
      BY <1>0, <2>1 DEF BusTypeOK, busVars
    <2>3. k' \in Sensors
      BY <1>0, <2>1, BusNAssumption DEF ThreadTypeOK, Sensors
    <2>4. temp' \in [Sensors -> Reading]
      <3>1. ASSUME Accepted PROVE [s |-> dsBuf[0].s, n |-> dsBuf[0].n] \in Reading
        <4>1. dsBuf[0] \in Byte /\ dsBuf[0].s # NOBODY
          BY <1>0, <3>1 DEF Accepted, CrcRight, ThreadTypeOK
        <4> QED BY <4>1 DEF Byte, Reading
      <3> QED BY <1>0, <1>8, <3>1 DEF Check, ThreadTypeOK
    <2>5. state' \in [Sensors -> {"none", "OK", "KO"}]
      BY <1>0, <1>8 DEF Check, ThreadTypeOK
    <2>6. ThreadTypeOK'
      BY <1>0, <2>1, <2>3, <2>4, <2>5 DEF ThreadTypeOK
    <2> QED BY <2>1, <2>2, <2>6 DEF NothingYet
  <1>9. ASSUME NEW s \in Sensors, PowerLost(s) PROVE Goal
    <2>1. UNCHANGED <<pc, k, cnt, dsBuf, temp, state, stale, failed, stored>>
      BY <1>9 DEF PowerLost
    <2>2. glitches' \in 0 .. MaxGlitches
      BY <1>0, <1>9, GlitchesAssumption DEF PowerLost, BusTypeOK
    <2>3. /\ slave' \in [Sensors -> {"deaf", "ready", "selected", "sending"}]
          /\ conv' \in [Sensors -> Conversions \cup {POWER_ON}]
      BY <1>0, <1>9 DEF PowerLost, BusTypeOK
    <2>4. calm' \in 0 .. 3 /\ UNCHANGED <<held, sent>>
      BY <1>9 DEF PowerLost
    <2>5. BusTypeOK'
      BY <1>0, <2>2, <2>3, <2>4 DEF BusTypeOK
    <2>6. ThreadTypeOK' /\ NothingYet'
      BY <1>0, <2>1 DEF ThreadTypeOK, NothingYet
    <2> QED BY <2>5, <2>6
  <1>10. ASSUME DS18B20Code PROVE Goal
    <2>1. UNCHANGED <<pc, k, cnt, dsBuf, temp, state, stale, failed, stored>>
      BY <1>10 DEF DS18B20Code
    <2>2. slave' \in [Sensors -> {"deaf", "ready", "selected", "sending"}]
      BY <1>0, <1>10 DEF DS18B20Code, BusTypeOK
    <2>3. held' \in BOOLEAN /\ UNCHANGED <<conv, sent, glitches, calm>>
      BY <1>10 DEF DS18B20Code
    <2>4. BusTypeOK'
      BY <1>0, <2>2, <2>3 DEF BusTypeOK
    <2>5. ThreadTypeOK' /\ NothingYet'
      BY <1>0, <2>1 DEF ThreadTypeOK, NothingYet
    <2> QED BY <2>4, <2>5
  <1>11. ASSUME UNCHANGED vars PROVE Goal
    BY <1>0, <1>11 DEF vars, ThreadTypeOK, BusTypeOK, NothingYet
  <1> HIDE DEF Goal
  <1>12. Goal
    BY <1>1, <1>2, <1>3, <1>4, <1>5, <1>6, <1>7, <1>8, <1>9, <1>10, <1>11
    DEF Next, ptReadTemp
  <1> QED BY <1>12 DEF Goal, TypeOK, ThreadTypeOK, BusTypeOK

(* At the start every variable has its type.                               *)
LEMMA OInitTyped == Init => TypeOK /\ NothingYet
  <1> SUFFICES ASSUME Init PROVE TypeOK /\ NothingYet OBVIOUS
  <1>1. /\ pc = "reset1" /\ k = 0 /\ cnt = 0 /\ failed = {} /\ stored = {}
        /\ dsBuf = [i \in Cells |-> [s |-> CLEARED, n |-> POWER_ON, p |-> i]]
        /\ temp = [s \in Sensors |-> [s |-> CLEARED, n |-> POWER_ON]]
        /\ state = [s \in Sensors |-> "none"]
    BY DEF Init
  <1>2. stale \in BOOLEAN /\ held \in BOOLEAN
    BY DEF Init
  <1>3. k \in Sensors /\ cnt \in Cells
    BY <1>1, BusNAssumption, BytesAssumption DEF Sensors, Cells
  <1>4. dsBuf \in [Cells -> Byte] /\ temp \in [Sensors -> Reading]
    BY <1>1 DEF Byte, Reading
  <1>5. ThreadTypeOK
    BY <1>1, <1>2, <1>3, <1>4, BytesAssumption DEF ThreadTypeOK
  <1>6. /\ slave = [s \in Sensors |-> "deaf"] /\ conv = [s \in Sensors |-> POWER_ON]
        /\ sent = [s \in Sensors |-> 0] /\ glitches = 0 /\ calm = 2
    BY DEF Init
  <1>7. BusTypeOK
    BY <1>2, <1>6, BytesAssumption, GlitchesAssumption DEF BusTypeOK
  <1> QED BY <1>1, <1>5, <1>7, TypeParts DEF NothingYet

(* The thread, the bus and the sensors keep their types, whatever calls    *)
(* fail: the index of a byte stays within the buffer.                      *)
THEOREM OneWireTyped == Spec => []TypeOK
  <1> QED BY OInitTyped, TypesPreserved, PTL DEF Spec
-----------------------------------------------------------------------------
(* What passes the check sum and the test for 85 degrees has all the bytes *)
(* that tell scratchpads apart from one, which a conversion has filled, or *)
(* from what the buffer held since the boot.                               *)
LEMMA AcceptedIsWhole ==
    ASSUME TypeOK, Accepted
    PROVE  /\ \A i \in Telling : dsBuf[i].s = dsBuf[0].s /\ dsBuf[i].n = dsBuf[0].n
           /\ dsBuf[0].s # NOBODY
           /\ dsBuf[0].s = CLEARED \/ dsBuf[0].n # POWER_ON
  <1>1. /\ dsBuf[0].s # NOBODY
        /\ \A i \in Cells : SameValue(dsBuf[i], [dsBuf[0] EXCEPT !.p = i])
    BY DEF Accepted, CrcRight
  <1>2. /\ 0 \in Cells /\ 1 \in Cells /\ \A i \in Cells : dsBuf[i] \in Byte
    BY BytesAssumption DEF TypeOK, Cells
  <1>3. ASSUME NEW i \in Telling PROVE dsBuf[i] = [dsBuf[0] EXCEPT !.p = i]
    <2>1. i \in Cells
      BY TellingAssumption
    <2>2. [dsBuf[0] EXCEPT !.p = i].p = i
      BY <1>2 DEF Byte
    <2> QED BY <1>1, <2>1, <2>2 DEF SameValue
  <1>4. \A i \in Telling : dsBuf[i].s = dsBuf[0].s /\ dsBuf[i].n = dsBuf[0].n
    BY <1>2, <1>3 DEF Byte
  <1>5. ASSUME dsBuf[0].s \in Sensors, dsBuf[0].n = POWER_ON PROVE Is85
    <2>1. ASSUME NEW i \in 0 .. 1
          PROVE  SameValue(dsBuf[i], [s |-> dsBuf[0].s, n |-> POWER_ON, p |-> i])
      <3>1. [dsBuf[0] EXCEPT !.p = i] = [s |-> dsBuf[0].s, n |-> POWER_ON, p |-> i]
        BY <1>2, <1>5 DEF Byte
      <3>2. i \in Cells
        BY <2>1, BytesAssumption DEF Cells
      <3> QED BY <1>1, <3>1, <3>2
    <2> QED BY <1>5, <2>1 DEF Is85
  <1>6. dsBuf[0].s \in Sensors \cup {CLEARED, NOBODY}
    BY <1>2 DEF Byte
  <1>7. ~Is85
    BY DEF Accepted
  <1> QED BY <1>1, <1>4, <1>5, <1>6, <1>7

(* No85, for every step: only Check declares a reading good.               *)
LEMMA No85Preserved ==
    ASSUME TypeOK, No85, [Next]_vars PROVE No85'
  <1>1. CASE Check
    <2>1. k \in Sensors /\ temp \in [Sensors -> Reading]
          /\ state \in [Sensors -> {"none", "OK", "KO"}]
      BY DEF TypeOK
    <2>2. CASE Accepted
      <3>1. /\ temp' = [temp EXCEPT ![k] = [s |-> dsBuf[0].s, n |-> dsBuf[0].n]]
            /\ state' = [state EXCEPT ![k] = "OK"]
        BY <1>1, <2>2 DEF Check
      <3>2. dsBuf[0].s = CLEARED \/ dsBuf[0].n # POWER_ON
        BY <2>2, AcceptedIsWhole
      <3> QED BY <2>1, <3>1, <3>2 DEF No85
    <2>3. CASE ~Accepted
      <3>1. temp' = temp /\ state' = [state EXCEPT ![k] = "KO"]
        BY <1>1, <2>3 DEF Check
      <3> QED BY <2>1, <3>1 DEF No85
    <2> QED BY <2>2, <2>3
  <1>2. CASE ~Check
    <2>1. temp' = temp /\ state' = state
      BY <1>2 DEF Next, ptReadTemp, StartReset, StartMatch, StartConvert, ReadReset, ReadMatch,
                  ReadCommand, ReadByte, PowerLost, DS18B20Code, vars
    <2> QED BY <2>1 DEF No85
  <1> QED BY <1>1, <1>2

(* The 85 degrees of a sensor that has lost its supply never become a      *)
(* temperature, at whatever point of the reading the supply was lost.      *)
THEOREM NeverEightyFive == Spec => []No85
  <1>1. Init => No85
    BY DEF Init, No85
  <1> QED BY <1>1, OInitTyped, TypesPreserved, No85Preserved, PTL DEF Spec
-----------------------------------------------------------------------------
\* Where ptReadTemp is between the reset before the reading and the check.
ReadingHalf == {"match2", "command", "read", "check"}

(* When the reset and the address of the reading half went through, no     *)
(* other sensor on its wire can answer.                                    *)
Selected ==
    pc \in ReadingHalf /\ failed \cap {"reset", "match"} = {} =>
        \A s \in Sensors : OnWire(s) =>
            /\ pc = "match2" => slave[s] \in {"ready", "deaf"}
            /\ pc = "command" => slave[s] \in {"selected", "deaf"}
            /\ pc # "match2" /\ s # k => slave[s] = "deaf"

(* As long as no call of the conversion half failed, the sensor is on its  *)
(* way to a new conversion, or it has lost its supply.                     *)
Renewed ==
    ~stale =>
        /\ pc = "match1" => slave[k] = "ready" \/ conv[k] = POWER_ON
        /\ pc = "convert" => slave[k] = "selected" \/ conv[k] = POWER_ON
        /\ pc \in ReadingHalf \cup {"wait"} => conv[k] = POWER_ON \/ conv[k] # temp[k].n

(* Each byte that was stored is of the sensor's own new scratchpad, or a   *)
(* silent bus.                                                             *)
OwnByte(b) ==
    /\ b.s \in {k, NOBODY}
    /\ b.s = k => b.n = POWER_ON \/ stale \/ b.n # temp[k].n

OwnStored ==
    pc \in {"read", "check"} /\ failed \cap {"reset", "match"} = {} =>
        \A i \in stored : OwnByte(dsBuf[i])


(* What a call that returned without an error has done.                    *)
LEMMA GoodCalls ==
    ASSUME TypeOK, NEW heard \in BOOLEAN
    PROVE  /\ OWreset(heard, TRUE) => \A s \in Sensors : OnWire(s) => slave'[s] = "ready"
           /\ \A seen \in {"all", "some", "none"} : MatchRom(seen, TRUE) =>
                \A s \in Sensors : OnWire(s) =>
                   slave'[s] = IF s = k /\ slave[s] = "ready" THEN "selected" ELSE "deaf"
           /\ Convert(heard, TRUE) =>
                conv'[k] = IF slave[k] = "selected" THEN Fresh(k) ELSE conv[k]
  <1>0. held \in BOOLEAN /\ glitches \in 0 .. MaxGlitches /\ k \in Sensors
    BY DEF TypeOK
  <1>1. ASSUME OWreset(heard, TRUE), NEW s \in Sensors, OnWire(s) PROVE slave'[s] = "ready"
    <2>1. heard = TRUE
      BY <1>0, <1>1, CallFacts DEF OWreset
    <2>2. slave' = [t \in Sensors |-> IF heard /\ OnWire(t) THEN "ready" ELSE slave[t]]
      BY <1>1 DEF OWreset
    <2> QED BY <1>1, <2>1, <2>2
  <1>2. ASSUME NEW seen \in {"all", "some", "none"}, MatchRom(seen, TRUE),
               NEW s \in Sensors, OnWire(s)
        PROVE  slave'[s] = IF s = k /\ slave[s] = "ready" THEN "selected" ELSE "deaf"
    <2>1. seen = "all"
      BY <1>2 DEF MatchRom
    <2>2. slave' = [t \in Sensors |->
                     IF seen = "none" \/ ~OnWire(t) THEN slave[t]
                     ELSE IF seen = "all" /\ t = k /\ slave[t] = "ready" THEN "selected"
                     ELSE "deaf"]
      BY <1>2 DEF MatchRom
    <2> QED BY <1>2, <2>1, <2>2
  <1>3. ASSUME Convert(heard, TRUE)
        PROVE  conv'[k] = IF slave[k] = "selected" THEN Fresh(k) ELSE conv[k]
    <2>1. heard = TRUE
      BY <1>0, <1>3, CallFacts DEF Convert
    <2>2. conv' = [t \in Sensors |->
                    IF heard /\ OnWire(t) /\ slave[t] = "selected" THEN Fresh(t) ELSE conv[t]]
      BY <1>3 DEF Convert
    <2>3. OnWire(k)
      BY DEF OnWire
    <2> QED BY <1>0, <2>1, <2>2, <2>3
  <1> QED BY <1>1, <1>2, <1>3

(* A sensor that is deaf stays so until the next reset.                    *)
LEMMA DeafStayDeaf ==
    ASSUME NEW heard \in BOOLEAN, NEW ok \in BOOLEAN,
           ReadScratchpad(heard, ok) \/ OWReadByte(heard, ok),
           NEW s \in Sensors, slave[s] = "deaf"
    PROVE  slave'[s] = "deaf"
  BY DEF ReadScratchpad, OWReadByte

(* Selected, for every step.                                               *)
LEMMA SelectedPreserved ==
    ASSUME TypeOK, Selected, [Next]_vars PROVE Selected'
  <1>0. k \in Sensors
    BY DEF TypeOK
  <1>1. CASE ReadReset
    <2>1. PICK heard, ok \in BOOLEAN :
             OWreset(heard, ok) /\ failed' = IF ok THEN {} ELSE {"reset"}
      BY <1>1 DEF ReadReset
    <2>2. pc' = "match2" /\ k' = k
      BY <1>1 DEF ReadReset, At
    <2>3. CASE ok = TRUE
      <3>1. \A s \in Sensors : OnWire(s) => slave'[s] = "ready"
        BY <2>1, <2>3, GoodCalls
      <3> QED BY <2>2, <3>1 DEF Selected, OnWire
    <2>4. CASE ok = FALSE
      BY <2>1, <2>4 DEF Selected
    <2> QED BY <2>3, <2>4
  <1>2. CASE ReadMatch
    <2>1. PICK seen \in {"all", "some", "none"}, ok \in BOOLEAN :
             MatchRom(seen, ok) /\ failed' = IF ok THEN failed ELSE failed \cup {"match"}
      BY <1>2 DEF ReadMatch
    <2>2. pc' = "command" /\ k' = k
      BY <1>2 DEF ReadMatch, At
    <2>3. CASE ok = TRUE
      <3>1. \A s \in Sensors : OnWire(s) =>
               slave'[s] = IF s = k /\ slave[s] = "ready" THEN "selected" ELSE "deaf"
        BY <2>1, <2>3, GoodCalls
      <3> QED BY <2>2, <3>1 DEF Selected, OnWire
    <2>4. CASE ok = FALSE
      BY <2>1, <2>4 DEF Selected
    <2> QED BY <2>3, <2>4
  <1>3. ASSUME ReadCommand \/ ReadByte PROVE Selected'
    <2>1. PICK heard, ok \in BOOLEAN : ReadScratchpad(heard, ok) \/ OWReadByte(heard, ok)
      BY <1>3 DEF ReadCommand, ReadByte
    <2>2. /\ pc \in {"command", "read"} /\ pc' \in {"read", "check"} /\ k' = k
          /\ failed \subseteq failed'
      BY <1>3 DEF ReadCommand, ReadByte, At
    <2>3. ASSUME failed' \cap {"reset", "match"} = {}, NEW s \in Sensors, OnWire(s), s # k
          PROVE  slave'[s] = "deaf"
      <3>1. slave[s] = "deaf"
        BY <2>2, <2>3 DEF Selected, ReadingHalf
      <3> QED BY <2>1, <3>1, DeafStayDeaf
    <2> QED BY <2>2, <2>3 DEF Selected, OnWire
  <1>4. ASSUME StartReset \/ StartMatch \/ StartConvert \/ Check \/ DS18B20Code
        PROVE  Selected'
    <2>1. pc' \notin ReadingHalf
      BY <1>4
      DEF StartReset, StartMatch, StartConvert, Check, DS18B20Code, At, ReadingHalf
    <2> QED BY <2>1 DEF Selected, ReadingHalf
  <1>5. ASSUME NEW t \in Sensors, PowerLost(t) PROVE Selected'
    <2>1. /\ UNCHANGED <<pc, k, failed>>
          /\ \A s \in Sensors : slave'[s] = slave[s] \/ slave'[s] = "deaf"
      BY <1>5 DEF PowerLost, TypeOK
    <2> QED BY <2>1 DEF Selected, OnWire, ReadingHalf
  <1>6. CASE UNCHANGED vars
    BY <1>6 DEF vars, Selected, OnWire, ReadingHalf
  <1> QED BY <1>1, <1>2, <1>3, <1>4, <1>5, <1>6 DEF Next, ptReadTemp

(* Renewed, for every step: a conversion is told from the temperature of   *)
(* the reading before by its number.                                       *)
LEMMA RenewedPreserved ==
    ASSUME TypeOK, Renewed, [Next]_vars PROVE Renewed'
  <1>0. /\ k \in Sensors /\ OnWire(k) /\ stale \in BOOLEAN
        /\ slave \in [Sensors -> {"deaf", "ready", "selected", "sending"}]
        /\ conv \in [Sensors -> Conversions \cup {POWER_ON}]
    BY DEF TypeOK, OnWire
  <1>1. CASE StartReset
    <2>1. PICK heard, ok \in BOOLEAN : OWreset(heard, ok) /\ stale' = ~ok
      BY <1>1 DEF StartReset
    <2>2. pc' = "match1" /\ k' = k
      BY <1>1 DEF StartReset, At
    <2>3. CASE ok = TRUE
      <3>1. slave'[k] = "ready"
        BY <1>0, <2>1, <2>3, GoodCalls
      <3> QED BY <2>2, <3>1 DEF Renewed, ReadingHalf
    <2>4. CASE ok = FALSE
      BY <2>1, <2>4 DEF Renewed
    <2> QED BY <2>3, <2>4
  <1>2. CASE StartMatch
    <2>1. PICK seen \in {"all", "some", "none"}, ok \in BOOLEAN :
             MatchRom(seen, ok) /\ stale' = (stale \/ ~ok)
      BY <1>2 DEF StartMatch
    <2>2. pc = "match1" /\ pc' = "convert" /\ k' = k /\ conv' = conv
      BY <1>2, <2>1 DEF StartMatch, At, MatchRom
    <2>3. CASE ok = TRUE /\ ~stale
      <3>1. slave'[k] = IF slave[k] = "ready" THEN "selected" ELSE "deaf"
        BY <1>0, <2>1, <2>3, GoodCalls
      <3> QED BY <2>2, <2>3, <3>1 DEF Renewed, ReadingHalf
    <2>4. CASE ok = FALSE \/ stale
      BY <2>1, <2>4 DEF Renewed
    <2> QED BY <2>3, <2>4
  <1>3. CASE StartConvert
    <2>1. PICK heard, ok \in BOOLEAN : Convert(heard, ok) /\ stale' = (stale \/ ~ok)
      BY <1>3 DEF StartConvert
    <2>2. pc = "convert" /\ pc' = "wait" /\ k' = k /\ temp' = temp
      BY <1>3 DEF StartConvert, At
    <2>3. CASE ok = TRUE /\ ~stale
      <3>1. conv'[k] = IF slave[k] = "selected" THEN Fresh(k) ELSE conv[k]
        BY <2>1, <2>3, GoodCalls
      <3>2. slave[k] = "selected" \/ conv[k] = POWER_ON
        BY <2>2, <2>3 DEF Renewed
      <3>3. Fresh(k) # temp[k].n
        BY <1>0, FreshExists
      <3> QED BY <2>2, <3>1, <3>2, <3>3 DEF Renewed
    <2>4. CASE ok = FALSE \/ stale
      BY <2>1, <2>4 DEF Renewed
    <2> QED BY <2>3, <2>4
  <1>4. ASSUME ReadReset \/ ReadMatch \/ ReadCommand \/ ReadByte \/ DS18B20Code
        PROVE  Renewed'
    <2>1. UNCHANGED <<k, temp, stale>>
      BY <1>4 DEF ReadReset, ReadMatch, ReadCommand, ReadByte, DS18B20Code
    <2>2. conv' = conv
      BY <1>4 DEF ReadReset, ReadMatch, ReadCommand, ReadByte, DS18B20Code,
                  OWreset, MatchRom, ReadScratchpad, OWReadByte
    <2>3. /\ pc \in ReadingHalf \cup {"wait"} /\ pc' \in ReadingHalf \cup {"wait"}
      BY <1>4 DEF ReadReset, ReadMatch, ReadCommand, ReadByte, DS18B20Code, At, ReadingHalf
    <2> QED BY <2>1, <2>2, <2>3 DEF Renewed, ReadingHalf
  <1>5. CASE Check
    BY <1>5 DEF Check, At, Renewed, ReadingHalf
  <1>6. ASSUME NEW t \in Sensors, PowerLost(t) PROVE Renewed'
    <2>1. /\ UNCHANGED <<pc, k, temp, stale>>
          /\ slave' = [slave EXCEPT ![t] = "deaf"] /\ conv' = [conv EXCEPT ![t] = POWER_ON]
      BY <1>6 DEF PowerLost
    <2>2. conv'[k] = POWER_ON \/ (conv'[k] = conv[k] /\ slave'[k] = slave[k])
      BY <1>0, <2>1
    <2> QED BY <2>1, <2>2 DEF Renewed, ReadingHalf
  <1>7. CASE UNCHANGED vars
    BY <1>7 DEF vars, Renewed, ReadingHalf
  <1> QED BY <1>1, <1>2, <1>3, <1>4, <1>5, <1>6, <1>7 DEF Next, ptReadTemp

(* What a reading stores, for every step.                                  *)
LEMMA OwnStoredPreserved ==
    ASSUME TypeOK, NothingYet, Selected, Renewed, OwnStored, [Next]_vars PROVE OwnStored'
  <1>0. k \in Sensors /\ cnt \in Cells /\ dsBuf \in [Cells -> Byte] /\ stored \subseteq Cells
    BY DEF TypeOK
  <1>1. CASE ReadByte
    <2>1. PICK heard, ok \in BOOLEAN :
             /\ OWReadByte(heard, ok)
             /\ failed' = IF ok THEN failed ELSE failed \cup {"byte"}
             /\ stored' = IF ok THEN stored \cup {cnt} ELSE stored
      BY <1>1 DEF ReadByte
    <2>2. pc = "read" /\ pc' \in {"read", "check"} /\ UNCHANGED <<k, temp, stale>>
      BY <1>1 DEF ReadByte
    <2>3. SUFFICES ASSUME failed' \cap {"reset", "match"} = {}, NEW i \in stored'
                   PROVE  OwnByte(dsBuf[i])'
      BY DEF OwnStored
    <2>4. failed \cap {"reset", "match"} = {}
      BY <2>1, <2>3
    <2>5. CASE ok = TRUE /\ i = cnt
      <3>1. dsBuf'[cnt] = OnTheWire
        BY <1>0, <2>1, <2>5 DEF OWReadByte, dsBufAfter
      <3>2. \A s \in Senders : s = k
        BY <2>2, <2>4 DEF Selected, Senders, ReadingHalf
      <3>3. OnTheWire.s \in {k, NOBODY} /\ (OnTheWire.s = k => OnTheWire.n = conv[k])
        <4>1. CASE Senders = {}
          <5>1. OnTheWire.s = NOBODY
            BY <4>1 DEF OnTheWire
          <5>2. NOBODY # k
            BY <1>0 DEF NOBODY, Sensors
          <5> QED BY <5>1, <5>2
        <4>2. CASE Senders # {}
          <5>1. (CHOOSE s \in Senders : TRUE) = k
            BY <3>2, <4>2
          <5>2. OnTheWire = [s |-> k, n |-> conv[k], p |-> sent[k]]
            BY <4>2, <5>1 DEF OnTheWire
          <5> QED BY <5>2
        <4> QED BY <4>1, <4>2
      <3>4. stale \/ conv[k] = POWER_ON \/ conv[k] # temp[k].n
        BY <2>2 DEF Renewed, ReadingHalf
      <3>5. /\ dsBuf'[i].s \in {k', NOBODY}
            /\ dsBuf'[i].s = k' => dsBuf'[i].n = POWER_ON \/ stale' \/ dsBuf'[i].n # temp'[k'].n
        BY <2>2, <2>5, <3>1, <3>3, <3>4
      <3> QED BY <3>5 DEF OwnByte
    <2>6. CASE ok = FALSE \/ i # cnt
      <3>1. i \in stored
        BY <2>1, <2>3, <2>6
      <3>2. i \in Cells /\ dsBuf'[i] = dsBuf[i]
        <4>1. i \in Cells
          BY <1>0, <3>1
        <4>2. dsBuf' = IF ok THEN [dsBuf EXCEPT ![cnt] = OnTheWire] ELSE dsBuf
          BY <2>1 DEF OWReadByte, dsBufAfter
        <4> QED BY <1>0, <2>6, <4>1, <4>2
      <3>3. OwnByte(dsBuf[i])
        BY <2>2, <2>4, <3>1 DEF OwnStored
      <3> QED BY <2>2, <3>2, <3>3 DEF OwnByte
    <2> QED BY <2>5, <2>6
  <1>2. ASSUME StartReset \/ StartMatch \/ StartConvert \/ ReadReset \/ ReadMatch \/ Check
        PROVE  OwnStored'
    <2>1. pc' \notin {"read", "check"}
      BY <1>2 DEF StartReset, StartMatch, StartConvert, ReadReset, ReadMatch, Check, At
    <2> QED BY <2>1 DEF OwnStored
  <1>3. CASE ReadCommand
    <2>1. stored' = {}
      BY <1>3 DEF ReadCommand, At, NothingYet
    <2> QED BY <2>1 DEF OwnStored
  <1>4. ASSUME DS18B20Code \/ (\E s \in Sensors : PowerLost(s)) \/ UNCHANGED vars
        PROVE  OwnStored'
    <2>1. UNCHANGED <<pc, k, dsBuf, temp, stale, failed, stored>>
      BY <1>4 DEF DS18B20Code, PowerLost, vars
    <2> QED BY <2>1 DEF OwnStored, OwnByte
  <1> QED BY <1>1, <1>2, <1>3, <1>4 DEF Next, ptReadTemp

(* A telling byte that was read is the sensor's own and new, and with the  *)
(* check sum right it speaks for the others.                               *)
LEMMA OwnReading ==
    ASSUME TypeOK, OwnStored PROVE OwnUnlessUnread
  <1> SUFFICES ASSUME pc = "check", Accepted, failed \cap {"reset", "match"} = {},
                      stored \cap Telling # {}
               PROVE  dsBuf[0].s = k /\ (stale \/ dsBuf[0].n # temp[k].n)
    BY DEF OwnUnlessUnread
  <1>1. PICK i \in Telling : OwnByte(dsBuf[i])
    BY DEF OwnStored
  <1>2. /\ dsBuf[i].s = dsBuf[0].s /\ dsBuf[i].n = dsBuf[0].n /\ dsBuf[0].s # NOBODY
        /\ dsBuf[0].s = CLEARED \/ dsBuf[0].n # POWER_ON
    BY AcceptedIsWhole
  <1>3. k # CLEARED
    BY BusNAssumption DEF TypeOK, Sensors, CLEARED
  <1>4. dsBuf[0].s = k /\ (stale \/ dsBuf[0].n # temp[k].n)
    BY <1>1, <1>2, <1>3 DEF OwnByte
  <1> QED BY <1>4

(* What is taken for a temperature of a sensor is its own scratchpad, and  *)
(* the new one unless the conversion had failed, except where the reset or *)
(* the address of the reading half returned an error or no byte that tells *)
(* scratchpads apart was read: wherever scratchpads differ, and whatever   *)
(* else fails.                                                             *)
THEOREM ReadingsAreTheSensors == Spec => []OwnUnlessUnread
  <1>1. Init => Selected /\ Renewed /\ OwnStored
    BY DEF Init, Selected, Renewed, OwnStored, ReadingHalf
  <1> QED BY <1>1, OInitTyped, TypesPreserved, SelectedPreserved, RenewedPreserved,
             OwnStoredPreserved, OwnReading, PTL DEF Spec
-----------------------------------------------------------------------------
(* Once two resets have been answered without a failure, the conversion    *)
(* half brings the sensor to a new conversion; the address selects it.     *)
StartsWell ==
    /\ pc = "match1" => slave[k] = "ready"
    /\ pc = "convert" => slave[k] = "selected"
    /\ pc = "wait" => conv[k] # POWER_ON

(* The reading half after that brings the bytes of its scratchpad, each to *)
(* its place, while the other sensors of the bridge are deaf.              *)
ReadsWell ==
    /\ conv[k] # POWER_ON
    /\ pc = "match2" => slave[k] = "ready"
    /\ pc = "command" => slave[k] = "selected"
    /\ pc # "match2" => \A s \in Sensors : OnWire(s) /\ s # k => slave[s] = "deaf"
    /\ pc = "read" =>
         /\ slave[k] = "sending" /\ sent[k] = cnt
         /\ \A i \in Cells : i < cnt => dsBuf[i] = [s |-> k, n |-> conv[k], p |-> i]
    /\ pc = "check" => \A i \in Cells : dsBuf[i] = [s |-> k, n |-> conv[k], p |-> i]

(* No failure since the last reset leaves the bus free.                    *)
Quiet ==
    /\ calm >= 1 => ~held
    /\ calm >= 2 => StartsWell
    /\ calm = 3 /\ pc \in ReadingHalf => ReadsWell

(* Without a failure, a call on a free bus is heard and returns no error.  *)
LEMMA CalmCall ==
    ASSUME held \in BOOLEAN, glitches \in 0 .. MaxGlitches,
           NEW heard \in BOOLEAN, NEW ok \in BOOLEAN, NEW after \in BOOLEAN,
           Call(heard, ok, after), glitches' = glitches, ~held
    PROVE  heard = TRUE /\ ok = TRUE
  <1>1. glitches' = glitches /\ ~held => heard /\ ok /\ ~held'
    BY CallFacts
  <1> QED BY <1>1

(* The bus is free in the calm, for every step.                            *)
LEMMA FreePreserved ==
    ASSUME TypeOK, calm >= 1 => ~held, [Next]_vars PROVE calm' >= 1 => ~held'
  <1>0. held \in BOOLEAN /\ glitches \in 0 .. MaxGlitches /\ calm \in 0 .. 3
    BY DEF TypeOK
  <1>1. ASSUME NEW heard \in BOOLEAN, NEW ok \in BOOLEAN, OWreset(heard, ok), calm' >= 1
        PROVE  ~held'
    <2>1. glitches' = glitches
      BY <1>1 DEF OWreset, Calm
    <2> QED BY <1>0, <1>1, <2>1, CallFacts DEF OWreset
  <1>2. ASSUME NEW heard \in BOOLEAN, NEW ok \in BOOLEAN,
               Call(heard, ok, TRUE), Calm(calm), calm' >= 1
        PROVE  ~held'
    <2>1. glitches' = glitches /\ calm' = calm
      BY <1>2 DEF Calm
    <2> QED BY <1>0, <1>2, <2>1, CallFacts
  <1>3. ASSUME StartReset \/ ReadReset, calm' >= 1 PROVE ~held'
    BY <1>1, <1>3 DEF StartReset, ReadReset
  <1>4. ASSUME StartMatch \/ ReadMatch, calm' >= 1 PROVE ~held'
    <2>1. PICK seen \in {"all", "some", "none"}, ok \in BOOLEAN : MatchRom(seen, ok)
      BY <1>4 DEF StartMatch, ReadMatch
    <2>2. (seen # "none") \in BOOLEAN
      OBVIOUS
    <2> QED BY <1>2, <1>4, <2>1, <2>2 DEF MatchRom
  <1>5. ASSUME StartConvert \/ ReadCommand \/ ReadByte, calm' >= 1 PROVE ~held'
    <2>1. PICK heard, ok \in BOOLEAN :
             Convert(heard, ok) \/ ReadScratchpad(heard, ok) \/ OWReadByte(heard, ok)
      BY <1>5 DEF StartConvert, ReadCommand, ReadByte
    <2> QED BY <1>2, <1>5, <2>1 DEF Convert, ReadScratchpad, OWReadByte
  <1>6. ASSUME Check \/ UNCHANGED vars, calm' >= 1 PROVE ~held'
    BY <1>6 DEF Check, busVars, vars
  <1>7. ASSUME DS18B20Code PROVE ~held'
    BY <1>7 DEF DS18B20Code
  <1>8. ASSUME NEW s \in Sensors, PowerLost(s) PROVE ~(calm' >= 1)
    BY <1>8 DEF PowerLost
  <1> QED BY <1>3, <1>4, <1>5, <1>6, <1>7, <1>8 DEF Next, ptReadTemp

(* StartsWell, for every step that leaves the calm at two resets or more.  *)
LEMMA StartsWellPreserved ==
    ASSUME TypeOK, Quiet, [Next]_vars, calm' >= 2 PROVE StartsWell'
  <1>0. /\ held \in BOOLEAN /\ glitches \in 0 .. MaxGlitches /\ calm \in 0 .. 3
        /\ k \in Sensors /\ OnWire(k)
        /\ calm >= 1 => ~held
        /\ calm >= 2 => StartsWell
    BY DEF TypeOK, OnWire, Quiet
  <1>1. CASE StartReset
    <2>1. PICK heard, ok \in BOOLEAN : OWreset(heard, ok)
      BY <1>1 DEF StartReset
    <2>2. calm >= 1 /\ glitches' = glitches /\ ~held
      BY <1>0, <2>1 DEF OWreset, Calm
    <2>3. ok = TRUE
      <3>1. Call(heard, ok, FALSE)
        BY <2>1 DEF OWreset
      <3> QED BY <1>0, <2>2, <3>1, CalmCall
    <2>4. slave'[k] = "ready"
      BY <1>0, <2>1, <2>3, GoodCalls
    <2>5. pc' = "match1" /\ k' = k
      BY <1>1 DEF StartReset, At
    <2> QED BY <2>4, <2>5 DEF StartsWell
  <1>2. CASE StartMatch
    <2>1. PICK seen \in {"all", "some", "none"}, ok \in BOOLEAN : MatchRom(seen, ok)
      BY <1>2 DEF StartMatch
    <2>2. calm >= 2 /\ pc = "match1" /\ pc' = "convert" /\ k' = k
      BY <1>0, <1>2, <2>1 DEF StartMatch, At, MatchRom, Calm
    <2>3. (seen # "none") \in BOOLEAN
      OBVIOUS
    <2>4. ok = TRUE
      <3>1. Call(seen # "none", ok, TRUE)
        BY <2>1 DEF MatchRom
      <3>2. Calm(calm)
        BY <2>1 DEF MatchRom
      <3>3. glitches' = glitches /\ ~held
        BY <1>0, <2>2, <3>2 DEF Calm
      <3> QED BY <1>0, <2>3, <3>1, <3>3, CalmCall
    <2>5. slave'[k] = "selected"
      BY <1>0, <2>1, <2>2, <2>4, GoodCalls DEF StartsWell
    <2> QED BY <2>2, <2>5 DEF StartsWell
  <1>3. CASE StartConvert
    <2>1. PICK heard, ok \in BOOLEAN : Convert(heard, ok)
      BY <1>3 DEF StartConvert
    <2>2. calm >= 2 /\ pc = "convert" /\ pc' = "wait" /\ k' = k
      BY <1>0, <1>3, <2>1 DEF StartConvert, At, Convert, Calm
    <2>3. ok = TRUE
      <3>1. Call(heard, ok, TRUE)
        BY <2>1 DEF Convert
      <3>2. Calm(calm)
        BY <2>1 DEF Convert
      <3>3. glitches' = glitches /\ ~held
        BY <1>0, <2>2, <3>2 DEF Calm
      <3> QED BY <1>0, <3>1, <3>3, CalmCall
    <2>4. conv'[k] = Fresh(k)
      BY <1>0, <2>1, <2>2, <2>3, GoodCalls DEF StartsWell
    <2>5. Fresh(k) # POWER_ON
      BY <1>0, FreshExists, ConversionsAssumption DEF POWER_ON
    <2> QED BY <2>2, <2>4, <2>5 DEF StartsWell
  <1>4. CASE DS18B20Code
    <2>1. pc = "wait" /\ UNCHANGED <<pc, k, conv, calm>>
      BY <1>4 DEF DS18B20Code
    <2> QED BY <1>0, <2>1 DEF StartsWell
  <1>5. ASSUME ReadReset \/ ReadMatch \/ ReadCommand \/ ReadByte \/ Check PROVE StartsWell'
    <2>1. pc' \notin {"match1", "convert", "wait"}
      BY <1>5 DEF ReadReset, ReadMatch, ReadCommand, ReadByte, Check, At
    <2> QED BY <2>1 DEF StartsWell
  <1>6. ASSUME NEW s \in Sensors, PowerLost(s) PROVE FALSE
    BY <1>6 DEF PowerLost
  <1>7. CASE UNCHANGED vars
    BY <1>0, <1>7 DEF vars, StartsWell
  <1> QED BY <1>1, <1>2, <1>3, <1>4, <1>5, <1>6, <1>7 DEF Next, ptReadTemp

(* A byte read in the calm is the sensor's next, in its place.             *)
LEMMA ByteReadsWell ==
    ASSUME TypeOK, ReadsWell, calm = 3, ~held, ReadByte, calm' = 3
    PROVE  ReadsWell'
  <1>0. /\ held \in BOOLEAN /\ glitches \in 0 .. MaxGlitches
        /\ k \in Sensors /\ OnWire(k) /\ cnt \in 0 .. BYTES - 1
        /\ dsBuf \in [Cells -> Byte] /\ sent \in [Sensors -> 0 .. BYTES]
    BY DEF TypeOK, OnWire, Cells
  <1>1. /\ pc = "read" /\ slave[k] = "sending" /\ sent[k] = cnt /\ conv[k] # POWER_ON
        /\ \A s \in Sensors : OnWire(s) /\ s # k => slave[s] = "deaf"
        /\ \A i \in Cells : i < cnt => dsBuf[i] = [s |-> k, n |-> conv[k], p |-> i]
    BY DEF ReadByte, ReadsWell
  <1>2. PICK heard, ok \in BOOLEAN : OWReadByte(heard, ok)
    BY DEF ReadByte
  <1>3. heard = TRUE /\ ok = TRUE
    <2>1. Call(heard, ok, TRUE)
      BY <1>2 DEF OWReadByte
    <2>2. Calm(calm)
      BY <1>2 DEF OWReadByte
    <2>3. glitches' = glitches
      BY <2>2 DEF Calm
    <2> QED BY <1>0, <2>1, <2>3, CalmCall
  <1>4. Senders = {k}
    BY <1>0, <1>1, BytesAssumption DEF Senders
  <1>5. OnTheWire = [s |-> k, n |-> conv[k], p |-> cnt]
    <2>1. (CHOOSE s \in Senders : TRUE) = k
      BY <1>4
    <2> QED BY <1>1, <1>4, <2>1 DEF OnTheWire
  <1>6. /\ sent'[k] = cnt + 1 /\ slave' = slave /\ conv' = conv /\ k' = k
        /\ dsBuf' = [dsBuf EXCEPT ![cnt] = [s |-> k, n |-> conv[k], p |-> cnt]]
    <2>1. sent' = [s \in Sensors |-> IF heard /\ s \in Senders THEN sent[s] + 1 ELSE sent[s]]
      BY <1>2 DEF OWReadByte
    <2>2. sent'[k] = cnt + 1
      BY <1>0, <1>1, <1>3, <1>4, <2>1
    <2> QED BY <1>2, <1>3, <1>5, <2>2 DEF OWReadByte, dsBufAfter, ReadByte
  <1>7. \A i \in Cells : i < cnt + 1 => dsBuf'[i] = [s |-> k, n |-> conv[k], p |-> i]
    BY <1>0, <1>1, <1>6 DEF Cells
  <1>8. \/ cnt = BYTES - 1 /\ pc' = "check"
        \/ cnt' = cnt + 1 /\ pc' = "read"
    BY DEF ReadByte, LastByte
  <1>9. \A s \in Sensors : OnWire(s)' /\ s # k' => slave'[s] = "deaf"
    BY <1>1, <1>6 DEF OnWire
  <1>10. cnt = BYTES - 1 => \A i \in Cells : dsBuf'[i] = [s |-> k, n |-> conv[k], p |-> i]
    BY <1>7, BytesAssumption DEF Cells
  <1>11. /\ conv'[k'] # POWER_ON
         /\ pc' \in {"read", "check"}
         /\ pc' = "read" =>
              /\ slave'[k'] = "sending" /\ sent'[k'] = cnt'
              /\ \A i \in Cells : i < cnt' => dsBuf'[i] = [s |-> k', n |-> conv'[k'], p |-> i]
         /\ pc' = "check" => \A i \in Cells : dsBuf'[i] = [s |-> k', n |-> conv'[k'], p |-> i]
    BY <1>1, <1>6, <1>7, <1>8, <1>10
  <1> QED BY <1>9, <1>11 DEF ReadsWell

(* ReadsWell, for every step that leaves the calm at three resets.         *)
LEMMA ReadsWellPreserved ==
    ASSUME TypeOK, Quiet, [Next]_vars, calm' = 3, pc' \in ReadingHalf PROVE ReadsWell'
  <1>0. /\ held \in BOOLEAN /\ glitches \in 0 .. MaxGlitches /\ calm \in 0 .. 3
        /\ k \in Sensors /\ OnWire(k) /\ sent \in [Sensors -> 0 .. BYTES]
        /\ calm >= 1 => ~held
        /\ calm >= 2 => StartsWell
        /\ calm = 3 /\ pc \in ReadingHalf => ReadsWell
    BY DEF TypeOK, OnWire, Quiet
  <1>1. CASE ReadReset
    <2>1. PICK heard, ok \in BOOLEAN : OWreset(heard, ok)
      BY <1>1 DEF ReadReset
    <2>2. calm >= 2 /\ glitches' = glitches /\ ~held
      BY <1>0, <2>1 DEF OWreset, Calm
    <2>3. ok = TRUE
      <3>1. Call(heard, ok, FALSE)
        BY <2>1 DEF OWreset
      <3> QED BY <1>0, <2>2, <3>1, CalmCall
    <2>4. slave'[k] = "ready" /\ conv' = conv
      BY <1>0, <2>1, <2>3, GoodCalls DEF OWreset
    <2>5. pc = "wait" /\ pc' = "match2" /\ k' = k
      BY <1>1 DEF ReadReset, At
    <2> QED BY <1>0, <2>2, <2>4, <2>5 DEF ReadsWell, StartsWell
  <1>2. CASE ReadMatch
    <2>1. PICK seen \in {"all", "some", "none"}, ok \in BOOLEAN : MatchRom(seen, ok)
      BY <1>2 DEF ReadMatch
    <2>2. calm = 3 /\ pc = "match2" /\ pc' = "command" /\ k' = k /\ conv' = conv
      BY <1>0, <1>2, <2>1 DEF ReadMatch, At, MatchRom, Calm
    <2>3. (seen # "none") \in BOOLEAN
      OBVIOUS
    <2>4. ok = TRUE
      <3>1. Call(seen # "none", ok, TRUE)
        BY <2>1 DEF MatchRom
      <3>2. Calm(calm)
        BY <2>1 DEF MatchRom
      <3>3. glitches' = glitches /\ ~held
        BY <1>0, <2>2, <3>2 DEF Calm
      <3> QED BY <1>0, <2>3, <3>1, <3>3, CalmCall
    <2>5. conv[k] # POWER_ON /\ slave[k] = "ready"
      BY <1>0, <2>2 DEF ReadsWell, ReadingHalf
    <2>6. \A s \in Sensors : OnWire(s) => slave'[s] = IF s = k THEN "selected" ELSE "deaf"
      BY <2>1, <2>4, <2>5, GoodCalls
    <2> QED BY <1>0, <2>2, <2>5, <2>6 DEF ReadsWell, OnWire
  <1>3. CASE ReadCommand
    <2>1. PICK heard, ok \in BOOLEAN : ReadScratchpad(heard, ok)
      BY <1>3 DEF ReadCommand
    <2>2. calm = 3 /\ pc = "command" /\ pc' = "read" /\ k' = k /\ conv' = conv /\ cnt' = 0
      BY <1>0, <1>3, <2>1 DEF ReadCommand, At, ReadScratchpad, Calm
    <2>3. heard = TRUE
      <3>1. Call(heard, ok, TRUE)
        BY <2>1 DEF ReadScratchpad
      <3>2. Calm(calm)
        BY <2>1 DEF ReadScratchpad
      <3>3. glitches' = glitches /\ ~held
        BY <1>0, <2>2, <3>2 DEF Calm
      <3> QED BY <1>0, <3>1, <3>3, CalmCall
    <2>4. /\ conv[k] # POWER_ON /\ slave[k] = "selected"
          /\ \A s \in Sensors : OnWire(s) /\ s # k => slave[s] = "deaf"
      BY <1>0, <2>2 DEF ReadsWell, ReadingHalf
    <2>5. slave' = [s \in Sensors |->
                     IF ~heard \/ ~OnWire(s) THEN slave[s]
                     ELSE IF slave[s] = "selected" THEN "sending" ELSE "deaf"]
      BY <2>1 DEF ReadScratchpad
    <2>6. slave'[k] = "sending"
      BY <1>0, <2>3, <2>4, <2>5
    <2>7. \A s \in Sensors : OnWire(s) /\ s # k => slave'[s] = "deaf"
      BY <2>1, <2>4, DeafStayDeaf
    <2>8. sent'[k] = 0
      BY <1>0, <2>1, <2>4, <2>6 DEF ReadScratchpad
    <2>9. \A i \in Cells : ~(i < 0)
      BY DEF Cells
    <2> QED BY <2>2, <2>4, <2>6, <2>7, <2>8, <2>9 DEF ReadsWell, OnWire
  <1>4. CASE ReadByte
    <2>1. calm = 3
      BY <1>0, <1>4 DEF ReadByte, OWReadByte, Calm
    <2>2. ReadsWell
      BY <1>0, <1>4, <2>1 DEF ReadByte, ReadingHalf
    <2> QED BY <1>0, <1>4, <2>1, <2>2, ByteReadsWell
  <1>5. ASSUME StartReset \/ StartMatch \/ StartConvert \/ DS18B20Code \/ Check PROVE FALSE
    BY <1>5 DEF StartReset, StartMatch, StartConvert, DS18B20Code, Check, At, ReadingHalf
  <1>6. ASSUME NEW s \in Sensors, PowerLost(s) PROVE FALSE
    BY <1>6 DEF PowerLost
  <1>7. CASE UNCHANGED vars
    BY <1>0, <1>7 DEF vars, ReadsWell, ReadingHalf, OnWire
  <1> QED BY <1>1, <1>2, <1>3, <1>4, <1>5, <1>6, <1>7 DEF Next, ptReadTemp

(* A whole scratchpad of a converted sensor passes the check.              *)
LEMMA WholeIsAccepted ==
    ASSUME TypeOK, Quiet PROVE QuietBusReads
  <1> SUFFICES ASSUME pc = "check", calm = 3
               PROVE  Accepted /\ dsBuf[0].s = k /\ dsBuf[0].n = conv[k] /\ conv[k] # POWER_ON
    BY DEF QuietBusReads
  <1>1. /\ conv[k] # POWER_ON
        /\ \A i \in Cells : dsBuf[i] = [s |-> k, n |-> conv[k], p |-> i]
    BY DEF Quiet, ReadsWell, ReadingHalf
  <1>2. 0 \in Cells /\ k # NOBODY
    BY BytesAssumption, BusNAssumption DEF Cells, TypeOK, Sensors, NOBODY
  <1>3. dsBuf[0] = [s |-> k, n |-> conv[k], p |-> 0]
    BY <1>1, <1>2
  <1>4. CrcRight
    <2>1. ASSUME NEW i \in Cells PROVE SameValue(dsBuf[i], [dsBuf[0] EXCEPT !.p = i])
      <3>1. dsBuf[i] = [s |-> k, n |-> conv[k], p |-> i]
        BY <1>1
      <3> QED BY <1>3, <3>1 DEF SameValue
    <2>2. dsBuf[0].s # NOBODY
      BY <1>2, <1>3
    <2> QED BY <2>1, <2>2 DEF CrcRight
  <1>5. ~Is85
    <2>1. 0 \in 0 .. 1 /\ dsBuf[0].n # POWER_ON /\ 0 \in Telling
      BY <1>1, <1>3, TellingAssumption
    <2>2. ASSUME NEW s \in Sensors
          PROVE  ~SameValue(dsBuf[0], [s |-> s, n |-> POWER_ON, p |-> 0])
      BY <1>3, <2>1 DEF SameValue
    <2> QED BY <2>1, <2>2 DEF Is85
  <1>6. dsBuf[0].s = k /\ dsBuf[0].n = conv[k]
    BY <1>3
  <1> QED BY <1>1, <1>4, <1>5, <1>6 DEF Accepted

(* With the calls answered since the reading half of the reading before,   *)
(* ptReadTemp accepts the new conversion of its own sensor: a bus that     *)
(* hung, however it was left, costs one reading more and no third.         *)
THEOREM CalmBusIsRead == Spec => []QuietBusReads
  <1>1. Init => Quiet
    <2> SUFFICES ASSUME Init PROVE Quiet
      OBVIOUS
    <2>1. ~held /\ calm = 2 /\ pc = "reset1"
      BY DEF Init
    <2> QED BY <2>1 DEF Quiet, StartsWell
  <1>2. TypeOK /\ Quiet /\ [Next]_vars => Quiet'
    <2> SUFFICES ASSUME TypeOK, Quiet, [Next]_vars PROVE Quiet'
      OBVIOUS
    <2>1. calm' >= 1 => ~held'
      BY FreePreserved DEF Quiet
    <2>2. calm' >= 2 => StartsWell'
      BY StartsWellPreserved
    <2>3. calm' = 3 /\ pc' \in ReadingHalf => ReadsWell'
      BY ReadsWellPreserved
    <2>4. ReadingHalf' = ReadingHalf
      BY DEF ReadingHalf
    <2> QED BY <2>1, <2>2, <2>3, <2>4 DEF Quiet
  <1> QED BY <1>1, <1>2, WholeIsAccepted, OneWireTyped, PTL DEF Spec
=============================================================================
