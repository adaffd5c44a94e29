----------------------------- MODULE OneWireRead -----------------------------
(***************************************************************************)
(* The bus side of ptReadTemp: the calls OWreset, OWWriteByte and          *)
(* OWReadByte that start a conversion of a DS18B20 and read its scratchpad *)
(* through a DS2482 bridge on I2C, and the test of what they brought.      *)
(*                                                                         *)
(* Every I2C step of the three functions gives up after IC_TIMEOUT_MS.     *)
(* They return an error then, which ptReadTemp ignores; the bus may or may *)
(* not have carried the byte out by that time, and OWReadByte stores its   *)
(* byte only after its last step.  The buffer dsBuf is shared by all       *)
(* sensors, so what a failed read leaves alone is older data.              *)
(*                                                                         *)
(* A byte of a scratchpad is the sensor it came from, the number of the    *)
(* conversion that filled the scratchpad and its place there.  Scratchpads *)
(* differ in a few places only, of a DS18B20 in the low byte of the        *)
(* temperature and in the check sum: elsewhere they hold equal bytes, and  *)
(* the check sum of a mix is right when the places that tell scratchpads   *)
(* apart come from one.  SensorAlarm takes the outcome as ReadOK or ReadKO. *)
(***************************************************************************)
EXTENDS Integers, FiniteSets

CONSTANTS
    N,            \* enabled sensors (the others are skipped)
    KANAL,        \* KANAL[k]: the bridge that sensor k hangs on
    BYTES,        \* bytes of a scratchpad, 9 in the code
    Telling,      \* places at which scratchpads differ
    Conversions,  \* numbers of conversions; they are used again when forgotten
    MaxGlitches   \* bound: bus calls that fail and sensors that lose power

Sensors == 0 .. N - 1
Cells == 0 .. BYTES - 1
POWER_ON == 0     \* the scratchpad of a sensor that has not converted: 85 C
CLEARED  == -1    \* "sensor" of the zeros that dsBuf holds after a boot
NOBODY   == -2    \* "sensor" of the ones that a bus without an answer gives

Byte == [s : Sensors \cup {CLEARED, NOBODY}, n : Conversions \cup {POWER_ON}, p : Cells]
Reading == [s : Sensors \cup {CLEARED}, n : Conversions \cup {POWER_ON}]

ASSUME BusNAssumption == N \in Nat \ {0}
ASSUME BytesAssumption == BYTES \in Nat /\ BYTES > 2
ASSUME TellingAssumption == Telling \subseteq Cells /\ 0 \in Telling
ASSUME ConversionsAssumption ==
    /\ Conversions \subseteq Nat \ {0} /\ IsFiniteSet(Conversions)
    /\ Cardinality(Conversions) > BYTES + 2
ASSUME GlitchesAssumption == MaxGlitches \in Nat
ASSUME KanalAssumption == KANAL \in [Sensors -> 1 .. 4]

VARIABLES
    pc,        \* next call of ptReadTemp
    k, cnt,    \* its sensor and the byte it reads (static variables)
    dsBuf,     \* the buffer for a scratchpad
    temp,      \* temp[k] as the scratchpad it was computed from
    state,     \* state[k]: "none", "OK" or "KO"
    held,      \* a call returned without STOP: the I2C bus is still busy
    slave,     \* what each sensor waits for
    conv,      \* number of the conversion in each sensor's scratchpad
    sent,      \* bytes of its scratchpad a sending sensor has put on the wire
    glitches,  \* failures so far
    (* history variables *)
    calm,      \* calls of OWreset since the last failure, at most 3
    stale,     \* a call of the conversion half of this reading failed
    failed,    \* calls of the reading half that returned an error
    stored     \* places of dsBuf that this reading has written

busVars == <<held, slave, conv, sent, glitches, calm>>
vars == <<pc, k, cnt, dsBuf, temp, state, held, slave, conv, sent, glitches,
          calm, stale, failed, stored>>
-----------------------------------------------------------------------------
Init ==
    /\ pc = "reset1" /\ k = 0 /\ cnt = 0
    /\ dsBuf = [i \in Cells |-> [s |-> CLEARED, n |-> POWER_ON, p |-> i]]
    /\ temp = [s \in Sensors |-> [s |-> CLEARED, n |-> POWER_ON]]
    /\ state = [s \in Sensors |-> "none"]
    /\ held = FALSE
    /\ slave = [s \in Sensors |-> "deaf"]
    /\ conv = [s \in Sensors |-> POWER_ON]
    /\ sent = [s \in Sensors |-> 0]
    /\ glitches = 0
    /\ calm = 2 /\ stale = FALSE /\ failed = {} /\ stored = {}

OnWire(s) == KANAL[s] = KANAL[k]

(* A bus call.  "heard": the sensors saw it; "ok": it returned 0; "after": *)
(* the bus is busy after the wait for a busy bus has timed out.  A failure *)
(* is a timeout in any step, which sends STOP, or a bridge that stays busy *)
(* for DELAY_COUNT_NUM polls, which does not.                              *)
Call(heard, ok, after) ==
    \/ ~held /\ heard /\ ok /\ held' = FALSE /\ UNCHANGED glitches
    \/ held /\ ~heard /\ ~ok /\ held' = after /\ UNCHANGED glitches
    \/ /\ ~held /\ ~ok /\ held' \in BOOLEAN
       /\ glitches < MaxGlitches /\ glitches' = glitches + 1

Calm(c) == calm' = IF glitches' = glitches THEN c ELSE 0

\* Mutant: the wait for a busy bus times out without STOP here as well.
OWreset_NoStop(heard, ok) ==
    /\ Call(heard, ok, TRUE)
    /\ Calm(IF calm < 3 THEN calm + 1 ELSE 3)
    /\ slave' = [s \in Sensors |-> IF heard /\ OnWire(s) THEN "ready" ELSE slave[s]]
    /\ UNCHANGED <<conv, sent>>

OWreset(heard, ok) ==
    /\ Call(heard, ok, FALSE)
    /\ Calm(IF calm < 3 THEN calm + 1 ELSE 3)
    /\ slave' = [s \in Sensors |-> IF heard /\ OnWire(s) THEN "ready" ELSE slave[s]]
    /\ UNCHANGED <<conv, sent>>

\* OWWriteByte(0x55) and the eight bytes of the code: MATCH ROM selects the
\* sensor if all nine are heard after a reset, and silences the others.
MatchRom(seen, ok) ==
    /\ Call(seen # "none", ok, TRUE)
    /\ ok => seen = "all"
    /\ Calm(calm)
    /\ slave' = [s \in Sensors |->
                   IF seen = "none" \/ ~OnWire(s) THEN slave[s]
                   ELSE IF seen = "all" /\ s = k /\ slave[s] = "ready" THEN "selected"
                   ELSE "deaf"]
    /\ UNCHANGED <<conv, sent>>

\* A number that no byte in memory carries.
Fresh(s) == CHOOSE n \in Conversions :
    \A i \in Cells : n # dsBuf[i].n /\ n # temp[s].n /\ n # conv[s]

\* OWWriteByte(0x44): a selected sensor converts; its scratchpad is replaced
\* before the wait of DSREAD_TIME is over.
Convert(heard, ok) ==
    /\ Call(heard, ok, TRUE)
    /\ Calm(calm)
    /\ slave' = [s \in Sensors |-> IF heard /\ OnWire(s) THEN "deaf" ELSE slave[s]]
    /\ conv' = [s \in Sensors |->
                  IF heard /\ OnWire(s) /\ slave[s] = "selected" THEN Fresh(s) ELSE conv[s]]
    /\ UNCHANGED sent

\* OWWriteByte(0xBE): a selected sensor will send its scratchpad.
ReadScratchpad(heard, ok) ==
    /\ Call(heard, ok, TRUE)
    /\ Calm(calm)
    /\ slave' = [s \in Sensors |->
                   IF ~heard \/ ~OnWire(s) THEN slave[s]
                   ELSE IF slave[s] = "selected" THEN "sending" ELSE "deaf"]
    /\ sent' = [s \in Sensors |-> IF slave'[s] # slave[s] THEN 0 ELSE sent[s]]
    /\ UNCHANGED conv

Senders == {s \in Sensors : OnWire(s) /\ slave[s] = "sending" /\ sent[s] < BYTES}

\* What the bridge reads from the wire.
OnTheWire ==
    IF Senders = {} THEN [s |-> NOBODY, n |-> POWER_ON, p |-> 0]
    ELSE LET s == CHOOSE s \in Senders : TRUE
         IN  [s |-> s, n |-> conv[s], p |-> sent[s]]

dsBufAfter(ok) == IF ok THEN [dsBuf EXCEPT ![cnt] = OnTheWire] ELSE dsBuf

OWReadByte(heard, ok) ==
    /\ Call(heard, ok, TRUE)
    /\ Calm(calm)
    /\ sent' = [s \in Sensors |-> IF heard /\ s \in Senders THEN sent[s] + 1 ELSE sent[s]]
    /\ dsBuf' = dsBufAfter(ok)
    /\ UNCHANGED <<slave, conv>>
-----------------------------------------------------------------------------
(* ptReadTemp for sensor k, call by call.                                  *)
At(here, next) == pc = here /\ pc' = next

StartReset ==
    /\ At("reset1", "match1")
    /\ \E heard, ok \in BOOLEAN : OWreset(heard, ok) /\ stale' = ~ok
    /\ failed' = {} /\ stored' = {}
    /\ UNCHANGED <<k, cnt, dsBuf, temp, state>>

StartMatch ==
    /\ At("match1", "convert")
    /\ \E seen \in {"all", "some", "none"}, ok \in BOOLEAN :
          MatchRom(seen, ok) /\ stale' = (stale \/ ~ok)
    /\ UNCHANGED <<k, cnt, dsBuf, temp, state, failed, stored>>

StartConvert ==
    /\ At("convert", "wait")
    /\ \E heard, ok \in BOOLEAN : Convert(heard, ok) /\ stale' = (stale \/ ~ok)
    /\ UNCHANGED <<k, cnt, dsBuf, temp, state, failed, stored>>

\* The timer has expired: the second half runs without a wait.
ReadReset ==
    /\ At("wait", "match2")
    /\ \E heard, ok \in BOOLEAN :
          OWreset(heard, ok) /\ failed' = IF ok THEN {} ELSE {"reset"}
    /\ UNCHANGED <<k, cnt, dsBuf, temp, state, stale, stored>>

\* Mutant: the address is not sent again for the reading half.
ReadMatch_Skipped ==
    /\ At("match2", "command")
    /\ UNCHANGED <<k, cnt, dsBuf, temp, state, stale, failed, stored, busVars>>

ReadMatch ==
    /\ At("match2", "command")
    /\ \E seen \in {"all", "some", "none"}, ok \in BOOLEAN :
          MatchRom(seen, ok) /\ failed' = IF ok THEN failed ELSE failed \cup {"match"}
    /\ UNCHANGED <<k, cnt, dsBuf, temp, state, stale, stored>>

ReadCommand ==
    /\ At("command", "read")
    /\ cnt' = 0
    /\ \E heard, ok \in BOOLEAN :
          ReadScratchpad(heard, ok) /\ failed' = IF ok THEN failed ELSE failed \cup {"command"}
    /\ UNCHANGED <<k, dsBuf, temp, state, stale, stored>>

LastByte == cnt = BYTES - 1

ReadByte ==
    /\ pc = "read"
    /\ \E heard, ok \in BOOLEAN :
          /\ OWReadByte(heard, ok)
          /\ failed' = IF ok THEN failed ELSE failed \cup {"byte"}
          /\ stored' = IF ok THEN stored \cup {cnt} ELSE stored
    /\ IF LastByte THEN pc' = "check" /\ UNCHANGED cnt
                   ELSE cnt' = cnt + 1 /\ UNCHANGED pc
    /\ UNCHANGED <<k, temp, state, stale>>

\* Bytes of two scratchpads have one value, except where scratchpads differ.
SameValue(b, c) ==
    \/ b = c
    \/ b.p = c.p /\ b.p \notin Telling /\ b.s \in Sensors /\ c.s \in Sensors

\* Mutant: the checksum covers the two bytes of the temperature only.
CrcRight_Short ==
    /\ dsBuf[0].s # NOBODY
    /\ \A i \in 0 .. 1 : SameValue(dsBuf[i], [dsBuf[0] EXCEPT !.p = i])

\* calc_crc(dsBuf, 8) == dsBuf[8]
CrcRight ==
    /\ dsBuf[0].s # NOBODY
    /\ \A i \in Cells : SameValue(dsBuf[i], [dsBuf[0] EXCEPT !.p = i])

\* Mutant: the power-on value is not recognised.
Is85_Never == FALSE

\* dsBuf[0] == 0x50 && dsBuf[1] == 0x05
Is85 == \E s \in Sensors : \A i \in 0 .. 1 :
    SameValue(dsBuf[i], [s |-> s, n |-> POWER_ON, p |-> i])

Accepted == CrcRight /\ ~Is85

Check ==
    /\ At("check", "reset1")
    /\ temp' = IF Accepted
               THEN [temp EXCEPT ![k] = [s |-> dsBuf[0].s, n |-> dsBuf[0].n]] ELSE temp
    /\ state' = [state EXCEPT ![k] = IF Accepted THEN "OK" ELSE "KO"]
    /\ k' = (k + 1) % N
    /\ UNCHANGED <<cnt, dsBuf, stale, failed, stored, busVars>>
-----------------------------------------------------------------------------
(* The environment.                                                        *)
\* A sensor loses its supply and starts again with 85 degrees.
PowerLost(s) ==
    /\ glitches < MaxGlitches
    /\ glitches' = glitches + 1
    /\ slave' = [slave EXCEPT ![s] = "deaf"]
    /\ conv' = [conv EXCEPT ![s] = POWER_ON]
    /\ calm' = 0
    /\ UNCHANGED <<pc, k, cnt, dsBuf, temp, state, held, sent, stale, failed, stored>>

\* DS18B20Code(), for a web page, while ptReadTemp waits: OWreset, READ ROM
\* and eight reads on the bridge of channel 1.
DS18B20Code ==
    /\ pc = "wait"
    /\ slave' = [s \in Sensors |-> IF KANAL[s] = 1 THEN "deaf" ELSE slave[s]]
    /\ held' = FALSE
    /\ UNCHANGED <<pc, k, cnt, dsBuf, temp, state, conv, sent, glitches, calm,
                   stale, failed, stored>>

ptReadTemp ==
    \/ StartReset \/ StartMatch \/ StartConvert
    \/ ReadReset \/ ReadMatch \/ ReadCommand \/ ReadByte \/ Check

Next ==
    \/ ptReadTemp
    \/ DS18B20Code
    \/ \E s \in Sensors : PowerLost(s)

(* The main loop polls the thread for ever and each call is bounded.       *)
Spec == Init /\ [][Next]_vars /\ WF_vars(ptReadTemp)
-----------------------------------------------------------------------------
TypeOK ==
    /\ pc \in {"reset1", "match1", "convert", "wait", "match2", "command", "read", "check"}
    /\ k \in Sensors /\ cnt \in Cells
    /\ dsBuf \in [Cells -> Byte]
    /\ temp \in [Sensors -> Reading]
    /\ state \in [Sensors -> {"none", "OK", "KO"}]
    /\ held \in BOOLEAN
    /\ slave \in [Sensors -> {"deaf", "ready", "selected", "sending"}]
    /\ conv \in [Sensors -> Conversions \cup {POWER_ON}]
    /\ sent \in [Sensors -> 0 .. BYTES]
    /\ glitches \in 0 .. MaxGlitches
    /\ calm \in 0 .. 3
    /\ stale \in BOOLEAN
    /\ failed \subseteq {"reset", "match", "command", "byte"}
    /\ stored \subseteq Cells

(* With the calls answered since the reading half of the reading before,   *)
(* ptReadTemp gets the new conversion of its own sensor: a bus that hangs  *)
(* costs what was under way and one reading more, however it was left.     *)
QuietBusReads ==
    pc = "check" /\ calm = 3 =>
        /\ Accepted
        /\ dsBuf[0].s = k /\ dsBuf[0].n = conv[k] /\ conv[k] # POWER_ON

(* What is taken for a temperature of sensor k is k's own scratchpad, and  *)
(* the new one unless the conversion had failed, with two exceptions: the  *)
(* reset or the address of the reading half returned an error, or every    *)
(* read of a byte that tells scratchpads apart did.  ptReadTemp looks at   *)
(* no return value, so in these cases what the sensor before has left in   *)
(* dsBuf can pass for k's; that a single telling byte was read is enough   *)
(* to keep the rest of it out.                                             *)
OwnUnlessUnread ==
    pc = "check" /\ Accepted =>
        \/ dsBuf[0].s = k /\ (stale \/ dsBuf[0].n # temp[k].n)
        \/ failed \cap {"reset", "match"} # {}
        \/ stored \cap Telling = {}

(* The 85 degrees of a sensor that has lost its supply never become a      *)
(* temperature, at whatever point of the reading the supply was lost.      *)
No85 == \A s \in Sensors : state[s] = "OK" => temp[s].s = CLEARED \/ temp[s].n # POWER_ON

(* When the failures end, every sensor is read again.                      *)
ReadingsResume == \A s \in Sensors : <>[](state[s] = "OK" /\ temp[s].s = s)
=============================================================================
