----------------------------- MODULE Parameters -----------------------------
(***************************************************************************)
(* The settings of the device: where they lie in the EEPROM, how a boot    *)
(* initialises or loads them, how the web forms store them, and the words  *)
(* of the backup SRAM that InitNV clears.                                  *)
(*                                                                         *)
(* A setting is a named range of addresses, its content one value: what    *)
(* the last write to it put there, or MIXED when a write for something     *)
(* else ran over it.  EEwrite hands its bytes to a memory that wraps at    *)
(* the end of a page of 64, so a write that is too long comes back at the  *)
(* start of its page.  The memory takes a write as a whole at its STOP:    *)
(* power may go between two writes and not within one.                     *)
(*                                                                         *)
(* The login is stored up to the first zero of a shared buffer, and        *)
(* Base64Decode puts none behind a text of 3, 6, 9 ... characters: what    *)
(* the buffer holds from another call is then part of it.  TextSize counts *)
(* these bytes; its value stands for all that is stored.                   *)
(***************************************************************************)
EXTENDS Integers, Sequences

CONSTANTS
    TextSize,     \* TextSize[t]: bytes with the final zero that a form stores as text t
    Leftover,     \* bytes of the text that another call has left in rBuf
    SENSORS,      \* sensors looked at, 8 in the code
    NUMBERS,      \* recipients looked at, 5 in the code
    MaxForms,     \* bound: forms submitted
    MaxCuts       \* bound: restarts

PAGE == 64

Row(at, size, step, of) == [at |-> at, size |-> size, step |-> step, of |-> of]
One(at, size) == Row(at, size, 0, 1)
EachSensor(at, size) == Row(256 + at, size, 256, 8)
EachNumber(at, step) == Row(at, 32, step, 5)
EachInput(at, size) == Row(at, size, size, 3)

(* define.h: first address, bytes, distance to the next and how many *)
Table == [
    INIT |-> One(0, 2),               NET |-> Row(4, 4, 4, 4),
    HTTP_PORT |-> One(20, 2),         DHCP_STATE |-> One(22, 1),
    DDNS_STATE |-> One(23, 1),        ALARM_IP |-> One(24, 4),
    ALARM_PORT |-> One(28, 2),        USERNAME |-> One(32, 16),
    PASS |-> One(48, 16),             DDNS_HOST |-> One(64, 32),
    OBJECT_NAME |-> One(96, 32),      STATUS_TIME |-> One(135, 2),
    SCAN_TIME |-> One(137, 2),        STATUS_SEND |-> One(145, 1),
    CODE |-> EachSensor(0, 8),        LOW_ALARM |-> EachSensor(8, 1),
    HIGH_ALARM |-> EachSensor(9, 1),  HIST |-> EachSensor(11, 1),
    ACTIVE |-> EachSensor(12, 1),     CHANNEL |-> EachSensor(13, 1),
    WAPP_ON |-> EachSensor(16, 5),    SMS |-> EachSensor(32, 5),
    MTYPE |-> EachSensor(37, 1),      DELAY |-> EachSensor(38, 2),
    CALIB |-> EachSensor(48, 4),      SENSOR_NAME |-> EachSensor(64, 32),
    GSM_IP |-> One(3072, 4),          GSM_PORT |-> One(3076, 2),
    GSM_UNAME |-> One(3136, 16),      GSM_PASS |-> One(3152, 16),
    GSM_NUM |-> EachNumber(3168, 32), GSM_NAME |-> EachNumber(3328, 32),
    DST_STATE |-> One(3584, 1),       TIME_ZONE |-> One(3585, 1),
    SNTP_STATE |-> One(3586, 1),      DST_ACTIVETIME |-> One(3587, 1),
    SNTP |-> Row(3616, 32, 32, 2),
    INPUT_NAME |-> EachInput(4096, 32), INPUT_ALARM |-> EachInput(4192, 1),
    INPUT_TIP |-> EachInput(4195, 1), INPUT_WAPP |-> One(4198, 5),
    INPUT_SMS |-> One(4203, 5),       INPUT_DELAY |-> EachInput(4208, 2),
    WAPP_NUM |-> EachNumber(4352, 128), WAPP_KEY |-> EachNumber(4384, 128),
    WAPP_NAME |-> EachNumber(4416, 128),
    MQTT_SERVER |-> One(5120, 64),    MQTT_UNAME |-> One(5248, 32),
    MQTT_PASS |-> One(5280, 32),      MQTT_TOPIC |-> One(5312, 64),
    MQTT_ENABLE |-> One(5376, 1),     MQTT_PORT |-> One(5377, 2),
    MQTT_QOS |-> One(5379, 1),        MQTT_KEEPALIVE |-> One(5380, 1),
    MQTT_PERIOD |-> One(5381, 1)]

Slots == UNION {{name} \X (0 .. Table[name].of - 1) : name \in DOMAIN Table}
Start(f) == Table[f[1]].at + f[2] * Table[f[1]].step
Size(f) == Table[f[1]].size

Count(name) == IF Table[name].of = 8 THEN SENSORS
               ELSE IF Table[name].of = 5 THEN NUMBERS ELSE Table[name].of
Fields == {f \in Slots : f[2] < Count(f[1])}
Named(names) == {f \in Fields : f[1] \in names}
Guarded == {"USERNAME", "PASS", "GSM_UNAME", "GSM_PASS", "GSM_NUM", "GSM_NAME", "SNTP",
            "INPUT_NAME", "WAPP_NUM", "WAPP_KEY", "WAPP_NAME"}
Loose == {"SENSOR_NAME", "MQTT_SERVER", "MQTT_UNAME", "MQTT_PASS", "MQTT_TOPIC"}
Texts == Guarded \cup Loose

ASSUME TextSizeAssumption == TextSize \in [Texts -> 1 .. PAGE]
ASSUME LeftoverAssumption == Leftover \in 1 .. 32
ASSUME CountsAssumption == SENSORS \in 1 .. 8 /\ NUMBERS \in 1 .. 5
ASSUME ParameterBoundsAssumption == MaxForms \in Nat /\ MaxCuts \in Nat
(* No two settings share an address and none crosses the end of a page *)
ASSUME LayoutAssumption ==
    \A f \in Slots :
        /\ Start(f) \in Nat /\ Size(f) \in Nat \ {0} /\ (Start(f) % PAGE) + Size(f) <= PAGE
        /\ \A g \in Slots \ {f} :
               Start(f) + Size(f) <= Start(g) \/ Start(g) + Size(g) <= Start(f)

BLANK == -2       \* an erased memory cell
DEFAULT == -1
MIXED == -4       \* run over by a write for another setting
LEFT == -3         \* text that another call has left in rBuf
CLEAR == 0       \* zero, what the RAM starts with
Contents == {BLANK, DEFAULT, MIXED, LEFT, CLEAR} \cup (1 .. MaxForms)
Groups == {"LOGGER", "MKT"}

VARIABLES
    mem,    \* contents of the EEPROM
    ram,    \* senzor[], dinput[], scansetup, sntp, the login and mqtt_enable
    nv,     \* backup SRAM: "junk", "marked" (mark set, words not yet), "clear"
    phase,  \* how far main has come
    job,    \* what is being stored: the writes to come, the form and its content
    (* history variables *)
    kept,   \* kept[f]: what a form last stored as setting f
    loaded, \* this session began with a load of the EEPROM
    input3, \* the form of the inputs was stored in this session
    torn,   \* power went while the defaults were written
    nvTorn, \* power went between a mark and its words
    forms, cuts

vars == <<mem, ram, nv, phase, job, kept, loaded, input3, torn, nvTorn, forms, cuts>>

NoForm == "none"
Idle == [todo |-> <<>>, form |-> NoForm, v |-> DEFAULT, empty |-> FALSE]

Login == Named({"USERNAME", "PASS"})
MqttEnable == <<"MQTT_ENABLE", 0>>
Copied == Login \cup {MqttEnable}
          \cup Named({"CODE", "LOW_ALARM", "HIGH_ALARM", "HIST", "ACTIVE", "CHANNEL", "DELAY",
                      "CALIB", "SCAN_TIME", "DST_STATE", "SNTP_STATE", "INPUT_ALARM",
                      "INPUT_TIP", "INPUT_DELAY"})

(***************************************************************************)
(* What is stored, in the order of the code: each element is the set of    *)
(* settings that one EEwrite fills.                                        *)
(***************************************************************************)
Singles(names) == [j \in 1 .. Len(names) |-> {<<names[j], 0>>}]

All(name) == [j \in 1 .. Count(name) |-> {<<name, j - 1>>}]

SensorBlock(s) == {f \in Fields : Start(f) \in 256 * (s + 1) .. 256 * (s + 1) + PAGE - 1}

InitSensors ==
    [j \in 1 .. 2 * SENSORS |-> LET s == (j - 1) \div 2 IN
        IF j % 2 = 1 THEN SensorBlock(s) ELSE {<<"SENSOR_NAME", s>>}]

InitSMS == <<{<<"GSM_IP", 0>>, <<"GSM_PORT", 0>>}>> \o Singles(<<"GSM_UNAME", "GSM_PASS">>)
           \o All("GSM_NUM") \o All("GSM_NAME")

(* Mutant: the defaults stop one short *)
InitSNTP_Short == All("SNTP") \o Singles(<<"TIME_ZONE", "SNTP_STATE">>)

InitSNTP == All("SNTP") \o Singles(<<"TIME_ZONE", "SNTP_STATE", "DST_ACTIVETIME">>)

FirstBoot ==
    Singles(<<"INIT">>) \o All("NET")
    \o Singles(<<"HTTP_PORT", "DDNS_STATE", "DHCP_STATE", "DDNS_HOST", "OBJECT_NAME", "PASS",
                 "USERNAME", "SCAN_TIME">>)
    \o InitSensors \o InitSMS \o InitSNTP

SaveWApp == [j \in 1 .. 3 * NUMBERS |->
    {<<CASE j % 3 = 1 -> "WAPP_NUM" [] j % 3 = 2 -> "WAPP_KEY" [] OTHER -> "WAPP_NAME",
       (j - 1) \div 3>>}]

(* Mutant: the period for logs before the one for reports *)
SaveSample_Swapped == Singles(<<"STATUS_SEND", "SCAN_TIME", "STATUS_TIME">>)

SaveSample == Singles(<<"STATUS_SEND", "STATUS_TIME", "SCAN_TIME">>)

Forms == [
    net |-> All("NET") \o Singles(<<"HTTP_PORT", "OBJECT_NAME", "ALARM_PORT", "ALARM_IP">>),
    sms |-> Singles(<<"GSM_IP", "GSM_PORT", "GSM_UNAME", "GSM_PASS">>)
            \o All("GSM_NUM") \o All("GSM_NAME"),
    wapp |-> SaveWApp,
    sample |-> SaveSample,
    pass |-> Singles(<<"PASS", "USERNAME">>),
    sntp |-> All("SNTP") \o Singles(<<"TIME_ZONE", "SNTP_STATE", "DST_STATE">>),
    input |-> All("INPUT_NAME") \o All("INPUT_ALARM") \o All("INPUT_TIP")
              \o Singles(<<"INPUT_WAPP", "INPUT_SMS">>) \o All("INPUT_DELAY"),
    mqtt |-> Singles(<<"MQTT_ENABLE", "MQTT_SERVER", "MQTT_PORT", "MQTT_UNAME", "MQTT_PASS",
                       "MQTT_TOPIC", "MQTT_KEEPALIVE", "MQTT_QOS", "MQTT_PERIOD">>)]

SensorForm(s) ==
    LET names == <<"SENSOR_NAME", "CODE", "LOW_ALARM", "HIGH_ALARM", "HIST", "DELAY", "CALIB",
                   "ACTIVE", "MTYPE", "CHANNEL", "WAPP_ON", "SMS">>
    IN  [j \in 1 .. Len(names) |-> {<<names[j], s>>}]

(***************************************************************************)
(* EEwrite                                                                 *)
(***************************************************************************)
First(fs) == CHOOSE f \in fs : \A g \in fs : Start(f) <= Start(g)
Last(fs) == CHOOSE f \in fs : \A g \in fs : Start(g) <= Start(f)
At(fs) == Start(First(fs))

Booting == phase = "param"
IsEmpty(fs) == ~Booting /\ job.empty /\ First(fs)[1] \in Texts
IsSkipped(fs) == IsEmpty(fs) /\ First(fs)[1] \in Guarded

Bytes(fs) ==
    IF Booting \/ First(fs)[1] \notin Texts
    THEN Start(Last(fs)) + Size(Last(fs)) - At(fs)
    ELSE IF IsEmpty(fs) THEN Leftover ELSE TextSize[First(fs)[1]]

Content(fs) == IF IsEmpty(fs) THEN LEFT ELSE job.v


Room(at) == PAGE - (at % PAGE)

(* The bytes from at on, those beyond the page again from its start *)
RunsOver(at, n, f) ==
    LET from == Start(f)
        page == at - (at % PAGE)
        Meets(first, last) == from < last /\ first < from + Size(f)
    IN  /\ from >= page /\ from < page + PAGE
        /\ \/ Meets(at, at + n)
           \/ n > Room(at) /\ Meets(page, page + n - Room(at))

EEwrite(fs, n, v) ==
    LET at == At(fs)
    IN  mem' = [f \in Fields |-> IF f \in fs THEN v
                                 ELSE IF RunsOver(at, n, f) THEN MIXED ELSE mem[f]]

(* What the handler sets in RAM beside the write *)
Copies(fs) ==
    IF Booting THEN fs \cap Login
    ELSE IF <<"STATUS_TIME", 0>> \in fs THEN {<<"SCAN_TIME", 0>>}
    ELSE IF <<"INPUT_DELAY", 2>> \in fs THEN {<<"INPUT_DELAY", 1>>}
    ELSE (fs \cap Copied) \ (Login \cup {MqttEnable})

Init ==
    /\ mem = [f \in Fields |-> BLANK]
    /\ ram = [f \in Copied |-> CLEAR]
    /\ nv \in [Groups -> {"junk", "clear"}]
    /\ phase = "off" /\ job = Idle
    /\ kept = [f \in Fields |-> BLANK]
    /\ loaded = FALSE /\ input3 = FALSE /\ torn = FALSE /\ nvTorn = FALSE
    /\ forms = 0 /\ cuts = 0

(* Mutant: another mark is looked for than the one that is written *)
Marked_Other == mem[<<"INIT", 0>>] = CLEAR

Marked == mem[<<"INIT", 0>>] = DEFAULT

(* Main up to InitParam, which loads the settings or begins to write them *)
InitParam ==
    /\ phase = "off"
    /\ IF Marked
       THEN /\ \E jumper \in BOOLEAN :
                   ram' = [f \in Copied |->
                             IF f = MqttEnable THEN CLEAR
                             ELSE IF f \in Login /\ jumper THEN DEFAULT ELSE mem[f]]
            /\ loaded' = TRUE /\ phase' = "LOGGER" /\ UNCHANGED job
       ELSE /\ job' = [Idle EXCEPT !.todo = FirstBoot]
            /\ phase' = "param" /\ loaded' = FALSE /\ UNCHANGED ram
    /\ UNCHANGED <<mem, nv, kept, input3, torn, nvTorn, forms, cuts>>

Store ==
    /\ job.todo # <<>>
    /\ LET fs == Head(job.todo) IN
         IF IsSkipped(fs) THEN UNCHANGED <<mem, ram, kept>>
         ELSE /\ EEwrite(fs, Bytes(fs), Content(fs))
              /\ ram' = [f \in Copied |->
                           IF f \notin Copies(fs) THEN ram[f]
                           ELSE IF f \in fs THEN Content(fs) ELSE MIXED]
              /\ kept' = [f \in Fields |-> IF f \in fs /\ ~Booting THEN Content(fs) ELSE kept[f]]
    /\ LET rest == Tail(job.todo) IN
         /\ job' = IF rest = <<>> THEN Idle ELSE [job EXCEPT !.todo = rest]
         /\ phase' = IF Booting /\ rest = <<>> THEN "LOGGER" ELSE phase
    /\ UNCHANGED <<nv, loaded, input3, torn, nvTorn, forms, cuts>>

(* InitNV: a mark, then its words *)
Words(g) == IF g = "LOGGER" THEN "logger words" ELSE "MKT words"
AfterGroup(g) == IF g = "LOGGER" THEN "MKT" ELSE "mqtt"

InitNVMark(g) ==
    /\ phase = g
    /\ IF nv[g] = "junk"
       THEN nv' = [nv EXCEPT ![g] = "marked"] /\ phase' = Words(g)
       ELSE phase' = AfterGroup(g) /\ UNCHANGED nv
    /\ UNCHANGED <<mem, ram, job, kept, loaded, input3, torn, nvTorn, forms, cuts>>

InitNVWords(g) ==
    /\ phase = Words(g)
    /\ nv' = [nv EXCEPT ![g] = "clear"]
    /\ phase' = AfterGroup(g)
    /\ UNCHANGED <<mem, ram, job, kept, loaded, input3, torn, nvTorn, forms, cuts>>

(* A value that is neither 0 nor 1 is put right in the EEPROM; RAM keeps it *)
InitMqttEnable ==
    /\ phase = "mqtt"
    /\ ram' = [ram EXCEPT ![MqttEnable] = mem[MqttEnable]]
    /\ mem' = IF mem[MqttEnable] \in {BLANK, MIXED}
              THEN [mem EXCEPT ![MqttEnable] = DEFAULT] ELSE mem
    /\ phase' = "on"
    /\ UNCHANGED <<nv, job, kept, loaded, input3, torn, nvTorn, forms, cuts>>

(* httpd_post_finished: one form, all of it in one call *)
Submit(form, todo) ==
    /\ phase = "on" /\ job = Idle
    /\ forms < MaxForms
    /\ \E empty \in BOOLEAN :
           job' = [todo |-> todo, form |-> form, v |-> forms + 1, empty |-> empty]
    /\ forms' = forms + 1
    /\ input3' = (input3 \/ form = "input")
    /\ UNCHANGED <<mem, ram, nv, phase, kept, loaded, torn, nvTorn, cuts>>

SubmitForm == \E form \in DOMAIN Forms : Submit(form, Forms[form])
SubmitSensor == \E s \in 0 .. SENSORS - 1 : Submit("sensor", SensorForm(s))

(* A reset button, the watchdog, Check4hour or the power *)
Restart ==
    /\ phase # "off" /\ cuts < MaxCuts
    /\ torn' = (torn \/ Booting)
    /\ nvTorn' = (nvTorn \/ \E g \in Groups : phase = Words(g))
    /\ phase' = "off" /\ job' = Idle
    /\ ram' = [f \in Copied |-> CLEAR]
    /\ input3' = FALSE /\ cuts' = cuts + 1
    /\ UNCHANGED <<mem, nv, kept, loaded, forms>>

Next ==
    \/ InitParam \/ Store
    \/ \E g \in Groups : InitNVMark(g) \/ InitNVWords(g)
    \/ InitMqttEnable
    \/ SubmitForm \/ SubmitSensor
    \/ Restart

Spec == Init /\ [][Next]_vars
-----------------------------------------------------------------------------
TypeOK ==
    /\ mem \in [Fields -> Contents] /\ kept \in [Fields -> Contents]
    /\ ram \in [Copied -> Contents]
    /\ nv \in [Groups -> {"junk", "marked", "clear"}]
    /\ phase \in {"off", "param", "mqtt", "on"} \cup Groups \cup {Words(g) : g \in Groups}
    /\ job.todo \in Seq(SUBSET Fields) /\ job.v \in Contents /\ job.empty \in BOOLEAN
    /\ job.form \in {NoForm, "sensor"} \cup DOMAIN Forms
    /\ loaded \in BOOLEAN /\ input3 \in BOOLEAN /\ torn \in BOOLEAN /\ nvTorn \in BOOLEAN
    /\ forms \in 0 .. MaxForms /\ cuts \in 0 .. MaxCuts

(* A setting stays as a form last stored it, whatever other forms are      *)
(* stored, wherever power goes and however often the device boots: no      *)
(* write runs over another setting, because what goes through EEwrite has  *)
(* to fit into one page (24C128.c, 209-212), and no boot puts defaults     *)
(* over what was set.                                                      *)
Kept == \A f \in Fields : kept[f] # BLANK => mem[f] = kept[f]

(* After a boot that loaded the settings, RAM and EEPROM hold the same,    *)
(* however the forms change both (each handler stores its values twice).   *)
(* Not so the login and the switch of MQTT, which a form stores in the     *)
(* EEPROM only, and after the form of the inputs the delays of inputs 2    *)
(* and 3, as the third is copied to the place of the second.               *)
OnlyInEEPROM == Login \cup {MqttEnable}
MirrorsAgree ==
    phase = "on" /\ loaded /\ job = Idle =>
        \A f \in Copied \ OnlyInEEPROM :
            \/ ram[f] = mem[f]
            \/ input3 /\ f \in {<<"INPUT_DELAY", 1>>, <<"INPUT_DELAY", 2>>}

(* The main loop runs on blank settings or on words of the backup SRAM     *)
(* that were never cleared only when a boot was cut between a mark and     *)
(* what it stands for; the settings in NoDefault have no default at all.   *)
NoDefault ==
    Named({"ALARM_IP", "ALARM_PORT", "STATUS_TIME", "STATUS_SEND", "DST_STATE", "INPUT_NAME",
           "INPUT_ALARM", "INPUT_TIP", "INPUT_WAPP", "INPUT_SMS", "INPUT_DELAY", "WAPP_NUM",
           "WAPP_KEY", "WAPP_NAME", "MQTT_SERVER", "MQTT_UNAME", "MQTT_PASS", "MQTT_TOPIC",
           "MQTT_PORT", "MQTT_QOS", "MQTT_KEEPALIVE", "MQTT_PERIOD"})
UnsetOnlyIfTorn ==
    phase = "on" =>
        /\ torn \/ \A f \in Fields \ NoDefault : mem[f] # BLANK
        /\ nvTorn \/ \A g \in Groups : nv[g] = "clear"
=============================================================================
