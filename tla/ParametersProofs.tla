-------------------------- MODULE ParametersProofs --------------------------
(***************************************************************************)
(* A stored setting stays what it was stored as, for every number of       *)
(* forms and restarts, if the texts fit into their places in the EEPROM.   *)
(***************************************************************************)
EXTENDS Parameters, TLAPS

InitField == <<"INIT", 0>>
Single == {{f} : f \in Fields \ {InitField}}
GsmServer == {<<"GSM_IP", 0>>, <<"GSM_PORT", 0>>}
Target == Single \cup {{InitField}, GsmServer} \cup {SensorBlock(s) : s \in 0 .. SENSORS - 1}

(* Every text that a form stores fits into its place with the final zero *)
Fits == \A t \in Texts : TextSize[t] <= Table[t].size
-----------------------------------------------------------------------------
(* The table knows these names *)
LEMMA InitInTable ==
    InitField \in Fields /\ Start(InitField) = 0
  <1>1. "INIT" \in DOMAIN Table /\ Table["INIT"] = [at |-> 0, size |-> 2, step |-> 0, of |-> 1]
    BY DEF Table, One, Row
  <1>. QED BY <1>1 DEF InitField, Fields, Slots, Count, Start

(* Every setting has an address, a size and a page of its own *)
LEMMA FieldPlaces ==
    \A f \in Fields :
        /\ Start(f) \in Nat /\ Size(f) \in Nat \ {0} /\ (Start(f) % PAGE) + Size(f) <= PAGE
        /\ \A g \in Fields \ {f} :
               Start(f) + Size(f) <= Start(g) \/ Start(g) + Size(g) <= Start(f)
  <1>1. Fields \subseteq Slots BY DEF Fields
  <1>. QED BY <1>1, LayoutAssumption

(* How many of each there are is a number *)
LEMMA CountIsNumber ==
    \A name \in DOMAIN Table : Table[name].of \in Nat /\ Count(name) \in Nat
  <1>1. \A name \in DOMAIN Table : Table[name].of \in Nat
    BY DEF Table, One, Row, EachSensor, EachNumber, EachInput
  <1>. QED BY <1>1, CountsAssumption DEF Count

LEMMA FieldOfName ==
    ASSUME NEW name \in DOMAIN Table, NEW i \in 0 .. Count(name) - 1
    PROVE  <<name, i>> \in Fields
  <1>1. i \in 0 .. Table[name].of - 1
    BY CountIsNumber, CountsAssumption DEF Count
  <1>2. <<name, i>> \in Slots
    BY <1>1 DEF Slots
  <1>3. i < Count(name)
    BY CountIsNumber
  <1>. QED BY <1>2, <1>3 DEF Fields

(* The settings that a form or a boot writes one by one *)
Plain == DOMAIN Table \ {"INIT"}

LEMMA PlainNames ==
    \A name \in Plain : Count(name) \in Nat /\ \A i \in 0 .. Count(name) - 1 : {<<name, i>>} \in Single
  <1> SUFFICES ASSUME NEW name \in Plain, NEW i \in 0 .. Count(name) - 1
               PROVE  {<<name, i>>} \in Single
    BY CountIsNumber DEF Plain
  <1>1. <<name, i>> \in Fields BY FieldOfName DEF Plain
  <1>2. <<name, i>> # InitField BY DEF Plain, InitField
  <1>. QED BY <1>1, <1>2 DEF Single

LEMMA AllAreSingle ==
    ASSUME NEW name \in Plain PROVE All(name) \in Seq(Single)
  <1>1. Count(name) \in Nat BY PlainNames
  <1>2. \A j \in 1 .. Count(name) : {<<name, j - 1>>} \in Single BY PlainNames
  <1>. QED BY <1>1, <1>2 DEF All

(* A list of names that have one setting each *)
Ones == {name \in Plain : Count(name) = 1}

LEMMA SinglesAreSingle == \A names \in Seq(Ones) : Singles(names) \in Seq(Single)
  <1> SUFFICES ASSUME NEW names \in Seq(Ones) PROVE Singles(names) \in Seq(Single)
    OBVIOUS
  <1>1. \A j \in 1 .. Len(names) : {<<names[j], 0>>} \in Single
    <2> TAKE j \in 1 .. Len(names)
    <2>1. names[j] \in Plain /\ Count(names[j]) = 1 BY DEF Ones
    <2>. QED BY <2>1, PlainNames
  <1>. QED BY <1>1 DEF Singles

LEMMA SensorNames ==
    /\ {"CODE", "LOW_ALARM", "HIGH_ALARM", "HIST", "ACTIVE", "CHANNEL", "WAPP_ON", "SMS", "MTYPE",
        "DELAY", "CALIB", "SENSOR_NAME"} \subseteq {name \in Plain : Count(name) = SENSORS}
    /\ {"GSM_NUM", "GSM_NAME", "WAPP_NUM", "WAPP_KEY", "WAPP_NAME"}
          \subseteq {name \in Plain : Count(name) = NUMBERS}
    /\ {"NET", "SNTP", "INPUT_NAME", "INPUT_ALARM", "INPUT_TIP", "INPUT_DELAY"} \subseteq Plain
    BY CountsAssumption DEF Plain, Count, Table, One, Row, EachSensor, EachNumber, EachInput

LEMMA OneNames ==
    {"HTTP_PORT", "DDNS_STATE", "DHCP_STATE", "DDNS_HOST", "OBJECT_NAME", "PASS", "USERNAME",
     "SCAN_TIME", "GSM_UNAME", "GSM_PASS", "TIME_ZONE", "SNTP_STATE", "DST_ACTIVETIME", "DST_STATE",
     "ALARM_PORT", "ALARM_IP", "GSM_IP", "GSM_PORT", "STATUS_SEND", "STATUS_TIME", "INPUT_WAPP",
     "INPUT_SMS", "MQTT_ENABLE", "MQTT_SERVER", "MQTT_PORT", "MQTT_UNAME", "MQTT_PASS",
     "MQTT_TOPIC", "MQTT_KEEPALIVE", "MQTT_QOS", "MQTT_PERIOD"}
        \subseteq Ones
    BY DEF Ones, Plain, Count, Table, One, Row, EachSensor, EachNumber, EachInput
-----------------------------------------------------------------------------
(* A form writes settings one by one and never the mark *)
LEMMA SensorFormIsSingle ==
    ASSUME NEW s \in 0 .. SENSORS - 1 PROVE SensorForm(s) \in Seq(Single)
  <1> DEFINE names == <<"SENSOR_NAME", "CODE", "LOW_ALARM", "HIGH_ALARM", "HIST", "DELAY", "CALIB",
                        "ACTIVE", "MTYPE", "CHANNEL", "WAPP_ON", "SMS">>
  <1>1. names \in Seq({name \in Plain : Count(name) = SENSORS})
    BY SensorNames
  <1>2. \A j \in 1 .. Len(names) : {<<names[j], s>>} \in Single
    <2> TAKE j \in 1 .. Len(names)
    <2>1. names[j] \in {name \in Plain : Count(name) = SENSORS} BY <1>1
    <2> HIDE DEF names
    <2>. QED BY <2>1, PlainNames
  <1>. QED BY <1>2 DEF SensorForm

LEMMA SaveWAppIsSingle == SaveWApp \in Seq(Single)
  <1> DEFINE name(j) == IF j % 3 = 1 THEN "WAPP_NUM" ELSE IF j % 3 = 2 THEN "WAPP_KEY" ELSE "WAPP_NAME"
  <1>1. SaveWApp = [j \in 1 .. 3 * NUMBERS |-> {<<name(j), (j - 1) \div 3>>}]
    BY DEF SaveWApp
  <1>2. \A j \in 1 .. 3 * NUMBERS : {<<name(j), (j - 1) \div 3>>} \in Single
    <2> TAKE j \in 1 .. 3 * NUMBERS
    <2>1. name(j) \in Plain /\ Count(name(j)) = NUMBERS BY SensorNames
    <2>2. (j - 1) \div 3 \in 0 .. NUMBERS - 1 BY CountsAssumption
    <2> HIDE DEF name
    <2>. QED BY <2>1, <2>2, PlainNames
  <1>3. 3 * NUMBERS \in Nat BY CountsAssumption
  <1> HIDE DEF name
  <1>. QED BY <1>1, <1>2, <1>3

LEMMA FormsAreSingle == \A form \in DOMAIN Forms : Forms[form] \in Seq(Single)
  <1>1. All("NET") \in Seq(Single) /\ All("SNTP") \in Seq(Single) /\ All("INPUT_NAME") \in Seq(Single)
        /\ All("INPUT_ALARM") \in Seq(Single) /\ All("INPUT_TIP") \in Seq(Single)
        /\ All("INPUT_DELAY") \in Seq(Single) /\ All("GSM_NUM") \in Seq(Single)
        /\ All("GSM_NAME") \in Seq(Single)
    BY AllAreSingle, SensorNames
  <1>2. Singles(<<"HTTP_PORT", "OBJECT_NAME", "ALARM_PORT", "ALARM_IP">>) \in Seq(Single)
    <2>1. <<"HTTP_PORT", "OBJECT_NAME", "ALARM_PORT", "ALARM_IP">> \in Seq(Ones) BY OneNames
    <2>. QED BY <2>1, SinglesAreSingle
  <1>3. Singles(<<"GSM_IP", "GSM_PORT", "GSM_UNAME", "GSM_PASS">>) \in Seq(Single)
    <2>1. <<"GSM_IP", "GSM_PORT", "GSM_UNAME", "GSM_PASS">> \in Seq(Ones) BY OneNames
    <2>. QED BY <2>1, SinglesAreSingle
  <1>4. SaveSample \in Seq(Single)
    <2>1. <<"STATUS_SEND", "STATUS_TIME", "SCAN_TIME">> \in Seq(Ones) BY OneNames
    <2>. QED BY <2>1, SinglesAreSingle DEF SaveSample
  <1>5. Singles(<<"PASS", "USERNAME">>) \in Seq(Single)
    <2>1. <<"PASS", "USERNAME">> \in Seq(Ones) BY OneNames
    <2>. QED BY <2>1, SinglesAreSingle
  <1>6. Singles(<<"TIME_ZONE", "SNTP_STATE", "DST_STATE">>) \in Seq(Single)
    <2>1. <<"TIME_ZONE", "SNTP_STATE", "DST_STATE">> \in Seq(Ones) BY OneNames
    <2>. QED BY <2>1, SinglesAreSingle
  <1>7. Singles(<<"INPUT_WAPP", "INPUT_SMS">>) \in Seq(Single)
    <2>1. <<"INPUT_WAPP", "INPUT_SMS">> \in Seq(Ones) BY OneNames
    <2>. QED BY <2>1, SinglesAreSingle
  <1>8. Singles(<<"MQTT_ENABLE", "MQTT_SERVER", "MQTT_PORT", "MQTT_UNAME", "MQTT_PASS",
                  "MQTT_TOPIC", "MQTT_KEEPALIVE", "MQTT_QOS", "MQTT_PERIOD">>) \in Seq(Single)
    <2>1. <<"MQTT_ENABLE", "MQTT_SERVER", "MQTT_PORT", "MQTT_UNAME", "MQTT_PASS",
                  "MQTT_TOPIC", "MQTT_KEEPALIVE", "MQTT_QOS", "MQTT_PERIOD">> \in Seq(Ones) BY OneNames
    <2>. QED BY <2>1, SinglesAreSingle
  <1>9. \A a, b \in Seq(Single) : a \o b \in Seq(Single)
    OBVIOUS
  <1>10. Forms["net"] \in Seq(Single) /\ Forms["sms"] \in Seq(Single)
    BY <1>1, <1>2, <1>3, <1>9 DEF Forms
  <1>11. Forms["wapp"] \in Seq(Single) /\ Forms["sample"] \in Seq(Single)
         /\ Forms["pass"] \in Seq(Single)
    BY <1>4, <1>5, SaveWAppIsSingle DEF Forms
  <1>12. Forms["sntp"] \in Seq(Single) /\ Forms["mqtt"] \in Seq(Single)
    BY <1>1, <1>6, <1>8, <1>9 DEF Forms
  <1>13. Forms["input"] \in Seq(Single)
    BY <1>1, <1>7, <1>9 DEF Forms
  <1>14. DOMAIN Forms = {"net", "sms", "wapp", "sample", "pass", "sntp", "input", "mqtt"}
    BY DEF Forms
  <1>. QED BY <1>10, <1>11, <1>12, <1>13, <1>14

(* The first boot writes the mark and then, among others, sensor blocks *)
LEMMA FirstBootIsTarget ==
    FirstBoot \in Seq(Target) /\ FirstBoot # <<>> /\ Head(FirstBoot) = {InitField}
  <1>1. Single \subseteq Target BY DEF Target
  <1>2. InitSensors \in Seq(Target)
    <2>1. \A j \in 1 .. 2 * SENSORS :
              (IF j % 2 = 1 THEN SensorBlock((j - 1) \div 2) ELSE {<<"SENSOR_NAME", (j - 1) \div 2>>})
                  \in Target
      <3> TAKE j \in 1 .. 2 * SENSORS
      <3>1. (j - 1) \div 2 \in 0 .. SENSORS - 1 BY CountsAssumption
      <3>2. SensorBlock((j - 1) \div 2) \in Target BY <3>1, CountsAssumption DEF Target
      <3>3. {<<"SENSOR_NAME", (j - 1) \div 2>>} \in Single BY <3>1, SensorNames, PlainNames
      <3>. QED BY <3>2, <3>3, <1>1
    <2>2. 2 * SENSORS \in Nat BY CountsAssumption
    <2> DEFINE item(j) == IF j % 2 = 1 THEN SensorBlock((j - 1) \div 2)
                          ELSE {<<"SENSOR_NAME", (j - 1) \div 2>>}
    <2>3. InitSensors = [j \in 1 .. 2 * SENSORS |-> item(j)] BY DEF InitSensors
    <2>4. \A j \in 1 .. 2 * SENSORS : item(j) \in Target BY <2>1
    <2> HIDE DEF item
    <2>. QED BY <2>2, <2>3, <2>4
  <1>3. Singles(<<"HTTP_PORT", "DDNS_STATE", "DHCP_STATE", "DDNS_HOST", "OBJECT_NAME", "PASS",
                  "USERNAME", "SCAN_TIME">>) \in Seq(Single)
    <2>1. <<"HTTP_PORT", "DDNS_STATE", "DHCP_STATE", "DDNS_HOST", "OBJECT_NAME", "PASS",
                  "USERNAME", "SCAN_TIME">> \in Seq(Ones) BY OneNames
    <2>. QED BY <2>1, SinglesAreSingle
  <1>4. Singles(<<"GSM_UNAME", "GSM_PASS">>) \in Seq(Single)
        /\ Singles(<<"TIME_ZONE", "SNTP_STATE", "DST_ACTIVETIME">>) \in Seq(Single)
    <2>1. <<"GSM_UNAME", "GSM_PASS">> \in Seq(Ones)
          /\ <<"TIME_ZONE", "SNTP_STATE", "DST_ACTIVETIME">> \in Seq(Ones)
      BY OneNames
    <2>. QED BY <2>1, SinglesAreSingle
  <1>5. All("NET") \in Seq(Single) /\ All("SNTP") \in Seq(Single) /\ All("GSM_NUM") \in Seq(Single)
        /\ All("GSM_NAME") \in Seq(Single)
    BY AllAreSingle, SensorNames
  <1>6. <<GsmServer>> \in Seq(Target) BY DEF Target
  <1>7. Singles(<<"INIT">>) = <<{InitField}>> BY DEF Singles, InitField
  <1>8. <<{InitField}>> \in Seq(Target) BY DEF Target
  <1>9. Seq(Single) \subseteq Seq(Target) BY <1>1
  <1>10. InitSMS \in Seq(Target) BY <1>4, <1>5, <1>6, <1>9 DEF InitSMS, GsmServer
  <1>11. InitSNTP \in Seq(Target) BY <1>4, <1>5, <1>9 DEF InitSNTP
  <1> DEFINE Begins(a) == a \in Seq(Target) /\ a # <<>> /\ Head(a) = {InitField}
  <1>12. \A a, b \in Seq(Target) : Begins(a) => Begins(a \o b)
    OBVIOUS
  <1>13. Begins(Singles(<<"INIT">>))
    <2>1. Begins(<<{InitField}>>) BY <1>8
    <2> HIDE DEF Begins
    <2>. QED BY <2>1, <1>7
  <1> DEFINE upToName == Singles(<<"HTTP_PORT", "DDNS_STATE", "DHCP_STATE", "DDNS_HOST",
                                   "OBJECT_NAME", "PASS", "USERNAME", "SCAN_TIME">>)
  <1>14. upToName \in Seq(Target) /\ All("NET") \in Seq(Target) BY <1>3, <1>5, <1>9
  <1>15. FirstBoot = Singles(<<"INIT">>) \o All("NET") \o upToName \o InitSensors \o InitSMS
                     \o InitSNTP
    BY DEF FirstBoot
  <1> HIDE DEF Begins, upToName
  <1>16. Begins(Singles(<<"INIT">>) \o All("NET"))
    BY <1>12, <1>13, <1>14 DEF Begins
  <1>17. Begins(Singles(<<"INIT">>) \o All("NET") \o upToName)
    BY <1>12, <1>16, <1>14 DEF Begins
  <1>18. Begins(Singles(<<"INIT">>) \o All("NET") \o upToName \o InitSensors)
    BY <1>12, <1>17, <1>2 DEF Begins
  <1>19. Begins(Singles(<<"INIT">>) \o All("NET") \o upToName \o InitSensors \o InitSMS)
    BY <1>12, <1>18, <1>10 DEF Begins
  <1>20. Begins(FirstBoot)
    BY <1>12, <1>19, <1>11, <1>15 DEF Begins
  <1>. QED BY <1>20 DEF Begins
-----------------------------------------------------------------------------
(* A write stays within its page, and what it runs over it is meant for *)
LEMMA WriteOfOne ==
    ASSUME NEW f \in Fields, NEW n \in Nat, n <= Size(f), NEW g \in Fields, RunsOver(Start(f), n, g)
    PROVE  g = f
  <1>1. /\ Start(f) \in Nat /\ Size(f) \in Nat /\ (Start(f) % PAGE) + Size(f) <= PAGE
        /\ Start(g) \in Nat /\ Size(g) \in Nat
        /\ g # f => Start(f) + Size(f) <= Start(g) \/ Start(g) + Size(g) <= Start(f)
    BY FieldPlaces
  <1>2. ~ (n > Room(Start(f)))
    BY <1>1 DEF Room, PAGE
  <1>3. Start(g) < Start(f) + n /\ Start(f) < Start(g) + Size(g)
    BY <1>2 DEF RunsOver
  <1>. QED BY <1>1, <1>3

LEMMA ServerBytes ==
    /\ First(GsmServer) = <<"GSM_IP", 0>> /\ Last(GsmServer) = <<"GSM_PORT", 0>>
    /\ Start(<<"GSM_IP", 0>>) = 3072 /\ Size(<<"GSM_IP", 0>>) = 4
    /\ Start(<<"GSM_PORT", 0>>) = 3076 /\ Size(<<"GSM_PORT", 0>>) = 2
  <1> DEFINE ip == <<"GSM_IP", 0>>
             port == <<"GSM_PORT", 0>>
  <1>1. Table["GSM_IP"] = [at |-> 3072, size |-> 4, step |-> 0, of |-> 1]
        /\ Table["GSM_PORT"] = [at |-> 3076, size |-> 2, step |-> 0, of |-> 1]
    BY DEF Table, One, Row
  <1>2. Start(ip) = 3072 /\ Size(ip) = 4 /\ Start(port) = 3076 /\ Size(port) = 2
    BY <1>1 DEF Start, Size
  <1>3. First(GsmServer) = ip
    BY <1>2 DEF First, GsmServer
  <1>4. Last(GsmServer) = port
    BY <1>2 DEF Last, GsmServer
  <1>. QED BY <1>2, <1>3, <1>4

LEMMA WriteOfServer ==
    ASSUME NEW g \in Fields, RunsOver(3072, 6, g)
    PROVE  g \in GsmServer
  <1> DEFINE ip == <<"GSM_IP", 0>>
             port == <<"GSM_PORT", 0>>
  <1>1. ip \in Fields /\ port \in Fields
    BY OneNames, FieldOfName DEF Ones, Plain
  <1>2. /\ Start(g) \in Nat /\ Size(g) \in Nat \ {0}
        /\ g # ip => 3076 <= Start(g) \/ Start(g) + Size(g) <= 3072
        /\ g # port => 3078 <= Start(g) \/ Start(g) + Size(g) <= 3076
    BY <1>1, ServerBytes, FieldPlaces
  <1>3. Start(g) < 3078 /\ 3072 < Start(g) + Size(g)
    BY <1>2 DEF RunsOver, Room, PAGE
  <1>. QED BY <1>2, <1>3 DEF GsmServer

LEMMA WriteOfBlock ==
    ASSUME NEW s \in Nat, NEW at \in 256 * (s + 1) .. 256 * (s + 1) + PAGE - 1, NEW n,
           NEW g \in Fields, RunsOver(at, n, g)
    PROVE  g \in SensorBlock(s)
  <1>1. at - (at % PAGE) = 256 * (s + 1)
    BY DEF PAGE
  <1>2. Start(g) \in Nat BY FieldPlaces
  <1>3. Start(g) >= at - (at % PAGE) /\ Start(g) < at - (at % PAGE) + PAGE
    BY DEF RunsOver
  <1>. QED BY <1>1, <1>2, <1>3 DEF SensorBlock, PAGE

(* A sensor's block begins with its code *)
LEMMA BlockBegins ==
    ASSUME NEW s \in 0 .. SENSORS - 1
    PROVE  At(SensorBlock(s)) = 256 * (s + 1)
  <1> DEFINE code == <<"CODE", s>>
  <1>0. s \in Nat BY CountsAssumption
  <1>1. code \in Fields BY SensorNames, FieldOfName DEF Plain
  <1>2. Table["CODE"] = [at |-> 256, size |-> 8, step |-> 256, of |-> 8]
    BY DEF Table, EachSensor, Row
  <1>3. Start(code) = 256 * (s + 1) BY <1>0, <1>2 DEF Start
  <1>4. code \in SensorBlock(s) BY <1>0, <1>1, <1>3 DEF SensorBlock, PAGE
  <1>5. \A g \in SensorBlock(s) : Start(g) \in Nat /\ 256 * (s + 1) <= Start(g)
    BY <1>0, FieldPlaces DEF SensorBlock, PAGE
  <1>6. \A g \in SensorBlock(s) : Start(code) <= Start(g) BY <1>3, <1>5
  <1> DEFINE first == First(SensorBlock(s))
  <1>7. first \in SensorBlock(s) /\ \A g \in SensorBlock(s) : Start(first) <= Start(g)
    BY <1>4, <1>6 DEF First
  <1>8. Start(first) <= Start(code) /\ Start(code) <= Start(first) /\ Start(first) \in Nat
    BY <1>4, <1>5, <1>6, <1>7
  <1>. QED BY <1>0, <1>3, <1>8 DEF At

LEMMA LooseSizes == \A t \in Loose : Table[t].size >= 32
    BY DEF Loose, Table, One, EachSensor, Row

(* Every write of a form and of the first boot keeps to its own settings *)
LEMMA WriteIsOwn ==
    ASSUME Fits, NEW fs \in Target, Booting \/ fs \in Single, ~IsSkipped(fs),
           NEW g \in Fields, RunsOver(At(fs), Bytes(fs), g)
    PROVE  g \in fs
  <1>1. ASSUME NEW f \in Fields, fs = {f} PROVE g \in fs
    <2>1. First(fs) = f /\ Last(fs) = f
      <3>1. Start(f) \in Nat BY FieldPlaces
      <3>. QED BY <1>1, <3>1 DEF First, Last
    <2>2. At(fs) = Start(f) BY <2>1 DEF At
    <2>3. Bytes(fs) \in Nat /\ Bytes(fs) <= Size(f)
      <3>1. Start(f) \in Nat /\ Size(f) \in Nat BY FieldPlaces
      <3>2. CASE Booting \/ f[1] \notin Texts
        BY <2>1, <2>2, <3>1, <3>2 DEF Bytes
      <3>3. CASE ~Booting /\ f[1] \in Texts /\ IsEmpty(fs)
        <4>1. f[1] \in Loose BY <2>1, <3>3 DEF IsSkipped, Texts
        <4>2. Bytes(fs) = Leftover BY <2>1, <3>3 DEF Bytes
        <4>3. Size(f) >= 32 BY <4>1, LooseSizes DEF Size
        <4>. QED BY <3>1, <4>2, <4>3, LeftoverAssumption
      <3>4. CASE ~Booting /\ f[1] \in Texts /\ ~IsEmpty(fs)
        <4>1. Bytes(fs) = TextSize[f[1]] BY <2>1, <3>4 DEF Bytes
        <4>2. TextSize[f[1]] \in Nat BY <3>4, TextSizeAssumption DEF PAGE
        <4>. QED BY <4>1, <4>2, <3>4 DEF Fits, Size
      <3>. QED BY <3>2, <3>3, <3>4
    <2>. QED BY <1>1, <2>2, <2>3, WriteOfOne
  <1>2. ASSUME fs = GsmServer, Booting PROVE g \in fs
    <2>1. At(fs) = 3072 /\ Bytes(fs) = 6
      BY <1>2, ServerBytes DEF At, Bytes
    <2>. QED BY <1>2, <2>1, WriteOfServer
  <1>3. ASSUME NEW s \in 0 .. SENSORS - 1, fs = SensorBlock(s) PROVE g \in fs
    <2>1. s \in Nat /\ At(fs) \in 256 * (s + 1) .. 256 * (s + 1) + PAGE - 1
      BY <1>3, BlockBegins, CountsAssumption DEF PAGE
    <2>. QED BY <1>3, <2>1, WriteOfBlock
  <1>. QED BY <1>1, <1>2, <1>3, InitInTable DEF Target, Single
-----------------------------------------------------------------------------
(***************************************************************************)
(* The inductive invariant.  Kept alone is not inductive: a boot that does *)
(* not find the mark writes defaults over everything, so that the mark has *)
(* to stand from the first write of the first boot on, and nothing may be  *)
(* set before; and what is still to be stored must be addressed right.     *)
(***************************************************************************)
NeverSet == \A f \in Fields : kept[f] = BLANK

KInv ==
    /\ mem \in [Fields -> Int] /\ kept \in [Fields -> Int] /\ forms \in Nat
    /\ \A f \in Fields : kept[f] # MIXED
    /\ Kept
    /\ job \in [todo : Seq(Target), form : {NoForm, "sensor"} \cup DOMAIN Forms, v : Int,
               empty : BOOLEAN]
    /\ job.v # MIXED
    /\ phase = "off" => job.todo = <<>> /\ (Marked \/ NeverSet)
    /\ Booting =>
          /\ NeverSet /\ job.v = DEFAULT
          /\ Marked \/ (job.todo # <<>> /\ Head(job.todo) = {InitField})
    /\ phase \notin {"off", "param"} => Marked /\ job.todo \in Seq(Single)

LEMMA KInit == Init => KInv
  BY InitInTable DEF Init, KInv, Kept, Idle, NeverSet, Booting, BLANK, MIXED, DEFAULT

(* What a write stores is a setting of its own and nothing else *)
LEMMA StoreKeeps ==
    ASSUME Fits, KInv, Store
    PROVE  KInv'
  <1> DEFINE fs == Head(job.todo)
             rest == Tail(job.todo)
  <1>1. fs \in Target /\ rest \in Seq(Target) BY DEF Store, KInv
  <1>2. phase # "off" BY DEF Store, KInv
  <1>3. Booting \/ (~Booting /\ fs \in Single /\ rest \in Seq(Single) /\ Marked)
    BY <1>2 DEF Store, KInv, Booting
  <1>4. forms' = forms BY DEF Store
  <1>5. job' = (IF rest = <<>> THEN Idle ELSE [job EXCEPT !.todo = rest])
        /\ phase' = (IF Booting /\ rest = <<>> THEN "LOGGER" ELSE phase)
    BY DEF Store
  <1>6. /\ job' \in [todo : Seq(Target), form : {NoForm, "sensor"} \cup DOMAIN Forms, v : Int,
                     empty : BOOLEAN]
        /\ job'.todo = rest /\ job'.v # MIXED /\ (job.v = DEFAULT => job'.v = DEFAULT)
    <2>1. job \in [todo : Seq(Target), form : {NoForm, "sensor"} \cup DOMAIN Forms, v : Int,
                  empty : BOOLEAN] /\ job.v # MIXED
      BY DEF KInv
    <2>2. CASE rest = <<>>
      <3>1. job' = Idle BY <1>5, <2>2
      <3>2. <<>> \in Seq(Target) OBVIOUS
      <3>. QED BY <2>2, <3>1, <3>2 DEF Idle, DEFAULT, MIXED
    <2>3. CASE rest # <<>>
      <3>1. job' = [job EXCEPT !.todo = rest] BY <1>5, <2>3
      <3> HIDE DEF rest
      <3>. QED BY <1>1, <2>1, <3>1
    <2>. QED BY <2>2, <2>3
  <1>7. /\ mem' \in [Fields -> Int] /\ kept' \in [Fields -> Int]
        /\ \A f \in Fields : kept'[f] # MIXED
        /\ Kept' /\ (Booting => NeverSet' /\ Marked') /\ (~Booting => Marked')
    <2>1. CASE IsSkipped(fs)
      <3>1. mem' = mem /\ kept' = kept BY <2>1 DEF Store
      <3>2. ~Booting BY <2>1 DEF IsSkipped, IsEmpty
      <3>. QED BY <1>3, <3>1, <3>2 DEF KInv, Kept, Marked
    <2>2. CASE ~IsSkipped(fs)
      <3> DEFINE c == Content(fs)
      <3>1. /\ EEwrite(fs, Bytes(fs), c)
            /\ kept' = [f \in Fields |-> IF f \in fs /\ ~Booting THEN c ELSE kept[f]]
        BY <2>2 DEF Store
      <3>2. c \in Int /\ c # MIXED /\ (Booting => c = DEFAULT)
        BY DEF Content, KInv, LEFT, MIXED, IsEmpty
      <3>3. \A f \in Fields : f \notin fs => ~RunsOver(At(fs), Bytes(fs), f)
        BY <1>1, <1>3, <2>2, WriteIsOwn
      <3>4. mem' = [f \in Fields |-> IF f \in fs THEN c ELSE mem[f]]
        BY <3>1, <3>3 DEF EEwrite
      <3> HIDE DEF c, fs
      <3>5. mem' \in [Fields -> Int] /\ kept' \in [Fields -> Int] /\ \A f \in Fields : kept'[f] # MIXED
        BY <3>1, <3>2, <3>4 DEF KInv
      <3>6. CASE Booting
        <4>1. kept' = kept BY <3>1, <3>6 DEF KInv
        <4>2. NeverSet' BY <3>6, <4>1 DEF KInv, NeverSet
        <4>3. Marked'
          <5>1. InitField \in fs => mem'[InitField] = DEFAULT
            BY <3>2, <3>4, <3>6, InitInTable
          <5>2. InitField \notin fs => Marked /\ mem'[InitField] = mem[InitField]
            BY <3>4, <3>6, InitInTable DEF KInv, fs
          <5>. QED BY <5>1, <5>2 DEF Marked, InitField
        <4>. QED BY <3>5, <3>6, <4>2, <4>3 DEF Kept, NeverSet
      <3>7. CASE ~Booting
        <4>1. Kept' BY <3>1, <3>4, <3>7 DEF Kept, KInv
        <4>2. InitField \notin fs BY <1>3, <3>7 DEF Single
        <4>3. Marked' BY <1>3, <3>4, <3>7, <4>2, InitInTable DEF Marked, InitField
        <4>. QED BY <3>5, <3>7, <4>1, <4>3
      <3>. QED BY <3>6, <3>7
    <2>. QED BY <2>1, <2>2
  <1>8. CASE Booting
    <2>1. phase' \in {"param", "LOGGER"} /\ (phase' = "LOGGER" => rest = <<>>)
      BY <1>5, <1>8 DEF Booting
    <2>2. job'.v = DEFAULT BY <1>6, <1>8 DEF KInv
    <2>3. <<>> \in Seq(Single) OBVIOUS
    <2>. QED BY <1>4, <1>6, <1>7, <1>8, <2>1, <2>2, <2>3 DEF KInv, Booting
  <1>9. CASE ~Booting
    <2>1. phase' = phase BY <1>5, <1>9
    <2>. QED BY <1>2, <1>3, <1>4, <1>6, <1>7, <1>9, <2>1 DEF KInv, Booting
  <1>. QED BY <1>8, <1>9

(* The other steps write no setting, but for a switch that was no switch *)
LEMMA StepKeeps ==
    ASSUME Fits, KInv, [Next]_vars
    PROVE  KInv'
  <1>1. CASE InitParam
    <2>1. CASE Marked
      <3>1. phase' = "LOGGER" /\ UNCHANGED <<mem, kept, job, forms>> BY <1>1, <2>1 DEF InitParam
      <3>2. job.todo = <<>> BY <1>1 DEF InitParam, KInv
      <3>3. <<>> \in Seq(Single) OBVIOUS
      <3>. QED BY <2>1, <3>1, <3>2, <3>3 DEF KInv, Kept, Marked, Booting
    <2>2. CASE ~Marked
      <3>1. phase' = "param" /\ UNCHANGED <<mem, kept, forms>> /\ job' = [Idle EXCEPT !.todo = FirstBoot]
        BY <1>1, <2>2 DEF InitParam
      <3>2. NeverSet BY <1>1, <2>2 DEF InitParam, KInv
      <3>3. /\ job' \in [todo : Seq(Target), form : {NoForm, "sensor"} \cup DOMAIN Forms, v : Int,
                         empty : BOOLEAN]
            /\ job'.todo = FirstBoot /\ job'.v = DEFAULT
        <4>1. FirstBoot \in Seq(Target) BY FirstBootIsTarget
        <4>2. job' = [todo |-> FirstBoot, form |-> NoForm, v |-> DEFAULT, empty |-> FALSE]
          BY <3>1 DEF Idle
        <4>. QED BY <4>1, <4>2 DEF DEFAULT
      <3>. QED BY <3>1, <3>2, <3>3, FirstBootIsTarget
               DEF KInv, Kept, NeverSet, Marked, Booting, DEFAULT, MIXED
    <2>. QED BY <2>1, <2>2
  <1>2. CASE Store
    BY <1>2, StoreKeeps
  <1>3. ASSUME NEW g \in Groups, InitNVMark(g) \/ InitNVWords(g) PROVE KInv'
    <2>1. phase \notin {"off", "param"} /\ phase' \notin {"off", "param"}
          /\ UNCHANGED <<mem, kept, job, forms>>
      BY <1>3 DEF InitNVMark, InitNVWords, Words, AfterGroup, Groups
    <2>. QED BY <2>1 DEF KInv, Kept, NeverSet, Marked, Booting
  <1>4. CASE InitMqttEnable
    <2>1. phase = "mqtt" /\ phase' = "on" /\ UNCHANGED <<kept, job, forms>> BY <1>4 DEF InitMqttEnable
    <2>2. MqttEnable \in Fields /\ MqttEnable # InitField
      BY OneNames, FieldOfName DEF Ones, Plain, MqttEnable, InitField
    <2>3. mem' = mem \/ (mem[MqttEnable] \in {BLANK, MIXED} /\ mem' = [mem EXCEPT ![MqttEnable] = DEFAULT])
      BY <1>4 DEF InitMqttEnable
    <2>4. mem' \in [Fields -> Int] BY <2>3 DEF KInv, DEFAULT
    <2>5. Kept'
      <3>1. mem[MqttEnable] \in {BLANK, MIXED} => kept[MqttEnable] = BLANK
        BY <2>2 DEF KInv, Kept
      <3>. QED BY <2>1, <2>2, <2>3, <3>1 DEF KInv, Kept
    <2>6. Marked'
      <3>1. mem[InitField] = DEFAULT BY <2>1 DEF KInv, Marked, InitField
      <3>2. mem'[InitField] = mem[InitField] BY <2>2, <2>3, InitInTable DEF KInv
      <3>. QED BY <3>1, <3>2 DEF Marked, InitField
    <2>. QED BY <2>1, <2>4, <2>5, <2>6 DEF KInv, Booting
  <1>5. ASSUME NEW form, NEW todo \in Seq(Single), Submit(form, todo),
               form \in {"sensor"} \cup DOMAIN Forms
        PROVE  KInv'
    <2>1. phase = "on" /\ UNCHANGED <<mem, kept, phase>> /\ forms' = forms + 1
      BY <1>5 DEF Submit
    <2>2. PICK empty \in BOOLEAN :
              job' = [todo |-> todo, form |-> form, v |-> forms + 1, empty |-> empty]
      BY <1>5 DEF Submit
    <2>3. Single \subseteq Target BY DEF Target
    <2>4. todo \in Seq(Target) BY <2>3
    <2>5. job' \in [todo : Seq(Target), form : {NoForm, "sensor"} \cup DOMAIN Forms, v : Int,
                   empty : BOOLEAN]
          /\ job'.todo = todo /\ job'.v # MIXED
      BY <1>5, <2>2, <2>4 DEF KInv, MIXED
    <2>. QED BY <2>1, <2>5 DEF KInv, Kept, Marked, Booting
  <1>6. CASE SubmitForm
    BY <1>5, <1>6, FormsAreSingle DEF SubmitForm
  <1>7. CASE SubmitSensor
    BY <1>5, <1>7, SensorFormIsSingle DEF SubmitSensor
  <1>8. CASE Restart
    <2>1. phase' = "off" /\ job' = Idle /\ UNCHANGED <<mem, kept, forms>> BY <1>8 DEF Restart
    <2>2. Marked \/ NeverSet BY DEF KInv, Booting
    <2>3. <<>> \in Seq(Target) OBVIOUS
    <2>. QED BY <2>1, <2>2, <2>3 DEF KInv, Kept, NeverSet, Marked, Booting, Idle, DEFAULT, MIXED
  <1>9. CASE UNCHANGED vars
    BY <1>9 DEF vars, KInv, Kept, NeverSet, Marked, Booting
  <1>. QED BY <1>1, <1>2, <1>3, <1>4, <1>6, <1>7, <1>8, <1>9 DEF Next

(* If every text fits into its place, a setting stays as a form last       *)
(* stored it, over other forms, restarts at any moment and first boots.    *)
THEOREM StoredSettingsStay ==
    ASSUME Fits
    PROVE  Spec => []Kept
  <1>1. Init => KInv BY KInit
  <1>2. KInv /\ [Next]_vars => KInv' BY StepKeeps
  <1>3. KInv => Kept BY DEF KInv
  <1>. QED BY <1>1, <1>2, <1>3, PTL DEF Spec
-----------------------------------------------------------------------------
(* The types, whether or not the texts fit                                 *)
JobType == [todo : Seq(SUBSET Fields), form : {NoForm, "sensor"} \cup DOMAIN Forms, v : Contents,
            empty : BOOLEAN]
TInv == TypeOK /\ job \in JobType

LEMMA TargetsAreFields == Target \subseteq SUBSET Fields
  <1>1. GsmServer \subseteq Fields BY OneNames, FieldOfName DEF GsmServer, Ones, Plain
  <1>. QED BY <1>1, InitInTable DEF Target, Single, SensorBlock

LEMMA CopiedAreFields == Copied \subseteq Fields
  <1>1. MqttEnable \in Fields BY OneNames, FieldOfName DEF Ones, Plain, MqttEnable
  <1>. QED BY <1>1 DEF Copied, Login, Named

(* The contents that are no form's                                         *)
LEMMA MarksAreContents ==
    {BLANK, DEFAULT, MIXED, LEFT, CLEAR} \subseteq Contents
  BY DEF Contents

LEMMA IdleIsJob == Idle \in JobType
  BY MarksAreContents DEF Idle, JobType

LEMMA StoreTypes ==
    ASSUME TInv, Store
    PROVE  TInv'
  <1> DEFINE fs == Head(job.todo)
             rest == Tail(job.todo)
  <1>1. job \in JobType /\ job.todo # <<>> BY DEF Store, TInv
  <1>2. rest \in Seq(SUBSET Fields) BY <1>1 DEF JobType
  <1>3. job' \in JobType
    <2>1. CASE rest = <<>> BY <2>1, IdleIsJob DEF Store
    <2>2. CASE rest # <<>>
      <3>1. job' = [job EXCEPT !.todo = rest] BY <2>2 DEF Store
      <3> HIDE DEF rest
      <3>. QED BY <1>1, <1>2, <3>1 DEF JobType
    <2>. QED BY <2>1, <2>2
  <1>4. Content(fs) \in Contents
    BY <1>1, MarksAreContents DEF Content, JobType
  <1>5. mem' \in [Fields -> Contents] /\ kept' \in [Fields -> Contents] /\ ram' \in [Copied -> Contents]
    <2>1. CASE IsSkipped(fs) BY <2>1 DEF Store, TInv, TypeOK
    <2>2. CASE ~IsSkipped(fs)
      <3> DEFINE c == Content(fs)
      <3>1. /\ EEwrite(fs, Bytes(fs), c)
            /\ ram' = [f \in Copied |-> IF f \notin Copies(fs) THEN ram[f]
                                       ELSE IF f \in fs THEN c ELSE MIXED]
            /\ kept' = [f \in Fields |-> IF f \in fs /\ ~Booting THEN c ELSE kept[f]]
        BY <2>2 DEF Store
      <3>2. mem' = [f \in Fields |-> IF f \in fs THEN c
                                    ELSE IF RunsOver(At(fs), Bytes(fs), f) THEN MIXED ELSE mem[f]]
        BY <3>1 DEF EEwrite
      <3>3. c \in Contents BY <1>4
      <3> HIDE DEF c, fs
      <3>. QED BY <3>1, <3>2, <3>3, MarksAreContents DEF TInv, TypeOK
    <2>. QED BY <2>1, <2>2
  <1>6. phase' \in {phase, "LOGGER"} /\ UNCHANGED <<nv, loaded, input3, torn, nvTorn, forms, cuts>>
    BY DEF Store
  <1>. QED BY <1>3, <1>5, <1>6 DEF TInv, TypeOK, JobType, Groups

LEMMA StepTypes ==
    ASSUME TInv, [Next]_vars
    PROVE  TInv'
  <1>1. CASE InitParam
    <2>1. ram' \in [Copied -> Contents]
      BY <1>1, CopiedAreFields, MarksAreContents DEF InitParam, TInv, TypeOK
    <2>2. job' \in JobType
      <3>1. CASE Marked BY <1>1, <3>1 DEF InitParam, TInv
      <3>2. CASE ~Marked
        <4>1. FirstBoot \in Seq(SUBSET Fields) BY FirstBootIsTarget, TargetsAreFields
        <4>2. job' = [todo |-> FirstBoot, form |-> NoForm, v |-> DEFAULT, empty |-> FALSE]
          BY <1>1, <3>2 DEF InitParam, Idle
        <4>. QED BY <4>1, <4>2, MarksAreContents DEF JobType
      <3>. QED BY <3>1, <3>2
    <2>3. /\ UNCHANGED <<mem, nv, kept, input3, torn, nvTorn, forms, cuts>>
          /\ phase' \in {"LOGGER", "param"} /\ loaded' \in BOOLEAN
      BY <1>1 DEF InitParam
    <2>. QED BY <2>1, <2>2, <2>3 DEF TInv, TypeOK, JobType, Groups
  <1>2. CASE Store
    BY <1>2, StoreTypes
  <1>3. ASSUME NEW g \in Groups, InitNVMark(g) \/ InitNVWords(g) PROVE TInv'
    <2>1. /\ UNCHANGED <<mem, ram, job, kept, loaded, input3, torn, nvTorn, forms, cuts>>
          /\ phase' \in {"mqtt"} \cup Groups \cup {Words(h) : h \in Groups}
          /\ nv' = nv \/ \E w \in {"marked", "clear"} : nv' = [nv EXCEPT ![g] = w]
      BY <1>3 DEF InitNVMark, InitNVWords, AfterGroup, Groups
    <2>2. nv' \in [Groups -> {"junk", "marked", "clear"}]
      BY <1>3, <2>1 DEF TInv, TypeOK
    <2>. QED BY <2>1, <2>2 DEF TInv, TypeOK
  <1>4. CASE InitMqttEnable
    <2>1. MqttEnable \in Fields
      BY CopiedAreFields DEF Copied
    <2>2. mem' \in [Fields -> Contents] /\ ram' \in [Copied -> Contents]
      BY <1>4, <2>1, MarksAreContents DEF InitMqttEnable, TInv, TypeOK
    <2>3. phase' = "on" /\ UNCHANGED <<nv, job, kept, loaded, input3, torn, nvTorn, forms, cuts>>
      BY <1>4 DEF InitMqttEnable
    <2>. QED BY <2>2, <2>3 DEF TInv, TypeOK
  <1>5. ASSUME NEW form \in {"sensor"} \cup DOMAIN Forms, NEW todo \in Seq(Single), Submit(form, todo)
        PROVE  TInv'
    <2>1. forms \in Nat /\ MaxForms \in Nat /\ forms < MaxForms
      BY <1>5, ParameterBoundsAssumption DEF Submit, TInv, TypeOK
    <2>2. forms + 1 \in Contents /\ forms + 1 \in 0 .. MaxForms
      BY <2>1 DEF Contents
    <2>3. todo \in Seq(SUBSET Fields)
      BY TargetsAreFields DEF Target
    <2>4. job' \in JobType
      BY <1>5, <2>2, <2>3 DEF Submit, JobType
    <2>5. /\ forms' = forms + 1 /\ input3' \in BOOLEAN
          /\ UNCHANGED <<mem, ram, nv, phase, kept, loaded, torn, nvTorn, cuts>>
      BY <1>5 DEF Submit, TInv, TypeOK
    <2>. QED BY <2>2, <2>4, <2>5 DEF TInv, TypeOK, JobType
  <1>6. CASE SubmitForm
    BY <1>5, <1>6, FormsAreSingle DEF SubmitForm
  <1>7. CASE SubmitSensor
    BY <1>5, <1>7, SensorFormIsSingle DEF SubmitSensor
  <1>8. CASE Restart
    <2>1. cuts' \in 0 .. MaxCuts
      BY <1>8, ParameterBoundsAssumption DEF Restart, TInv, TypeOK
    <2>2. job' \in JobType /\ ram' \in [Copied -> Contents]
      BY <1>8, IdleIsJob, MarksAreContents DEF Restart
    <2>3. /\ phase' = "off" /\ UNCHANGED <<mem, nv, kept, loaded, forms>>
          /\ torn' \in BOOLEAN /\ nvTorn' \in BOOLEAN /\ input3' \in BOOLEAN
      BY <1>8 DEF Restart, TInv, TypeOK
    <2>. QED BY <2>1, <2>2, <2>3 DEF TInv, TypeOK, JobType
  <1>9. CASE UNCHANGED vars
    BY <1>9 DEF vars, TInv, TypeOK
  <1>. QED BY <1>1, <1>2, <1>3, <1>4, <1>6, <1>7, <1>8, <1>9 DEF Next

(* Nothing is set when the device leaves the workbench.                    *)
LEMMA InitTypes == Init => TInv
  <1> SUFFICES ASSUME Init PROVE TInv
    OBVIOUS
  <1>1. /\ mem \in [Fields -> Contents] /\ kept \in [Fields -> Contents]
        /\ ram \in [Copied -> Contents] /\ job \in JobType
    BY MarksAreContents, IdleIsJob DEF Init
  <1>2. nv \in [Groups -> {"junk", "marked", "clear"}] BY DEF Init
  <1>3. /\ job.todo \in Seq(SUBSET Fields) /\ job.v \in Contents /\ job.empty \in BOOLEAN
        /\ job.form \in {NoForm, "sensor"} \cup DOMAIN Forms
    BY <1>1 DEF JobType
  <1>4. /\ phase = "off" /\ forms \in 0 .. MaxForms /\ cuts \in 0 .. MaxCuts
        /\ loaded = FALSE /\ input3 = FALSE /\ torn = FALSE /\ nvTorn = FALSE
    BY ParameterBoundsAssumption DEF Init
  <1> HIDE DEF JobType
  <1>. QED BY <1>1, <1>2, <1>3, <1>4 DEF TInv, TypeOK

(* Parameters keeps its types whatever the boots, the forms and EEwrite    *)
(* do, with texts of any length that fits into a page.                     *)
THEOREM SettingsTyped == Spec => []TypeOK
  <1>1. Init => TInv BY InitTypes
  <1>2. TInv /\ [Next]_vars => TInv' BY StepTypes
  <1>3. TInv => TypeOK BY DEF TInv
  <1>. QED BY <1>1, <1>2, <1>3, PTL DEF Spec
-----------------------------------------------------------------------------
(* A write of the list fills the setting                                   *)
Covers(list, f) == \E k \in 1 .. Len(list) : f \in list[k]

LEMMA ConcatenationCovers ==
    ASSUME NEW a \in Seq(SUBSET Fields), NEW b \in Seq(SUBSET Fields), NEW f,
           Covers(a, f) \/ Covers(b, f)
    PROVE  Covers(a \o b, f)
  <1>1. CASE Covers(a, f)
    <2>1. PICK k \in 1 .. Len(a) : f \in a[k] BY <1>1 DEF Covers
    <2>2. k \in 1 .. Len(a \o b) /\ (a \o b)[k] = a[k] OBVIOUS
    <2>. QED BY <2>1, <2>2 DEF Covers
  <1>2. CASE Covers(b, f)
    <2>1. PICK k \in 1 .. Len(b) : f \in b[k] BY <1>2 DEF Covers
    <2>2. k + Len(a) \in 1 .. Len(a \o b) /\ (a \o b)[k + Len(a)] = b[k] OBVIOUS
    <2>. QED BY <2>1, <2>2 DEF Covers
  <1>. QED BY <1>1, <1>2

LEMMA AllCovers ==
    ASSUME NEW name \in DOMAIN Table, NEW i \in 0 .. Count(name) - 1
    PROVE  Covers(All(name), <<name, i>>)
  <1>1. Count(name) \in Nat BY CountIsNumber
  <1>2. /\ i + 1 \in 1 .. Len(All(name)) /\ All(name)[i + 1] = {<<name, i>>}
    BY <1>1 DEF All
  <1>. QED BY <1>2 DEF Covers

(* A sensor's block holds its settings but for the name                    *)
InBlock == {"CODE", "LOW_ALARM", "HIGH_ALARM", "HIST", "ACTIVE", "CHANNEL", "WAPP_ON", "SMS",
            "MTYPE", "DELAY", "CALIB"}

LEMMA SensorsCovered ==
    ASSUME NEW name \in InBlock \cup {"SENSOR_NAME"}, NEW s \in 0 .. SENSORS - 1
    PROVE  Covers(InitSensors, <<name, s>>)
  <1>1. s \in Nat /\ SENSORS \in Nat BY CountsAssumption
  <1> DEFINE item(j) == IF j % 2 = 1 THEN SensorBlock((j - 1) \div 2)
                        ELSE {<<"SENSOR_NAME", (j - 1) \div 2>>}
  <1>2. InitSensors = [j \in 1 .. 2 * SENSORS |-> item(j)] BY DEF InitSensors
  <1> HIDE DEF item
  <1>3. Len(InitSensors) = 2 * SENSORS /\ \A j \in 1 .. 2 * SENSORS : InitSensors[j] = item(j)
    BY <1>1, <1>2
  <1>4. CASE name \in InBlock
    <2>1. 2 * s + 1 \in 1 .. 2 * SENSORS /\ (2 * s + 1) % 2 = 1 /\ ((2 * s + 1) - 1) \div 2 = s
      BY <1>1
    <2>2. InitSensors[2 * s + 1] = SensorBlock(s)
      BY <1>3, <2>1 DEF item
    <2>3. <<name, s>> \in Fields
      BY <1>4, SensorNames, FieldOfName DEF InBlock, Plain
    <2>4. Table[name].at \in 256 .. 319 /\ Table[name].step = 256
      BY <1>4 DEF InBlock, Table, EachSensor, Row
    <2>5. Start(<<name, s>>) = Table[name].at + s * 256
      BY <2>4 DEF Start
    <2>6. Start(<<name, s>>) \in 256 * (s + 1) .. 256 * (s + 1) + PAGE - 1
      BY <1>1, <2>4, <2>5 DEF PAGE
    <2>7. <<name, s>> \in SensorBlock(s)
      BY <2>3, <2>6 DEF SensorBlock
    <2>. QED BY <1>3, <2>1, <2>2, <2>7 DEF Covers
  <1>5. CASE name = "SENSOR_NAME"
    <2>1. 2 * s + 2 \in 1 .. 2 * SENSORS /\ (2 * s + 2) % 2 = 0 /\ ((2 * s + 2) - 1) \div 2 = s
      BY <1>1
    <2>2. InitSensors[2 * s + 2] = {<<"SENSOR_NAME", s>>}
      BY <1>3, <2>1 DEF item
    <2>. QED BY <1>3, <1>5, <2>1, <2>2 DEF Covers
  <1>. QED BY <1>4, <1>5

(* The settings that the first boot gives a default                        *)
Defaulted == Fields \ (NoDefault \cup {MqttEnable})

WithDefault ==
    {"INIT", "NET", "SNTP", "GSM_NUM", "GSM_NAME", "GSM_IP", "GSM_PORT", "SENSOR_NAME",
     "HTTP_PORT", "DDNS_STATE", "DHCP_STATE", "DDNS_HOST", "OBJECT_NAME", "PASS", "USERNAME",
     "SCAN_TIME", "GSM_UNAME", "GSM_PASS", "TIME_ZONE", "SNTP_STATE", "DST_ACTIVETIME"}
    \cup InBlock

LEMMA DefaultedNames ==
    \A f \in Defaulted :
        /\ f[1] \in DOMAIN Table /\ f[2] \in 0 .. Count(f[1]) - 1 /\ f = <<f[1], f[2]>>
        /\ f[1] \in WithDefault
  <1> SUFFICES ASSUME NEW f \in Defaulted
               PROVE
        /\ f[1] \in DOMAIN Table /\ f[2] \in 0 .. Count(f[1]) - 1 /\ f = <<f[1], f[2]>>
        /\ f[1] \in WithDefault
    OBVIOUS
  <1>1. f \in Fields /\ f \notin NoDefault /\ f # MqttEnable BY DEF Defaulted
  <1>2. PICK name \in DOMAIN Table : f \in {name} \X (0 .. Table[name].of - 1)
    BY <1>1 DEF Fields, Slots
  <1>3. f[1] = name /\ f[2] \in 0 .. Table[name].of - 1 /\ f = <<f[1], f[2]>>
    BY <1>2
  <1>4. f[2] < Count(name) BY <1>1, <1>3 DEF Fields
  <1>5. f[2] \in 0 .. Count(name) - 1 BY <1>3, <1>4, CountIsNumber
  <1>6. name \notin {"ALARM_IP", "ALARM_PORT", "STATUS_TIME", "STATUS_SEND", "DST_STATE", "INPUT_NAME",
           "INPUT_ALARM", "INPUT_TIP", "INPUT_WAPP", "INPUT_SMS", "INPUT_DELAY", "WAPP_NUM",
           "WAPP_KEY", "WAPP_NAME", "MQTT_SERVER", "MQTT_UNAME", "MQTT_PASS", "MQTT_TOPIC",
           "MQTT_PORT", "MQTT_QOS", "MQTT_KEEPALIVE", "MQTT_PERIOD"}
    BY <1>1, <1>3 DEF NoDefault, Named
  <1>7. name # "MQTT_ENABLE"
    <2>1. Count("MQTT_ENABLE") = 1 BY OneNames DEF Ones
    <2>. QED BY <1>1, <1>3, <1>5, <2>1 DEF MqttEnable
  <1>8. DOMAIN Table = {"INIT", "NET", "HTTP_PORT", "DHCP_STATE", "DDNS_STATE", "ALARM_IP",
          "ALARM_PORT", "USERNAME", "PASS", "DDNS_HOST", "OBJECT_NAME", "STATUS_TIME", "SCAN_TIME",
          "STATUS_SEND", "CODE", "LOW_ALARM", "HIGH_ALARM", "HIST", "ACTIVE", "CHANNEL", "WAPP_ON",
          "SMS", "MTYPE", "DELAY", "CALIB", "SENSOR_NAME", "GSM_IP", "GSM_PORT", "GSM_UNAME",
          "GSM_PASS", "GSM_NUM", "GSM_NAME", "DST_STATE", "TIME_ZONE", "SNTP_STATE",
          "DST_ACTIVETIME", "SNTP", "INPUT_NAME", "INPUT_ALARM", "INPUT_TIP", "INPUT_WAPP",
          "INPUT_SMS", "INPUT_DELAY", "WAPP_NUM", "WAPP_KEY", "WAPP_NAME", "MQTT_SERVER",
          "MQTT_UNAME", "MQTT_PASS", "MQTT_TOPIC", "MQTT_ENABLE", "MQTT_PORT", "MQTT_QOS",
          "MQTT_KEEPALIVE", "MQTT_PERIOD"}
    BY DEF Table
  <1>9. name \in WithDefault
    BY <1>6, <1>7, <1>8 DEF InBlock, WithDefault
  <1>. QED BY <1>3, <1>5, <1>9

(* The first boot leaves none of them out                                  *)
LEMMA FirstBootCovers ==
    ASSUME NEW f \in Defaulted PROVE Covers(FirstBoot, f)
  <1> DEFINE net == Singles(<<"HTTP_PORT", "DDNS_STATE", "DHCP_STATE", "DDNS_HOST", "OBJECT_NAME",
                              "PASS", "USERNAME", "SCAN_TIME">>)
             server == <<GsmServer>>
             login == Singles(<<"GSM_UNAME", "GSM_PASS">>)
             zone == Singles(<<"TIME_ZONE", "SNTP_STATE", "DST_ACTIVETIME">>)
             init == Singles(<<"INIT">>)
             Lists == Seq(SUBSET Fields)
  <1>1. Target \subseteq SUBSET Fields BY TargetsAreFields
  <1>2. Seq(Single) \subseteq Lists
    <2>1. Single \subseteq SUBSET Fields BY DEF Single
    <2>. QED BY <2>1
  <1>3. net \in Lists /\ login \in Lists /\ zone \in Lists /\ init \in Lists /\ server \in Lists
    <2>1. <<"HTTP_PORT", "DDNS_STATE", "DHCP_STATE", "DDNS_HOST", "OBJECT_NAME", "PASS",
            "USERNAME", "SCAN_TIME">> \in Seq(Ones)
          /\ <<"GSM_UNAME", "GSM_PASS">> \in Seq(Ones)
          /\ <<"TIME_ZONE", "SNTP_STATE", "DST_ACTIVETIME">> \in Seq(Ones)
      BY OneNames
    <2>2. net \in Seq(Single) /\ login \in Seq(Single) /\ zone \in Seq(Single)
      BY <2>1, SinglesAreSingle
    <2>3. init = <<{InitField}>> BY DEF Singles, InitField
    <2>4. {InitField} \in SUBSET Fields /\ GsmServer \in SUBSET Fields
      BY <1>1 DEF Target
    <2> HIDE DEF net, login, zone, init
    <2>. QED BY <1>2, <2>2, <2>3, <2>4
  <1>4. All("NET") \in Lists /\ All("SNTP") \in Lists /\ All("GSM_NUM") \in Lists
        /\ All("GSM_NAME") \in Lists
    BY <1>2, AllAreSingle, SensorNames
  <1>5. InitSensors \in Lists
    <2> DEFINE item(j) == IF j % 2 = 1 THEN SensorBlock((j - 1) \div 2)
                          ELSE {<<"SENSOR_NAME", (j - 1) \div 2>>}
    <2>1. \A j \in 1 .. 2 * SENSORS : item(j) \in SUBSET Fields
      <3> TAKE j \in 1 .. 2 * SENSORS
      <3>1. (j - 1) \div 2 \in 0 .. SENSORS - 1 BY CountsAssumption
      <3>2. {<<"SENSOR_NAME", (j - 1) \div 2>>} \in Single BY <3>1, SensorNames, PlainNames
      <3>3. SensorBlock((j - 1) \div 2) \subseteq Fields BY DEF SensorBlock
      <3>. QED BY <3>2, <3>3 DEF Single
    <2>2. 2 * SENSORS \in Nat BY CountsAssumption
    <2>3. InitSensors = [j \in 1 .. 2 * SENSORS |-> item(j)] BY DEF InitSensors
    <2> HIDE DEF item
    <2>. QED BY <2>1, <2>2, <2>3
  <1>6. /\ InitSMS = server \o login \o All("GSM_NUM") \o All("GSM_NAME")
        /\ InitSNTP = All("SNTP") \o zone
        /\ FirstBoot = init \o All("NET") \o net \o InitSensors \o InitSMS \o InitSNTP
    BY DEF InitSMS, InitSNTP, FirstBoot, GsmServer
  <1>7. /\ Covers(init, <<"INIT", 0>>)
        /\ \A name \in {"HTTP_PORT", "DDNS_STATE", "DHCP_STATE", "DDNS_HOST", "OBJECT_NAME",
                        "PASS", "USERNAME", "SCAN_TIME"} : Covers(net, <<name, 0>>)
        /\ \A name \in {"GSM_UNAME", "GSM_PASS"} : Covers(login, <<name, 0>>)
        /\ \A name \in {"TIME_ZONE", "SNTP_STATE", "DST_ACTIVETIME"} : Covers(zone, <<name, 0>>)
        /\ \A name \in {"GSM_IP", "GSM_PORT"} : Covers(server, <<name, 0>>)
    <2>1. init = <<{InitField}>> BY DEF Singles, InitField
    <2>2. net = <<{<<"HTTP_PORT", 0>>}, {<<"DDNS_STATE", 0>>}, {<<"DHCP_STATE", 0>>},
                  {<<"DDNS_HOST", 0>>}, {<<"OBJECT_NAME", 0>>}, {<<"PASS", 0>>},
                  {<<"USERNAME", 0>>}, {<<"SCAN_TIME", 0>>}>>
      BY DEF Singles
    <2>3. login = <<{<<"GSM_UNAME", 0>>}, {<<"GSM_PASS", 0>>}>>
          /\ zone = <<{<<"TIME_ZONE", 0>>}, {<<"SNTP_STATE", 0>>}, {<<"DST_ACTIVETIME", 0>>}>>
      BY DEF Singles
    <2> HIDE DEF net, login, zone, init
    <2>4. Covers(init, <<"INIT", 0>>) BY <2>1 DEF Covers, InitField
    <2>5. \A name \in {"HTTP_PORT", "DDNS_STATE", "DHCP_STATE", "DDNS_HOST", "OBJECT_NAME",
                       "PASS", "USERNAME", "SCAN_TIME"} : Covers(net, <<name, 0>>)
      BY <2>2 DEF Covers
    <2>6. \A name \in {"GSM_UNAME", "GSM_PASS"} : Covers(login, <<name, 0>>)
      BY <2>3 DEF Covers
    <2>7. \A name \in {"TIME_ZONE", "SNTP_STATE", "DST_ACTIVETIME"} : Covers(zone, <<name, 0>>)
      BY <2>3 DEF Covers
    <2>8. \A name \in {"GSM_IP", "GSM_PORT"} : Covers(server, <<name, 0>>)
      BY DEF Covers, GsmServer
    <2>. QED BY <2>4, <2>5, <2>6, <2>7, <2>8
  <1> HIDE DEF net, server, login, zone, init, Lists
  <1>8. \A a, b \in Lists : \A g : a \o b \in Lists /\ (Covers(a, g) \/ Covers(b, g) => Covers(a \o b, g))
    <2>1. \A a, b \in Lists : a \o b \in Lists BY DEF Lists
    <2>. QED BY <2>1, ConcatenationCovers DEF Lists
  <1>9. InitSMS \in Lists /\ InitSNTP \in Lists
        /\ (\A g : Covers(server, g) \/ Covers(login, g) \/ Covers(All("GSM_NUM"), g)
                   \/ Covers(All("GSM_NAME"), g) => Covers(InitSMS, g))
        /\ (\A g : Covers(All("SNTP"), g) \/ Covers(zone, g) => Covers(InitSNTP, g))
    <2>1. server \o login \in Lists /\ server \o login \o All("GSM_NUM") \in Lists
      BY <1>3, <1>4, <1>8
    <2>. QED BY <1>3, <1>4, <1>6, <1>8, <2>1
  <1>10. \A g : Covers(init, g) \/ Covers(All("NET"), g) \/ Covers(net, g) \/ Covers(InitSensors, g)
                \/ Covers(InitSMS, g) \/ Covers(InitSNTP, g) => Covers(FirstBoot, g)
    <2>1. init \o All("NET") \in Lists /\ init \o All("NET") \o net \in Lists
          /\ init \o All("NET") \o net \o InitSensors \in Lists
          /\ init \o All("NET") \o net \o InitSensors \o InitSMS \in Lists
      BY <1>3, <1>4, <1>5, <1>8, <1>9
    <2>. QED BY <1>3, <1>4, <1>5, <1>6, <1>8, <1>9, <2>1
  <1>11. /\ f[1] \in DOMAIN Table /\ f[2] \in 0 .. Count(f[1]) - 1 /\ f = <<f[1], f[2]>>
         /\ f[1] \in WithDefault
    BY DefaultedNames
  <1>12. CASE f[1] \in {"NET", "SNTP", "GSM_NUM", "GSM_NAME"}
    <2>1. Covers(All(f[1]), f) BY <1>11, AllCovers
    <2>. QED BY <1>9, <1>10, <1>12, <2>1
  <1>13. CASE f[1] \in {"SENSOR_NAME"} \cup InBlock
    <2>1. Count(f[1]) = SENSORS BY <1>13, SensorNames DEF InBlock
    <2>2. Covers(InitSensors, f) BY <1>11, <1>13, <2>1, SensorsCovered
    <2>. QED BY <1>10, <2>2
  <1>14. CASE f[1] \in {"INIT", "GSM_IP", "GSM_PORT", "HTTP_PORT", "DDNS_STATE", "DHCP_STATE",
                        "DDNS_HOST", "OBJECT_NAME", "PASS", "USERNAME", "SCAN_TIME", "GSM_UNAME",
                        "GSM_PASS", "TIME_ZONE", "SNTP_STATE", "DST_ACTIVETIME"}
    <2>1. Count(f[1]) = 1
      <3>1. Count("INIT") = 1 BY DEF Count, Table, One, Row
      <3>. QED BY <1>14, <3>1, OneNames DEF Ones
    <2>2. f = <<f[1], 0>> BY <1>11, <2>1
    <2>3. Covers(init, f) \/ Covers(net, f) \/ Covers(login, f) \/ Covers(zone, f) \/ Covers(server, f)
      BY <1>7, <1>14, <2>2
    <2>. QED BY <1>9, <1>10, <2>3
  <1>. QED BY <1>11, <1>12, <1>13, <1>14 DEF WithDefault
-----------------------------------------------------------------------------
(***************************************************************************)
(* What a boot leaves unset.  A setting that has a value keeps one, so     *)
(* that the invariant is about the lists: what the first boot has not yet  *)
(* set is still to come, and the mark stands for all of it unless a first  *)
(* boot was cut; the same for the words of the backup SRAM.                *)
(***************************************************************************)
AllSet == \A f \in Defaulted : mem[f] # BLANK

SettingsSet ==
    /\ job.v # BLANK
    /\ phase = "off" => job.todo = <<>> /\ (Marked => torn \/ AllSet)
    /\ Booting => \A f \in Defaulted : mem[f] # BLANK \/ Covers(job.todo, f)
    /\ phase \notin {"off", "param"} => torn \/ AllSet
    /\ phase = "on" => mem[MqttEnable] # BLANK

WordsCleared ==
    /\ \A g \in Groups : nv[g] = "marked" => nvTorn \/ phase = Words(g)
    /\ phase \in {"MKT", "MKT words", "mqtt", "on"} => nv["LOGGER"] # "junk"
    /\ phase \in {"mqtt", "on"} => nv["MKT"] # "junk"

(* No write takes a setting's value away                                   *)
LEMMA StoreUnsetsNothing ==
    ASSUME TInv, SettingsSet, Store
    PROVE  /\ \A f \in Fields : mem[f] # BLANK => mem'[f] # BLANK
           /\ \A f \in Fields : Booting /\ f \in Head(job.todo) => mem'[f] # BLANK
  <1> DEFINE fs == Head(job.todo)
             c == Content(fs)
  <1>1. c # BLANK BY DEF Content, SettingsSet, LEFT, BLANK
  <1>2. CASE IsSkipped(fs)
    <2>1. mem' = mem /\ ~Booting BY <1>2 DEF Store, IsSkipped, IsEmpty
    <2>. QED BY <2>1
  <1>3. CASE ~IsSkipped(fs)
    <2>1. EEwrite(fs, Bytes(fs), c) BY <1>3 DEF Store
    <2>2. mem' = [f \in Fields |-> IF f \in fs THEN c
                                  ELSE IF RunsOver(At(fs), Bytes(fs), f) THEN MIXED ELSE mem[f]]
      BY <2>1 DEF EEwrite
    <2> HIDE DEF c
    <2>. QED BY <1>1, <2>2 DEF MIXED, BLANK
  <1>. QED BY <1>2, <1>3

LEMMA StoreSets ==
    ASSUME TInv, SettingsSet, Store PROVE SettingsSet'
  <1> DEFINE rest == Tail(job.todo)
  <1>0. job \in JobType /\ job.todo \in Seq(SUBSET Fields) /\ job.todo # <<>>
    BY DEF TInv, JobType, Store
  <1>1. /\ \A f \in Fields : mem[f] # BLANK => mem'[f] # BLANK
        /\ \A f \in Fields : Booting /\ f \in Head(job.todo) => mem'[f] # BLANK
    BY StoreUnsetsNothing
  <1>2. /\ job' = (IF rest = <<>> THEN Idle ELSE [job EXCEPT !.todo = rest])
        /\ phase' = (IF Booting /\ rest = <<>> THEN "LOGGER" ELSE phase) /\ torn' = torn
    BY DEF Store
  <1>3. job'.todo = rest /\ job'.v # BLANK
    <2>1. CASE rest = <<>> BY <1>2, <2>1 DEF Idle, DEFAULT, BLANK
    <2>2. CASE rest # <<>>
      <3>1. job' = [job EXCEPT !.todo = rest] BY <1>2, <2>2
      <3> HIDE DEF rest
      <3>. QED BY <1>0, <3>1 DEF JobType, SettingsSet
    <2>. QED BY <2>1, <2>2
  <1>4. Defaulted \subseteq Fields /\ MqttEnable \in Fields
    BY CopiedAreFields DEF Defaulted, Copied
  <1>5. AllSet => AllSet' BY <1>1, <1>4 DEF AllSet
  <1>6. CASE Booting
    <2>1. \A f \in Defaulted : mem'[f] # BLANK \/ Covers(rest, f)
      <3> SUFFICES ASSUME NEW f \in Defaulted, mem'[f] = BLANK PROVE Covers(rest, f)
        OBVIOUS
      <3>1. f \notin Head(job.todo) /\ Covers(job.todo, f)
        BY <1>1, <1>4, <1>6 DEF SettingsSet
      <3>2. PICK k \in 1 .. Len(job.todo) : f \in job.todo[k] BY <3>1 DEF Covers
      <3>3. k # 1 BY <1>0, <3>1, <3>2
      <3>4. k - 1 \in 1 .. Len(rest) /\ rest[k - 1] = job.todo[k]
        BY <1>0, <3>2, <3>3
      <3>. QED BY <3>2, <3>4 DEF Covers
    <2>2. CASE rest = <<>>
      <3>1. \A f \in Defaulted : ~Covers(rest, f)
        <4> HIDE DEF rest
        <4>1. Len(rest) = 0 BY <2>2
        <4>. QED BY <4>1 DEF Covers
      <3>2. AllSet' BY <2>1, <3>1 DEF AllSet
      <3>. QED BY <1>2, <1>3, <1>6, <2>2, <3>2 DEF SettingsSet, Booting
    <2>3. CASE rest # <<>>
      <3>1. phase' = "param" BY <1>2, <1>6, <2>3 DEF Booting
      <3> HIDE DEF rest
      <3>. QED BY <1>3, <2>1, <3>1 DEF SettingsSet, Booting
    <2>. QED BY <2>2, <2>3
  <1>7. CASE ~Booting
    <2>1. phase' = phase /\ phase # "off" BY <1>0, <1>2, <1>7 DEF SettingsSet
    <2>2. torn \/ AllSet BY <1>7, <2>1 DEF SettingsSet, Booting
    <2>. QED BY <1>1, <1>2, <1>3, <1>4, <1>5, <1>7, <2>1, <2>2 DEF SettingsSet, Booting
  <1>. QED BY <1>6, <1>7

(* The other steps.                                                        *)
LEMMA StepSets ==
    ASSUME TInv, SettingsSet, [Next]_vars PROVE SettingsSet'
  <1>0. MqttEnable \in Fields /\ Defaulted \subseteq Fields
    BY CopiedAreFields DEF Copied, Defaulted
  <1>1. CASE InitParam
    <2>1. CASE Marked
      BY <1>1, <2>1 DEF InitParam, SettingsSet, AllSet, Booting
    <2>2. CASE ~Marked
      <3>1. /\ phase' = "param" /\ UNCHANGED <<mem, torn>>
            /\ job' = [Idle EXCEPT !.todo = FirstBoot]
        BY <1>1, <2>2 DEF InitParam
      <3>2. job' = [todo |-> FirstBoot, form |-> NoForm, v |-> DEFAULT, empty |-> FALSE]
        BY <3>1 DEF Idle
      <3>3. job'.todo = FirstBoot /\ job'.v # BLANK BY <3>2 DEF DEFAULT, BLANK
      <3>. QED BY <3>1, <3>3, FirstBootCovers DEF SettingsSet, Booting
    <2>. QED BY <2>1, <2>2
  <1>2. CASE Store
    BY <1>2, StoreSets
  <1>3. ASSUME NEW g \in Groups, InitNVMark(g) \/ InitNVWords(g) PROVE SettingsSet'
    <2>1. phase \notin {"off", "param"} /\ phase' \notin {"off", "param", "on"}
          /\ UNCHANGED <<mem, job, torn>>
      BY <1>3 DEF InitNVMark, InitNVWords, Words, AfterGroup, Groups
    <2>. QED BY <2>1 DEF SettingsSet, AllSet, Booting
  <1>4. CASE InitMqttEnable
    <2>1. phase = "mqtt" /\ phase' = "on" /\ UNCHANGED <<job, torn>>
      BY <1>4 DEF InitMqttEnable
    <2>2. mem' = IF mem[MqttEnable] \in {BLANK, MIXED}
                 THEN [mem EXCEPT ![MqttEnable] = DEFAULT] ELSE mem
      BY <1>4 DEF InitMqttEnable
    <2>3. mem'[MqttEnable] # BLANK /\ \A f \in Fields : mem[f] # BLANK => mem'[f] # BLANK
      BY <1>0, <2>2 DEF TInv, TypeOK, DEFAULT, BLANK
    <2>4. torn \/ AllSet BY <2>1 DEF SettingsSet
    <2>. QED BY <1>0, <2>1, <2>3, <2>4 DEF SettingsSet, AllSet, Booting
  <1>5. ASSUME NEW form, NEW todo, Submit(form, todo) PROVE SettingsSet'
    <2>1. phase = "on" /\ UNCHANGED <<mem, phase, torn>>
      BY <1>5 DEF Submit
    <2>2. job'.v = forms + 1 /\ forms \in Nat
      BY <1>5, ParameterBoundsAssumption DEF Submit, TInv, TypeOK
    <2>. QED BY <2>1, <2>2 DEF SettingsSet, AllSet, Booting, BLANK
  <1>6. CASE SubmitForm
    BY <1>5, <1>6 DEF SubmitForm
  <1>7. CASE SubmitSensor
    BY <1>5, <1>7 DEF SubmitSensor
  <1>8. CASE Restart
    <2>1. /\ phase # "off" /\ phase' = "off" /\ job' = Idle /\ mem' = mem
          /\ torn' = (torn \/ Booting)
      BY <1>8 DEF Restart
    <2>2. torn' \/ AllSet'
      <3>1. torn \/ Booting \/ AllSet BY <2>1 DEF SettingsSet, Booting
      <3>2. AllSet => AllSet' BY <2>1 DEF AllSet
      <3>. QED BY <2>1, <3>1, <3>2, Zenon
    <2>3. job'.todo = <<>> /\ job'.v # BLANK BY <2>1 DEF Idle, DEFAULT, BLANK
    <2>. QED BY <2>1, <2>2, <2>3 DEF SettingsSet, Booting
  <1>9. CASE UNCHANGED vars
    BY <1>9 DEF vars, SettingsSet, AllSet, Booting, Marked
  <1>. QED BY <1>1, <1>2, <1>3, <1>4, <1>6, <1>7, <1>8, <1>9 DEF Next

(* The two groups of words, for every step.                                *)
LEMMA StepClears ==
    ASSUME TInv, SettingsSet, WordsCleared, [Next]_vars PROVE WordsCleared'
  <1>0. nv \in [Groups -> {"junk", "marked", "clear"}] /\ nvTorn \in BOOLEAN
    BY DEF TInv, TypeOK
  <1>1. ASSUME UNCHANGED <<nv, nvTorn>>,
               phase \notin {"logger words", "MKT words"},
               phase' \in {"off", "param", "LOGGER"} \/ phase' = phase
                 \/ (phase = "mqtt" /\ phase' = "on")
        PROVE  WordsCleared'
    <2>1. \A g \in Groups : nv'[g] = "marked" => nvTorn'
      <3>1. nv' = nv /\ nvTorn' = nvTorn BY <1>1
      <3>2. \A g \in Groups : Words(g) \in {"logger words", "MKT words"} BY DEF Words, Groups
      <3>3. \A g \in Groups : phase # Words(g) BY <1>1, <3>2, Zenon
      <3>. QED BY <3>1, <3>3, Zenon DEF WordsCleared
    <2>2. /\ phase' \in {"MKT", "MKT words", "mqtt", "on"} => nv'["LOGGER"] # "junk"
          /\ phase' \in {"mqtt", "on"} => nv'["MKT"] # "junk"
      BY <1>1 DEF WordsCleared
    <2>. QED BY <2>1, <2>2 DEF WordsCleared
  <1>2. CASE InitParam
    BY <1>1, <1>2 DEF InitParam
  <1>3. CASE Store
    <2>1. phase \in {"param"} \/ phase' = phase
      BY <1>3 DEF Store, Booting
    <2>2. UNCHANGED <<nv, nvTorn>> /\ phase' \in {phase, "LOGGER"}
      BY <1>3 DEF Store
    <2>. QED BY <2>1, <2>2 DEF WordsCleared, Words, Groups
  <1>4. ASSUME NEW g \in Groups, InitNVMark(g) PROVE WordsCleared'
    <2>1. CASE nv[g] = "junk"
      <3>1. nv' = [nv EXCEPT ![g] = "marked"] /\ phase = g /\ phase' = Words(g) /\ nvTorn' = nvTorn
        BY <1>4, <2>1 DEF InitNVMark
      <3>. QED BY <1>0, <3>1 DEF WordsCleared, Words, Groups
    <2>2. CASE nv[g] # "junk"
      <3>1. nv' = nv /\ phase = g /\ phase' = AfterGroup(g) /\ nvTorn' = nvTorn
        BY <1>4, <2>2 DEF InitNVMark
      <3>. QED BY <1>0, <2>2, <3>1 DEF WordsCleared, Words, AfterGroup, Groups
    <2>. QED BY <2>1, <2>2
  <1>5. ASSUME NEW g \in Groups, InitNVWords(g) PROVE WordsCleared'
    <2>1. /\ nv' = [nv EXCEPT ![g] = "clear"] /\ phase = Words(g) /\ phase' = AfterGroup(g)
          /\ nvTorn' = nvTorn
      BY <1>5 DEF InitNVWords
    <2>. QED BY <1>0, <2>1 DEF WordsCleared, Words, AfterGroup, Groups
  <1>6. CASE InitMqttEnable
    BY <1>1, <1>6 DEF InitMqttEnable
  <1>7. CASE SubmitForm \/ SubmitSensor
    <2>1. phase = "on" /\ UNCHANGED <<nv, nvTorn, phase>>
      BY <1>7 DEF SubmitForm, SubmitSensor, Submit
    <2>. QED BY <1>1, <2>1
  <1>8. CASE Restart
    <2>1. nv' = nv /\ phase' = "off" /\ nvTorn' = (nvTorn \/ \E g \in Groups : phase = Words(g))
      BY <1>8 DEF Restart
    <2>. QED BY <1>0, <2>1 DEF WordsCleared, Words, Groups
  <1>9. CASE UNCHANGED vars
    BY <1>9 DEF vars, WordsCleared
  <1>. QED BY <1>2, <1>3, <1>4, <1>5, <1>6, <1>7, <1>8, <1>9 DEF Next

LEMMA InitSets == Init => SettingsSet /\ WordsCleared
  <1>1. Init => ~Marked
    BY InitInTable DEF Init, Marked, InitField, BLANK, DEFAULT
  <1>. QED BY <1>1 DEF Init, SettingsSet, WordsCleared, Booting, Idle, BLANK, DEFAULT, Groups

(* Whatever was cut and however often: the main loop runs on blank         *)
(* settings or on words that were never cleared only after a boot that was *)
(* cut between a mark and what it stands for.                              *)
THEOREM UnsetOnlyAfterACut == Spec => []UnsetOnlyIfTorn
  <1>1. TInv /\ SettingsSet /\ WordsCleared /\ [Next]_vars
        => (TInv /\ SettingsSet /\ WordsCleared)'
    BY StepTypes, StepSets, StepClears
  <1>2. TInv /\ SettingsSet /\ WordsCleared => UnsetOnlyIfTorn
    <2> SUFFICES ASSUME TInv, SettingsSet, WordsCleared, phase = "on"
                 PROVE  /\ torn \/ \A f \in Fields \ NoDefault : mem[f] # BLANK
                        /\ nvTorn \/ \A g \in Groups : nv[g] = "clear"
      BY DEF UnsetOnlyIfTorn
    <2>1. torn \/ \A f \in Fields \ NoDefault : mem[f] # BLANK
      BY DEF SettingsSet, AllSet, Defaulted
    <2>2. nvTorn \/ \A g \in Groups : nv[g] = "clear"
      BY DEF WordsCleared, TInv, TypeOK, Groups, Words
    <2>. QED BY <2>1, <2>2
  <1>. QED BY <1>1, <1>2, InitTypes, InitSets, PTL DEF Spec
-----------------------------------------------------------------------------
(***************************************************************************)
(* RAM and EEPROM.  A handler sets both, but two of them set something     *)
(* else in RAM: the form of the periods puts one where the other belongs   *)
(* and stores that one next, and the form of the inputs puts the third     *)
(* delay in the place of the second.  In between the invariant needs to    *)
(* know what is still to be stored.                                        *)
(***************************************************************************)
ScanTime == <<"SCAN_TIME", 0>>
StatusTime == <<"STATUS_TIME", 0>>
ThirdDelay == <<"INPUT_DELAY", 2>>
Delays == {<<"INPUT_DELAY", 1>>, <<"INPUT_DELAY", 2>>}

InOrder(list, input) ==
    \A k \in 1 .. Len(list) :
        /\ StatusTime \in list[k] => \E l \in 1 .. Len(list) : l > k /\ ScanTime \in list[l]
        /\ ThirdDelay \in list[k] => input

Mirrored ==
    /\ IF Booting THEN loaded = FALSE ELSE InOrder(job.todo, input3)
    /\ phase \notin {"off", "param"} /\ loaded =>
          \A f \in Copied \ OnlyInEEPROM :
              \/ ram[f] = mem[f]
              \/ input3 /\ f \in Delays
              \/ f = ScanTime /\ Covers(job.todo, ScanTime)

(* Writes of single settings with these names                              *)
Of(names) == {{<<name, i>>} : name \in names, i \in Nat}

LEMMA AllOf ==
    ASSUME NEW names, NEW name \in names \cap DOMAIN Table
    PROVE  All(name) \in Seq(Of(names))
  <1>1. Count(name) \in Nat BY CountIsNumber
  <1>2. \A j \in 1 .. Count(name) : {<<name, j - 1>>} \in Of(names) BY DEF Of
  <1>. QED BY <1>1, <1>2 DEF All

LEMMA SinglesOf ==
    ASSUME NEW names, NEW list \in Seq(names) PROVE Singles(list) \in Seq(Of(names))
  <1>1. \A j \in 1 .. Len(list) : {<<list[j], 0>>} \in Of(names) BY DEF Of
  <1>. QED BY <1>1 DEF Singles

(* The forms that do neither.                                              *)
LEMMA OfIsInOrder ==
    ASSUME NEW names, "STATUS_TIME" \notin names, NEW list \in Seq(Of(names)),
           NEW input, "INPUT_DELAY" \notin names \/ input = TRUE
    PROVE  InOrder(list, input)
  <1> SUFFICES ASSUME NEW k \in 1 .. Len(list)
               PROVE  StatusTime \notin list[k] /\ (ThirdDelay \in list[k] => input)
    BY DEF InOrder
  <1>1. PICK name \in names, i \in Nat : list[k] = {<<name, i>>} BY DEF Of
  <1>. QED BY <1>1 DEF StatusTime, ThirdDelay

LEMMA SensorFormInOrder ==
    ASSUME NEW s \in 0 .. SENSORS - 1, NEW input PROVE InOrder(SensorForm(s), input)
  <1> DEFINE names == <<"SENSOR_NAME", "CODE", "LOW_ALARM", "HIGH_ALARM", "HIST", "DELAY", "CALIB",
                        "ACTIVE", "MTYPE", "CHANNEL", "WAPP_ON", "SMS">>
             N == InBlock \cup {"SENSOR_NAME"}
  <1>1. names \in Seq(N) /\ s \in Nat BY CountsAssumption DEF InBlock
  <1>2. SensorForm(s) = [j \in 1 .. Len(names) |-> {<<names[j], s>>}] BY DEF SensorForm
  <1>3. "STATUS_TIME" \notin N /\ "INPUT_DELAY" \notin N BY DEF InBlock
  <1> HIDE DEF names, N
  <1>4. \A j \in 1 .. Len(names) : {<<names[j], s>>} \in Of(N) BY <1>1 DEF Of
  <1>5. SensorForm(s) \in Seq(Of(N)) BY <1>1, <1>2, <1>4
  <1>. QED BY <1>3, <1>5, OfIsInOrder

LEMMA FormsInOrder ==
    ASSUME NEW form \in DOMAIN Forms, NEW input, form = "input" => input = TRUE
    PROVE  InOrder(Forms[form], input)
  <1> DEFINE N == DOMAIN Table \ {"STATUS_TIME", "INPUT_DELAY"}
             P == DOMAIN Table \ {"STATUS_TIME"}
  <1>0. /\ {"NET", "SNTP", "GSM_NUM", "GSM_NAME", "WAPP_NUM", "WAPP_KEY", "WAPP_NAME"} \subseteq N
        /\ {"HTTP_PORT", "OBJECT_NAME", "ALARM_PORT", "ALARM_IP", "GSM_IP", "GSM_PORT",
            "GSM_UNAME", "GSM_PASS", "PASS", "USERNAME", "TIME_ZONE", "SNTP_STATE", "DST_STATE",
            "MQTT_ENABLE", "MQTT_SERVER", "MQTT_PORT", "MQTT_UNAME", "MQTT_PASS", "MQTT_TOPIC",
            "MQTT_KEEPALIVE", "MQTT_QOS", "MQTT_PERIOD"} \subseteq N
        /\ {"INPUT_NAME", "INPUT_ALARM", "INPUT_TIP", "INPUT_WAPP", "INPUT_SMS", "INPUT_DELAY"}
               \subseteq P
    BY SensorNames, OneNames DEF Plain, Ones
  <1>1. /\ "STATUS_TIME" \notin N /\ "INPUT_DELAY" \notin N /\ N \subseteq DOMAIN Table
        /\ "STATUS_TIME" \notin P /\ P \subseteq DOMAIN Table
    OBVIOUS
  <1>2. /\ All("NET") \in Seq(Of(N)) /\ All("SNTP") \in Seq(Of(N))
        /\ All("GSM_NUM") \in Seq(Of(N)) /\ All("GSM_NAME") \in Seq(Of(N))
        /\ All("INPUT_NAME") \in Seq(Of(P)) /\ All("INPUT_ALARM") \in Seq(Of(P))
        /\ All("INPUT_TIP") \in Seq(Of(P)) /\ All("INPUT_DELAY") \in Seq(Of(P))
    <2> HIDE DEF N, P
    <2>. QED BY <1>0, <1>1, AllOf
  <1>3. /\ Singles(<<"HTTP_PORT", "OBJECT_NAME", "ALARM_PORT", "ALARM_IP">>) \in Seq(Of(N))
        /\ Singles(<<"GSM_IP", "GSM_PORT", "GSM_UNAME", "GSM_PASS">>) \in Seq(Of(N))
        /\ Singles(<<"PASS", "USERNAME">>) \in Seq(Of(N))
        /\ Singles(<<"TIME_ZONE", "SNTP_STATE", "DST_STATE">>) \in Seq(Of(N))
        /\ Singles(<<"INPUT_WAPP", "INPUT_SMS">>) \in Seq(Of(P))
        /\ Singles(<<"MQTT_ENABLE", "MQTT_SERVER", "MQTT_PORT", "MQTT_UNAME", "MQTT_PASS",
                     "MQTT_TOPIC", "MQTT_KEEPALIVE", "MQTT_QOS", "MQTT_PERIOD">>) \in Seq(Of(N))
    <2> HIDE DEF N, P
    <2>1. <<"HTTP_PORT", "OBJECT_NAME", "ALARM_PORT", "ALARM_IP">> \in Seq(N)
          /\ <<"GSM_IP", "GSM_PORT", "GSM_UNAME", "GSM_PASS">> \in Seq(N)
      BY <1>0
    <2>2. <<"PASS", "USERNAME">> \in Seq(N) /\ <<"TIME_ZONE", "SNTP_STATE", "DST_STATE">> \in Seq(N)
          /\ <<"INPUT_WAPP", "INPUT_SMS">> \in Seq(P)
      BY <1>0
    <2>3. <<"MQTT_ENABLE", "MQTT_SERVER", "MQTT_PORT", "MQTT_UNAME", "MQTT_PASS",
            "MQTT_TOPIC", "MQTT_KEEPALIVE", "MQTT_QOS", "MQTT_PERIOD">> \in Seq(N)
      BY <1>0
    <2>. QED BY <2>1, <2>2, <2>3, SinglesOf
  <1>4. SaveWApp \in Seq(Of(N))
    <2> DEFINE name(j) == IF j % 3 = 1 THEN "WAPP_NUM" ELSE IF j % 3 = 2 THEN "WAPP_KEY" ELSE "WAPP_NAME"
    <2>1. SaveWApp = [j \in 1 .. 3 * NUMBERS |-> {<<name(j), (j - 1) \div 3>>}]
      BY DEF SaveWApp
    <2>2. \A j \in 1 .. 3 * NUMBERS : name(j) \in N BY <1>0
    <2>3. \A j \in 1 .. 3 * NUMBERS : (j - 1) \div 3 \in Nat BY CountsAssumption
    <2>4. 3 * NUMBERS \in Nat BY CountsAssumption
    <2> HIDE DEF name, N
    <2>5. \A j \in 1 .. 3 * NUMBERS : {<<name(j), (j - 1) \div 3>>} \in Of(N)
      BY <2>2, <2>3 DEF Of
    <2>. QED BY <2>1, <2>4, <2>5
  <1>5. \A S : \A a, b \in Seq(S) : a \o b \in Seq(S)
    OBVIOUS
  <1> HIDE DEF N, P
  <1>6. /\ Forms["net"] \in Seq(Of(N)) /\ Forms["sms"] \in Seq(Of(N)) /\ Forms["wapp"] \in Seq(Of(N))
        /\ Forms["pass"] \in Seq(Of(N)) /\ Forms["sntp"] \in Seq(Of(N)) /\ Forms["mqtt"] \in Seq(Of(N))
    <2>1. Forms["net"] \in Seq(Of(N)) BY <1>2, <1>3, <1>5 DEF Forms
    <2>2. Forms["sms"] \in Seq(Of(N)) BY <1>2, <1>3, <1>5 DEF Forms
    <2>3. Forms["wapp"] \in Seq(Of(N)) BY <1>4 DEF Forms
    <2>4. Forms["pass"] \in Seq(Of(N)) BY <1>3 DEF Forms
    <2>5. Forms["sntp"] \in Seq(Of(N)) BY <1>2, <1>3, <1>5 DEF Forms
    <2>6. Forms["mqtt"] \in Seq(Of(N)) BY <1>3 DEF Forms
    <2>. QED BY <2>1, <2>2, <2>3, <2>4, <2>5, <2>6
  <1>7. Forms["input"] \in Seq(Of(P))
    <2>1. Forms["input"] = All("INPUT_NAME") \o All("INPUT_ALARM") \o All("INPUT_TIP")
                           \o Singles(<<"INPUT_WAPP", "INPUT_SMS">>) \o All("INPUT_DELAY")
      BY DEF Forms
    <2>2. All("INPUT_NAME") \o All("INPUT_ALARM") \o All("INPUT_TIP") \in Seq(Of(P))
      BY <1>2, <1>5
    <2>. QED BY <1>2, <1>3, <1>5, <2>1, <2>2
  <1>8. CASE form = "sample"
    <2>1. Forms[form] = <<{<<"STATUS_SEND", 0>>}, {StatusTime}, {ScanTime}>>
      BY <1>8 DEF Forms, SaveSample, Singles, StatusTime, ScanTime
    <2> DEFINE list == <<{<<"STATUS_SEND", 0>>}, {StatusTime}, {ScanTime}>>
    <2>2. /\ Len(list) = 3 /\ list[1] = {<<"STATUS_SEND", 0>>} /\ list[2] = {StatusTime}
          /\ list[3] = {ScanTime}
      OBVIOUS
    <2>3. StatusTime # <<"STATUS_SEND", 0>> /\ StatusTime # ScanTime /\ ThirdDelay # StatusTime
          /\ ThirdDelay # ScanTime /\ ThirdDelay # <<"STATUS_SEND", 0>>
      BY DEF StatusTime, ScanTime, ThirdDelay
    <2> HIDE DEF list
    <2>4. InOrder(list, input) BY <2>2, <2>3 DEF InOrder
    <2>. QED BY <2>1, <2>4 DEF list
  <1>9. CASE form = "input"
    BY <1>1, <1>7, <1>9, OfIsInOrder
  <1>10. CASE form \in {"net", "sms", "wapp", "pass", "sntp", "mqtt"}
    <2>1. Forms[form] \in Seq(Of(N)) BY <1>6, <1>10
    <2>. QED BY <1>1, <2>1, OfIsInOrder
  <1>11. DOMAIN Forms = {"net", "sms", "wapp", "sample", "pass", "sntp", "input", "mqtt"}
    BY DEF Forms
  <1>. QED BY <1>8, <1>9, <1>10, <1>11
(* The rest of the list keeps its order, and what it sets is still to come. *)
LEMMA TailInOrder ==
    ASSUME NEW list \in Seq(SUBSET Fields), list # <<>>, NEW input, InOrder(list, input)
    PROVE  /\ InOrder(Tail(list), input)
           /\ \A f \in Fields : Covers(list, f) /\ f \notin Head(list) => Covers(Tail(list), f)
           /\ StatusTime \in Head(list) => Covers(Tail(list), ScanTime)
           /\ ThirdDelay \in Head(list) => input
  <1> DEFINE rest == Tail(list)
  <1>1. /\ Len(list) \in Nat \ {0} /\ Len(rest) = Len(list) - 1 /\ Head(list) = list[1]
        /\ \A k \in 1 .. Len(rest) : rest[k] = list[k + 1]
    OBVIOUS
  <1> HIDE DEF rest
  <1>2. ASSUME NEW f, NEW l \in 1 .. Len(list), f \in list[l], l # 1 PROVE Covers(rest, f)
    <2>1. l - 1 \in 1 .. Len(rest) /\ rest[l - 1] = list[l] BY <1>1, <1>2
    <2>. QED BY <1>2, <2>1 DEF Covers
  <1>3. ASSUME NEW k \in 1 .. Len(rest), StatusTime \in rest[k]
        PROVE  \E l \in 1 .. Len(rest) : l > k /\ ScanTime \in rest[l]
    <2>1. PICK l \in 1 .. Len(list) : l > k + 1 /\ ScanTime \in list[l]
      BY <1>1, <1>3 DEF InOrder
    <2>2. l - 1 \in 1 .. Len(rest) /\ rest[l - 1] = list[l] /\ l - 1 > k BY <1>1, <2>1
    <2>. QED BY <2>1, <2>2
  <1>4. \A k \in 1 .. Len(rest) : ThirdDelay \in rest[k] => input
    BY <1>1 DEF InOrder
  <1>5. InOrder(rest, input) BY <1>3, <1>4 DEF InOrder
  <1>6. \A f \in Fields : Covers(list, f) /\ f \notin Head(list) => Covers(rest, f)
    BY <1>1, <1>2 DEF Covers
  <1>7. StatusTime \in Head(list) => Covers(rest, ScanTime)
    BY <1>1, <1>2 DEF InOrder
  <1>8. ThirdDelay \in Head(list) => input
    BY <1>1 DEF InOrder
  <1>. QED BY <1>5, <1>6, <1>7, <1>8 DEF rest

LEMMA ScanTimeIsNoText == ScanTime \in Fields /\ "SCAN_TIME" \notin Guarded
  BY OneNames, FieldOfName DEF Ones, Plain, ScanTime, Guarded

(* One write of a form.                                                    *)
LEMMA StoreMirrors ==
    ASSUME Fits, KInv, TInv, Mirrored, Store PROVE Mirrored'
  <1> DEFINE fs == Head(job.todo)
             rest == Tail(job.todo)
             c == Content(fs)
  <1>0. job \in JobType /\ job.todo \in Seq(SUBSET Fields) /\ job.todo # <<>> /\ phase # "off"
        /\ fs \in Target
    BY DEF TInv, JobType, Store, KInv
  <1>1. /\ job' = (IF rest = <<>> THEN Idle ELSE [job EXCEPT !.todo = rest])
        /\ phase' = (IF Booting /\ rest = <<>> THEN "LOGGER" ELSE phase)
        /\ UNCHANGED <<loaded, input3>>
    BY DEF Store
  <1>2. job'.todo = rest
    <2>1. CASE rest = <<>> BY <1>1, <2>1 DEF Idle
    <2>2. CASE rest # <<>>
      <3>1. job' = [job EXCEPT !.todo = rest] BY <1>1, <2>2
      <3> HIDE DEF rest
      <3>. QED BY <1>0, <3>1 DEF JobType
    <2>. QED BY <2>1, <2>2
  <1>3. CASE Booting
    <2>1. loaded' = FALSE BY <1>1, <1>3 DEF Mirrored
    <2>2. CASE rest = <<>>
      <3>1. job'.todo = <<>> BY <1>2, <2>2
      <3>2. phase' = "LOGGER" BY <1>1, <1>3, <2>2
      <3>. QED BY <2>1, <3>1, <3>2 DEF Mirrored, InOrder, Booting
    <2>3. CASE rest # <<>>
      <3>1. phase' = "param" BY <1>1, <1>3, <2>3 DEF Booting
      <3>. QED BY <2>1, <3>1 DEF Mirrored, Booting
    <2>. QED BY <2>2, <2>3
  <1>4. CASE ~Booting
    <2>1. phase' = phase /\ Booting' = Booting /\ phase \notin {"off", "param"} /\ fs \in Single
      BY <1>0, <1>1, <1>4 DEF Booting, KInv
    <2>2. /\ InOrder(rest, input3)
          /\ \A f \in Fields : Covers(job.todo, f) /\ f \notin fs => Covers(rest, f)
          /\ StatusTime \in fs => Covers(rest, ScanTime)
          /\ ThirdDelay \in fs => input3
      BY <1>0, <1>4, TailInOrder DEF Mirrored
    <2>3. ASSUME loaded, NEW f \in Copied \ OnlyInEEPROM
          PROVE  \/ ram'[f] = mem'[f]
                 \/ input3 /\ f \in Delays
                 \/ f = ScanTime /\ Covers(rest, ScanTime)
      <3>0. f \in Fields /\ f \in Copied /\ f \notin Login /\ f # MqttEnable
        BY CopiedAreFields DEF OnlyInEEPROM
      <3>1. \/ ram[f] = mem[f]
            \/ input3 /\ f \in Delays
            \/ f = ScanTime /\ Covers(job.todo, ScanTime)
        BY <2>1, <2>3 DEF Mirrored
      <3>2. CASE IsSkipped(fs)
        <4>1. mem' = mem /\ ram' = ram BY <3>2 DEF Store
        <4>2. ScanTime \notin fs
          <5>1. ASSUME ScanTime \in fs PROVE FALSE
            <6>1. fs = {ScanTime} BY <2>1, <5>1 DEF Single
            <6>2. First(fs) = ScanTime
              <7>1. Start(ScanTime) \in Nat BY FieldPlaces, ScanTimeIsNoText
              <7>. QED BY <6>1, <7>1 DEF First
            <6>. QED BY <3>2, <6>2, ScanTimeIsNoText DEF IsSkipped, ScanTime
          <5>. QED BY <5>1
        <4>. QED BY <2>2, <3>1, <4>1, <4>2, ScanTimeIsNoText
      <3>3. CASE ~IsSkipped(fs)
        <4>1. /\ EEwrite(fs, Bytes(fs), c)
              /\ ram' = [g \in Copied |-> IF g \notin Copies(fs) THEN ram[g]
                                         ELSE IF g \in fs THEN c ELSE MIXED]
          BY <3>3 DEF Store
        <4>2. mem'[f] = IF f \in fs THEN c ELSE mem[f]
          <5>1. f \notin fs => ~RunsOver(At(fs), Bytes(fs), f)
            BY <1>0, <2>1, <3>0, <3>3, WriteIsOwn
          <5> HIDE DEF c, fs
          <5>. QED BY <3>0, <4>1, <5>1 DEF EEwrite
        <4>3. ram'[f] = IF f \notin Copies(fs) THEN ram[f] ELSE IF f \in fs THEN c ELSE MIXED
          BY <3>0, <4>1
        <4> HIDE DEF c
        <4>4. PICK own \in Fields : fs = {own} BY <2>1 DEF Single
        <4>5. CASE StatusTime \in fs
          <5>1. Copies(fs) = {ScanTime} BY <1>4, <4>5 DEF Copies, StatusTime, ScanTime
          <5>2. f # StatusTime /\ ScanTime # StatusTime
            BY <3>0 DEF Copied, Login, Named, MqttEnable, StatusTime, ScanTime
          <5>3. own = StatusTime BY <4>4, <4>5
          <5>4. CASE f = ScanTime BY <2>2, <4>5, <5>4
          <5>5. CASE f # ScanTime
            <6>1. ram'[f] = ram[f] /\ mem'[f] = mem[f] BY <4>2, <4>3, <4>4, <5>1, <5>2, <5>3, <5>5
            <6>. QED BY <3>1, <5>5, <6>1
          <5>. QED BY <5>4, <5>5
        <4>6. CASE ThirdDelay \in fs
          <5>0. StatusTime \notin fs BY <4>4, <4>6 DEF ThirdDelay, StatusTime
          <5>1. Copies(fs) = {<<"INPUT_DELAY", 1>>}
            BY <1>4, <4>6, <5>0 DEF Copies, ThirdDelay, StatusTime
          <5>2. input3 BY <2>2, <4>6
          <5>3. CASE f \in Delays BY <5>2, <5>3
          <5>4. CASE f \notin Delays
            <6>1. f \notin fs /\ f \notin Copies(fs)
              BY <4>4, <4>6, <5>1, <5>4 DEF Delays, ThirdDelay
            <6>2. ram'[f] = ram[f] /\ mem'[f] = mem[f] BY <4>2, <4>3, <6>1
            <6>3. Covers(job.todo, ScanTime) => Covers(rest, ScanTime)
              <7>1. ScanTime \notin fs BY <4>4, <4>6 DEF ThirdDelay, ScanTime
              <7>. QED BY <2>2, <7>1, ScanTimeIsNoText
            <6>. QED BY <3>1, <6>2, <6>3
          <5>. QED BY <5>3, <5>4
        <4>7. CASE StatusTime \notin fs /\ ThirdDelay \notin fs
          <5>1. Copies(fs) = (fs \cap Copied) \ (Login \cup {MqttEnable})
            BY <1>4, <4>7 DEF Copies, StatusTime, ThirdDelay
          <5>2. f \in Copies(fs) <=> f \in fs BY <3>0, <5>1
          <5>3. CASE f \in fs
            BY <4>2, <4>3, <5>2, <5>3
          <5>4. CASE f \notin fs
            <6>1. ram'[f] = ram[f] /\ mem'[f] = mem[f] BY <4>2, <4>3, <5>2, <5>4
            <6>2. f = ScanTime /\ Covers(job.todo, ScanTime) => Covers(rest, ScanTime)
              BY <2>2, <5>4, ScanTimeIsNoText
            <6>. QED BY <3>1, <6>1, <6>2
          <5>. QED BY <5>3, <5>4
        <4>. QED BY <4>5, <4>6, <4>7
      <3>. QED BY <3>2, <3>3
    <2>. QED BY <1>1, <1>2, <2>1, <2>2, <2>3 DEF Mirrored
  <1>. QED BY <1>3, <1>4

LEMMA StepMirrors ==
    ASSUME Fits, KInv, TInv, Mirrored, [Next]_vars PROVE Mirrored'
  <1>0. /\ Copied \subseteq Fields /\ mem \in [Fields -> Contents] /\ ram \in [Copied -> Contents]
    BY CopiedAreFields DEF TInv, TypeOK
  <1>1. CASE InitParam
    <2>0. phase = "off" /\ job.todo = <<>> BY <1>1 DEF InitParam, KInv
    <2>1. CASE Marked
      <3>1. PICK jumper \in BOOLEAN :
              ram' = [f \in Copied |-> IF f = MqttEnable THEN CLEAR
                                       ELSE IF f \in Login /\ jumper THEN DEFAULT ELSE mem[f]]
        BY <1>1, <2>1 DEF InitParam
      <3>2. UNCHANGED <<mem, job, input3>> /\ phase' = "LOGGER" BY <1>1, <2>1 DEF InitParam
      <3>3. \A f \in Copied \ OnlyInEEPROM : ram'[f] = mem[f]
        BY <3>1 DEF OnlyInEEPROM
      <3>4. InOrder(job'.todo, input3') BY <2>0, <3>2 DEF InOrder
      <3>. QED BY <3>2, <3>3, <3>4 DEF Mirrored, Booting
    <2>2. CASE ~Marked
      <3>1. phase' = "param" /\ loaded' = FALSE BY <1>1, <2>2 DEF InitParam
      <3>. QED BY <3>1 DEF Mirrored, Booting
    <2>. QED BY <2>1, <2>2
  <1>2. CASE Store
    BY <1>2, StoreMirrors
  <1>3. ASSUME NEW g \in Groups, InitNVMark(g) \/ InitNVWords(g) PROVE Mirrored'
    <2>1. phase \notin {"off", "param"} /\ phase' \notin {"off", "param"}
          /\ UNCHANGED <<mem, ram, job, input3, loaded>>
      BY <1>3 DEF InitNVMark, InitNVWords, Words, AfterGroup, Groups
    <2>. QED BY <2>1 DEF Mirrored, Booting
  <1>4. CASE InitMqttEnable
    <2>1. phase = "mqtt" /\ phase' = "on" /\ UNCHANGED <<job, input3, loaded>>
      BY <1>4 DEF InitMqttEnable
    <2>2. \A f \in Copied \ OnlyInEEPROM : ram'[f] = ram[f] /\ mem'[f] = mem[f]
      BY <1>0, <1>4 DEF InitMqttEnable, OnlyInEEPROM
    <2>. QED BY <2>1, <2>2 DEF Mirrored, Booting
  <1>5. ASSUME NEW form, NEW todo, Submit(form, todo), InOrder(todo, input3')
        PROVE  Mirrored'
    <2>1. /\ phase = "on" /\ job = Idle /\ UNCHANGED <<mem, ram, phase, loaded>>
          /\ job'.todo = todo /\ input3' = (input3 \/ form = "input")
      BY <1>5 DEF Submit
    <2>2. ~Covers(job.todo, ScanTime) BY <2>1 DEF Idle, Covers
    <2>. QED BY <1>5, <2>1, <2>2 DEF Mirrored, Booting
  <1>6. CASE SubmitForm
    <2>1. PICK form \in DOMAIN Forms : Submit(form, Forms[form]) BY <1>6 DEF SubmitForm
    <2>2. form = "input" => input3' = TRUE BY <2>1 DEF Submit
    <2>3. InOrder(Forms[form], input3') BY <2>2, FormsInOrder
    <2>. QED BY <1>5, <2>1, <2>3
  <1>7. CASE SubmitSensor
    <2>1. PICK s \in 0 .. SENSORS - 1 : Submit("sensor", SensorForm(s)) BY <1>7 DEF SubmitSensor
    <2>2. InOrder(SensorForm(s), input3') BY SensorFormInOrder
    <2>. QED BY <1>5, <2>1, <2>2
  <1>8. CASE Restart
    <2>1. phase' = "off" /\ job' = Idle BY <1>8 DEF Restart
    <2>2. InOrder(job'.todo, input3') BY <2>1 DEF Idle, InOrder
    <2>. QED BY <2>1, <2>2 DEF Mirrored, Booting
  <1>9. CASE UNCHANGED vars
    BY <1>9 DEF vars, Mirrored, Booting
  <1>. QED BY <1>1, <1>2, <1>3, <1>4, <1>6, <1>7, <1>8, <1>9 DEF Next

(* If the texts fit, RAM and EEPROM agree after every form: what the       *)
(* handlers store twice is the same value, but for the form of the inputs. *)
THEOREM CopiesAgree ==
    ASSUME Fits
    PROVE  Spec => []MirrorsAgree
  <1>1. Init => Mirrored
    <2> SUFFICES ASSUME Init PROVE Mirrored
      OBVIOUS
    <2>1. phase = "off" /\ job.todo = <<>> /\ loaded = FALSE BY DEF Init, Idle
    <2>2. InOrder(job.todo, input3) BY <2>1 DEF InOrder
    <2>. QED BY <2>1, <2>2 DEF Mirrored
  <1>2. KInv /\ TInv /\ Mirrored /\ [Next]_vars => (KInv /\ TInv /\ Mirrored)'
    BY StepKeeps, StepTypes, StepMirrors
  <1>3. Mirrored => MirrorsAgree
    BY DEF Mirrored, MirrorsAgree, Idle, Covers, Delays
  <1>. QED BY <1>1, <1>2, <1>3, KInit, InitTypes, PTL DEF Spec
=============================================================================
