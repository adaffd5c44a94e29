# WEBTERMO8: a TLA+ verification of the firmware

WEBTERMO8 is the firmware of a refrigeration monitor: an STM32F4 board reads up
to eight DS18B20 sensors and three digital inputs, keeps temperature and HACCP
logs in flash, and reports alarms by WhatsApp and SMS. It is one cooperative
loop (`main.c`, 823-851) of protothreads and lwIP callbacks, guarded by a
watchdog, and it restarts itself six times a day. Nothing is preemptive, so an
action of the models is what a handler does between two points at which it
waits; what may come between is any other handler, a packet, or a restart.

The project models the parts that carry the program's own logic, checks them
with TLC on small instances and proves the central properties with TLAPS for
every value of the constants. Sources below are in `src/UserSources/USER/source/`
unless a path says otherwise.

## 1. The system

| Part | State it keeps | Operations | Hard because |
|---|---|---|---|
| Temperature alarms (`1wire.c`, `main.c`) | `senzor[]` (EEPROM and RAM), `temp[]`, the automaton `STATE`, `error_counter`, countdown words `NV_DELAY_SEN*` in backup SRAM, alarm file | `ptReadTemp`, `test_alarm`, `ptAlarmDelay`, `SaveAlarm` | the cycle waits one second per sensor and everything else runs meanwhile; the countdown survives a restart, the automaton does not |
| Digital inputs (`inputs.c`, `main.c`) | `dinput[]`, one protothread continuation, `NV_DELAY_IN*` | `ScanInputs`, `ptInput1NC`, `ptInput1NO`, `ptAlarmDelay` | two functions share one continuation; contacts bounce |
| WhatsApp (`logger.c`, `WhatsApp.c`) | one message `wapp`, `wAppflag`, `wAppStatus` | `SendWApp`, `SendWAppInput`, `TestWApp`, `ptWapp`, `wappReceive`, `wappResult` | one buffer for all alarms; answers come in pieces, or not at all |
| SMS (`infobip.c`, `logger.c`) | `infobip_poruka`, `sms`, the body `infobip`, two connections | `send_infobip`, `get_credit`, `ptWCL`, `ptWCLcredit`, TCP callbacks | two threads share a body buffer; timeouts race callbacks; connections are reset |
| Logs (`logger.c`, `1wire.c`) | sums, counts and MKT buffers in backup SRAM, files | readings, `SaveTemp`, `SaveHaccp`, `UpdateMKT` | words are written one at a time and a restart can come between; two logs share the sums |
| Schedule (`main.c`) | real-time clock, three remembered minutes, `scansetup`, `scanflag` | `CheckScanTime`, `Check4hour`, `CheckHaccpScan`, `ptSaveTemp` | each task reads the clock itself; the clock is set; the boot re-seeds what was remembered |
| Alarm delivery (`main.c`, `logger.c`) | the countdowns and the buffers of both channels | `ptAlarmDelay`, which calls `SendWApp`, `SendWAppInput`, `SendSMS` | several sources of one second share a buffer; a restart in the walk |
| Boot and parameters (`main.c`, `24C128.c`) | EEPROM with its map of addresses, copies in RAM, the marks of an initialised EEPROM and SRAM | `InitParam`, `InitSensors`, `InitSMS`, `InitSNTP`, `InitNV`, `EEwrite` | a restart between mark and values; a memory that wraps at the end of a page; everything is stored twice |
| 1-Wire and I2C (`drajveri.c`) | bus, bridge, sensors, scratchpad buffer `dsBuf` | `OWreset`, `OWWriteByte`, `OWReadByte` | bounded waits that leave a byte as it was or the bus held; return values nobody reads |
| Time (`dst.c`, `main.c`) | real-time clock | `isDST`, `adjustDST`, SNTP | calendar edges |
| MQTT (`mqtt_example.c`, lwIP's `mqtt.c`) | clients, connection states, timers | `ptMQTT`, `mqtt_connect` | a reconnection allocates, and the abandoned clients live on |
| Web forms (`SVATagovi.c`) | writes the settings of all the others | one handler per form | runs between any two steps of a thread |
| Web pages (`XMLTagovi.c`), helpers (`system.c`, `timer.c`), network driver, littlefs, lwIP | - | output, conversions, vendored code | - |

How they interact: `ptReadTemp` writes the sums that `SaveTemp` and `SaveHaccp`
clear; these write their means back into `temp[]`, which `test_alarm` reads.
`ptReadTemp` and the input threads start countdowns; `ptAlarmDelay` counts them
and calls `SendWApp`/`SendSMS`, which only fill buffers and set a flag that makes
the loop poll `ptWapp` and `wcl_poll`. The schedule raises `scanflag` for
`ptSaveTemp` and restarts the device; a restart keeps EEPROM, files and backup
SRAM and clears everything else.

What makes each part correct:

- alarms: an alarm that stands is being counted down or has been reported, and
  one that is not withdrawn is reported once and on time, under changed settings
  too; a restart forgets the automaton but not the countdown, so an inherited
  countdown goes on to its report even if its cause is gone by then; a sensor
  that cannot be read is reported; `test_alarm` works on readings of the running
  cycle;
- inputs: a countdown belongs to an alarm, a press starts one countdown, and a
  lasting press is reported;
- WhatsApp and SMS: every recipient of an alarm is sent its message, once, with
  the text meant for him; connections do not leak; the threads end;
- logs: no reading is lost or used twice; a mean is divided by the number of its
  readings; the MKT buffer holds the most recent samples;
- schedule: samples, rows and restarts happen at their minutes, once each;
- 1-Wire: what is taken for a temperature is a new conversion of that sensor, as
  long as the calls that select it and one read of a telling byte went through;
- settings: what was stored stays, RAM holds the same, and only a boot that was
  cut leaves something unset;
- MQTT: abandoned clients die out, and leave connections to the others as long
  as the closing of theirs is answered;
- delivery: a message goes to the recipients of its source, and not twice.

`PROJECT.json` lists 40 hazards, each at the line where it bites, with the
properties aimed at it.

## 2. Modules

| Module | Models | Composes |
|---|---|---|
| `AlarmContract` | abstract specification: what an alarm source promises | - |
| `SensorAlarm` | temperature alarms | instantiates `AlarmContract` |
| `MCSensorAlarm` | settings and temperatures for TLC | extends `SensorAlarm` |
| `SensorAlarmProofs` | theorems | extends `SensorAlarm` |
| `WAppSender` | WhatsApp delivery | |
| `SmsSender` | SMS delivery and credit enquiry | |
| `AlarmDelivery`, `MCAlarmDelivery` | from the countdowns to both channels | extends `WAppSender` and `SmsSender` |
| `DeliveryProofs` | theorems on each channel and on their composition | extends `AlarmDelivery` |
| `ClockTasks`, `MCClockTasks`, `ClockTasksProofs` | schedule, theorems | `MCClockTasks` extends `TimeService` too |
| `TimeService` | summer time and time zones, beside the calendar's rules | |
| `InputAlarm`, `MCInputAlarm`, `InputAlarmProofs` | digital input 1, theorems | instantiates `AlarmContract` |
| `Logger`, `LoggerProofs` | logs, theorems | |
| `OneWireRead`, `MCOneWireRead`, `OneWireReadProofs` | the bus side of `ptReadTemp`, theorems | its outcome is `ReadOK`/`ReadKO` of `SensorAlarm` |
| `Parameters`, `MCParameters`, `ParametersProofs` | EEPROM, boot and forms, theorems | |
| `Mqtt`, `MqttProofs` | MQTT client, theorems | |

Operators whose names end in `_Something` and whose comment begins with
"Mutant" are deliberately wrong versions of the definition that follows them:
each is a plausible slip in the code, and the property it belongs to fails when
it is used. They show that the property depends on the code and are not part of
any specification.

Every module has history variables, marked as such: they are written beside the
state and read by properties only, never by a guard.

### SensorAlarm

`rd` is the position of `ptReadTemp`: the sensor whose conversion it waits for,
or `N` before a cycle. `ReadStart`, `ReadNext`, `ReadLastOK` and `ReadLastKO` are
the stretches of code between waits (1wire.c 268-369); the last two contain the
second loop, `EvaluateAll`, which tests all sensors, writes the alarm file and
arms or clears countdowns in the same step. `AlarmDelay` is the sensors' loop of
`ptAlarmDelay` (main.c 867-889). `Sensor` is the web form, `SaveMeans` what the
logger does to `temp[]`, `Reset` any restart. A bad checksum, a missing sensor
and the power-on value of 85 degrees are one failed reading. If no sensor is
enabled the cycle of the code changes nothing; `ReadStart` is then not enabled.

`NV_DELAY` starts with any contents, since `InitNV` does not clear these words;
`NVMOD` is their width, 2^32 in the device. `NV_DELAY = 1` means "armed": the
word counts seconds plus one, and `Counted` wraps as the 32-bit word does.

`AlarmContract` knows none of this. It has a status per source, the seconds
waited and the delay; one second makes every ripe alarm a report, an evaluation
raises, withdraws or keeps, and settings change the delay. The mapping takes
`episode` for the status and `NV_DELAY - 1` for the seconds. `InputAlarm` keeps
the same contract, with the input as its only source.

### WAppSender

`pt` is the continuation of `ptWapp` (logger.c 568-616): the recipients are a
chain of waits for a free channel, one after the other, so a recipient that is
not enabled is passed without a wait of its own; `WappSend(r)` is the stretch
that ends by sending to `r`. `http` holds requests that have had no answer,
`tails` those whose answer may have more segments: each segment calls
`wappReceive`, which frees the channel; an end without data calls `wappResult`,
which only prints. The HTTP client is lwIP's and is modelled from how its
callbacks are used here.

### SmsSender

`pc` is the continuation of `ptWCL` (infobip.c 287-349), `pcb` the state of the
connection it holds; `freed` is a connection the TCP stack has given up without
telling the thread, as no error callback is registered. A body is the text and
the recipients that the global buffers hold when it is composed; `Length` is its
length, chosen so that two different texts never have the same. The credit
thread has the same shape and rewrites the same body buffer; its connection can
be reset too (`CreditAborted`). Timers may expire at any moment while the thread
waits.

### ClockTasks

One turn of the loop is four calls, each an action that reads the clock by
itself (main.c 418-566, 1wire.c 371-389). The clock moves by half minutes. The
watchdog's period is two seconds, so the loop makes at least two turns (`Pace`)
between two moves; a restart takes less than a half minute but may cross the end
of one. `Boot` seeds the remembered minutes and loads the sampling period, which
a blank EEPROM does not have. `SetTime` is SNTP or the web page, `SaveSample`
the period's form, `Restart` everything else that restarts the device. The
switch of `CheckScanTime` is kept as the sets of minutes and hours it lists, so
that the run compares them with the arithmetic of `SampleTime`.

### InputAlarm

`pc` and `owner` are the one continuation shared by `ptInput1NC` and
`ptInput1NO`: it is a line number, and a line of the other function is no case
of the switch, so that the thread falls through to its end and starts over
(`InputForeign`). `Flip` is the contact. The two functions differ only in the
active level and are one set of actions. Power-up contents of the countdown word
are any number below `NVMOD`, the word's width as in `SensorAlarm`; the largest is
stopped by the next second without a report, since the word wraps to 0, and
every other one leads to a report unless it is withdrawn. The history variable
`episode` says what the alarm has come to - quiet, armed or reported; a word that
is about to wrap arms nothing (`Running`). `Over` is the test of `ptAlarmDelay`
(main.c:896). Both serve the mapping to `AlarmContract`.

### Logger

A reading is a number, a sum the set of readings added up in it, a mean a sum
with the count it was divided by. Each write to a word of the backup SRAM that a
restart can come before or after is an action of its own: `ReadSum`/`ReadCount`,
`SaveSum`/`SaveTempCount`; `RestartInUpdate(j)` is a restart after `j` writes of
`UpdateMKT`. The order of the writes is the code's.

### OneWireRead

`pc` names the next bus call of `ptReadTemp` (1wire.c 268-340): reset, address
and conversion, the wait, reset, address, command and the bytes. Each of the
three functions of drajveri.c (311-839) is one call with two independent
outcomes, whether the sensors heard it (`heard`) and whether it returned 0
(`ok`): every I2C step gives up after 50 ms, and the byte may be on the wire by
then. `held` is the one way out that sends no STOP (drajveri.c:572): the next
call then finds the bus busy, waits in vain and, after sending STOP itself,
fails too. `dsBuf` is shared by all sensors, and `OWReadByte` stores its byte
only at its end. A byte is a sensor, the number of the conversion it stems from
and its place. Two scratchpads differ at the places in `Telling` only (of a
DS18B20 the low byte of the temperature and the checksum, as a rule) and hold
equal bytes elsewhere. `calc_crc` sees values: `CrcRight` holds when the bytes at
the telling places come from one scratchpad, whoever the others are from. That a
byte at a wrong place, of a silent bus or of another telling byte is detected is
taken from CRC-8. Numbers of conversions are reused when no byte in memory
carries them (`Fresh`), so that the states are finitely many.

### Parameters

`Table` is the map of define.h (52-186): first address, bytes, step and number
of each setting. `LayoutAssumption`, which TLC evaluates for all of them, says
that no two share a byte and none crosses the end of a page. `FirstBoot` and
`Forms` list what main.c and SVATagovi.c write, in their order; `Store` is one
`EEwrite`, and `RunsOver` says which other settings it hits when it is too long
for its page. `InitParam` is the mark's test and the load, `InitNVMark` and
`InitNVWords` the backup SRAM, `InitMqttEnable` the last lines before the loop
(main.c 810-812). A form is one call (httpd.c 2875-2930) and its writes are
separate steps, between which only a power failure can come.

A setting is one value; fields that a handler guards against an empty text and
those where it stores what rBuf held before (`Loose`) are told apart.

### Mqtt

`clients` is the heap's sequence of client structures, `mqtt_client` the last
one. `ptMQTT` (mqtt_example.c 248-266) waits 30, 20 and 20 seconds, three, two
and two ticks of ten seconds; `Tick` is also lwIP's timers: the SYN's
retransmissions, the CONNECT's 100 seconds and the watchdog of 1.5 keep alive
times (mqtt.c 576-604). `Closed` is every way a connection ends from outside.
`mqtt_close` makes the client disconnected, but `tcp_close` leaves the block of an
established connection in FIN_WAIT_1 (tcp.c 423-427) until the FIN has been
acknowledged or twelve retransmissions have failed (tcp.c:1232), then in
FIN_WAIT_2 for up to 20 seconds (tcp.c:1316), and `tcp_alloc` (tcp.c 1835-1929)
takes back no block in these states: the state "closing". `Open` are the clients
with a connection, `Blocks` those that hold a block.
The broker is modelled by what MQTT demands of it: one session per client
identifier, the newer one wins, so an abandoned client that gets through ends
the session of the current one. `good` makes it the answering network that
`Settles` needs. `wild` ends a behaviour: with the heap exhausted the code uses a
null pointer as a client.

### AlarmDelivery

`ptAlarmDelay` (main.c 867-905) as a walk: `Second` starts it, `Count` counts one
word and clears it when its delay is over, `Send` calls the senders of that
source. The walk is one turn of the loop, so no thread and no callback can come
in between, but a restart can: `due` says that a word has been cleared and its
messages have not been handed over. The module extends the two senders and takes
over their variables and actions, which run outside the walk (`WAppThread`,
`Answer`, `SmsThread`, `Connection`); the definitions that exist once per sender
carry its name (`WAppSpec`, `SmsSpec`, `WAppTypeOK`, `SmsTypeOK`). No credit is
asked for here. The history variables `onWApp` and `onSMS` collect the messages
that found their channel at rest when the walk began and have not been overtaken
or cut off, `failed` the texts whose connection ended before the body was
written (`Fails`).
`Raise` and `Clear` stand for the read cycle and the input thread, whose own
modules say when they happen.

### TimeService

Operators only: `isDST`, `adjustDST` and the shift by the time zone of `dst.c`,
and beside them the calendar: the last Sunday of a month by search, hours since
the month began. `MCClockTasks` asserts that the two agree for every month, day,
weekday and hour.

## 3. What the runs show

"Bounds" are the constants of the `.cfg`; every bound is a named constant.

The type invariant of `AlarmDelivery` is checked by its run; those of all
components are theorems (section 6).

### Runs that pass

**sensor_alarm_one** - one sensor through all five bands of the hysteresis, delays
0, 1 and 2, an enabled and a disabled setting, two resets, and countdown words
from 0 to the wrap (`NVMOD = 6`). `NoSilentAlarm`, `AlarmIsLogged`, the
refinement `KeepsContract`, and two liveness properties: a temperature that stays too high, and a sensor that
stays unreadable, are reported. The error count is 2 instead of the code's: the
boundary is what matters (at the count, past it) and 2 has a failure that is not
yet one.

**sensor_alarm_two** - two sensors, so that the settings of one change and the
logger runs while the other is being read, and so that all are evaluated in one
step. `TestsCurrentReading` says that what `test_alarm` works on was read in this
cycle, except for a sensor that was enabled, or whose reading the logger
replaced, in mid-cycle (section 5).

**wapp** - three alarms or tests for two recipients, overlapping in any way, with
requests that fail and answers in pieces. `AllSent` for alarms that are not
overtaken, `NoRepeat`, and `ChannelDrains`. Two recipients have a first, a next
and a last; three alarms are one before, one disturbing, one after.

**sms** - three requests and one credit enquiry, with timeouts and either
connection reset at any time. `ConnectionsBalance`, `NoMixing` (a text goes to its
own recipients), `HeaderAnnouncesBody`, and both threads end (`ThreadsEnd`).

**clock** - whole days for each of the eight periods and for a blank EEPROM, with
one disturbance at any point of the loop; the clock is set to one of four minutes
around a scheduled restart, a HACCP row and a sample. `KeepsTimetable` compares
the samples, rows and restarts of each minute with the three timetables, after
two undisturbed minutes; `NoRestartLoop` and `NoDoubleRow` hold
without that; `SamplingGoesOn` includes the first boot.

**input** - six changes of the contact (two presses with a bounce each way), two
forms, one restart, any contents of a word of width six (`NVMOD`; the longest
delay is two, so that there are contents beyond it and the wrap). `CountdownMeansAlarm`,
`OneCountdownPerPress`, the refinement `InputKeepsContract`, `PressReported`; the
last has a contact that comes to rest as its hypothesis (section 5).

**logger** - two sensors, an MKT buffer of two, five readings, five rows of either
log, one form and one restart between any two writes. Five rows fill the buffer,
shift it, have the shift cut by the restart, and shift the damage out again.
`MktIsRecent`, `MeansAreTrue`, `EachReadingOnce`, `MeanOfPeriod`.

**onewire** - two sensors on one bridge, a scratchpad of three bytes (a
temperature of two, which `Is85` looks at, and a checksum), six numbers of
conversions, three failures. Three failures let a call hang in the reading half
of one sensor, a conversion fail in the next and a supply go in between. The
first and the last of the three bytes are the telling ones, so that both kinds of
mixture occur: with the telling bytes of one scratchpad and of two.
`OwnUnlessUnread` and `QuietBusReads` say when what is accepted is right, `No85`
that the power-on value never is, `ReadingsResume` that all sensors are read again when the
failures end.

**params** - the whole map with two sensors and two recipients (first and last),
texts that fill their places, two forms and one power failure at any write, an
EEPROM that is blank at first. `Kept`, `MirrorsAgree`, `UnsetOnlyIfTorn`. Two
forms are one that stores a setting and one that could destroy it.

**mqtt** - a heap of five clients and a keep alive time of 50 seconds. Five attempts
are enough for an abandoned client in each state beside a current one:
`FewAttempts`, `LeavesConnections` (four of lwIP's five connection blocks at
most, as long as no FIN has waited for more than a tick), `Settles`.

**delivery** - two sensors and an input, delays of 0, 1 and 2 seconds, two
recipients and two phones, two alarms (and so at most two requests of each
channel, and no credit enquiry) and a restart. One sensor has no WhatsApp
recipient and the input has no phone, so that one source of a second cancels
what another has asked for. `RightRecipients`, `NoMoreThanRaised`, and two
properties of messages that found their channel at rest: `LastOfSecondSent` (when
the flag goes down, WhatsApp has gone to all recipients of the source and the SMS
has been posted to all its phones) and `CalmIsSent` (this happens). Their
exceptions are a later alarm, which overtakes even if its source has no
recipient, a restart, for SMS a connection that is not made or is reset, and in
`CalmIsSent` a WhatsApp request that ends without data. A message that found its
channel at work is promised nothing.

Deadlock is checked in the runs of `SensorAlarm`, `ClockTasks`, `InputAlarm` and
`OneWireRead`, which never stop. The senders and the delivery are idle once the
bounded number of alarms is dealt with, `Logger` and `Parameters` stop at their
bounds and `Mqtt` when the heap is exhausted, so these runs do not check it.

### A run that shows a disagreement

**params_page** (`Kept`) - 24C128.c:209-212 says that the driver does not care
where a page begins or ends and that what is written has to fit into one page of
64 bytes. `Pass` (SVATagovi.c:1239) writes the password, of any length, to
address 48, 16 bytes before a page's end. pass.html has no limit and login.html takes 20
characters. The rest wraps to address 0, over the mark of a configured EEPROM:
the next boot takes the device for new and writes the defaults over everything.
A user name of 16 characters or more runs over the password behind it. The
fields for MQTT's server and topic take 80 characters where the page has 64.

## 4. Fairness

The loop runs for ever: a turn that hangs is ended by the watchdog, and the
scheduled restart is modelled where it matters. Every wait of `ptReadTemp`,
`ptAlarmDelay`, `ptWCL`, `ptWCLcredit` and the input thread ends by a timer of
its own. So each of these threads has weak fairness as a whole, and the clock
has. In `SmsSender` nothing is assumed of the server. In `WAppSender` the thread
has no timer: a request is assumed to be answered unless it ends otherwise,
which the HTTP client's own timeout ensures, and `wappResult` may always come
first. Contacts, users, restarts, readings and the server owe nothing. The
liveness properties about a lasting condition (`HighAlarmReported`,
`FaultReported`, `PressReported`) have the condition as their hypothesis.

`OneWireRead` has weak fairness of `ptReadTemp`: every bus call is bounded (at
most 31 operations of 50 ms in one stretch, 1.55 s, below the watchdog's 2 s),
and failures are finite by `MaxGlitches`. In `Mqtt` time passes and `ptMQTT` is
polled; answers are owed only by a network that is `good`, which it may never
become. In `AlarmDelivery` the walk and the two threads are fair, and each
request is answered unless `wappResult` ends it first.

## 5. Further disagreements met while modelling

These follow from reading the code; the passing properties state them as their
exceptions or they lie outside the models.

- 1wire.c:118 calls the argument of `test_alarm` "Trenutna očitana temperature"
  (the temperature read now). For a sensor enabled while the cycle waits for a
  later one, or whose `temp[]` `SaveTemp` replaced, 1wire.c:352 passes an old
  value or a mean (`TestsCurrentReading`, variable `late`).
- An alarm for which no WhatsApp recipient is enabled lowers `wAppflag` while
  `ptWapp` is in the middle of an earlier one; the thread stays there and the next
  alarm misses the recipients before that place (`AllSent`, variable `whole`).
- infobip.c:428 says that a number is sent to if its variable is 1; infobip.c:447
  enables the fifth always (`EnabledPhones`).
- A credit enquiry rebuilds the shared body (infobip.c:358) between the header
  and the body of an SMS (`HeaderAnnouncesBody`, variable `enquired`).
- `ptWCL` registers no error callback (infobip.c:320), and uses the connection
  after the stack has freed it (`Aborted`).
- main.c:799 seeds the remembered minutes at boot: if the clock is set into the
  minute of the scheduled restart and the boot crosses the hour, the HACCP row of
  that hour is taken for written (`KeepsTimetable`, two quiet minutes).
- main.c:353 writes the default period of a blank EEPROM and does not load it: no
  samples until the next restart (`KeepsTimetable` needs `scansetup # 0` for samples).
- SVATagovi.c:1640 stores the delay of input 3 in `dinput[1]` in RAM.
- main.c:882 says "istekao delay, šalji alarme" (delay expired, send the
  alarms). A second alarm, even of the same walk, overwrites text, recipients and
  flag of the first on both channels: only the last of a second is sent, and none
  on a channel for which the last has no recipient (`LastOfSecondSent` and
  `CalmIsSent`, which speak of the messages in `onWApp` and `onSMS` only).
- A timeout or a reset before the body ends `ptWCL`, and nothing repeats the
  SMS (`failed`).
- A WhatsApp request that ends without data (`wappResult`) leaves the channel
  busy: no alarm is sent until the next restart (`ChannelDrains`, `CalmIsSent`,
  variable `lost`).
- infobip.c:426 says that `send_infobip` activates the sending. A request that
  arrives while another is under way is switched off with that one by `wcl__close`.
- A contact that bounces on release makes the input's thread start over with the
  alarm up, and the next debounce starts the countdown again: a contact that
  bounces for ever postpones the report for ever (hypothesis of `PressReported`).
- `SaveHaccp` clears the sums from which `SaveTemp` takes its mean: the sample
  after a HACCP row covers part of its period only (`MeanOfPeriod`).
- TestWApp enables recipients of its own, and `SendWApp` decides which limit to
  name by the limits at the time of sending; `SendSMS` uses the limits of sensor
  k-1 (logger.c:420).
- 1wire.c:326: a restart between sum and count leaves a mean with a wrong divisor
  (`MeansAreTrue`, variable `torn`).
- strukture.c:97-98: two of the pointers to backup SRAM lack its base address, and
  the row's first mean lands in `temp[0]` whether sensor 0 is enabled or not.
- logger.c:88 divides by the number of samples, which is 0 when a HACCP row is
  due before the first sample.
- 1wire.c:352 ("OK, testiraj alarm"): when the bridge hangs through the reading
  half of a sensor and all nine reads fail, `dsBuf` still holds the scratchpad of
  the sensor before, or the zeros of the boot (0.00 degrees with a right
  checksum), and it is accepted: the error counter does not rise and a dead bus is
  never reported as a fault. Two single failures do for another sensor's
  temperature: bytes 1 to 7 of two sensors are as a rule equal, so that failed
  reads of bytes 0 and 8 alone leave what passes the checksum. The same follows
  from an address that did not get through. `OwnUnlessUnread` states these cases
  as its exceptions and says that there are no others. `I2C_error` is set and
  never read.
- main.c:870 and 893: a countdown that was interrupted by a restart goes on although the
  contact has been released or the temperature has come back meanwhile, and is
  reported (`CountdownMeansAlarm`, variable `inherited`); a power-up word of all
  ones wraps to 0 without a report.
- XMLTagovi.c:974 says "treba provjeriti status" (the status should be checked):
  the page resets the bus in the middle of the thread's reading.
- main.c:740-743 initialises the bridges of channels 3 and 4 and then resets them.
- SVATagovi.c:1245: `Base64Decode` ends no text of 3, 6, 9 ... characters. The user
  name is decoded into the buffer that holds the password: "ana" after a password
  "abcdef" is stored as "anadef".
- Empty MQTT fields and an empty sensor name store what another call left in
  `rBuf` (`LEFT`); `XMLParser` returns 255 when a tag is missing.
- main.c:332 writes the mark first: power that goes before the last default
  leaves blank settings for good, and a cut `InitNV` leaves junk in `mktcount`
  (`UnsetOnlyIfTorn`, variables `torn` and `nvTorn`). The whole first session runs
  with zeroed copies in RAM. `DST_STATE`, the inputs, WhatsApp and MQTT have no
  defaults (`NoDefault`); an `MQTT_ENABLE` of 255 is put right in the EEPROM and stays in RAM.
- mqtt_example.c:217: a client per reconnection, never freed. With about 28
  structures in lwIP's heap and one attempt in 70 seconds, an unreachable broker
  exhausts it in 33 minutes, before the scheduled restart; `mqtt_connect` then
  uses a null client, as the assertion in `mqtt_client_connect` only prints. A
  broker or network that answers the SYN and then loses everything fills all
  five connection blocks with closing connections, one in 70 seconds: each FIN is
  repeated for many minutes (the exception of `LeavesConnections`). Even with
  every FIN answered, a keep alive time of 70 seconds or more lets abandoned
  clients hold all five, and 0 switches the watchdog off. Sensor 1 is published
  twice when the client is connected.

## 6. What is proved

All theorems are proved by TLAPS for every value of the constants that satisfies
the named `ASSUME`s: any number of sensors, recipients, samples, any temperatures,
settings and set times, any of the eight periods, any word width above the longest
delay, any heap and keep alive time, any number of restarts. TLC evaluates the assumptions on every run.

Every invariant and every action property of the passing runs is a theorem, and
so are the two refinements; what is left to TLC alone is at the end of this
section. Each invariant below that a proof needs was checked by TLC before it was
proved.

**SensorAlarmProofs.** `TypeCorrect`, `CountdownTellsTheEpisode`, `NeverSilent`,
`AlarmsLogged` and `Refinement` (`Spec => KeepsContract`). The inductive invariant `IInv` is the
conjunction of the type invariant, `EpisodeMatchesCountdown`, `NoSilentAlarm` and
`AlarmIsLogged`: a silent alarm is excluded because a running word can only be
stopped by a report or by the clearing of the automaton, which needs the episode
to be tied to the word. `EvaluationFacts` says what one evaluation of a sensor
can do, `CountFacts` what one second can; the proof has one step per action. The
assumption that matters is that a delay (16 bits) is smaller than the word that
counts up to it (32 bits), less one: otherwise the word wraps before it is due.
`TestsAreCurrent` (`Spec => TestsCurrentReading`) is an action property of the
last step of a cycle and needs to know what came before it: `PassedAreCurrent`
says that each enabled sensor the cycle has passed was read in it, or has failed,
or was enabled or overwritten too late.

**DeliveryProofs, WhatsApp.** `WTypeCorrect`, `UndisturbedAlarmsSent`
(`WAppSpec => []AllSent`) and `NobodyIsSentTwice` (`WAppSpec => NoRepeat`). The
invariant `Progress` says of the alarm being sent, if it is undisturbed, that the
recipients the thread has passed have been sent to and that those it asked for
are the ones still enabled; `Passed` says the converse, that those sent to have
been passed.

**DeliveryProofs, SMS.** `SmsTypeCorrect`, `ConnectionsAreClosed`, `TextsAreNotMixed`
and `AnnouncedLengthIsRight`. One inductive invariant, `SInv`: every text has a
request behind it, the body that lies ready after the header is addressed to the
recipients its request wanted (`Addressed`), and its length is the announced one
unless an enquiry has been there (`Announced`). Requests change text and
recipients, but not the body that is composed already; that is what keeps texts
apart.

**DeliveryProofs, the composition.** `DeliveryTyped`, `RecipientsAreRight`,
`LastOneIsSent`, `NoneSentTwice`. Every step but a restart is a step of each
channel or none (`StepsOfTheChannels`), so that the lemmas on the channels carry
over. The invariant `DInv` adds what the walk knows: both channels number their
messages alike, and something is due only inside the walk (`Counters`); the
buffers, and all that has left the device, go to the recipients of the source a
message came from (`Given`, `Phoned`); of a message that found its channel at rest
everything before `ptWapp`'s place has been sent (`WAppUndisturbed`), and what
`ptWCL` carries is that message, on a connection that stands, until it has been
posted or is in `failed` (`SmsUndisturbed`); a thread at rest when the walk began
stays so to its end (`StaysCalm`). Two more theorems say that the
channels keep their promises under the walk and over restarts, which their own
modules do not have: `NoSecondCopy` (`Spec => NoRepeat`) and `ConnectionsSurvive`
(connections balance, announced lengths are right). `AllSent` is not among them: a restart
forgets a message, and `LastOfSecondSent` is the form of it that allows for that.

**ClockTasksProofs.** `ClockTypeCorrect`, `RestartsOnce` and `RowsOnce`. The
strengthening says that after a restart or a row in this minute the clock shows
the minute that caused it and, unless the device is off, the remembered minute is
that one: `Boot` establishes it, since it seeds from the clock.
`TimetableKept` (`Spec => KeepsTimetable`) is about time. Its invariant `TInv`
says how many calls each task may still be away from its look at the clock
(`Looked`, `SecondHalf`: `CallsFollow` shows that every call of the loop comes
within a turn, and `Pace` makes room for two turns in a half minute), that the minutes
remembered are this one or the last (`Followed`), that the device is off only
for the scheduled restart (`OffOnTime`), and counts what the tasks that have
looked must have done (`SamplesTell`, `RowsTell`, `RestartsTell`). `ListedMinutes`
and `ListedHours` prove that the lists of the code's switches are the arithmetic
of the timetable.

**InputAlarmProofs.** `InputTypeCorrect`, `CountdownBelongs` and
`PressesCountOnce`. The strengthening `ReleaseSeen` ties the thread's position to
the contact: a thread that is not in its press, or whose type has changed, has
seen a release. `InputRefinement` (`Spec => InputKeepsContract`): an episode is
armed exactly while the word counts and is not about to wrap
(`EpisodeMatchesCountdown`); each action is then an evaluation, a second or a
configuration of `AlarmContract`, or a stutter. No armed episode comes to the
wrap, because the word has room for every delay and for the second after it
(`WordRoom`).

**LoggerProofs.** `LoggerTypeCorrect`, `MktWindow`, `ReadingsCountOnce`,
`SamplesCoverTheirPeriod` and `MeansDivideRight`. `UpdateKeepsWindow` is the lemma
about `UpdateMKT` for a buffer of any length: from the most recent samples it
makes the most recent samples. The invariant has the types and the samples before
a cut shift as the only exception. For `ReadingsCountOnce` the strengthening is
that means consist of readings already taken; for `SamplesCoverTheirPeriod`, that
the readings since the last sample are those of the sum and of the means that
have used some up (`PeriodInv`); for `MeansDivideRight`, that sum and count agree
up to the one word that is being written (`Tally`, `Behind`), unless a restart has
parted them.

**OneWireReadProofs.** `OneWireTyped`, `NeverEightyFive`, `ReadingsAreTheSensors`
and `CalmBusIsRead`, for any sensors on any bridges and a scratchpad of any
length. `No85` is inductive with the types, by the lemma that the telling bytes of
an accepted buffer are of one scratchpad (`AcceptedIsWhole`). `OwnUnlessUnread` needs
three facts of the middle of a reading: once reset and address have gone through,
all sensors that share the wire but the addressed one are deaf (`Selected`); a conversion number
that is not stale differs from the last one read (`Renewed`); and a byte stored in this reading
is the sensor's own or of a silent bus (`OwnStored`), so that a mixture that has
one telling byte of this reading and one of an older buffer fails the checksum.
`QuietBusReads` follows from `Quiet`: after a reset that is answered
the bus is free, after two the conversion half goes through (`StartsWell`), and
after three each byte of the reading half is the next of the right scratchpad
(`ReadsWell`).

**ParametersProofs.** `StoredSettingsStay`: under `Fits` (every text fits the place
it is stored in), `Spec => []Kept`. `Kept` is not inductive: a boot that finds no
mark writes defaults over everything. The invariant `KInv` says that the mark
stands from the first write of the first boot on, that nothing was set before,
and that what is still to be written is addressed right. The lemmas about
`EEwrite` come from the layout alone: a write that fits its place runs over
nothing else, and the two longer ones (a sensor's block and the SMS server) only
over what they contain. **params_page** shows that `Fits` is needed, and that
the pages do not ensure it. `SettingsTyped` needs no `Fits`, and neither does
`UnsetOnlyAfterACut` (`Spec => []UnsetOnlyIfTorn`): a setting with a default is
written, or is in what the boot has yet to write, or the boot was cut
(`SettingsSet`; `WordsCleared` for the backup SRAM). That the boot's list covers
them all is proved from the list (`AllCovers`, `SensorsCovered`), for any number
of sensors. `CopiesAgree` (`Spec => []MirrorsAgree`, under `Fits`): a copy in RAM
equals the EEPROM (`Mirrored`) but for the two forms that first store something
else; for these `InOrder` says that what puts it right is still in the list.

**MqttProofs.** `MqttTypeCorrect` and `AttemptsDoNotPileUp`
(`Spec => []FewAttempts`). An attempt that is not the current one is at least 70
seconds old; the SYN gives up after 20 and the CONNECT after 100 more, so that
the thread's position bounds the age of each attempt (`Aged`) and at most one
abandoned client can still wait (`OneAbandoned`). `ABlockIsLeft`: if the keep
alive time is at most six ticks of ten seconds, `Spec => []LeavesConnections`.
The broker serves one client of the identifier, so the older of two abandoned
connected clients is alone with its watchdog (`LeftAlone`), which closes it before
a third has been abandoned and followed by another (`NoThird`); `LastConnecting` places the one
that still waits. A connection that closes keeps its block for the tick in which
its FIN may be answered: `FewHeld` counts the blocks whose FIN has not waited
longer, four at most and three when the thread may take one. The hypothesis is
what the statement is about, since the keep alive time is the user's setting:
with 70 seconds TLC finds all five blocks held at once. The run has 50 seconds;
with 60 TLC finds no error either.

Only model-checked, because fairness and `ENABLED` are out of the prover's reach:
the liveness properties `HighAlarmReported`, `FaultReported`, `ChannelDrains`,
`ThreadsEnd`, `SamplingGoesOn`, `PressReported`, `ReadingsResume`, `Settles` and
`CalmIsSent`. `TimeService` has no state: its operators are compared with the
calendar over their whole finite domain, which is all there is to prove. No
module uses recursion.

## 7. Not modelled

The repository has 445 files and about 206,000 lines of code, of which some 11,000 are
this program's own (`src/UserSources/USER/source`); the rest is lwIP, littlefs,
CMSIS, ST's peripheral library and web pages turned into arrays. The modules stand
for the control of the own part; the share of the whole that they map stays small
for that reason.

- lwIP, littlefs, the peripheral library, generated page data: vendored. What the
  modelled parts need of them is modelled from how they use it (the HTTP client's
  callbacks, the MQTT client's states and timers, TCP's resets).
- Texts, file names, row formats and register-level I/O: no property is about
  them. The file system's errors are ignored by the code.
- The floating-point arithmetic of means and MKT, and CRC-8 beyond which mixtures
  of scratchpads it lets pass (section 2, `OneWireRead`).
- The pool of pbufs that the receive callbacks never give back, and the
  retransmission of data written without a copy: both are decided by sizes and by
  code inside lwIP.
- The tail that `Base64Decode` leaves behind a login of 3, 6, 9 ... characters
  (section 5): a text is one value.
- Inputs 2 and 3: they have settings and countdowns but no thread that starts
  them. The door contacts of `input_poll` set flags that nothing reads.
- `CheckSNTPScan` and the status SMS: nothing calls or enables them. `SaveBack`
  has no page. The SNTP client is lwIP's.
- Inside one I2C call, the polling of the bridge's registers; `DS2482_reset` and
  `DS2482_init` at boot; the RTC's registers.
- In `Mqtt`, restarts and the contents of the publications; in `AlarmDelivery`,
  what makes an alarm (it is in `SensorAlarm` and `InputAlarm`).
- The parsers of numbers and tags: pure functions over bytes, which the other
  modules take as giving a value or none.
- `http_TZO_alarm.c`, `backup.c`: not called from the loop.

## 8. Plan

Done, in the order of importance: the alarm chain with its contract, delivery by
WhatsApp and SMS and the composition of the two with the countdowns, the schedule,
the digital input, the logs, the 1-Wire bus, the settings, MQTT, summer time. All
safety properties are proved.

Next:

1. `AlarmDelivery` as an implementation of `AlarmContract`, source by source: the
   walk is a second for the source it stands at, and a restart while a source is
   due withdraws its alarm.
2. A lemma for each channel that a message which is neither overtaken nor cut by
   a restart leaves in finitely many steps of its thread, as the safety half of
   `ChannelDrains` and `ThreadsEnd`.
3. The field parsers of `SVATagovi.c` as functions over short texts.
