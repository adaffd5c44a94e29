----------------------------- MODULE InputAlarm -----------------------------
(***************************************************************************)
(* The alarm of digital input 1: ScanInputs reads the contact and runs     *)
(* ptInput1NC or ptInput1NO, which debounce it, raise the alarm and start  *)
(* the countdown in backup SRAM that ptAlarmDelay takes to its end.  The   *)
(* two threads share one continuation, a line number: resumed in the other *)
(* function it matches no case, and the thread starts over.                *)
(*                                                                         *)
(* Inputs 2 and 3 have settings and countdowns but no thread that could    *)
(* start them; they are not modelled.                                      *)
(***************************************************************************)
EXTENDS Integers

CONSTANTS
    Delays,        \* alarm delays, in seconds
    NVMOD,         \* a backup SRAM word counts modulo NVMOD (2^32)
    MaxFlips,      \* bound: changes of the contact
    MaxForms,      \* bound: submissions of the inputs' form
    MaxRestarts    \* bound: restarts of the device

\* DELAY has 16 bits, the backup SRAM word that counts up to it has 32.
ASSUME WidthAssumption == /\ NVMOD \in Nat /\ NVMOD > 2
                          /\ Delays \subseteq Nat /\ \A d \in Delays : d < NVMOD - 1
ASSUME BoundsAssumption ==
    MaxFlips \in Nat /\ MaxForms \in Nat /\ MaxRestarts \in Nat

NC == 1
NO == 2

VARIABLES
    DIN1,          \* level of the contact
    enable, type,  \* dinput[0].enable and type
    DELAY,         \* dinput[0].DELAY
    pc, owner,     \* the continuation: where, and in whose function
    alarm,         \* dinput[0].alarm
    delay,         \* NV_DELAY_IN1
    flips, forms, restarts,
    (* history variables *)
    released,      \* the contact was released, or the device restarted, since
                   \* the last press
    inherited,     \* the countdown is older than the running boot
    episode        \* "quiet", "armed" (the countdown runs) or "reported"

settings == <<enable, type, DELAY>>
thread   == <<pc, owner>>
vars == <<DIN1, settings, thread, alarm, delay, flips, forms, restarts, released,
          inherited, episode>>

PCs == {"begin", "idle", "debounce", "held", "release"}

\* Contents of a backup SRAM word; the largest wraps to 0 when it counts on,
\* which starts no report and ends none.
Words == 0 .. NVMOD - 1

Running(d) == d \in 1 .. NVMOD - 2

TypeOK ==
    /\ DIN1 \in {0, 1}
    /\ enable \in {0, 1} /\ type \in {NC, NO}
    /\ DELAY \in Delays
    /\ pc \in PCs /\ owner \in {NC, NO}
    /\ alarm \in {0, 1}
    /\ delay \in Words
    /\ flips \in 0 .. MaxFlips /\ forms \in 0 .. MaxForms /\ restarts \in 0 .. MaxRestarts
    /\ released \in BOOLEAN /\ inherited \in BOOLEAN
    /\ episode \in {"quiet", "armed", "reported"}

Active == DIN1 = (IF type = NC THEN 0 ELSE 1)
-----------------------------------------------------------------------------
Init ==
    /\ DIN1 \in {0, 1}
    /\ enable \in {0, 1} /\ type \in {NC, NO}
    /\ DELAY \in Delays
    /\ pc = "begin" /\ owner = NO
    /\ alarm = 0
    /\ delay \in Words           \* InitNV does not clear it
    /\ flips = 0 /\ forms = 0 /\ restarts = 0
    /\ released = TRUE /\ inherited = (delay # 0)
    /\ episode = IF Running(delay) THEN "armed" ELSE "quiet"

\* The contact changes.
Flip ==
    /\ flips < MaxFlips
    /\ flips' = flips + 1
    /\ DIN1' = 1 - DIN1
    /\ UNCHANGED <<settings, thread, alarm, delay, forms, restarts, inherited, episode>>
    /\ released' = (released \/ ~Active')

\* ScanInputs calls the thread of the input's type.
Poll(p) == enable = 1 /\ owner = type /\ pc = p

Quiet == UNCHANGED <<DIN1, settings, owner, flips, forms, restarts>>

\* First poll, or the first one after a change of type: PT_YIELD.
InputBegin ==
    /\ enable = 1 /\ pc = "begin"
    /\ pc' = "idle" /\ owner' = type
    /\ UNCHANGED <<DIN1, settings, alarm, delay, flips, forms, restarts, released,
                   inherited, episode>>

\* Mutant: resumed in the other function, the thread does nothing.
InputForeign_Stuck ==
    /\ enable = 1 /\ owner # type /\ pc # "begin"
    /\ UNCHANGED vars

\* The continuation is a line of the other function.
InputForeign ==
    /\ enable = 1 /\ owner # type /\ pc # "begin"
    /\ pc' = "begin"
    /\ UNCHANGED <<alarm, delay, released, inherited, episode>> /\ Quiet

InputPressed ==
    /\ Poll("idle") /\ Active
    /\ pc' = "debounce"
    /\ UNCHANGED <<alarm, delay, released, inherited, episode>> /\ Quiet

\* Mutant: the thread waits for the next press at once.
InputDebounced_Repeats ==
    /\ Poll("debounce")
    /\ pc' = "begin"
    /\ IF Active THEN /\ alarm' = 1 /\ delay' = 1 /\ episode' = "armed"
                      /\ released' = FALSE /\ inherited' = FALSE
                 ELSE UNCHANGED <<alarm, delay, released, inherited, episode>>
    /\ Quiet

\* The debounce time is over.
InputDebounced ==
    /\ Poll("debounce")
    /\ IF Active
       THEN /\ alarm' = 1 /\ delay' = 1 /\ pc' = "held"
            /\ released' = FALSE /\ inherited' = FALSE /\ episode' = "armed"
       ELSE pc' = "begin" /\ UNCHANGED <<alarm, delay, released, inherited, episode>>
    /\ Quiet

InputLetGo ==
    /\ Poll("held") /\ ~Active
    /\ pc' = "release"
    /\ UNCHANGED <<alarm, delay, released, inherited, episode>> /\ Quiet

\* Mutant: the countdown goes on.
InputReleased_KeepsCounting ==
    /\ Poll("release")
    /\ pc' = "begin"
    /\ alarm' = IF Active THEN alarm ELSE 0
    /\ UNCHANGED <<delay, released, inherited, episode>>
    /\ Quiet

\* The second debounce time is over: the alarm is over, or the contact has
\* bounced and the thread starts over with the alarm still up.
InputReleased ==
    /\ Poll("release")
    /\ pc' = "begin"
    /\ IF Active THEN UNCHANGED <<alarm, delay, inherited, episode>>
                 ELSE alarm' = 0 /\ delay' = 0 /\ inherited' = FALSE /\ episode' = "quiet"
    /\ UNCHANGED released /\ Quiet

ptInput1 ==
    \/ InputBegin \/ InputForeign \/ InputPressed \/ InputDebounced
    \/ InputLetGo \/ InputReleased
-----------------------------------------------------------------------------
Counted == IF delay = 0 \/ delay = NVMOD - 1 THEN 0 ELSE delay + 1

\* Mutant: one second early.
Over_Early == delay # 0 /\ Counted >= DELAY

Over == Counted > DELAY

\* ptAlarmDelay, once a second: the alarm is reported, or the time goes on.
AlarmDelay ==
    /\ \/ /\ Over
          /\ delay' = 0 /\ episode' = "reported"
       \/ /\ ~Over
          /\ delay' = Counted /\ UNCHANGED episode
    /\ UNCHANGED <<DIN1, settings, thread, alarm, flips, forms, restarts, released,
                   inherited>>

\* The inputs' form, as far as input 1 is concerned.
SaveInput(en, ty, d) ==
    /\ forms < MaxForms
    /\ forms' = forms + 1
    /\ enable' = en /\ type' = ty /\ DELAY' = d
    /\ UNCHANGED <<DIN1, thread, alarm, delay, flips, restarts, inherited, episode>>
    /\ released' = (released \/ ~Active')

\* A restart keeps the backup SRAM, and loads the settings that were stored.
Restart ==
    /\ restarts < MaxRestarts
    /\ restarts' = restarts + 1
    /\ pc' = "begin" /\ owner' = NO
    /\ alarm' = 0
    /\ released' = TRUE /\ inherited' = (delay # 0)
    /\ UNCHANGED <<DIN1, settings, delay, flips, forms, episode>>

Next ==
    \/ Flip
    \/ ptInput1
    \/ AlarmDelay
    \/ \E en \in {0, 1}, ty \in {NC, NO}, d \in Delays : SaveInput(en, ty, d)
    \/ Restart

Spec == Init /\ [][Next]_vars

(* The loop polls the thread and the second's timer for ever; the contact, *)
(* the user and the restarts owe nothing.                                  *)
FairSpec == Spec /\ WF_vars(ptInput1) /\ WF_vars(AlarmDelay)
-----------------------------------------------------------------------------
(* A countdown belongs to an alarm, or the boot found it in the backup     *)
(* SRAM, where ptAlarmDelay takes it to its report, or the largest word to *)
(* its wrap, unless a new press comes first: whatever the contact, the     *)
(* form and restarts do, a debounced release takes alarm and countdown     *)
(* down together.                                                          *)
CountdownMeansAlarm == delay # 0 => alarm = 1 \/ inherited

(* One press of the contact starts one countdown: a second one needs a     *)
(* release or a restart in between, however the form changes type and      *)
(* enable meanwhile.                                                       *)
OneCountdownPerPress ==
    [][pc = "debounce" /\ pc' # pc /\ Active => released]_vars

(* The input keeps the contract of module AlarmContract, as the sensors    *)
(* do: a report needs a countdown of its own, which a press has started or *)
(* the backup SRAM has kept, and leaves at the first second at which the   *)
(* delay has passed, once, whatever bounces, forms and restarts do.  The   *)
(* countdown that a restart leaves behind goes on to its report although   *)
(* the contact may have been released meanwhile.                           *)
Contract == INSTANCE AlarmContract WITH
    Source <- {"input"},
    status <- [k \in {"input"} |-> episode],
    waited <- [k \in {"input"} |-> IF Running(delay) THEN delay - 1 ELSE 0],
    delay  <- [k \in {"input"} |-> DELAY]

InputKeepsContract == Contract!CSpec

(* A contact that stays active on an enabled input is reported.            *)
PressReported == <>[](enable = 1 /\ Active) /\ <>[](restarts = MaxRestarts)
                   => <>[](alarm = 1 /\ delay = 0)
=============================================================================
