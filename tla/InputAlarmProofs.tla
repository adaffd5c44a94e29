-------------------------- MODULE InputAlarmProofs --------------------------
(***************************************************************************)
(* The alarm of input 1 and its countdown keep together, one press starts  *)
(* one countdown, and the input keeps the contract of an alarm source, for *)
(* every set of delays and any number of forms, bounces and restarts.      *)
(***************************************************************************)
EXTENDS InputAlarm, TLAPS

Types ==
    /\ DIN1 \in {0, 1}
    /\ type \in {NC, NO}
    /\ pc \in PCs
    /\ restarts \in Nat
    /\ released \in BOOLEAN /\ inherited \in BOOLEAN

\* A contact that is not active, and a thread that is not in its press, have
\* seen the release; so has one whose press was under the other type.
ReleaseSeen ==
    /\ ~Active => released = TRUE
    /\ pc # "held" => released = TRUE
    /\ owner # type => released = TRUE

IInv == Types /\ ReleaseSeen /\ CountdownMeansAlarm

\* Power-up, whatever the backup SRAM holds, establishes the invariant.
LEMMA InitInv == Init => IInv
<1> SUFFICES ASSUME Init
             PROVE  IInv
  OBVIOUS
<1>1. Types
  BY DEF Init, Types, PCs
<1>2. ReleaseSeen
  BY DEF Init, ReleaseSeen
<1>3. CountdownMeansAlarm
  BY DEF Init, CountdownMeansAlarm
<1> QED
  BY <1>1, <1>2, <1>3 DEF IInv

\* Every step keeps it.
LEMMA StepInv == IInv /\ [Next]_vars => IInv'
<1> SUFFICES ASSUME IInv, [Next]_vars
             PROVE  IInv'
  OBVIOUS
<1> USE DEF IInv, Types, ReleaseSeen, CountdownMeansAlarm, Active, NC, NO, PCs,
            settings, thread, Quiet, Poll
<1>1. CASE Flip
  <2>1. DIN1' \in {0, 1} /\ UNCHANGED <<type, owner, pc, restarts, alarm, delay, inherited>>
    BY <1>1 DEF Flip
  <2>2. released' = TRUE \/ (released' = released /\ Active')
    BY <1>1 DEF Flip
  <2> QED
    BY <2>1, <2>2
<1>2. CASE InputBegin
  BY <1>2 DEF InputBegin
<1>3. CASE InputForeign
  BY <1>3 DEF InputForeign
<1>4. CASE InputPressed
  BY <1>4 DEF InputPressed
<1>5. CASE InputDebounced
  BY <1>5 DEF InputDebounced
<1>6. CASE InputLetGo
  BY <1>6 DEF InputLetGo
<1>7. CASE InputReleased
  BY <1>7 DEF InputReleased
<1>8. CASE AlarmDelay
  BY <1>8 DEF AlarmDelay, Counted, Over
<1>9. CASE \E en \in {0, 1}, ty \in {NC, NO}, d \in Delays : SaveInput(en, ty, d)
  <2>1. PICK en \in {0, 1}, ty \in {NC, NO}, d \in Delays : SaveInput(en, ty, d)
    BY <1>9
  <2>2. type' \in {NC, NO} /\ UNCHANGED <<DIN1, owner, pc, restarts, alarm, delay, inherited>>
    BY <2>1 DEF SaveInput
  <2>3. released' = TRUE \/ (released' = released /\ Active')
    BY <2>1 DEF SaveInput
  <2>4. CASE type' = type
    BY <2>2, <2>3, <2>4
  <2>5. CASE type' # type
    <3>1. ~Active \/ ~Active'
      BY <2>2, <2>5
    <3> QED
      BY <2>2, <2>3, <3>1
  <2> QED
    BY <2>4, <2>5
<1>10. CASE Restart
  <2>1. /\ UNCHANGED <<DIN1, type, delay>> /\ pc' = "begin"
        /\ restarts' = restarts + 1 /\ released' = TRUE
    BY <1>10 DEF Restart
  <2>2. inherited' \in BOOLEAN /\ (delay # 0 => inherited')
    BY <1>10 DEF Restart
  <2> QED
    BY <2>1, <2>2
<1>11. CASE UNCHANGED vars
  BY <1>11 DEF vars
<1> QED
  BY <1>1, <1>2, <1>3, <1>4, <1>5, <1>6, <1>7, <1>8, <1>9, <1>10, <1>11
     DEF Next, ptInput1

\* The types, what the thread has seen of the release, and the countdown's
\* owner, together, are an invariant.
THEOREM Invariance == Spec => []IInv
<1>1. Init => IInv
  BY InitInv
<1>2. IInv /\ [Next]_vars => IInv'
  BY StepInv
<1> QED
  BY <1>1, <1>2, PTL DEF Spec

\* What the width of the backup SRAM word says about a countdown: it has room
\* for every delay and for the second after it.
LEMMA WordRoom ==
    /\ NVMOD \in Nat /\ NVMOD > 2 /\ Delays \subseteq Nat
    /\ \A e \in Delays : e + 1 <= NVMOD - 1
BY WidthAssumption

\* Every step keeps the settings, the countdown's word and the counters in
\* their types.
LEMMA StepTypes == TypeOK /\ [Next]_vars => TypeOK'
<1> SUFFICES ASSUME TypeOK, [Next]_vars
             PROVE  TypeOK'
  OBVIOUS
<1> USE WordRoom, BoundsAssumption
    DEF TypeOK, Words, PCs, NC, NO, settings, thread, Quiet, Poll
<1>1. CASE Flip
  BY <1>1 DEF Flip
<1>2. CASE InputBegin \/ InputForeign \/ InputPressed \/ InputLetGo
  BY <1>2 DEF InputBegin, InputForeign, InputPressed, InputLetGo
<1>3. CASE InputDebounced
  <2>1. 1 \in Words
    OBVIOUS
  <2>2. alarm' \in {0, 1} /\ delay' \in Words
    BY <1>3, <2>1 DEF InputDebounced
  <2>3. /\ pc' \in PCs /\ released' \in BOOLEAN /\ inherited' \in BOOLEAN
        /\ episode' \in {"quiet", "armed", "reported"}
    BY <1>3 DEF InputDebounced
  <2> QED
    BY <1>3, <2>2, <2>3 DEF InputDebounced
<1>4. CASE InputReleased
  <2>1. alarm' \in {0, 1} /\ delay' \in Words
    BY <1>4 DEF InputReleased
  <2>2. /\ pc' \in PCs /\ released' \in BOOLEAN /\ inherited' \in BOOLEAN
        /\ episode' \in {"quiet", "armed", "reported"}
    BY <1>4 DEF InputReleased
  <2> QED
    BY <1>4, <2>1, <2>2 DEF InputReleased
<1>5. CASE AlarmDelay
  <2>1. delay' \in Words
    BY <1>5 DEF AlarmDelay, Counted, Over
  <2> QED
    BY <1>5, <2>1 DEF AlarmDelay
<1>6. ASSUME NEW en \in {0, 1}, NEW ty \in {NC, NO}, NEW d \in Delays, SaveInput(en, ty, d)
      PROVE  TypeOK'
  BY <1>6 DEF SaveInput
<1>7. CASE Restart
  BY <1>7 DEF Restart
<1>8. CASE UNCHANGED vars
  BY <1>8 DEF vars
<1> QED
  BY <1>1, <1>2, <1>3, <1>4, <1>5, <1>6, <1>7, <1>8 DEF Next, ptInput1

\* The countdown of input 1 stays a word of the backup SRAM, whatever the SRAM
\* held at power-up and however the form shortens the delay.
THEOREM InputTypeCorrect == Spec => []TypeOK
<1>1. Init => TypeOK
  BY WordRoom, BoundsAssumption DEF Init, TypeOK, Words, PCs
<1> QED
  BY <1>1, StepTypes, PTL DEF Spec

\* ptInput1NC and ptInput1NO: a countdown in backup SRAM belongs to an alarm,
\* or was there before the device started.
THEOREM CountdownBelongs == Spec => []CountdownMeansAlarm
<1>1. IInv => CountdownMeansAlarm
  BY DEF IInv
<1> QED
  BY Invariance, <1>1, PTL

\* ... and one press of the contact starts one countdown.
THEOREM PressesCountOnce == Spec => OneCountdownPerPress
<1>1. IInv /\ [Next]_vars
        => [pc = "debounce" /\ pc' # pc /\ Active => released]_vars
  BY DEF IInv, ReleaseSeen
<1> QED
  BY Invariance, <1>1, PTL DEF Spec, OneCountdownPerPress
-----------------------------------------------------------------------------
\* The refinement: InputAlarm implements AlarmContract for its one source.

\* The countdown's word and the episode agree, which lets the contract speak
\* of the one while the code has the other.  The largest word is no countdown:
\* the next second wraps it to 0.
EpisodeMatchesCountdown == episode = "armed" <=> Running(delay)

LEMMA EpisodeKept ==
    ASSUME TypeOK, EpisodeMatchesCountdown, [Next]_vars PROVE EpisodeMatchesCountdown'
<1> USE WordRoom DEF EpisodeMatchesCountdown, Running
<1>1. delay \in 0 .. NVMOD - 1 /\ DELAY \in Nat /\ DELAY + 1 <= NVMOD - 1
  BY DEF TypeOK, Words
<1>2. CASE InputDebounced
  BY <1>2 DEF InputDebounced
<1>3. CASE InputReleased
  BY <1>3 DEF InputReleased
<1>4. CASE AlarmDelay
  <2>1. CASE Over
    BY <1>4, <2>1 DEF AlarmDelay
  <2>2. CASE ~Over
    <3>1. delay' = Counted /\ episode' = episode
      BY <1>4, <2>2 DEF AlarmDelay
    <3>2. Running(Counted) <=> Running(delay)
      BY <1>1, <2>2 DEF Counted, Over
    <3> QED
      BY <3>1, <3>2
  <2> QED
    BY <2>1, <2>2
<1>5. ASSUME \/ Flip \/ InputBegin \/ InputForeign \/ InputPressed \/ InputLetGo
             \/ (\E en \in {0, 1}, ty \in {NC, NO}, d \in Delays : SaveInput(en, ty, d))
             \/ Restart \/ UNCHANGED vars
      PROVE  EpisodeMatchesCountdown'
  <2>1. UNCHANGED <<delay, episode>>
    BY <1>5 DEF Flip, InputBegin, InputForeign, InputPressed, InputLetGo, SaveInput,
                Restart, vars
  <2> QED
    BY <2>1
<1> QED
  BY <1>2, <1>3, <1>4, <1>5 DEF Next, ptInput1

\* A debounced press raises, a debounced release withdraws.
LEMMA ThreadRefines ==
    ASSUME TypeOK, InputDebounced \/ InputReleased
    PROVE  Contract!Evaluate
<1> DEFINE Waited == IF Running(delay) THEN delay - 1 ELSE 0
<1>1. DELAY' = DELAY
  BY DEF InputDebounced, InputReleased, Quiet, settings
<1>2. \/ episode' = "armed" /\ delay' = 1
      \/ episode' = "quiet"
      \/ episode' = episode /\ delay' = delay
  BY DEF InputDebounced, InputReleased
<1>3. \/ episode' = "armed" /\ Waited' = 0
      \/ episode' = "quiet"
      \/ episode' = episode /\ Waited' = Waited
  BY <1>2, WordRoom DEF Running
<1> HIDE DEF Waited
<1>4. \A k \in {"input"} : Contract!Raised(k) \/ Contract!Withdrawn(k) \/ Contract!Kept(k)
  BY <1>3 DEF Contract!Raised, Contract!Withdrawn, Contract!Kept, Waited
<1> QED
  BY <1>1, <1>4 DEF Contract!Evaluate

\* One run of ptAlarmDelay is one second of the contract.
LEMMA SecondRefines ==
    ASSUME TypeOK, EpisodeMatchesCountdown, AlarmDelay
    PROVE  Contract!Second
<1> USE WordRoom DEF Running
<1>1. /\ delay \in 0 .. NVMOD - 1 /\ DELAY \in Nat /\ DELAY + 1 <= NVMOD - 1
      /\ DELAY' = DELAY
  BY DEF TypeOK, Words, AlarmDelay, settings
<1> DEFINE Waited == IF Running(delay) THEN delay - 1 ELSE 0
<1>2. (episode = "armed" /\ Waited + 1 >= DELAY) <=> Over
  BY <1>1 DEF Over, Counted, EpisodeMatchesCountdown
<1>3. CASE Over
  <2>1. episode' = "reported"
    BY <1>3 DEF AlarmDelay
  <2> QED
    BY <1>1, <1>2, <1>3, <2>1 DEF Contract!Second, Contract!Ripe
<1>4. CASE ~Over
  <2>1. episode' = episode /\ delay' = Counted
    BY <1>4 DEF AlarmDelay
  <2>2. episode = "armed" => Waited' = Waited + 1
    BY <1>1, <1>4, <2>1 DEF Counted, Over, EpisodeMatchesCountdown
  <2> QED
    BY <1>1, <1>2, <1>4, <2>1, <2>2 DEF Contract!Second, Contract!Ripe
<1> QED
  BY <1>3, <1>4

\* Every step maps to a step of the contract or leaves it unchanged.
LEMMA NextRefines ==
    ASSUME TypeOK, TypeOK', EpisodeMatchesCountdown, [Next]_vars
    PROVE  [Contract!CNext]_(Contract!cvars)
<1> USE DEF Contract!CNext, Contract!cvars
<1>1. CASE InputDebounced \/ InputReleased
  BY <1>1, ThreadRefines
<1>2. CASE AlarmDelay
  BY <1>2, SecondRefines
<1>3. CASE \E en \in {0, 1}, ty \in {NC, NO}, d \in Delays : SaveInput(en, ty, d)
  <2>1. UNCHANGED <<delay, episode>>
    BY <1>3 DEF SaveInput
  <2>2. DELAY' \in Delays
    BY DEF TypeOK
  <2> QED
    BY <2>1, <2>2 DEF Contract!Configure
<1>4. ASSUME \/ Flip \/ InputBegin \/ InputForeign \/ InputPressed \/ InputLetGo
             \/ Restart \/ UNCHANGED vars
      PROVE  UNCHANGED <<delay, episode, DELAY>>
  BY <1>4 DEF Flip, InputBegin, InputForeign, InputPressed, InputLetGo, Restart, Quiet,
              settings, vars
<1> QED
  BY <1>1, <1>2, <1>3, <1>4 DEF Next, ptInput1

\* Input 1 keeps the contract of an alarm source, for all delays and any
\* number of bounces, forms and restarts: its report needs a countdown, which
\* ptInput1NC or ptInput1NO started or the backup SRAM kept, leaves at the
\* first second at which the delay has passed, and once.
THEOREM InputRefinement == Spec => InputKeepsContract
<1>1. Init => TypeOK
  BY WordRoom, BoundsAssumption DEF Init, TypeOK, Words, PCs
<1>2. Init => EpisodeMatchesCountdown
  BY DEF Init, EpisodeMatchesCountdown
<1>3. Init => Contract!CInit
  <2> SUFFICES ASSUME Init
               PROVE  Contract!CInit
    OBVIOUS
  <2>1. delay \in Nat /\ DELAY \in Delays /\ episode \in {"quiet", "armed"}
    BY WordRoom DEF Init, Words
  <2>2. (IF Running(delay) THEN delay - 1 ELSE 0) \in Nat
    BY <2>1, WordRoom DEF Running
  <2> QED
    BY <2>1, <2>2 DEF Contract!CInit
<1> QED
  BY <1>1, <1>2, <1>3, StepTypes, EpisodeKept, NextRefines, PTL
     DEF Spec, InputKeepsContract, Contract!CSpec
=============================================================================
