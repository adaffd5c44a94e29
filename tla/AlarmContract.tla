---------------------------- MODULE AlarmContract ----------------------------
(***************************************************************************)
(* What the alarm chain of the firmware promises for one alarm source (a   *)
(* temperature sensor or a digital input), whatever the encoding of the    *)
(* countdown: an alarm is reported once, unless it is withdrawn first, and *)
(* at the first whole second at which it has stood for the configured      *)
(* delay.                                                                  *)
(***************************************************************************)
EXTENDS Integers

CONSTANTS Source, Delays

VARIABLES
    status,   \* "quiet", "armed" (raised, not yet due) or "reported"
    waited,   \* seconds counted since the alarm was raised, while armed
    delay     \* the configured delay

cvars == <<status, waited, delay>>

CInit ==
    /\ status \in [Source -> {"quiet", "armed"}]
    /\ waited \in [Source -> Nat]
    /\ delay \in [Source -> Delays]

\* One evaluation of the sources may raise some alarms and withdraw others.
Raised(k)    == status'[k] = "armed" /\ waited'[k] = 0
Withdrawn(k) == status'[k] = "quiet"
Kept(k)      == status'[k] = status[k] /\ waited'[k] = waited[k]

Evaluate ==
    /\ \A k \in Source : Raised(k) \/ Withdrawn(k) \/ Kept(k)
    /\ UNCHANGED delay

\* One second passes.
Ripe(k) == status[k] = "armed" /\ waited[k] + 1 >= delay[k]

Second ==
    /\ \A k \in Source :
         IF Ripe(k) THEN status'[k] = "reported"
         ELSE /\ status'[k] = status[k]
              /\ status[k] = "armed" => waited'[k] = waited[k] + 1
    /\ UNCHANGED delay

\* The user changes a delay; running countdowns go on.
Configure ==
    /\ UNCHANGED <<status, waited>>
    /\ delay' \in [Source -> Delays]

CNext == Evaluate \/ Second \/ Configure

CSpec == CInit /\ [][CNext]_cvars
=============================================================================
