--------------------------- MODULE AlarmDelivery ---------------------------
(***************************************************************************)
(* From the countdowns to the two channels: ptAlarmDelay walks once a      *)
(* second through the countdowns of the sensors and of the inputs, and for *)
(* each one that is over calls SendWApp (or SendWAppInput) and SendSMS.    *)
(* The channels are modules WAppSender and SmsSender, whose variables and  *)
(* actions this one takes over; each has a single message buffer, which    *)
(* the sources that fall due share.  Nobody asks for the credit here.      *)
(*                                                                         *)
(* The walk is one call of the main loop: the threads and the callbacks of *)
(* the channels run before it or after it, but a power failure may fall    *)
(* into it, after the countdown's word has been cleared and before the     *)
(* messages are in their buffers.                                          *)
(***************************************************************************)
EXTENDS WAppSender, SmsSender

CONSTANTS
    SOURCES,       \* sensors and inputs, in the order of the walk
    WAppOn,        \* WAppOn[s]: recipients EEPROM enables for the source s
    SMSOn,         \* SMSOn[s]: phones EEPROM enables for the source s
    DELAY,         \* DELAY[s]: its alarm delay in seconds
    MaxRestarts    \* bound: restarts in a behaviour

Sources == 1 .. SOURCES

ASSUME SourcesAssumption ==
    /\ SOURCES \in Nat \ {0}
    /\ DELAY \in [Sources -> Nat]
    /\ WAppOn \in [Sources -> SUBSET Recipients]
    /\ SMSOn \in [Sources -> SUBSET Phones]
ASSUME RestartsAssumption == MaxRestarts \in Nat
\* Every alarm of a behaviour may have its SMS.
ASSUME RequestsAssumption == MaxRequests = MaxAlarms

VARIABLES
    NV_DELAY,      \* the countdown words of the backup SRAM
    cnt,           \* the walk's index; SOURCES + 1 outside the walk
    due,           \* the word of cnt has been cleared, its messages not sent
    raised,        \* alarms so far
    restarts,
    (* history variables *)
    origin,        \* origin[n]: the source of the n-th message
    calmWApp,      \* the WhatsApp channel was at rest when the walk began
    calmSMS,       \* so was the SMS channel
    onWApp,        \* messages that found the channel at rest and were not
                   \* overtaken: not followed by another before their end
    onSMS,
    failed         \* texts of SMS whose connection was not made, or was
                   \* reset, before their body was written

walk     == <<NV_DELAY, cnt, due>>
calm     == <<calmWApp, calmSMS>>
history  == <<origin, onWApp, onSMS, failed>>
vars == <<walk, raised, restarts, wappvars, infobipvars, calm, history>>

Outside == SOURCES + 1

TypeOK ==
    /\ NV_DELAY \in [Sources -> Nat]
    /\ \A s \in Sources : NV_DELAY[s] <= 1 \/ NV_DELAY[s] <= DELAY[s]
    /\ cnt \in 1 .. Outside /\ due \in BOOLEAN
    /\ raised \in 0 .. MaxAlarms /\ restarts \in 0 .. MaxRestarts
    /\ WAppTypeOK /\ SmsTypeOK
    /\ origin \in [1 .. MaxAlarms -> 0 .. SOURCES]
    /\ calmWApp \in BOOLEAN /\ calmSMS \in BOOLEAN
    /\ onWApp \subseteq 1 .. Msg /\ onSMS \subseteq 1 .. poruka
    /\ failed \subseteq 0 .. MaxRequests
-----------------------------------------------------------------------------
Init ==
    /\ NV_DELAY = [s \in Sources |-> 0]
    /\ cnt = Outside /\ due = FALSE
    /\ raised = 0 /\ restarts = 0
    /\ WAppInit /\ SmsInit
    /\ origin = [n \in 1 .. MaxAlarms |-> 0]
    /\ calmWApp = FALSE /\ calmSMS = FALSE
    /\ onWApp = {} /\ onSMS = {} /\ failed = {}

\* test_alarm or an input's thread raises an alarm (modules SensorAlarm and
\* InputAlarm), or takes it back before its countdown is over.
Raise(s) ==
    /\ cnt = Outside /\ raised < MaxAlarms
    /\ raised' = raised + 1
    /\ NV_DELAY' = [NV_DELAY EXCEPT ![s] = 1]
    /\ UNCHANGED <<cnt, due, restarts, wappvars, infobipvars, calm, history>>

Clear(s) ==
    /\ cnt = Outside /\ NV_DELAY[s] # 0
    /\ NV_DELAY' = [NV_DELAY EXCEPT ![s] = 0]
    /\ UNCHANGED <<cnt, due, raised, restarts, wappvars, infobipvars, calm, history>>

\* A second is over: the walk begins.
Second ==
    /\ cnt = Outside /\ NV_DELAY # [s \in Sources |-> 0]
    /\ cnt' = 1
    /\ calmWApp' = (wAppflag = 0 /\ pt = 0) /\ calmSMS' = (wcl_active = 0)
    /\ UNCHANGED <<NV_DELAY, due, raised, restarts, wappvars, infobipvars, history>>

Counted(s) == IF NV_DELAY[s] = 0 THEN 0 ELSE NV_DELAY[s] + 1

\* Mutant: a word that is over stays as it is.
Counting_Keeps(over) ==
    NV_DELAY' = [NV_DELAY EXCEPT ![cnt] = IF over THEN 1 ELSE Counted(cnt)]

\* Mutant: a word is stored before it is compared.
Counting_StoresFirst(over) ==
    NV_DELAY' = [NV_DELAY EXCEPT ![cnt] = Counted(cnt)]

\* The word is counted, or cleared if it is over.
Counting(over) ==
    NV_DELAY' = [NV_DELAY EXCEPT ![cnt] = IF over THEN 0 ELSE Counted(cnt)]

\* One source of the walk.
Count ==
    /\ cnt # Outside /\ ~due
    /\ due' = (Counted(cnt) > DELAY[cnt])
    /\ Counting(due')
    /\ cnt' = IF due' THEN cnt ELSE cnt + 1
    /\ UNCHANGED <<raised, restarts, wappvars, infobipvars, calm, history>>

\* History: the message that is on its way is overtaken.
Ahead(messages, busy, last) == IF busy = 1 THEN messages \ {last} ELSE messages

\* SendWApp or SendWAppInput, and SendSMS, for the source cnt.
Send ==
    /\ due /\ due' = FALSE /\ cnt' = cnt + 1
    /\ SendWApp(WAppOn[cnt])
    /\ send_infobip(SMSOn[cnt])
    /\ origin' = [origin EXCEPT ![Msg'] = cnt]
    /\ onWApp' = Ahead(onWApp, wAppflag, Msg) \cup (IF calmWApp THEN {Msg'} ELSE {})
    /\ onSMS' = Ahead(onSMS, wcl_active, poruka) \cup (IF calmSMS THEN {poruka'} ELSE {})
    /\ UNCHANGED <<NV_DELAY, raised, restarts, calm, failed>>

\* The WhatsApp thread and the HTTP client's callbacks.
WAppThread ==
    /\ cnt = Outside
    /\ ptWapp
    /\ UNCHANGED <<walk, raised, restarts, infobipvars, calm, history>>

Answer ==
    /\ cnt = Outside
    /\ \E q \in Request : wappReceive(q) \/ wappResult(q)
    /\ UNCHANGED <<walk, raised, restarts, infobipvars, calm, history>>

\* History: the SMS that is under way fails in this step, or does not.
Fails(now) == failed' = IF now THEN failed \cup {infobip.text} ELSE failed

\* The SMS thread, which fails when the timer of its connection expires.
SmsThread ==
    /\ cnt = Outside
    /\ ptWCL
    /\ Fails(pc = "connect" /\ pc' = "begin")
    /\ UNCHANGED <<walk, raised, restarts, wappvars, calm, origin, onWApp, onSMS>>

\* Its connection, whose reset is a failure until the body is written.
Connection ==
    /\ cnt = Outside
    /\ wclConnected \/ wclRecv \/ Aborted
    /\ Fails(pcb' = "freed" /\ pc # "answer")
    /\ UNCHANGED <<walk, raised, restarts, wappvars, calm, origin, onWApp, onSMS>>

\* Check4hour or a power failure: both channels are at rest again and only
\* the countdown words are kept.
Restart ==
    /\ restarts < MaxRestarts
    /\ restarts' = restarts + 1
    /\ cnt' = Outside /\ due' = FALSE
    /\ enable' = {} /\ wAppflag' = 0 /\ wAppStatus' = WAPP_FREE /\ pt' = 0
    /\ http' = {} /\ tails' = {}
    /\ gsm' = {} /\ wcl_active' = 0 /\ pc' = "begin" /\ gsmState' = WCL_WAITING
    /\ pcb' = "none" /\ header' = 0 /\ infobip' = [text |-> 0, to |-> {}]
    /\ onWApp' = Ahead(onWApp, wAppflag, Msg) /\ onSMS' = Ahead(onSMS, wcl_active, poruka)
    /\ UNCHANGED <<NV_DELAY, raised, Msg, asked, sent, whole, lost, poruka,
                   wcl_credit_active, credit_pc, gsmCreditState, credit_pcb, credits,
                   wanted, posted, enquired, calm, origin, failed>>

ptAlarmDelay == Second \/ Count \/ Send

Next ==
    \/ \E s \in Sources : Raise(s) \/ Clear(s)
    \/ ptAlarmDelay
    \/ WAppThread \/ Answer
    \/ SmsThread \/ Connection
    \/ Restart

Spec == Init /\ [][Next]_vars

(* The main loop polls ptAlarmDelay and ptWapp for ever; a request that    *)
(* does not end otherwise is answered.                                     *)
FairSpec ==
    /\ Spec
    /\ WF_vars(ptAlarmDelay) /\ WF_vars(WAppThread) /\ WF_vars(SmsThread)
    /\ \A q \in Request : WF_vars(Answer /\ wappReceive(q))
-----------------------------------------------------------------------------
(* A text only goes where EEPROM wants the alarms of its own source to go, *)
(* although all sources fill the same buffers and may do so while the      *)
(* threads are at work: the recipients of the message, and for an SMS the  *)
(* phones of the source and the last phone.                                *)
RightRecipients ==
    /\ \A q \in sent : q.to \in WAppOn[origin[q.msg]]
    /\ \A p \in posted : p.body.to = SMSOn[origin[p.body.text]] \cup {G}

\* The n-th message has been sent to all its recipients, its SMS has been
\* handed to the connection.
SentToAll(n) == \A r \in WAppOn[origin[n]] : [to |-> r, msg |-> n] \in sent
PostedToAll(n) ==
    \E p \in posted : p.body = [text |-> n, to |-> SMSOn[origin[n]] \cup {G}]

\* Messages that found their channel at rest and have not been sent yet.
OwedWApp == {n \in onWApp : ~SentToAll(n)}
OwedSMS  == {n \in onSMS \ failed : ~PostedToAll(n)}

(* Of the alarms that fall due in one second the last one in the order of  *)
(* the walk leaves the device before the sending flags go down: by         *)
(* WhatsApp to all recipients of its source, if it has any, and by SMS in  *)
(* a body for all phones of its source.  It must have found the channel at *)
(* rest when the walk began and not be overtaken by a later alarm or cut   *)
(* off by a restart; an SMS also has no second attempt when its connection *)
(* is not made or is reset.  A source without recipients overtakes the one *)
(* before it all the same.                                                 *)
LastOfSecondSent ==
    /\ wAppflag = 0 => OwedWApp = {}
    /\ wcl_active = 0 => OwedSMS = {}

(* No alarm makes two messages, whatever restarts and countdowns do: what  *)
(* has been handed to the channels, what is still counted and what the     *)
(* walk has cleared but not handed over are no more than the alarms.       *)
NoMoreThanRaised ==
    Msg + Cardinality({s \in Sources : NV_DELAY[s] # 0}) + (IF due THEN 1 ELSE 0) <= raised

(* A message that finds its channel at rest when its walk begins is not    *)
(* left undone: on WhatsApp it is sent to all recipients of its source,    *)
(* unless a later alarm or a restart comes before that or a request ends   *)
(* without an answer, and its SMS is posted to all phones of its source,   *)
(* unless a later alarm or a restart comes before that or the connection   *)
(* is not made or is reset.  A message that finds its channel at work may  *)
(* be left undone without any of these.                                    *)
CalmIsSent ==
    /\ OwedWApp # {} ~> OwedWApp = {} \/ lost
    /\ OwedSMS # {} ~> OwedSMS = {}
=============================================================================
