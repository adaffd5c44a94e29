----------------------------- MODULE WAppSender -----------------------------
(***************************************************************************)
(* WhatsApp delivery of an alarm: SendWApp and TestWApp fill the one       *)
(* message buffer wapp, the protothread ptWapp (polled while wAppflag is   *)
(* set) walks through the recipients, and the HTTP client's receive        *)
(* callback wappReceive frees the channel for the next recipient.          *)
(***************************************************************************)
EXTENDS Integers

CONSTANTS
    R,            \* recipients are 1 .. R (five in the firmware)
    MaxAlarms     \* bound: alarms and test messages in a behaviour

Recipients == 1 .. R

WAPP_FREE == 0
WAPP_BUSY == 1

ASSUME RAssumption == R \in Nat \ {0}
ASSUME AlarmsAssumption == MaxAlarms \in Nat

VARIABLES
    Msg,         \* wapp.Msg: the text of the Msg-th alarm; 0 is the empty text
    enable,      \* recipients whose wapp.enableN is set
    wAppflag,    \* ptWapp is polled while this is 1
    wAppStatus,  \* WAPP_FREE or WAPP_BUSY
    pt,          \* ptWapp: 0 at PT_BEGIN, -1 at PT_YIELD, r at the wait before
                 \* recipient r, R + 1 at the last wait
    http,        \* requests that have had no answer yet
    tails,       \* requests whose answer may have further segments
    (* history variables *)
    asked,       \* what the alarms asked for
    sent,        \* requests that were made
    whole,       \* alarms that found the thread at rest and were not followed
                 \* by another one before their end
    lost         \* a request has ended without any answer

wapphistory == <<asked, sent, whole, lost>>
wappvars == <<Msg, enable, wAppflag, wAppStatus, pt, http, tails, wapphistory>>

Request == [to : Recipients, msg : 1 .. MaxAlarms]

WAppTypeOK ==
    /\ Msg \in 0 .. MaxAlarms
    /\ enable \subseteq Recipients
    /\ wAppflag \in {0, 1}
    /\ wAppStatus \in {WAPP_FREE, WAPP_BUSY}
    /\ pt \in -1 .. R + 1
    /\ http \subseteq Request /\ tails \subseteq Request
    /\ asked \subseteq Request
    /\ sent \subseteq Request
    /\ whole \subseteq 1 .. MaxAlarms
    /\ lost \in BOOLEAN
-----------------------------------------------------------------------------
WAppInit ==
    /\ Msg = 0
    /\ enable = {}
    /\ wAppflag = 0
    /\ wAppStatus = WAPP_FREE
    /\ pt = 0
    /\ http = {} /\ tails = {}
    /\ asked = {} /\ sent = {}
    /\ whole = {} /\ lost = FALSE

\* History: the new alarm overtakes the one whose sending is under way, and
\* has the thread for itself if that is at rest.
Overtake ==
    whole' = (IF wAppflag = 1 THEN whole \ {Msg} ELSE whole)
               \cup (IF wAppflag = 0 /\ pt = 0 THEN {Msg + 1} ELSE {})

\* Mutant: the recipients of the alarm before stay enabled.
SendWApp_KeepsEnables(E) ==
    /\ Msg < MaxAlarms
    /\ Msg' = Msg + 1
    /\ enable' = enable \cup E
    /\ wAppflag' = IF E = {} THEN 0 ELSE 1
    /\ asked' = asked \cup {[to |-> r, msg |-> Msg'] : r \in E}
    /\ Overtake
    /\ UNCHANGED <<wAppStatus, pt, http, tails, sent, lost>>

\* SendWApp and SendWAppInput: the delay of an alarm has expired.  E is the
\* set of recipients the EEPROM enables for that sensor or input.
SendWApp(E) ==
    /\ Msg < MaxAlarms
    /\ Msg' = Msg + 1
    /\ enable' = E
    /\ wAppflag' = IF E = {} THEN 0 ELSE 1
    /\ asked' = asked \cup {[to |-> r, msg |-> Msg'] : r \in E}
    /\ Overtake
    /\ UNCHANGED <<wAppStatus, pt, http, tails, sent, lost>>

\* TestWApp: the web page sends a test message to one recipient.  The other
\* enables keep what the last alarm left there.
TestWApp(r) ==
    /\ Msg < MaxAlarms
    /\ Msg' = Msg + 1
    /\ enable' = enable \cup {r}
    /\ wAppflag' = 1
    /\ asked' = asked \cup {[to |-> r, msg |-> Msg']}
    /\ Overtake
    /\ UNCHANGED <<wAppStatus, pt, http, tails, sent, lost>>

\* ptWapp, first poll: PT_YIELD.
WappYield ==
    /\ wAppflag = 1 /\ pt = 0
    /\ pt' = -1
    /\ UNCHANGED <<Msg, enable, wAppflag, wAppStatus, http, tails, wapphistory>>

\* The first wait that the thread has not passed yet.
At == IF pt = -1 THEN 1 ELSE pt

Waits == wAppflag = 1 /\ pt # 0

\* Mutant: the thread goes back to the wait of the recipient it served.
WappSend_Again(r) ==
    /\ Waits /\ wAppStatus = WAPP_FREE
    /\ r >= At /\ r \in enable
    /\ \A q \in enable : At <= q => r <= q
    /\ wAppStatus' = WAPP_BUSY
    /\ http' = http \cup {[to |-> r, msg |-> Msg]}
    /\ sent' = sent \cup {[to |-> r, msg |-> Msg]}
    /\ pt' = r
    /\ UNCHANGED <<Msg, enable, wAppflag, tails, asked, whole, lost>>

\* ptWapp, the channel is free and r is the next enabled recipient.
\* send_whatsapp_message starts a request that carries a copy of the text.
WappSend(r) ==
    /\ Waits /\ wAppStatus = WAPP_FREE
    /\ r >= At /\ r \in enable
    /\ \A q \in enable : At <= q => r <= q
    /\ wAppStatus' = WAPP_BUSY
    /\ http' = http \cup {[to |-> r, msg |-> Msg]}
    /\ sent' = sent \cup {[to |-> r, msg |-> Msg]}
    /\ pt' = r + 1
    /\ UNCHANGED <<Msg, enable, wAppflag, tails, asked, whole, lost>>

\* Mutant: the last recipient is taken for passed.
WappDone_Early ==
    /\ Waits /\ wAppStatus = WAPP_FREE
    /\ \A q \in enable : q <= At
    /\ wAppflag' = 0
    /\ pt' = 0
    /\ UNCHANGED <<Msg, enable, wAppStatus, http, tails, wapphistory>>

\* ptWapp, no enabled recipient is left.
WappDone ==
    /\ Waits /\ wAppStatus = WAPP_FREE
    /\ \A q \in enable : q < At
    /\ wAppflag' = 0
    /\ pt' = 0
    /\ UNCHANGED <<Msg, enable, wAppStatus, http, tails, wapphistory>>

ptWapp == WappYield \/ WappDone \/ \E r \in Recipients : WappSend(r)

\* The answer's segments: after the first there may be more.
Segment(q) ==
    /\ q \in http \cup tails
    /\ http' = http \ {q}
    /\ tails' \in {tails \ {q}, tails \cup {q}}

\* Mutant: only a last segment frees the channel, and a connection that is
\* kept has none.
wappReceive_KeepsBusy(q) ==
    /\ Segment(q)
    /\ UNCHANGED <<Msg, enable, wAppflag, wAppStatus, pt, wapphistory>>

\* A segment of the server's answer: wappReceive frees the channel.
wappReceive(q) ==
    /\ Segment(q)
    /\ wAppStatus' = WAPP_FREE
    /\ UNCHANGED <<Msg, enable, wAppflag, pt, wapphistory>>

\* The request ends without data, or without more (name not resolved, no
\* connection, timeout, no memory): wappResult only prints.
wappResult(q) ==
    /\ q \in http \cup tails
    /\ http' = http \ {q} /\ tails' = tails \ {q}
    /\ lost' = (lost \/ q \in http)
    /\ UNCHANGED <<Msg, enable, wAppflag, wAppStatus, pt, asked, sent, whole>>

WAppNext ==
    \/ \E E \in SUBSET Recipients : SendWApp(E)
    \/ \E r \in Recipients : TestWApp(r)
    \/ ptWapp
    \/ \E q \in Request : wappReceive(q) \/ wappResult(q)

WAppSpec == WAppInit /\ [][WAppNext]_wappvars

(* The main loop polls ptWapp for ever; a request that does not end        *)
(* otherwise is answered.                                                  *)
WAppFairSpec ==
    /\ WAppSpec
    /\ WF_wappvars(ptWapp)
    /\ \A q \in Request : WF_wappvars(wappReceive(q))
-----------------------------------------------------------------------------
(* Once the sending flag is down, every recipient of an alarm or a test    *)
(* has been sent its message, if that alarm found ptWapp at rest and was   *)
(* not overtaken, whatever alarms came before it and whatever fails.       *)
AllSent ==
    wAppflag = 0 => \A q \in asked : q.msg \in whole => q \in sent

(* No recipient is sent the same message twice, however alarms, test       *)
(* messages and late answers interleave with the thread.                   *)
NoRepeat == [][(\E r \in Recipients : WappSend(r)) => sent' # sent]_wappvars

(* The channel drains: the sending flag does not stay up for ever, unless  *)
(* a request has ended without an answer.                                  *)
ChannelDrains == wAppflag = 1 ~> wAppflag = 0 \/ lost
=============================================================================
