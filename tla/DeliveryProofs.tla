--------------------------- MODULE DeliveryProofs ---------------------------
(***************************************************************************)
(* Proofs about the delivery of alarms: the WhatsApp channel (WAppSender), *)
(* the SMS channel (SmsSender), and the two under the walk that feeds them *)
(* (AlarmDelivery).                                                        *)
(*                                                                         *)
(* WhatsApp, for any number of recipients and alarms: an alarm that no     *)
(* other disturbs reaches every recipient it is meant for, and none twice, *)
(* whatever the HTTP client and the server do.                             *)
(***************************************************************************)
EXTENDS AlarmDelivery, FiniteSetTheorems, TLAPS

(* What has been sent of the undisturbed alarms, by where ptWapp is:   *)
(* AllSent speaks only of the end of the thread, so an induction needs the *)
(* recipients the thread has passed, and that an alarm which is in whole   *)
(* and not the current one has had its end.                                *)
Progress ==
    /\ whole \subseteq 1 .. Msg
    /\ wAppflag = 0 => \A q \in asked : q.msg \in whole => q \in sent
    /\ \A q \in asked : q.msg <= Msg
    /\ \A q \in asked : q.msg \in whole =>
         /\ q.msg < Msg => q \in sent
         /\ q.msg = Msg => q.to \in enable
         /\ q.msg = Msg /\ q.to < pt => q \in sent

WInv == WAppTypeOK /\ Progress

(* The variables start in their types and nothing is asked for.            *)
LEMMA WInitEstablishes == WAppInit => WInv
  <1>1. WAppInit => lost \in BOOLEAN BY DEF WAppInit
  <1> QED BY <1>1, RAssumption, AlarmsAssumption
          DEF WAppInit, WInv, WAppTypeOK, Progress, WAPP_FREE, WAPP_BUSY

(* A request for the current message is a request.                         *)
LEMMA RequestTyped ==
    ASSUME NEW r \in Recipients, NEW m \in 1 .. MaxAlarms
    PROVE  [to |-> r, msg |-> m] \in Request
  BY DEF Request

(* Recipients are numbered from one.                                       *)
LEMMA RecipientPositive ==
    ASSUME NEW E \in SUBSET Recipients, NEW r \in E PROVE r \in Nat \ {0}
  BY RAssumption DEF Recipients

(* An alarm has been numbered before anything is sent: ptWapp runs only    *)
(* while the flag is up, and only alarms and tests raise it.               *)
Numbered == wAppflag = 1 => Msg >= 1

(* Types, for every step.                                                  *)
LEMMA WTypePreserved ==
    ASSUME WAppTypeOK, Numbered, [WAppNext]_wappvars
    PROVE  WAppTypeOK' /\ Numbered'
  <1>0. /\ Msg \in 0 .. MaxAlarms /\ enable \subseteq Recipients
        /\ wAppflag \in {0, 1} /\ wAppStatus \in {0, 1} /\ pt \in -1 .. R + 1
        /\ http \subseteq Request /\ tails \subseteq Request
        /\ asked \subseteq Request /\ sent \subseteq Request
        /\ whole \subseteq 1 .. MaxAlarms /\ lost \in BOOLEAN
    BY DEF WAppTypeOK, WAPP_FREE, WAPP_BUSY
  <1>1. ASSUME NEW E \in SUBSET Recipients, SendWApp(E) PROVE WAppTypeOK' /\ Numbered'
    <2>1. Msg' \in 1 .. MaxAlarms
      BY <1>0, <1>1, AlarmsAssumption DEF SendWApp
    <2>2. asked' \subseteq Request
      BY <1>0, <1>1, <2>1, RequestTyped DEF SendWApp
    <2>3. whole' \subseteq 1 .. MaxAlarms
      BY <1>0, <1>1, <2>1 DEF SendWApp, Overtake
    <2> QED BY <1>0, <1>1, <2>1, <2>2, <2>3, AlarmsAssumption
            DEF SendWApp, WAppTypeOK, Numbered, WAPP_FREE, WAPP_BUSY
  <1>2. ASSUME NEW r \in Recipients, TestWApp(r) PROVE WAppTypeOK' /\ Numbered'
    <2>1. Msg' \in 1 .. MaxAlarms
      BY <1>0, <1>2, AlarmsAssumption DEF TestWApp
    <2>2. asked' \subseteq Request
      BY <1>0, <1>2, <2>1, RequestTyped DEF TestWApp
    <2>3. whole' \subseteq 1 .. MaxAlarms
      BY <1>0, <1>2, <2>1 DEF TestWApp, Overtake
    <2> QED BY <1>0, <1>2, <2>1, <2>2, <2>3, AlarmsAssumption
            DEF TestWApp, WAppTypeOK, Numbered, WAPP_FREE, WAPP_BUSY
  <1>3. ASSUME WappYield \/ WappDone PROVE WAppTypeOK' /\ Numbered'
    <2>1. /\ UNCHANGED <<Msg, enable, wAppStatus, http, tails, asked, sent, whole>>
          /\ lost' = lost
      BY <1>3 DEF WappYield, WappDone, wapphistory
    <2>2. /\ wAppflag' \in {0, 1} /\ pt' \in -1 .. R + 1
          /\ wAppflag' = 1 => wAppflag = 1
      BY <1>0, <1>3, RAssumption DEF WappYield, WappDone
    <2> QED BY <1>0, <2>1, <2>2 DEF WAppTypeOK, Numbered, WAPP_FREE, WAPP_BUSY
  <1>4. ASSUME NEW r \in Recipients, WappSend(r) PROVE WAppTypeOK' /\ Numbered'
    <2>1. Msg \in 1 .. MaxAlarms
      BY <1>0, <1>4, AlarmsAssumption DEF WappSend, Waits, Numbered
    <2>2. http' \subseteq Request /\ sent' \subseteq Request
      BY <1>0, <1>4, <2>1, RequestTyped DEF WappSend
    <2>3. pt' \in -1 .. R + 1
      BY <1>4, RAssumption DEF WappSend, Recipients
    <2> QED BY <1>0, <1>4, <2>1, <2>2, <2>3
            DEF WappSend, WAppTypeOK, Numbered, WAPP_FREE, WAPP_BUSY
  <1>5. ASSUME NEW q \in Request, wappReceive(q) PROVE WAppTypeOK' /\ Numbered'
    BY <1>0, <1>5
    DEF wappReceive, Segment, WAppTypeOK, Numbered, WAPP_FREE, WAPP_BUSY, wapphistory
  <1>6. ASSUME NEW q \in Request, wappResult(q) PROVE WAppTypeOK' /\ Numbered'
    <2>1. lost' \in BOOLEAN
      BY <1>6 DEF wappResult
    <2> QED BY <1>0, <1>6, <2>1
            DEF wappResult, WAppTypeOK, Numbered, WAPP_FREE, WAPP_BUSY
  <1>7. CASE UNCHANGED wappvars
    BY <1>7 DEF wappvars, wapphistory, WAppTypeOK, Numbered
  <1> QED BY <1>1, <1>2, <1>3, <1>4, <1>5, <1>6, <1>7 DEF WAppNext, ptWapp

(* A new alarm: what was undisturbed until now has been sent, and the new  *)
(* one is undisturbed only if the thread is at its beginning.              *)
LEMMA AlarmKeepsProgress ==
    ASSUME WInv, Msg' = Msg + 1, Overtake, sent' = sent, pt' = pt,
           NEW E \in SUBSET Recipients, E \subseteq enable',
           wAppflag' = 0 => E = {},
           asked' = asked \cup {[to |-> r, msg |-> Msg'] : r \in E}
    PROVE  Progress'
  <1>0. /\ Msg \in Nat /\ pt \in Int /\ wAppflag \in {0, 1}
        /\ whole \subseteq 1 .. Msg
        /\ \A q \in asked : q.msg \in Int /\ q.msg <= Msg
    BY AlarmsAssumption DEF WInv, WAppTypeOK, Request, Progress
  <1>1. whole' \subseteq 1 .. Msg'
    <2>1. whole' \subseteq whole \cup {Msg + 1}
      BY DEF Overtake
    <2> QED BY <1>0, <2>1
  <1>2. ASSUME NEW q \in asked, q.msg \in whole' PROVE q \in sent
    <2>1. q.msg \in whole
      BY <1>0, <1>2 DEF Overtake
    <2>2. CASE wAppflag = 0
      BY <1>2, <2>1, <2>2 DEF WInv, Progress
    <2>3. CASE wAppflag = 1
      <3>1. q.msg < Msg
        BY <1>0, <1>2, <2>3 DEF Overtake
      <3> QED BY <1>2, <2>1, <3>1 DEF WInv, Progress
    <2> QED BY <1>0, <2>2, <2>3
  <1>3. ASSUME NEW r \in E, Msg' \in whole' PROVE pt' = 0
    BY <1>0, <1>3 DEF Overtake
  <1>4. ASSUME NEW q \in asked'
        PROVE  /\ q.msg <= Msg'
               /\ q.msg \in whole' =>
                    /\ wAppflag' = 0 => q \in sent'
                    /\ q.msg < Msg' => q \in sent'
                    /\ q.msg = Msg' => q.to \in enable'
                    /\ q.msg = Msg' /\ q.to < pt' => q \in sent'
    <2>1. CASE q \in asked
      BY <1>0, <1>2, <2>1
    <2>2. CASE \E r \in E : q = [to |-> r, msg |-> Msg']
      <3>1. PICK r \in E : q = [to |-> r, msg |-> Msg'] BY <2>2
      <3>2. q.msg = Msg' /\ q.to = r /\ r \in Nat \ {0}
        BY <3>1, RecipientPositive
      <3>3. Msg' \in Int /\ wAppflag' # 0 /\ r \in enable'
        BY <1>0, <3>1
      <3>4. q.msg \in whole' => ~(q.to < pt')
        BY <1>3, <3>1, <3>2
      <3> QED BY <3>2, <3>3, <3>4
    <2> QED BY <1>4, <2>1, <2>2
  <1> QED BY <1>1, <1>4 DEF Progress

(* The progress of the thread, for every step.                             *)
LEMMA ProgressPreserved ==
    ASSUME WInv, [WAppNext]_wappvars
    PROVE  Progress'
  <1>0. /\ Msg \in Int /\ pt \in Int /\ enable \subseteq Recipients
        /\ wAppflag \in {0, 1}
        /\ \A q \in asked : q.msg \in Int /\ q.to \in Int
        /\ \A q \in asked : q = [to |-> q.to, msg |-> q.msg]
    BY RAssumption DEF WInv, WAppTypeOK, Request, Recipients
  <1>1. ASSUME NEW E \in SUBSET Recipients, SendWApp(E) PROVE Progress'
    BY <1>1, AlarmKeepsProgress DEF SendWApp
  <1>2. ASSUME NEW r \in Recipients, TestWApp(r) PROVE Progress'
    <2>1. /\ {r} \in SUBSET Recipients /\ {r} \subseteq enable' /\ wAppflag' # 0
          /\ asked' = asked \cup {[to |-> p, msg |-> Msg'] : p \in {r}}
      BY <1>2 DEF TestWApp
    <2> QED BY <1>2, <2>1, AlarmKeepsProgress DEF TestWApp
  <1>3. CASE WappYield
    BY <1>0, <1>3 DEF WappYield, WInv, Progress, WAppTypeOK, Request, Recipients, wapphistory
  <1>4. CASE WappDone
    <2>1. ASSUME NEW q \in asked, q.msg \in whole PROVE q \in sent
      <3>1. q.msg = Msg => q.to < pt
        BY <1>0, <1>4, <2>1 DEF WappDone, WInv, Progress, At, Waits, Recipients
      <3> QED BY <1>0, <2>1, <3>1 DEF WInv, Progress
    <2> QED BY <1>0, <1>4, <2>1 DEF WappDone, WInv, Progress, wapphistory
  <1>5. ASSUME NEW r \in Recipients, WappSend(r) PROVE Progress'
    <2>1. ASSUME NEW q \in asked, q.msg \in whole, q.msg = Msg, q.to < r + 1
          PROVE  q \in sent'
      <3>1. q.to < pt \/ q.to = r
        BY <1>0, <1>5, <2>1 DEF WappSend, WInv, Progress, At, Recipients
      <3> QED BY <1>0, <1>5, <2>1, <3>1 DEF WappSend, WInv, Progress
    <2> QED BY <1>0, <1>5, <2>1 DEF WappSend, Waits, WInv, Progress
  <1>6. ASSUME NEW q \in Request, wappReceive(q) \/ wappResult(q) PROVE Progress'
    BY <1>6 DEF wappReceive, Segment, wappResult, WInv, Progress, wapphistory
  <1>7. CASE UNCHANGED wappvars
    BY <1>7 DEF wappvars, wapphistory, WInv, Progress
  <1> QED BY <1>1, <1>2, <1>3, <1>4, <1>5, <1>6, <1>7 DEF WAppNext, ptWapp

(* Type correctness of the sender, whatever the order of alarms, test      *)
(* messages and answers: the thread's position stays within the recipients *)
(* and no request carries the empty text.                                  *)
THEOREM WTypeCorrect == WAppSpec => []WAppTypeOK
  <1>1. WAppInit => WAppTypeOK /\ Numbered
    BY WInitEstablishes DEF WInv, WAppInit, Numbered
  <1>2. WAppTypeOK /\ Numbered /\ [WAppNext]_wappvars => WAppTypeOK' /\ Numbered'
    BY WTypePreserved
  <1> QED BY <1>1, <1>2, PTL DEF WAppSpec

(* An alarm that finds ptWapp at rest and is not overtaken reaches every   *)
(* recipient it asked for before the sending flag goes down, however often *)
(* requests fail or answers come in late pieces.                           *)
THEOREM UndisturbedAlarmsSent == WAppSpec => []AllSent
  <1>1. WAppInit => WInv BY WInitEstablishes
  <1>2. WInv /\ WAppTypeOK' /\ [WAppNext]_wappvars => WInv'
    BY ProgressPreserved DEF WInv
  <1>3. WInv => AllSent BY DEF WInv, Progress, AllSent
  <1> QED BY <1>1, <1>2, <1>3, WTypeCorrect, PTL DEF WAppSpec

(* What has been sent of the current message went to recipients that the   *)
(* thread has passed; once the thread is done it starts with a new message. *)
Passed ==
    \A q \in sent : /\ q.msg <= Msg
                    /\ q.msg = Msg => wAppflag = 0 \/ (0 < pt /\ q.to < pt)

(* Passed, for every step.                                                 *)
LEMMA PassedPreserved ==
    ASSUME WAppTypeOK, Passed, [WAppNext]_wappvars PROVE Passed'
  <1>0. /\ Msg \in Nat /\ pt \in Int /\ wAppflag \in {0, 1}
        /\ \A q \in sent : q.msg \in Int /\ q.to \in Int
    BY AlarmsAssumption, RAssumption DEF WAppTypeOK, Request, Recipients
  <1>1. ASSUME Msg' = Msg + 1, sent' = sent PROVE Passed'
    BY <1>0, <1>1 DEF Passed
  <1>2. ASSUME NEW r \in Recipients, WappSend(r) PROVE Passed'
    <2>1. /\ Msg' = Msg /\ pt' = r + 1 /\ wAppflag = 1
          /\ sent' = sent \cup {[to |-> r, msg |-> Msg]}
          /\ r \in Nat \ {0} /\ (pt > 0 => r >= pt)
      BY <1>0, <1>2, RAssumption DEF WappSend, Waits, At, Recipients
    <2>2. ASSUME NEW q \in sent
          PROVE q.msg <= Msg' /\ (q.msg = Msg' => 0 < pt' /\ q.to < pt')
      BY <1>0, <2>1 DEF Passed
    <2> QED BY <1>0, <2>1, <2>2 DEF Passed
  <1>3. CASE WappYield \/ WappDone
    BY <1>0, <1>3 DEF WappYield, WappDone, wapphistory, Passed
  <1>4. CASE UNCHANGED <<Msg, wAppflag, pt, sent>>
    BY <1>4 DEF Passed
  <1>5. ASSUME NEW q \in Request, wappReceive(q) \/ wappResult(q)
        PROVE  UNCHANGED <<Msg, wAppflag, pt, sent>>
    BY <1>5 DEF wappReceive, wappResult, wapphistory
  <1> QED BY <1>1, <1>2, <1>3, <1>4, <1>5
          DEF WAppNext, ptWapp, SendWApp, TestWApp, wappvars, wapphistory

(* A step that sends, sends what has not been sent.                        *)
LEMMA PassedSendsAnew ==
    ASSUME WAppTypeOK, Passed, NEW r \in Recipients, WappSend(r) PROVE sent' # sent
  <1>1. /\ wAppflag = 1 /\ [to |-> r, msg |-> Msg] \in sent'
        /\ r \in Nat /\ pt \in Int /\ (pt > 0 => r >= pt)
    BY RAssumption DEF WappSend, Waits, At, Recipients, WAppTypeOK
  <1>2. [to |-> r, msg |-> Msg] \notin sent
    BY <1>1 DEF Passed
  <1> QED BY <1>1, <1>2

(* No recipient is sent a message a second time: the thread never goes     *)
(* back, and a message that interrupts it has a text of its own.           *)
THEOREM NobodyIsSentTwice == WAppSpec => NoRepeat
  <1>1. WAppInit => Passed
    BY DEF WAppInit, Passed
  <1>2. WAppTypeOK /\ Passed /\ [WAppNext]_wappvars => Passed'
    BY PassedPreserved
  <1>3. WAppTypeOK /\ Passed /\ [WAppNext]_wappvars
          => [(\E r \in Recipients : WappSend(r)) => sent' # sent]_wappvars
    BY PassedSendsAnew
  <1> QED BY <1>1, <1>2, <1>3, WTypeCorrect, PTL DEF WAppSpec, NoRepeat
-----------------------------------------------------------------------------
(***************************************************************************)
(* SMS, for any number of phones, requests and credit enquiries:           *)
(* connections are closed, texts go to the phones of their own request,    *)
(* and the length that a header announces is that of its body.             *)
(***************************************************************************)
(* A request has been made whenever the SMS thread is at work.             *)
Requested == wcl_active = 1 \/ pc # "begin" => poruka # 0

(* The recipients in the buffers: those of the last request, and in a body *)
(* those of the request whose text it has.                                 *)
Addressed ==
    /\ poruka # 0 => gsm = EnabledPhones(wanted[poruka])
    /\ infobip.text <= poruka
    /\ infobip.text # 0 => infobip.to = EnabledPhones(wanted[infobip.text])
    /\ pc \in {"connect", "header"} => infobip.text # 0
    /\ \A p \in posted : p.body.text <= poruka

(* The header is the length of the body buffer until the body is written,  *)
(* unless an enquiry has rebuilt the buffer.                               *)
Announced ==
    pc \in {"connect", "header"} => enquired \/ header = Length(infobip)

(* NoMixing and HeaderAnnouncesBody speak of what was posted; an induction *)
(* needs the same of the buffers it is posted from.                        *)
SInv ==
    /\ SmsTypeOK /\ Requested /\ ConnectionsBalance
    /\ Addressed /\ NoMixing
    /\ Announced /\ HeaderAnnouncesBody
-----------------------------------------------------------------------------
(* The length of a body is a number: its recipients are finitely many.     *)
LEMMA LengthIsNatural ==
    ASSUME NEW b \in Body PROVE Length(b) \in Nat
  <1>1. IsFiniteSet(Phones)
    BY FS_Interval, GAssumption DEF Phones
  <1>2. IsFiniteSet(b.to)
    BY <1>1, FS_Subset DEF Body
  <1>3. Cardinality(b.to) \in Nat
    BY <1>2, FS_CardinalityType
  <1>4. b.text \in Nat
    BY BoundsAssumption DEF Body
  <1>5. (G + 1) * b.text \in Nat
    BY <1>4, GAssumption
  <1> QED BY <1>3, <1>5 DEF Length

(* The last phone is a phone.                                              *)
LEMMA EnabledArePhones ==
    ASSUME NEW S \in SUBSET Phones PROVE EnabledPhones(S) \in SUBSET Phones
  BY GAssumption DEF EnabledPhones, Phones

(* The buffers make a body.                                                *)
LEMMA CurrentBodyTyped == SmsTypeOK => CurrentBody \in Body
  BY DEF SmsTypeOK, CurrentBody, Body

(* The variables start in their types, at rest.                            *)
LEMMA SInitEstablishes == SmsInit => SInv
  <1> SUFFICES ASSUME SmsInit PROVE SInv OBVIOUS
  <1>1. SmsTypeOK
    <2>1. infobip \in Body
      BY BoundsAssumption DEF SmsInit, Body
    <2>2. enquired \in BOOLEAN
      BY DEF SmsInit
    <2>3. posted \subseteq [body : Body, announced : Nat, enquired : BOOLEAN]
      BY DEF SmsInit
    <2> QED BY <2>1, <2>2, <2>3, BoundsAssumption DEF SmsInit, SmsTypeOK, PCs, WCL_WAITING
  <1> QED BY <1>1 DEF SmsInit, SInv, Requested, ConnectionsBalance, Addressed,
             NoMixing, Announced, HeaderAnnouncesBody
-----------------------------------------------------------------------------
(* Types, for every step.                                                  *)
LEMMA STypePreserved ==
    ASSUME SmsTypeOK, [SmsNext]_infobipvars PROVE SmsTypeOK'
  <1> USE DEF PCs, WCL_WAITING, WCL_CONNECTED, WCL_ANSWER
  <1>0. /\ poruka \in 0 .. MaxRequests /\ CurrentBody \in Body /\ infobip \in Body
        /\ MaxRequests \in Nat /\ MaxCredits \in Nat
    BY CurrentBodyTyped, BoundsAssumption DEF SmsTypeOK
  <1>1. ASSUME NEW S \in SUBSET Phones, send_infobip(S) PROVE SmsTypeOK'
    BY <1>0, <1>1, EnabledArePhones DEF send_infobip, SmsTypeOK, creditvars, buffer
  <1>2. CASE WclYield
    BY <1>2 DEF WclYield, Poll, SmsTypeOK, creditvars, buffer
  <1>3. CASE WclConnect
    <2>1. header' \in Nat /\ infobip' \in Body
      BY <1>0, <1>3, LengthIsNatural DEF WclConnect
    <2>2. enquired' \in BOOLEAN
      BY <1>3 DEF WclConnect
    <2>3. pc' \in PCs /\ pcb' = "syn" /\ gsmState' = 0
      BY <1>0, <1>3 DEF WclConnect, Poll
    <2>4. UNCHANGED <<poruka, gsm, wcl_active, wanted, posted, creditvars>>
      BY <1>3 DEF WclConnect
    <2> QED BY <2>1, <2>2, <2>3, <2>4 DEF SmsTypeOK, creditvars
  <1>4. CASE WclHeader
    BY <1>4 DEF WclHeader, Poll, SmsTypeOK, creditvars, buffer
  <1>5. CASE WclBody
    <2>1. [body |-> infobip, announced |-> header, enquired |-> enquired]
            \in [body : Body, announced : Nat, enquired : BOOLEAN]
      BY <1>0 DEF SmsTypeOK
    <2>2. posted' \subseteq [body : Body, announced : Nat, enquired : BOOLEAN]
      BY <1>5, <2>1 DEF WclBody, SmsTypeOK
    <2>3. pc' \in PCs
      BY <1>5 DEF WclBody, Poll
    <2>4. UNCHANGED <<poruka, gsm, wcl_active, header, gsmState, pcb, wanted,
                      creditvars, buffer>>
      BY <1>5 DEF WclBody
    <2> QED BY <2>2, <2>3, <2>4 DEF SmsTypeOK, creditvars, buffer
  <1>6. CASE WclAnswered
    BY <1>6 DEF WclAnswered, Poll, wcl__close, SmsTypeOK, creditvars, buffer
  <1>7. CASE WclTimeout
    BY <1>7 DEF WclTimeout, Poll, wcl__close, SmsTypeOK, creditvars, buffer
  <1>8. CASE wclConnected \/ wclRecv \/ Aborted
    BY <1>8 DEF wclConnected, wclRecv, Aborted, SmsTypeOK, creditvars, buffer
  <1>9. CASE get_credit
    BY <1>0, <1>9 DEF get_credit, SmsTypeOK, smsvars, buffer
  <1>10. CASE CreditYield \/ CreditRequest \/ CreditEnd
    BY <1>10
    DEF CreditYield, CreditRequest, CreditEnd, CreditPoll, wcl_status_close, SmsTypeOK,
        smsvars, buffer
  <1>11. CASE CreditConnect
    <2>1. enquired' \in BOOLEAN
      BY <1>11 DEF CreditConnect
    <2> QED BY <1>0, <1>11, <2>1 DEF CreditConnect, CreditPoll, SmsTypeOK, smsvars
  <1>12. CASE wclStatusConnected \/ wclCreditRecv \/ CreditAborted
    BY <1>12 DEF wclStatusConnected, wclCreditRecv, CreditAborted, SmsTypeOK, smsvars,
                 buffer
  <1>13. CASE UNCHANGED infobipvars
    BY <1>13 DEF infobipvars, smsvars, creditvars, buffer, SmsTypeOK
  <1> QED BY <1>1, <1>2, <1>3, <1>4, <1>5, <1>6, <1>7, <1>8, <1>9, <1>10, <1>11,
             <1>12, <1>13 DEF SmsNext, ptWCL, ptWCLcredit
-----------------------------------------------------------------------------
(* A thread opens its connection when it leaves its first two places and   *)
(* closes it when it comes back; the credit enquiry's likewise.            *)
LEMMA BalancePreserved ==
    ASSUME SInv, [SmsNext]_infobipvars PROVE ConnectionsBalance' /\ Requested'
  <1> USE DEF SInv, SmsTypeOK, ConnectionsBalance, Requested
  <1>1. ASSUME NEW S \in SUBSET Phones, send_infobip(S)
        PROVE ConnectionsBalance' /\ Requested'
    BY <1>1 DEF send_infobip, creditvars
  <1>2. CASE WclYield \/ WclConnect \/ WclHeader \/ WclBody
    BY <1>2 DEF WclYield, WclConnect, WclHeader, WclBody, Poll, creditvars
  <1>3. CASE WclAnswered \/ WclTimeout
    BY <1>3 DEF WclAnswered, WclTimeout, Poll, wcl__close, creditvars
  <1>4. CASE wclConnected \/ wclRecv \/ Aborted
    BY <1>4 DEF wclConnected, wclRecv, Aborted, creditvars
  <1>5. CASE get_credit
    BY <1>5 DEF get_credit, smsvars
  <1>6. CASE CreditYield \/ CreditConnect \/ CreditRequest \/ CreditEnd
    BY <1>6
    DEF CreditYield, CreditConnect, CreditRequest, CreditEnd, CreditPoll,
        wcl_status_close, smsvars
  <1>7. CASE wclStatusConnected \/ wclCreditRecv \/ CreditAborted
    BY <1>7 DEF wclStatusConnected, wclCreditRecv, CreditAborted, smsvars
  <1>8. CASE UNCHANGED infobipvars
    BY <1>8 DEF infobipvars, smsvars, creditvars
  <1> QED BY <1>1, <1>2, <1>3, <1>4, <1>5, <1>6, <1>7, <1>8
          DEF SmsNext, ptWCL, ptWCLcredit
-----------------------------------------------------------------------------
(* A new request is the only step that touches the recipients wanted, and  *)
(* only those of its own number.                                           *)
LEMMA RequestKeepsBodies ==
    ASSUME SInv, NEW S \in SUBSET Phones, send_infobip(S)
    PROVE  Addressed' /\ NoMixing' /\ Announced' /\ HeaderAnnouncesBody'
  <1>1. /\ poruka' = poruka + 1 /\ poruka' \in 1 .. MaxRequests
        /\ gsm' = EnabledPhones(S)
        /\ \A n \in 1 .. poruka : wanted'[n] = wanted[n]
        /\ wanted'[poruka'] = S
        /\ UNCHANGED <<header, pc, posted, infobip, enquired>>
    BY BoundsAssumption DEF send_infobip, SInv, SmsTypeOK, buffer
  <1>2. infobip.text \in 0 .. poruka
    BY DEF SInv, SmsTypeOK, Body, Addressed
  <1>3. \A p \in posted : p.body.text \in 1 .. poruka
    BY BoundsAssumption DEF SInv, SmsTypeOK, Body, Addressed, NoMixing
  <1>4. Addressed'
    <2>1. infobip.text # 0 => infobip'.to = EnabledPhones(wanted'[infobip.text])
      BY <1>1, <1>2 DEF SInv, Addressed, EnabledPhones
    <2>2. infobip'.text <= poruka' /\ \A p \in posted' : p.body.text <= poruka'
      BY <1>1, <1>2, <1>3, BoundsAssumption DEF SInv, SmsTypeOK
    <2>3. pc' \in {"connect", "header"} => infobip'.text # 0
      BY <1>1 DEF SInv, Addressed
    <2>4. poruka' # 0 => gsm' = EnabledPhones(wanted'[poruka'])
      BY <1>1
    <2> QED BY <1>1, <2>1, <2>2, <2>3, <2>4 DEF Addressed, EnabledPhones
  <1>5. NoMixing'
    BY <1>1, <1>3 DEF SInv, NoMixing, EnabledPhones
  <1>6. Announced' /\ HeaderAnnouncesBody'
    BY <1>1 DEF SInv, Announced, HeaderAnnouncesBody, Length
  <1> QED BY <1>4, <1>5, <1>6

(* Building a body takes text and recipients of the same request.          *)
LEMMA BuildKeepsBodies ==
    ASSUME SInv, poruka # 0, infobip' = CurrentBody,
           UNCHANGED <<poruka, gsm, wanted, posted>>
    PROVE  Addressed' /\ NoMixing' /\ HeaderAnnouncesBody'
  <1>1. infobip'.text = poruka /\ infobip'.to = gsm
    BY DEF CurrentBody
  <1>2. poruka \in Nat
    BY BoundsAssumption DEF SInv, SmsTypeOK
  <1>3. Addressed'
    BY <1>1, <1>2 DEF SInv, Addressed, EnabledPhones
  <1> QED BY <1>3 DEF SInv, NoMixing, HeaderAnnouncesBody, EnabledPhones, Length

(* An enquiry before the first request builds a body without text.         *)
LEMMA EmptyBuildKeepsBodies ==
    ASSUME SInv, poruka = 0, infobip' = CurrentBody,
           UNCHANGED <<poruka, gsm, wanted, posted, pc>>
    PROVE  Addressed' /\ NoMixing' /\ HeaderAnnouncesBody'
  <1>1. infobip'.text = 0 /\ pc = "begin"
    BY DEF CurrentBody, SInv, Requested
  <1> QED BY <1>1
          DEF SInv, Addressed, NoMixing, HeaderAnnouncesBody, EnabledPhones, Length

(* What is posted is the buffer, with the header made for it.              *)
LEMMA PostKeepsBodies ==
    ASSUME SInv, WclBody
    PROVE  Addressed' /\ NoMixing' /\ Announced' /\ HeaderAnnouncesBody'
  <1> DEFINE new == [body |-> infobip, announced |-> header, enquired |-> enquired]
  <1>1. /\ pc = "header" /\ pc' = "answer"
        /\ UNCHANGED <<poruka, gsm, wanted, infobip, enquired, header>>
        /\ \A p \in posted' : p \in posted \/ p = new
    BY DEF WclBody, Poll, buffer
  <1>2. /\ new.body.text # 0 /\ new.body.text <= poruka
        /\ new.body.to = EnabledPhones(wanted[new.body.text])
    BY <1>1 DEF SInv, Addressed
  <1>3. new.enquired \/ new.announced = Length(new.body)
    BY <1>1 DEF SInv, Announced
  <1>4. Addressed'
    BY <1>1, <1>2 DEF SInv, Addressed, EnabledPhones
  <1>5. NoMixing'
    BY <1>1, <1>2 DEF SInv, NoMixing, EnabledPhones
  <1>6. HeaderAnnouncesBody'
    BY <1>1, <1>3 DEF SInv, HeaderAnnouncesBody, Length
  <1>7. Announced'
    BY <1>1 DEF Announced
  <1> QED BY <1>4, <1>5, <1>6, <1>7

(* Steps that leave texts, recipients and bodies alone, and come from the  *)
(* same place of the thread or leave for one where no body is waiting.     *)
LEMMA OthersKeepBodies ==
    ASSUME SInv,
           UNCHANGED <<poruka, gsm, wanted, posted, infobip, header, enquired>>,
           pc' = pc \/ pc' \notin {"connect", "header"} \/ (pc = "connect" /\ pc' = "header")
    PROVE  Addressed' /\ NoMixing' /\ Announced' /\ HeaderAnnouncesBody'
  <1>1. Addressed' /\ NoMixing'
    BY DEF SInv, Addressed, NoMixing, EnabledPhones
  <1>2. HeaderAnnouncesBody'
    BY DEF SInv, HeaderAnnouncesBody, Length
  <1>3. Announced'
    BY DEF SInv, Announced, Length
  <1> QED BY <1>1, <1>2, <1>3

(* The bodies, for every step.                                             *)
LEMMA BodiesPreserved ==
    ASSUME SInv, [SmsNext]_infobipvars
    PROVE  Addressed' /\ NoMixing' /\ Announced' /\ HeaderAnnouncesBody'
  <1>1. ASSUME NEW S \in SUBSET Phones, send_infobip(S)
        PROVE Addressed' /\ NoMixing' /\ Announced' /\ HeaderAnnouncesBody'
    BY <1>1, RequestKeepsBodies
  <1>2. CASE WclYield \/ WclHeader \/ WclAnswered \/ WclTimeout
    <2>1. UNCHANGED <<poruka, gsm, wanted, posted, infobip, header, enquired>>
      BY <1>2 DEF WclYield, WclHeader, WclAnswered, WclTimeout, buffer
    <2>2. pc' \notin {"connect", "header"} \/ (pc = "connect" /\ pc' = "header")
      BY <1>2 DEF WclYield, WclHeader, WclAnswered, WclTimeout, Poll
    <2> QED BY <2>1, <2>2, OthersKeepBodies
  <1>3. CASE WclConnect
    <2>1. poruka # 0 /\ infobip' = CurrentBody /\ UNCHANGED <<poruka, gsm, wanted, posted>>
      BY <1>3 DEF WclConnect, Poll, SInv, Requested
    <2>2. Announced'
      BY <1>3 DEF WclConnect, Announced, Length
    <2> QED BY <2>1, <2>2, BuildKeepsBodies
  <1>4. CASE WclBody
    BY <1>4, PostKeepsBodies
  <1>5. CASE wclConnected \/ wclRecv \/ Aborted
    <2>1. UNCHANGED <<poruka, gsm, wanted, posted, infobip, header, enquired, pc>>
      BY <1>5 DEF wclConnected, wclRecv, Aborted, buffer
    <2> QED BY <2>1, OthersKeepBodies
  <1>6. CASE get_credit \/ CreditYield \/ CreditRequest \/ CreditEnd
             \/ wclStatusConnected \/ wclCreditRecv \/ CreditAborted
    <2>1. UNCHANGED <<poruka, gsm, wanted, posted, infobip, header, enquired, pc>>
      BY <1>6 DEF get_credit, CreditYield, CreditRequest, CreditEnd,
                  wclStatusConnected, wclCreditRecv, CreditAborted, smsvars, buffer
    <2> QED BY <2>1, OthersKeepBodies
  <1>7. CASE CreditConnect
    <2>1. infobip' = CurrentBody /\ UNCHANGED <<poruka, gsm, wanted, posted, pc>>
      BY <1>7 DEF CreditConnect, smsvars
    <2>2. Announced'
      BY <1>7 DEF CreditConnect, Announced
    <2> QED BY <2>1, <2>2, BuildKeepsBodies, EmptyBuildKeepsBodies
  <1>8. CASE UNCHANGED infobipvars
    <2>1. UNCHANGED <<poruka, gsm, wanted, posted, infobip, header, enquired, pc>>
      BY <1>8 DEF infobipvars, smsvars, buffer
    <2> QED BY <2>1, OthersKeepBodies
  <1> QED BY <1>1, <1>2, <1>3, <1>4, <1>5, <1>6, <1>7, <1>8
          DEF SmsNext, ptWCL, ptWCLcredit
-----------------------------------------------------------------------------
(* SInv is inductive.                                                      *)
LEMMA SInvHolds == SmsSpec => []SInv
  <1>1. SInv /\ [SmsNext]_infobipvars => SInv'
    BY STypePreserved, BalancePreserved, BodiesPreserved DEF SInv
  <1> QED BY <1>1, SInitEstablishes, PTL DEF SmsSpec

(* The buffers, the threads' places and the connections keep their types.  *)
THEOREM SmsTypeCorrect == SmsSpec => []SmsTypeOK
  <1>1. SInv => SmsTypeOK
    BY DEF SInv
  <1> QED BY <1>1, SInvHolds, PTL

(* Neither the SMS thread nor the credit enquiry loses or keeps a          *)
(* connection, by whichever way it ends: answer, timeout or reset.         *)
THEOREM ConnectionsAreClosed == SmsSpec => []ConnectionsBalance
  <1>1. SInv => ConnectionsBalance
    BY DEF SInv
  <1> QED BY <1>1, SInvHolds, PTL

(* A text goes to the phones of its own request, although the next request *)
(* and the credit enquiry rewrite the buffers while the thread waits.      *)
THEOREM TextsAreNotMixed == SmsSpec => []NoMixing
  <1>1. SInv => NoMixing
    BY DEF SInv
  <1> QED BY <1>1, SInvHolds, PTL

(* The body that is written 50 ms after the header has the announced       *)
(* length, unless a credit enquiry has rebuilt the shared buffer.          *)
THEOREM AnnouncedLengthIsRight == SmsSpec => []HeaderAnnouncesBody
  <1>1. SInv => HeaderAnnouncesBody
    BY DEF SInv
  <1> QED BY <1>1, SInvHolds, PTL
-----------------------------------------------------------------------------
(***************************************************************************)
(* The walk and both channels, for any sources, recipients and delays.     *)
(***************************************************************************)
(* The channels number their messages alike, and the walk owes the         *)
(* messages of the source it stands at.                                    *)
Counters ==
    /\ poruka = Msg
    /\ due => cnt # Outside

(* ptWapp is at work with a message whose recipients are those of the      *)
(* source it came from, and so was every message before.                   *)
Given ==
    /\ wAppflag = 1 => Msg # 0 /\ enable = WAppOn[origin[Msg]]
    /\ \A q \in sent : q.msg <= Msg /\ q.to \in WAppOn[origin[q.msg]]

(* So is the SMS thread, from the moment it is started to the moment the   *)
(* body is written; a thread that is not polled is at its beginning.       *)
Phoned ==
    /\ wcl_active = 1 => poruka # 0 /\ gsm = SMSOn[origin[poruka]] \cup {G}
    /\ wcl_active = 0 => pc = "begin"
    /\ pc \in {"connect", "header"} =>
         /\ infobip.text \in 1 .. poruka
         /\ infobip.to = SMSOn[origin[infobip.text]] \cup {G}
    /\ \A p \in posted :
         /\ p.body.text \in 1 .. poruka
         /\ p.body.to = SMSOn[origin[p.body.text]] \cup {G}

\* The recipients of the n-th message that are before the thread's place.
SentUpTo(n, place) ==
    \A r \in WAppOn[origin[n]] : r < place => [to |-> r, msg |-> n] \in sent

AllOf(n) == \A r \in WAppOn[origin[n]] : [to |-> r, msg |-> n] \in sent

(* LastOfSecondSent speaks of the end of the threads: an induction needs   *)
(* what they have done so far, that messages before the current one have   *)
(* had their end, what the SMS thread carries and whether its connection   *)
(* stands, and that a thread at rest stays so through the walk.            *)
WAppUndisturbed ==
    \A n \in onWApp :
      /\ n < Msg \/ wAppflag = 0 => AllOf(n)
      /\ SentUpTo(n, pt)

SmsUndisturbed ==
    \A n \in onSMS \ failed :
      /\ n < poruka \/ wcl_active = 0 \/ pc = "answer" => PostedToAll(n)
      /\ n = poruka /\ pc \in {"connect", "header"} =>
           /\ infobip.text = n
           /\ pcb = "open" \/ (pc = "connect" /\ gsmState # WCL_CONNECTED /\ pcb = "syn")

StaysCalm ==
    /\ cnt # Outside /\ calmWApp => pt = 0
    /\ cnt # Outside /\ calmSMS => pc = "begin"

Undisturbed == WAppUndisturbed /\ SmsUndisturbed /\ StaysCalm

DInv ==
    /\ TypeOK /\ Counters
    /\ Given /\ Phoned /\ Undisturbed
    /\ NoMoreThanRaised

(* Everything is at rest at the beginning.                                 *)
LEMMA DInitEstablishes == Init => DInv
  <1> SUFFICES ASSUME Init PROVE DInv OBVIOUS
  <1>1. WAppTypeOK /\ SmsTypeOK
    BY WInitEstablishes, SInitEstablishes DEF Init, WInv, SInv
  <1>2. due = FALSE /\ calmWApp = FALSE /\ calmSMS = FALSE
    BY DEF Init
  <1>3. TypeOK
    <2>1. /\ NV_DELAY = [s \in Sources |-> 0] /\ cnt = Outside
          /\ raised = 0 /\ restarts = 0 /\ onWApp = {} /\ onSMS = {} /\ failed = {}
          /\ origin = [n \in 1 .. MaxAlarms |-> 0]
      BY DEF Init
    <2>2. cnt \in 1 .. Outside /\ origin \in [1 .. MaxAlarms -> 0 .. SOURCES]
      BY <2>1, SourcesAssumption DEF Outside
    <2>3. due \in BOOLEAN /\ calmWApp \in BOOLEAN /\ calmSMS \in BOOLEAN
      BY <1>2
    <2> QED BY <1>1, <2>1, <2>2, <2>3, RestartsAssumption, AlarmsAssumption DEF TypeOK
  <1>4. /\ cnt = Outside /\ Msg = 0 /\ wAppflag = 0 /\ pt = 0 /\ sent = {}
        /\ poruka = 0 /\ wcl_active = 0 /\ pc = "begin" /\ posted = {} /\ raised = 0
        /\ onWApp = {} /\ onSMS = {}
    BY DEF Init, WAppInit, SmsInit
  <1>6. Counters /\ Given /\ Phoned
    BY <1>2, <1>4 DEF Counters, Given, Phoned
  <1>7. Undisturbed
    BY <1>4 DEF Undisturbed, WAppUndisturbed, SmsUndisturbed, StaysCalm
  <1>5. NoMoreThanRaised
    <2>1. {s \in Sources : NV_DELAY[s] # 0} = {}
      BY DEF Init
    <2> QED BY <1>2, <2>1, <1>4, FS_EmptySet DEF NoMoreThanRaised
  <1> QED BY <1>3, <1>5, <1>6, <1>7 DEF DInv

(* Every step but a restart is a step of each channel, or none of it.      *)
LEMMA StepsOfTheChannels ==
    ASSUME TypeOK, Counters, [Next]_vars
    PROVE  Restart \/ ([WAppNext]_wappvars /\ [SmsNext]_infobipvars)
  <1>1. ASSUME NEW s \in Sources, Raise(s) \/ Clear(s)
        PROVE  UNCHANGED <<wappvars, infobipvars>>
    BY <1>1 DEF Raise, Clear
  <1>2. ASSUME Second \/ Count PROVE UNCHANGED <<wappvars, infobipvars>>
    BY <1>2 DEF Second, Count
  <1>3. ASSUME Send PROVE WAppNext /\ SmsNext
    <2>1. cnt \in Sources
      BY <1>3, SourcesAssumption DEF Send, TypeOK, Counters, Outside, Sources
    <2>2. WAppOn[cnt] \in SUBSET Recipients /\ SMSOn[cnt] \in SUBSET Phones
      BY <2>1, SourcesAssumption
    <2> QED BY <1>3, <2>2 DEF Send, WAppNext, SmsNext
  <1>4. ASSUME WAppThread \/ Answer PROVE WAppNext /\ UNCHANGED infobipvars
    BY <1>4 DEF WAppThread, Answer, WAppNext
  <1>5. ASSUME SmsThread \/ Connection PROVE SmsNext /\ UNCHANGED wappvars
    BY <1>5 DEF SmsThread, Connection, SmsNext
  <1>6. ASSUME UNCHANGED vars PROVE UNCHANGED <<wappvars, infobipvars>>
    BY <1>6 DEF vars
  <1> QED BY <1>1, <1>2, <1>3, <1>4, <1>5, <1>6 DEF Next, ptAlarmDelay

(* What Send does to both channels, as the invariant speaks of them.       *)
LEMMA SendFacts ==
    ASSUME TypeOK, Counters, Send
    PROVE  /\ cnt \in Sources /\ due = TRUE /\ due' = FALSE /\ cnt' = cnt + 1
           /\ Msg \in Nat /\ Msg' = Msg + 1 /\ poruka' = Msg' /\ Msg' \in 1 .. MaxAlarms
           /\ origin'[Msg'] = cnt /\ \A n \in 1 .. Msg : origin'[n] = origin[n]
           /\ enable' = WAppOn[cnt] /\ wAppflag' = IF WAppOn[cnt] = {} THEN 0 ELSE 1
           /\ gsm' = SMSOn[cnt] \cup {G} /\ wcl_active' = 1
           /\ UNCHANGED <<NV_DELAY, raised, restarts, calmWApp, calmSMS>>
           /\ UNCHANGED <<pt, sent, pc, infobip, posted, failed>>
  <1>1. /\ cnt \in Sources /\ due' = FALSE /\ cnt' = cnt + 1
    BY SourcesAssumption DEF Send, TypeOK, Counters, Outside, Sources
  <1>2. due = TRUE
    BY DEF Send, TypeOK
  <1>3. /\ Msg \in Nat /\ Msg' = Msg + 1 /\ Msg' \in 1 .. MaxAlarms
        /\ enable' = WAppOn[cnt] /\ wAppflag' = IF WAppOn[cnt] = {} THEN 0 ELSE 1
        /\ UNCHANGED <<pt, sent>>
    BY AlarmsAssumption DEF Send, TypeOK, WAppTypeOK, SendWApp
  <1>4. /\ poruka' = poruka + 1 /\ gsm' = SMSOn[cnt] \cup {G} /\ wcl_active' = 1
        /\ UNCHANGED <<pc, infobip, posted, failed>>
    BY DEF Send, send_infobip, EnabledPhones, buffer
  <1>5. origin'[Msg'] = cnt /\ \A n \in 1 .. Msg : origin'[n] = origin[n]
    <2>1. origin' = [origin EXCEPT ![Msg'] = cnt]
      BY DEF Send
    <2>2. \A n \in 1 .. Msg : n \in 1 .. MaxAlarms /\ n # Msg'
      BY <1>3, AlarmsAssumption
    <2>3. origin \in [1 .. MaxAlarms -> 0 .. SOURCES]
      BY DEF TypeOK
    <2> QED BY <1>3, <2>1, <2>2, <2>3
  <1>6. UNCHANGED <<NV_DELAY, raised, restarts, calmWApp, calmSMS>>
    BY DEF Send, calm
  <1> QED BY <1>1, <1>2, <1>3, <1>4, <1>5, <1>6 DEF Counters

\* The part of TypeOK that is the walk's own.
WalkTypeOK ==
    /\ NV_DELAY \in [Sources -> Nat]
    /\ \A s \in Sources : NV_DELAY[s] <= 1 \/ NV_DELAY[s] <= DELAY[s]
    /\ cnt \in 1 .. Outside /\ due \in BOOLEAN
    /\ raised \in 0 .. MaxAlarms /\ restarts \in 0 .. MaxRestarts
    /\ origin \in [1 .. MaxAlarms -> 0 .. SOURCES]
    /\ calmWApp \in BOOLEAN /\ calmSMS \in BOOLEAN

(* The types of the walk, for every step: a countdown is at most its delay *)
(* when it is stored.                                                      *)
LEMMA WalkTypePreserved ==
    ASSUME TypeOK, Counters, [Next]_vars PROVE WalkTypeOK'
  <1>0. /\ WalkTypeOK /\ SOURCES \in Nat \ {0} /\ DELAY \in [Sources -> Nat]
    BY SourcesAssumption DEF TypeOK, WalkTypeOK
  <1>1. ASSUME NEW s \in Sources, Raise(s) \/ Clear(s) PROVE WalkTypeOK'
    <2>1. NV_DELAY' \in [Sources -> Nat] /\ \A t \in Sources : t # s => NV_DELAY'[t] = NV_DELAY[t]
      BY <1>0, <1>1 DEF Raise, Clear, WalkTypeOK
    <2>2. NV_DELAY'[s] \in {0, 1}
      BY <1>0, <1>1 DEF Raise, Clear, WalkTypeOK
    <2>3. ASSUME NEW t \in Sources PROVE NV_DELAY'[t] <= 1 \/ NV_DELAY'[t] <= DELAY[t]
      <3>1. CASE t = s BY <2>2, <3>1
      <3>2. CASE t # s BY <1>0, <2>1, <3>2 DEF WalkTypeOK
      <3> QED BY <3>1, <3>2
    <2>4. raised' \in 0 .. MaxAlarms
      BY <1>0, <1>1, AlarmsAssumption DEF Raise, Clear, WalkTypeOK
    <2>5. UNCHANGED <<cnt, due, restarts, origin, calmWApp, calmSMS>>
      BY <1>1 DEF Raise, Clear, calm, history
    <2> QED BY <1>0, <2>1, <2>3, <2>4, <2>5 DEF WalkTypeOK
  <1>2. CASE Second
    <2>1. calmWApp' \in BOOLEAN /\ calmSMS' \in BOOLEAN
      BY <1>2 DEF Second
    <2>2. cnt' \in 1 .. Outside
      BY <1>0, <1>2 DEF Second, Outside
    <2>3. UNCHANGED <<NV_DELAY, due, raised, restarts, origin>>
      BY <1>2 DEF Second, history
    <2> QED BY <1>0, <2>1, <2>2, <2>3 DEF WalkTypeOK
  <1>3. CASE Count
    <2>1. cnt \in Sources
      BY <1>0, <1>3 DEF Count, WalkTypeOK, Outside, Sources
    <2> DEFINE over == Counted(cnt) > DELAY[cnt]
    <2>2. due' \in BOOLEAN /\ (due' <=> Counted(cnt) > DELAY[cnt])
      <3>1. due' = over
        BY <1>3 DEF Count
      <3>2. over \in BOOLEAN
        OBVIOUS
      <3> HIDE DEF over
      <3>3. due' \in BOOLEAN /\ (due' <=> over)
        BY <3>1, <3>2
      <3> QED BY <3>3 DEF over
    <2>3. Counted(cnt) \in Nat
      BY <1>0, <2>1 DEF WalkTypeOK, Counted
    <2>4. NV_DELAY' = [NV_DELAY EXCEPT ![cnt] = IF due' THEN 0 ELSE Counted(cnt)]
      BY <1>3 DEF Count, Counting
    <2>5. NV_DELAY' \in [Sources -> Nat]
      BY <1>0, <2>1, <2>3, <2>4 DEF WalkTypeOK
    <2>6. NV_DELAY'[cnt] <= DELAY[cnt]
      BY <1>0, <2>1, <2>2, <2>3, <2>4 DEF WalkTypeOK
    <2>7. \A t \in Sources : NV_DELAY'[t] <= 1 \/ NV_DELAY'[t] <= DELAY[t]
      BY <1>0, <2>1, <2>4, <2>6 DEF WalkTypeOK
    <2>8. cnt' \in 1 .. Outside
      BY <1>0, <1>3, <2>1 DEF Count, Outside, Sources
    <2>9. UNCHANGED <<raised, restarts, origin, calmWApp, calmSMS>>
      BY <1>3 DEF Count, calm, history
    <2> QED BY <1>0, <2>2, <2>5, <2>7, <2>8, <2>9 DEF WalkTypeOK
  <1>4. CASE Send
    <2>1. origin' \in [1 .. MaxAlarms -> 0 .. SOURCES]
      <3>1. origin' = [origin EXCEPT ![Msg'] = cnt]
        BY <1>4 DEF Send
      <3>2. cnt \in 0 .. SOURCES
        BY <1>0, <1>4, SendFacts DEF Sources
      <3> QED BY <1>0, <3>1, <3>2 DEF WalkTypeOK
    <2>2. cnt' \in 1 .. Outside /\ due' \in BOOLEAN
      BY <1>0, <1>4, SendFacts DEF Outside, Sources
    <2>3. UNCHANGED <<NV_DELAY, raised, restarts, calmWApp, calmSMS>>
      BY <1>4 DEF Send, calm
    <2> QED BY <1>0, <2>1, <2>2, <2>3 DEF WalkTypeOK
  <1>5. CASE WAppThread \/ Answer \/ SmsThread \/ Connection \/ UNCHANGED vars
    <2>1. UNCHANGED <<NV_DELAY, cnt, due, raised, restarts, origin, calmWApp, calmSMS>>
      BY <1>5 DEF WAppThread, Answer, SmsThread, Connection, vars, walk, calm, history
    <2> QED BY <1>0, <2>1 DEF WalkTypeOK
  <1>6. CASE Restart
    <2>1. cnt' \in 1 .. Outside /\ due' = FALSE /\ restarts' \in 0 .. MaxRestarts
      BY <1>0, <1>6, RestartsAssumption DEF Restart, Outside, WalkTypeOK
    <2>2. UNCHANGED <<NV_DELAY, raised, origin, calmWApp, calmSMS>>
      BY <1>6 DEF Restart, calm
    <2> QED BY <1>0, <2>1, <2>2 DEF WalkTypeOK
  <1> QED BY <1>1, <1>2, <1>3, <1>4, <1>5, <1>6 DEF Next, ptAlarmDelay

(* The WhatsApp thread and the HTTP client's callbacks run outside the walk *)
(* and leave the message, the other channel and the countdowns alone.      *)
LEMMA WAppThreadFacts ==
    ASSUME WAppThread \/ Answer
    PROVE  /\ cnt = Outside
           /\ UNCHANGED <<Msg, enable, NV_DELAY, cnt, due, raised, origin, onWApp, onSMS, failed>>
           /\ UNCHANGED <<calmWApp, calmSMS, infobipvars>>
  <1>1. CASE WAppThread
    <2>1. UNCHANGED <<Msg, enable>>
      BY <1>1 DEF WAppThread, ptWapp, WappYield, WappDone, WappSend
    <2> QED BY <1>1, <2>1 DEF WAppThread, walk, calm, history
  <1>2. CASE Answer
    <2>1. UNCHANGED <<Msg, enable>>
      BY <1>2 DEF Answer, wappReceive, wappResult
    <2> QED BY <1>2, <2>1 DEF Answer, walk, calm, history
  <1> QED BY <1>1, <1>2

(* So do the SMS thread and its connection.                                *)
LEMMA SmsThreadFacts ==
    ASSUME SmsThread \/ Connection
    PROVE  /\ cnt = Outside
           /\ UNCHANGED <<poruka, gsm, NV_DELAY, cnt, due, raised, origin, onWApp, onSMS>>
           /\ UNCHANGED <<calmWApp, calmSMS, wappvars>>
  <1>1. CASE SmsThread
    <2>1. UNCHANGED <<poruka, gsm>>
      BY <1>1 DEF SmsThread, ptWCL, WclYield, WclConnect, WclHeader, WclBody, WclAnswered,
                  WclTimeout
    <2> QED BY <1>1, <2>1 DEF SmsThread, walk, calm, history
  <1>2. CASE Connection
    <2>1. UNCHANGED <<poruka, gsm>>
      BY <1>2 DEF Connection, wclConnected, wclRecv, Aborted
    <2> QED BY <1>2, <2>1 DEF Connection, walk, calm, history
  <1> QED BY <1>1, <1>2

\* The steps of the walk that send nothing, of the alarms, and stuttering.
Silent ==
    \/ \E s \in Sources : Raise(s) \/ Clear(s)
    \/ Second \/ Count
    \/ UNCHANGED vars

(* They leave both channels and what is known of the messages alone.       *)
LEMMA SilentFacts ==
    ASSUME Silent
    PROVE  UNCHANGED <<wappvars, infobipvars, origin, onWApp, onSMS, failed>>
  <1>1. ASSUME NEW s \in Sources, Raise(s) \/ Clear(s)
        PROVE  UNCHANGED <<wappvars, infobipvars, origin, onWApp, onSMS, failed>>
    BY <1>1 DEF Raise, Clear, history
  <1>2. ASSUME Second \/ Count
        PROVE  UNCHANGED <<wappvars, infobipvars, origin, onWApp, onSMS, failed>>
    BY <1>2 DEF Second, Count, history
  <1>3. ASSUME UNCHANGED vars
        PROVE  UNCHANGED <<wappvars, infobipvars, origin, onWApp, onSMS, failed>>
    BY <1>3 DEF vars, history
  <1> QED BY <1>1, <1>2, <1>3 DEF Silent

(* The kinds of steps that the proofs below distinguish.                   *)
LEMMA StepKinds ==
    ASSUME [Next]_vars
    PROVE  \/ Silent \/ Send \/ WAppThread \/ Answer \/ SmsThread \/ Connection \/ Restart
  BY DEF Next, ptAlarmDelay, Silent

(* TypeOK, for every step.                                                 *)
LEMMA DTypePreserved ==
    ASSUME DInv, [Next]_vars PROVE TypeOK'
  <1>0. TypeOK /\ Counters /\ Numbered /\ Msg \in Nat /\ poruka \in Nat
    BY AlarmsAssumption, BoundsAssumption
    DEF DInv, Given, Numbered, TypeOK, WAppTypeOK, SmsTypeOK
  <1>1. WalkTypeOK'
    BY <1>0, WalkTypePreserved
  <1>2. CASE Restart
    <2>1. WAppTypeOK'
      BY <1>0, <1>2, RAssumption
      DEF Restart, TypeOK, WAppTypeOK, WAPP_FREE, WAPP_BUSY
    <2>2. SmsTypeOK'
      <3>1. infobip' \in Body
        BY <1>2, BoundsAssumption DEF Restart, Body
      <3> QED BY <1>0, <1>2, <3>1
              DEF Restart, TypeOK, SmsTypeOK, PCs, WCL_WAITING, WCL_CONNECTED, WCL_ANSWER
    <2>3. /\ onWApp' \subseteq onWApp /\ onSMS' \subseteq onSMS /\ failed' = failed
          /\ Msg' = Msg /\ poruka' = poruka
      BY <1>2 DEF Restart, Ahead
    <2> QED BY <1>0, <1>1, <2>1, <2>2, <2>3 DEF TypeOK, WalkTypeOK
  <1>3. CASE ~Restart
    <2>1. WAppTypeOK' /\ SmsTypeOK'
      BY <1>0, <1>3, StepsOfTheChannels, WTypePreserved, STypePreserved DEF TypeOK
    <2>2. onWApp' \subseteq 1 .. Msg' /\ onSMS' \subseteq 1 .. poruka'
      <3>1. CASE Send
        <4>1. Msg' = Msg + 1 /\ poruka' = poruka + 1
          BY <1>0, <3>1, SendFacts DEF Counters
        <4>2. onWApp' \subseteq onWApp \cup {Msg'} /\ onSMS' \subseteq onSMS \cup {poruka'}
          BY <3>1 DEF Send, Ahead
        <4> QED BY <1>0, <4>1, <4>2 DEF TypeOK
      <3>2. CASE ~Send
        <4>1. UNCHANGED <<Msg, poruka, onWApp, onSMS>>
          BY <1>3, <3>2, StepKinds, SilentFacts, WAppThreadFacts, SmsThreadFacts
          DEF wappvars, infobipvars, smsvars
        <4> QED BY <1>0, <4>1 DEF TypeOK
      <3> QED BY <3>1, <3>2
    <2>3. failed' \subseteq 0 .. MaxRequests
      <3>1. infobip.text \in 0 .. MaxRequests /\ failed \subseteq 0 .. MaxRequests
        BY <1>0 DEF TypeOK, SmsTypeOK, Body
      <3>2. failed' = failed \/ failed' = failed \cup {infobip.text}
        <4>1. CASE SmsThread \/ Connection
          BY <4>1 DEF SmsThread, Connection, Fails
        <4>2. CASE WAppThread \/ Answer
          BY <4>2 DEF WAppThread, Answer, history
        <4>3. CASE Send
          BY <1>0, <4>3, SendFacts
        <4>4. CASE Silent
          BY <4>4, SilentFacts
        <4> QED BY <1>3, <4>1, <4>2, <4>3, <4>4, StepKinds
      <3> QED BY <3>1, <3>2
    <2> QED BY <1>1, <2>1, <2>2, <2>3 DEF TypeOK, WalkTypeOK
  <1> QED BY <1>2, <1>3

(* The channels count alike: only Send takes a new number, from both.      *)
LEMMA CountersPreserved ==
    ASSUME DInv, [Next]_vars PROVE Counters'
  <1>0. TypeOK /\ Counters
    BY DEF DInv
  <1>1. CASE Send
    BY <1>0, <1>1, SendFacts DEF Counters
  <1>2. CASE Restart
    BY <1>0, <1>2 DEF Restart, Counters
  <1>3. CASE WAppThread \/ Answer \/ SmsThread \/ Connection
    BY <1>0, <1>3, WAppThreadFacts, SmsThreadFacts
    DEF Counters, wappvars, infobipvars, smsvars, Outside
  <1>4. CASE Silent
    <2>1. Msg' = Msg /\ poruka' = poruka
      BY <1>4, SilentFacts DEF wappvars, infobipvars, smsvars
    <2>2. due' => cnt' # Outside'
      <3>1. ASSUME NEW s \in Sources, Raise(s) \/ Clear(s) PROVE due' = due /\ cnt' = cnt
        BY <3>1 DEF Raise, Clear
      <3>2. ASSUME Second PROVE due' = due /\ cnt' = 1
        BY <3>2 DEF Second
      <3>3. ASSUME Count, due' PROVE cnt' = cnt /\ cnt # Outside
        BY <3>3 DEF Count
      <3>4. ASSUME UNCHANGED vars PROVE due' = due /\ cnt' = cnt
        BY <3>4 DEF vars, walk
      <3>5. 1 # Outside
        BY SourcesAssumption DEF Outside
      <3> QED BY <1>0, <1>4, <3>1, <3>2, <3>3, <3>4, <3>5 DEF Silent, Counters, Outside
    <2> QED BY <1>0, <2>1, <2>2 DEF Counters
  <1> QED BY <1>1, <1>2, <1>3, <1>4, StepKinds

(* What is sent by WhatsApp goes where its own source wants it.            *)
LEMMA GivenPreserved ==
    ASSUME DInv, [Next]_vars PROVE Given'
  <1>0. /\ TypeOK /\ Counters /\ Given /\ Msg \in Nat
        /\ \A q \in sent : q.msg \in 1 .. Msg
    BY AlarmsAssumption DEF DInv, TypeOK, WAppTypeOK, Request, Given
  <1>1. CASE Send
    <2>1. wAppflag' = 1 => Msg' # 0 /\ enable' = WAppOn[origin'[Msg']]
      BY <1>0, <1>1, SendFacts
    <2>2. \A q \in sent : q.msg <= Msg' /\ q.to \in WAppOn[origin'[q.msg]]
      BY <1>0, <1>1, SendFacts DEF Given
    <2>3. sent' = sent
      BY <1>0, <1>1, SendFacts
    <2> QED BY <2>1, <2>2, <2>3 DEF Given
  <1>2. CASE Restart
    <2>1. wAppflag' = 0 /\ UNCHANGED <<Msg, sent, origin>>
      BY <1>2 DEF Restart
    <2> QED BY <1>0, <2>1 DEF Given
  <1>3. CASE WAppThread \/ Answer
    <2>1. UNCHANGED <<Msg, enable, origin>>
      BY <1>3, WAppThreadFacts
    <2>2. wAppflag' = 1 => wAppflag = 1
      BY <1>3
      DEF WAppThread, Answer, ptWapp, WappYield, WappDone, WappSend, wappReceive, wappResult
    <2>3. sent' = sent \/ \E r \in enable : /\ wAppflag = 1
                                            /\ sent' = sent \cup {[to |-> r, msg |-> Msg]}
      <3>1. ASSUME NEW r \in Recipients, WappSend(r)
            PROVE /\ r \in enable /\ wAppflag = 1
                  /\ sent' = sent \cup {[to |-> r, msg |-> Msg]}
        BY <3>1 DEF WappSend, Waits
      <3>2. ASSUME WappYield \/ WappDone PROVE sent' = sent
        BY <3>2 DEF WappYield, WappDone, wapphistory
      <3>3. ASSUME Answer PROVE sent' = sent
        BY <3>3 DEF Answer, wappReceive, wappResult, wapphistory
      <3> QED BY <1>3, <3>1, <3>2, <3>3 DEF WAppThread, ptWapp
    <2> QED BY <1>0, <2>1, <2>2, <2>3 DEF Given
  <1>4. CASE SmsThread \/ Connection \/ Silent
    <2>1. UNCHANGED <<Msg, enable, origin, wAppflag, sent>>
      BY <1>4, SmsThreadFacts, SilentFacts DEF wappvars, wapphistory
    <2> QED BY <1>0, <2>1 DEF Given
  <1> QED BY <1>1, <1>2, <1>3, <1>4, StepKinds

(* What is posted goes to the phones of its own source.                    *)
LEMMA PhonedPreserved ==
    ASSUME DInv, [Next]_vars PROVE Phoned'
  <1>0. /\ TypeOK /\ Counters /\ Phoned /\ poruka \in Nat /\ Msg \in Nat
        /\ \A p \in posted : p.body.text \in 1 .. poruka
    BY AlarmsAssumption, BoundsAssumption DEF DInv, TypeOK, WAppTypeOK, SmsTypeOK, Phoned
  <1>1. CASE Send
    <2>1. /\ poruka' = poruka + 1 /\ origin'[poruka'] = cnt
          /\ \A n \in 1 .. poruka : origin'[n] = origin[n]
          /\ gsm' = SMSOn[cnt] \cup {G} /\ wcl_active' = 1
          /\ UNCHANGED <<pc, infobip, posted>>
      BY <1>0, <1>1, SendFacts DEF Counters
    <2>2. pc' \in {"connect", "header"} =>
            /\ infobip'.text \in 1 .. poruka'
            /\ infobip'.to = SMSOn[origin'[infobip'.text]] \cup {G}
      BY <1>0, <2>1 DEF Phoned
    <2>3. \A p \in posted' :
            /\ p.body.text \in 1 .. poruka'
            /\ p.body.to = SMSOn[origin'[p.body.text]] \cup {G}
      BY <1>0, <2>1 DEF Phoned
    <2> QED BY <1>0, <2>1, <2>2, <2>3 DEF Phoned
  <1>2. CASE Restart
    <2>1. wcl_active' = 0 /\ pc' = "begin" /\ UNCHANGED <<poruka, posted, origin>>
      BY <1>2 DEF Restart
    <2> QED BY <1>0, <2>1 DEF Phoned
  <1>3. CASE SmsThread \/ Connection
    <2>1. UNCHANGED <<poruka, gsm, origin>>
      BY <1>3, SmsThreadFacts
    <2>2. CASE WclConnect
      <3>1. /\ infobip'.text = poruka /\ infobip'.to = gsm /\ pc' = "connect"
            /\ wcl_active = 1 /\ wcl_active' = 1 /\ posted' = posted
        BY <2>2 DEF WclConnect, CurrentBody, Poll
      <3> QED BY <1>0, <2>1, <3>1 DEF Phoned
    <2>3. CASE WclBody
      <3>1. /\ pc = "header" /\ pc' = "answer" /\ UNCHANGED <<wcl_active, infobip>>
            /\ wcl_active = 1
            /\ \A p \in posted' : p \in posted \/ p.body = infobip
        BY <2>3 DEF WclBody, Poll, buffer
      <3> QED BY <1>0, <2>1, <3>1 DEF Phoned
    <2>4. CASE WclYield \/ WclHeader
      <3>1. /\ wcl_active = 1 /\ UNCHANGED <<wcl_active, infobip, posted>>
            /\ pc' = "yield" \/ (pc = "connect" /\ pc' = "header")
        BY <2>4 DEF WclYield, WclHeader, Poll, buffer
      <3> QED BY <1>0, <2>1, <3>1 DEF Phoned
    <2>5. CASE WclAnswered \/ WclTimeout
      <3>1. wcl_active' = 0 /\ pc' = "begin" /\ posted' = posted
        BY <2>5 DEF WclAnswered, WclTimeout, Poll, wcl__close
      <3> QED BY <1>0, <2>1, <3>1 DEF Phoned
    <2>6. CASE Connection
      <3>1. UNCHANGED <<wcl_active, pc, infobip, posted>>
        BY <2>6 DEF Connection, wclConnected, wclRecv, Aborted, buffer
      <3> QED BY <1>0, <2>1, <3>1 DEF Phoned
    <2> QED BY <1>3, <2>2, <2>3, <2>4, <2>5, <2>6 DEF SmsThread, ptWCL
  <1>4. CASE WAppThread \/ Answer \/ Silent
    <2>1. UNCHANGED <<poruka, gsm, origin, wcl_active, pc, infobip, posted>>
      BY <1>4, WAppThreadFacts, SilentFacts DEF infobipvars, smsvars, buffer
    <2> QED BY <1>0, <2>1 DEF Phoned
  <1> QED BY <1>1, <1>2, <1>3, <1>4, StepKinds

(* The calm of the channels lasts through the walk: the threads run only   *)
(* outside it.                                                             *)
LEMMA CalmPreserved ==
    ASSUME DInv, [Next]_vars PROVE StaysCalm'
  <1>0. TypeOK /\ Counters /\ Phoned /\ StaysCalm /\ Outside' = Outside
    BY DEF DInv, Undisturbed, Outside
  <1>1. CASE Send
    <2>1. /\ cnt # Outside /\ pt' = pt /\ pc' = pc
          /\ calmWApp' = calmWApp /\ calmSMS' = calmSMS
      BY <1>0, <1>1, SendFacts DEF Send, Counters
    <2> QED BY <1>0, <2>1 DEF StaysCalm
  <1>2. CASE Restart
    BY <1>0, <1>2 DEF Restart, StaysCalm
  <1>3. CASE WAppThread \/ Answer \/ SmsThread \/ Connection
    BY <1>0, <1>3, WAppThreadFacts, SmsThreadFacts DEF StaysCalm
  <1>4. CASE Silent
    <2>1. pt' = pt /\ pc' = pc
      BY <1>4, SilentFacts DEF wappvars, infobipvars, smsvars
    <2>2. CASE Second
      <3>1. calmWApp' => pt = 0
        BY <2>2 DEF Second
      <3>2. calmSMS' => wcl_active = 0
        BY <2>2 DEF Second
      <3> QED BY <1>0, <2>1, <3>1, <3>2 DEF Phoned, StaysCalm
    <2>3. CASE ~Second
      <3>1. calmWApp' = calmWApp /\ calmSMS' = calmSMS
        BY <1>4, <2>3 DEF Silent, Raise, Clear, Count, vars, calm
      <3>2. cnt' # Outside => cnt # Outside
        BY <1>4, <2>3 DEF Silent, Raise, Clear, Count, vars, walk
      <3> QED BY <1>0, <2>1, <3>1, <3>2 DEF StaysCalm
    <2> QED BY <2>2, <2>3
  <1> QED BY <1>1, <1>2, <1>3, <1>4, StepKinds

(* An alarm that falls due, or a restart, leaves of the undisturbed        *)
(* messages only those that have had their end; the new one has it before  *)
(* it, from the first recipient on.                                        *)
LEMMA SendKeepsUndisturbed ==
    ASSUME DInv, Send PROVE WAppUndisturbed' /\ SmsUndisturbed'
  <1>0. /\ TypeOK /\ Counters /\ WAppUndisturbed /\ SmsUndisturbed /\ StaysCalm /\ Msg \in Nat /\ poruka = Msg
        /\ wAppflag \in {0, 1} /\ wcl_active \in {0, 1} /\ cnt # Outside
        /\ onWApp \subseteq 1 .. Msg /\ onSMS \subseteq 1 .. Msg
    BY AlarmsAssumption DEF DInv, Undisturbed, TypeOK, WAppTypeOK, SmsTypeOK, Counters, Send
  <1>1. ASSUME NEW n \in onWApp'
        PROVE  (n < Msg' \/ wAppflag' = 0 => AllOf(n)') /\ SentUpTo(n, pt)'
    <2>1. CASE n \in onWApp /\ (wAppflag = 0 \/ n # Msg)
      <3>1. AllOf(n)
        BY <1>0, <2>1 DEF WAppUndisturbed
      <3>2. origin'[n] = origin[n] /\ sent' = sent
        BY <1>0, <2>1, SendFacts
      <3> QED BY <3>1, <3>2 DEF AllOf, SentUpTo
    <2>2. CASE n = Msg' /\ calmWApp
      <3>1. pt' = 0 /\ origin'[n] = cnt /\ cnt \in Sources
        BY <1>0, <2>2, SendFacts DEF StaysCalm
      <3>2. \A r \in WAppOn[cnt] : r \in Nat \ {0}
        BY <3>1, SourcesAssumption DEF Recipients
      <3>3. SentUpTo(n, pt)'
        BY <3>1, <3>2 DEF SentUpTo
      <3>4. wAppflag' = 0 => WAppOn[cnt] = {}
        BY <1>0, SendFacts
      <3>5. ~(n < Msg')
        BY <1>0, <2>2, SendFacts
      <3> QED BY <3>1, <3>3, <3>4, <3>5 DEF AllOf
    <2>3. onWApp' = (IF wAppflag = 1 THEN onWApp \ {Msg} ELSE onWApp)
                      \cup (IF calmWApp THEN {Msg'} ELSE {})
      BY DEF Send, Ahead
    <2> QED BY <1>0, <2>1, <2>2, <2>3
  <1>2. ASSUME NEW n \in onSMS', n \notin failed'
        PROVE  /\ n < poruka' \/ wcl_active' = 0 \/ pc' = "answer" => PostedToAll(n)'
               /\ ~(n = poruka' /\ pc' \in {"connect", "header"})
    <2>0. failed' = failed
      BY <1>0, SendFacts
    <2>1. CASE n \in onSMS /\ (wcl_active = 0 \/ n # poruka)
      <3>1. n \in 1 .. Msg /\ PostedToAll(n)
        BY <1>0, <1>2, <2>0, <2>1 DEF SmsUndisturbed
      <3>2. origin'[n] = origin[n] /\ posted' = posted /\ n # poruka'
        BY <1>0, <3>1, SendFacts
      <3> QED BY <3>1, <3>2 DEF PostedToAll
    <2>2. CASE n = poruka' /\ calmSMS
      <3>1. pc' = "begin" /\ wcl_active' = 1 /\ poruka' = Msg + 1
        BY <1>0, <2>2, SendFacts DEF StaysCalm
      <3> QED BY <1>0, <2>2, <3>1
    <2>3. onSMS' = (IF wcl_active = 1 THEN onSMS \ {poruka} ELSE onSMS)
                     \cup (IF calmSMS THEN {poruka'} ELSE {})
      BY DEF Send, Ahead
    <2> QED BY <1>0, <2>1, <2>2, <2>3
  <1> QED BY <1>1, <1>2 DEF WAppUndisturbed, SmsUndisturbed

LEMMA RestartKeepsUndisturbed ==
    ASSUME DInv, Restart PROVE WAppUndisturbed' /\ SmsUndisturbed'
  <1>0. /\ TypeOK /\ WAppUndisturbed /\ SmsUndisturbed /\ Msg \in Nat /\ poruka = Msg
        /\ wAppflag \in {0, 1} /\ wcl_active \in {0, 1}
        /\ onWApp \subseteq 1 .. Msg /\ onSMS \subseteq 1 .. Msg
    BY AlarmsAssumption DEF DInv, Undisturbed, TypeOK, WAppTypeOK, SmsTypeOK, Counters
  <1>1. /\ UNCHANGED <<Msg, poruka, origin, sent, posted, failed>> /\ pc' = "begin"
        /\ \A n \in onWApp' : n \in onWApp /\ (wAppflag = 0 \/ n # Msg)
        /\ \A n \in onSMS' : n \in onSMS /\ (wcl_active = 0 \/ n # poruka)
    BY <1>0 DEF Restart, Ahead
  <1>2. ASSUME NEW n \in onWApp' PROVE AllOf(n)
    <2>1. n \in onWApp /\ (wAppflag = 0 \/ n < Msg)
      <3>1. n \in onWApp /\ (wAppflag = 0 \/ n # Msg)
        BY <1>1
      <3>2. n \in 1 .. Msg /\ Msg \in Nat
        BY <1>0, <3>1
      <3> QED BY <3>1, <3>2
    <2> QED BY <1>0, <2>1 DEF WAppUndisturbed
  <1>3. \A n \in onWApp' : AllOf(n)' /\ SentUpTo(n, pt)'
    BY <1>1, <1>2 DEF AllOf, SentUpTo
  <1>4. ASSUME NEW n \in onSMS', n \notin failed' PROVE PostedToAll(n)'
    <2>1. n \in onSMS /\ (wcl_active = 0 \/ n < poruka)
      <3>1. n \in onSMS /\ (wcl_active = 0 \/ n # poruka)
        BY <1>1
      <3>2. n \in 1 .. poruka /\ poruka \in Nat
        BY <1>0, <3>1
      <3> QED BY <3>1, <3>2
    <2>2. PostedToAll(n)
      BY <1>0, <1>1, <1>4, <2>1 DEF SmsUndisturbed
    <2> QED BY <1>1, <2>2 DEF PostedToAll
  <1> QED BY <1>1, <1>3, <1>4 DEF WAppUndisturbed, SmsUndisturbed

(* The WhatsApp thread passes a recipient only by sending to it, and is    *)
(* done only when it has passed them all.                                  *)
LEMMA WAppThreadKeepsUndisturbed ==
    ASSUME DInv, WAppThread \/ Answer PROVE WAppUndisturbed'
  <1>0. /\ Given /\ WAppUndisturbed /\ SmsUndisturbed /\ StaysCalm /\ Msg \in Nat /\ pt \in Int /\ wAppflag \in {0, 1}
        /\ onWApp \subseteq 1 .. Msg /\ enable \subseteq Recipients
        /\ \A n \in onWApp : \A r \in WAppOn[origin[n]] : n = Msg /\ wAppflag = 1 => r \in enable
    BY AlarmsAssumption, RAssumption DEF DInv, Undisturbed, TypeOK, WAppTypeOK, Given
  <1>1. UNCHANGED <<Msg, origin, onWApp>>
    BY WAppThreadFacts
  <1>2. ASSUME sent \subseteq sent', wAppflag' = wAppflag,
               \A r \in Recipients : r < pt' /\ r \in enable
                    => r < pt \/ [to |-> r, msg |-> Msg] \in sent',
               wAppflag = 1 \/ pt' = pt
        PROVE  WAppUndisturbed'
    <2> SUFFICES ASSUME NEW n \in onWApp
                 PROVE (n < Msg \/ wAppflag = 0 => AllOf(n)') /\ SentUpTo(n, pt)'
      BY <1>1, <1>2 DEF WAppUndisturbed
    <2>1. AllOf(n) => AllOf(n)' /\ SentUpTo(n, pt)'
      BY <1>1, <1>2 DEF AllOf, SentUpTo
    <2>2. n < Msg \/ wAppflag = 0 => AllOf(n)
      BY <1>0 DEF WAppUndisturbed
    <2>3. ASSUME n = Msg, wAppflag = 1 PROVE SentUpTo(n, pt)'
      <3>1. \A r \in WAppOn[origin[n]] : r \in enable /\ r \in Recipients
        BY <1>0, <2>3
      <3>2. SentUpTo(n, pt)
        BY <1>0 DEF WAppUndisturbed
      <3> QED BY <1>1, <1>2, <2>3, <3>1, <3>2 DEF SentUpTo
    <2> QED BY <1>0, <2>1, <2>2, <2>3
  <1>3. CASE WappYield
    <2>1. sent' = sent /\ wAppflag' = wAppflag /\ wAppflag = 1 /\ pt' = -1
      BY <1>3 DEF WappYield, wapphistory
    <2>2. \A r \in Recipients : ~(r < -1)
      BY RAssumption DEF Recipients
    <2> QED BY <1>2, <2>1, <2>2
  <1>4. ASSUME NEW r \in Recipients, WappSend(r) PROVE WAppUndisturbed'
    <2>1. /\ sent' = sent \cup {[to |-> r, msg |-> Msg]} /\ wAppflag' = wAppflag
          /\ wAppflag = 1 /\ pt' = r + 1
          /\ \A q \in enable : At <= q => r <= q
      BY <1>4 DEF WappSend, Waits
    <2>2. ASSUME NEW q \in Recipients, q < r + 1, q \in enable
          PROVE q < pt \/ [to |-> q, msg |-> Msg] \in sent'
      <3>1. q = r \/ q < At
        BY <2>1, <2>2, <1>0, RAssumption DEF Recipients, At
      <3>2. q < At => q < pt
        BY RAssumption DEF At, Recipients
      <3> QED BY <2>1, <3>1, <3>2
    <2> QED BY <1>2, <2>1, <2>2
  <1>5. CASE Answer
    <2>1. sent' = sent /\ wAppflag' = wAppflag /\ pt' = pt
      BY <1>5 DEF Answer, wappReceive, wappResult, wapphistory
    <2> QED BY <1>2, <2>1
  <1>6. CASE WappDone
    <2>1. /\ wAppflag' = 0 /\ pt' = 0 /\ sent' = sent /\ wAppflag = 1
          /\ \A q \in enable : q < At
      BY <1>6 DEF WappDone, Waits, wapphistory
    <2>2. ASSUME NEW n \in onWApp PROVE AllOf(n)
      <3>1. CASE n < Msg
        BY <1>0, <3>1 DEF WAppUndisturbed
      <3>2. CASE n = Msg
        <4>1. \A r \in WAppOn[origin[n]] : r \in enable /\ r \in Recipients /\ r < At
          BY <1>0, <2>1, <3>2
        <4>2. \A r \in WAppOn[origin[n]] : r < pt
          BY <1>0, <4>1, RAssumption DEF At, Recipients
        <4> QED BY <1>0, <4>2 DEF WAppUndisturbed, SentUpTo, AllOf
      <3> QED BY <1>0, <3>1, <3>2
    <2>3. \A n \in onWApp' : AllOf(n)' /\ SentUpTo(n, pt)'
      BY <1>1, <2>1, <2>2 DEF AllOf, SentUpTo
    <2> QED BY <2>3 DEF WAppUndisturbed
  <1> QED BY <1>3, <1>4, <1>5, <1>6 DEF WAppThread, ptWapp

(* The SMS thread takes the last message with it, writes its body to a     *)
(* connection that stands, and comes back without that only by a failure.  *)
LEMMA SmsThreadKeepsUndisturbed ==
    ASSUME DInv, SmsThread \/ Connection PROVE SmsUndisturbed'
  <1>0. /\ SmsUndisturbed /\ Phoned /\ poruka \in Nat /\ wcl_active \in {0, 1}
        /\ onSMS \subseteq 1 .. poruka /\ infobip \in [text : 0 .. MaxRequests, to : SUBSET Phones]
    BY BoundsAssumption DEF DInv, Undisturbed, TypeOK, SmsTypeOK, Body
  <1>1. UNCHANGED <<poruka, onSMS, origin>> /\ failed \subseteq failed'
    <2>1. failed \subseteq failed'
      BY DEF SmsThread, Connection, Fails
    <2> QED BY <2>1, SmsThreadFacts
  <1>2. posted \subseteq posted'
    BY DEF SmsThread, ptWCL, WclYield, WclConnect, WclHeader, WclBody, WclAnswered,
           WclTimeout, Connection, wclConnected, wclRecv, Aborted
  <1> SUFFICES ASSUME NEW n \in onSMS, n \notin failed'
               PROVE  /\ n < poruka \/ wcl_active' = 0 \/ pc' = "answer" => PostedToAll(n)'
                      /\ n = poruka /\ pc' \in {"connect", "header"} =>
                           /\ infobip'.text = n
                           /\ \/ pcb' = "open"
                              \/ pc' = "connect" /\ gsmState' # WCL_CONNECTED /\ pcb' = "syn"
    BY <1>1 DEF SmsUndisturbed
  <1>3. /\ n < poruka \/ wcl_active = 0 \/ pc = "answer" => PostedToAll(n)
        /\ n = poruka /\ pc \in {"connect", "header"} =>
             /\ infobip.text = n
             /\ pcb = "open" \/ (pc = "connect" /\ gsmState # WCL_CONNECTED /\ pcb = "syn")
        /\ n \in 1 .. poruka
    BY <1>0, <1>1 DEF SmsUndisturbed
  <1>4. PostedToAll(n) => PostedToAll(n)'
    BY <1>1, <1>2 DEF PostedToAll
  <1>5. CASE WclYield
    <2>1. wcl_active' = 1 /\ pc' = "yield"
      BY <1>5 DEF WclYield, Poll
    <2> QED BY <1>3, <1>4, <2>1
  <1>6. CASE WclConnect
    <2>1. /\ wcl_active' = 1 /\ pc' = "connect" /\ infobip'.text = poruka /\ pcb' = "syn"
          /\ gsmState' # WCL_CONNECTED
      BY <1>6 DEF WclConnect, Poll, CurrentBody, WCL_WAITING, WCL_CONNECTED
    <2> QED BY <1>3, <1>4, <2>1
  <1>7. CASE WclHeader
    <2>1. /\ wcl_active' = 1 /\ pc = "connect" /\ pc' = "header"
          /\ gsmState = WCL_CONNECTED /\ UNCHANGED <<infobip, pcb>>
      BY <1>7 DEF WclHeader, Poll, buffer
    <2> QED BY <1>3, <1>4, <2>1
  <1>8. CASE WclBody
    <2>1. /\ wcl_active' = 1 /\ pc = "header" /\ pc' = "answer"
          /\ pcb = "open" => posted' = posted \cup {[body |-> infobip, announced |-> header,
                                                    enquired |-> enquired]}
      BY <1>8 DEF WclBody, Poll
    <2>2. CASE n = poruka
      <3>1. infobip.text = n /\ pcb = "open"
        BY <1>3, <2>1, <2>2
      <3>2. infobip.to = SMSOn[origin[n]] \cup {G}
        BY <1>0, <2>1, <3>1 DEF Phoned
      <3>3. infobip = [text |-> n, to |-> SMSOn[origin[n]] \cup {G}]
        BY <1>0, <3>1, <3>2
      <3> DEFINE new == [body |-> infobip, announced |-> header, enquired |-> enquired]
      <3>4. new \in posted' /\ new.body = infobip
        BY <2>1, <3>1
      <3> HIDE DEF new
      <3>5. \E p \in posted' : p.body = [text |-> n, to |-> SMSOn[origin[n]] \cup {G}]
        BY <3>3, <3>4
      <3>6. PostedToAll(n)'
        BY <1>1, <3>5 DEF PostedToAll
      <3> QED BY <2>1, <3>6
    <2>3. CASE n # poruka
      <3>1. n < poruka
        BY <1>0, <1>3, <2>3
      <3> QED BY <1>3, <1>4, <2>3, <3>1
    <2> QED BY <2>2, <2>3
  <1>9. CASE WclAnswered
    <2>1. pc = "answer" /\ pc' = "begin"
      BY <1>9 DEF WclAnswered, Poll
    <2> QED BY <1>3, <1>4, <2>1
  <1>10. CASE SmsThread /\ WclTimeout
    <2>1. pc \in {"connect", "answer"} /\ pc' = "begin"
      BY <1>10 DEF WclTimeout, Poll
    <2>2. CASE pc = "connect"
      <3>1. infobip.text # n
        BY <1>10, <2>1, <2>2 DEF SmsThread, Fails
      <3>2. n < poruka
        BY <1>0, <1>3, <2>2, <3>1
      <3> QED BY <1>3, <1>4, <2>1, <3>2
    <2>3. CASE pc = "answer"
      BY <1>3, <1>4, <2>1, <2>3
    <2> QED BY <2>1, <2>2, <2>3
  <1>11. CASE Connection
    <2>1. UNCHANGED <<wcl_active, pc, infobip>>
      BY <1>11 DEF Connection, wclConnected, wclRecv, Aborted, buffer
    <2>2. CASE wclConnected
      BY <1>3, <1>4, <2>1, <2>2 DEF wclConnected
    <2>3. CASE wclRecv
      BY <1>3, <1>4, <2>1, <2>3 DEF wclRecv
    <2>4. CASE Aborted
      <3>1. pc # "answer" => infobip.text # n
        BY <1>11, <2>4 DEF Connection, Fails, Aborted
      <3> QED BY <1>3, <1>4, <2>1, <3>1
    <2> QED BY <1>11, <2>2, <2>3, <2>4 DEF Connection
  <1> QED BY <1>5, <1>6, <1>7, <1>8, <1>9, <1>10, <1>11 DEF SmsThread, ptWCL

(* Undisturbed, for every step.                                            *)
LEMMA UndisturbedPreserved ==
    ASSUME DInv, [Next]_vars PROVE Undisturbed'
  <1>0. WAppUndisturbed /\ SmsUndisturbed
    BY DEF DInv, Undisturbed
  <1>1. ASSUME UNCHANGED <<wappvars, origin, onWApp>> PROVE WAppUndisturbed'
    <2>1. UNCHANGED <<Msg, wAppflag, pt, sent, origin, onWApp>>
      BY <1>1 DEF wappvars, wapphistory
    <2> QED BY <1>0, <2>1 DEF WAppUndisturbed, AllOf, SentUpTo
  <1>2. ASSUME UNCHANGED <<infobipvars, origin, onSMS, failed>> PROVE SmsUndisturbed'
    <2>1. UNCHANGED <<poruka, wcl_active, pc, infobip, gsmState, pcb, posted, origin, onSMS,
                      failed>>
      BY <1>2 DEF infobipvars, smsvars, buffer
    <2> QED BY <1>0, <2>1 DEF SmsUndisturbed, PostedToAll
  <1>3. WAppUndisturbed' /\ SmsUndisturbed'
    BY <1>1, <1>2, StepKinds, SilentFacts, WAppThreadFacts, SmsThreadFacts,
       SendKeepsUndisturbed, RestartKeepsUndisturbed, WAppThreadKeepsUndisturbed,
       SmsThreadKeepsUndisturbed
  <1> QED BY <1>3, CalmPreserved DEF Undisturbed

\* The sources whose countdown runs.
Running == {s \in Sources : NV_DELAY[s] # 0}

(* Messages sent and countdowns that still run never exceed the alarms: an *)
(* alarm starts one countdown, and a countdown that is over is cleared     *)
(* before its message is made.                                             *)
LEMMA NoMoreThanRaisedPreserved ==
    ASSUME DInv, [Next]_vars PROVE NoMoreThanRaised'
  <1> DEFINE set == Running
             owed == IF due THEN 1 ELSE 0
  <1>0. /\ TypeOK /\ Counters /\ IsFiniteSet(set) /\ Cardinality(set) \in Nat
        /\ Msg \in Nat /\ raised \in Nat /\ owed \in {0, 1}
        /\ Msg + Cardinality(set) + owed <= raised
    <2>1. IsFiniteSet(Sources)
      BY FS_Interval, SourcesAssumption DEF Sources
    <2>2. IsFiniteSet(set) /\ Cardinality(set) \in Nat
      BY <2>1, FS_Subset, FS_CardinalityType DEF Running
    <2>3. Msg + Cardinality(set) + owed <= raised
      BY DEF DInv, NoMoreThanRaised, Running
    <2>4. TypeOK /\ Counters
      BY DEF DInv
    <2>5. Msg \in Nat /\ raised \in Nat
      BY <2>4, AlarmsAssumption DEF TypeOK, WAppTypeOK
    <2>6. owed \in {0, 1}
      OBVIOUS
    <2> HIDE DEF set, owed
    <2> QED BY <2>2, <2>3, <2>4, <2>5, <2>6
  <1>1. ASSUME Msg' + Cardinality(set') + owed' <= raised' PROVE NoMoreThanRaised'
    BY <1>1 DEF NoMoreThanRaised, Running
  <1> HIDE DEF owed
  <1>2. ASSUME NEW s \in Sources, Raise(s) PROVE NoMoreThanRaised'
    <2>1. set' = set \cup {s}
      BY <1>0, <1>2 DEF Raise, Running, TypeOK
    <2>2. Cardinality(set') = Cardinality(set) \/ Cardinality(set') = Cardinality(set) + 1
      BY <1>0, <2>1, FS_AddElement
    <2>3. Msg' = Msg /\ owed' = owed /\ raised' = raised + 1
      BY <1>2 DEF Raise, wappvars, owed
    <2> QED BY <1>0, <1>1, <2>2, <2>3
  <1>3. ASSUME Cardinality(set') <= Cardinality(set), Cardinality(set') \in Nat,
               Msg' = Msg, owed' = owed \/ owed' = 0, raised' = raised
        PROVE  NoMoreThanRaised'
    BY <1>0, <1>1, <1>3
  <1>4. ASSUME NEW s \in Sources, Clear(s) PROVE NoMoreThanRaised'
    <2>1. set' = set \ {s}
      BY <1>0, <1>4 DEF Clear, Running, TypeOK
    <2>2. Cardinality(set') <= Cardinality(set) /\ Cardinality(set') \in Nat
      BY <1>0, <2>1, FS_Subset, FS_CardinalityType
    <2>3. Msg' = Msg /\ owed' = owed /\ raised' = raised
      BY <1>4 DEF Clear, wappvars, owed
    <2> QED BY <1>3, <2>2, <2>3
  <1>5. ASSUME Count PROVE NoMoreThanRaised'
    <2>1. /\ cnt \in Sources /\ Counted(cnt) \in Nat /\ DELAY[cnt] \in Nat
          /\ Msg' = Msg /\ raised' = raised /\ owed = 0
          /\ (NV_DELAY[cnt] = 0 <=> Counted(cnt) = 0)
      <3>1. cnt \in Sources /\ Msg' = Msg /\ raised' = raised /\ ~due
        BY <1>0, <1>5, SourcesAssumption DEF Count, TypeOK, Sources, Outside, wappvars
      <3> QED BY <1>0, <3>1, SourcesAssumption DEF TypeOK, Counted, owed
    <2>2. CASE due'
      <3>1. Counted(cnt) > DELAY[cnt]
        BY <1>5, <2>2 DEF Count
      <3>2. NV_DELAY' = [NV_DELAY EXCEPT ![cnt] = 0]
        BY <1>5, <2>2 DEF Count, Counting
      <3>3. set' = set \ {cnt} /\ cnt \in set
        BY <1>0, <2>1, <3>1, <3>2 DEF Running, TypeOK
      <3>4. Cardinality(set') = Cardinality(set) - 1
        BY <1>0, <3>3, FS_RemoveElement
      <3>5. owed' = 1
        BY <2>2 DEF owed
      <3> QED BY <1>0, <1>1, <2>1, <3>4, <3>5
    <2>3. CASE ~due'
      <3>1. NV_DELAY' = [NV_DELAY EXCEPT ![cnt] = Counted(cnt)]
        BY <1>5, <2>3 DEF Count, Counting
      <3>2. set' = set
        BY <1>0, <2>1, <3>1 DEF Running, TypeOK
      <3>3. owed' = 0
        BY <2>3 DEF owed
      <3> QED BY <1>0, <1>3, <2>1, <3>2, <3>3
    <2> QED BY <2>2, <2>3
  <1>6. ASSUME Send PROVE NoMoreThanRaised'
    <2>1. Msg' = Msg + 1 /\ raised' = raised /\ set' = set
      BY <1>0, <1>6, SendFacts DEF Running
    <2>2. owed = 1 /\ owed' = 0
      BY <1>0, <1>6, SendFacts DEF owed
    <2> QED BY <1>0, <1>1, <2>1, <2>2
  <1>7. ASSUME Restart PROVE NoMoreThanRaised'
    <2>1. Msg' = Msg /\ raised' = raised /\ set' = set
      BY <1>7 DEF Restart, Running
    <2>2. owed' = 0
      BY <1>7 DEF Restart, owed
    <2> QED BY <1>0, <1>3, <2>1, <2>2
  <1>8. ASSUME UNCHANGED <<Msg, raised, NV_DELAY, due>> PROVE NoMoreThanRaised'
    <2>1. set' = set /\ owed' = owed
      BY <1>8 DEF Running, owed
    <2> QED BY <1>0, <1>3, <1>8, <2>1
  <1>9. ASSUME WAppThread \/ Answer \/ SmsThread \/ Connection \/ Second \/ UNCHANGED vars
        PROVE  UNCHANGED <<Msg, raised, NV_DELAY, due>>
    BY <1>9, WAppThreadFacts, SmsThreadFacts DEF Second, vars, walk, wappvars
  <1> QED BY <1>2, <1>4, <1>5, <1>6, <1>7, <1>8, <1>9 DEF Next, ptAlarmDelay

(* DInv is inductive.                                                      *)
LEMMA DInvHolds == Spec => []DInv
  <1>1. DInv /\ [Next]_vars => DInv'
    BY DTypePreserved, CountersPreserved, GivenPreserved, PhonedPreserved,
       UndisturbedPreserved, NoMoreThanRaisedPreserved
    DEF DInv
  <1> QED BY <1>1, DInitEstablishes, PTL DEF Spec

(* The countdowns, the walk and both channels keep their types through     *)
(* alarms, threads and restarts: a stored countdown is never above its     *)
(* delay, and no step of the walk leaves the sources.                      *)
THEOREM DeliveryTyped == Spec => []TypeOK
  <1>1. DInv => TypeOK
    BY DEF DInv
  <1> QED BY <1>1, DInvHolds, PTL

(* Whatever falls due while the threads are at work, a message and an SMS  *)
(* go only where EEPROM wants the alarms of their own source to go.        *)
THEOREM RecipientsAreRight == Spec => []RightRecipients
  <1>1. DInv => RightRecipients
    BY DEF DInv, Given, Phoned, RightRecipients
  <1> QED BY <1>1, DInvHolds, PTL

(* When the flags are down, a message that found the channel at rest when  *)
(* its walk began and was not overtaken or cut off has been sent to all    *)
(* recipients of its source, and its SMS has been posted to all phones of  *)
(* its source unless the connection was not made or was reset.             *)
THEOREM LastOneIsSent == Spec => []LastOfSecondSent
  <1>1. DInv => LastOfSecondSent
    BY DEF DInv, Undisturbed, WAppUndisturbed, SmsUndisturbed, AllOf, SentToAll, OwedWApp,
           OwedSMS, LastOfSecondSent
  <1> QED BY <1>1, DInvHolds, PTL

(* Each alarm makes one message at most: restarts lose messages, and never *)
(* make one.                                                               *)
THEOREM NoneSentTwice == Spec => []NoMoreThanRaised
  <1>1. DInv => NoMoreThanRaised
    BY DEF DInv
  <1> QED BY <1>1, DInvHolds, PTL

(* Restarts and several sources change nothing about that: a recipient has *)
(* one copy of a message at most.                                          *)
THEOREM NoSecondCopy == Spec => NoRepeat
  <1>1. Init => Passed
    BY DEF Init, WAppInit, Passed
  <1>2. DInv /\ Passed /\ [Next]_vars => Passed'
    <2> SUFFICES ASSUME DInv, Passed, [Next]_vars PROVE Passed'
      OBVIOUS
    <2>1. CASE Restart
      BY <2>1 DEF Restart, Passed
    <2> QED BY <2>1, StepsOfTheChannels, PassedPreserved DEF DInv, TypeOK
  <1>3. DInv /\ Passed => [(\E r \in Recipients : WappSend(r)) => sent' # sent]_wappvars
    BY PassedSendsAnew DEF DInv, TypeOK
  <1> QED BY <1>1, <1>2, <1>3, DInvHolds, PTL DEF Spec, NoRepeat

(* Connections and announced lengths, for every step.                      *)
LEMMA WiredPreserved ==
    ASSUME TypeOK, ConnectionsBalance, Announced, HeaderAnnouncesBody, [Next]_vars
    PROVE  ConnectionsBalance' /\ Announced' /\ HeaderAnnouncesBody'
  <1> USE DEF ConnectionsBalance, Announced, HeaderAnnouncesBody, Length
  <1>1. CASE Send
    BY <1>1 DEF Send, send_infobip, creditvars, buffer
  <1>2. CASE WclYield \/ WclHeader \/ WclAnswered \/ WclTimeout
    BY <1>2 DEF WclYield, WclHeader, WclAnswered, WclTimeout, Poll, wcl__close,
                creditvars, buffer
  <1>3. CASE WclConnect
    BY <1>3 DEF WclConnect, Poll, creditvars
  <1>4. CASE WclBody
    BY <1>4 DEF WclBody, Poll, creditvars, buffer
  <1>5. CASE wclConnected \/ wclRecv \/ Aborted
    BY <1>5 DEF wclConnected, wclRecv, Aborted, creditvars, buffer
  <1>6. CASE Restart
    BY <1>6 DEF Restart
  <1>7. CASE Silent \/ WAppThread \/ Answer
    BY <1>7, SilentFacts DEF WAppThread, Answer, infobipvars, smsvars, creditvars, buffer
  <1> QED BY <1>1, <1>2, <1>3, <1>4, <1>5, <1>6, <1>7, StepKinds
          DEF SmsThread, Connection, ptWCL

(* A power failure at any point of a connection leaves no connection       *)
(* without its thread, and no header for a body that is not its own.       *)
THEOREM ConnectionsSurvive == Spec => [](ConnectionsBalance /\ HeaderAnnouncesBody)
  <1>1. Init => ConnectionsBalance /\ Announced /\ HeaderAnnouncesBody
    BY DEF Init, SmsInit, ConnectionsBalance, Announced, HeaderAnnouncesBody
  <1>2. TypeOK /\ ConnectionsBalance /\ Announced /\ HeaderAnnouncesBody /\ [Next]_vars
        => (ConnectionsBalance /\ Announced /\ HeaderAnnouncesBody)'
    BY WiredPreserved
  <1> QED BY <1>1, <1>2, DeliveryTyped, PTL DEF Spec
=============================================================================
