------------------------------ MODULE SmsSender ------------------------------
(***************************************************************************)
(* SMS delivery through the Infobip web service: SendSMS and TestSms fill  *)
(* infobip_poruka and sms, send_infobip starts the protothread ptWCL,      *)
(* which posts one HTTP request; get_credit starts ptWCLcredit, which      *)
(* shares the body buffer infobip and its length with ptWCL.               *)
(*                                                                         *)
(* A body is built from the text and the recipients that are in the global *)
(* buffers at that moment.  Texts are numbered by request; their lengths   *)
(* differ.  Timers are abstracted to the choice of expiring at any time    *)
(* while the thread waits.                                                 *)
(***************************************************************************)
EXTENDS Integers, FiniteSets

CONSTANTS
    G,             \* phone numbers are 1 .. G (five in the firmware)
    MaxRequests,   \* bound: SMS requests in a behaviour
    MaxCredits     \* bound: credit enquiries in a behaviour

Phones == 1 .. G

ASSUME GAssumption == G \in Nat \ {0}
ASSUME BoundsAssumption == MaxRequests \in Nat /\ MaxCredits \in Nat

VARIABLES
    poruka,        \* infobip_poruka: text of the poruka-th request, 0 empty
    gsm,           \* phones whose sms.gsmN_enable is set
    wcl_active,    \* ptWCL is polled while this is 1
    infobip,       \* the body buffer
    header,        \* the length announced in wtxBuf, the request's header
    pc,            \* ptWCL: begin, yield, connect, header or answer
    gsmState,      \* WCL_WAITING, WCL_CONNECTED or WCL_ANSWER
    pcb,           \* wcl_pcb: none, syn, open, or freed by the TCP stack
    wcl_credit_active, credit_pc, gsmCreditState, credit_pcb,  \* ptWCLcredit
    credits,       \* credit enquiries so far
    (* history variables *)
    wanted,        \* wanted[n]: recipients the n-th request asked for
    posted,        \* requests that went out: body, announced length, and:
    enquired       \* a credit enquiry has rebuilt the body since the header

smsvars    == <<poruka, gsm, wcl_active, header, pc, gsmState, pcb, wanted, posted>>
creditvars == <<wcl_credit_active, credit_pc, gsmCreditState, credit_pcb, credits>>
buffer     == <<infobip, enquired>>
infobipvars == <<smsvars, creditvars, buffer>>

Body == [text : 0 .. MaxRequests, to : SUBSET Phones]

\* strlen(infobip): grows with the text and with every recipient; the texts
\* differ in length by more than the recipients can make up for.
Length(b) == (G + 1) * b.text + Cardinality(b.to)

WCL_WAITING   == 0
WCL_CONNECTED == 1
WCL_ANSWER    == 4

PCs == {"begin", "yield", "connect", "header", "answer"}

SmsTypeOK ==
    /\ poruka \in 0 .. MaxRequests
    /\ gsm \subseteq Phones
    /\ wcl_active \in {0, 1}
    /\ infobip \in Body
    /\ header \in Nat
    /\ pc \in PCs
    /\ gsmState \in {WCL_WAITING, WCL_CONNECTED, WCL_ANSWER}
    /\ pcb \in {"none", "syn", "open", "freed"}
    /\ wcl_credit_active \in {0, 1}
    /\ credit_pc \in PCs \ {"header"}
    /\ gsmCreditState \in {WCL_WAITING, WCL_CONNECTED, WCL_ANSWER}
    /\ credit_pcb \in {"none", "syn", "open", "freed"}
    /\ credits \in 0 .. MaxCredits
    /\ wanted \in [1 .. MaxRequests -> SUBSET Phones]
    /\ posted \subseteq [body : Body, announced : Nat, enquired : BOOLEAN]
    /\ enquired \in BOOLEAN
-----------------------------------------------------------------------------
SmsInit ==
    /\ poruka = 0 /\ gsm = {} /\ wcl_active = 0
    /\ infobip = [text |-> 0, to |-> {}]
    /\ header = 0 /\ pc = "begin" /\ gsmState = WCL_WAITING /\ pcb = "none"
    /\ wcl_credit_active = 0 /\ credit_pc = "begin"
    /\ gsmCreditState = WCL_WAITING /\ credit_pcb = "none" /\ credits = 0
    /\ wanted = [n \in 1 .. MaxRequests |-> {}] /\ posted = {}
    /\ enquired = FALSE

\* SendSMS or TestSms: a new text, then send_infobip with the recipients S.
\* send_infobip always enables the last phone.
EnabledPhones(S) == S \cup {G}

send_infobip(S) ==
    /\ poruka < MaxRequests
    /\ poruka' = poruka + 1
    /\ gsm' = EnabledPhones(S)
    /\ wcl_active' = 1
    /\ wanted' = [wanted EXCEPT ![poruka'] = S]
    /\ UNCHANGED <<header, pc, gsmState, pcb, posted, creditvars, buffer>>

\* CrateInfobipXMLString: the body of the request as the buffers are now.
CurrentBody == [text |-> poruka, to |-> gsm]

Poll(p, q) == wcl_active = 1 /\ pc = p /\ pc' = q

\* wcl__close, which every way out of the thread calls.
wcl__close == pcb' = "none" /\ wcl_active' = 0

WclYield ==
    /\ Poll("begin", "yield")
    /\ UNCHANGED <<poruka, gsm, wcl_active, header, gsmState, pcb, wanted, posted,
                   creditvars, buffer>>

\* The body is built, its length goes into the header, the connection opens.
WclConnect ==
    /\ Poll("yield", "connect")
    /\ infobip' = CurrentBody
    /\ header' = Length(infobip')
    /\ enquired' = FALSE
    /\ pcb' = "syn"
    /\ gsmState' = WCL_WAITING
    /\ UNCHANGED <<poruka, gsm, wcl_active, wanted, posted, creditvars>>

\* The header is written; the body follows 50 ms later.
WclHeader ==
    /\ Poll("connect", "header")
    /\ gsmState = WCL_CONNECTED
    /\ gsmState' = WCL_WAITING
    /\ UNCHANGED <<poruka, gsm, wcl_active, header, pcb, wanted, posted,
                   creditvars, buffer>>

\* Mutant: the recipients are added when the body is written.
WclBody_LateRecipients ==
    /\ Poll("header", "answer")
    /\ posted' = posted \cup {[body |-> [infobip EXCEPT !.to = gsm],
                               announced |-> header,
                               enquired |-> enquired]}
    /\ UNCHANGED <<poruka, gsm, wcl_active, header, gsmState, pcb, wanted,
                   creditvars, buffer>>

\* Mutant: the body is built again when it is written.
WclBody_Rebuilt ==
    /\ Poll("header", "answer")
    /\ posted' = posted \cup {[body |-> CurrentBody, announced |-> header,
                               enquired |-> enquired]}
    /\ UNCHANGED <<poruka, gsm, wcl_active, header, gsmState, pcb, wanted,
                   creditvars, buffer>>

WclBody ==
    /\ Poll("header", "answer")
    /\ posted' = IF pcb = "open"
                 THEN posted \cup {[body |-> infobip, announced |-> header,
                                    enquired |-> enquired]}
                 ELSE posted
    /\ UNCHANGED <<poruka, gsm, wcl_active, header, gsmState, pcb, wanted,
                   creditvars, buffer>>

WclAnswered ==
    /\ Poll("answer", "begin")
    /\ gsmState = WCL_ANSWER
    /\ wcl__close
    /\ UNCHANGED <<poruka, gsm, header, gsmState, wanted, posted, creditvars,
                   buffer>>

\* Mutant: a timeout only deactivates the thread.
WclTimeout_KeepsPcb ==
    /\ \E p \in {"connect", "answer"} : Poll(p, "begin")
    /\ wcl_active' = 0
    /\ UNCHANGED <<poruka, gsm, header, gsmState, pcb, wanted, posted,
                   creditvars, buffer>>

\* Mutant: no timer while the thread waits for the connection.
WclTimeout_AnswerOnly ==
    /\ Poll("answer", "begin")
    /\ wcl__close
    /\ UNCHANGED <<poruka, gsm, header, gsmState, wanted, posted,
                   creditvars, buffer>>

\* Mutant: the connection's timer is also asked while the body waits.
WclTimeout_AtBody ==
    /\ \E p \in {"connect", "header", "answer"} : Poll(p, "begin")
    /\ wcl__close
    /\ UNCHANGED <<poruka, gsm, header, gsmState, wanted, posted, creditvars,
                   buffer>>

\* The timer of a wait expires, at the connection or at the answer.
WclTimeout ==
    /\ \E p \in {"connect", "answer"} : Poll(p, "begin")
    /\ wcl__close
    /\ UNCHANGED <<poruka, gsm, header, gsmState, wanted, posted, creditvars,
                   buffer>>

ptWCL == WclYield \/ WclConnect \/ WclHeader \/ WclBody \/ WclAnswered \/ WclTimeout

\* wclConnected and wclRecv: callbacks of the connection.
wclConnected ==
    /\ pcb = "syn"
    /\ pcb' = "open"
    /\ gsmState' = WCL_CONNECTED
    /\ UNCHANGED <<poruka, gsm, wcl_active, header, pc, wanted, posted, creditvars,
                   buffer>>

wclRecv ==
    /\ pcb = "open"
    /\ gsmState' = WCL_ANSWER
    /\ UNCHANGED <<poruka, gsm, wcl_active, header, pc, pcb, wanted, posted,
                   creditvars, buffer>>
\* The connection is reset or given up by the TCP stack, which frees the pcb.
\* No error callback is registered, so nothing tells ptWCL: its next calls
\* use the freed block, whose state word is CLOSED.  They are modelled as the
\* calls that fail; what closing the block a second time does to the stack's
\* pool of connections is not modelled.
Aborted ==
    /\ pcb \in {"syn", "open"}
    /\ pcb' = "freed"
    /\ UNCHANGED <<poruka, gsm, wcl_active, header, pc, gsmState, wanted,
                   posted, creditvars, buffer>>
-----------------------------------------------------------------------------
\* The credit enquiry: the same life cycle, with a request of its own, but
\* it begins by rebuilding the shared body buffer.
get_credit ==
    /\ credits < MaxCredits
    /\ credits' = credits + 1
    /\ wcl_credit_active' = 1
    /\ UNCHANGED <<credit_pc, gsmCreditState, credit_pcb, smsvars, buffer>>

CreditPoll(p, q) == wcl_credit_active = 1 /\ credit_pc = p /\ credit_pc' = q

wcl_status_close == credit_pcb' = "none" /\ wcl_credit_active' = 0

CreditYield ==
    /\ CreditPoll("begin", "yield")
    /\ UNCHANGED <<wcl_credit_active, gsmCreditState, credit_pcb, credits, smsvars,
                   buffer>>

CreditConnect ==
    /\ CreditPoll("yield", "connect")
    /\ infobip' = CurrentBody
    /\ enquired' = TRUE
    /\ credit_pcb' = "syn"
    /\ gsmCreditState' = WCL_WAITING
    /\ UNCHANGED <<wcl_credit_active, credits, smsvars>>

CreditRequest ==
    /\ CreditPoll("connect", "answer")
    /\ gsmCreditState = WCL_CONNECTED
    /\ gsmCreditState' = WCL_WAITING
    /\ UNCHANGED <<wcl_credit_active, credit_pcb, credits, smsvars, buffer>>

CreditEnd ==
    /\ \/ CreditPoll("answer", "begin")      \* answered, or timed out
       \/ CreditPoll("connect", "begin")     \* timed out
    /\ wcl_status_close
    /\ UNCHANGED <<gsmCreditState, credits, smsvars, buffer>>

ptWCLcredit == CreditYield \/ CreditConnect \/ CreditRequest \/ CreditEnd

wclStatusConnected ==
    /\ credit_pcb = "syn"
    /\ credit_pcb' = "open"
    /\ gsmCreditState' = WCL_CONNECTED
    /\ UNCHANGED <<wcl_credit_active, credit_pc, credits, smsvars, buffer>>

wclCreditRecv ==
    /\ credit_pcb = "open"
    /\ gsmCreditState' = WCL_ANSWER
    /\ UNCHANGED <<wcl_credit_active, credit_pc, credit_pcb, credits, smsvars,
                   buffer>>

\* The enquiry's connection is reset or given up, as in Aborted.
CreditAborted ==
    /\ credit_pcb \in {"syn", "open"}
    /\ credit_pcb' = "freed"
    /\ UNCHANGED <<wcl_credit_active, credit_pc, gsmCreditState, credits, smsvars,
                   buffer>>
-----------------------------------------------------------------------------
SmsNext ==
    \/ \E S \in SUBSET Phones : send_infobip(S)
    \/ ptWCL \/ wclConnected \/ wclRecv \/ Aborted
    \/ get_credit
    \/ ptWCLcredit \/ wclStatusConnected \/ wclCreditRecv \/ CreditAborted

SmsSpec == SmsInit /\ [][SmsNext]_infobipvars

(* wcl_poll runs in every turn of the main loop, and a thread that waits   *)
(* has a timer that expires: no answer is needed for it to go on.          *)
SmsFairSpec == SmsSpec /\ WF_infobipvars(ptWCL) /\ WF_infobipvars(ptWCLcredit)
-----------------------------------------------------------------------------
(* No connection leaks: each thread holds a connection exactly between its *)
(* connect and its close, whichever way it leaves.                         *)
ConnectionsBalance ==
    /\ pc \in {"begin", "yield"} <=> pcb = "none"
    /\ credit_pc \in {"begin", "yield"} <=> credit_pcb = "none"

(* A text goes to the recipients of its own request (and the last phone),  *)
(* never to those of a request that came in between.                       *)
NoMixing ==
    \A p \in posted :
        /\ p.body.text # 0
        /\ p.body.to = EnabledPhones(wanted[p.body.text])

(* The length in the header is the length of the body that follows it 50   *)
(* ms later, although requests rewrite text and recipients in between,     *)
(* unless a credit enquiry has rebuilt the shared buffer meanwhile.        *)
HeaderAnnouncesBody ==
    \A p \in posted : p.enquired \/ p.announced = Length(p.body)

(* Both threads come to an end whatever the server does.                   *)
SmsEnds    == wcl_active = 1 ~> wcl_active = 0
CreditEnds == wcl_credit_active = 1 ~> wcl_credit_active = 0
ThreadsEnd == SmsEnds /\ CreditEnds
=============================================================================
