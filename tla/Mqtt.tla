-------------------------------- MODULE Mqtt --------------------------------
(***************************************************************************)
(* Publication of the temperatures by MQTT: the protothread ptMQTT, which  *)
(* connects and publishes once every 70 seconds, over lwIP's MQTT client.  *)
(* Time passes in ticks of ten seconds.                                    *)
(*                                                                         *)
(* mqtt_connect takes a new client structure from the heap whenever the    *)
(* last one is not connected and never gives one back: the structures it   *)
(* abandons keep their connection and their callbacks, and present the     *)
(* same client identifier to the broker.  The broker serves one session of *)
(* an identifier and closes the one it served before.                      *)
(*                                                                         *)
(* A client that closes its connection is disconnected at once, but        *)
(* tcp_close leaves the connection's block in FIN_WAIT until the broker    *)
(* has acknowledged the FIN and closed its side, or lwIP gives up: after   *)
(* 20 seconds without the broker's FIN, but after twelve retransmissions,  *)
(* which take many minutes, without an acknowledgement.  tcp_alloc takes   *)
(* back the blocks of connections that the broker has closed first, but    *)
(* none in FIN_WAIT.                                                       *)
(*                                                                         *)
(* EEPROM holds a server, a user, a password and a keep alive time of at   *)
(* least ten seconds.  A null client is read from address 0, where the     *)
(* byte in the place of conn_state is zero (TCP_DISCONNECTED) in an image  *)
(* whose handlers lie in its first 64 KB.                                  *)
(***************************************************************************)
EXTENDS Naturals, Sequences, FiniteSets

CONSTANTS
    HEAP,          \* client structures that lwIP's heap has room for
    KEEPALIVE      \* the keep alive time, in ticks

ASSUME HeapAssumption == HEAP \in Nat \ {0}
ASSUME KeepAliveAssumption == KEEPALIVE \in Nat \ {0}

MEMP_NUM_TCP_PCB     == 5     \* lwIP's connection blocks
SYN_GIVES_UP         == 2     \* 18.5 s without an answer to the SYN
MQTT_CONNECT_TIMEOUT == 10    \* 100 s without an answer to the CONNECT
WATCHDOG             == KEEPALIVE + KEEPALIVE \div 2

VARIABLES
    pc,          \* ptMQTT's wait: 1 before the connection, 2 and 3 after a
                 \* publication
    wait,        \* ticks before the wait's timer expires
    clients,     \* the structures that have been allocated; mqtt_client is
                 \* the last one, and null before the first
    served,      \* the client whose session the broker serves; 0 for none
    good,        \* the network and the broker answer within a tick, for good
    wild         \* a null client was connected: the heap is exhausted

vars == <<pc, wait, clients, served, good, wild>>

\* "closing": conn_state is TCP_DISCONNECTED, the block is in FIN_WAIT.
States == {"disconnected", "tcp_connecting", "connecting", "connected", "closing"}

\* idle: ticks since the state was entered or since the server was heard;
\* 1 for all that a closing connection has waited for longer than a tick.
Client == [conn_state : States,
           idle : 0 .. SYN_GIVES_UP + MQTT_CONNECT_TIMEOUT + WATCHDOG]

TypeOK ==
    /\ pc \in 1 .. 3 /\ wait \in 0 .. 3
    /\ clients \in Seq(Client) /\ Len(clients) <= HEAP
    /\ served \in 0 .. Len(clients)
    /\ good \in BOOLEAN /\ wild \in BOOLEAN
-----------------------------------------------------------------------------
Init ==
    /\ pc = 1 /\ wait = 3
    /\ clients = <<>> /\ served = 0
    /\ good = FALSE /\ wild = FALSE

Current == Len(clients)

Has(i, s) == clients[i].conn_state = s

mqtt_client_is_connected == Current > 0 /\ Has(Current, "connected")

\* The client i enters the state s.
Enter(i, s) == clients' = [clients EXCEPT ![i] = [conn_state |-> s, idle |-> 0]]

\* Clients with a connection, and clients that hold a block.
Open   == {i \in 1 .. Current : ~Has(i, "disconnected") /\ ~Has(i, "closing")}
Blocks == {i \in 1 .. Current : ~Has(i, "disconnected")}

\* A connection that is closed in the state s sends a FIN, if it stands.
tcp_close(s) == IF s = "tcp_connecting" THEN "disconnected" ELSE "closing"

\* Mutant: a client that has failed is not replaced.
Connect_Once ==
    /\ ~mqtt_client_is_connected /\ Current = 0
    /\ clients' = Append(clients, [conn_state |-> "tcp_connecting", idle |-> 0])
    /\ UNCHANGED <<served, wild>>

\* mqtt_client_new and mqtt_client_connect: a client is allocated and sends
\* its SYN, or finds no connection block, because the clients before or, as
\* long as nothing is good, the rest of the device hold them; with the heap
\* exhausted, the null client is used as if it were one.
Connect ==
    /\ ~mqtt_client_is_connected
    /\ IF Current < HEAP
       THEN /\ \E s \in IF Cardinality(Blocks) = MEMP_NUM_TCP_PCB THEN {"disconnected"}
                        ELSE IF good THEN {"tcp_connecting"}
                        ELSE {"tcp_connecting", "disconnected"} :
                 clients' = Append(clients, [conn_state |-> s, idle |-> 0])
            /\ UNCHANGED wild
       ELSE wild' = TRUE /\ UNCHANGED clients
    /\ UNCHANGED served

\* mqtt_disconnect, when the link is down.
mqtt_disconnect ==
    /\ ~good
    /\ IF Current \in Open THEN Enter(Current, tcp_close(clients[Current].conn_state))
                          ELSE UNCHANGED clients
    /\ served' = IF served = Current THEN 0 ELSE served
    /\ UNCHANGED wild

\* mqtt_connect: the name is not resolved, or the link is down, or the
\* client is connected and publishes once more, or a client connects.
mqtt_connect ==
    \/ ~good /\ UNCHANGED <<clients, served, wild>>
    \/ mqtt_disconnect
    \/ mqtt_client_is_connected /\ UNCHANGED <<clients, served, wild>>
    \/ Connect

Step(p, q, w) == pc = p /\ wait = 0 /\ pc' = q /\ wait' = w

\* ptMQTT.  MqttPublish hands a value to the current client, whose
\* connection state it does not change.
ptMQTT ==
    /\ \/ Step(1, 2, 2) /\ mqtt_connect
       \/ Step(2, 3, 2) /\ UNCHANGED <<clients, served, wild>>
       \/ Step(3, 1, 3) /\ UNCHANGED <<clients, served, wild>>
    /\ UNCHANGED good
-----------------------------------------------------------------------------
\* Mutant: the CONNECT's timeout is twice as long.
GivesUp_Late(c) ==
    \/ c.conn_state = "tcp_connecting" /\ c.idle >= SYN_GIVES_UP
    \/ c.conn_state = "connecting" /\ c.idle >= 2 * MQTT_CONNECT_TIMEOUT
    \/ c.conn_state = "connected" /\ c.idle > WATCHDOG

\* Mutant: no watchdog on the server.
GivesUp_NoWatchdog(c) ==
    \/ c.conn_state = "tcp_connecting" /\ c.idle >= SYN_GIVES_UP
    \/ c.conn_state = "connecting" /\ c.idle >= MQTT_CONNECT_TIMEOUT
    \/ c.conn_state = "connected" /\ c.idle > WATCHDOG + MQTT_CONNECT_TIMEOUT

\* tcp_slowtmr gives a SYN up; mqtt_cyclic_timer a CONNECT without answer
\* and a server that has not been heard for 1.5 times the keep alive time.
GivesUp(c) ==
    \/ c.conn_state = "tcp_connecting" /\ c.idle >= SYN_GIVES_UP
    \/ c.conn_state = "connecting" /\ c.idle >= MQTT_CONNECT_TIMEOUT
    \/ c.conn_state = "connected" /\ c.idle > WATCHDOG

\* The client c, ten seconds later.
Later(c, heard) ==
    LET older == [c EXCEPT !.idle = IF heard THEN 0 ELSE @ + 1]
    IN  CASE c.conn_state = "disconnected" -> c
          [] c.conn_state = "closing"      -> [c EXCEPT !.idle = 1]
          [] OTHER -> IF GivesUp(older)
                      THEN [conn_state |-> tcp_close(c.conn_state), idle |-> 0] ELSE older

\* What the network has to answer before the next tick when it is good.
Pending(i) ==
    \/ Has(i, "tcp_connecting") \/ Has(i, "connecting")
    \/ Has(i, "connected") /\ i # served
    \/ Has(i, "closing")

\* Ten seconds pass.  The server of the session is heard (it acknowledges
\* publications and pings) or not.
Tick ==
    /\ wait > 0 /\ wait' = wait - 1
    /\ good => \A i \in 1 .. Current : ~Pending(i)
    /\ \E heard \in IF good THEN {TRUE} ELSE BOOLEAN :
         clients' = [i \in 1 .. Current |-> Later(clients[i], heard /\ i = served)]
    /\ served' = IF served > 0 /\ clients'[served].conn_state # "connected"
                 THEN 0 ELSE served
    /\ UNCHANGED <<pc, good, wild>>

\* mqtt_tcp_connect_cb: the connection is open and the CONNECT goes out.
mqtt_tcp_connect_cb(i) ==
    /\ Has(i, "tcp_connecting")
    /\ Enter(i, "connecting")
    /\ UNCHANGED <<pc, wait, served, good, wild>>

\* mqtt_message_received, CONNACK: the broker serves this client from now
\* on, and no longer the one it served.
ConnAck(i) ==
    /\ Has(i, "connecting")
    /\ Enter(i, "connected")
    /\ served' = i
    /\ UNCHANGED <<pc, wait, good, wild>>

\* mqtt_close after mqtt_tcp_recv_cb or mqtt_tcp_err_cb: the broker closes or
\* resets the connection, or sends what makes the client close it, such as
\* its refusal of the CONNECT.  A good one only ends old sessions.
Closed(i) ==
    /\ i \in Open
    /\ good => Has(i, "connected") /\ i # served
    /\ \/ Enter(i, "disconnected")
       \/ ~good /\ Enter(i, tcp_close(clients[i].conn_state))
    /\ served' = IF i = served THEN 0 ELSE served
    /\ UNCHANGED <<pc, wait, good, wild>>

\* tcp_input or tcp_slowtmr, for a connection that the client has closed:
\* the broker has closed its side too or resets it, or lwIP gives up.
Freed(i) ==
    /\ Has(i, "closing")
    /\ Enter(i, "disconnected")
    /\ UNCHANGED <<pc, wait, served, good, wild>>

Network(i) == mqtt_tcp_connect_cb(i) \/ ConnAck(i) \/ Closed(i) \/ Freed(i)

\* The network and the broker work from now on.
Repaired ==
    /\ ~good /\ good' = TRUE
    /\ UNCHANGED <<pc, wait, clients, served, wild>>

Next ==
    ~wild /\ \/ ptMQTT \/ Tick \/ Repaired
             \/ \E i \in 1 .. Current : Network(i)

Spec == Init /\ [][Next]_vars

GoodNetwork == good /\ ~wild /\ \E i \in 1 .. Current : Network(i)

(* Time passes, the main loop polls ptMQTT for ever, and a network that is *)
(* good answers.                                                           *)
FairSpec ==
    /\ Spec
    /\ WF_vars(~wild /\ Tick) /\ WF_vars(~wild /\ ptMQTT) /\ WF_vars(GoodNetwork)
-----------------------------------------------------------------------------
(* The thread's 70 seconds against lwIP's timeouts: at most one SYN is     *)
(* under way, and at most one abandoned client still waits for the answer  *)
(* to its CONNECT, however the broker delays its answers.                  *)
FewAttempts ==
    \A i, j \in Open :
        i # j => /\ ~(Has(i, "tcp_connecting") /\ Has(j, "tcp_connecting"))
                 /\ i < j => \/ Has(i, "connected") \/ Has(j, "connected")
                            \/ j = Current

(* The clients do not hold all of lwIP's five connection blocks, which the *)
(* web server and the alarms need too, as long as the FINs of those that   *)
(* close are answered within a tick, however late the broker answers       *)
(* anything else.  A broker that falls silent after the answer to the SYN  *)
(* is the exception: the FINs of the clients that give up are repeated for *)
(* many minutes, and the thread adds a client every 70 seconds.            *)
LeavesConnections ==
    \/ Cardinality(Blocks) < MEMP_NUM_TCP_PCB
    \/ \E i \in Blocks : Has(i, "closing") /\ clients[i].idle > 0

(* The structures that mqtt_connect abandons do not fight for the client   *)
(* identifier for ever: once the network is good, the device has a single  *)
(* session, that of its current client, and the blocks of the others are   *)
(* free, unless the heap is exhausted.                                     *)
OneSession == mqtt_client_is_connected /\ Blocks = {Current} /\ served = Current

Settles == good ~> wild \/ []OneSession
=============================================================================
