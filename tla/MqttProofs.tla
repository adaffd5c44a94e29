----------------------------- MODULE MqttProofs -----------------------------
(***************************************************************************)
(* Proofs about Mqtt, for every size of the heap and every keep alive time: *)
(* the abandoned clients' attempts to connect do not pile up.              *)
(***************************************************************************)
EXTENDS Mqtt, SequenceTheorems, FiniteSetTheorems, TLAPS

(* Ticks since the thread last came to mqtt_connect, or since the boot.    *)
Elapsed == (IF pc = 1 THEN 7 ELSE IF pc = 2 THEN 2 ELSE 4) - wait

(* What lwIP's timers leave of a client.                                   *)
Young(c) ==
    /\ c \in [conn_state : States, idle : Nat]
    /\ ~GivesUp(c)
    /\ c.conn_state = "disconnected" => c.idle = 0
    /\ c.conn_state = "closing" => c.idle <= 1

Typed ==
    /\ pc \in 1 .. 3 /\ wait \in 0 .. 3
    /\ clients \in Seq(Client) /\ Len(clients) <= HEAP
    /\ \A i \in 1 .. Len(clients) : Young(clients[i])
    /\ served \in 0 .. Len(clients)
    /\ good \in BOOLEAN /\ wild \in BOOLEAN

(* FewAttempts says how many attempts there are; that another one does not *)
(* begin too early follows from their ages.  An attempt that waits for its *)
(* SYN is as old as the thread's last connection, one that waits for the   *)
(* answer to its CONNECT as least as old but for the SYN, and an abandoned *)
(* one older by the thread's seven ticks.                                  *)
Aged ==
    \A i \in 1 .. Len(clients) :
        /\ Has(i, "tcp_connecting") =>
             i = Len(clients) /\ clients[i].idle >= Elapsed
        /\ Has(i, "connecting") =>
             /\ i = Len(clients) => clients[i].idle + 1 >= Elapsed
             /\ i < Len(clients) => clients[i].idle >= Elapsed + 6

OneAbandoned ==
    \A i, j \in 1 .. Len(clients) :
        /\ i < Len(clients) /\ Has(i, "connecting")
        /\ j < Len(clients) /\ Has(j, "connecting")
        => i = j

(* The broker only serves a client that it has accepted.                   *)
ServedIsConnected == served # 0 => Has(served, "connected")

MInv == Typed /\ Aged /\ OneAbandoned
-----------------------------------------------------------------------------
(* The watchdog's time is a number.                                        *)
LEMMA WatchdogIsNatural == WATCHDOG \in Nat
  BY KeepAliveAssumption DEF WATCHDOG

(* What the timers leave of a client is one.                               *)
LEMMA YoungIsClient ==
    ASSUME NEW c, Young(c) PROVE c \in Client
  BY WatchdogIsNatural
  DEF Young, Client, States, GivesUp, SYN_GIVES_UP, MQTT_CONNECT_TIMEOUT

(* A function on 1 .. n is a sequence of length n.                         *)
LEMMA FunctionIsSequence ==
    ASSUME NEW S, NEW n \in Nat, NEW f \in [1 .. n -> S]
    PROVE  f \in Seq(S) /\ Len(f) = n
  <1>1. f \in Seq(S)
    BY SeqDef
  <1>2. DOMAIN f = 1 .. n /\ DOMAIN f = 1 .. Len(f) /\ Len(f) \in Nat
    BY <1>1, LenProperties
  <1> QED BY <1>1, <1>2

(* A client that enters a state is young.                                  *)
LEMMA EnteredIsYoung ==
    ASSUME NEW s \in States PROVE Young([conn_state |-> s, idle |-> 0])
  BY WatchdogIsNatural
  DEF Young, States, GivesUp, SYN_GIVES_UP, MQTT_CONNECT_TIMEOUT

(* Where a closed connection leaves its client.                            *)
LEMMA ClosedStates ==
    \A s : tcp_close(s) \in {"disconnected", "closing"} /\ tcp_close(s) \in States
  BY DEF tcp_close, States

(* A client is young again ten seconds later, or has been closed; what it  *)
(* closed before that has waited for a tick.                               *)
LEMMA LaterIsYoung ==
    ASSUME NEW c, Young(c), NEW heard \in BOOLEAN
    PROVE  /\ Young(Later(c, heard))
           /\ \/ Later(c, heard).conn_state \in {"disconnected", "closing"}
              \/ /\ Later(c, heard).conn_state = c.conn_state
                 /\ Later(c, heard).idle = IF heard THEN 0 ELSE c.idle + 1
           /\ c.conn_state = "disconnected" => Later(c, heard).conn_state = "disconnected"
           /\ c.conn_state = "closing" =>
                Later(c, heard).conn_state = "closing" /\ Later(c, heard).idle = 1
  <1> DEFINE older == [c EXCEPT !.idle = IF heard THEN 0 ELSE @ + 1]
  <1>0. c \in [conn_state : States, idle : Nat]
    BY DEF Young
  <1>1. /\ older \in [conn_state : States, idle : Nat]
        /\ older.conn_state = c.conn_state
        /\ older.idle = IF heard THEN 0 ELSE c.idle + 1
    BY <1>0
  <1>2. CASE c.conn_state = "disconnected"
    <2>1. Later(c, heard) = c
      BY <1>2 DEF Later
    <2> QED BY <1>2, <2>1
  <1>3. CASE c.conn_state = "closing"
    <2>1. Later(c, heard) = [c EXCEPT !.idle = 1]
      BY <1>3 DEF Later
    <2>2. /\ Later(c, heard) \in [conn_state : States, idle : Nat]
          /\ Later(c, heard).conn_state = "closing" /\ Later(c, heard).idle = 1
      BY <1>0, <1>3, <2>1
    <2>3. Young(Later(c, heard))
      BY <2>2 DEF Young, GivesUp
    <2> QED BY <1>3, <2>2, <2>3
  <1>4. CASE c.conn_state \notin {"disconnected", "closing"}
    <2>1. Later(c, heard) =
            IF GivesUp(older) THEN [conn_state |-> tcp_close(c.conn_state), idle |-> 0] ELSE older
      BY <1>4 DEF Later
    <2>2. CASE GivesUp(older)
      BY <1>4, <2>1, <2>2, ClosedStates, EnteredIsYoung
    <2>3. CASE ~GivesUp(older)
      <3>1. Young(older)
        BY <1>1, <1>4, <2>3 DEF Young
      <3> HIDE DEF older
      <3> QED BY <1>1, <1>4, <2>1, <2>3, <3>1
    <2> QED BY <2>2, <2>3
  <1> QED BY <1>2, <1>3, <1>4

(* Nothing has been allocated at the boot.                                 *)
LEMMA MInitEstablishes == Init => MInv
  <1> SUFFICES ASSUME Init PROVE MInv OBVIOUS
  <1>1. clients \in Seq(Client) /\ Len(clients) = 0
    BY EmptySeq DEF Init
  <1>2. good \in BOOLEAN /\ wild \in BOOLEAN
    BY DEF Init
  <1> QED BY <1>1, <1>2, HeapAssumption DEF Init, MInv, Typed, Aged, OneAbandoned
-----------------------------------------------------------------------------
(* One client enters a state: it only waits for an answer to its CONNECT   *)
(* if it waited for its SYN.                                               *)
LEMMA EnterKeeps ==
    ASSUME MInv, NEW i \in 1 .. Len(clients), NEW s \in States, Enter(i, s),
           s # "tcp_connecting", s = "connecting" => Has(i, "tcp_connecting"),
           pc' \in 1 .. 3, wait' \in 0 .. 3, Elapsed' <= Elapsed, Elapsed \in Int, Elapsed' \in Int
    PROVE  /\ clients' \in Seq(Client) /\ Len(clients') = Len(clients)
           /\ \A j \in 1 .. Len(clients) : Young(clients'[j])
           /\ Aged' /\ OneAbandoned'
  <1> DEFINE new == [conn_state |-> s, idle |-> 0]
  <1>1. new \in Client /\ Young(new)
    BY EnteredIsYoung, YoungIsClient
  <1>2. clients \in Seq(Client) /\ Len(clients) \in Nat
    BY LenProperties DEF MInv, Typed
  <1>3. /\ clients' \in Seq(Client) /\ Len(clients') = Len(clients)
        /\ \A j \in 1 .. Len(clients) : clients'[j] = IF j = i THEN new ELSE clients[j]
    BY <1>1, <1>2, ExceptSeq DEF Enter
  <1>4. \A j \in 1 .. Len(clients) : Young(clients'[j])
    BY <1>1, <1>3 DEF MInv, Typed
  <1>5. \A j \in 1 .. Len(clients) :
          clients[j].idle \in Nat /\ (Has(j, "tcp_connecting") => clients[j].idle < 2)
    BY DEF MInv, Typed, Young, Has, GivesUp, SYN_GIVES_UP
  <1>6. new.conn_state = s /\ new.idle = 0
    OBVIOUS
  <1> HIDE DEF new
  <1>7. Aged'
    <2> SUFFICES ASSUME NEW j \in 1 .. Len(clients)
                 PROVE /\ Has(j, "tcp_connecting")' =>
                            j = Len(clients) /\ clients'[j].idle >= Elapsed'
                       /\ Has(j, "connecting")' =>
                            /\ j = Len(clients) => clients'[j].idle + 1 >= Elapsed'
                            /\ j < Len(clients) => clients'[j].idle >= Elapsed' + 6
      BY <1>3 DEF Aged
    <2>1. CASE j = i
      BY <1>2, <1>3, <1>5, <1>6, <2>1 DEF MInv, Aged, Has
    <2>2. CASE j # i
      BY <1>2, <1>3, <1>5, <2>2 DEF MInv, Aged, Has
    <2> QED BY <2>1, <2>2
  <1>8. OneAbandoned'
    <2>1. \A j \in 1 .. Len(clients) :
            j < Len(clients) /\ Has(j, "connecting")' => Has(j, "connecting")
      BY <1>2, <1>3, <1>6 DEF MInv, Aged, Has
    <2> QED BY <1>3, <2>1 DEF MInv, OneAbandoned
  <1> QED BY <1>3, <1>4, <1>7, <1>8

(* A step of the thread that allocates nothing.                            *)
LEMMA SameClientsKeep ==
    ASSUME MInv, UNCHANGED clients, Elapsed' <= Elapsed, Elapsed \in Int, Elapsed' \in Int
    PROVE  Aged' /\ OneAbandoned'
  <1>1. \A i \in 1 .. Len(clients) : clients[i].idle \in Nat
    BY DEF MInv, Typed, Young
  <1>2. Aged'
    BY <1>1 DEF MInv, Aged, Has
  <1> QED BY <1>2 DEF MInv, OneAbandoned, Has

(* A new client, seven ticks after the last: no abandoned one waits for    *)
(* its answer any more, so the one abandoned now is the only one.          *)
LEMMA AppendKeeps ==
    ASSUME MInv, NEW s \in States, s # "connecting", pc = 1, wait = 0,
           clients' = Append(clients, [conn_state |-> s, idle |-> 0]),
           pc' = 2, wait' = 2
    PROVE  /\ clients' \in Seq(Client) /\ Len(clients') = Len(clients) + 1
           /\ \A j \in 1 .. Len(clients) + 1 : Young(clients'[j])
           /\ Aged' /\ OneAbandoned'
  <1> DEFINE new == [conn_state |-> s, idle |-> 0]
  <1>1. new \in Client /\ Young(new)
    BY EnteredIsYoung, YoungIsClient
  <1>2. clients \in Seq(Client) /\ Len(clients) \in Nat
    BY LenProperties DEF MInv, Typed
  <1>3. /\ clients' \in Seq(Client) /\ Len(clients') = Len(clients) + 1
        /\ \A j \in 1 .. Len(clients) : clients'[j] = clients[j]
        /\ clients'[Len(clients) + 1] = new
    BY <1>1, <1>2
  <1>4. \A j \in 1 .. Len(clients) + 1 : Young(clients'[j])
    <2> SUFFICES ASSUME NEW j \in 1 .. Len(clients) + 1 PROVE Young(clients'[j])
      OBVIOUS
    <2>1. j \in 1 .. Len(clients) \/ j = Len(clients) + 1
      BY <1>2
    <2> QED BY <1>1, <1>3, <2>1 DEF MInv, Typed
  <1>5. Elapsed = 7 /\ Elapsed' = 0
    BY DEF Elapsed
  <1>6. \A j \in 1 .. Len(clients) :
          /\ clients[j].idle \in Nat
          /\ Has(j, "tcp_connecting") => clients[j].idle < 2
          /\ Has(j, "connecting") => clients[j].idle < 10
    BY DEF MInv, Typed, Young, Has, GivesUp, SYN_GIVES_UP, MQTT_CONNECT_TIMEOUT
  <1>7. \A j \in 1 .. Len(clients) :
          /\ ~Has(j, "tcp_connecting")
          /\ Has(j, "connecting") => j = Len(clients) /\ clients[j].idle >= 6
    BY <1>2, <1>5, <1>6 DEF MInv, Aged
  <1>8. Aged'
    <2> SUFFICES ASSUME NEW j \in 1 .. Len(clients) + 1
                 PROVE /\ Has(j, "tcp_connecting")' =>
                            j = Len(clients) + 1 /\ clients'[j].idle >= 0
                       /\ Has(j, "connecting")' =>
                            /\ j = Len(clients) + 1 => clients'[j].idle + 1 >= 0
                            /\ j < Len(clients) + 1 => clients'[j].idle >= 6
      BY <1>3, <1>5 DEF Aged
    <2>1. CASE j \in 1 .. Len(clients)
      BY <1>2, <1>3, <1>6, <1>7, <2>1 DEF Has
    <2>2. CASE j = Len(clients) + 1
      BY <1>2, <1>3, <2>2 DEF Has
    <2> QED BY <1>2, <2>1, <2>2
  <1>9. OneAbandoned'
    <2>1. \A j \in 1 .. Len(clients) + 1 :
            j < Len(clients) + 1 /\ Has(j, "connecting")' => j = Len(clients)
      BY <1>2, <1>3, <1>7 DEF Has
    <2> QED BY <1>3, <2>1 DEF OneAbandoned
  <1> QED BY <1>3, <1>4, <1>8, <1>9

(* Ten seconds: every age grows with the thread's, except what the server  *)
(* is heard on, and that has been accepted.                                *)
LEMMA TickKeeps ==
    ASSUME MInv, NEW heard \in [1 .. Len(clients) -> BOOLEAN],
           \A i \in 1 .. Len(clients) : heard[i] => Has(i, "connected"),
           clients' = [i \in 1 .. Len(clients) |-> Later(clients[i], heard[i])],
           wait > 0, wait' = wait - 1, pc' = pc
    PROVE  /\ clients' \in Seq(Client) /\ Len(clients') = Len(clients)
           /\ \A j \in 1 .. Len(clients) : Young(clients'[j])
           /\ Aged' /\ OneAbandoned'
  <1>2. clients \in Seq(Client) /\ Len(clients) \in Nat
    BY LenProperties DEF MInv, Typed
  <1>3. \A j \in 1 .. Len(clients) : clients'[j] = Later(clients[j], heard[j])
    OBVIOUS
  <1>4. \A j \in 1 .. Len(clients) :
          /\ Young(clients'[j])
          /\ \/ clients'[j].conn_state \in {"disconnected", "closing"}
             \/ /\ clients'[j].conn_state = clients[j].conn_state
                /\ clients'[j].idle = IF heard[j] THEN 0 ELSE clients[j].idle + 1
    BY <1>3, LaterIsYoung DEF MInv, Typed
  <1>5. clients' \in Seq(Client) /\ Len(clients') = Len(clients)
    <2>1. clients' \in [1 .. Len(clients) -> Client]
      BY <1>3, <1>4, YoungIsClient
    <2> QED BY <1>2, <2>1, FunctionIsSequence
  <1>6. Elapsed' = Elapsed + 1 /\ Elapsed \in Int
    BY DEF Elapsed, MInv, Typed
  <1>7. \A j \in 1 .. Len(clients) : clients[j].idle \in Nat
    BY DEF MInv, Typed, Young
  <1>8. Aged'
    <2> SUFFICES ASSUME NEW j \in 1 .. Len(clients)
                 PROVE /\ Has(j, "tcp_connecting")' =>
                            j = Len(clients) /\ clients'[j].idle >= Elapsed'
                       /\ Has(j, "connecting")' =>
                            /\ j = Len(clients) => clients'[j].idle + 1 >= Elapsed'
                            /\ j < Len(clients) => clients'[j].idle >= Elapsed' + 6
      BY <1>5 DEF Aged
    <2>1. CASE Has(j, "tcp_connecting")'
      BY <1>4, <1>6, <1>7, <2>1 DEF MInv, Aged, Has
    <2>2. CASE Has(j, "connecting")'
      BY <1>4, <1>6, <1>7, <2>2 DEF MInv, Aged, Has
    <2> QED BY <2>1, <2>2
  <1>9. OneAbandoned'
    <2>1. \A j \in 1 .. Len(clients) : Has(j, "connecting")' => Has(j, "connecting")
      BY <1>4 DEF Has
    <2> QED BY <1>5, <2>1 DEF MInv, OneAbandoned
  <1> QED BY <1>4, <1>5, <1>8, <1>9
-----------------------------------------------------------------------------
(* The current client's disconnection and every event of the network is a  *)
(* client's entering a state.                                              *)
LEMMA EventKeeps ==
    ASSUME MInv, NEW i \in 1 .. Len(clients), NEW s \in States, Enter(i, s),
           s # "tcp_connecting", s = "connecting" => Has(i, "tcp_connecting"),
           UNCHANGED <<pc, wait, good, wild>>, served' \in 0 .. Len(clients)
    PROVE  MInv'
  <1>1. /\ Elapsed' <= Elapsed /\ Elapsed \in Int /\ Elapsed' \in Int
        /\ pc' \in 1 .. 3 /\ wait' \in 0 .. 3
    BY DEF Elapsed, MInv, Typed
  <1>2. /\ clients' \in Seq(Client) /\ Len(clients') = Len(clients)
        /\ \A j \in 1 .. Len(clients) : Young(clients'[j])
        /\ Aged' /\ OneAbandoned'
    BY <1>1, EnterKeeps
  <1>3. good' \in BOOLEAN /\ wild' \in BOOLEAN
    BY DEF MInv, Typed
  <1> QED BY <1>1, <1>2, <1>3 DEF MInv, Typed

(* The thread's step, at mqtt_connect.                                     *)
LEMMA ConnectionStepKeeps ==
    ASSUME MInv, Step(1, 2, 2), mqtt_connect, good' = good PROVE MInv'
  <1>0. /\ clients \in Seq(Client) /\ Len(clients) \in Nat /\ Len(clients) <= HEAP
        /\ served \in 0 .. Len(clients)
        /\ pc = 1 /\ wait = 0 /\ pc' = 2 /\ wait' = 2
        /\ good' \in BOOLEAN /\ wild \in BOOLEAN
    BY LenProperties DEF MInv, Typed, Step
  <1>1. Elapsed = 7 /\ Elapsed' = 0
    BY <1>0 DEF Elapsed
  <1>2. CASE UNCHANGED clients /\ served' \in 0 .. Len(clients) /\ wild' \in BOOLEAN
    <2>1. Aged' /\ OneAbandoned'
      BY <1>1, <1>2, SameClientsKeep
    <2>2. \A i \in 1 .. Len(clients') : Young(clients'[i])
      BY <1>2 DEF MInv, Typed
    <2> QED BY <1>0, <1>2, <2>1, <2>2 DEF MInv, Typed
  <1>3. CASE mqtt_disconnect
    <2>1. CASE Current \notin Open
      <3>1. UNCHANGED <<clients, wild>> /\ served' \in 0 .. Len(clients)
        BY <1>0, <1>3, <2>1 DEF mqtt_disconnect
      <3> QED BY <1>0, <1>2, <3>1
    <2>2. CASE Current \in Open
      <3>1. PICK s \in {"disconnected", "closing"} :
               /\ Len(clients) \in 1 .. Len(clients) /\ Enter(Len(clients), s)
               /\ served' \in 0 .. Len(clients) /\ wild' = wild
        BY <1>0, <1>3, <2>2, ClosedStates DEF mqtt_disconnect, Current, Open
      <3>2. /\ clients' \in Seq(Client) /\ Len(clients') = Len(clients)
            /\ \A j \in 1 .. Len(clients) : Young(clients'[j])
            /\ Aged' /\ OneAbandoned'
        BY <1>0, <1>1, <3>1, EnterKeeps DEF States
      <3> QED BY <1>0, <3>1, <3>2 DEF MInv, Typed
    <2> QED BY <2>1, <2>2
  <1>4. CASE Connect
    <2>1. CASE Current < HEAP
      <3>1. PICK s \in {"tcp_connecting", "disconnected"} :
              clients' = Append(clients, [conn_state |-> s, idle |-> 0])
        BY <1>4, <2>1 DEF Connect
      <3>2. served' = served /\ wild' = wild
        BY <1>4, <2>1 DEF Connect
      <3>3. /\ clients' \in Seq(Client) /\ Len(clients') = Len(clients) + 1
            /\ \A j \in 1 .. Len(clients) + 1 : Young(clients'[j])
            /\ Aged' /\ OneAbandoned'
        BY <1>0, <3>1, AppendKeeps DEF States
      <3> QED BY <1>0, <2>1, <3>2, <3>3, HeapAssumption DEF MInv, Typed, Current
    <2>2. CASE ~(Current < HEAP)
      <3>1. UNCHANGED <<clients, served>> /\ wild' = TRUE
        BY <1>4, <2>2 DEF Connect
      <3> QED BY <1>0, <1>2, <3>1
    <2> QED BY <2>1, <2>2
  <1>5. CASE UNCHANGED <<clients, served, wild>>
    BY <1>0, <1>2, <1>5
  <1> QED BY <1>3, <1>4, <1>5 DEF mqtt_connect

(* The thread's other steps: its next wait begins where the last one ended. *)
LEMMA OtherStepsKeep ==
    ASSUME MInv, Step(2, 3, 2) \/ Step(3, 1, 3),
           UNCHANGED <<clients, served, wild, good>>
    PROVE  MInv'
  <1>1. /\ Elapsed' = Elapsed /\ Elapsed \in Int
        /\ pc' \in 1 .. 3 /\ wait' \in 0 .. 3
    BY DEF Elapsed, Step
  <1>2. Aged' /\ OneAbandoned'
    BY <1>1, SameClientsKeep
  <1>3. good' \in BOOLEAN /\ wild' \in BOOLEAN
    BY DEF MInv, Typed
  <1> QED BY <1>1, <1>2, <1>3 DEF MInv, Typed

(* The tick, with the client the broker serves heard or not: it is only    *)
(* counted as heard if it is connected.                                    *)
LEMMA TickStepKeeps ==
    ASSUME MInv, ServedIsConnected, Tick PROVE MInv'
  <1>1. PICK h \in BOOLEAN :
          clients' = [i \in 1 .. Len(clients) |-> Later(clients[i], h /\ i = served)]
    BY DEF Tick, Current
  <1> DEFINE heard == [i \in 1 .. Len(clients) |-> h /\ i = served]
  <1>2. /\ heard \in [1 .. Len(clients) -> BOOLEAN]
        /\ \A i \in 1 .. Len(clients) : heard[i] => Has(i, "connected")
    <2>1. \A i \in 1 .. Len(clients) : (h /\ i = served) \in BOOLEAN
      OBVIOUS
    <2>2. heard \in [1 .. Len(clients) -> BOOLEAN]
      BY <2>1
    <2>3. ASSUME NEW i \in 1 .. Len(clients), heard[i] PROVE Has(i, "connected")
      <3>1. heard[i] = (h /\ i = served)
        BY <2>1
      <3>2. i = served
        BY <2>3, <3>1
      <3>3. i # 0
        BY LenProperties DEF MInv, Typed
      <3> QED BY <3>2, <3>3 DEF ServedIsConnected
    <2> QED BY <2>2, <2>3
  <1>3. clients' = [i \in 1 .. Len(clients) |-> Later(clients[i], heard[i])]
    BY <1>1
  <1>4. wait > 0 /\ wait' = wait - 1 /\ UNCHANGED <<pc, good, wild>>
    BY DEF Tick
  <1> HIDE DEF heard
  <1>5. /\ clients' \in Seq(Client) /\ Len(clients') = Len(clients)
        /\ \A j \in 1 .. Len(clients) : Young(clients'[j])
        /\ Aged' /\ OneAbandoned'
    BY <1>2, <1>3, <1>4, TickKeeps
  <1>6. Len(clients) \in Nat /\ served' \in 0 .. Len(clients)
    BY LenProperties DEF Tick, MInv, Typed
  <1>7. good' \in BOOLEAN /\ wild' \in BOOLEAN
    BY <1>4 DEF MInv, Typed
  <1>8. pc' \in 1 .. 3 /\ wait' \in 0 .. 3
    BY <1>4 DEF MInv, Typed
  <1> QED BY <1>5, <1>6, <1>7, <1>8 DEF MInv, Typed
-----------------------------------------------------------------------------
(* The broker's session is only moved to a client that it accepts, and     *)
(* ends with the connection of the client it serves.                       *)
LEMMA ServedKept ==
    ASSUME MInv, ServedIsConnected, [Next]_vars PROVE ServedIsConnected'
  <1>0. /\ clients \in Seq(Client) /\ Len(clients) \in Nat
        /\ served \in 0 .. Len(clients)
    BY LenProperties DEF MInv, Typed
  <1>1. ASSUME NEW i \in 1 .. Len(clients), NEW s \in States, Enter(i, s),
               IF i = served' THEN s = "connected" ELSE served' \in {0, served}
        PROVE  ServedIsConnected'
    <2> DEFINE new == [conn_state |-> s, idle |-> 0]
    <2>1. new \in Client
      BY EnteredIsYoung, YoungIsClient
    <2>2. \A j \in 1 .. Len(clients) : clients'[j] = IF j = i THEN new ELSE clients[j]
      BY <1>0, <1>1, <2>1, ExceptSeq DEF Enter
    <2> QED BY <1>0, <1>1, <2>2 DEF ServedIsConnected, Has
  <1>2. CASE ptMQTT
    <2>1. CASE mqtt_disconnect
      <3>1. CASE Current \notin Open
        BY <1>0, <2>1, <3>1 DEF mqtt_disconnect, ServedIsConnected, Has
      <3>2. CASE Current \in Open
        <4>1. PICK s \in {"disconnected", "closing"} :
                 /\ Current \in 1 .. Len(clients) /\ Enter(Current, s)
                 /\ served' = IF served = Current THEN 0 ELSE served
          BY <2>1, <3>2, ClosedStates DEF mqtt_disconnect, Current, Open
        <4> QED BY <1>0, <1>1, <4>1 DEF States
      <3> QED BY <3>1, <3>2
    <2>2. CASE Connect
      <3>1. served' = served
        BY <2>2 DEF Connect
      <3>2. CASE UNCHANGED clients
        BY <3>1, <3>2 DEF ServedIsConnected, Has
      <3>3. CASE \E s \in {"tcp_connecting", "disconnected"} :
                   clients' = Append(clients, [conn_state |-> s, idle |-> 0])
        <4>1. PICK s \in {"tcp_connecting", "disconnected"} :
                clients' = Append(clients, [conn_state |-> s, idle |-> 0])
          BY <3>3
        <4>2. \A j \in 1 .. Len(clients) : clients'[j] = clients[j]
          BY <1>0, <4>1, EnteredIsYoung, YoungIsClient DEF States
        <4> QED BY <1>0, <3>1, <4>2 DEF ServedIsConnected, Has
      <3> QED BY <2>2, <3>2, <3>3 DEF Connect
    <2>3. CASE UNCHANGED <<clients, served, wild>>
      BY <2>3 DEF ServedIsConnected, Has
    <2> QED BY <1>2, <2>1, <2>2, <2>3 DEF ptMQTT, mqtt_connect
  <1>3. CASE Tick
    <2>1. PICK h \in BOOLEAN :
            clients' = [i \in 1 .. Len(clients) |-> Later(clients[i], h /\ i = served)]
      BY <1>3 DEF Tick, Current
    <2>2. CASE served = 0
      BY <1>3, <2>2 DEF Tick, ServedIsConnected
    <2>3. CASE served # 0
      <3>1. served \in 1 .. Len(clients) /\ Young(clients[served]) /\ Has(served, "connected")
        BY <1>0, <2>3 DEF MInv, Typed, ServedIsConnected
      <3>2. (h /\ served = served) \in BOOLEAN
        OBVIOUS
      <3>4. served' = IF clients'[served].conn_state # "connected" THEN 0 ELSE served
        BY <1>0, <1>3, <2>3 DEF Tick
      <3>5. CASE clients'[served].conn_state # "connected"
        BY <3>4, <3>5 DEF ServedIsConnected
      <3>6. CASE clients'[served].conn_state = "connected"
        <4>1. served' = served
          BY <3>4, <3>6
        <4> QED BY <3>6, <4>1 DEF ServedIsConnected, Has
      <3> QED BY <3>5, <3>6
    <2> QED BY <2>2, <2>3
  <1>4. ASSUME NEW i \in 1 .. Current, Network(i) PROVE ServedIsConnected'
    <2>1. i \in 1 .. Len(clients)
      BY <1>4 DEF Current
    <2>2. CASE mqtt_tcp_connect_cb(i)
      <3>1. i # served
        BY <2>1, <2>2 DEF mqtt_tcp_connect_cb, ServedIsConnected, Has
      <3> QED BY <1>1, <2>1, <2>2, <3>1 DEF mqtt_tcp_connect_cb, States
    <2>3. CASE ConnAck(i)
      BY <1>1, <2>1, <2>3 DEF ConnAck, States
    <2>4. CASE Closed(i)
      <3>1. PICK s \in {"disconnected", "closing"} :
               Enter(i, s) /\ served' = IF i = served THEN 0 ELSE served
        BY <2>4, ClosedStates DEF Closed
      <3> QED BY <1>1, <2>1, <3>1 DEF States
    <2>5. CASE Freed(i)
      <3>1. i # served
        BY <2>1, <2>5 DEF Freed, ServedIsConnected, Has
      <3> QED BY <1>1, <2>1, <2>5, <3>1 DEF Freed, States
    <2> QED BY <1>4, <2>2, <2>3, <2>4, <2>5 DEF Network
  <1>5. CASE Repaired
    BY <1>5 DEF Repaired, ServedIsConnected, Has
  <1>6. CASE UNCHANGED vars
    BY <1>6 DEF vars, ServedIsConnected, Has
  <1> QED BY <1>2, <1>3, <1>4, <1>5, <1>6 DEF Next

(* MInv, for every step.                                                   *)
LEMMA MInvPreserved ==
    ASSUME MInv, ServedIsConnected, [Next]_vars PROVE MInv'
  <1>1. CASE ptMQTT
    BY <1>1, ConnectionStepKeeps, OtherStepsKeep DEF ptMQTT
  <1>2. CASE Tick
    BY <1>2, TickStepKeeps
  <1>3. ASSUME NEW i \in 1 .. Current, Network(i) PROVE MInv'
    <2>1. i \in 1 .. Len(clients) /\ served \in 0 .. Len(clients) /\ Len(clients) \in Nat
      BY <1>3, LenProperties DEF MInv, Typed, Current
    <2>2. CASE mqtt_tcp_connect_cb(i)
      BY <2>1, <2>2, EventKeeps DEF mqtt_tcp_connect_cb, States
    <2>3. CASE ConnAck(i)
      BY <2>1, <2>3, EventKeeps DEF ConnAck, States
    <2>4. CASE Closed(i)
      <3>1. PICK s \in {"disconnected", "closing"} : Enter(i, s)
        BY <2>4, ClosedStates DEF Closed
      <3>2. UNCHANGED <<pc, wait, good, wild>> /\ served' \in 0 .. Len(clients)
        BY <2>1, <2>4 DEF Closed
      <3> QED BY <2>1, <3>1, <3>2, EventKeeps DEF States
    <2>5. CASE Freed(i)
      BY <2>1, <2>5, EventKeeps DEF Freed, States
    <2> QED BY <1>3, <2>2, <2>3, <2>4, <2>5 DEF Network
  <1>4. CASE Repaired
    <2>1. UNCHANGED <<pc, wait, clients, served, wild>> /\ good' \in BOOLEAN
      BY <1>4 DEF Repaired
    <2>2. Aged' /\ OneAbandoned' /\ \A j \in 1 .. Len(clients) : Young(clients'[j])
      BY <2>1 DEF MInv, Typed, Aged, OneAbandoned, Has, Elapsed
    <2> QED BY <2>1, <2>2 DEF MInv, Typed
  <1>5. CASE UNCHANGED vars
    <2>1. Aged' /\ OneAbandoned' /\ \A j \in 1 .. Len(clients) : Young(clients'[j])
      BY <1>5 DEF vars, MInv, Typed, Aged, OneAbandoned, Has, Elapsed
    <2>2. UNCHANGED <<pc, wait, clients, served, good, wild>>
      BY <1>5 DEF vars
    <2> QED BY <2>1, <2>2 DEF MInv, Typed
  <1> QED BY <1>1, <1>2, <1>3, <1>4, <1>5 DEF Next

(* MInv is inductive, with the broker's session.                           *)
LEMMA MInvHolds == Spec => [](MInv /\ ServedIsConnected)
  <1>1. Init => ServedIsConnected
    BY DEF Init, ServedIsConnected
  <1>2. MInv /\ ServedIsConnected /\ [Next]_vars => (MInv /\ ServedIsConnected)'
    BY MInvPreserved, ServedKept
  <1> QED BY <1>1, <1>2, MInitEstablishes, PTL DEF Spec

(* Clients, ages and the broker's session keep their types.                *)
THEOREM MqttTypeCorrect == Spec => []TypeOK
  <1>1. MInv => TypeOK
    BY DEF MInv, Typed, TypeOK
  <1> QED BY <1>1, MInvHolds, PTL

(* Whatever is lost and however late the broker answers, the thread's 70   *)
(* seconds keep the attempts apart: one SYN at most, and one abandoned     *)
(* client that still waits for the answer to its CONNECT.                  *)
THEOREM AttemptsDoNotPileUp == Spec => []FewAttempts
  <1>1. MInv => FewAttempts
    <2> SUFFICES ASSUME MInv, NEW i \in Open, NEW j \in Open, i # j
                 PROVE  /\ ~(Has(i, "tcp_connecting") /\ Has(j, "tcp_connecting"))
                        /\ i < j => \/ Has(i, "connected") \/ Has(j, "connected")
                                    \/ j = Current
      BY DEF FewAttempts
    <2>0. /\ i \in 1 .. Len(clients) /\ j \in 1 .. Len(clients) /\ Len(clients) \in Nat
          /\ clients[i].conn_state \in States \ {"disconnected", "closing"}
          /\ clients[j].conn_state \in States \ {"disconnected", "closing"}
      BY LenProperties DEF MInv, Typed, Young, Open, Current, Has
    <2>1. ~(Has(i, "tcp_connecting") /\ Has(j, "tcp_connecting"))
      BY <2>0 DEF MInv, Aged
    <2>2. ASSUME i < j, ~Has(i, "connected"), ~Has(j, "connected"), j # Current
          PROVE FALSE
      <3>1. i < Len(clients) /\ j < Len(clients)
        BY <2>0, <2>2 DEF Current
      <3>2. Has(i, "connecting") /\ Has(j, "connecting")
        BY <2>0, <2>2, <3>1 DEF MInv, Aged, Has, States
      <3> QED BY <2>0, <3>1, <3>2 DEF MInv, OneAbandoned
    <2> QED BY <2>1, <2>2
  <1> QED BY <1>1, MInvHolds, PTL
-----------------------------------------------------------------------------
(* The clients abandoned while they were connected, or connected since.    *)
Abandoned == {i \in 1 .. Len(clients) : i < Len(clients) /\ Has(i, "connected")}

(* An abandoned client that waits for its CONNACK is the last abandoned.   *)
LastConnecting ==
    \A i \in 1 .. Len(clients) :
        i < Len(clients) /\ Has(i, "connecting") => i + 1 = Len(clients)

(* Of two abandoned clients the broker has left the older one when it      *)
(* accepted the younger one, which is no later than three ticks after the  *)
(* thread abandoned that.  The watchdog has been counting since then.      *)
LeftAlone ==
    \A i, j \in Abandoned :
        i < j => /\ i # served
                 /\ j + 1 = Len(clients) => clients[i].idle + 3 >= Elapsed
                 /\ j + 1 < Len(clients) => clients[i].idle >= Elapsed + 4

(* The watchdog closes the older one before a third has been abandoned and *)
(* has been followed by another.                                           *)
NoThird ==
    \A i, j, k \in Abandoned : ~(i < j /\ j < k /\ k + 1 < Len(clients))

Crowd == LastConnecting /\ LeftAlone /\ NoThird

(* What grows at least as fast as the thread's time keeps ahead of it.     *)
LEMMA GrowsWith ==
    ASSUME NEW was \in Int, NEW is \in Int, NEW t \in Int, NEW u \in Int,
           is + t >= was + u
    PROVE  /\ was + 3 >= t => is + 3 >= u
           /\ was >= t + 4 => is >= u + 4
  OBVIOUS

(* A step that accepts no abandoned client and allocates none: the others  *)
(* grow older with the thread or are closed.                               *)
LEMMA NoneAcceptedKeeps ==
    ASSUME MInv, Crowd, Len(clients') = Len(clients),
           Elapsed \in Int, Elapsed' \in Int,
           \A i \in 1 .. Len(clients) : clients'[i].idle \in Nat,
           \A i \in Abandoned' :
               /\ i \in Abandoned
               /\ i # served => clients'[i].idle + Elapsed >= clients[i].idle + Elapsed',
           \A i \in 1 .. Len(clients) :
               i < Len(clients) /\ Has(i, "connecting")' => Has(i, "connecting"),
           served' \in {0, served, Len(clients)}
    PROVE  Crowd'
  <1>0. Len(clients) \in Nat /\ \A i \in 1 .. Len(clients) : clients[i].idle \in Nat
    BY LenProperties DEF MInv, Typed, Young
  <1>1. LastConnecting'
    BY DEF Crowd, LastConnecting
  <1>2. LeftAlone'
    <2> SUFFICES ASSUME NEW i \in Abandoned', NEW j \in Abandoned', i < j
                 PROVE  /\ i # served'
                        /\ j + 1 = Len(clients) => clients'[i].idle + 3 >= Elapsed'
                        /\ j + 1 < Len(clients) => clients'[i].idle >= Elapsed' + 4
      BY DEF LeftAlone
    <2>1. i \in Abandoned /\ j \in Abandoned /\ i \in 1 .. Len(clients) /\ j \in 1 .. Len(clients)
          /\ i < Len(clients)
      BY DEF Abandoned
    <2>2. /\ i # served
          /\ j + 1 = Len(clients) => clients[i].idle + 3 >= Elapsed
          /\ j + 1 < Len(clients) => clients[i].idle >= Elapsed + 4
      BY <2>1 DEF Crowd, LeftAlone
    <2>3. clients'[i].idle + Elapsed >= clients[i].idle + Elapsed'
      BY <2>2
    <2>4. clients'[i].idle \in Nat /\ clients[i].idle \in Nat
      BY <1>0, <2>1
    <2>5. i # served'
      BY <1>0, <2>1, <2>2
    <2>6. clients'[i].idle \in Int /\ clients[i].idle \in Int
      BY <2>4
    <2>7. /\ clients[i].idle + 3 >= Elapsed => clients'[i].idle + 3 >= Elapsed'
          /\ clients[i].idle >= Elapsed + 4 => clients'[i].idle >= Elapsed' + 4
      BY <2>3, <2>6, GrowsWith
    <2> QED BY <2>2, <2>5, <2>7
  <1>3. NoThird'
    BY DEF Crowd, NoThird
  <1> QED BY <1>1, <1>2, <1>3 DEF Crowd

(* One client enters a state and no abandoned one is accepted.             *)
LEMMA EnterKeepsCrowd ==
    ASSUME MInv, Crowd, NEW i \in 1 .. Len(clients), NEW s \in States, Enter(i, s),
           s = "connected" => i = Len(clients),
           s = "connecting" => i = Len(clients),
           Elapsed \in Int, Elapsed' \in Int, Elapsed' <= Elapsed,
           served' \in {0, served, Len(clients)}
    PROVE  Crowd'
  <1> DEFINE new == [conn_state |-> s, idle |-> 0]
  <1>1. new \in Client
    BY EnteredIsYoung, YoungIsClient
  <1>2. clients \in Seq(Client) /\ Len(clients) \in Nat
        /\ \A j \in 1 .. Len(clients) : clients[j].idle \in Nat
    BY LenProperties DEF MInv, Typed, Young
  <1>3. /\ Len(clients') = Len(clients)
        /\ \A j \in 1 .. Len(clients) : clients'[j] = IF j = i THEN new ELSE clients[j]
    BY <1>1, <1>2, ExceptSeq DEF Enter
  <1>4. new.conn_state = s /\ new.idle = 0
    OBVIOUS
  <1> HIDE DEF new
  <1>5. \A j \in 1 .. Len(clients) : clients'[j].idle \in Nat
    BY <1>2, <1>3, <1>4
  <1>6. \A j \in Abandoned' :
            /\ j \in Abandoned
            /\ clients'[j].idle + Elapsed >= clients[j].idle + Elapsed'
    <2> SUFFICES ASSUME NEW j \in Abandoned'
                 PROVE  j \in Abandoned /\ clients'[j].idle + Elapsed >= clients[j].idle + Elapsed'
      OBVIOUS
    <2>1. j \in 1 .. Len(clients) /\ j < Len(clients) /\ clients'[j].conn_state = "connected"
      BY <1>3 DEF Abandoned, Has
    <2>2. j # i
      BY <1>2, <1>3, <1>4, <2>1
    <2>3. clients'[j] = clients[j]
      BY <1>3, <2>1, <2>2
    <2> QED BY <1>2, <2>1, <2>3 DEF Abandoned, Has
  <1>7. \A j \in 1 .. Len(clients) :
            j < Len(clients) /\ Has(j, "connecting")' => Has(j, "connecting")
    BY <1>2, <1>3, <1>4 DEF Has
  <1> QED BY <1>3, <1>5, <1>6, <1>7, NoneAcceptedKeeps

(* The broker accepts the last abandoned client, at most three ticks after *)
(* it was abandoned: its CONNECT is given up after ten.                    *)
LEMMA AcceptanceKeepsCrowd ==
    ASSUME MInv, Crowd, NEW n \in 1 .. Len(clients), ConnAck(n)
    PROVE  Crowd'
  <1> DEFINE new == [conn_state |-> "connected", idle |-> 0]
  <1>1. new \in Client
    BY EnteredIsYoung, YoungIsClient DEF States
  <1>2. clients \in Seq(Client) /\ Len(clients) \in Nat
        /\ (\A j \in 1 .. Len(clients) : clients[j].idle \in Nat)
        /\ Elapsed \in Int /\ Elapsed' = Elapsed
    BY LenProperties DEF MInv, Typed, Young, ConnAck, Elapsed
  <1>3. CASE n = Len(clients)
    BY <1>2, <1>3, EnterKeepsCrowd DEF ConnAck, States
  <1>4. CASE n # Len(clients)
    <2>1. n + 1 = Len(clients) /\ Has(n, "connecting") /\ served' = n
      BY <1>2, <1>4 DEF Crowd, LastConnecting, ConnAck
    <2>2. Elapsed <= 3
      <3>1. clients[n].idle >= Elapsed + 6
        BY <1>2, <2>1 DEF MInv, Aged
      <3>2. clients[n].idle < 10
        BY <1>2, <2>1 DEF MInv, Typed, Young, GivesUp, MQTT_CONNECT_TIMEOUT, Has
      <3> QED BY <1>2, <3>1, <3>2
    <2>3. /\ Len(clients') = Len(clients)
          /\ \A j \in 1 .. Len(clients) : clients'[j] = IF j = n THEN new ELSE clients[j]
      BY <1>1, <1>2, ExceptSeq DEF ConnAck, Enter
    <2>4. new.conn_state = "connected" /\ new.idle = 0
      OBVIOUS
    <2> HIDE DEF new
    <2>5. \A j \in Abandoned' : j = n \/ (j \in Abandoned /\ clients'[j] = clients[j])
      BY <2>3 DEF Abandoned, Has
    <2>6. LastConnecting'
      BY <2>3, <2>4 DEF Crowd, LastConnecting, Has
    <2>7. LeftAlone'
      <3> SUFFICES ASSUME NEW i \in Abandoned', NEW j \in Abandoned', i < j
                   PROVE  /\ i # n
                          /\ j + 1 = Len(clients) => clients'[i].idle + 3 >= Elapsed
                          /\ j + 1 < Len(clients) => clients'[i].idle >= Elapsed + 4
        BY <1>2, <2>1, <2>3 DEF LeftAlone
      <3>1. i \in 1 .. Len(clients) /\ j \in 1 .. Len(clients) /\ j < Len(clients)
        BY <2>3 DEF Abandoned
      <3>2. i # n
        BY <1>2, <2>1, <3>1
      <3>3. i \in Abandoned /\ clients'[i] = clients[i] /\ clients[i].idle \in Nat
        BY <1>2, <2>5, <3>1, <3>2
      <3>4. CASE j = n
        BY <1>2, <2>1, <2>2, <3>2, <3>3, <3>4
      <3>5. CASE j # n
        BY <2>5, <3>2, <3>3, <3>5 DEF Crowd, LeftAlone
      <3> QED BY <3>4, <3>5
    <2>8. NoThird'
      <3> SUFFICES ASSUME NEW i \in Abandoned', NEW j \in Abandoned', NEW k \in Abandoned',
                          i < j, j < k, k + 1 < Len(clients)
                   PROVE  FALSE
        BY <2>3 DEF NoThird
      <3>1. i \in 1 .. Len(clients) /\ j \in 1 .. Len(clients) /\ k \in 1 .. Len(clients)
        BY <2>3 DEF Abandoned
      <3>2. i # n /\ j # n /\ k # n
        BY <1>2, <2>1, <3>1
      <3> QED BY <2>5, <3>2 DEF Crowd, NoThird
    <2> QED BY <2>6, <2>7, <2>8 DEF Crowd
  <1> QED BY <1>3, <1>4


(* A new client: the one that the thread abandons is not connected, and    *)
(* the older of two abandoned earlier would be beyond the watchdog.        *)
LEMMA AllocationKeepsCrowd ==
    ASSUME KEEPALIVE <= 7, MInv, Crowd, NEW s \in States, s # "connecting",
           pc = 1, wait = 0, pc' = 2, wait' = 2, ~mqtt_client_is_connected,
           clients' = Append(clients, [conn_state |-> s, idle |-> 0]),
           served' = served
    PROVE  Crowd'
  <1> DEFINE new == [conn_state |-> s, idle |-> 0]
  <1>1. new \in Client
    BY EnteredIsYoung, YoungIsClient
  <1>2. clients \in Seq(Client) /\ Len(clients) \in Nat
        /\ (\A j \in 1 .. Len(clients) : clients[j].idle \in Nat)
        /\ Elapsed = 7 /\ Elapsed' = 0
    BY LenProperties DEF MInv, Typed, Young, Elapsed
  <1>3. /\ Len(clients') = Len(clients) + 1
        /\ \A j \in 1 .. Len(clients) : clients'[j] = clients[j]
        /\ clients'[Len(clients) + 1] = new
    BY <1>1, <1>2
  <1> HIDE DEF new
  <1>4. \A j \in 1 .. Len(clients') : j < Len(clients') =>
            /\ j \in 1 .. Len(clients)
            /\ clients'[j] = clients[j]
    BY <1>2, <1>3
  <1>5. \A j \in Abandoned' : j \in Abandoned /\ clients'[j] = clients[j]
    <2> SUFFICES ASSUME NEW j \in Abandoned' PROVE j \in Abandoned /\ clients'[j] = clients[j]
      OBVIOUS
    <2>1. j \in 1 .. Len(clients) /\ clients'[j] = clients[j] /\ Has(j, "connected")
      BY <1>4 DEF Abandoned, Has
    <2>2. j # Len(clients)
      BY <1>2, <2>1 DEF mqtt_client_is_connected, Current
    <2> QED BY <1>2, <2>1, <2>2 DEF Abandoned
  <1>6. WATCHDOG <= 10
    BY KeepAliveAssumption DEF WATCHDOG
  <1>7. \A i \in Abandoned : clients[i].idle <= 10
    <2> SUFFICES ASSUME NEW i \in Abandoned PROVE clients[i].idle <= 10
      OBVIOUS
    <2>1. i \in 1 .. Len(clients) /\ clients[i].conn_state = "connected"
      BY DEF Abandoned, Has
    <2>2. ~(clients[i].idle > WATCHDOG)
      BY <2>1 DEF MInv, Typed, Young, GivesUp
    <2> QED BY <1>2, <1>6, <2>1, <2>2, WatchdogIsNatural
  <1>8. LastConnecting'
    <2> SUFFICES ASSUME NEW j \in 1 .. Len(clients'), j < Len(clients'), Has(j, "connecting")'
                 PROVE  j + 1 = Len(clients')
      BY DEF LastConnecting
    <2>1. j \in 1 .. Len(clients) /\ Has(j, "connecting")
      BY <1>4 DEF Has
    <2>2. clients[j].idle < 10
      BY <1>2, <2>1 DEF MInv, Typed, Young, GivesUp, MQTT_CONNECT_TIMEOUT, Has
    <2>3. j = Len(clients)
      BY <1>2, <2>1, <2>2 DEF MInv, Aged
    <2> QED BY <1>2, <1>3, <2>3
  <1>9. ASSUME NEW i \in Abandoned', NEW j \in Abandoned', i < j
        PROVE  /\ i # served' /\ clients'[i].idle >= 4
               /\ j + 1 = Len(clients)
    <2>1. i \in Abandoned /\ j \in Abandoned /\ clients'[i] = clients[i]
          /\ i \in 1 .. Len(clients) /\ j \in 1 .. Len(clients)
      BY <1>5 DEF Abandoned
    <2>2. /\ i # served
          /\ j + 1 = Len(clients) => clients[i].idle + 3 >= 7
          /\ j + 1 < Len(clients) => clients[i].idle >= 7 + 4
      BY <1>2, <1>9, <2>1 DEF Crowd, LeftAlone
    <2>3. j + 1 = Len(clients)
      <3>1. ~(j + 1 < Len(clients))
        BY <1>2, <1>7, <2>1, <2>2
      <3>2. j < Len(clients)
        BY <2>1 DEF Abandoned
      <3> QED BY <1>2, <2>1, <3>1, <3>2
    <2> QED BY <1>2, <2>1, <2>2, <2>3
  <1>10. LeftAlone'
    <2> SUFFICES ASSUME NEW i \in Abandoned', NEW j \in Abandoned', i < j
                 PROVE  /\ i # served'
                        /\ j + 1 = Len(clients') => clients'[i].idle + 3 >= 0
                        /\ j + 1 < Len(clients') => clients'[i].idle >= 0 + 4
      BY <1>2 DEF LeftAlone
    <2>1. i \in 1 .. Len(clients) /\ clients'[i].idle \in Nat
      BY <1>2, <1>5 DEF Abandoned
    <2> QED BY <1>9, <2>1
  <1>11. NoThird'
    <2> SUFFICES ASSUME NEW i \in Abandoned', NEW j \in Abandoned', NEW k \in Abandoned',
                        i < j, j < k, k + 1 < Len(clients')
                 PROVE  FALSE
      BY DEF NoThird
    <2>1. i \in 1 .. Len(clients) /\ j \in 1 .. Len(clients) /\ k \in 1 .. Len(clients)
      BY <1>5 DEF Abandoned
    <2>2. j + 1 = Len(clients)
      BY <1>9
    <2> QED BY <1>2, <1>3, <2>1, <2>2
  <1> QED BY <1>8, <1>10, <1>11 DEF Crowd

(* Ten seconds.                                                            *)
LEMMA TickKeepsCrowd ==
    ASSUME MInv, ServedIsConnected, Crowd, Tick PROVE Crowd'
  <1>1. PICK h \in BOOLEAN :
          clients' = [i \in 1 .. Len(clients) |-> Later(clients[i], h /\ i = served)]
    BY DEF Tick, Current
  <1>2. clients \in Seq(Client) /\ Len(clients) \in Nat
        /\ (\A j \in 1 .. Len(clients) : Young(clients[j]) /\ clients[j].idle \in Nat)
        /\ Elapsed \in Int /\ Elapsed' = Elapsed + 1
        /\ served \in 0 .. Len(clients)
    BY LenProperties DEF MInv, Typed, Young, Elapsed, Tick
  <1>3. MInv'
    BY TickStepKeeps
  <1>4. Len(clients') = Len(clients)
    <2>1. clients' \in Seq(Client) /\ DOMAIN clients' = 1 .. Len(clients)
      BY <1>1, <1>3 DEF MInv, Typed
    <2> QED BY <1>2, <2>1, LenProperties
  <1>5. \A i \in 1 .. Len(clients) :
            /\ clients'[i].idle \in Nat
            /\ \/ clients'[i].conn_state \in {"disconnected", "closing"}
               \/ /\ clients'[i].conn_state = clients[i].conn_state
                  /\ i # served => clients'[i].idle = clients[i].idle + 1
    <2> SUFFICES ASSUME NEW i \in 1 .. Len(clients)
                 PROVE  /\ clients'[i].idle \in Nat
                        /\ \/ clients'[i].conn_state \in {"disconnected", "closing"}
                           \/ /\ clients'[i].conn_state = clients[i].conn_state
                              /\ i # served => clients'[i].idle = clients[i].idle + 1
      OBVIOUS
    <2>1. clients'[i] = Later(clients[i], h /\ i = served)
      BY <1>1
    <2>2. (h /\ i = served) \in BOOLEAN
      OBVIOUS
    <2>3. clients'[i].idle \in Nat
      BY <1>3, <1>4 DEF MInv, Typed, Young
    <2> QED BY <1>2, <2>1, <2>2, <2>3, LaterIsYoung
  <1>6. \A i \in Abandoned' :
            /\ i \in Abandoned
            /\ i # served => clients'[i].idle + Elapsed >= clients[i].idle + Elapsed'
    <2> SUFFICES ASSUME NEW i \in Abandoned'
                 PROVE  /\ i \in Abandoned
                        /\ i # served => clients'[i].idle + Elapsed >= clients[i].idle + Elapsed'
      OBVIOUS
    <2>1. i \in 1 .. Len(clients) /\ i < Len(clients) /\ clients'[i].conn_state = "connected"
      BY <1>4 DEF Abandoned, Has
    <2>2. clients[i].conn_state = "connected"
          /\ (i # served => clients'[i].idle = clients[i].idle + 1)
      BY <1>5, <2>1
    <2> QED BY <1>2, <2>1, <2>2 DEF Abandoned, Has
  <1>7. \A i \in 1 .. Len(clients) :
            i < Len(clients) /\ Has(i, "connecting")' => Has(i, "connecting")
    BY <1>5 DEF Has
  <1>8. served' \in {0, served, Len(clients)} /\ Elapsed' \in Int
    BY <1>2 DEF Tick
  <1> QED BY <1>2, <1>4, <1>5, <1>6, <1>7, <1>8, NoneAcceptedKeeps
(* Crowd, for every step.                                                  *)
LEMMA CrowdPreserved ==
    ASSUME KEEPALIVE <= 7, MInv, ServedIsConnected, Crowd, [Next]_vars
    PROVE  Crowd'
  <1>0. /\ clients \in Seq(Client) /\ Len(clients) \in Nat
        /\ (\A i \in 1 .. Len(clients) : clients[i].idle \in Nat)
        /\ pc \in 1 .. 3 /\ wait \in 0 .. 3 /\ Elapsed \in Int
    BY LenProperties DEF MInv, Typed, Young, Elapsed
  <1>1. ASSUME UNCHANGED clients, served' \in {0, served}, Elapsed' \in Int, Elapsed' <= Elapsed
        PROVE  Crowd'
    <2>1. \A i \in Abandoned' :
              /\ i \in Abandoned
              /\ clients'[i].idle + Elapsed >= clients[i].idle + Elapsed'
      <3> SUFFICES ASSUME NEW i \in Abandoned'
                   PROVE  /\ i \in Abandoned
                          /\ clients'[i].idle + Elapsed >= clients[i].idle + Elapsed'
        OBVIOUS
      <3>1. i \in Abandoned /\ i \in 1 .. Len(clients) /\ clients'[i] = clients[i]
        BY <1>1 DEF Abandoned, Has
      <3> QED BY <1>0, <1>1, <3>1
    <2>2. \A i \in 1 .. Len(clients) :
              i < Len(clients) /\ Has(i, "connecting")' => Has(i, "connecting")
      BY <1>1 DEF Has
    <2>3. /\ Len(clients') = Len(clients) /\ served' \in {0, served, Len(clients)}
          /\ \A i \in 1 .. Len(clients) : clients'[i].idle \in Nat
      BY <1>0, <1>1
    <2> QED BY <1>0, <1>1, <2>1, <2>2, <2>3, NoneAcceptedKeeps
  <1>2. CASE ptMQTT
    <2>1. CASE Step(1, 2, 2) /\ mqtt_connect
      <3>0. pc = 1 /\ wait = 0 /\ pc' = 2 /\ wait' = 2 /\ Elapsed' \in Int /\ Elapsed' <= Elapsed
        BY <2>1 DEF Step, Elapsed
      <3>1. CASE mqtt_disconnect
        <4>1. CASE Current \notin Open
          BY <1>1, <3>0, <3>1, <4>1 DEF mqtt_disconnect
        <4>2. CASE Current \in Open
          <5>1. PICK s \in {"disconnected", "closing"} :
                   /\ Current \in 1 .. Len(clients) /\ Enter(Current, s)
                   /\ served' \in {0, served}
            BY <3>1, <4>2, ClosedStates DEF mqtt_disconnect, Current, Open
          <5> QED BY <1>0, <3>0, <5>1, EnterKeepsCrowd DEF States
        <4> QED BY <4>1, <4>2
      <3>2. CASE Connect
        <4>1. CASE UNCHANGED clients
          BY <1>1, <3>0, <3>2, <4>1 DEF Connect
        <4>2. CASE \E s \in {"tcp_connecting", "disconnected"} :
                     clients' = Append(clients, [conn_state |-> s, idle |-> 0])
          <5>1. PICK s \in {"tcp_connecting", "disconnected"} :
                  clients' = Append(clients, [conn_state |-> s, idle |-> 0])
            BY <4>2
          <5>2. s \in States /\ s # "connecting"
            BY DEF States
          <5>3. ~mqtt_client_is_connected /\ served' = served
            BY <3>2 DEF Connect
          <5> QED BY <3>0, <5>1, <5>2, <5>3, AllocationKeepsCrowd
        <4> QED BY <3>2, <4>1, <4>2 DEF Connect
      <3>3. CASE UNCHANGED <<clients, served, wild>>
        BY <1>1, <3>0, <3>3
      <3> QED BY <2>1, <3>1, <3>2, <3>3 DEF mqtt_connect
    <2>2. CASE (Step(2, 3, 2) \/ Step(3, 1, 3)) /\ UNCHANGED <<clients, served, wild>>
      <3>1. Elapsed' \in Int /\ Elapsed' <= Elapsed
        BY <2>2 DEF Step, Elapsed
      <3> QED BY <1>1, <2>2, <3>1
    <2> QED BY <1>2, <2>1, <2>2 DEF ptMQTT
  <1>3. CASE Tick
    BY <1>3, TickKeepsCrowd
  <1>4. ASSUME NEW i \in 1 .. Current, Network(i) PROVE Crowd'
    <2>1. i \in 1 .. Len(clients)
      BY DEF Current
    <2>2. UNCHANGED <<pc, wait>> /\ Elapsed' = Elapsed
      BY <1>4 DEF Network, mqtt_tcp_connect_cb, ConnAck, Closed, Freed, Elapsed
    <2>3. CASE mqtt_tcp_connect_cb(i)
      <3>1. i = Len(clients)
        BY <2>1, <2>3 DEF mqtt_tcp_connect_cb, MInv, Aged
      <3> QED BY <1>0, <2>1, <2>2, <2>3, <3>1, EnterKeepsCrowd DEF mqtt_tcp_connect_cb, States
    <2>4. CASE ConnAck(i)
      BY <2>1, <2>4, AcceptanceKeepsCrowd
    <2>5. CASE Closed(i)
      <3>1. PICK s \in {"disconnected", "closing"} : Enter(i, s) /\ served' \in {0, served}
        BY <2>5, ClosedStates DEF Closed
      <3> QED BY <1>0, <2>1, <2>2, <3>1, EnterKeepsCrowd DEF States
    <2>6. CASE Freed(i)
      BY <1>0, <2>1, <2>2, <2>6, EnterKeepsCrowd DEF Freed, States
    <2> QED BY <1>4, <2>3, <2>4, <2>5, <2>6 DEF Network
  <1>5. CASE Repaired
    <2>1. Elapsed' = Elapsed
      BY <1>5 DEF Repaired, Elapsed
    <2> QED BY <1>0, <1>1, <1>5, <2>1 DEF Repaired
  <1>6. CASE UNCHANGED vars
    <2>1. Elapsed' = Elapsed
      BY <1>6 DEF vars, Elapsed
    <2> QED BY <1>0, <1>1, <1>6, <2>1 DEF vars
  <1> QED BY <1>2, <1>3, <1>4, <1>5, <1>6 DEF Next

(* An open connection is the current client's, that of the client abandoned *)
(* last, or one that was accepted and then abandoned.                      *)
LEMMA OpenAreFew ==
    ASSUME MInv, Crowd, NEW i \in Open
    PROVE  \/ i = Len(clients) \/ i + 1 = Len(clients)
           \/ i \in Abandoned /\ i + 1 < Len(clients)
  <1> SUFFICES ASSUME i # Len(clients), i + 1 # Len(clients)
               PROVE  i \in Abandoned /\ i + 1 < Len(clients)
    OBVIOUS
  <1>0. Len(clients) \in Nat
    BY LenProperties DEF MInv, Typed
  <1>1. /\ i \in 1 .. Len(clients) /\ i + 1 < Len(clients)
        /\ ~Has(i, "disconnected") /\ ~Has(i, "closing")
        /\ clients[i].conn_state \in States
    BY <1>0 DEF Open, Current, MInv, Typed, Young
  <1>2. ~Has(i, "tcp_connecting") /\ ~Has(i, "connecting")
    BY <1>0, <1>1 DEF MInv, Aged, Crowd, LastConnecting
  <1>3. Has(i, "connected")
    BY <1>1, <1>2 DEF Has, States
  <1> QED BY <1>0, <1>1, <1>3 DEF Abandoned

(* One more element.                                                       *)
LEMMA OneMore ==
    ASSUME NEW S, NEW T, NEW x, IsFiniteSet(T), S \subseteq T \cup {x}
    PROVE  /\ IsFiniteSet(S) /\ Cardinality(S) \in Nat /\ Cardinality(T) \in Nat
           /\ Cardinality(S) <= Cardinality(T) + 1
  <1>1. Cardinality(T) \in Nat
    BY FS_CardinalityType
  <1>2. /\ IsFiniteSet(T \cup {x}) /\ Cardinality(T \cup {x}) \in Nat
        /\ Cardinality(T \cup {x}) <= Cardinality(T) + 1
    <2>1. /\ IsFiniteSet(T \cup {x})
          /\ \/ Cardinality(T \cup {x}) = Cardinality(T)
             \/ Cardinality(T \cup {x}) = Cardinality(T) + 1
      BY FS_AddElement
    <2> QED BY <1>1, <2>1
  <1>3. IsFiniteSet(S) /\ Cardinality(S) <= Cardinality(T \cup {x})
    BY <1>2, FS_Subset
  <1>4. Cardinality(S) \in Nat
    BY <1>3, FS_CardinalityType
  <1> QED BY <1>1, <1>2, <1>3, <1>4

(* Three and four elements.                                                *)
LEMMA AtMostThree ==
    ASSUME NEW S, NEW a, NEW b, NEW c, S \subseteq {a, b, c}
    PROVE  IsFiniteSet(S) /\ Cardinality(S) \in Nat /\ Cardinality(S) <= 3
  <1>1. IsFiniteSet({a}) /\ Cardinality({a}) = 1
    BY FS_Singleton
  <1>2. {a, b} \subseteq {a} \cup {b} /\ S \subseteq {a, b} \cup {c}
    OBVIOUS
  <1>3. IsFiniteSet({a, b}) /\ Cardinality({a, b}) <= Cardinality({a}) + 1
    BY <1>1, <1>2, OneMore, Zenon
  <1>4. /\ IsFiniteSet(S) /\ Cardinality(S) \in Nat /\ Cardinality({a, b}) \in Nat
        /\ Cardinality(S) <= Cardinality({a, b}) + 1
    BY <1>2, <1>3, OneMore, Zenon
  <1> QED BY <1>1, <1>3, <1>4

LEMMA AtMostFour ==
    ASSUME NEW S, NEW a, NEW b, NEW c, NEW d, S \subseteq {a, b, c, d}
    PROVE  IsFiniteSet(S) /\ Cardinality(S) \in Nat /\ Cardinality(S) <= 4
  <1>1. IsFiniteSet({a, b, c}) /\ Cardinality({a, b, c}) <= 3
    BY AtMostThree
  <1>2. S \subseteq {a, b, c} \cup {d}
    OBVIOUS
  <1>3. /\ IsFiniteSet(S) /\ Cardinality(S) \in Nat /\ Cardinality({a, b, c}) \in Nat
        /\ Cardinality(S) <= Cardinality({a, b, c}) + 1
    BY <1>1, <1>2, OneMore, Zenon
  <1> QED BY <1>1, <1>3

(* Besides the current client and the one abandoned last, two have an open *)
(* connection.                                                             *)
LEMMA FourAreOpen ==
    ASSUME MInv, Crowd
    PROVE  IsFiniteSet(Open) /\ Cardinality(Open) \in Nat /\ Cardinality(Open) <= 4
  <1> DEFINE n == Len(clients)
             Old == {i \in Abandoned : i + 1 < n}
  <1>0. n \in Nat
    BY LenProperties DEF MInv, Typed
  <1>1. \A i \in Open : i = n \/ i + 1 = n \/ i \in Old
    BY OpenAreFew
  <1>2. \E a, b : Old \subseteq {a, b}
    <2>0. Old \subseteq 1 .. n
      BY DEF Abandoned
    <2>1. CASE \E a, b \in Old : a < b
      <3>1. PICK a \in Old, b \in Old : a < b
        BY <2>1
      <3>2. \A c \in Old : c \in {a, b}
        <4> SUFFICES ASSUME NEW c \in Old, c # a, c # b PROVE FALSE
          OBVIOUS
        <4>1. a \in 1 .. n /\ b \in 1 .. n /\ c \in 1 .. n
          BY <2>0
        <4>2. /\ ~(c < a) /\ ~(a < c /\ c < b) /\ ~(b < c)
          BY <3>1 DEF Crowd, NoThird
        <4> QED BY <1>0, <4>1, <4>2
      <3> QED BY <3>2
    <2>2. CASE ~\E a, b \in Old : a < b
      <3>1. \A a, b \in Old : a = b
        BY <1>0, <2>0, <2>2
      <3> QED BY <3>1
    <2> QED BY <2>1, <2>2
  <1>3. PICK a, b : Old \subseteq {a, b}
    BY <1>2
  <1>4. Open \subseteq {n, n - 1, a, b}
    <2>1. \A i \in Open : i \in 1 .. n
      BY DEF Open, Current
    <2> HIDE DEF Old, n
    <2> QED BY <1>0, <1>1, <1>3, <2>1
  <1> QED BY <1>4, AtMostFour

(* A tick before the thread comes to mqtt_connect it is one only: the      *)
(* watchdog has closed the older of two.                                   *)
LEMMA ThreeAreOpen ==
    ASSUME KEEPALIVE <= 6, MInv, Crowd, Elapsed = 6
    PROVE  IsFiniteSet(Open) /\ Cardinality(Open) \in Nat /\ Cardinality(Open) <= 3
  <1> DEFINE n == Len(clients)
             Old == {i \in Abandoned : i + 1 < n}
  <1>0. n \in Nat
    BY LenProperties DEF MInv, Typed
  <1>1. \A i \in Open : i = n \/ i + 1 = n \/ i \in Old
    BY OpenAreFew
  <1>2. WATCHDOG <= 9
    BY KeepAliveAssumption DEF WATCHDOG
  <1>3. \A i \in Old : i \in 1 .. n /\ clients[i].idle \in Nat /\ clients[i].idle <= 9
    <2> SUFFICES ASSUME NEW i \in Old
                 PROVE  i \in 1 .. n /\ clients[i].idle \in Nat /\ clients[i].idle <= 9
      OBVIOUS
    <2>1. i \in 1 .. n /\ clients[i].conn_state = "connected"
      BY DEF Abandoned, Has
    <2>2. clients[i].idle \in Nat /\ ~(clients[i].idle > WATCHDOG)
      BY <2>1 DEF MInv, Typed, Young, GivesUp
    <2> QED BY <1>2, <2>1, <2>2, WatchdogIsNatural
  <1>4. \A i, j \in Old : ~(i < j)
    <2> SUFFICES ASSUME NEW i \in Old, NEW j \in Old, i < j PROVE FALSE
      OBVIOUS
    <2>1. clients[i].idle >= 6 + 4
      BY DEF Crowd, LeftAlone
    <2> QED BY <1>3, <2>1
  <1>5. \E a : Old \subseteq {a}
    <2>1. \A i, j \in Old : i = j
      BY <1>0, <1>3, <1>4
    <2> HIDE DEF Old
    <2> QED BY <2>1
  <1>6. PICK a : Old \subseteq {a}
    BY <1>5
  <1>7. Open \subseteq {n, n - 1, a}
    <2>1. \A i \in Open : i \in 1 .. n
      BY DEF Open, Current
    <2> HIDE DEF Old, n
    <2> QED BY <1>0, <1>1, <1>6, <2>1
  <1> QED BY <1>7, AtMostThree
-----------------------------------------------------------------------------
(* The blocks that are held but for those whose FIN has waited for a tick. *)
Held == {i \in Blocks : ~(Has(i, "closing") /\ clients[i].idle > 0)}

(* They are four at most, and three when the thread may add one: what a    *)
(* tick leaves was open before it, and between two ticks only the thread   *)
(* adds to them.                                                           *)
FewHeld ==
    /\ IsFiniteSet(Held) /\ Cardinality(Held) \in Nat
    /\ Cardinality(Held) <= 4
    /\ Elapsed = 7 => Cardinality(Held) <= 3

(* A step that adds no block.                                              *)
LEMMA NoBlockAdded ==
    ASSUME FewHeld, Held' \subseteq Held, Elapsed' = 7 => Elapsed = 7
    PROVE  FewHeld'
  <1>1. IsFiniteSet(Held') /\ Cardinality(Held') <= Cardinality(Held)
    BY FS_Subset DEF FewHeld
  <1>2. Cardinality(Held') \in Nat
    BY <1>1, FS_CardinalityType
  <1> QED BY <1>1, <1>2 DEF FewHeld

(* A client that enters a state holds no block that it did not hold.       *)
LEMMA EnterAddsNone ==
    ASSUME MInv, FewHeld, NEW i \in Open \cup Blocks, NEW s \in States, Enter(i, s),
           Has(i, "closing") => s = "disconnected",
           Elapsed' = 7 => Elapsed = 7
    PROVE  FewHeld'
  <1> DEFINE new == [conn_state |-> s, idle |-> 0]
  <1>0. clients \in Seq(Client) /\ Len(clients) \in Nat /\ i \in 1 .. Len(clients)
        /\ ~Has(i, "disconnected")
    BY LenProperties DEF MInv, Typed, Open, Blocks, Current
  <1>1. new \in Client /\ new.conn_state = s
    BY EnteredIsYoung, YoungIsClient
  <1>2. /\ Len(clients') = Len(clients)
        /\ \A j \in 1 .. Len(clients) : clients'[j] = IF j = i THEN new ELSE clients[j]
    BY <1>0, <1>1, ExceptSeq DEF Enter
  <1> HIDE DEF new
  <1>3. ASSUME NEW j \in Held' PROVE j \in Held
    <2>1. j \in 1 .. Len(clients) /\ clients'[j].conn_state # "disconnected"
          /\ ~(clients'[j].conn_state = "closing" /\ clients'[j].idle > 0)
      BY <1>2 DEF Held, Blocks, Current, Has
    <2>2. CASE j = i
      <3>1. ~Has(i, "closing")
        BY <1>0, <1>1, <1>2, <2>1, <2>2
      <3> QED BY <1>0, <2>2, <3>1 DEF Held, Blocks, Current
    <2>3. CASE j # i
      <3>1. clients'[j] = clients[j]
        BY <1>2, <2>1, <2>3
      <3> QED BY <2>1, <3>1 DEF Held, Blocks, Current, Has
    <2> QED BY <2>2, <2>3
  <1> QED BY <1>3, NoBlockAdded

(* FewHeld, for every step.                                                *)
LEMMA FewHeldPreserved ==
    ASSUME KEEPALIVE <= 6, MInv, ServedIsConnected, Crowd, FewHeld, [Next]_vars
    PROVE  FewHeld'
  <1>0. /\ clients \in Seq(Client) /\ Len(clients) \in Nat
        /\ \A i \in 1 .. Len(clients) : Young(clients[i])
        /\ pc \in 1 .. 3 /\ wait \in 0 .. 3 /\ Elapsed \in Int
    BY LenProperties DEF MInv, Typed, Elapsed
  <1>1. ASSUME UNCHANGED clients, Elapsed' = 7 => Elapsed = 7 PROVE FewHeld'
    <2>1. Held' = Held
      BY <1>1 DEF Held, Blocks, Current, Has
    <2> QED BY <1>1, <2>1, NoBlockAdded
  <1>2. CASE ptMQTT
    <2>1. CASE Step(1, 2, 2) /\ mqtt_connect
      <3>1. Elapsed = 7 /\ Elapsed' = 0
        BY <2>1 DEF Step, Elapsed
      <3>2. CASE mqtt_disconnect
        <4>1. CASE Current \notin Open
          BY <1>1, <3>1, <3>2, <4>1 DEF mqtt_disconnect
        <4>2. CASE Current \in Open
          <5>1. Enter(Current, tcp_close(clients[Current].conn_state)) /\ ~Has(Current, "closing")
            BY <3>2, <4>2 DEF mqtt_disconnect, Open
          <5> QED BY <3>1, <4>2, <5>1, ClosedStates, EnterAddsNone
        <4> QED BY <4>1, <4>2
      <3>3. CASE Connect
        <4>1. CASE UNCHANGED clients
          BY <1>1, <3>1, <4>1
        <4>2. ASSUME NEW s \in {"tcp_connecting", "disconnected"},
                     clients' = Append(clients, [conn_state |-> s, idle |-> 0])
              PROVE  FewHeld'
          <5> DEFINE new == [conn_state |-> s, idle |-> 0]
          <5>1. new \in Client
            BY EnteredIsYoung, YoungIsClient DEF States
          <5>2. /\ Len(clients') = Len(clients) + 1
                /\ \A j \in 1 .. Len(clients) : clients'[j] = clients[j]
            BY <1>0, <4>2, <5>1
          <5>3. Held' \subseteq Held \cup {Len(clients) + 1}
            <6> SUFFICES ASSUME NEW j \in Held', j # Len(clients) + 1 PROVE j \in Held
              OBVIOUS
            <6>1. j \in 1 .. Len(clients) /\ clients'[j] = clients[j]
              BY <1>0, <5>2 DEF Held, Blocks, Current
            <6> QED BY <6>1 DEF Held, Blocks, Current, Has
          <5>4. /\ IsFiniteSet(Held') /\ Cardinality(Held') \in Nat
                /\ Cardinality(Held') <= Cardinality(Held) + 1
            BY <5>3, OneMore, Zenon DEF FewHeld
          <5> QED BY <3>1, <5>4 DEF FewHeld
        <4> QED BY <3>3, <4>1, <4>2 DEF Connect
      <3>4. CASE UNCHANGED <<clients, served, wild>>
        BY <1>1, <3>1, <3>4
      <3> QED BY <2>1, <3>2, <3>3, <3>4 DEF mqtt_connect
    <2>2. CASE (Step(2, 3, 2) \/ Step(3, 1, 3)) /\ UNCHANGED <<clients, served, wild>>
      <3>1. Elapsed' # 7
        BY <2>2 DEF Step, Elapsed
      <3> QED BY <1>1, <2>2, <3>1
    <2> QED BY <1>2, <2>1, <2>2 DEF ptMQTT
  <1>3. CASE Tick
    <2>1. PICK h \in BOOLEAN :
            clients' = [i \in 1 .. Len(clients) |-> Later(clients[i], h /\ i = served)]
      BY <1>3 DEF Tick, Current
    <2>2. Len(clients') = Len(clients)
      <3>1. MInv'
        BY <1>3, TickStepKeeps
      <3>2. clients' \in Seq(Client) /\ DOMAIN clients' = 1 .. Len(clients)
        BY <2>1, <3>1 DEF MInv, Typed
      <3> QED BY <1>0, <3>2, LenProperties
    <2>3. ASSUME NEW i \in Held' PROVE i \in Open
      <3>1. /\ i \in 1 .. Len(clients) /\ clients'[i].conn_state # "disconnected"
            /\ ~(clients'[i].conn_state = "closing" /\ clients'[i].idle > 0)
        BY <2>2 DEF Held, Blocks, Current, Has
      <3>2. PICK b \in BOOLEAN : clients'[i] = Later(clients[i], b)
        BY <2>1, <3>1
      <3> DEFINE c == clients[i]
      <3> HIDE DEF c
      <3>3. /\ Later(c, b).conn_state # "disconnected"
            /\ ~(Later(c, b).conn_state = "closing" /\ Later(c, b).idle > 0)
        BY <3>1, <3>2 DEF c
      <3>4. Young(c)
        BY <1>0, <3>1 DEF c
      <3>5. /\ c.conn_state = "disconnected" => Later(c, b).conn_state = "disconnected"
            /\ c.conn_state = "closing" =>
                 Later(c, b).conn_state = "closing" /\ Later(c, b).idle = 1
        BY <3>4, LaterIsYoung
      <3>6. clients[i].conn_state # "disconnected" /\ clients[i].conn_state # "closing"
        BY <3>3, <3>5 DEF c
      <3> QED BY <3>1, <3>6 DEF Open, Current, Has
    <2>4. Elapsed' = Elapsed + 1
      BY <1>0, <1>3 DEF Tick, Elapsed
    <2>5. IsFiniteSet(Open) /\ Cardinality(Open) \in Nat /\ Cardinality(Open) <= 4
      BY FourAreOpen
    <2>6. Elapsed' = 7 => Cardinality(Open) <= 3
      BY <1>0, <2>4, ThreeAreOpen
    <2>7. IsFiniteSet(Held') /\ Cardinality(Held') <= Cardinality(Open)
      BY <2>3, <2>5, FS_Subset
    <2>8. Cardinality(Held') \in Nat
      BY <2>7, FS_CardinalityType
    <2> QED BY <2>5, <2>6, <2>7, <2>8 DEF FewHeld
  <1>4. ASSUME NEW i \in 1 .. Current, Network(i) PROVE FewHeld'
    <2>1. Elapsed' = Elapsed
      BY <1>4 DEF Network, mqtt_tcp_connect_cb, ConnAck, Closed, Freed, Elapsed
    <2>2. PICK s \in States : Enter(i, s) /\ (Has(i, "closing") => s = "disconnected")
      <3>1. CASE mqtt_tcp_connect_cb(i) \/ ConnAck(i)
        BY <3>1 DEF mqtt_tcp_connect_cb, ConnAck, States, Has
      <3>2. CASE Closed(i)
        BY <3>2, ClosedStates DEF Closed, Open, States
      <3>3. CASE Freed(i)
        BY <3>3 DEF Freed, States
      <3> QED BY <1>4, <3>1, <3>2, <3>3 DEF Network
    <2>3. i \in Blocks
      BY <1>4 DEF Network, mqtt_tcp_connect_cb, ConnAck, Closed, Freed, Has, Open, Blocks
    <2> QED BY <2>1, <2>2, <2>3, EnterAddsNone
  <1>5. CASE Repaired \/ UNCHANGED vars
    <2>1. UNCHANGED clients /\ Elapsed' = Elapsed
      BY <1>5 DEF Repaired, vars, Elapsed
    <2> QED BY <1>1, <2>1
  <1> QED BY <1>2, <1>3, <1>4, <1>5 DEF Next

(* With a keep alive time of up to sixty seconds the watchdog clears the   *)
(* abandoned clients away as fast as the thread abandons them: as long as  *)
(* the FIN of each client that closes is answered within a tick, one of    *)
(* lwIP's five connection blocks is left for the rest of the device,       *)
(* however late the broker answers anything else.                          *)
THEOREM ABlockIsLeft ==
    ASSUME KEEPALIVE <= 6 PROVE Spec => []LeavesConnections
  <1>1. Init => Crowd /\ FewHeld
    <2> SUFFICES ASSUME Init PROVE Crowd /\ FewHeld
      OBVIOUS
    <2>1. Len(clients) = 0
      BY EmptySeq DEF Init
    <2>2. Crowd
      BY <2>1 DEF Crowd, LastConnecting, LeftAlone, NoThird, Abandoned
    <2>3. Held = {}
      BY <2>1 DEF Held, Blocks, Current
    <2> QED BY <2>2, <2>3, FS_EmptySet DEF FewHeld
  <1>2. MInv /\ ServedIsConnected /\ Crowd /\ [Next]_vars => Crowd'
    BY CrowdPreserved, KeepAliveAssumption
  <1>3. MInv /\ ServedIsConnected /\ Crowd /\ FewHeld /\ [Next]_vars => FewHeld'
    BY FewHeldPreserved
  <1>4. FewHeld => LeavesConnections
    <2> SUFFICES ASSUME FewHeld, \A i \in Blocks : ~(Has(i, "closing") /\ clients[i].idle > 0)
                 PROVE  Cardinality(Blocks) < MEMP_NUM_TCP_PCB
      BY DEF LeavesConnections
    <2>1. Held = Blocks
      BY DEF Held
    <2> QED BY <2>1 DEF FewHeld, MEMP_NUM_TCP_PCB
  <1> QED BY <1>1, <1>2, <1>3, <1>4, MInvHolds, PTL DEF Spec
=============================================================================
