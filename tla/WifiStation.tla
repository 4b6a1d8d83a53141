---------------------------- MODULE WifiStation ----------------------------
(***************************************************************************)
(* The WiFi side of the program: WiFi_Process, the MQTT client and its     *)
(* port, in the thread, over the driver of SpwfDriver, whose timer handler *)
(* calls the program back.  A state of the program is written by both.     *)
(* The program starts here when wifi_init is over and the module is on.    *)
(***************************************************************************)
EXTENDS SpwfDriver

VARIABLES
  wifi_state,
  pc,             \* what the thread waits for, or "loop"
  sock,           \* n.my_socket
  isconnected,    \* of the MQTT client
  inbox,          \* the answer to a CONNECT is in localBufferReading
  wifi_connected,
  wifi_present,
  ongoing,        \* AT_Cmd_Ongoing
  started,        \* WiFiHWStarted, since the reset
  start_bnrg

stationVars == <<wifi_state, pc, sock, isconnected, inbox, wifi_connected,
                 wifi_present, ongoing, started, start_bnrg>>
vars == <<driverVars, stationVars>>

WifiStates == {"ready", "idle", "disconnected", "reconnect", "mqtt_socket_create",
               "mqtt_connect", "mqtt_pub"}
Waits == {"scan", "config", "reset", "open", "connect", "connack", "close",
          "closed", "channel", "value", "publish", "delay"}

Init ==
  /\ DriverInit
  /\ wifi_state = "ready" /\ pc = "loop" /\ sock = None
  /\ isconnected = FALSE /\ inbox = FALSE /\ wifi_connected = FALSE
  /\ wifi_present = TRUE /\ ongoing = FALSE /\ started = FALSE /\ start_bnrg = FALSE

-----------------------------------------------------------------------------
(* The calls of the thread.  Those that queue an event wait for a read to  *)
(* end first; the others send their command themselves.                    *)

\* What no call of the thread writes.
DriverKept == <<timing, stop, swallow, closing, closeId, closedCb, closeCmd, owed,
                readVars, openVars, wind, tim, uart, assoc, alive, shut, unread>>

Asks(kind, s) ==
  /\ ~ReadUnderWay /\ Push(Item(kind, s, "thread"))
  /\ UNCHANGED <<DriverKept, mailbox, tellClosed, cmds, budget>>

Commands(kind) ==
  /\ Send(kind, None, "thread")
  /\ UNCHANGED <<DriverKept, mailbox, tellClosed, queue, budget>>

\* (Mutant: the answer may be taken again.)
AnsweredStill ==
  /\ answered /\ UNCHANGED answered
  /\ UNCHANGED <<DriverKept, response, tellClosed, queue, budget>>

\* USART_Receive_AT_Resp; the response is for the caller.
Answered ==
  /\ answered /\ answered' = FALSE
  /\ UNCHANGED <<DriverKept, response, tellClosed, queue, budget>>

NoCall == UNCHANGED <<DriverKept, mailbox, tellClosed, queue, cmds, budget>>

Turn(state) ==
  tim = "idle" /\ pc = "loop" /\ wifi_present /\ wifi_state = state

WaitsFor(what) == tim = "idle" /\ pc = what

\* HAL_Delay, of half a second and more: longer than an exchange with the
\* module, unless its answer is late.
Quiet ==
  /\ Idle
  /\ \A q \in {cmds, uart, queue} : \A i \in DOMAIN q : q[i].by = "late"

Delay ==
  /\ Quiet /\ NoCall
  /\ \/ WaitsFor("delay") /\ pc' = "loop"
     \/ WaitsFor("closed") /\ pc' = "channel"
  /\ UNCHANGED <<wifi_state, sock, isconnected, inbox, wifi_connected, wifi_present,
                 ongoing, started, start_bnrg>>

-----------------------------------------------------------------------------
(* Joining the network: wifi_connect, from the first scan and each time    *)
(* the network was lost.  Its settings are one command here.               *)

Scan ==
  /\ Turn("ready") /\ Commands("scan") /\ pc' = "scan"
  /\ UNCHANGED <<wifi_state, sock, isconnected, inbox, wifi_connected, wifi_present,
                 ongoing, started, start_bnrg>>

\* Whether or not the network was in the list, the module is told to join it.
Scanned ==
  /\ WaitsFor("scan") /\ Answered
  /\ IF response.ok
     THEN /\ Send("config", None, "thread") /\ pc' = "config" /\ ongoing' = TRUE
          /\ UNCHANGED wifi_state
     ELSE /\ wifi_state' = "idle" /\ pc' = "loop" /\ UNCHANGED <<cmds, ongoing>>
  /\ UNCHANGED <<sock, isconnected, inbox, wifi_connected, wifi_present, started,
                 start_bnrg>>

Disconnected ==
  /\ Turn("disconnected") /\ NoCall /\ wifi_state' = "reconnect"
  /\ UNCHANGED <<pc, sock, isconnected, inbox, wifi_connected, wifi_present, ongoing,
                 started, start_bnrg>>

\* While an earlier wifi_connect is recorded as going on, because it failed
\* half-way, the call fails at once and changes nothing any more.
Reconnect ==
  /\ Turn("reconnect") /\ Quiet /\ ~ongoing
  /\ Commands("config") /\ pc' = "config" /\ ongoing' = TRUE
  /\ UNCHANGED <<wifi_state, sock, isconnected, inbox, wifi_connected, wifi_present,
                 started, start_bnrg>>

\* Back from wifi_connect, which was called from ready or from reconnect.
ConnectFailed ==
  /\ pc' = "loop"
  /\ IF wifi_state = "reconnect"
     THEN start_bnrg' = TRUE /\ UNCHANGED <<wifi_state, wifi_present>>
     ELSE wifi_state' = "idle" /\ wifi_present' = FALSE /\ UNCHANGED start_bnrg

Configured ==
  /\ WaitsFor("config") /\ Answered
  /\ IF response.ok
     THEN /\ Send("reset", None, "thread") /\ started' = FALSE /\ pc' = "reset"
          /\ UNCHANGED <<wifi_state, wifi_present, start_bnrg>>
     ELSE ConnectFailed /\ UNCHANGED <<cmds, started>>
  /\ UNCHANGED <<sock, isconnected, inbox, wifi_connected, ongoing>>

IsReset ==
  /\ WaitsFor("reset") /\ started /\ NoCall
  /\ ongoing' = FALSE /\ wifi_state' = "idle" /\ pc' = "loop"
  /\ UNCHANGED <<sock, isconnected, inbox, wifi_connected, wifi_present, started,
                 start_bnrg>>

WithoutWifi ==
  /\ tim = "idle" /\ pc = "loop" /\ ~wifi_present /\ ~start_bnrg /\ NoCall
  /\ start_bnrg' = TRUE
  /\ UNCHANGED <<wifi_state, pc, sock, isconnected, inbox, wifi_connected,
                 wifi_present, ongoing, started>>

-----------------------------------------------------------------------------
(* The connection to the broker.                                           *)

\* spwf_socket_create.
MqttSocketCreate ==
  /\ Turn("mqtt_socket_create") /\ Asks("OPEN", None) /\ pc' = "open"
  /\ UNCHANGED <<wifi_state, sock, isconnected, inbox, wifi_connected, wifi_present,
                 ongoing, started, start_bnrg>>

\* (Mutant: the client is not set up anew.)
SocketCreatedOld ==
  /\ WaitsFor("open") /\ Answered /\ sock' = openId
  /\ IF response.ok
     THEN wifi_state' = "mqtt_connect" /\ pc' = "loop" /\ inbox' = FALSE
     ELSE wifi_state' = "mqtt_socket_create" /\ pc' = "delay" /\ UNCHANGED inbox
  /\ UNCHANGED <<cmds, isconnected, wifi_connected, wifi_present, ongoing, started,
                 start_bnrg>>

SocketCreated ==
  /\ WaitsFor("open") /\ Answered /\ sock' = openId
  /\ IF response.ok
     THEN /\ inbox' = FALSE /\ isconnected' = FALSE
          /\ wifi_state' = "mqtt_connect" /\ pc' = "loop"
     ELSE /\ wifi_state' = "mqtt_socket_create" /\ pc' = "delay"
          /\ UNCHANGED <<inbox, isconnected>>
  /\ UNCHANGED <<cmds, wifi_connected, wifi_present, ongoing, started, start_bnrg>>

\* After a failed MQTTConnect, spwf_socket_close; both outcomes go on to read
\* the channel.
Closing ==
  /\ tellClosed' = FALSE
  /\ IF sock \in open
     THEN pc' = "close" /\ UNCHANGED wifi_state
     ELSE pc' = "closed" /\ wifi_state' = "mqtt_socket_create"

MqttConnectCall ==
  /\ Turn("mqtt_connect") /\ ~isconnected /\ sock \in open
  /\ Asks("CONNECT", sock) /\ pc' = "connect"
  /\ UNCHANGED <<wifi_state, sock, isconnected, inbox, wifi_connected, wifi_present,
                 ongoing, started, start_bnrg>>

\* It fails at once when the client believes it is connected, or the socket
\* is closed.
MqttConnectRefused ==
  /\ Turn("mqtt_connect") /\ (isconnected \/ sock \notin open)
  /\ Closing
  /\ UNCHANGED <<DriverKept, mailbox, queue, cmds, budget, sock, isconnected, inbox,
                 wifi_connected, wifi_present, ongoing, started, start_bnrg>>

ConnectSent ==
  /\ WaitsFor("connect") /\ answered /\ answered' = FALSE
  /\ IF response.ok THEN pc' = "connack" /\ UNCHANGED <<wifi_state, tellClosed>>
     ELSE Closing
  /\ UNCHANGED <<DriverKept, response, queue, cmds, budget, sock, isconnected, inbox,
                 wifi_connected, wifi_present, ongoing, started, start_bnrg>>

\* (Mutant: to the state of a registered device.)
ConnackSub ==
  /\ WaitsFor("connack") /\ inbox /\ NoCall
  /\ inbox' = FALSE /\ isconnected' = TRUE /\ wifi_state' = "mqtt_sub" /\ pc' = "channel"
  /\ UNCHANGED <<sock, wifi_connected, wifi_present, ongoing, started, start_bnrg>>

Connack ==
  /\ WaitsFor("connack") /\ inbox /\ NoCall
  /\ inbox' = FALSE /\ isconnected' = TRUE /\ wifi_state' = "mqtt_pub" /\ pc' = "channel"
  /\ UNCHANGED <<sock, wifi_connected, wifi_present, ongoing, started, start_bnrg>>

\* Four seconds: the broker does not answer, or its answer is late (a fault).
AnswerComing == (sock \in unread /\ ~Quiet) \/ dataCb \/ \E i \in DOMAIN uart : uart[i].kind = "DATA"

ConnackTimeout ==
  /\ WaitsFor("connack") /\ ~inbox
  /\ IF AnswerComing THEN Spend("silent") ELSE UNCHANGED budget
  /\ Closing
  /\ UNCHANGED <<DriverKept, mailbox, queue, cmds, sock, isconnected, inbox,
                 wifi_connected, wifi_present, ongoing, started, start_bnrg>>

SocketClosed ==
  /\ WaitsFor("close") /\ QueueClose(sock)
  /\ wifi_state' = "mqtt_socket_create" /\ pc' = "closed"
  /\ UNCHANGED <<DriverKept, mailbox, tellClosed, cmds, budget, sock, isconnected,
                 inbox, wifi_connected, wifi_present, ongoing, started, start_bnrg>>

\* wifi_channelnum is not initialised: it may pass for a channel; if not, it is
\* asked for until it is known.
ChannelKnown ==
  /\ WaitsFor("channel") /\ NoCall /\ pc' = "loop" /\ start_bnrg' = TRUE
  /\ UNCHANGED <<wifi_state, sock, isconnected, inbox, wifi_connected, wifi_present,
                 ongoing, started>>

ChannelAsked ==
  /\ WaitsFor("channel") /\ Quiet /\ Commands("value") /\ pc' = "value"
  /\ UNCHANGED <<wifi_state, sock, isconnected, inbox, wifi_connected, wifi_present,
                 ongoing, started, start_bnrg>>

ChannelRead ==
  /\ WaitsFor("value") /\ Answered
  /\ IF response.ok
     THEN pc' = "delay" /\ start_bnrg' = TRUE /\ UNCHANGED cmds
     ELSE Send("value", None, "thread") /\ UNCHANGED <<pc, start_bnrg>>
  /\ UNCHANGED <<wifi_state, sock, isconnected, inbox, wifi_connected, wifi_present,
                 ongoing, started>>

\* New data of a node is published; what was published is not modelled.
MqttPublish ==
  /\ Turn("mqtt_pub")
  /\ IF isconnected /\ sock \in open
     THEN Asks("PUBLISH", sock) /\ pc' = "publish" /\ UNCHANGED wifi_state
     ELSE NoCall /\ wifi_state' = "mqtt_connect" /\ UNCHANGED pc
  /\ UNCHANGED <<sock, isconnected, inbox, wifi_connected, wifi_present, ongoing,
                 started, start_bnrg>>

NoNewData ==
  /\ Turn("mqtt_pub") /\ NoCall /\ pc' = "delay"
  /\ UNCHANGED <<wifi_state, sock, isconnected, inbox, wifi_connected, wifi_present,
                 ongoing, started, start_bnrg>>

\* A state the timer handler wrote meanwhile stays only if the data was sent.
Published ==
  /\ WaitsFor("publish") /\ Answered
  /\ IF response.ok THEN pc' = "delay" /\ UNCHANGED wifi_state
     ELSE pc' = "loop" /\ wifi_state' = "mqtt_connect"
  /\ UNCHANGED <<cmds, sock, isconnected, inbox, wifi_connected, wifi_present, ongoing,
                 started, start_bnrg>>

Thread ==
  \/ Scan \/ Scanned \/ Disconnected \/ Reconnect \/ Configured
  \/ IsReset \/ WithoutWifi \/ MqttSocketCreate \/ SocketCreated \/ MqttConnectCall
  \/ MqttConnectRefused \/ ConnectSent \/ Connack \/ ConnackTimeout \/ SocketClosed
  \/ ChannelKnown \/ ChannelAsked \/ ChannelRead \/ MqttPublish \/ Published
  \/ NoNewData \/ Delay

-----------------------------------------------------------------------------
(* The timer handler, with the calls back: a closed socket first, then an  *)
(* indication of the module.                                               *)

TimerPop == Pop /\ UNCHANGED stationVars

AfterClosed ==
  IF ClosedDue /\ wifi_state # "reconnect" THEN "mqtt_socket_create" ELSE wifi_state

TimerChain ==
  /\ Chain
  /\ inbox' = (inbox \/ DataDue)
  /\ started' = (started \/ wind = "ON")
  /\ wifi_connected' = IF wind = "UP" THEN TRUE
                       ELSE wifi_connected /\ wind # "DISASSOC"
  /\ wifi_state' = CASE wind = "UP" /\ ~wifi_connected -> "mqtt_socket_create"
                     [] wind \in {"DEAUTH", "DISASSOC", "JOINFAILED"} -> "disconnected"
                     [] OTHER -> AfterClosed
  /\ UNCHANGED <<pc, sock, isconnected, wifi_present, ongoing, start_bnrg>>

Driver == (SysTick \/ ModuleActs) /\ UNCHANGED stationVars

\* Joining takes seconds: the thread is back from wifi_connect by then.
World ==
  /\ \/ pc # "reset" /\ ModuleJoins
     \/ ((pc = "delay" /\ Quiet) \/ "race" \in Faults) /\ ServerCloses
     \/ StationDropped
  /\ UNCHANGED stationVars

Next == Thread \/ TimerPop \/ TimerChain \/ Driver \/ World

Spec == Init /\ [][Next]_vars

\* Interrupts keep coming, and the module and the thread go on: it answers
\* each command and joins the network it was given.  No fault has to happen.
Fairness ==
  /\ WF_vars(Thread) /\ WF_vars(TimerPop \/ TimerChain) /\ WF_vars(Driver)
  /\ WF_vars(World /\ assoc = "joining" /\ assoc' # "joining")

FairSpec == Spec /\ Fairness

-----------------------------------------------------------------------------
(* Properties.                                                             *)

Kinds == Indications \cup
  {"ID", "VALUE", "PENDING", "CLOSED", "OK", "ERROR", "HASDATA", "LENGTH", "EMPTY",
   "PART", "DATA", "OPEN", "CONNECT", "PUBLISH", "CLOSE", "scan", "config", "reset",
   "value", "open", "connect", "publish", "close", "query", "read"}

Items == [kind : Kinds, sock : Sockets \cup {None}, by : Askers]

DriverTypeOK ==
  /\ queue \in Seq(Items) /\ Len(queue) <= QueueMax
  /\ answered \in BOOLEAN /\ response \in [ok : BOOLEAN, by : Askers]
  /\ {timing, stop, swallow, closing, tellClosed, closedCb} \subseteq BOOLEAN
  /\ {query, startRead, dataCb, dequeue} \subseteq BOOLEAN
  /\ {closeId, closeCmd, queryId, openId} \subseteq Sockets \cup {None}
  /\ owed \subseteq Sockets \cup {None} /\ open \subseteq Sockets /\ clients \in Nat
  /\ reading \in {"no", "asked", "part"} /\ tim \in {"idle", "chain"}
  /\ wind \in Indications \cup {None}

ModuleTypeOK ==
  /\ cmds \in Seq(Items) /\ uart \in Seq(Items)
  /\ assoc \in {"no", "joining", "yes"}
  /\ shut \subseteq alive /\ alive \subseteq Sockets /\ unread \subseteq Sockets
  /\ budget \in 0..Budget

TypeOK ==
  /\ DriverTypeOK /\ ModuleTypeOK
  /\ wifi_state \in WifiStates /\ pc \in Waits \cup {"loop"}
  /\ sock \in Sockets \cup {None}
  /\ {isconnected, inbox, wifi_connected, wifi_present, ongoing, started,
      start_bnrg} \subseteq BOOLEAN

\* Process_Buffer: "There can be only ONE outstanding AT command and hence this
\* ERROR belongs to that".  The answer the thread takes is the answer to what
\* it asked, though the driver reads and closes sockets meanwhile with commands
\* of its own.
AnswerBelongs ==
  answered => response.by = "thread"
              /\ pc \in {"scan", "config", "open", "connect", "value", "publish"}

\* A call of the thread has one command, event or answer somewhere between the
\* two, until the thread takes the answer: none is lost, or kept from the
\* thread with those the driver does not tell it of, and none comes twice.
Count(q) == Cardinality({i \in DOMAIN q : q[i].by = "thread" /\ q[i].kind # "reset"})

OneCallUnderWay ==
  Count(queue) + Count(cmds) + Count(uart) + (IF answered THEN 1 ELSE 0)
    = IF pc \in {"scan", "config", "open", "connect", "value", "publish"} THEN 1 ELSE 0

\* When nothing is under way, the driver, its count of clients and the module
\* agree on the sockets there are, and the program has not lost one: of eight,
\* none is ever given back otherwise.
SocketsAgree ==
  tim = "idle" /\ Quiet /\ pc = "delay" =>
    /\ open = alive /\ clients = Cardinality(open)
    /\ open \subseteq {sock}

\* Wifi_TIM_Handler: "Be careful not to make a blocking call from this
\* function".  Queue_Client_Close_Event waits for a read to end, which only
\* interrupts below it can bring about: when the handler gets there, or SysTick
\* in the place of the answer to a query, none is under way.
HandlerNeverBlocks ==
  ReadUnderWay =>
    /\ ~(CloseDue /\ (tim = "chain" \/ ~CanPop) /\ closeCmd \in open)
    /\ uart # <<>> => Head(uart).kind # "EMPTY"

\* Events are held back only while something is there that lets them go: a
\* command of the driver not yet answered, or a step of it that is due.
By(q, who) == \E i \in DOMAIN q : q[i].by \in who

HeldForAnAnswer ==
  stop => By(cmds, {"read", "close"}) \/ By(uart, {"read", "close"})
          \/ startRead \/ query \/ dataCb

\* What the module sends is parsed as data when it is the data of a socket, and
\* only then: no read begins too late, and none takes a failure for the end of
\* its data but the one that failed.
DataParsedAsData ==
  dequeue /\ uart # <<>> =>
    /\ Head(uart).kind = "PART" => reading = "asked"
    /\ Head(uart).kind = "DATA" <=> reading = "part"
    /\ Head(uart).kind \in {"ERROR", "HASDATA"} =>
         (reading # "no" <=> Head(uart).by = "read")

\* Whatever the broker does, in the end the program publishes over a
\* connection that both sides have open.
Serves ==
  wifi_state = "mqtt_pub" /\ isconnected /\ sock \in open \cap (alive \ shut)

ServesInTheEnd == <>[]Serves

\* "The BlueNRG waits for the WiFi to start succesfully, otherwise BlueNRG
\* starts anyway" (main).
BlueNRGStarts == <>start_bnrg
=============================================================================
