----------------------------- MODULE SpwfDriver -----------------------------
(***************************************************************************)
(* The command engine of the SPWF01SA driver (wifi_module.c): the events   *)
(* queued for the timer handler, the commands it sends, and the answers    *)
(* and indications SysTick parses.  The WiFi module and the server behind  *)
(* it are external.  What the thread asks for is in WifiStation.           *)
(*                                                                         *)
(* The timer handler preempts SysTick, and both preempt the thread; a run  *)
(* of it is two steps, between which nothing else of the driver runs.  The *)
(* bytes of WifiUart are whole messages here, in the order they came.      *)
(***************************************************************************)
EXTENDS Naturals, Sequences, FiniteSets

CONSTANTS
  Sockets,    \* ids the module gives to sockets
  MaxClients, \* the 8 of no_of_open_client_sockets
  QueueMax,   \* events the event buffer holds
  Budget,     \* bound: how many faults happen
  Faults      \* "close": the server closes a connection while the program waits
              \* "race": or at any time
              \* "silent": it refuses a connection, or does not answer in time
              \* "late": an opening is given up before its answer comes
              \* "refused": the module refuses a setting, or finds no network
              \* "joinfail": the access point turns the module away
              \* "deauth", "disassoc": the access point drops it
              \* "readfail": a read fails and its data is gone, while no closing
              \*   is put off
              \* "readkeep": or at any time, with the data gone or still there

None == "none"

ASSUME DriverAssumption ==
  /\ None \notin Sockets /\ MaxClients \in Nat /\ QueueMax \in Nat /\ Budget \in Nat
  /\ Faults \subseteq {"close", "race", "silent", "late", "refused", "joinfail", "deauth",
                       "disassoc", "readfail", "readkeep"}

VARIABLES
  queue,      \* event_buff
  answered,   \* AT_Response_Received
  response,   \* AT_RESPONSE, and whose answer it is
  timing,     \* enable_timeout_timer
  stop,       \* stop_event_dequeue
  swallow,    \* prevent_push_OK_event
  closing,    \* client_socket_close_ongoing
  closeId,    \* remote_socket_closed_id
  tellClosed, \* enable_SockON_Server_Closed_Callback
  closedCb,   \* SockON_Server_Closed_Callback
  closeCmd,   \* client_socket_close_id while Client_Socket_Close_Cmd
  owed,       \* socket_close_pending
  query,      \* enable_query
  queryId,    \* sockon_query_id
  startRead,  \* start_sock_read
  reading,    \* "asked": enable_sock_read; "part": also sock_read_ongoing
  dataCb,     \* Pending_SockON_Callback
  dequeue,    \* enable_dequeue
  open,       \* open_sockets
  clients,    \* no_of_open_client_sockets
  openId,     \* Socket_Open_ID
  wind,       \* the indication whose callback is due
  tim,        \* control point of the timer handler
  cmds,       \* commands the module has not carried out
  uart,       \* messages of the module not yet parsed
  assoc,      \* the module is on the network: "no", "joining", "yes"
  alive,      \* sockets the module has
  shut,       \* those the server has closed
  unread,     \* those with data to be read
  budget      \* faults that may still happen

mailbox    == <<answered, response>>
closeVars  == <<closing, closeId, tellClosed, closedCb, closeCmd, owed>>
readVars   == <<query, queryId, startRead, reading, dataCb, dequeue>>
openVars   == <<open, clients, openId>>
moduleVars == <<cmds, uart, assoc, alive, shut, unread, budget>>
driverVars == <<queue, mailbox, timing, stop, swallow, closeVars,
                readVars, openVars, wind, tim, moduleVars>>

\* A command, an event or a message of the module, and who is behind it: the
\* thread's present command, one it gave up, the reading of a socket, the
\* closing of one, or the module itself.
Askers == {"thread", "late", "read", "close", "module"}
Item(kind, s, by) == [kind |-> kind, sock |-> s, by |-> by]

DriverInit ==
  /\ queue = <<>>
  /\ answered = FALSE /\ response = [ok |-> FALSE, by |-> "thread"]
  /\ timing = FALSE /\ stop = FALSE /\ swallow = FALSE
  /\ closing = FALSE /\ closeId = None /\ tellClosed = TRUE
  /\ closedCb = FALSE /\ closeCmd = None /\ owed = {}
  /\ query = FALSE /\ queryId = None /\ startRead = FALSE /\ reading = "no"
  /\ dataCb = FALSE /\ dequeue = TRUE
  /\ open = {} /\ clients = 0 /\ openId = None /\ wind = None /\ tim = "idle"
  /\ cmds = <<>> /\ uart = <<>> /\ assoc = "no" /\ alive = {} /\ shut = {}
  /\ unread = {} /\ budget = Budget

-----------------------------------------------------------------------------
(* Shared steps.                                                           *)

\* push_eventbuffer_queue: an event that does not fit is dropped.
Push(e) == queue' = IF Len(queue) < QueueMax THEN Append(queue, e) ELSE queue

Send(kind, s, by) == cmds' = Append(cmds, Item(kind, s, by))

Answer(ok, by) == answered' = TRUE /\ response' = [ok |-> ok, by |-> by]

\* Wait_For_Sock_Read_To_Complete waits for the end of this.
ReadUnderWay == reading = "part" \/ (swallow /\ ~closing)

QueueClose(s) == ~ReadUnderWay /\ Push(Item("CLOSE", s, "close"))

-----------------------------------------------------------------------------
(* The WiFi module and the server (external).                              *)

\* The module carries out its oldest command and says `says'.
Done(says) ==
  /\ cmds' = Tail(cmds) /\ uart' = uart \o says
  /\ UNCHANGED <<queue, mailbox, timing, stop, swallow, closeVars,
                 readVars, openVars, wind, tim>>

Spend(fault) == fault \in Faults /\ budget > 0 /\ budget' = budget - 1

ModuleOpens(c) ==
  /\ c.kind = "open"
  /\ \/ /\ assoc = "yes"
        /\ \E s \in Sockets \ alive :
             /\ alive' = alive \cup {s}
             /\ Done(<<Item("ID", s, c.by)>>)
        /\ UNCHANGED budget
     \/ /\ assoc = "yes" /\ Spend("silent")
        /\ Done(<<Item("ERROR", None, c.by)>>) /\ UNCHANGED alive
     \/ /\ assoc # "yes" \/ Sockets \subseteq alive
        /\ Done(<<Item("ERROR", None, c.by)>>) /\ UNCHANGED <<alive, budget>>
  /\ UNCHANGED <<assoc, shut, unread>>

\* Data written; the server answers a CONNECT.
ModuleWrites(c) ==
  /\ c.kind \in {"connect", "publish"}
  /\ IF c.sock \notin alive \ shut
     THEN Done(<<Item("ERROR", None, c.by)>>) /\ UNCHANGED <<unread, budget>>
     ELSE \/ /\ c.kind = "connect"
             /\ unread' = unread \cup {c.sock} /\ UNCHANGED budget
             /\ Done(<<Item("OK", None, c.by), Item("PENDING", c.sock, "module")>>)
          \/ /\ IF c.kind = "connect" THEN Spend("silent") ELSE UNCHANGED budget
             /\ Done(<<Item("OK", None, c.by)>>) /\ UNCHANGED unread
  /\ UNCHANGED <<assoc, alive, shut>>

ModuleCloses(c) ==
  /\ c.kind = "close"
  /\ \/ /\ c.sock \in unread
        /\ Done(<<Item("HASDATA", None, c.by)>>) /\ UNCHANGED <<alive, shut>>
     \/ /\ c.sock \in alive \ unread
        /\ alive' = alive \ {c.sock} /\ shut' = shut \ {c.sock}
        /\ Done(<<Item("OK", None, c.by)>>)
     \/ /\ c.sock \notin alive
        /\ Done(<<Item("ERROR", None, c.by)>>) /\ UNCHANGED <<alive, shut>>
  /\ UNCHANGED <<assoc, unread, budget>>

ModuleQueries(c) ==
  /\ c.kind = "query"
  /\ Done(<<IF c.sock \notin alive THEN Item("ERROR", None, c.by)
            ELSE IF c.sock \in unread THEN Item("LENGTH", None, c.by)
            ELSE Item("EMPTY", None, c.by)>>)
  /\ UNCHANGED <<assoc, alive, shut, unread, budget>>

\* The data between a header and OK; or "ERROR" in the place of all three.
ModuleReads(c) ==
  /\ c.kind = "read"
  /\ \/ /\ c.sock \in unread
        /\ Done(<<Item("PART", None, c.by), Item("DATA", None, c.by),
                  Item("OK", None, c.by)>>)
        /\ unread' = unread \ {c.sock} /\ UNCHANGED budget
     \/ /\ c.sock \notin unread
        /\ Done(<<Item("ERROR", None, c.by)>>) /\ UNCHANGED <<unread, budget>>
     \/ /\ c.sock \in unread /\ Done(<<Item("ERROR", None, c.by)>>)
        /\ \/ Spend("readfail") /\ owed = {} /\ unread' = unread \ {c.sock}
           \/ Spend("readkeep") /\ unread' \in {unread, unread \ {c.sock}}
  /\ UNCHANGED <<assoc, alive, shut>>

\* A setting is read or written, or the networks are listed.
ModuleConfigures(c) ==
  /\ c.kind \in {"config", "scan", "value"}
  /\ \/ /\ Done(<<Item(IF c.kind = "value" THEN "VALUE" ELSE "OK", None, c.by)>>)
        /\ UNCHANGED budget
     \/ Spend("refused") /\ Done(<<Item("ERROR", None, c.by)>>)
  /\ UNCHANGED <<assoc, alive, shut, unread>>

\* AT+CFUN: what was asked of the module is forgotten.
ModuleResets(c) ==
  /\ c.kind = "reset"
  /\ cmds' = <<>> /\ uart' = Append(uart, Item("ON", None, "module"))
  /\ assoc' = "joining" /\ alive' = {} /\ shut' = {} /\ unread' = {}
  /\ UNCHANGED <<queue, mailbox, timing, stop, swallow, closeVars,
                 readVars, openVars, wind, tim, budget>>

ModuleActs ==
  /\ cmds # <<>> /\ tim = "idle"
  /\ LET c == Head(cmds)
     IN  \/ ModuleOpens(c) \/ ModuleWrites(c) \/ ModuleCloses(c) \/ ModuleQueries(c)
         \/ ModuleReads(c) \/ ModuleConfigures(c) \/ ModuleResets(c)

\* Unasked: the module joins the network; the server closes a connection; the
\* access point drops the module.
Indicates(kind, s) ==
  /\ tim = "idle" /\ uart' = Append(uart, Item(kind, s, "module"))
  /\ UNCHANGED <<queue, mailbox, timing, stop, swallow, closeVars,
                 readVars, openVars, wind, tim, cmds>>

ModuleJoins ==
  /\ assoc = "joining"
  /\ \/ assoc' = "yes" /\ Indicates("UP", None) /\ UNCHANGED budget
     \/ assoc' = "no" /\ Indicates("JOINFAILED", None) /\ Spend("joinfail")
  /\ UNCHANGED <<alive, shut, unread>>

ServerCloses ==
  /\ (Spend("close") \/ Spend("race"))
  /\ \E s \in alive \ shut : shut' = shut \cup {s} /\ Indicates("CLOSED", s)
  /\ UNCHANGED <<assoc, alive, unread>>

StationDropped ==
  /\ assoc = "yes"
  /\ \/ Spend("deauth") /\ Indicates("DEAUTH", None)
     \/ Spend("disassoc") /\ Indicates("DISASSOC", None)
  /\ assoc' = "no" /\ shut' = alive
  /\ UNCHANGED <<alive, unread>>

-----------------------------------------------------------------------------
(* SysTick: Process_Buffer on the oldest message.                          *)

ParserVars == <<closeId, closeCmd, queryId, openId, wind, tim, cmds, assoc,
                alive, shut, unread, budget>>

\* What is only passed on to the program.
Indications == {"ON", "UP", "JOINFAILED", "DEAUTH", "DISASSOC"}

\* An answer or an indication for the timer handler.
ParseEvent(m) ==
  /\ \/ m.kind \in {"ID", "VALUE", "PENDING", "CLOSED"} \cup Indications
     \/ m.kind = "OK" /\ ~swallow
  /\ Push(m)
  /\ UNCHANGED <<timing, stop, swallow, closing, tellClosed, closedCb, owed, query,
                 startRead, reading, dataCb, dequeue, open, clients>>

ParseError(m) ==
  /\ m.kind = "ERROR" /\ reading = "no"
  /\ Push(m) /\ stop' = FALSE /\ timing' = FALSE
  /\ UNCHANGED <<swallow, closing, tellClosed, closedCb, owed, query, startRead,
                 reading, dataCb, dequeue, open, clients>>

\* The answer to a closing: the socket is closed for the driver too.
\* (Mutants: the socket stays open; the OK of a read is kept from the queue, and
\* all that follow.)
ParseSwallowedKeep(m) ==
  /\ m.kind = "OK" /\ swallow
  /\ IF closing
     THEN /\ closing' = FALSE /\ stop' = FALSE
          /\ clients' = IF clients > 0 THEN clients - 1 ELSE 0
          /\ tellClosed' = TRUE /\ closedCb' = (closedCb \/ tellClosed)
     ELSE UNCHANGED <<closing, stop, clients, tellClosed, closedCb>>
  /\ swallow' = FALSE
  /\ UNCHANGED <<queue, timing, owed, query, startRead, reading, dataCb, dequeue, open>>

ParseSwallowedOn(m) ==
  /\ m.kind = "OK" /\ swallow
  /\ IF closing
     THEN /\ closing' = FALSE /\ stop' = FALSE /\ swallow' = FALSE
          /\ clients' = IF clients > 0 THEN clients - 1 ELSE 0
          /\ open' = open \ {closeId}
          /\ tellClosed' = TRUE /\ closedCb' = (closedCb \/ tellClosed)
     ELSE UNCHANGED <<closing, stop, swallow, clients, open, tellClosed, closedCb>>
  /\ UNCHANGED <<queue, timing, owed, query, startRead, reading, dataCb, dequeue>>

ParseSwallowed(m) ==
  /\ m.kind = "OK" /\ swallow
  /\ IF closing
     THEN /\ closing' = FALSE /\ stop' = FALSE
          /\ clients' = IF clients > 0 THEN clients - 1 ELSE 0
          /\ open' = open \ {closeId}
          /\ tellClosed' = TRUE /\ closedCb' = (closedCb \/ tellClosed)
     ELSE UNCHANGED <<closing, stop, clients, open, tellClosed, closedCb>>
  /\ swallow' = FALSE
  /\ UNCHANGED <<queue, timing, owed, query, startRead, reading, dataCb, dequeue>>

\* The socket has data and cannot be closed yet.
ParseHasData(m) ==
  /\ m.kind = "HASDATA" /\ reading = "no"
  /\ swallow' = FALSE /\ closing' = FALSE /\ tellClosed' = TRUE
  /\ owed' = owed \cup {closeId} /\ stop' = FALSE
  /\ UNCHANGED <<queue, timing, closedCb, query, startRead, reading, dataCb, dequeue,
                 open, clients>>

ParseLength(m) ==
  /\ m.kind = "LENGTH" /\ startRead' = TRUE
  /\ UNCHANGED <<queue, timing, stop, swallow, closing, tellClosed, closedCb, owed,
                 query, reading, dataCb, dequeue, open, clients>>

\* All is read: the socket is closed if that was put off.
ParseEmpty(m) ==
  /\ m.kind = "EMPTY"
  /\ IF queryId \in owed \cap open THEN QueueClose(queryId) ELSE UNCHANGED queue
  /\ owed' = owed \ {queryId} /\ stop' = FALSE
  /\ UNCHANGED <<timing, swallow, closing, tellClosed, closedCb, query, startRead,
                 reading, dataCb, dequeue, open, clients>>

\* (Mutant: the OK of the read is not kept from the queue.)
ParseDataTells(m) ==
  /\ \/ /\ m.kind = "PART" /\ reading = "asked"
        /\ reading' = "part"
        /\ UNCHANGED <<query, dataCb, dequeue>>
     \/ /\ m.kind = "DATA" /\ reading # "no"
        /\ reading' = "no" /\ query' = TRUE
        /\ dequeue' = FALSE /\ dataCb' = TRUE
  /\ UNCHANGED <<queue, timing, stop, swallow, closing, tellClosed, closedCb, owed,
                 startRead, open, clients>>

ParseData(m) ==
  /\ \/ /\ m.kind = "PART" /\ reading = "asked"
        /\ reading' = "part"
        /\ UNCHANGED <<query, swallow, dataCb, dequeue>>
     \/ /\ m.kind = "DATA" /\ reading # "no"
        /\ reading' = "no" /\ query' = TRUE /\ swallow' = TRUE
        /\ dequeue' = FALSE /\ dataCb' = TRUE
  /\ UNCHANGED <<queue, timing, stop, closing, tellClosed, closedCb, owed, startRead,
                 open, clients>>

\* A failure in the place of the data: no event is pushed, and unlike after the
\* data nothing is asked for next.  "Too many sockets" goes to the thread, and
\* the read goes on.
\* (Mutants: events are still held back; the read does not end.)
ParseReadErrorHeld(m) ==
  /\ m.kind \in {"ERROR", "HASDATA"} /\ reading # "no"
  /\ \/ /\ m.kind = "ERROR" /\ m.by \in {"thread", "late"}
        /\ Answer(FALSE, m.by) /\ reading' = "part" /\ UNCHANGED <<stop, owed>>
     \/ /\ reading' = "no"
        /\ owed' = IF m.kind = "HASDATA" THEN owed \cup {closeId} ELSE owed
        /\ UNCHANGED <<mailbox, stop>>
  /\ UNCHANGED <<queue, timing, swallow, closing, tellClosed, closedCb, query, startRead,
                 dataCb, dequeue, open, clients>>

ParseReadErrorOn(m) ==
  /\ m.kind \in {"ERROR", "HASDATA"} /\ reading # "no"
  /\ \/ /\ m.kind = "ERROR" /\ m.by \in {"thread", "late"}
        /\ Answer(FALSE, m.by) /\ reading' = "part" /\ UNCHANGED <<stop, owed>>
     \/ /\ stop' = FALSE
        /\ owed' = IF m.kind = "HASDATA" THEN owed \cup {closeId} ELSE owed
        /\ UNCHANGED <<mailbox, reading>>
  /\ UNCHANGED <<queue, timing, swallow, closing, tellClosed, closedCb, query, startRead,
                 dataCb, dequeue, open, clients>>

ParseReadError(m) ==
  /\ m.kind \in {"ERROR", "HASDATA"} /\ reading # "no"
  /\ \/ /\ m.kind = "ERROR" /\ m.by \in {"thread", "late"}
        /\ Answer(FALSE, m.by) /\ reading' = "part" /\ UNCHANGED <<stop, owed>>
     \/ /\ reading' = "no" /\ stop' = FALSE
        /\ owed' = IF m.kind = "HASDATA" THEN owed \cup {closeId} ELSE owed
        /\ UNCHANGED mailbox
  /\ UNCHANGED <<queue, timing, swallow, closing, tellClosed, closedCb, query, startRead,
                 dataCb, dequeue, open, clients>>

Parse ==
  /\ tim = "idle" /\ dequeue /\ uart # <<>>
  /\ LET m == Head(uart)
     IN  \/ /\ \/ ParseEvent(m) \/ ParseError(m) \/ ParseSwallowed(m) \/ ParseHasData(m)
              \/ ParseLength(m) \/ ParseEmpty(m) \/ ParseData(m)
           /\ UNCHANGED mailbox
        \/ ParseReadError(m)
  /\ uart' = Tail(uart)
  /\ UNCHANGED ParserVars

\* Wifi_SysTick_Isr: twenty seconds without an answer.  What comes now is late.
GivenUp(q) == [i \in DOMAIN q |->
  IF q[i].by = "thread" THEN [q[i] EXCEPT !.by = "late"] ELSE q[i]]

\* Bound: it does not happen while a socket is read.
NotReading ==
  /\ ~startRead /\ reading = "no"
  /\ \A i \in DOMAIN cmds : cmds[i].by # "read"
  /\ \A i \in DOMAIN uart : uart[i].by # "read"

Timeout ==
  /\ tim = "idle" /\ timing /\ NotReading /\ Spend("late")
  /\ timing' = FALSE /\ stop' = FALSE
  /\ Answer(FALSE, "thread")
  /\ cmds' = GivenUp(cmds) /\ uart' = GivenUp(uart) /\ queue' = GivenUp(queue)
  /\ UNCHANGED <<swallow, closeVars, readVars, openVars, wind, tim, assoc, alive, shut,
                 unread>>

SysTick == Parse \/ Timeout

-----------------------------------------------------------------------------
(* The timer handler: first the oldest event, unless `stop' holds it back. *)

\* +WIND:55, data on a socket: it is read before any other event is handled,
\* and a read that was asked for and has not begun is given up.
PopPending(e) ==
  /\ e.kind = "PENDING" /\ queryId' = e.sock
  /\ reading' = IF reading = "asked" THEN "no" ELSE reading
  /\ IF e.sock \in open THEN query' = TRUE /\ stop' = TRUE ELSE UNCHANGED <<query, stop>>
  /\ UNCHANGED <<mailbox, timing, swallow, closing, closeId, closeCmd, openVars, cmds>>

PopClosed(e) ==
  /\ e.kind = "CLOSED" /\ closeCmd' = e.sock
  /\ UNCHANGED <<mailbox, timing, stop, swallow, closing, closeId, query, queryId, reading,
                 openVars, cmds>>

PopId(e) ==
  /\ e.kind = "ID" /\ timing' = FALSE /\ clients' = clients + 1
  /\ IF clients + 1 > MaxClients
     THEN Answer(FALSE, e.by) /\ UNCHANGED <<open, openId>>
     ELSE Answer(TRUE, e.by) /\ open' = open \cup {e.sock} /\ openId' = e.sock
  /\ UNCHANGED <<stop, swallow, closing, closeId, closeCmd, query, queryId, reading, cmds>>

PopAnswer(e) ==
  /\ e.kind \in {"OK", "VALUE", "ERROR"} /\ Answer(e.kind # "ERROR", e.by)
  /\ UNCHANGED <<timing, stop, swallow, closing, closeId, closeCmd, query, queryId, reading,
                 openVars, cmds>>

PopCommand(e) ==
  /\ e.kind \in {"OPEN", "CONNECT", "PUBLISH"}
  /\ Send(CASE e.kind = "OPEN" -> "open" [] e.kind = "CONNECT" -> "connect"
            [] e.kind = "PUBLISH" -> "publish", e.sock, e.by)
  /\ timing' = (timing \/ e.kind = "OPEN")
  /\ UNCHANGED <<mailbox, stop, swallow, closing, closeId, closeCmd, query, queryId, reading,
                 openVars>>

PopClose(e) ==
  /\ e.kind = "CLOSE"
  /\ IF e.sock \in open
     THEN /\ Send("close", e.sock, "close")
          /\ response' = [response EXCEPT !.ok = TRUE]
          /\ stop' = TRUE /\ closeId' = e.sock /\ closing' = TRUE /\ swallow' = TRUE
     ELSE UNCHANGED <<cmds, response, stop, closeId, closing, swallow>>
  /\ UNCHANGED <<answered, timing, closeCmd, query, queryId, reading, openVars>>

PopIndication(e) ==
  /\ e.kind \in Indications
  /\ UNCHANGED <<mailbox, timing, stop, swallow, closing, closeId, closeCmd, query,
                 queryId, reading, openVars, cmds>>

CanPop == ~stop /\ queue # <<>>

Pop ==
  /\ tim = "idle" /\ CanPop
  /\ queue' = Tail(queue) /\ tim' = "chain"
  /\ LET e == Head(queue)
     IN  /\ \/ PopPending(e) \/ PopClosed(e) \/ PopId(e) \/ PopAnswer(e) \/ PopCommand(e)
            \/ PopClose(e) \/ PopIndication(e)
         /\ wind' = IF e.kind \in Indications THEN e.kind ELSE None
  /\ UNCHANGED <<tellClosed, closedCb, owed, startRead, dataCb, dequeue,
                 uart, assoc, alive, shut, unread, budget>>

\* Then one of the things that are due, by their order in the source.
QueryDue  == ~startRead /\ query /\ dequeue
DataDue   == ~startRead /\ ~QueryDue /\ dataCb
CloseDue  == ~startRead /\ ~QueryDue /\ ~dataCb /\ closeCmd # None
ClosedDue == ~startRead /\ ~QueryDue /\ ~dataCb /\ closeCmd = None /\ closedCb
Idle      == ~(startRead \/ QueryDue \/ DataDue \/ CloseDue \/ ClosedDue)

ChainRead ==
  /\ startRead /\ startRead' = FALSE
  /\ Send("read", queryId, "read") /\ stop' = TRUE /\ reading' = "asked"
  /\ UNCHANGED <<queue, query, dataCb, dequeue, closeCmd, closedCb>>

ChainQuery ==
  /\ QueryDue /\ query' = FALSE
  /\ IF queryId \in open
     THEN Send("query", queryId, "read") /\ stop' = TRUE
     ELSE UNCHANGED <<cmds, stop>>
  /\ UNCHANGED <<queue, startRead, reading, dataCb, dequeue, closeCmd, closedCb>>

\* ind_wifi_socket_data_received takes the data.
ChainData ==
  /\ DataDue /\ dataCb' = FALSE /\ dequeue' = TRUE
  /\ UNCHANGED <<queue, stop, cmds, startRead, query, reading, closeCmd, closedCb>>

\* The call would not return while a read is under way.
ChainClose ==
  /\ CloseDue /\ closeCmd' = None
  /\ IF closeCmd \in open THEN QueueClose(closeCmd) ELSE UNCHANGED queue
  /\ UNCHANGED <<stop, cmds, startRead, query, reading, dataCb, dequeue, closedCb>>

\* ind_wifi_socket_client_remote_server_closed tells the program.
ChainClosed ==
  /\ ClosedDue /\ closedCb' = FALSE
  /\ UNCHANGED <<queue, stop, cmds, startRead, query, reading, dataCb, dequeue, closeCmd>>

ChainNothing ==
  /\ tim = "chain" /\ Idle
  /\ UNCHANGED <<queue, stop, cmds, startRead, query, reading, dataCb, dequeue,
                 closeCmd, closedCb>>

Chain ==
  /\ tim = "chain" \/ ~CanPop
  /\ ChainRead \/ ChainQuery \/ ChainData \/ ChainClose \/ ChainClosed \/ ChainNothing
  /\ tim' = "idle" /\ wind' = None
  /\ UNCHANGED <<mailbox, timing, swallow, closing, closeId, tellClosed, owed,
                 queryId, openVars, uart, assoc, alive, shut, unread, budget>>
=============================================================================
