------------------------------ MODULE BleMaster ------------------------------
(***************************************************************************)
(* The central node: the master service (ble_master_service.c) with the    *)
(* slave service it calls, driven by the main loop.  One thread runs, over *)
(* and over, HCI_Process (at = 0: the waiting events, one action each),    *)
(* Connection_Process (blocks 1 to 10) and Reading_Process (blocks 11 to   *)
(* 15).  The blocks are the tests of perDevs.status in source order; one   *)
(* pass runs every block whose test holds when it is reached, so several   *)
(* blocks may run in a pass, but none after a later one.                   *)
(***************************************************************************)
EXTENDS BleSlave

-----------------------------------------------------------------------------
(* Set_New_Status and GATT_Procedure_Complete_CB.                          *)

\* Mutant: a switch without the case of the HAR notifications.
AdvanceWithoutHar == [
  START_SERVICE_DISCOVERY                  |-> "SERVICE_DISCOVERED",
  START_HARDWARE_SERV_CHARS_DISCOVERY      |-> "HARDWARE_SERV_CHARS_DISCOVERED",
  START_SOFTWARE_SERV_CHARS_DISCOVERY      |-> "SOFTWARE_SERV_CHARS_DISCOVERED",
  START_CONFIGURATION_SERV_CHARS_DISCOVERY |-> "CONFIGURATION_SERV_CHARS_DISCOVERED",
  ENABLE_ME1_WUP_NOTIFICATIONS             |-> "NOTIFICATIONS_ENABLED"]

\* The status that follows when a GATT procedure completes, whichever it was.
Advance == [
  START_SERVICE_DISCOVERY                  |-> "SERVICE_DISCOVERED",
  START_HARDWARE_SERV_CHARS_DISCOVERY      |-> "HARDWARE_SERV_CHARS_DISCOVERED",
  START_SOFTWARE_SERV_CHARS_DISCOVERY      |-> "SOFTWARE_SERV_CHARS_DISCOVERED",
  START_CONFIGURATION_SERV_CHARS_DISCOVERY |-> "CONFIGURATION_SERV_CHARS_DISCOVERED",
  ENABLE_ME1_WUP_NOTIFICATIONS             |-> "NOTIFICATIONS_ENABLED",
  ENABLE_SE1_HAR_NOTIFICATIONS             |-> "NOTIFICATIONS_ENABLED"]

\* With all data read, reading starts again if the node at readDeviceIdx has an
\* AI characteristic.  Past the table the test reads foreign memory.
Resumed(p) ==
  IF p.readDeviceIdx \notin Slots THEN {"ALL_DATA_READ", "READING_AI_RECOGNITION"}
  ELSE IF /\ ~p.is_disconnected[p.readDeviceIdx]
          /\ p.attr_handle[p.readDeviceIdx]["ai"] # None
       THEN {"READING_AI_RECOGNITION"} ELSE {"ALL_DATA_READ"}

NewStatus(p) ==
  CASE p.status \in DOMAIN Advance -> {Advance[p.status]}
    [] p.status = "ENABLE_ME1_LED_NOTIFICATIONS" ->
         {IF "wup" \in p.event[p.connDeviceIdx]
          THEN "ENABLE_ME1_WUP_NOTIFICATIONS" ELSE "NOTIFICATIONS_ENABLED"}
    [] p.status = "READING_AI_RECOGNITION" ->
         {IF Notifying THEN "NOTIFY_AI_TO_CLIENT" ELSE "ALL_DATA_READ"}
    [] p.status = "ALL_DATA_READ" -> Resumed(p)
    [] OTHER -> {p.status}

GATT_Procedure_Complete(p) ==
  \E st \in NewStatus(p) : perDevs' = [p EXCEPT !.status = st]

-----------------------------------------------------------------------------
(* HCI_Process: the head of the queue is passed to HCI_Event_CB.           *)

Deliver(type) ==
  /\ at = 0 /\ writes = <<>> /\ events # <<>> /\ Head(events).type = type
  /\ events' = Tail(events)
  /\ UNCHANGED <<at, radioVars, linkVars>>

\* GAP_ConnectionComplete_CB.  The connection is taken for that of the node at
\* connDeviceIdx, whatever the address in the event.
\* Past the table the test reads, and the assignments change, foreign memory.
Unconnectable(p) ==
  [p EXCEPT !.is_unconnectable[p.connDeviceIdx] = FALSE,
            !.device_found = FALSE, !.status = "DEVICE_NOT_FOUND"]

Connected(p, h) ==
  [p EXCEPT !.connection_handle[p.connDeviceIdx] = h,
            !.is_disconnected[p.connDeviceIdx] = FALSE,
            !.status = "DEVICE_CONNECTED"]

MasterConnected(p, h) ==
  IF p.connDeviceIdx \notin Slots THEN {Unconnectable(p), Connected(p, h)}
  ELSE IF p.is_unconnectable[p.connDeviceIdx] THEN {Unconnectable(p)} ELSE {Connected(p, h)}

\* Mutant: the role of the connection is not looked at.
OnConnectionOfAnyRole ==
  /\ Deliver("conn")
  /\ perDevs' \in MasterConnected(perDevs, Head(events).handle)
  /\ UNCHANGED <<slaveDev, writes>>

OnConnection ==
  /\ Deliver("conn")
  /\ LET e == Head(events)
     IN  IF e.role = "master"
         THEN perDevs' \in MasterConnected(perDevs, e.handle) /\ UNCHANGED slaveDev
         ELSE /\ slaveDev' = [slaveDev EXCEPT !.conn_handle = e.handle,
                                !.is_connected = TRUE, !.is_discoverable = FALSE]
              /\ UNCHANGED perDevs
  /\ UNCHANGED writes

\* GAP_DisconnectionComplete_CB.  The first slot with this handle is the node.
SlotsOf(p, h) == {i \in Slots : /\ p.connection_handle[i] = h
                                /\ \A j \in Slots : p.connection_handle[j] = h => i <= j}

\* Mutant: a node is counted out whether or not it was counted in.
NodeDisconnectedUnchecked(p, i) ==
  [p EXCEPT !.is_disconnected[i] = TRUE, !.is_unconnectable[i] = FALSE,
            !.is_connected[i] = FALSE, !.connDevices = Byte(@ - 1),
            !.discDevices = Byte(@ + 1), !.status = "CONN_INIT"]

\* Mutant: only a node that is being served is taken out of its slot.
NodeDisconnectedIfServed(p, i) ==
  IF ~p.is_connected[i] THEN [p EXCEPT !.is_unconnectable[i] = TRUE, !.status = "CONN_INIT"]
  ELSE [p EXCEPT !.is_disconnected[i] = TRUE, !.is_unconnectable[i] = FALSE,
                 !.is_connected[i] = FALSE, !.connDevices = Byte(@ - 1),
                 !.discDevices = Byte(@ + 1), !.status = "CONN_INIT"]

\* Mutant: the status is left as it was.
NodeDisconnectedQuietly(p, i) ==
  IF p.is_disconnected[i] THEN [p EXCEPT !.is_unconnectable[i] = TRUE]
  ELSE [p EXCEPT
          !.is_disconnected[i] = TRUE, !.is_unconnectable[i] = FALSE,
          !.is_connected[i] = FALSE,
          !.connDevices = IF p.is_connected[i] THEN Byte(@ - 1) ELSE @,
          !.discDevices = IF p.is_connected[i] THEN Byte(@ + 1) ELSE @]

NodeDisconnected(p, i) ==
  IF p.is_disconnected[i] THEN [p EXCEPT !.is_unconnectable[i] = TRUE]
  ELSE [p EXCEPT
          !.is_disconnected[i] = TRUE, !.is_unconnectable[i] = FALSE,
          !.is_connected[i] = FALSE,
          !.connDevices = IF p.is_connected[i] THEN Byte(@ - 1) ELSE @,
          !.discDevices = IF p.is_connected[i] THEN Byte(@ + 1) ELSE @,
          !.status = "CONN_INIT"]

\* Mutant: only the proximity stream is forgotten.
ClientDisconnectedStreaming(p) ==
  [p EXCEPT !.on = [i \in Slots |-> @[i] \ {"prx"}],
            !.sfusion_char_read = [i \in Slots |-> FALSE],
            !.discovery_enabled = TRUE,
            !.status = "DISABLE_NOTIFICATIONS"]

ClientDisconnected(p) ==
  [p EXCEPT !.on = [i \in Slots |-> @[i] \ {"prx", "agm", "sfusion"}],
            !.sfusion_char_read = [i \in Slots |-> FALSE],
            !.discovery_enabled = TRUE,
            !.status = "DISABLE_NOTIFICATIONS"]

\* Mutant: is_connected is not reset.
NoClientButConnected(s) ==
  [s EXCEPT !.is_discoverable = FALSE, !.star_data_char_notify = FALSE]

NoClient(s) ==
  [s EXCEPT !.is_connected = FALSE, !.is_discoverable = FALSE, !.conn_handle = 0,
            !.star_data_char_notify = FALSE]

OnDisconnection ==
  /\ Deliver("disconn")
  /\ LET h == Head(events).handle
         p == IF SlotsOf(perDevs, h) = {} THEN perDevs
              ELSE NodeDisconnected(perDevs, CHOOSE i \in SlotsOf(perDevs, h) : TRUE)
     IN  IF h = slaveDev.conn_handle
         THEN /\ perDevs' = ClientDisconnected(p)
              /\ slaveDev' = NoClient(slaveDev)
         ELSE perDevs' = p /\ UNCHANGED slaveDev
  /\ UNCHANGED writes

\* GAP_Start_General_Discovery_CB, DEVICE_FOUND: the slot for a node found in
\* the scan is its own, else the first never used, else the last vacant one.
Vacant(p) == {i \in Slots : p.is_disconnected[i]}
Own(p, a) == {i \in Vacant(p) : p.bdaddr[i] = a}
Unused(p) == {i \in Vacant(p) : p.bdaddr[i] = None}

SlotFor(p, a) ==
  IF Own(p, a) # {} THEN Min(Own(p, a))
  ELSE IF Unused(p) # {} THEN Min(Unused(p)) ELSE Max(Vacant(p))

\* Mutant: the index is only set for a node that is new.
DeviceFoundInOldIndex(p, a) ==
  LET i == SlotFor(p, a)
  IN  [p EXCEPT !.connDeviceIdx = IF Own(p, a) # {} THEN @ ELSE i,
                !.discDevices = IF Own(p, a) # {} THEN Byte(@ - 1) ELSE @,
                !.bdaddr[i] = a, !.event[i] = Offers[a] \cap Streams,
                !.status = "DEVICE_FOUND"]

\* A node found in its own slot is counted out of the disconnected ones.
DeviceFound(p, a) ==
  LET i == SlotFor(p, a)
  IN  [p EXCEPT !.connDeviceIdx = i,
                !.discDevices = IF Own(p, a) # {} THEN Byte(@ - 1) ELSE @,
                !.bdaddr[i] = a, !.event[i] = Offers[a] \cap Streams,
                !.status = "DEVICE_FOUND"]

OnAdvertisement ==
  /\ Deliver("adv")
  /\ perDevs' = IF /\ perDevs.connDevices < MaxNumOfNodes
                   /\ perDevs.status # "DEVICE_FOUND" /\ Vacant(perDevs) # {}
                THEN DeviceFound(perDevs, Head(events).addr) ELSE perDevs
  /\ UNCHANGED <<slaveDev, writes>>

\* Mutant: the end of a scan that found nothing is not told.
ScanOverIfFound(p) ==
  IF p.status = "DEVICE_FOUND"
  THEN [p EXCEPT !.device_found = TRUE, !.status = "DEVICE_DISCOVERY_COMPLETE"]
  ELSE [p EXCEPT !.device_found = FALSE]

\* The same, DEVICE_DISCOVERY_COMPLETE.
ScanOver(p) ==
  [p EXCEPT !.device_found = (p.status = "DEVICE_FOUND"),
            !.status = "DEVICE_DISCOVERY_COMPLETE"]

OnDiscoveryComplete ==
  /\ Deliver("scan_end")
  /\ perDevs' = ScanOver(perDevs)
  /\ UNCHANGED <<slaveDev, writes>>

\* Primary_Services_CB and Service_Chars_CB: the handles go to the node at
\* connDeviceIdx (of slot 0 the stream flags are cleared: the loop variable).
Handled(p, e) ==
  [p EXCEPT
     !.attr_handle[p.connDeviceIdx] =
        [a \in Attrs |-> IF a \in e.attrs THEN e.addr ELSE @[a]],
     !.sfusion_char_read[p.connDeviceIdx] = (@ /\ "sfusion" \notin e.attrs),
     !.on[0] = @ \ (e.attrs \cap {"prx", "agm", "sfusion"})]

OnHandlesFound ==
  /\ Deliver("found")
  /\ perDevs' = IF perDevs.connDeviceIdx \in Slots
                THEN Handled(perDevs, Head(events)) ELSE perDevs
  /\ UNCHANGED <<slaveDev, writes>>

OnProcedureComplete ==
  /\ Deliver("proc_end")
  /\ GATT_Procedure_Complete(perDevs)
  /\ UNCHANGED <<slaveDev, writes>>

\* GATT_Notification_CB: a notification interrupts whatever the status was.
\* (Those of the LED and AI characteristics are only passed on.)
Streaming(i, s) == Notifying /\ s \in perDevs.on[i]

Notified(i, s) ==
  CASE s \in {"wup", "mic", "prx"} ->
         IF Notifying THEN [perDevs EXCEPT !.status = "ALL_DATA_READ"] ELSE perDevs
    [] s = "agm" ->
         [perDevs EXCEPT !.status =
            IF Streaming(i, s) THEN "NOTIFICATIONS_DATA_READ" ELSE "ALL_DATA_READ"]
    [] OTHER ->
         [perDevs EXCEPT
            !.status = IF Streaming(i, s) THEN "NOTIFICATIONS_DATA_READ" ELSE "ALL_DATA_READ",
            !.sfusion_char_read[i] = @ \/ Streaming(i, s)]

\* A handle of no node falls back to slot 0.
OnNotification ==
  /\ Deliver("notification")
  /\ LET e == Head(events)
         i == IF SlotsOf(perDevs, e.handle) = {} THEN 0 ELSE Min(SlotsOf(perDevs, e.handle))
     IN  perDevs' = IF perDevs.attr_handle[i][e.char] # None THEN Notified(i, e.char) ELSE perDevs
  /\ UNCHANGED <<slaveDev, writes>>

OnAttributeModified ==
  /\ Deliver("modified")
  /\ Loops(perDevs, Head(events).cmd) => LoopsEnd(perDevs)
  /\ LET c == Head(events).cmd
     IN  /\ perDevs' = Modified(perDevs, c).p /\ writes' = Modified(perDevs, c).w
         /\ slaveDev' = Subscribed(slaveDev, c)

\* No event is left.
ProcessEnds ==
  /\ at = 0 /\ writes = <<>> /\ events = <<>>
  /\ at' = 1
  /\ UNCHANGED <<devVars, writes, ctrlVars>>

-----------------------------------------------------------------------------
(* Connection_Process and Reading_Process.                                 *)

BlockOf == [
  CONN_INIT                           |-> 1,
  DEVICE_DISCOVERY_COMPLETE           |-> 2,
  DEVICE_CONNECTED                    |-> 3,
  DEVICE_NOT_FOUND                    |-> 3,
  DISCOVERABLE_MODE_SET               |-> 4,
  SERVICE_DISCOVERED                  |-> 5,
  HARDWARE_SERV_CHARS_DISCOVERED      |-> 6,
  SOFTWARE_SERV_CHARS_DISCOVERED      |-> 7,
  CONFIGURATION_SERV_CHARS_DISCOVERED |-> 8,
  ENABLE_ME1_LED_NOTIFICATIONS        |-> 9,
  ENABLE_ME1_WUP_NOTIFICATIONS        |-> 9,
  ENABLE_SE1_HAR_NOTIFICATIONS        |-> 9,
  NOTIFICATIONS_ENABLED               |-> 10,
  NOTIFICATIONS_DATA_READ             |-> 11,
  READ_INIT                           |-> 12,
  READING_AI_RECOGNITION              |-> 13,
  ALL_DATA_READ                       |-> 14,
  DISABLE_NOTIFICATIONS               |-> 15]

\* The block of one of these statuses is reached and its test holds.
Due == perDevs.status \in DOMAIN BlockOf /\ BlockOf[perDevs.status] >= at

Block(sts) ==
  /\ at > 0 /\ writes = <<>> /\ Due /\ perDevs.status \in sts
  /\ at' = BlockOf[perDevs.status] + 1
  /\ UNCHANGED events

\* No further test holds: the main loop starts over.
PassEnds ==
  /\ at > 0 /\ writes = <<>> /\ ~Due
  /\ at' = 0
  /\ UNCHANGED <<devVars, writes, ctrlVars>>

Start_Discovery ==
  LET stopAdv == ~slaveDev.is_connected /\ slaveDev.is_discoverable
      p == [perDevs EXCEPT !.status = "START_DEVICE_DISCOVERY"]
  IN  \E ok \in BOOLEAN :
        /\ StartScan(ok, stopAdv)
        /\ perDevs' = IF ok THEN p ELSE ScanOver(p)
        /\ slaveDev' = [slaveDev EXCEPT !.is_discoverable = @ /\ ~stopAdv]

\* Mutant: with a full table the process has nothing to do.
ConnInitIdle ==
  /\ Block({"CONN_INIT"})
  /\ IF perDevs.connDevices < MaxNumOfNodes /\ perDevs.discovery_enabled
     THEN Start_Discovery ELSE UNCHANGED <<devVars, radioVars>>
  /\ UNCHANGED <<writes, linkVars>>

ConnInit ==
  /\ Block({"CONN_INIT"})
  /\ IF perDevs.connDevices < MaxNumOfNodes /\ perDevs.discovery_enabled
     THEN Start_Discovery
     ELSE /\ perDevs' = [perDevs EXCEPT !.status = "DEVICE_CONNECTED"]
          /\ UNCHANGED <<slaveDev, radioVars>>
  /\ UNCHANGED <<writes, linkVars>>

\* Mutant: a refused command is not noticed.
Connect_PeripheralUnchecked ==
  \E ok \in BOOLEAN :
    /\ CreateConnection(ok, perDevs.bdaddr[perDevs.connDeviceIdx])
    /\ perDevs' = [perDevs EXCEPT !.status = "START_DEVICE_CONNECTION"]

\* Connect_Peripheral: a refused command is handled as a connection of the node
\* that was marked as not connectable.
Connect_Peripheral ==
  LET i == perDevs.connDeviceIdx
      p == [perDevs EXCEPT !.status = "START_DEVICE_CONNECTION"]
  IN  \E ok \in BOOLEAN :
        /\ CreateConnection(ok, perDevs.bdaddr[i])
        /\ perDevs' \in IF ok THEN {p}
                        ELSE MasterConnected([p EXCEPT !.is_unconnectable[i] = TRUE], 0)

DiscoveryComplete ==
  /\ Block({"DEVICE_DISCOVERY_COMPLETE"})
  /\ IF perDevs.device_found THEN Connect_Peripheral
     ELSE /\ perDevs' = [perDevs EXCEPT !.status = "DEVICE_NOT_FOUND"]
          /\ UNCHANGED radioVars
  /\ UNCHANGED <<slaveDev, writes, linkVars>>

ConnectionOver ==
  /\ Block({"DEVICE_CONNECTED", "DEVICE_NOT_FOUND"})
  /\ perDevs' =
       IF perDevs.device_found
       THEN [perDevs EXCEPT !.status = "DISCOVERABLE_MODE_SET", !.device_found = FALSE]
       ELSE [perDevs EXCEPT !.status = "READ_INIT",
               !.readDeviceIdx = Byte(perDevs.connDevices + perDevs.discDevices - 1)]
  /\ UNCHANGED <<slaveDev, writes, radioVars, linkVars>>

\* A procedure on the node at connDeviceIdx: when it cannot be started, it is
\* over at once.
Discover(proc, status) ==
  LET i == perDevs.connDeviceIdx
      p == [perDevs EXCEPT !.status = status]
  IN  IF perDevs.is_disconnected[i]
      THEN GATT_Procedure_Complete(p) /\ UNCHANGED linkVars
      ELSE \E ok \in BOOLEAN :
             /\ StartProcedure(ok, perDevs.connection_handle[i], proc)
             /\ IF ok THEN perDevs' = p ELSE GATT_Procedure_Complete(p)
             /\ UNCHANGED <<links, subs>>

Discover_Services ==
  /\ Block({"DISCOVERABLE_MODE_SET"})
  /\ Discover("services", "START_SERVICE_DISCOVERY")
  /\ UNCHANGED <<slaveDev, writes, radioVars>>

\* Blocks 5 to 7: the characteristics of a service, when it is known.
Discover_Service_Chars(serv, before, running, after) ==
  /\ Block({before})
  /\ IF perDevs.attr_handle[perDevs.connDeviceIdx][serv] # None
     THEN Discover(serv, running)
     ELSE perDevs' = [perDevs EXCEPT !.status = after] /\ UNCHANGED linkVars
  /\ UNCHANGED <<slaveDev, writes, radioVars>>

DiscoverChars ==
  \/ Discover_Service_Chars("hw", "SERVICE_DISCOVERED",
       "START_HARDWARE_SERV_CHARS_DISCOVERY", "HARDWARE_SERV_CHARS_DISCOVERED")
  \/ Discover_Service_Chars("sw", "HARDWARE_SERV_CHARS_DISCOVERED",
       "START_SOFTWARE_SERV_CHARS_DISCOVERY", "SOFTWARE_SERV_CHARS_DISCOVERED")
  \/ Discover_Service_Chars("cfgs", "SOFTWARE_SERV_CHARS_DISCOVERED",
       "START_CONFIGURATION_SERV_CHARS_DISCOVERY", "CONFIGURATION_SERV_CHARS_DISCOVERED")

\* The notifications switched on for good depend on the type of the node.
ChooseNotifications ==
  /\ Block({"CONFIGURATION_SERV_CHARS_DISCOVERED"})
  /\ LET i == perDevs.connDeviceIdx
     IN  perDevs' = [perDevs EXCEPT !.status =
           CASE perDevs.is_disconnected[i]  -> "NOTIFICATIONS_ENABLED"
             [] DevV(perDevs, i) = "ME1"    -> "ENABLE_ME1_LED_NOTIFICATIONS"
             [] DevV(perDevs, i) = "SE1"    -> "ENABLE_SE1_HAR_NOTIFICATIONS"
             [] OTHER                       -> "NOTIFICATIONS_ENABLED"]
  /\ UNCHANGED <<slaveDev, writes, radioVars, linkVars>>

\* The write is repeated on every pass until a procedure completes.
Enable_Notifications ==
  /\ Block({"ENABLE_ME1_LED_NOTIFICATIONS", "ENABLE_ME1_WUP_NOTIFICATIONS",
            "ENABLE_SE1_HAR_NOTIFICATIONS"})
  /\ LET s == CASE perDevs.status = "ENABLE_ME1_LED_NOTIFICATIONS" -> "led"
              [] perDevs.status = "ENABLE_ME1_WUP_NOTIFICATIONS" -> "wup"
              [] OTHER                                           -> "ai"
     IN  writes' = <<DescriptorWrite(perDevs, perDevs.connDeviceIdx, s, 1)>>
  /\ UNCHANGED <<devVars, radioVars, linkVars>>

NodeReady ==
  /\ Block({"NOTIFICATIONS_ENABLED"})
  /\ LET i == perDevs.connDeviceIdx
         p == IF perDevs.is_disconnected[i] THEN perDevs
              ELSE [perDevs EXCEPT !.is_connected[i] = TRUE,
                      !.connDeviceIdx = Byte(@ + 1), !.connDevices = Byte(@ + 1)]
     IN  perDevs' = [p EXCEPT !.readDeviceIdx = Byte(p.connDevices - 1),
                              !.status = "READ_INIT"]
  /\ UNCHANGED <<slaveDev, writes, radioVars, linkVars>>

\* While sensor fusion data streams, reading goes on until a first value came
\* (past the table the test reads foreign memory).
StreamPass ==
  /\ Block({"NOTIFICATIONS_DATA_READ"})
  /\ \E unread \in BOOLEAN :
       /\ perDevs.readDeviceIdx \in Slots
            => unread = ~perDevs.sfusion_char_read[perDevs.readDeviceIdx]
       /\ perDevs' = IF "sfusion" \in perDevs.enabled /\ unread
                     THEN [perDevs EXCEPT !.status = "ALL_DATA_READ"] ELSE perDevs
  /\ UNCHANGED <<slaveDev, writes, radioVars, linkVars>>

ReadInit ==
  /\ Block({"READ_INIT"})
  /\ IF perDevs.connDevices > 0
     THEN GATT_Procedure_Complete([perDevs EXCEPT !.status = "ALL_DATA_READ"])
     ELSE perDevs' = [perDevs EXCEPT !.status = "CONN_INIT"]
  /\ UNCHANGED <<slaveDev, writes, radioVars, linkVars>>

\* Read_Sensor_Data.  Past the table the handles are foreign memory: the read
\* is not made, is refused, or reaches some link.
ReadOf(h) ==
  \E ok \in BOOLEAN :
    /\ StartProcedure(ok, h, "read")
    /\ IF ok THEN UNCHANGED perDevs ELSE GATT_Procedure_Complete(perDevs)
    /\ UNCHANGED <<links, subs>>

Read_Sensor_Data ==
  /\ Block({"READING_AI_RECOGNITION"})
  /\ LET i == perDevs.readDeviceIdx
     IN  \/ /\ i \in Slots /\ ~perDevs.is_disconnected[i]
            /\ ReadOf(perDevs.connection_handle[i])
         \/ /\ i \notin Slots
            /\ \E h \in Handles : ReadOf(h)
         \/ /\ i \in Slots => perDevs.is_disconnected[i]
            /\ GATT_Procedure_Complete(perDevs) /\ UNCHANGED linkVars
  /\ UNCHANGED <<slaveDev, writes, radioVars>>

\* The next node; after the one in slot 0 the cycle is over.
NextNode ==
  /\ Block({"ALL_DATA_READ"})
  /\ LET i == perDevs.readDeviceIdx
     IN  perDevs' = [perDevs EXCEPT !.readDeviceIdx = IF i > 0 THEN i - 1 ELSE i,
                                   !.status = IF i = 0 THEN "CONN_INIT" ELSE "READ_INIT"]
  /\ IF ~slaveDev.is_connected /\ ~slaveDev.is_discoverable
     THEN /\ \E ok \in BOOLEAN : Set_Slave_Discoverable(ok)
          /\ slaveDev' = [slaveDev EXCEPT !.is_discoverable = TRUE]
     ELSE UNCHANGED <<slaveDev, radioVars>>
  /\ UNCHANGED <<writes, linkVars>>

DisableNotifications ==
  /\ Block({"DISABLE_NOTIFICATIONS"}) /\ LoopsEnd(perDevs)
  /\ LET t == Disable_All_Notifications(perDevs)
     IN  perDevs' = [t.p EXCEPT !.status = "ALL_DATA_READ"] /\ writes' = t.w
  /\ UNCHANGED <<slaveDev, radioVars, linkVars>>

\* Write_Charac_Descriptor: the command is repeated while the link is busy, but
\* given up after ten seconds or when it fails otherwise.
Write_Charac_Descriptor ==
  /\ writes # <<>>
  /\ LET w == Head(writes)
     IN  \E ok \in BOOLEAN :
           /\ StartProcedure(ok, w.handle, "write")
           /\ subs' = IF ok /\ w.char \in Streams /\ w.attr = links[w.handle]
                      THEN [subs EXCEPT ![w.handle] =
                              IF w.mode = 1 THEN @ \cup {w.char} ELSE @ \ {w.char}]
                      ELSE subs
  /\ writes' = Tail(writes)
  /\ UNCHANGED <<devVars, at, links, radioVars, events>>

-----------------------------------------------------------------------------
HandleEvent ==
  \/ OnConnection \/ OnDisconnection \/ OnAdvertisement \/ OnDiscoveryComplete
  \/ OnHandlesFound \/ OnProcedureComplete \/ OnNotification \/ OnAttributeModified
  \/ ProcessEnds

Connection_Process ==
  \/ ConnInit \/ DiscoveryComplete \/ ConnectionOver \/ Discover_Services
  \/ DiscoverChars \/ ChooseNotifications \/ Enable_Notifications \/ NodeReady

Reading_Process ==
  \/ StreamPass \/ ReadInit \/ Read_Sensor_Data \/ NextNode \/ DisableNotifications
  \/ PassEnds

Host == HandleEvent \/ Connection_Process \/ Reading_Process \/ Write_Charac_Descriptor

Air == Radio /\ UNCHANGED <<devVars, at, writes>>

Next == Host \/ Air

Spec == Init_Processes /\ [][Next]_vars

-----------------------------------------------------------------------------
(* Fairness.  The main loop never stops and is the only thread; events come  *)
(* more slowly than HCI_Process handles them, so that its queue is empty     *)
(* again and again, and now and then when it looks; the                      *)
(* controller ends what it started: a scan after its ten seconds, a GATT     *)
(* procedure at the latest when it times out (strong fairness: a full queue  *)
(* only delays the event), and a connection to a node that is there.         *)

Fairness ==
  /\ WF_vars(Host) /\ []<>(events = <<>>) /\ SF_vars(ProcessEnds)
  /\ SF_vars(Air /\ ScanEnds) /\ SF_vars(Air /\ NodeConnects)
  /\ \A h \in Handles : SF_vars(Air /\ ProcedureEnds(h))

FairSpec == Spec /\ Fairness

-----------------------------------------------------------------------------
(* Safety.                                                                   *)

\* The fields have the types of the source, and the pass is inside its blocks.
TypeOK ==
  /\ perDevs \in PerDevs /\ slaveDev \in SlaveDev
  /\ at \in 0..16 /\ Len(events) <= EventsMax
  /\ gap \in Addrs \cup {"idle", "scan"} /\ links \in [Handles -> Peers \cup {None}]

ConnectedSlots == {i \in Slots : perDevs.is_connected[i]}

Queued(type) == \E k \in DOMAIN events : events[k].type = type
QueuedOf(type, h) == \E k \in DOMAIN events : events[k].type = type /\ events[k].handle = h

\* connDevices, counted up and down in different callbacks, is the number of
\* connected nodes, and none of them is at the same time disconnected.
NodesCounted ==
  /\ perDevs.connDevices = Cardinality(ConnectedSlots)
  /\ \A i \in ConnectedSlots : ~perDevs.is_disconnected[i]

\* From the found node to the end of its discovery connDeviceIdx, left past the
\* table by the previous node, is one of its slots.
Discovering == {
  "DEVICE_FOUND", "START_DEVICE_CONNECTION", "DISCOVERABLE_MODE_SET", "START_SERVICE_DISCOVERY",
  "SERVICE_DISCOVERED", "START_HARDWARE_SERV_CHARS_DISCOVERY",
  "HARDWARE_SERV_CHARS_DISCOVERED", "START_SOFTWARE_SERV_CHARS_DISCOVERY",
  "SOFTWARE_SERV_CHARS_DISCOVERED", "START_CONFIGURATION_SERV_CHARS_DISCOVERY",
  "CONFIGURATION_SERV_CHARS_DISCOVERED", "ENABLE_ME1_LED_NOTIFICATIONS",
  "ENABLE_ME1_WUP_NOTIFICATIONS", "ENABLE_SE1_HAR_NOTIFICATIONS", "NOTIFICATIONS_ENABLED"}

Connecting == gap \in Addrs \/ \E k \in DOMAIN events :
                events[k].type = "conn" /\ events[k].role = "master"

IndexInTable ==
  perDevs.status \in Discovering \/ Connecting => perDevs.connDeviceIdx \in Slots

\* A slot that is not marked as disconnected stands for the link to its own
\* node, or the disconnection of that link is on its way.
SlotsAreLinked ==
  \A i \in Slots : ~perDevs.is_disconnected[i] =>
    LET h == perDevs.connection_handle[i]
    IN  links[h] = perDevs.bdaddr[i] \/ QueuedOf("disconn", h)

\* The client is linked (or its disconnection on its way), and its handle is not
\* the one of a node, although handles are used again.
ClientIsLinked ==
  slaveDev.is_connected =>
    /\ links[slaveDev.conn_handle] \in Clients \/ QueuedOf("disconn", slaveDev.conn_handle)
    /\ \A i \in Slots : perDevs.connection_handle[i] = slaveDev.conn_handle
                          => perDevs.is_disconnected[i]

\* The statuses only an event can leave: what they wait for is under way or its
\* event is queued, whatever overwrote the status in between.
Scanning == {"START_DEVICE_DISCOVERY", "DEVICE_FOUND"}
Exploring == {"START_SERVICE_DISCOVERY", "START_HARDWARE_SERV_CHARS_DISCOVERY",
              "START_SOFTWARE_SERV_CHARS_DISCOVERY",
              "START_CONFIGURATION_SERV_CHARS_DISCOVERY"}
Waiting == Scanning \cup Exploring \cup {"START_DEVICE_CONNECTION"}

NothingAwaitedInVain ==
  /\ perDevs.status \in Scanning => gap = "scan" \/ Queued("scan_end")
  /\ perDevs.status = "START_DEVICE_CONNECTION" => Connecting
  /\ perDevs.status \in Exploring =>
       Queued("proc_end") \/ Queued("disconn") \/ \E h \in Handles : gatt[h] # None

\* The stream a client asks for is the only one that is on: the others are
\* switched off first.
OneStream == Cardinality(perDevs.enabled) <= 1

\* Data streams for a client only: nothing that was queued when it left brings
\* a stream back.  (In Quickstart mode; a registered device is commanded from
\* the cloud too.)
StreamsHaveAClient == (\E i \in Slots : perDevs.on[i] # {}) => slaveDev.is_connected

-----------------------------------------------------------------------------
(* Liveness.                                                                 *)

\* No status is waited in for ever.
WaitsEnd ==
  \A st \in Waiting : perDevs.status = st ~> perDevs.status # st

\* A node that is linked ends up served, or lost.
NodesServed ==
  \A i \in Slots : ~perDevs.is_disconnected[i] ~>
    perDevs.is_connected[i] \/ perDevs.is_disconnected[i]

\* The AI data of a connected node is read again and again, once its
\* characteristic is known.
ReadPeriodically ==
  \A i \in Slots : []<>(\/ ~perDevs.is_connected[i]
                        \/ perDevs.attr_handle[i]["ai"] = None
                        \/ gatt[perDevs.connection_handle[i]] = "read")

\* With a slot to fill nodes are looked for.
ScansForNodes ==
  []<>(gap = "scan" \/ perDevs.connDevices = MaxNumOfNodes)
=============================================================================
