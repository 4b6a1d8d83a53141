------------------------------ MODULE BleSlave ------------------------------
(***************************************************************************)
(* The slave service (ble_slave_service.c): what a client writes to the    *)
(* Star service, and the switching of the nodes' notifications.  The       *)
(* operators take a node table and return the new one; descriptor writes   *)
(* are collected in a sequence and issued, in order, before the running    *)
(* handler returns (nothing the handler does depends on their outcome).    *)
(***************************************************************************)
EXTENDS BleDevices

Table(p, w) == [p |-> p, w |-> w]

\* The order in which Disable_All_Notifications looks at the streams of a node.
DisableOrder == [mic |-> 1, prx |-> 2, agm |-> 3, sfusion |-> 4]

\* Mutant: the case of the motion data is missing.
ToDisableButMotion(p, j) == p.event[j] \cap p.enabled \cap {"mic", "prx", "sfusion"}

\* The notifications that a node supports and that are enabled.
ToDisable(p, j) == p.event[j] \cap p.enabled \cap DOMAIN DisableOrder

\* Only the first of them is disabled.  Of a microphone the node forgets that it
\* has one, but not of its other sensors.
DisableNode(t, j) ==
  IF ToDisable(t.p, j) = {} THEN t
  ELSE LET s == CHOOSE u \in ToDisable(t.p, j) :
                  \A v \in ToDisable(t.p, j) : DisableOrder[u] <= DisableOrder[v]
       IN  Table([t.p EXCEPT !.enabled = @ \ {s},
                             !.on[j] = @ \ {s},
                             !.event[j] = IF s = "mic" THEN @ \ {s} ELSE @],
                 Append(t.w, DescriptorWrite(t.p, j, s, 0)))

Disable_All_Notifications(p) == Looped(DisableNode, Table(p, <<>>), Rounds(p))

\* Wake-up notifications of the connected MOTENV1 nodes are switched off while
\* a stream is on.
SwitchWup(t, j, mode) ==
  IF /\ DevV(t.p, j) = "ME1" /\ t.p.is_connected[j]
     /\ ("wup" \in t.p.event[j]) = (mode = 0)
  THEN Table([t.p EXCEPT !.event[j] = IF mode = 1 THEN @ \cup {"wup"} ELSE @ \ {"wup"}],
             Append(t.w, DescriptorWrite(t.p, j, "wup", mode)))
  ELSE t

SwitchAllWup(t, mode) == Looped(LAMBDA u, j : SwitchWup(u, j, mode), t, Rounds(t.p))

Change_Notification_Status(p, i, s, mode) ==
  LET before == IF mode = 1
                THEN Disable_All_Notifications([p EXCEPT !.discovery_enabled = FALSE])
                ELSE Table(p, <<>>)
      own == Table([before.p EXCEPT
                      !.enabled = IF mode = 1 THEN @ \cup {s} ELSE @ \ {s}],
                   Append(before.w, DescriptorWrite(p, i, s, mode)))
      all == SwitchAllWup(own, 1 - mode)
  IN  Table([all.p EXCEPT
               !.status = IF mode = 1 THEN "NOTIFICATIONS_DATA_READ" ELSE "ALL_DATA_READ",
               !.readDeviceIdx = i,
               !.on[i] = IF mode = 1 /\ s # "mic" THEN @ \cup {s} ELSE @ \ {s}],
            all.w)

\* Get_Device_Index_From_Addr, and the test that the node can be commanded.
Commanded(p, a) ==
  {i \in Slots : /\ p.bdaddr[i] = a
                 /\ \A j \in Slots : p.bdaddr[j] = a => i <= j
                 /\ ~p.is_disconnected[i] /\ p.attr_handle[i]["cfg"] # None}

-----------------------------------------------------------------------------
(* Attribute_Modified_CB, one definition per attribute.  p and t are the   *)
(* node table before the call; the result is the one after it.             *)

\* Star config characteristic: 1 starts the scan for new nodes, 2 stops it.
ScanCommand(p, value) ==
  LET q == [p EXCEPT !.status = "ALL_DATA_READ"]
      t == IF value = 1 THEN Disable_All_Notifications(q) ELSE Table(q, <<>>)
  IN  Table([t.p EXCEPT !.discovery_enabled = value = 1 \/ (@ /\ value # 2)], t.w)

\* Star data characteristic: a command for one node.
NodeCommand(p, c) ==
  IF Commanded(p, c.node) = {} THEN Table(p, <<>>)
  ELSE LET i == CHOOSE k \in Commanded(p, c.node) : TRUE
       IN  IF c.cmd = "led" THEN Table([p EXCEPT !.readDeviceIdx = i], <<>>)
           ELSE Change_Notification_Status(p, i, c.char, c.mode)

Modified(p, c) ==
  CASE c.cmd = "scan" -> ScanCommand(p, c.value)
    [] c.cmd \in {"led", "stream"} -> NodeCommand(p, c)
    [] OTHER -> Table(p, <<>>)

\* The writes that walk through the table.
Loops(p, c) == \/ c.cmd = "scan" /\ c.value = 1
               \/ c.cmd = "stream" /\ Commanded(p, c.node) # {}

\* The client configuration descriptors.  Subscribing to the config
\* characteristic subscribes to the data too.
Subscribed(s, c) ==
  CASE c.cmd = "config_notify" -> [s EXCEPT !.star_data_char_notify = TRUE]
    [] c.cmd = "data_notify" -> [s EXCEPT !.star_data_char_notify = (c.value = 1)]
    [] OTHER -> s

\* Set_Slave_Discoverable: the advertising is stopped when the table is full
\* and restarted unless scanning is disabled.  ok: the controller agreed.
Set_Slave_Discoverable(ok) ==
  LET stopped == perDevs.connDevices = MaxNumOfNodes /\ slaveDev.is_discoverable
  IN  /\ IF perDevs.discovery_enabled THEN Returns(ok, gap = "idle") ELSE ok = FALSE
      /\ adv' = (ok \/ (adv /\ ~stopped))
      /\ UNCHANGED <<gap, reported>>
=============================================================================
