----------------------------- MODULE BleDevices -----------------------------
(***************************************************************************)
(* The state the master and the slave service share: perDevs, the table of *)
(* the peripheral nodes, and slaveDev, the central node's own slave role.  *)
(* Both are written by HCI_Event_CB and by the two processes of the main   *)
(* loop, all in the same thread.                                           *)
(*                                                                         *)
(* An attribute handle is represented by the device it was discovered on,  *)
(* None standing for 0.  What only shapes the data that is sent or printed *)
(* (the acc/gyr/mag flags, the text buffers) is left out, and so are the   *)
(* *_char_read flags other than sfusion's, which no live code sets, and    *)
(* the statuses no live code enters (READING_ENVIRONMENTAL, READING_LED,   *)
(* READING_LUX, READING_MIC, READING_PRX, READING_AGM, READING_SFUSION,    *)
(* READING_CO and what follows them, START_DISCOVERABLE_MODE).             *)
(***************************************************************************)
EXTENDS BleController

CONSTANTS
  MaxNumOfNodes,  \* MAX_NUM_OF_NODES
  NodeType,       \* [Addrs -> {"ME1", "FL1", "AM1", "SE1"}]: dev_v of a node
  ByteValues      \* bound: values of a uint8_t (256; smaller in the runs)

ASSUME ByteAssumption == ByteValues \in 4..256
ASSUME NodesAssumption == MaxNumOfNodes \in 1..(ByteValues \div 2)
ASSUME NodeTypeAssumption == NodeType \in [Addrs -> {"ME1", "FL1", "AM1", "SE1"}]
\* A node that is not known by its name has the type its sensors tell.
ASSUME SensorsAssumption == \A a \in Addrs :
  \/ NodeType[a] = "SE1"
  \/ NodeType[a] = IF "mic" \in Offers[a] THEN "AM1"
                   ELSE IF "prx" \in Offers[a] THEN "FL1" ELSE "ME1"

Slots == 0 .. MaxNumOfNodes - 1

\* Mutant: the counters are plain integers.
ByteUnwrapped(n) == n

\* Arithmetic on uint8_t.
Byte(n) == n % ByteValues
Bytes == 0 .. ByteValues - 1

VARIABLES
  perDevs,   \* the node table
  slaveDev,  \* the slave role
  at,        \* 0 in HCI_Process, else the next block of the two processes
  writes     \* descriptor writes the running handler has still to issue

devVars == <<perDevs, slaveDev>>
vars == <<devVars, at, writes, ctrlVars>>

Statuses == {
  "CONN_INIT", "START_DEVICE_DISCOVERY", "DEVICE_FOUND", "DEVICE_NOT_FOUND",
  "DEVICE_DISCOVERY_COMPLETE", "START_DEVICE_CONNECTION", "DEVICE_CONNECTED",
  "DISCOVERABLE_MODE_SET", "START_SERVICE_DISCOVERY", "SERVICE_DISCOVERED",
  "START_HARDWARE_SERV_CHARS_DISCOVERY", "HARDWARE_SERV_CHARS_DISCOVERED",
  "START_SOFTWARE_SERV_CHARS_DISCOVERY", "SOFTWARE_SERV_CHARS_DISCOVERED",
  "START_CONFIGURATION_SERV_CHARS_DISCOVERY", "CONFIGURATION_SERV_CHARS_DISCOVERED",
  "ENABLE_ME1_LED_NOTIFICATIONS", "ENABLE_ME1_WUP_NOTIFICATIONS",
  "ENABLE_SE1_HAR_NOTIFICATIONS", "NOTIFICATIONS_ENABLED",
  "READ_INIT", "READING_AI_RECOGNITION", "NOTIFY_AI_TO_CLIENT", "ALL_DATA_READ",
  "NOTIFICATIONS_DATA_READ", "DISABLE_NOTIFICATIONS"}

PerDevs == [
  status            : Statuses,
  discovery_enabled : BOOLEAN,
  device_found      : BOOLEAN,
  connDevices       : Bytes,
  discDevices       : Bytes,
  connDeviceIdx     : Bytes,
  readDeviceIdx     : Bytes,
  bdaddr            : [Slots -> Addrs \cup {None}],
  connection_handle : [Slots -> Handles \cup {0}],
  is_connected      : [Slots -> BOOLEAN],
  is_disconnected   : [Slots -> BOOLEAN],
  is_unconnectable  : [Slots -> BOOLEAN],
  attr_handle       : [Slots -> [Attrs -> Peers \cup {None}]],
  event             : [Slots -> SUBSET Streams],  \* wup_event, mic_event, ...
  on                : [Slots -> SUBSET Streams],  \* prx_on, agm_on, sfusion_on
  enabled           : SUBSET Streams,             \* mic_event_enabled, ...
  sfusion_char_read : [Slots -> BOOLEAN]]

SlaveDev == [
  is_connected          : BOOLEAN,
  is_discoverable       : BOOLEAN,
  conn_handle           : Handles \cup {0},
  star_data_char_notify : BOOLEAN]

\* Init_Processes, and the zeroed slaveDev.
Init_Processes ==
  /\ perDevs = [
       status            |-> "CONN_INIT",
       discovery_enabled |-> TRUE,
       device_found      |-> FALSE,
       connDevices       |-> 0,
       discDevices       |-> 0,
       connDeviceIdx     |-> 0,
       readDeviceIdx     |-> 0,
       bdaddr            |-> [i \in Slots |-> None],
       connection_handle |-> [i \in Slots |-> 0],
       is_connected      |-> [i \in Slots |-> FALSE],
       is_disconnected   |-> [i \in Slots |-> TRUE],
       is_unconnectable  |-> [i \in Slots |-> FALSE],
       attr_handle       |-> [i \in Slots |-> [a \in Attrs |-> None]],
       event             |-> [i \in Slots |-> {}],
       on                |-> [i \in Slots |-> {}],
       enabled           |-> {},
       sfusion_char_read |-> [i \in Slots |-> FALSE]]
  /\ slaveDev = [
       is_connected          |-> FALSE,
       is_discoverable       |-> FALSE,
       conn_handle           |-> 0,
       star_data_char_notify |-> FALSE]
  /\ at = 0 /\ writes = <<>>
  /\ CtrlInit

\* Both (slaveDev.is_connected) && (slaveDev.star_data_char_notify).
Notifying == slaveDev.is_connected /\ slaveDev.star_data_char_notify

\* The type of the node in a slot; devInfo keeps it with the address.
DevV(p, i) == IF p.bdaddr[i] = None THEN None ELSE NodeType[p.bdaddr[i]]

\* The loops over j < connDevices+discDevices; past the table they touch memory
\* this model does not have.  j is a uint8_t: when the sum, an int, is more than
\* it can hold the loop never ends.
LoopsEnd(p) == p.connDevices + p.discDevices < ByteValues
Rounds(p) == Min({p.connDevices + p.discDevices, MaxNumOfNodes})

\* for (j = 0; j < n; j++): what the body makes of t, round after round.
Looped(Body(_, _), t, n) ==
  LET after[k \in 0..n] == IF k = 0 THEN t ELSE Body(after[k - 1], k - 1)
  IN  after[n]

\* Write_Charac_Descriptor, the notification s of the node in slot i.
DescriptorWrite(p, i, s, mode) ==
  [handle |-> p.connection_handle[i], char |-> s, mode |-> mode,
   attr |-> IF s \in Attrs THEN p.attr_handle[i][s] ELSE None]
=============================================================================
