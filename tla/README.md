# Verification of the BLE star central node (BLESTAR1)

The repository is the firmware of a *central node* of a Bluetooth star network:
a Nucleo board with a BlueNRG radio that looks for sensor nodes (MOTENV1,
FLIGHT1, ALLMEMS1, SensorTile), connects to them, explores their services,
reads their data in turn, lets a phone command them, and publishes the data
over WiFi and MQTT. This directory holds TLA+ specifications of its core, the
TLC configurations that check them on small instances, and proofs checked by
TLAPS. Paths are relative to the repository; `BLESTAR1` stands for
`src/Projects/STM32F401RE-Nucleo/Applications/BLESTAR1`.

## 1. The system

There is no operating system. `main` calls over and over `WiFi_Process` (when
the WiFi module is present and no stream is on) and, once started,
`BlueNRG_Process` (`HCI_Process`, `Connection_Process`, `Reading_Process`).
Interrupts: EXTI of the BlueNRG line (calls `HCI_Isr`), the UART and a timer of
the WiFi module, SysTick, the button.

| component | code | state | operations | interacts through |
|---|---|---|---|---|
| HCI transport | `SimpleBlueNRG_HCI/hci/hci.c` | free pool, receive queue, temporary queue of a request | `HCI_Isr`, `HCI_Process`, `hci_send_req` (`free_event_list`, `hci_send_cmd`, `move_list`) | events up by `HCI_Event_CB`, commands down, SPI and its interrupt |
| SPI driver | `X-NUCLEO-IDB0xA1/stm32_bluenrg_ble.c` | interrupt enable, EXTI flag | `BlueNRG_SPI_Read_All`, `Hal_Write_Serial`, `Enable_SPI_IRQ`, ... | the transport |
| Master service | `BLESTAR1/Src/ble_master_service.c` | `perDevs`: one record per node, two counters, two indices, one status | event callbacks, `Connection_Process`, `Reading_Process` | transport, ACI commands, slave service |
| Slave service | `BLESTAR1/Src/ble_slave_service.c` | `slaveDev`, stream flags in `perDevs` | `Attribute_Modified_CB`, `Change_Notification_Status`, `Disable_All_Notifications`, `Set_Slave_Discoverable` | the client, the master's status |
| Main loop | `BLESTAR1/Src/main.c` | `start_bnrg`, `bnrg_initialized` | `BlueNRG_Process`, `WiFi_Process` | all of them |
| WiFi and MQTT state machine | `BLESTAR1/Src/main.c` | `wifi_state`, socket, MQTT client | `WiFi_Process`, `ind_wifi_*` callbacks, `messageArrived` | WiFi driver, slave service |
| gp_timer | `SimpleBlueNRG_HCI/utils/gp_timer.c` | start and interval of a timer | `Timer_Set`, `Timer_Expired` | HCI transport, writes |
| List | `SimpleBlueNRG_HCI/utils/ble_list.c` | circular lists | insert, remove | HCI transport |
| HCI and ACI commands | `SimpleBlueNRG_HCI/hci/controller` | none | marshalling | `hci_send_req` |
| DMA low-power transport | `hci_dma_lp.c`, `stm32_bluenrg_ble_dma_lp.c` | - | an alternative to `hci.c` | not part of this build |
| SPWF01SA driver, receiving | `STM32_SPWF01SA/Utils/ring_buffer.c`, `wifi_module.c` | ring of received bytes, receiver flags | UART interrupt, `Receive_Data`, `pop_buffer_queue`, `rewind_buffer_queue` | UART, parser |
| SPWF01SA driver, commands | `STM32_SPWF01SA/wifi_module.c` | queue of events, one outstanding answer, socket tables | `Process_Buffer` (SysTick), `Wifi_TIM_Handler`, the `wifi_*` calls | module, WiFi state machine |
| MQTT client, console, start-up and HAL, the B-L475E-IOT01 variant | various | - | third party, I/O, vendor code, the same application on another board | - |

What is hard in it:

* the interrupt runs between any two steps of the thread and shares its lists,
  and `hci_send_req` is called from inside `HCI_Event_CB` as well;
* the BlueNRG line is level but the interrupt is an edge: a handler that leaves
  with the line high is not called again;
* one variable, `perDevs.status`, is the program counter of the whole BLE
  application, and every callback may overwrite it at any moment;
* nodes and client come and go between any two steps, handles are used again,
  commands are refused, procedures complete late or for somebody else;
* the node table is described by two counters that are changed in different
  callbacks under different conditions;
* four contexts share the WiFi driver: the UART interrupt and a timer handler
  preempt SysTick, which parses, and all preempt the thread, which waits for
  flags they set;
* the answers of the WiFi module carry no number, and besides the commands of the
  thread the driver sends some of its own (reading and closing sockets), whose
  answers a flag keeps from the thread;
* a socket is closed by the server, by the program, or later, because it still
  has data, and is entered in three tables.

What makes each part correct: the transport loses no buffer, never corrupts a
list, always has room for an answer, delivers events in order, and comes back
from every request; the node table agrees with the links there are; every
status is left again; every linked node is served and read; a stream is on only
for the client that asked for it; no received byte is lost or read twice, and the
receiver runs again whatever stopped it; every answer of the WiFi module goes to the
call it belongs to, no wait in an interrupt depends on a lower one, the
socket tables agree, and whatever the broker does the program publishes in the end.
The hazards behind these properties are listed, line by line, in `PROJECT.json`.

## 2. Modules

    HciEventStream   what the transport promises (abstract)
    HciTransport     hci.c over the SPI driver   -- implements HciEventStream
    MCHciTransport   model values and symmetry for TLC
    HciTransportProofs  the theorems

    BleController    the radio, the nodes and the phone (external)
      BleDevices     perDevs and slaveDev, Init_Processes
        BleSlave     the slave service, as operators on the node table
          BleMaster  callbacks, the two processes, the main loop, the properties
            MCBleMaster  instances for TLC
            BleMasterProofs  the theorems
              BleClientProofs  streams and clients

    ByteStream       what the UART side promises to the parser (abstract)
    WifiUart         ring_buffer.c and the receive functions -- implements ByteStream
    WifiUartProofs   the theorems

    SpwfDriver       the command engine of wifi_module.c; the module (external)
      WifiStation    WiFi_Process, the MQTT client, the callbacks, the properties
        WifiStationProofs  its types
          WifiCallProofs   what is under way, and the sockets

    BleList          ble_list.c, as functions of the memory
      BleListProofs  its operations are those on sequences
    GpTimer          gp_timer.c, with its theorems

`HciTransport` has sequences where the code has circular lists, and an expiry
at any moment where it has a timer. `BleListProofs` and `GpTimer` show what
that is worth: the list operations are `Append`, `Tail` and so on for lists of
any length, and a timer expires when its interval is over.

The BLE part takes from the HCI part only the promise that events arrive in
order, one at a time (`HciEventStream`); the two are checked separately,
because their interleavings multiply and share nothing else.

### HciTransport

One thread and one handler. `pc` is the thread's control point; between two
steps of the thread the handler may run (`IsrInterrupt`, when `irq` is enabled
and `exti` is pending), and the thread itself may call `HCI_Isr` (`CallIsr`);
while `isr` holds, the thread stands still. A step of the thread is a section
that nothing else can see inside of: what runs with the interrupt off is one
action from a `Disable_SPI_IRQ` to the next call or `Enable_SPI_IRQ`.

| code | model |
|---|---|
| `hciReadPktPool` | `pool`, a count: buffers are interchangeable |
| `hciReadPktRxQueue`, `hciTempQueue` | `rxQueue`, `tempQueue` |
| `hciReadPacket` during `HCI_Event_CB` | `hand` |
| line and pending flag | `ctrl # <<>>` is the level; `exti` is set by a rising edge, cleared by reading and on entering the handler |
| `HCI_Process` | `ProcessBegin`, `ProcessTake`, `ProcessRelease`, `ProcessPoll`, `ProcessEnd` |
| `free_event_list` | `Request`, `FreeDrop`, `FreeEnd` |
| `hci_send_cmd`, the 100 ms give-up of the SPI write | `SendCmd` |
| wait loop of `hci_send_req` | `TakeAnswer`, `TakeFailure`, `KeepOther`, `KeepEnd`, `TimerExpires`, `WaitTimeout` |
| `move_list` | inside `Finish` (interrupt off), one packet per `FailedMove` on the time-out path (interrupt on) |

An event has the kind and opcode the code looks at, and an identity when it is
meant for the application. Command complete and command status for another
opcode end a request with an error, as in the code. The controller answers the
commands it accepted in any way and at any time, or not at all.

### BleController, BleDevices, BleSlave, BleMaster

`BleController` is external: a radio that scans or connects (one procedure at a
time), links with handles that are used again (the lowest free one), one GATT
procedure per link, subscriptions, and a bounded queue of events in order.
Peers in `Losable` may vanish at any moment; with `Unreliable` any command may
be refused.

`BleDevices` holds the fields of `perDevs` and `slaveDev` the behaviour depends
on. The counters and indices are `uint8_t` (`Byte`, modulo `ByteValues`). An
attribute handle is represented by the device it was discovered on, so that a
handle used on the wrong node is visible. What only shapes data or text is left
out (the module's header lists it).

`BleSlave` has the operators of the slave service; the loops over the table in
`Disable_All_Notifications` and its like are a recursive function of the number of
rounds (`Looped`). `BleMaster` has one action
per callback of `HCI_Event_CB`, one per block of the two processes, and the
calls they make. `at` is the place in the pass: 0 in `HCI_Process`, otherwise
the next block. The blocks test `perDevs.status` in source order, so that one pass can
run several of them (`Block`, `Due`). Descriptor writes of a handler
are queued in `writes` and issued one by one before anything else runs, each
of which the controller may refuse. Accesses past the tables (`connDeviceIdx`,
`readDeviceIdx` out of `Slots`) read anything: a nondeterministic choice.

Limits of these modules, on purpose:

* Commands from the cloud (`REGISTERED` mode) reach the same slave functions
  through `messageArrived`; the default build is `QUICKSTART`, where they do not.
* With two nodes in range of a table of one, the second one found overwrites the
  address of the first while its connection is pending, and `SlotsAreLinked`
  and `IndexInTable` fail; `ble_link` claims them for one node in range, and so do
  the proofs (section 4).
* The answers of reads carry no data.
* `discDevices` wraps below zero when a node is lost before it was served and is
  found again in its slot (1645), and the loops over `connDevices+discDevices`
  then run past the tables. The model has the wrap-around, and no property
  excludes it; what a write past the tables changes is memory the model does not have.

### WifiUart, ByteStream

A byte is its position in the stream the module sends, so that a byte lost,
repeated or overtaken is visible in the ring. `tick` is the control point of
SysTick, `pc` that of a thread sending one AT command after the other;
SysTick and the UART interrupt run between any two steps of the thread, the UART
interrupt also between two steps of SysTick.

| code | model |
|---|---|
| `ring_buffer`: `element`, `start`, `end`, `count` | `mem`, `start`, `end`, `count` |
| `push_buffer_queue`; `pop_buffer_queue`; `rewind_buffer_queue` | `Push`; `PopAll`, `PopChunk`, `PopByte`; `Rewind`: one disjunct per branch |
| `HAL_UART_Receive_IT` under way; `Uartx_Rx_Processing`; `resume_receive_data` | `armed`; `rxProcessing`; `resume` |
| `WiFi_HAL_UART_RxCpltCallback` | `UartByte` |
| `Wifi_SysTick_Isr`, `Process_WiFi`, `Process_Buffer` | `TickPop`, `TickPutBack`, `TickParsed`, `TickNothing`, `TickResume` |
| `Receive_Data` | `TickResume` and `TickFlag`, `AtReceive` and `AtFlag`: starting the receiver and noting it are two steps |
| `USART_Transmit_AT_Cmd` | `AtBegin` (sets `AT_Cmd_Processing`), `AtLock`, `AtSent`, `AtTimeout`, `AtClear`, `AtReceive`, `AtReceiving` |

What it assumes: the module keeps to the hardware flow control; a pass of the
parser puts back at most what it popped, less the bytes that came meanwhile,
and never the whole of two pops running; the few bytes kept in `process_buffer`
over several passes count as taken; at most `Slack` bytes come above the
half-full mark because a command starts the receiver there. A transmission that
times out leaves `AT_Cmd_Processing` set (2751), as in the code, and the receiver is then
stopped by the next byte until another command succeeds: `ReceiverRestarted` and
`ReceiverRuns` are stated up to that (`CommandFailed`).

### SpwfDriver, WifiStation

Bytes are whole messages here (`uart`), in the order they came, which is what
`ByteStream` promises. A message, an event and a command are records of a kind, a
socket, and, for the properties only, who asked (`by`): the thread, a call the
thread gave up, the driver reading or closing a socket, or nobody. The code sees no `by`.

| code | model |
|---|---|
| `event_buff` | `queue` |
| `AT_Response_Received`, `AT_RESPONSE` | `answered`, `response` |
| `stop_event_dequeue`, `prevent_push_OK_event`, `enable_timeout_timer` | `stop`, `swallow`, `timing` |
| `open_sockets`, `no_of_open_client_sockets` | `open`, `clients` |
| `enable_query`, `start_sock_read`, `enable_sock_read`, `sock_read_ongoing` | `query`, `startRead`, `reading` |
| `Process_Buffer` on one message | `Parse`, a disjunct per kind of message; `ParseReadError` is an ERROR that comes while a socket is read |
| time-out in `Wifi_SysTick_Isr` | `Timeout` |
| `Wifi_TIM_Handler` | `Pop` (the oldest event) and then `Chain` (the one thing that is due); nothing of the driver runs between the two |
| the module and the server | `ModuleActs` and the actions after it (external) |
| `WiFi_Process`: each state of `wifi_state` | `Scan`, `Disconnected`, `Reconnect`, `MqttSocketCreate`, `MqttConnectCall`, `MqttPublish`, ... |
| a call that waits for its answer | a value of `pc`, and the action that takes the answer (`Scanned`, `SocketCreated`, `ConnectSent`, `Published`, ...) |
| `ind_wifi_*` callbacks | `TimerChain` |

The program starts here when `wifi_init` is over. The settings of `wifi_connect`
are one command. `Quiet` stands for `HAL_Delay`: half a second and more outlasts an exchange
with the module, unless its answer is late. Joining a network takes longer
than the return from `wifi_connect`. The model has the
`QUICKSTART` mode of the build (no subscription, data from the broker only as
the answer to CONNECT). The two halves of the main loop share only `new_data`,
`start_bnrg` and the processor, and are checked separately.

### BleList, GpTimer

`BleList` has `next` and `prev` as functions from cells to cells; each operation of
`ble_list.c` gives the memory it leaves. `Holds(m, head, s)` says that the
cells linked from `head` are the sequence `s`, in both directions. `GpTimer` takes
the number of values of the clock as `Word` and computes modulo it.

## 3. What the runs check

`HCI_READ_PACKET_NUM_MAX` is 96 in the build; `MAX_NUM_OF_NODES` is 1; the ring
has 1024 slots and chunks of 512; there are 8 client sockets.

| run | instance | what it shows |
|---|---|---|
| `hci` | 3 buffers, malformed packets, hardware errors, fairness | No buffer is leaked or used twice (`BuffersConserved`); `free_event_list` never removes from an empty queue (`DropFindsAnEvent`); a waiting request has a buffer for its answer (`RoomForAnswer`); the interrupt is off exactly where it must be (`IrqDiscipline`); events set aside never survive their request; the events come in order (`InOrderDelivery`, the refinement), and one is lost only when half of the buffers are queued or none is free; a request that was written returns, and what the controller holds is attended to although no edge comes |
| `hci_deaf` | 2 buffers | finding: a request that waits with a high line, free buffers and no interrupt to come |
| `ble_link` | 1 slot, a node and a phone that come and go, commands refused at will | the counter, the index, the slot and the handles agree with the links; no status waits for an event that cannot come |
| `ble_streams` | 2 slots, 1 node that stays, 2 streams, a phone that switches them and leaves | at most one stream is on, and none without a client; beside a search that never finds a second node, the handles are those of the links (`SlotsAreLinked`) |
| `ble_live` | 1 node that comes and goes, no phone, fairness | every wait ends; a linked node is served or lost, and read periodically; a missing one is looked for |
| `ble_stall` | 1 node, a subscribed phone, fairness | finding: the periodic reading stops |
| `wifi_uart` | a ring of 8, chunks of 4, 17 bytes, commands that fail, fairness | nothing in the ring is overwritten (`NothingOverrun`), it holds the unread part of the stream (`RingHoldsStream`), the parser gets each byte once and in order (`ParserReadsStream`, the refinement), a stopped receiver has its restart requested (`ReceiverRestarted`) and runs again (`ReceiverRuns`) |
| `wifi_deaf` | the same, bytes waiting when the receiver is started | finding: a stopped receiver that nobody will start |
| `wifi_station` | 3 sockets, 6 faults of the broker, of socket reads and of joining, fairness | each answer goes to the call it belongs to, and each call has exactly one (`AnswerBelongs`, `OneCallUnderWay`); the socket tables agree, and no socket is lost (`SocketsAgree`); in the end the program publishes over an open connection (`ServesInTheEnd`) |
| `wifi_faults` | 2 sockets, 3 faults of any kind but `race` | the timer handler never waits (`HandlerNeverBlocks`), events are held back only for an answer that will come (`HeldForAnAnswer`), the data of a socket is parsed as data and nothing else is, and the ERROR of a failed read ends that read (`DataParsedAsData`) |
| `wifi_race` | 2 sockets, one closing by the server at any moment | finding: an answer taken for that of another call |
| `wifi_start` | 2 sockets, one refused scan or setting or one loss of the network, fairness | finding: the BLE part is never started |

Bounds, and why they are enough:

* `PacketNum` 3 (2 for the finding). The decisions of `hci.c` compare the pool with
  0 and with half of its size (1), and the receive queue with empty. With three
  buffers one event can be in a callback, one set aside and one queued or free at
  once, so that all boundaries are met. The proofs cover every size.
* `CtrlMax` 1: the level and its edge need only "some" and "none"; the order
  of events is that of the packets in the queues, up to three. `OwedMax` 1: a
  late answer meets the next request. One opcode: the status of an answer is
  free, so that a failure answers any request.
* `EventsMax` 2: an event handled while another, newer one is queued, which is
  what overtaking and stale events need. The pair *found* and *procedure
  complete* fills it.
* `ByteValues` 4 for 256: the wrap-around must be reachable. The sums that the
  code compares never exceed `2 * MaxNumOfNodes` unless a counter has wrapped.
* `Handles`: one more than there can be links, so that a lost handle can be used again
  by somebody else or not.
* `MaxNumOfNodes` 1 is the build, and most runs have it. `ble_streams` has a table of two and one
  node: the application goes on scanning beside the linked node, and its loops go over
  two slots. `BleTwo.cfg` has two nodes that stay in the two slots; it is a further
  instance to run by hand, not one of the runs above (`SlotsAreLinked` holds, 1.2
  million states). With two slots *and* lost nodes the handle kept in a
  disconnected slot can be given to the other node, whose disconnection is then
  taken for that of the first: `SlotsAreLinked` and `IndexInTable` are not
  claimed there.
* Deadlock is not checked in `ble_link` and `ble_streams`, because the program really can
  stop: after the counter wrapped, `connDevices+discDevices` may be 256, and
  the loops with a `uint8_t` index never end. Nor in `wifi_faults`, `wifi_race` and `wifi_start`:
  without a network the program waits for nothing.
* `Size` 8, `Chunk` 4, `Margin` 3, `Slack` 2 keep the order of the marks of 1024,
  512, 100 (nearly empty < nearly full, one chunk is half of the ring); `MaxSent` 17
  is twice round the ring and one byte, so that each branch of pop and rewind runs
  at each index. The proofs cover every size.
* `Sockets` 3 and `MaxClients` 3: six failures of a connection on three sockets
  would use them up if one were not given back. `QueueMax` 8 for the 50 events of
  the buffer: never more than a few are queued. `Budget` is the number of faults in
  a behaviour: three meet in every combination; liveness is about what happens after
  the last, as with any program that depends on its network.

Each property has been confronted with a variant of the code that breaks it
(the definitions marked *Mutant*; `PROJECT.json` pairs them).

### Fairness

*Transport.* Straight-line code and the handler run on (weak fairness), time
passes, and the main loop and the callbacks send finitely many commands before
they go on (strong fairness of `ProcessBegin` and `ProcessRelease`). Nothing else is
assumed of the controller. `RequestReturns` starts at `send`: before it,
`free_event_list` ends only if events do not keep coming as fast as it drops them, since
it drops and reads with the interrupt off.

Malformed packets do not come for ever, because `HCI_Isr` reads on as long as the
line is high.

*BLE.* The main loop is the only thread (weak fairness of `Host`). Events come
more slowly than they are handled (`[]<>(events = <<>>)`, and the process
sometimes finds the queue empty): the radio has a connection interval, the
handler microseconds. The controller ends a scan (a fixed duration), a GATT
procedure (30 s transaction time-out) and the connection to a node that is
there; strong fairness, since a full queue in the model only delays these.
A node that vanishes between being found and being connected is *not* covered
by the last: `START_DEVICE_CONNECTION` has no time-out in the code, and a node
that is gone for good blocks there. This is the assumption of `ble_live` most worth
knowing about.

`NodesServed` is checked without a client: a client that leaves during an
exploration replaces the status, and the node stays linked but not served (listed
as a hazard that no property covers).

*WiFi.* SysTick comes every millisecond and its handler returns, the user callback
that holds the data resumes the dequeuing (weak fairness of `Tick` and
`ResumeDequeue`); a command once begun goes on although interrupts keep coming
(strong fairness of `Command`). In `WifiStation` the thread, the timer handler, and
SysTick with the module go on, and a module that joins a network gets an answer from
it. No fault has to happen, and none is prevented before the budget is spent.

What liveness there does not hold with, and is checked without:

* `disassoc`, `deauth` (with `wifi_start` for the BLE part): when the access point drops the station, a publish that is
  waiting fails and writes `mqtt_connect` over `disconnected` (main.c:589), or
  the module's UP is ignored because `wifi_connected` was never reset: the program
  never reconnects. The reset of the module leaves `open_sockets` and the
  count as they were, so that sockets leak (`SocketsAgree`).
* `refused`: a scan that fails leaves the state idle for ever (`wifi_start`).
* `late`: an answer that comes after its call was given up answers the next; `race`:
  see `wifi_race`; `readkeep`: section 5. In all three `AnswerBelongs` fails.

### Findings

1. `hci_deaf`: the wait loop of `hci_send_req` calls `HCI_Isr` only after it
   took a packet. When the handler left with an empty pool, a command sent
   from a callback waits until its time-out, although buffers are free and the
   answer is in the controller. Two buffers make the shortest behaviour; with
   more, more events must pile up first (in the build, 96).
2. `ble_stall`: with a subscribed client, the read of the AI characteristic ends
   in `NOTIFY_AI_TO_CLIENT`, which nothing handles; the periodic reading stops.
3. `wifi_deaf`: `Receive_Data` arms the receiver before it notes that it runs.
   When SysTick calls it and a byte waits, the UART interrupt comes between the two,
   stops the receiver because a command is being processed (`AT_Cmd_Processing`), and the note then says that
   it runs. The command under way does not start it, and nobody was asked to.
4. `wifi_race`: the server closes a connection the program writes to. The timer
   handler closes the socket beside the unanswered write; the thread closes it
   again, and the ERROR of that is taken for the answer of its next command.
5. `wifi_start`: main.c:256 says that the BlueNRG waits for the WiFi to start,
   "otherwise BlueNRG starts anyway". TLC finds three ways in which one fault leaves
   `start_bnrg` at 0 for ever. The scan is refused, and `wifi_state_idle` waits for an
   indication that does not come (464-467). The network is lost while the program waits for
   the opening of its socket: the handler's `disconnected` is overwritten with
   `mqtt_socket_create` (481), and no opening succeeds without a network. Or the
   network is lost before that, and after the second joining UP is not passed on,
   because `wifi_connected` is still set.

Two more came out of the hypotheses of `OneStreamAtATime` (section 4). The comment of
`Change_Notification_Status` says "Disabling all previously enabled notifications"
(`ble_slave_service.c:195`). TLC finds `OneStream` violated on two variants of
`ble_streams`, which are not kept as runs:

* a node that has a microphone and another stream, both switched on more than once:
  `Disable_All_Notifications` clears `mic_event` (396) with the flag of the microphone,
  only a discovery sets it again, and the loop tests it. When the microphone is
  switched on a second time, it stays on beside the next stream.
* `Losable` with the node in it: the loop ends at `connDevices+discDevices` (392). A node
  found again in its slot is no longer counted as disconnected
  (`ble_master_service.c:1645`) and not yet as connected (2573). A client can
  command it (its handles are kept), but it is not visited.

With a second node in the second slot, two streams of the first can also come on while
it is still being explored: it is then not counted either.

## 4. What is proved

### The transport

`HciTransportProofs` holds, for every `PacketNum >= 2`, any sets of opcodes and
notices, and no bound on what the controller holds (`CtrlMax` and `OwedMax` appear in
guards only and nothing is assumed of them):

| theorem | statement |
|---|---|
| `TypeCorrect` | `Spec => []TypeOK` |
| `NoBufferLeak` | `Spec => []BuffersConserved` |
| `DropIsSafe` | `Spec => []DropFindsAnEvent` |
| `AnswerHasRoom` | `Spec => []RoomForAnswer` |
| `IrqDisciplined` | `Spec => []IrqDiscipline` |
| `NothingSetAside` | `Spec => []NothingSetAsideOutsideRequest` |
| `DeliveredInOrder` | `Spec => EventStream!Spec` |
| `LossOnlyUnderLoad` | `Spec => NoticesLostOnlyUnderLoad` |

Assumptions: `PacketNumAssumption` (a half of at least one buffer; with one
buffer the pool test is void) and `FaultsAssumption` (the faults are the two
kinds the code distinguishes).

*The invariant.* None of the safety properties is inductive alone. `IInv` is
the conjunction of `TypeOK`, `ControlOK` (what `hand` and `cmd` hold at each
control point), `BuffersConserved`, `IrqDiscipline`,
`NothingSetAsideOutsideRequest` and `RoomKept`. The argument for `DropIsSafe`:
when the pool is below half in `free_event_list`, nothing is set aside, at most
one buffer is in a callback, and the rest, at least one, is in the receive
queue. For `AnswerHasRoom`: when the wait loop is entered nothing is
set aside and at most one of the two or more buffers is in a callback, so one is
free or queued; from there the interrupt moves buffers only from the pool to
the receive queue, and `KeepOther` gives up the last one instead of setting it aside.
That is `RoomKept`, which speaks of both control points of the loop. `NextIInv` has one step per action; the theorems follow from `IInv`.

*The refinement.* `stream` is `tempQueue \o rxQueue \o ctrl` and `current` is
`hand`. A reader's move between the three queues is a stutter; the three removals
(answer or failure consumed behind the events set aside, the discard, a malformed
packet) are `Withdraw` at a position the proof names; `free_event_list` needs
`tempQueue = <<>>` from the invariant to remove the oldest.

*The losses.* `NoticesConcat` counts the notices of two queues put together, so that
only the event between two parts of `Outstanding` matters: the answer or failure
that ends a request is not a notice, a malformed packet is none, and the drop and
the discard have their condition (`DropsUnderLoad`: with less than half of the buffers
free, none set aside and at most one in a callback, at least half are queued).

### The ring of the UART

`WifiUartProofs` holds for every `Chunk >= 2`, `Size = 2 * Chunk`, `Margin` below
half of `Size`, `Slack` below `Margin` (`SizeAssumption`), and any number of bytes:

| theorem | statement |
|---|---|
| `TypeCorrect`, `NoOverrun`, `HoldsStream` | `Spec => []TypeOK`, `[]NothingOverrun`, `[]RingHoldsStream` |
| `ReadsStream` | `Spec => ParserReadsStream`: the driver implements `ByteStream` |
| `Restarted` | `Spec => []ReceiverRestarted` when `"preempt"` is not among the faults; with it, `wifi_deaf` is the counterexample |

The code computes the indices differently in each branch of pop and rewind. Two
lemmas (`PopTakes`, `RewindGivesBack`) reduce them all to "the start moves by
n, the count changes by n". `RingHoldsStream` speaks of the bytes between start and
end, but a rewind makes bytes before the start valid again. `IInv` therefore
says of every slot, from the oldest byte that may still be put back to the newest,
which position of the stream it holds (`Content`), that the parser never puts
back more than it took, and, by `NothingOverrun`, that these slots are fewer than
`Size`, so that no two are the same. From that the refinement follows: each `Take`
gives the next positions.

### The central node

`BleMasterProofs` and `BleClientProofs` hold for any clients and what they write, any
handles, any type of node and what it offers, any losses, refusals and bounds:

| theorem | statement |
|---|---|
| `TypeCorrect` | `OneNode => (Spec => []TypeOK)` |
| `NodesAreCounted` | `OneNode => (Spec => []NodesCounted)` |
| `IndexStaysInTable` | `OneNode => (Spec => []IndexInTable)` |
| `SlotsStayLinked` | `OneNode => (Spec => []SlotsAreLinked)` |
| `ClientStaysLinked` | `OneNode => (Spec => []ClientIsLinked)` |
| `NothingIsAwaitedInVain` | `OneNode => (Spec => []NothingAwaitedInVain)` |
| `StreamsKeepAClient` | `OneNode /\ OneClient => (Spec => []StreamsHaveAClient)` |
| `OneStreamAtATime` | `OneNode /\ NodeStays /\ Supported => (Spec => []OneStream)` |

*The hypotheses.* `OneNode` is the table of the build (`MAX_NUM_OF_NODES` is 1) and at
most one node in range. It is needed: with one slot, two nodes in range and a
client, TLC finds `IndexInTable` and `SlotsAreLinked` violated. The client leaves
during a scan, a second scan begins, and a late advertisement of the other
node replaces the address in the slot while the first is being connected.
`OneClient` is needed for `StreamsKeepAClient` only: a scan that is refused in the pass
in which a connection is announced turns the advertising on again, a second
client comes beside the first, and the writes of one outlive it. `OneStreamAtATime`
holds for a node that is not lost (`NodeStays`) and clients that ask for streams the
node has, the microphone excepted (`Supported`): neither can be spared (section 3). Any
number of clients may come and go, and the controller may refuse what it likes. The
other assumptions are those on the constants (what peers, commands and attributes are).

*The invariant.* `IInv` is the conjunction of the types (also of the events in the
queue and of the procedures) and three parts. Each property speaks of
the present state of the link and of "its end is queued", and that says too
little about the queue to be kept: `LinkInv` therefore follows the events about
each handle through the whole queue. What the application believes of a handle,
followed by the queued connections and disconnections of it in order,
alternates and ends in what the link is: a connection announced is there or
ends later in the queue (`ConnsLinked`), a handle comes again only after the end
of the link it was for (`HandlesAlternate`, `HeldHandlesEnd`), and the same for the
node (`NodeAlternates`, `NodeEnds`). `NodeInv` is about the slot under construction:
from finding to the end of the exploration, and while a connection may come, the slot
is slot 0, not counted, and holds an address (`Fresh`), which is what makes the counter
come out right whichever callback interrupts the discovery. `AwaitInv` says of
each status what is on its way, and of an advertisement in the queue that the scan
it is from has not been reported over. `NextIInv` has a step for each event and
each block of the pass; a block that a controller may refuse is one lemma for
both outcomes.

`ClientInv` adds that a write in the queue is handled while its client is believed
in (`WritesHaveAClient`): its disconnection is queued behind it, and if the client
came back in between, its connection is queued before. From that, a stream is
switched on only with a client there, and a client that leaves
switches it off before anybody else comes.

`OneStreamInv` has three parts. What is enabled must be found when it is to be
disabled (`Finds`): it is one stream, of the characteristics discovered in slot 0, and
those include the streams the node has. The loop must visit the slot: it does when
the node is counted, and until then no client can have switched anything on
(`ServedFirst`: the central node has not advertised itself, no stream is subscribed to,
and the status is none of those a client brings about). And once counted it
stays so, because no end of its link is in the queue (`LinkStays`, the part that
`NodeStays` makes true). The slave's operators have a lemma each: `DisablesOneNode`
says that with one slot the loop comes to disabling what is enabled there.

### The WiFi side

`StationTypes`: `Spec => []TypeOK` of `WifiStation`, for any sockets, bounds and
faults (`DriverAssumption`). It is not inductive: the driver enters the socket of
an ID in `open`, so that the messages on the way and the events in the queue
have to be such that an ID is always that of a socket (`GoodItems`).

`WifiCallProofs` is about what is under way between the thread, the driver and the
module. For any sockets, any number of clients and faults, and any buffer of seven
events or more (the code has 50):

| theorem | statement |
|---|---|
| `CallsKeepTheirOrder` | the invariant `CallInv` |
| `AnswersBelong` | `[]AnswerBelongs` |
| `CallsAreAnsweredOnce` | `[]OneCallUnderWay` |
| `HandlersNeverBlock` | `[]HandlerNeverBlocks` |
| `EventsHeldForAnAnswer` | `[]HeldForAnAnswer` |
| `DataIsParsedAsData` | `[]DataParsedAsData` |
| `SocketsStayAgreed` | `Steady => []SocketsAgree` |

`Prompt` is the hypothesis of all: `late`, `race` and `readkeep` are not among the faults, all
others may be, `readfail` among them. With any of the three `AnswerBelongs` is false (`wifi_race`,
sections 3 and 5).
`HandlerNeverBlocks`, `HeldForAnAnswer` and `DataParsedAsData` may well hold with `late` and `readkeep`, as `wifi_faults` finds on its instance; that is
not proved, because an answer that was given up, or a closing that stays owed, breaks the
account below.

None of the properties is inductive. Each command, event and message has a *class*:
the call of the thread, the phases of a read (`query`, `read`, `PART`, `DATA`, `OK`), the
closing of a socket, and the kinds of news. `CallInv` says, in four parts:

* `FlowInv`: of each class there is one item at most, in one of the three sequences, and
  where the order matters (`Precedes`: the header of the data, the data, its OK, the
  next query; an answer and the data it brings; what a reset makes obsolete) they are
  in that order. It follows that the queue never holds more than seven events, so
  that none is dropped.
* `ItemInv`: what an item means for who is to handle it: an ID or a closing is of a
  socket the module has, an EMPTY of a socket without data, the command on its way is
  the one the thread waits for.
* `SocketInv`: the flags of the driver (`reading`, `swallow`, `dataCb`, `dequeue`,
  `closing`, `stop`) say how far the read or the closing has come, and which of its
  items is under way. Events are held back for these two and nothing else.
* `ThreadInv`: what may be under way in each wait of the thread: one call, no unread
  data but after a CONNECT, no closing by the server but in `HAL_Delay`, a reset only
  when no socket is read or closed.

The preservation has a lemma for each thing the thread, the timer handler, SysTick, the
module and the server do (`ThreadKeeps`, `TimerPopKeeps`, `TimerChainKeeps`,
`ParseKeeps`, `ModuleActsKeeps`, `JoinsKeeps`, `DroppedKeeps`, `ServerClosesKeeps`). They
rest on what an `Append` and a `Tail` do to the classes of a sequence, and on
`SameMeaning`: an item keeps its meaning when what it speaks of is unchanged, or
nothing of its class is under way.

`SocketsStayAgreed` has a second hypothesis, `Steady`: the access point keeps the
module (without it a reset leaves the driver's table and count as they were, section
3), and the driver may have a client at all. `SocketsAgree` speaks of the moments in
which nothing is under way; `AgreeInv`, inductive together with `CallInv`, says what
holds in between, and it is where the three parties may differ:

* `Joined`: until the module has told that it joined the network there is no socket, and
  it tells it to a program that does nothing else meanwhile; after that it is not reset.
* `OneSocket`: there is one socket at most, it is the one that is counted, and outside
  the wait for an opening it is `n.my_socket`.
* `Ahead`: the module has a socket the driver does not know only while its ID is on the
  way, and has closed one the driver still has only while the answer to the closing is.
* `Forgotten`: the program opens a socket only when there is none, or when one is on its
  way to be closed: its closing is queued, sent, answered, or owed until the data
  of the socket is read.

`AgreeKept` is the lemma most steps need: a step that changes neither a socket nor an item
that speaks of an opening or a closing keeps `AgreeInv`.

### Lists and timers

`BleListProofs`, for any set of cells and lists of any length: `InitIsEmpty`,
`EmptyIsEmpty`, `InsertTailAppends`, `InsertHeadPrepends`, `RemoveHeadTakesFirst`,
`RemoveTailTakesLast` say what each operation does to the list it is called on;
`InsertLeavesOthers` and `RemoveLeavesOthers` that a list which shares no cell with
it (`Apart`) is as it was; `HeadToTail` and `TailToHead` put them together into
what `hci.c` does with a packet: out of the one list, into the other, and the two still
share nothing. These are the steps `HciTransport` takes on sequences.

`GpTimer`, for a clock of any number of values: `TimerExact` (expired if and only if the
interval has elapsed, wherever the clock wraps around, up to one tick short of a
turn), `TimerMissed` (in that tick the 1 the code adds wraps to 0, and no timer is
expired), `ResetDoesNotDrift`, `RemainingUntilDue`. They rest on `OneTurn`: a sum
or difference of two times is off by one turn at most.

### Only model-checked

All liveness (the prover has no rule for it here); of `WifiStation` whatever
its runs show with late answers; of the BLE modules every instance with more
than one slot or node: there the loops go over the table more than once, and
what such a loop computes takes induction over the data.

## 5. Not modelled, and why

* SPI give-up is modelled as a silent loss; the SPI frame and pins are not. A
  request that was given up runs into its time-out.
* A late answer with the opcode of a retry is taken for the retry's answer. The
  model has this behaviour, and no property excludes it: the protocol has no
  sequence numbers.
* Streams while a client leaves and advertising during a scan: a notification queued
  behind the client's disconnection overwrites `DISABLE_NOTIFICATIONS`, and a client
  that leaves during a scan makes the application advertise. The model has both;
  no property claims otherwise.
* In the WiFi driver: the text of the AT protocol, server sockets, the module's web
  server, files, GPIO and settings, which this application does not use; the
  refusal of a UART that is busy with another command; a time-out in the middle of a
  socket read (the bound `NotReading`); the few instructions in which SysTick may
  reset an event that the thread has filled in and not yet queued; socket data above 511
  bytes, which is read in pieces (1663-1682): this build is sent a CONNACK only.
* A read that fails. `ParseReadError` has the three texts of `wifi_module.c:1501-1585`: events are let
  go, nothing is queued for the thread, and nothing asks for what is left of the data. When
  the closing of that socket had been put off, it is then never done, against the comment
  at 1283; the socket is lost, and its `socket_close_pending` is inherited by the next
  one of the same id. The fault `readkeep` has this, and with it `AnswerBelongs`,
  `OneCallUnderWay` and `SocketsAgree` fail; `wifi_faults` has it, `wifi_station` and
  the proofs have `readfail`, without it. "Too many sockets" during a read (1507-1528)
  answers the thread and leaves the flags of the read set; it takes an opening under way beside the
  read, which needs a fault that the proofs exclude (`Prompt`).
  The text of a failed read that arrives in several chunks, its beginning taken for the four
  bytes of a CONNACK (1593, against the comment at 1588), is below the model: its messages
  are whole.
* In the WiFi program: `REGISTERED` mode, tokens from the NFC tag, the JSON text, the
  flags of the scan (`Scan_Ongoing`, `SSID_found`).
* The MQTT library beyond connect and publish, the console, the vendor HAL, the
  generated start-up code: third party or pure I/O. The L475 variant is the same
  application. `hci_dma_lp.c` is not built.
* `BlueNRG_Init` and `Add_All_Services` run once, in order, before the
  loop; their failures only print.
* Nearly all of the repository's lines are vendor headers and drivers (some 1.36
  million); the program's own code, which is what is modelled, is a small
  fraction of them.

## 6. What could follow

1. *Node life cycle*: what the application promises of a node (free, found,
   linked, served, lost) as an abstract specification, implemented by `BleMaster`
   for one slot.
2. *REGISTERED mode*: the commands from the cloud through `messageArrived` into
   `BleSlave`, which joins the two halves of the main loop.
3. *The event buffer* of the WiFi driver as a ring of its own, with the one
   `wifi_event` that two contexts fill in.
4. *Proofs*: `HandlerNeverBlocks`, `HeldForAnAnswer` and `DataParsedAsData` with late
   answers, which are a class of their own of any number.

## 7. Running it

    tlc -config Hci.cfg MCHciTransport            # and HciDeaf.cfg
    tlc -config BleLink.cfg MCBleMaster           # and the other Ble*.cfg
    tlc -config WifiUart.cfg WifiUart             # and WifiDeaf.cfg
    tlc -config WifiStation.cfg WifiStation       # and WifiFaults.cfg, WifiRace.cfg,
                                                  # WifiStart.cfg
    tlapm HciTransportProofs.tla                  # BleMasterProofs, BleClientProofs,
                                                  # WifiUartProofs, WifiStationProofs,
                                                  # WifiCallProofs, BleListProofs, GpTimer
