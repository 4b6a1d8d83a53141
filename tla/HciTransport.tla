---------------------------- MODULE HciTransport ----------------------------
(***************************************************************************)
(* The HCI transport between the application and the BlueNRG controller:   *)
(* hci.c with the SPI driver under it.  One thread (the main loop) and one *)
(* interrupt handler share a fixed set of packet buffers.  A buffer is in  *)
(* the pool, in the receive queue, in the temporary queue of hci_send_req, *)
(* or in the hands of HCI_Event_CB.  The controller holds its events until *)
(* the host reads them over SPI and drives one interrupt line, which is    *)
(* high while it has something to read; the host sees only rising edges.   *)
(*                                                                         *)
(* Buffers are interchangeable, so the pool is a count.  An event keeps    *)
(* what the transport looks at (its kind and the opcode it answers) and,   *)
(* for the events meant for the application, an identity.                  *)
(***************************************************************************)
EXTENDS Integers, SequencesExt

CONSTANTS
  PacketNum,  \* HCI_READ_PACKET_NUM_MAX
  Opcodes,    \* the commands the application sends
  Notices,    \* events that answer no command
  Faults,     \* "hwerr" (EVT_HARDWARE_ERROR), "bad" (a malformed packet)
  CtrlMax,    \* bound: events the controller can hold
  OwedMax     \* bound: commands the controller accepts before it answers

ASSUME PacketNumAssumption == PacketNum \in Nat /\ PacketNum >= 2
ASSUME FaultsAssumption == Faults \subseteq {"hwerr", "bad"}

NoEvent == [kind |-> "none"]
NoCmd   == [event |-> "none"]

Answers == [kind : {"complete", "status_ok", "status_err"}, op : Opcodes]
Events  == Answers \cup [kind : {"notice"}, val : Notices] \cup [kind : Faults]

\* What hci_send_req waits for: r->event is EVT_CMD_STATUS or is left 0.
Cmds == [op : Opcodes, event : {"status", "complete"}]

\* Where the thread is.  In "main" and "callback" it runs application code.
PCs == {"main", "process", "process_isr", "callback",
        "free", "send", "wait", "kept", "failed"}

VARIABLES
  pool,       \* number of buffers in hciReadPktPool
  rxQueue,    \* hciReadPktRxQueue
  tempQueue,  \* hciTempQueue of the running hci_send_req
  hand,       \* the event HCI_Process has passed to HCI_Event_CB
  cmd,        \* the request hci_send_req is working on
  expired,    \* its timer has run out
  pc,         \* control point of the thread
  isr,        \* HCI_Isr is running, as the handler or called by the thread
  irq,        \* the SPI interrupt is enabled in the NVIC
  exti,       \* the EXTI pending flag of the line
  ctrl,       \* events the controller holds for the host
  owed        \* commands the controller has still to answer

hostVars == <<pool, rxQueue, tempQueue, hand, cmd, expired, pc, isr, irq>>
vars == <<hostVars, exti, ctrl, owed>>

Init ==
  /\ pool = PacketNum
  /\ rxQueue = <<>> /\ tempQueue = <<>>
  /\ hand = NoEvent /\ cmd = NoCmd /\ expired = FALSE
  /\ pc = "main" /\ isr = FALSE
  /\ irq = TRUE /\ exti = FALSE
  /\ ctrl = <<>> /\ owed = <<>>

-----------------------------------------------------------------------------
(* The controller and the line.                                            *)

\* The line rises when the first event becomes readable; further events
\* keep it high and make no edge.
Post(e) ==
  /\ Len(ctrl) < CtrlMax
  /\ ctrl' = Append(ctrl, e)
  /\ exti' = (exti \/ ctrl = <<>>)

\* An event nobody asked for.
CtrlNotify ==
  /\ \E e \in Events \ Answers : Post(e)
  /\ UNCHANGED <<hostVars, owed>>

\* The answer to the oldest command the controller has accepted.
CtrlAnswer ==
  /\ owed # <<>>
  /\ \E e \in Answers : e.op = Head(owed) /\ Post(e)
  /\ owed' = Tail(owed)
  /\ UNCHANGED hostVars

-----------------------------------------------------------------------------
(* HCI_Isr: read events while there are some and a buffer is free.         *)

\* Entering HCI_Isr clears the pending flag.
CallIsr == isr' = TRUE /\ exti' = FALSE

\* The interrupt is taken between two steps of the thread.
IsrInterrupt ==
  /\ irq /\ exti /\ ~isr
  /\ CallIsr
  /\ UNCHANGED <<pool, rxQueue, tempQueue, hand, cmd, expired, pc, irq, ctrl, owed>>

\* (Mutant: the pool is not tested before a buffer is taken.)
IsrReadUnguarded ==
  /\ isr /\ ctrl # <<>>
  /\ pool' = pool - 1
  /\ rxQueue' = Append(rxQueue, Head(ctrl))
  /\ ctrl' = Tail(ctrl)
  /\ exti' = FALSE
  /\ UNCHANGED <<tempQueue, hand, cmd, expired, pc, isr, irq, owed>>

\* One event is read; HCI_verify sends a malformed one back to the pool.
IsrRead ==
  /\ isr /\ ctrl # <<>> /\ pool > 0
  /\ IF Head(ctrl).kind = "bad"
     THEN UNCHANGED <<pool, rxQueue>>
     ELSE /\ pool' = pool - 1
          /\ rxQueue' = Append(rxQueue, Head(ctrl))
  /\ ctrl' = Tail(ctrl)
  /\ exti' = FALSE
  /\ UNCHANGED <<tempQueue, hand, cmd, expired, pc, isr, irq, owed>>

\* It returns when the line is low, or when no buffer is free: in that case
\* the flag is cleared although the controller still holds events.
IsrReturn ==
  /\ isr
  /\ \/ ctrl = <<>> /\ UNCHANGED exti
     \/ ctrl # <<>> /\ pool = 0 /\ exti' = FALSE
  /\ isr' = FALSE
  /\ UNCHANGED <<pool, rxQueue, tempQueue, hand, cmd, expired, pc, irq, ctrl, owed>>

-----------------------------------------------------------------------------
(* HCI_Process.  No step of the thread happens while HCI_Isr runs.         *)

\* IRQ off.
ProcessBegin ==
  /\ pc = "main" /\ ~isr
  /\ irq' = FALSE /\ pc' = "process"
  /\ UNCHANGED <<pool, rxQueue, tempQueue, hand, cmd, expired, isr, exti, ctrl, owed>>

\* Take the oldest event, IRQ on, call HCI_Event_CB.
ProcessTake ==
  /\ pc = "process" /\ ~isr
  /\ rxQueue # <<>>
  /\ hand' = Head(rxQueue) /\ rxQueue' = Tail(rxQueue)
  /\ irq' = TRUE /\ pc' = "callback"
  /\ UNCHANGED <<pool, tempQueue, cmd, expired, isr, exti, ctrl, owed>>

\* HCI_Event_CB returns: IRQ off, the buffer goes back to the pool.
ProcessRelease ==
  /\ pc = "callback" /\ ~isr
  /\ hand' = NoEvent /\ pool' = pool + 1
  /\ irq' = FALSE /\ pc' = "process"
  /\ UNCHANGED <<rxQueue, tempQueue, cmd, expired, isr, exti, ctrl, owed>>

\* (Mutant: HCI_Process ends without the explicit call of HCI_Isr.)
ProcessPollNoIsr ==
  /\ pc = "process" /\ ~isr
  /\ rxQueue = <<>>
  /\ pc' = "process_isr"
  /\ UNCHANGED <<pool, rxQueue, tempQueue, hand, cmd, expired, isr, irq, exti, ctrl, owed>>

\* The queue is empty: the explicit call of HCI_Isr, then IRQ on.
ProcessPoll ==
  /\ pc = "process" /\ ~isr
  /\ rxQueue = <<>>
  /\ CallIsr /\ pc' = "process_isr"
  /\ UNCHANGED <<pool, rxQueue, tempQueue, hand, cmd, expired, irq, ctrl, owed>>

ProcessEnd ==
  /\ pc = "process_isr" /\ ~isr
  /\ irq' = TRUE /\ pc' = "main"
  /\ UNCHANGED <<pool, rxQueue, tempQueue, hand, cmd, expired, isr, exti, ctrl, owed>>

-----------------------------------------------------------------------------
(* hci_send_req, called by the main loop or inside HCI_Event_CB.  Every    *)
(* caller in the repository passes async = FALSE.                          *)

\* The caller's control point.
Caller == IF hand = NoEvent THEN "main" ELSE "callback"

\* free_event_list starts: IRQ off.
Request(c) ==
  /\ pc \in {"main", "callback"} /\ ~isr
  /\ cmd' = c
  /\ irq' = FALSE /\ pc' = "free"
  /\ UNCHANGED <<pool, rxQueue, tempQueue, hand, expired, isr, exti, ctrl, owed>>

\* (Mutant: the bound is not halved.)
PoolNotFull == pool < PacketNum

\* Half of the buffers must be free before a command is sent.
PoolTooSmall == pool < PacketNum \div 2

\* The oldest queued event is dropped and HCI_Isr is called.
FreeDrop ==
  /\ pc = "free" /\ ~isr
  /\ PoolTooSmall /\ rxQueue # <<>>
  /\ rxQueue' = Tail(rxQueue) /\ pool' = pool + 1
  /\ CallIsr
  /\ UNCHANGED <<tempQueue, hand, cmd, expired, pc, irq, ctrl, owed>>

FreeEnd ==
  /\ pc = "free" /\ ~isr
  /\ ~PoolTooSmall
  /\ irq' = TRUE /\ pc' = "send"
  /\ UNCHANGED <<pool, rxQueue, tempQueue, hand, cmd, expired, isr, exti, ctrl, owed>>

\* The command goes out, or is given up in silence after 100 ms because the
\* controller did not take it; either way the timer starts.
SendCmd ==
  /\ pc = "send" /\ ~isr
  /\ \/ Len(owed) < OwedMax /\ owed' = Append(owed, cmd.op)
     \/ UNCHANGED owed
  /\ expired' = FALSE /\ pc' = "wait"
  /\ UNCHANGED <<pool, rxQueue, tempQueue, hand, cmd, isr, irq, exti, ctrl>>

\* Time passes, in the thread or in the handler.
TimerExpires ==
  /\ pc \in {"wait", "kept"} /\ ~expired
  /\ expired' = TRUE
  /\ UNCHANGED <<pool, rxQueue, tempQueue, hand, cmd, pc, isr, irq, exti, ctrl, owed>>

\* What the switch over the event code decides: the request is answered, has
\* failed, or must go on waiting.
IsAnswer(e) ==
  \/ e.kind = "complete" /\ e.op = cmd.op
  \/ e.kind \in {"status_ok", "status_err"} /\ e.op = cmd.op /\ cmd.event = "status"

IsFailure(e) ==
  \/ e.kind = "hwerr"
  \/ e \in Answers /\ e.op # cmd.op
  \/ e.kind = "status_err" /\ cmd.event # "status"

\* One pass over the wait loop finds the timer running and an event queued.
CanTake == pc = "wait" /\ ~isr /\ ~expired /\ rxQueue # <<>>

\* (Mutant: the kept events are put back behind the newer ones.)
FinishAppending ==
  /\ pool' = pool + 1
  /\ rxQueue' = Tail(rxQueue) \o tempQueue /\ tempQueue' = <<>>
  /\ cmd' = NoCmd /\ irq' = TRUE /\ pc' = Caller
  /\ UNCHANGED <<hand, expired, isr, exti, ctrl, owed>>

\* (Mutant: the consumed packet is not returned to the pool.)
FinishLeaking ==
  /\ rxQueue' = tempQueue \o Tail(rxQueue) /\ tempQueue' = <<>>
  /\ cmd' = NoCmd /\ irq' = TRUE /\ pc' = Caller
  /\ UNCHANGED <<pool, hand, expired, isr, exti, ctrl, owed>>

\* (Mutant: no move_list; the kept packets stay on the abandoned list.)
FinishWithoutMove ==
  /\ pool' = pool + 1
  /\ rxQueue' = Tail(rxQueue) /\ UNCHANGED tempQueue
  /\ cmd' = NoCmd /\ irq' = TRUE /\ pc' = Caller
  /\ UNCHANGED <<hand, expired, isr, exti, ctrl, owed>>

\* (Mutant: the kept packets are freed instead of moved back.)
FinishDiscarding ==
  /\ pool' = pool + 1 + Len(tempQueue)
  /\ rxQueue' = Tail(rxQueue) /\ tempQueue' = <<>>
  /\ cmd' = NoCmd /\ irq' = TRUE /\ pc' = Caller
  /\ UNCHANGED <<hand, expired, isr, exti, ctrl, owed>>

\* move_list puts the kept events back in front of the receive queue.
Finish ==
  /\ pool' = pool + 1
  /\ rxQueue' = tempQueue \o Tail(rxQueue) /\ tempQueue' = <<>>
  /\ cmd' = NoCmd /\ irq' = TRUE /\ pc' = Caller
  /\ UNCHANGED <<hand, expired, isr, exti, ctrl, owed>>

\* done: returns 0.
TakeAnswer ==
  /\ CanTake /\ IsAnswer(Head(rxQueue))
  /\ Finish

\* failed: returns -1.  The event that caused it is consumed too.
TakeFailure ==
  /\ CanTake /\ IsFailure(Head(rxQueue))
  /\ Finish

\* (Mutant: the event is set aside even when its buffer is the last one.)
KeepAlways ==
  /\ CanTake
  /\ ~IsAnswer(Head(rxQueue)) /\ ~IsFailure(Head(rxQueue))
  /\ tempQueue' = Append(tempQueue, Head(rxQueue))
  /\ rxQueue' = Tail(rxQueue)
  /\ irq' = FALSE /\ pc' = "kept"
  /\ CallIsr
  /\ UNCHANGED <<pool, hand, cmd, expired, ctrl, owed>>

\* Neither: the event is set aside, or discarded when its buffer is the only
\* one left for the answer; then HCI_Isr is called, IRQ off.
KeepOther ==
  /\ CanTake
  /\ ~IsAnswer(Head(rxQueue)) /\ ~IsFailure(Head(rxQueue))
  /\ IF pool = 0 /\ Tail(rxQueue) = <<>>
     THEN pool' = pool + 1 /\ UNCHANGED tempQueue
     ELSE tempQueue' = Append(tempQueue, Head(rxQueue)) /\ UNCHANGED pool
  /\ rxQueue' = Tail(rxQueue)
  /\ irq' = FALSE /\ pc' = "kept"
  /\ CallIsr
  /\ UNCHANGED <<hand, cmd, expired, ctrl, owed>>

\* (Mutant: the loop goes on with the IRQ off.)
KeepEndDeaf ==
  /\ pc = "kept" /\ ~isr
  /\ pc' = "wait"
  /\ UNCHANGED <<pool, rxQueue, tempQueue, hand, cmd, expired, isr, irq, exti, ctrl, owed>>

\* (Mutant: the timer is set again for every packet.)
KeepEndRearm ==
  /\ pc = "kept" /\ ~isr
  /\ expired' = FALSE /\ irq' = TRUE /\ pc' = "wait"
  /\ UNCHANGED <<pool, rxQueue, tempQueue, hand, cmd, isr, exti, ctrl, owed>>

KeepEnd ==
  /\ pc = "kept" /\ ~isr
  /\ irq' = TRUE /\ pc' = "wait"
  /\ UNCHANGED <<pool, rxQueue, tempQueue, hand, cmd, expired, isr, exti, ctrl, owed>>

\* The timer is looked at before the queue.  On this path the IRQ stays on,
\* so move_list runs one packet at a time against the handler.
WaitTimeout ==
  /\ pc = "wait" /\ ~isr /\ expired
  /\ pc' = "failed"
  /\ UNCHANGED <<pool, rxQueue, tempQueue, hand, cmd, expired, isr, irq, exti, ctrl, owed>>

FailedMove ==
  /\ pc = "failed" /\ ~isr
  /\ tempQueue # <<>>
  /\ rxQueue' = <<Last(tempQueue)>> \o rxQueue
  /\ tempQueue' = Front(tempQueue)
  /\ UNCHANGED <<pool, hand, cmd, expired, pc, isr, irq, exti, ctrl, owed>>

FailedEnd ==
  /\ pc = "failed" /\ ~isr
  /\ tempQueue = <<>>
  /\ cmd' = NoCmd /\ irq' = TRUE /\ pc' = Caller
  /\ UNCHANGED <<pool, rxQueue, tempQueue, hand, expired, isr, exti, ctrl, owed>>

-----------------------------------------------------------------------------
Isr == IsrRead \/ IsrReturn

Process == ProcessTake \/ ProcessRelease \/ ProcessPoll \/ ProcessEnd

SendReq ==
  \/ FreeDrop \/ FreeEnd \/ SendCmd
  \/ TakeAnswer \/ TakeFailure \/ KeepOther \/ KeepEnd
  \/ WaitTimeout \/ FailedMove \/ FailedEnd

Next ==
  \/ CtrlNotify \/ CtrlAnswer
  \/ IsrInterrupt \/ Isr
  \/ ProcessBegin \/ Process
  \/ \E c \in Cmds : Request(c)
  \/ SendReq \/ TimerExpires

Spec == Init /\ [][Next]_vars

\* The handler and straight-line code run on, time passes, and the main loop
\* and the callbacks send finitely many commands before they go on.
Fairness ==
  /\ WF_vars(Isr)
  /\ WF_vars(IsrInterrupt)
  /\ WF_vars(TimerExpires)
  /\ WF_vars(SendReq)
  /\ WF_vars(ProcessTake \/ ProcessPoll \/ ProcessEnd)
  /\ SF_vars(ProcessBegin)
  /\ SF_vars(ProcessRelease)

\* HCI_Isr reads on as long as the line is high and a buffer is free: malformed
\* packets, which use up none, must not come for ever.
MalformedComes == Len(ctrl') > Len(ctrl) /\ ctrl'[Len(ctrl')].kind = "bad"

MalformedEnds == <>[][~MalformedComes]_vars

FairSpec == Spec /\ Fairness /\ MalformedEnds

-----------------------------------------------------------------------------
(* Type invariant.                                                         *)

TypeOK ==
  /\ pool \in Nat
  /\ rxQueue \in Seq(Events) /\ tempQueue \in Seq(Events) /\ ctrl \in Seq(Events)
  /\ hand \in Events \cup {NoEvent}
  /\ cmd \in Cmds \cup {NoCmd}
  /\ owed \in Seq(Opcodes)
  /\ pc \in PCs
  /\ expired \in BOOLEAN /\ isr \in BOOLEAN
  /\ irq \in BOOLEAN /\ exti \in BOOLEAN

-----------------------------------------------------------------------------
(* Safety.                                                                 *)

InHand == IF hand = NoEvent THEN 0 ELSE 1

\* No packet buffer is leaked or used twice: at every step the free ones and
\* those that hold an event add up to HCI_READ_PACKET_NUM_MAX.
BuffersConserved ==
  pool + Len(rxQueue) + Len(tempQueue) + InHand = PacketNum

\* free_event_list removes the head of the receive queue without looking
\* whether there is one: whenever it does, the queue is not empty, though an
\* event may be in the hands of the callback that is sending the command.
DropFindsAnEvent ==
  pc = "free" /\ ~isr /\ PoolTooSmall => rxQueue # <<>>

\* A waiting hci_send_req always has a buffer for its answer: one is free, or
\* one holds an event it will take next (the purpose of the discard rule).
RoomForAnswer ==
  pc = "wait" => pool > 0 \/ rxQueue # <<>>

\* The interrupt is off exactly in the sections that take packets off a queue
\* and off while the thread itself runs HCI_Isr, so that handler and thread
\* are never both inside it; every path out of hci.c turns it on again.
IrqDiscipline ==
  irq <=> pc \in {"main", "callback", "send", "wait", "failed"}

\* Events set aside by hci_send_req exist only while a request is worked on:
\* HCI_Process never passes a newer event on before them.
NothingSetAsideOutsideRequest ==
  tempQueue # <<>> => pc \in {"wait", "kept", "failed"}

-----------------------------------------------------------------------------
(* Order and loss.                                                         *)

\* Everything the application may still see, oldest first.
Outstanding == tempQueue \o rxQueue \o ctrl

\* The transport implements the in-order event stream.
EventStream == INSTANCE HciEventStream WITH
  Event <- Events, Nothing <- NoEvent, stream <- Outstanding, current <- hand

InOrderDelivery == EventStream!Spec

NoticesIn(s) == {i \in 1..Len(s) : s[i].kind = "notice"}

NoticeCount == Cardinality(NoticesIn(Outstanding))

\* An event that is not about a command vanishes without reaching
\* HCI_Event_CB only under load: half of the buffers are queued, or none is
\* free.  Answers, failures, timeouts and malformed packets lose none.
NoticesLostOnlyUnderLoad ==
  [][NoticeCount' < NoticeCount =>
       \/ hand = NoEvent /\ hand' # NoEvent
       \/ 2 * Len(rxQueue) >= PacketNum
       \/ pool = 0]_vars

-----------------------------------------------------------------------------
(* Liveness.                                                               *)

\* Once its command is written, every hci_send_req returns, whatever the
\* controller sends or keeps back.  (free_event_list before it returns only if
\* events arrive more slowly than it drops them: with the IRQ off and HCI_Isr
\* refilling the queue it has no other bound.)
RequestReturns == pc = "send" ~> cmd = NoCmd

\* Whatever the controller holds is attended to: HCI_Isr runs with a free
\* buffer, although the line stays high and makes no further edge.
LineAttended == ctrl # <<>> ~> isr /\ pool > 0

-----------------------------------------------------------------------------
(* Properties the code does not have.                                      *)

\* While hci_send_req waits with free buffers and nothing queued, the line
\* being high must have an interrupt on its way, or the answer is never read.
WaitIsNotDeaf ==
  pc = "wait" /\ ~isr /\ rxQueue = <<>> /\ pool > 0 /\ ctrl # <<>> => exti
=============================================================================
