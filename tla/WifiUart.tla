------------------------------ MODULE WifiUart ------------------------------
(***************************************************************************)
(* The receiving side of the WiFi module's UART: ring_buffer.c and the     *)
(* receive functions of wifi_module.c.  Three contexts share it.  The UART *)
(* interrupt pushes one byte at a time and starts the receiver again; the  *)
(* SysTick interrupt, which it preempts, pops what has come, parses it and *)
(* puts some of it back; the main thread, which both preempt, sends AT     *)
(* commands, during which the receiver is not started again.  The module   *)
(* has hardware flow control: it sends only to a started receiver.         *)
(*                                                                         *)
(* A byte is its position in the stream.  The parser is abstract: it puts  *)
(* back any number of the bytes of the last pop, less those that have      *)
(* arrived meanwhile (a pass uses at least as many bytes as arrive while   *)
(* it runs), and not the whole of two pops running.                        *)
(***************************************************************************)
EXTENDS Integers, Sequences

CONSTANTS
  Size,    \* RINGBUF_SIZE
  Chunk,   \* MAX_BUFFER_GLOBAL
  Margin,  \* the 100 of is_half_full and is_half_empty
  Slack,   \* bound: receiver starts above the half-full mark in a row
  MaxSent, \* bound: bytes the module sends
  Faults   \* "preempt": a byte is waiting when the receiver is started
           \* "txerr": HAL_UART_Transmit times out

ASSUME SizeAssumption ==
  /\ Chunk \in Nat /\ Chunk >= 2
  /\ Size = 2 * Chunk
  /\ Margin \in Nat /\ 2 * Margin < Size
  /\ Slack \in Nat /\ 0 < Slack /\ Slack < Margin
ASSUME MaxSentAssumption == MaxSent \in Nat
ASSUME FaultsAssumption == Faults \subseteq {"preempt", "txerr"}

VARIABLES
  mem, start, end, count,  \* the ring: element, start, end, count
  popped,       \* pop_buffer, pop_buffer_size long
  armed,        \* HAL_UART_Receive_IT is under way
  rxProcessing, \* Uartx_Rx_Processing
  resume,       \* resume_receive_data
  atProcessing, \* AT_Cmd_Processing
  dequeue,      \* enable_dequeue
  tick,         \* control point of the SysTick interrupt
  pc,           \* control point of the main thread
  sent,         \* bytes the module has sent
  taken,        \* bytes the parser has taken and not put back
  spare,        \* bytes the parser may still put back
  base          \* taken when the last pass of the parser began

ring  == <<mem, start, end, count>>
rx    == <<armed, rxProcessing, resume>>
vars  == <<ring, popped, rx, atProcessing, dequeue, tick, pc, sent, taken,
           spare, base>>

HalfFull == Size - Margin    \* count from which is_half_full says yes

Init ==
  /\ mem = [i \in 0..Size-1 |-> 0]
  /\ start = 0 /\ end = 0 /\ count = 0 /\ popped = <<>>
  /\ armed = TRUE /\ rxProcessing = TRUE /\ resume = FALSE
  /\ atProcessing = FALSE /\ dequeue = TRUE
  /\ tick = "idle" /\ pc = "idle"
  /\ sent = 0 /\ taken = 0 /\ spare = 0 /\ base = -1

-----------------------------------------------------------------------------
(* ring_buffer.c.                                                          *)

\* (Mutant: the index is set back one slot too late.)
WrapLate(i) == IF i > Size THEN i - Size ELSE i

Wrap(i) == IF i >= Size THEN i - Size ELSE i

\* push_buffer_queue: a byte that does not fit is dropped.
Push(b) ==
  IF count = Size
  THEN UNCHANGED ring
  ELSE /\ mem' = [mem EXCEPT ![end] = b]
       /\ end' = Wrap(end + 1)
       /\ count' = count + 1
       /\ UNCHANGED start

\* The n bytes that two memcpys take from the ring, wrapping at its end.
Bytes(n) == [i \in 1..n |-> mem[Wrap(start + i - 1)]]

\* pop_buffer_queue with enable_receive_data_chunk: all of it when it fits
\* in pop_buffer, else one chunk less the final zero.
PopAll ==
  /\ count < Chunk
  /\ popped' = Bytes(count)
  /\ start' = end /\ count' = 0

\* (Mutant: the byte under the final zero is given too.)
PopChunkWhole ==
  /\ count >= Chunk
  /\ popped' = Bytes(Chunk)
  /\ start' = Wrap(start + Chunk - 1)
  /\ count' = count - (Chunk - 1)

PopChunk ==
  /\ count >= Chunk
  /\ popped' = Bytes(Chunk - 1)
  /\ \/ /\ end >= start
        /\ start' = start + (Chunk - 1)
        /\ count' = end - start'
     \/ /\ end < start /\ start + (Chunk - 1) < Size
        /\ start' = start + (Chunk - 1)
        /\ count' = (Size - start') + end
     \/ /\ end < start /\ start + (Chunk - 1) >= Size
        /\ start' = start - (Chunk + 1)
        /\ count' = end - start'

\* Without the flag: one byte.
PopByte ==
  /\ popped' = Bytes(1)
  /\ start' = Wrap(start + 1)
  /\ count' = count - 1

\* (Mutant: the count is not corrected for a ring that wraps.)
RewindNoWrap(n) ==
  /\ start' = IF start - n >= 0 THEN start - n ELSE Size - (n - start)
  /\ count' = end - start'

\* rewind_buffer_queue.
Rewind(n) ==
  \/ /\ start - n >= 0
     /\ start' = start - n
     /\ count' = IF end > start' THEN end - start' ELSE (Size - start') + end
  \/ /\ start - n < 0
     /\ start' = Size - (n - start)
     /\ count' = (Size - start') + end
-----------------------------------------------------------------------------
(* The UART interrupt.                                                     *)

\* HAL_UART_Receive_IT starts the receiver unless it runs, or
\* HAL_UART_Transmit holds the lock of the handle.
CanStart == ~armed /\ pc # "transmit"

\* A started receiver raises its interrupt at once when a byte is waiting:
\* also before the caller of HAL_UART_Receive_IT has noted that it runs.
Noting == tick = "flag" \/ pc = "flag"

\* (Mutant: the receiver is stopped by a full ring only.)
UartByteFull ==
  /\ armed /\ sent < MaxSent
  /\ Noting => "preempt" \in Faults
  /\ sent' = sent + 1
  /\ Push(sent + 1)
  /\ spare' = IF spare > 0 THEN spare - 1 ELSE 0
  /\ \/ /\ count' = Size
        /\ resume' = TRUE /\ armed' = FALSE /\ rxProcessing' = FALSE
     \/ /\ count' < Size
        /\ armed' = ~atProcessing /\ rxProcessing' = ~atProcessing
        /\ UNCHANGED resume
  /\ UNCHANGED <<popped, atProcessing, dequeue, tick, pc, taken, base>>

\* (Mutant: the request is made only between commands.)
UartByteNoRequest ==
  /\ armed /\ sent < MaxSent
  /\ Noting => "preempt" \in Faults
  /\ sent' = sent + 1
  /\ Push(sent + 1)
  /\ spare' = IF spare > 0 THEN spare - 1 ELSE 0
  /\ \/ /\ count' >= HalfFull
        /\ resume' = (resume \/ atProcessing)
        /\ armed' = FALSE /\ rxProcessing' = FALSE
     \/ /\ count' < HalfFull
        /\ armed' = ~atProcessing /\ rxProcessing' = ~atProcessing
        /\ UNCHANGED resume
  /\ UNCHANGED <<popped, atProcessing, dequeue, tick, pc, taken, base>>

\* WiFi_HAL_UART_RxCpltCallback.
UartByte ==
  /\ armed /\ sent < MaxSent
  /\ Noting => "preempt" \in Faults
  /\ sent' = sent + 1
  /\ Push(sent + 1)
  /\ spare' = IF spare > 0 THEN spare - 1 ELSE 0
  /\ \/ /\ count' >= HalfFull
        /\ resume' = TRUE /\ armed' = FALSE /\ rxProcessing' = FALSE
     \/ /\ count' < HalfFull
        /\ armed' = ~atProcessing /\ rxProcessing' = ~atProcessing
        /\ UNCHANGED resume
  /\ UNCHANGED <<popped, atProcessing, dequeue, tick, pc, taken, base>>

-----------------------------------------------------------------------------
(* The SysTick interrupt: Wifi_SysTick_Isr.                                *)

\* Process_WiFi is called and pop_buffer_queue gives it something.
TickPop ==
  /\ tick = "idle" /\ dequeue /\ count > 0
  /\ PopAll \/ PopChunk \/ PopByte
  /\ taken' = taken + Len(popped')
  /\ spare' = IF taken = base THEN Len(popped') - 1 ELSE Len(popped')
  /\ base' = taken
  /\ tick' = "parse"
  /\ UNCHANGED <<mem, end, rx, atProcessing, dequeue, pc, sent>>

\* Process_Buffer puts bytes back.
TickPutBack ==
  /\ tick = "parse"
  /\ \E n \in 1..spare :
       Rewind(n) /\ taken' = taken - n /\ spare' = spare - n
  /\ UNCHANGED <<mem, end, popped, rx, atProcessing, dequeue, tick, pc, sent,
                 base>>

\* Process_Buffer returns, after Stop_Dequeue when a chunk of a socket's
\* data waits for the user callback.
TickParsed ==
  /\ tick = "parse"
  /\ spare' = 0 /\ tick' = "resume"
  /\ dequeue' \in BOOLEAN
  /\ UNCHANGED <<ring, popped, rx, atProcessing, pc, sent, taken, base>>

\* Nothing to pop, or the dequeuing is stopped.
TickNothing ==
  /\ tick = "idle"
  /\ ~dequeue \/ count = 0
  /\ tick' = "resume"
  /\ UNCHANGED <<ring, popped, rx, atProcessing, dequeue, pc, sent, taken,
                 spare, base>>

\* (Mutant: the request is forgotten before the ring has drained.)
TickResumeForgetful ==
  /\ tick = "resume"
  /\ IF resume /\ count <= Margin
     THEN /\ resume' = FALSE /\ UNCHANGED rxProcessing
          /\ armed' = (armed \/ CanStart)
          /\ tick' = IF CanStart THEN "flag" ELSE "idle"
     ELSE resume' = FALSE /\ UNCHANGED <<armed, rxProcessing>> /\ tick' = "idle"
  /\ UNCHANGED <<ring, popped, atProcessing, dequeue, pc, sent, taken, spare,
                 base>>

\* A receiver that was stopped is started when the ring is nearly empty;
\* the request is forgotten even when the start is refused.
TickResume ==
  /\ tick = "resume"
  /\ IF resume /\ count <= Margin
     THEN /\ resume' = FALSE /\ UNCHANGED rxProcessing
          /\ armed' = (armed \/ CanStart)
          /\ tick' = IF CanStart THEN "flag" ELSE "idle"
     ELSE UNCHANGED rx /\ tick' = "idle"
  /\ UNCHANGED <<ring, popped, atProcessing, dequeue, pc, sent, taken, spare,
                 base>>

\* Receive_Data notes that the receiver runs.
TickFlag ==
  /\ tick = "flag"
  /\ rxProcessing' = TRUE /\ tick' = "idle"
  /\ UNCHANGED <<ring, popped, armed, resume, atProcessing, dequeue, pc, sent,
                 taken, spare, base>>

\* The timer interrupt has called back with the data: Resume_Dequeue.
ResumeDequeue ==
  /\ ~dequeue /\ dequeue' = TRUE
  /\ UNCHANGED <<ring, popped, rx, atProcessing, tick, pc, sent, taken, spare,
                 base>>

-----------------------------------------------------------------------------
(* The main thread: USART_Transmit_AT_Cmd, interrupted by SysTick.         *)

Main(from, to) == tick = "idle" /\ pc = from /\ pc' = to

AtBegin ==
  /\ Main("idle", "begin")
  /\ atProcessing' = TRUE
  /\ UNCHANGED <<ring, popped, rx, dequeue, tick, sent, taken, spare, base>>

AtLock ==
  /\ Main("begin", "transmit")
  /\ UNCHANGED <<ring, popped, rx, atProcessing, dequeue, tick, sent, taken,
                 spare, base>>

AtSent ==
  /\ Main("transmit", "sent")
  /\ UNCHANGED <<ring, popped, rx, atProcessing, dequeue, tick, sent, taken,
                 spare, base>>

\* The transmission times out: the receiver is stopped with it, and
\* atProcessing stays.
AtTimeout ==
  /\ "txerr" \in Faults
  /\ Main("transmit", "error")
  /\ armed' = FALSE
  /\ UNCHANGED <<ring, popped, rxProcessing, resume, atProcessing, dequeue,
                 tick, sent, taken, spare, base>>

AtClear ==
  /\ Main("sent", "check")
  /\ atProcessing' = FALSE
  /\ UNCHANGED <<ring, popped, rx, dequeue, tick, sent, taken, spare, base>>

\* Receive_Data, after the command if the receiver has stopped meanwhile,
\* and in Error_Handler.
AtReceive ==
  /\ tick = "idle"
  /\ pc \in {"check", "error"}
  /\ pc = "check" => ~rxProcessing
  /\ count < HalfFull + Slack
  /\ armed' = TRUE
  /\ pc' = IF armed THEN "idle" ELSE "flag"
  /\ UNCHANGED <<ring, popped, rxProcessing, resume, atProcessing, dequeue,
                 tick, sent, taken, spare, base>>

AtFlag ==
  /\ Main("flag", "idle")
  /\ rxProcessing' = TRUE
  /\ UNCHANGED <<ring, popped, armed, resume, atProcessing, dequeue, tick,
                 sent, taken, spare, base>>

AtReceiving ==
  /\ Main("check", "idle")
  /\ rxProcessing
  /\ UNCHANGED <<ring, popped, rx, atProcessing, dequeue, tick, sent, taken,
                 spare, base>>

-----------------------------------------------------------------------------
Tick == TickPop \/ TickParsed \/ TickNothing \/ TickResume \/ TickFlag
Command == AtLock \/ AtSent \/ AtClear \/ AtReceive \/ AtFlag \/ AtReceiving

Next ==
  \/ UartByte \/ Tick \/ TickPutBack \/ ResumeDequeue
  \/ AtBegin \/ Command \/ AtTimeout

Spec == Init /\ [][Next]_vars

\* SysTick keeps coming and the parser and the callback return; the
\* thread, once in a command, goes on.
Fairness ==
  /\ WF_vars(Tick) /\ WF_vars(ResumeDequeue)
  /\ SF_vars(Command)

FairSpec == Spec /\ Fairness

-----------------------------------------------------------------------------
(* Properties.                                                             *)

TypeOK ==
  /\ mem \in [0..Size-1 -> Nat]
  /\ start \in 0..Size-1 /\ end \in 0..Size-1 /\ count \in 0..Size
  /\ popped \in Seq(Nat) /\ Len(popped) < Chunk
  /\ armed \in BOOLEAN /\ rxProcessing \in BOOLEAN /\ resume \in BOOLEAN
  /\ atProcessing \in BOOLEAN /\ dequeue \in BOOLEAN
  /\ tick \in {"idle", "parse", "resume", "flag"}
  /\ pc \in {"idle", "begin", "transmit", "sent", "check", "error", "flag"}
  /\ sent \in Nat /\ taken \in Nat /\ base \in Nat \cup {-1}
  /\ spare \in 0..Chunk-1

\* The ring always has room for the bytes the parser may put back and for
\* those of a running receiver: although the half-full test sees only what
\* is in the ring, although a command starts the receiver above the mark,
\* and although rewind_buffer_queue tests nothing, no byte is dropped or
\* overwritten.
NothingOverrun ==
  /\ count + spare <= HalfFull + Slack
  /\ armed => count + spare < HalfFull + Slack

\* The two indices and the count, which each branch of pop and rewind
\* computes in its own way, say the same, and the ring holds the bytes from
\* the last one taken to the last one sent, as well as those that may be
\* put back.
RingHoldsStream ==
  /\ end = Wrap(start + count)
  /\ count = sent - taken
  /\ \A k \in 1..count : mem[Wrap(start + k - 1)] = taken + k

\* USART_Transmit_AT_Cmd has failed and has left AT_Cmd_Processing set: the
\* receiver runs for one byte more, until the next command.
CommandFailed == pc = "idle" /\ atProcessing

\* A receiver that does not run will be started again: by SysTick, or at
\* the end of the command under way.  USART_Transmit_AT_Cmd: "Start
\* receiving Rx from the UART again, if and only if it was stopped in the
\* previous Uartx_Rx_Handler".
ReceiverRestarted ==
  armed \/ resume \/ pc # "idle" \/ CommandFailed

Stream == INSTANCE ByteStream

\* The parser is given the stream of the module, each byte once and in
\* order whatever branch pops it, with what it puts back in its place.
ParserReadsStream == Stream!Spec

\* Whatever stops the receiver, it runs again: the ring drains down to the
\* mark, the command ends.
ReceiverRuns == ~armed ~> (armed \/ CommandFailed)
=============================================================================
