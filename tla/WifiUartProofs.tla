--------------------------- MODULE WifiUartProofs ---------------------------
(***************************************************************************)
(* Proofs about WifiUart for every size of the ring and every margin that  *)
(* SizeAssumption allows.  The inductive invariant says which position of  *)
(* the stream each slot holds, from the oldest byte that may still be put  *)
(* back to the newest; two lemmas reduce the branches of pop and rewind to *)
(* "the start moves n slots, the count changes by n".                      *)
(***************************************************************************)
EXTENDS WifiUart, SequenceTheorems, TLAPS

-----------------------------------------------------------------------------
(* The ring.                                                               *)

\* The slot i places from slot 0, in both directions.
Slot(i) == IF i < 0 THEN i + Size ELSE Wrap(i)

IndicesAgree == end = Wrap(start + count)

Content ==
  \A k \in (1 - spare)..count : mem[Slot(start + k - 1)] = taken + k

\* Each branch of pop_buffer_queue takes the n oldest bytes.
LEMMA PopTakes ==
  ASSUME TypeOK, IndicesAgree, count > 0, count < Size,
         PopAll \/ PopChunk \/ PopByte
  PROVE  \E n \in 1..(Chunk - 1) :
           /\ n <= count
           /\ popped' = Bytes(n)
           /\ start' = Wrap(start + n)
           /\ count' = count - n
  <1> USE SizeAssumption DEF TypeOK, IndicesAgree, Wrap
  <1>1. CASE PopAll
    <2>1. /\ count \in 1..(Chunk - 1) /\ popped' = Bytes(count)
          /\ start' = Wrap(start + count) /\ count' = count - count
      BY <1>1 DEF PopAll
    <2>2. QED
      BY <2>1
  <1>2. CASE PopChunk
    <2>1. Chunk - 1 \in 1..(Chunk - 1) /\ Chunk - 1 <= count
      BY <1>2 DEF PopChunk
    <2>2. popped' = Bytes(Chunk - 1)
      BY <1>2 DEF PopChunk
    <2>3. start' = Wrap(start + (Chunk - 1)) /\ count' = count - (Chunk - 1)
      BY <1>2 DEF PopChunk
    <2>4. QED
      BY <2>1, <2>2, <2>3
  <1>3. CASE PopByte
    <2>1. 1 \in 1..(Chunk - 1) /\ 1 <= count
      OBVIOUS
    <2>2. QED
      BY <1>3, <2>1 DEF PopByte
  <1>4. QED
    BY <1>1, <1>2, <1>3

\* rewind_buffer_queue undoes that, as long as nothing is written over.
LEMMA RewindGivesBack ==
  ASSUME TypeOK, IndicesAgree, NEW n \in Nat, n > 0, n + count < Size,
         Rewind(n)
  PROVE  start' = Slot(start - n) /\ count' = count + n
  BY SizeAssumption DEF TypeOK, IndicesAgree, Wrap, Slot, Rewind

LEMMA BytesIsASeq ==
  ASSUME TypeOK, NEW n \in Nat, n <= Size
  PROVE  Bytes(n) \in Seq(Nat) /\ Len(Bytes(n)) = n
  <1>1. \A i \in 1..n : Wrap(start + i - 1) \in 0..Size-1
    BY SizeAssumption DEF TypeOK, Wrap
  <1>2. \A i \in 1..n : mem[Wrap(start + i - 1)] \in Nat
    BY <1>1 DEF TypeOK
  <1>3. Bytes(n) \in [1..n -> Nat]
    BY <1>2 DEF Bytes
  <1>4. Bytes(n) \in Seq(Nat)
    BY <1>3, SeqDef
  <1>5. DOMAIN Bytes(n) = 1..n
    BY <1>3
  <1>6. Len(Bytes(n)) \in Nat /\ DOMAIN Bytes(n) = 1..Len(Bytes(n))
    BY <1>4, LenProperties
  <1>7. Len(Bytes(n)) = n
    BY <1>5, <1>6
  <1>8. QED
    BY <1>4, <1>7
-----------------------------------------------------------------------------
(* The inductive invariant of the data.                                    *)

IInv ==
  /\ TypeOK
  /\ NothingOverrun
  /\ IndicesAgree
  /\ count = sent - taken
  /\ spare <= taken
  /\ tick # "parse" => spare = 0
  /\ Content

\* The steps that leave the ring and the parser's position alone.
DataUnchanged ==
  UNCHANGED <<ring, popped, sent, taken, spare, base>>

LEMMA InitIInv == Init => IInv
  <1> SUFFICES ASSUME Init PROVE IInv
    OBVIOUS
  <1> USE SizeAssumption DEF Init
  <1>1. TypeOK
    <2>1. popped \in Seq(Nat) /\ Len(popped) = 0
      BY EmptySeq
    <2>2. QED
      BY <2>1 DEF TypeOK
  <1>2. NothingOverrun /\ IndicesAgree
    BY DEF NothingOverrun, HalfFull, IndicesAgree, Wrap
  <1>3. count = sent - taken /\ spare <= taken /\ (tick # "parse" => spare = 0)
    OBVIOUS
  <1>4. Content
    BY DEF Content
  <1>5. QED
    BY <1>1, <1>2, <1>3, <1>4 DEF IInv

\* The interrupt writes behind the newest byte, and there is room for that.
LEMMA UartByteIInv == IInv /\ UartByte => IInv'
  <1> SUFFICES ASSUME IInv, UartByte PROVE IInv'
    OBVIOUS
  <1> USE SizeAssumption DEF IInv, TypeOK
  <1>1. count + spare < HalfFull + Slack /\ count + spare < Size - 1
    BY DEF UartByte, NothingOverrun, HalfFull
  <1>2. /\ mem' = [mem EXCEPT ![end] = sent + 1]
        /\ end' = Wrap(end + 1) /\ count' = count + 1 /\ start' = start
        /\ sent' = sent + 1 /\ taken' = taken
        /\ spare' = IF spare > 0 THEN spare - 1 ELSE 0
        /\ UNCHANGED <<popped, atProcessing, dequeue, tick, pc, base>>
    BY <1>1 DEF UartByte, Push, ring
  <1>3. armed' => count' < HalfFull
    BY <1>2 DEF UartByte
  <1>4. armed' \in BOOLEAN /\ rxProcessing' \in BOOLEAN /\ resume' \in BOOLEAN
    BY DEF UartByte
  <1>5. TypeOK'
    <2>1. mem' \in [0..Size-1 -> Nat]
      BY <1>2
    <2>2. end' \in 0..Size-1 /\ count' \in 0..Size /\ spare' \in 0..Chunk-1
      BY <1>1, <1>2 DEF Wrap
    <2>3. QED
      BY <1>2, <1>4, <2>1, <2>2
  <1>6. NothingOverrun'
    BY <1>1, <1>2, <1>3 DEF NothingOverrun, HalfFull
  <1>7. IndicesAgree'
    BY <1>1, <1>2 DEF IndicesAgree, Wrap
  <1>8. Content'
    <2> SUFFICES ASSUME NEW k \in (1 - spare')..count'
                 PROVE  mem'[Slot(start' + k - 1)] = taken' + k
      BY DEF Content
    <2>1. CASE k = count + 1
      <3>1. Slot(start' + k - 1) = end
        BY <1>1, <1>2, <2>1 DEF IndicesAgree, Wrap, Slot
      <3>2. QED
        BY <1>2, <2>1, <3>1
    <2>2. CASE k # count + 1
      <3>1. k \in (1 - spare)..count
        BY <1>2, <2>2
      <3>2. Slot(start + k - 1) \in 0..Size-1 /\ Slot(start + k - 1) # end
        BY <1>1, <3>1 DEF IndicesAgree, Wrap, Slot
      <3>3. mem'[Slot(start + k - 1)] = mem[Slot(start + k - 1)]
        BY <1>2, <3>2
      <3>4. mem[Slot(start + k - 1)] = taken + k
        BY <3>1 DEF Content
      <3>5. QED
        BY <1>2, <3>3, <3>4
    <2>3. QED
      BY <2>1, <2>2
  <1>9. /\ count' = sent' - taken' /\ spare' <= taken'
        /\ tick' # "parse" => spare' = 0
    BY <1>2
  <1>10. QED
    BY <1>5, <1>6, <1>7, <1>8, <1>9

\* What a pop gives, and what it leaves.
LEMMA TickPopTakes ==
  ASSUME IInv, TickPop
  PROVE  \E n \in 1..(Chunk - 1) :
           /\ n <= count
           /\ popped' = Bytes(n) /\ Len(popped') = n
           /\ popped' \in Seq(Nat)
           /\ start' = Wrap(start + n) /\ count' = count - n
           /\ taken' = taken + n
           /\ spare' \in 0..n
           /\ base' = taken
           /\ UNCHANGED <<mem, end, rx, atProcessing, dequeue, pc, sent>>
           /\ tick' = "parse"
  <1> USE SizeAssumption DEF IInv
  <1>1. count > 0 /\ count < Size
    BY DEF TickPop, NothingOverrun, HalfFull, TypeOK
  <1>2. PICK n \in 1..(Chunk - 1) :
           /\ n <= count /\ popped' = Bytes(n)
           /\ start' = Wrap(start + n) /\ count' = count - n
    BY <1>1, PopTakes DEF TickPop
  <1>3. popped' \in Seq(Nat) /\ Len(popped') = n
    BY <1>2, BytesIsASeq
  <1>4. taken' = taken + n /\ spare' \in 0..n
    BY <1>2, <1>3 DEF TickPop
  <1>5. QED
    BY <1>2, <1>3, <1>4 DEF TickPop

LEMMA TickPopIInv == IInv /\ TickPop => IInv'
  <1> SUFFICES ASSUME IInv, TickPop PROVE IInv'
    OBVIOUS
  <1>1. PICK n \in 1..(Chunk - 1) :
           /\ n <= count
           /\ popped' = Bytes(n) /\ Len(popped') = n
           /\ popped' \in Seq(Nat)
           /\ start' = Wrap(start + n) /\ count' = count - n
           /\ taken' = taken + n
           /\ spare' \in 0..n
           /\ base' = taken
           /\ UNCHANGED <<mem, end, rx, atProcessing, dequeue, pc, sent>>
           /\ tick' = "parse"
    BY TickPopTakes
  <1>2. /\ n \in Nat /\ n > 0 /\ n <= count
        /\ spare' \in Nat /\ spare' <= n
        /\ count \in Nat /\ count' = count - n
        /\ armed' = armed
    BY <1>1, SizeAssumption DEF IInv, TypeOK, rx
  <1>3. spare = 0
    BY DEF IInv, TickPop
  <1> USE SizeAssumption DEF IInv, TypeOK, rx
  <1>4. TypeOK'
    BY <1>1 DEF Wrap
  <1>5. NothingOverrun'
    BY <1>2, <1>3 DEF NothingOverrun, HalfFull
  <1>6. IndicesAgree'
    BY <1>1 DEF IndicesAgree, Wrap
  <1>7. Content'
    <2> SUFFICES ASSUME NEW k \in (1 - spare')..count'
                 PROVE  mem'[Slot(start' + k - 1)] = taken' + k
      BY DEF Content
    <2> HIDE DEF IInv, TypeOK, rx
    <2>1. PICK m \in 0..n : spare' = m
      BY <1>1
    <2>2. k \in (1 - m)..(count - n)
      BY <1>2, <2>1
    <2>3. k \in Int /\ n + k \in (1 - spare)..count
      BY <1>2, <1>3, <2>2
    <2>4. mem[Slot(start + (n + k) - 1)] = taken + (n + k)
      BY <2>3 DEF IInv, Content
    <2>5. start \in 0..Size-1 /\ Size \in Nat /\ count < Size
      BY DEF IInv, TypeOK, NothingOverrun, HalfFull
    <2>6. Slot(start' + k - 1) = Slot(start + (n + k) - 1)
      BY <1>1, <1>2, <1>3, <2>3, <2>5 DEF Wrap, Slot
    <2>7. taken' + k = taken + (n + k) /\ mem' = mem
      BY <1>1, <1>2, <2>3 DEF IInv, TypeOK
    <2>8. QED
      BY <2>4, <2>6, <2>7
  <1>8. /\ count' = sent' - taken' /\ spare' <= taken'
        /\ tick' # "parse" => spare' = 0
    BY <1>1, <1>2
  <1>9. QED
    BY <1>4, <1>6, <1>7, <1>8, <1>5

LEMMA TickPutBackIInv == IInv /\ TickPutBack => IInv'
  <1> SUFFICES ASSUME IInv, TickPutBack PROVE IInv'
    OBVIOUS
  <1> USE SizeAssumption DEF IInv
  <1>1. PICK n \in 1..spare :
          Rewind(n) /\ taken' = taken - n /\ spare' = spare - n
    BY DEF TickPutBack
  <1>2. n \in Nat /\ n > 0 /\ n + count < Size /\ spare \in 0..Chunk-1
    BY <1>1 DEF NothingOverrun, HalfFull, TypeOK
  <1>3. start' = Slot(start - n) /\ count' = count + n
    BY <1>1, <1>2, RewindGivesBack
  <1>4. UNCHANGED <<mem, end, popped, rx, atProcessing, dequeue, tick, pc,
                    sent, base>>
    BY DEF TickPutBack
  <1> USE DEF TypeOK, rx
  <1>5. TypeOK'
    BY <1>1, <1>2, <1>3, <1>4 DEF Slot, Wrap
  <1>6. NothingOverrun'
    BY <1>1, <1>2, <1>3, <1>4 DEF NothingOverrun, HalfFull
  <1>7. IndicesAgree'
    BY <1>2, <1>3, <1>4 DEF IndicesAgree, Slot, Wrap
  <1>8. Content'
    <2> SUFFICES ASSUME NEW k \in (1 - spare')..count'
                 PROVE  mem'[Slot(start' + k - 1)] = taken' + k
      BY DEF Content
    <2>1. k - n \in (1 - spare)..count
      BY <1>1, <1>2, <1>3
    <2>2. mem[Slot(start + (k - n) - 1)] = taken + (k - n)
      BY <2>1 DEF Content
    <2>3. Slot(start' + k - 1) = Slot(start + (k - n) - 1)
      BY <1>2, <1>3, <2>1 DEF NothingOverrun, HalfFull, Wrap, Slot
    <2>4. QED
      BY <1>1, <1>2, <1>4, <2>2, <2>3
  <1>9. /\ count' = sent' - taken' /\ spare' <= taken'
        /\ tick' # "parse" => spare' = 0
    BY <1>1, <1>2, <1>3, <1>4 DEF TickPutBack
  <1>10. QED
    BY <1>5, <1>6, <1>7, <1>8, <1>9

\* The other steps change flags and control points only, and start the
\* receiver where the ring has room.
LEMMA ControlIInv ==
  ASSUME IInv, DataUnchanged \/ TickParsed,
         /\ armed' \in BOOLEAN /\ rxProcessing' \in BOOLEAN
         /\ resume' \in BOOLEAN /\ atProcessing' \in BOOLEAN
         /\ dequeue' \in BOOLEAN
         /\ tick' \in {"idle", "parse", "resume", "flag"}
         /\ pc' \in {"idle", "begin", "transmit", "sent", "check", "error",
                     "flag"},
         tick' # "parse" => spare' = 0,
         armed' => armed \/ count + spare < HalfFull + Slack
  PROVE  IInv'
  <1> USE SizeAssumption DEF IInv
  <1>1. /\ UNCHANGED <<mem, start, end, count, popped, sent, taken, base>>
        /\ spare' = spare \/ spare' = 0
    BY DEF DataUnchanged, TickParsed, ring
  <1>2. TypeOK'
    BY <1>1 DEF TypeOK
  <1>3. NothingOverrun' /\ spare' <= taken'
    BY <1>1 DEF NothingOverrun, HalfFull, TypeOK
  <1>4. IndicesAgree'
    BY <1>1 DEF IndicesAgree, Wrap
  <1>5. Content'
    <2> SUFFICES ASSUME NEW k \in (1 - spare')..count'
                 PROVE  mem'[Slot(start' + k - 1)] = taken' + k
      BY DEF Content
    <2>1. k \in (1 - spare)..count
      BY <1>1 DEF TypeOK
    <2>2. QED
      BY <1>1, <2>1 DEF Content, Slot, Wrap
  <1>6. QED
    BY <1>1, <1>2, <1>3, <1>4, <1>5

LEMMA NextIInv == IInv /\ [Next]_vars => IInv'
  <1> SUFFICES ASSUME IInv, [Next]_vars PROVE IInv'
    OBVIOUS
  <1>1. /\ armed \in BOOLEAN /\ rxProcessing \in BOOLEAN
        /\ resume \in BOOLEAN /\ atProcessing \in BOOLEAN
        /\ dequeue \in BOOLEAN
        /\ tick \in {"idle", "parse", "resume", "flag"}
        /\ pc \in {"idle", "begin", "transmit", "sent", "check", "error", "flag"}
        /\ tick # "parse" => spare = 0
        /\ count \in Nat
    BY DEF IInv, TypeOK
  <1>2. CASE UartByte
    BY <1>2, UartByteIInv
  <1>3. CASE TickPop
    BY <1>3, TickPopIInv
  <1>4. CASE TickPutBack
    BY <1>4, TickPutBackIInv
  <1>5. CASE TickParsed
    BY <1>1, <1>5, ControlIInv DEF TickParsed, rx
  <1> USE DEF DataUnchanged
  <1>6. CASE TickNothing
    BY <1>1, <1>6, ControlIInv DEF TickNothing, rx
  <1>7. CASE TickResume
    <2>1. DataUnchanged /\ UNCHANGED <<rxProcessing, atProcessing, dequeue, pc>>
      BY <1>7 DEF TickResume, rx
    <2>2. armed' \in BOOLEAN /\ resume' \in BOOLEAN /\ tick' \in {"idle", "flag"}
      BY <1>1, <1>7 DEF TickResume, CanStart, rx
    <2>3. spare = 0 /\ (armed' => armed \/ count <= Margin)
      BY <1>1, <1>7 DEF TickResume, rx
    <2>4. armed' => armed \/ count + spare < HalfFull + Slack
      BY <1>1, <2>3, SizeAssumption DEF HalfFull
    <2>5. QED
      BY <1>1, <2>1, <2>2, <2>3, <2>4, ControlIInv
  <1>8. CASE TickFlag
    BY <1>1, <1>8, ControlIInv DEF TickFlag
  <1>9. CASE ResumeDequeue
    BY <1>1, <1>9, ControlIInv DEF ResumeDequeue, rx
  <1>10. CASE AtBegin
    BY <1>1, <1>10, ControlIInv DEF AtBegin, Main, rx
  <1>11. CASE AtLock \/ AtSent \/ AtReceiving
    BY <1>1, <1>11, ControlIInv DEF AtLock, AtSent, AtReceiving, Main, rx
  <1>12. CASE AtTimeout
    BY <1>1, <1>12, ControlIInv DEF AtTimeout, Main
  <1>13. CASE AtClear
    BY <1>1, <1>13, ControlIInv DEF AtClear, Main, rx
  <1>14. CASE AtReceive
    <2>1. /\ DataUnchanged
          /\ UNCHANGED <<rxProcessing, resume, atProcessing, dequeue, tick>>
      BY <1>14 DEF AtReceive
    <2>2. armed' \in BOOLEAN /\ pc' \in {"idle", "flag"}
      BY <1>14 DEF AtReceive
    <2>3. spare = 0 /\ count < HalfFull + Slack
      BY <1>1, <1>14 DEF AtReceive
    <2>4. count + spare < HalfFull + Slack
      BY <1>1, <2>3
    <2>5. QED
      BY <1>1, <2>1, <2>2, <2>3, <2>4, ControlIInv
  <1>15. CASE AtFlag
    BY <1>1, <1>15, ControlIInv DEF AtFlag, Main
  <1>16. CASE UNCHANGED vars
    BY <1>1, <1>16, ControlIInv DEF vars, rx
  <1>17. QED
    BY <1>2, <1>3, <1>4, <1>5, <1>6, <1>7, <1>8, <1>9, <1>10, <1>11, <1>12,
       <1>13, <1>14, <1>15, <1>16 DEF Next, Tick, Command

LEMMA Invariance == Spec => []IInv
  BY InitIInv, NextIInv, PTL DEF Spec

-----------------------------------------------------------------------------
(* What the reader of the driver wants to know.                            *)

\* Every variable keeps its range: no index leaves the ring, no pop
\* overfills pop_buffer.
THEOREM TypeCorrect == Spec => []TypeOK
  <1>1. IInv => TypeOK
    BY DEF IInv
  <1>2. QED
    BY <1>1, Invariance, PTL

\* No byte is dropped for want of room, none is written over one that may
\* still be put back, for every size and margin.
THEOREM NoOverrun == Spec => []NothingOverrun
  <1>1. IInv => NothingOverrun
    BY DEF IInv
  <1>2. QED
    BY <1>1, Invariance, PTL

\* The ring holds the bytes between the last one taken and the last one
\* sent, at every index.
THEOREM HoldsStream == Spec => []RingHoldsStream
  <1>1. IInv => RingHoldsStream
    <2> SUFFICES ASSUME IInv PROVE RingHoldsStream
      OBVIOUS
    <2>1. end = Wrap(start + count) /\ count = sent - taken
      BY DEF IInv, IndicesAgree
    <2> SUFFICES ASSUME NEW k \in 1..count
                 PROVE  mem[Wrap(start + k - 1)] = taken + k
      BY <2>1 DEF RingHoldsStream
    <2>2. k \in (1 - spare)..count /\ Slot(start + k - 1) = Wrap(start + k - 1)
      BY SizeAssumption DEF IInv, TypeOK, Slot
    <2>3. QED
      BY <2>2 DEF IInv, Content
  <1>2. QED
    BY <1>1, Invariance, PTL

\* The ring and its interrupts implement the stream of bytes: every step is
\* an arrival, a taking, a putting back, or nothing to the parser.
THEOREM ReadsStream == Spec => ParserReadsStream
  <1>1. Init => Stream!Init
    BY DEF Init, Stream!Init
  <1>2. IInv /\ [Next]_vars => [Stream!Next]_Stream!vars
    <2> SUFFICES ASSUME IInv, [Next]_vars
                 PROVE  Stream!Next \/ UNCHANGED <<sent, taken, popped>>
      BY DEF Stream!vars
    <2>1. CASE UartByte
      BY <2>1 DEF UartByte, Stream!Next, Stream!Arrive
    <2>2. CASE TickPop
      <3>1. PICK n \in 1..(Chunk - 1) :
               /\ n <= count /\ popped' = Bytes(n)
               /\ taken' = taken + n /\ sent' = sent
        BY <2>2, TickPopTakes
      <3>2. n \in 1..(sent - taken)
        BY <3>1, SizeAssumption DEF IInv, TypeOK
      <3>3. ASSUME NEW i \in 1..n
            PROVE  mem[Wrap(start + i - 1)] = taken + i
        <4>1. i \in (1 - spare)..count
          BY <3>1, SizeAssumption DEF IInv, TypeOK
        <4>2. Slot(start + i - 1) = Wrap(start + i - 1)
          BY SizeAssumption DEF IInv, TypeOK, Slot
        <4>3. QED
          BY <4>1, <4>2 DEF IInv, Content
      <3>4. popped' = [i \in 1..n |-> taken + i]
        BY <3>1, <3>3 DEF Bytes
      <3>5. QED
        BY <3>1, <3>2, <3>4 DEF Stream!Next, Stream!Take
    <2>3. CASE TickPutBack
      <3>1. PICK n \in 1..spare : taken' = taken - n
        BY <2>3 DEF TickPutBack
      <3>2. n \in 1..taken
        BY <3>1, SizeAssumption DEF IInv, TypeOK
      <3>3. QED
        BY <2>3, <3>1, <3>2 DEF TickPutBack, Stream!Next, Stream!PutBack
    <2>4. CASE TickParsed \/ TickNothing \/ TickResume \/ TickFlag \/ ResumeDequeue
      BY <2>4 DEF TickParsed, TickNothing, TickResume, TickFlag, ResumeDequeue
    <2>5. CASE AtBegin \/ Command \/ AtTimeout
      BY <2>5 DEF AtBegin, Command, AtLock, AtSent, AtClear, AtReceive, AtFlag,
                  AtReceiving, AtTimeout
    <2>6. CASE UNCHANGED vars
      BY <2>6 DEF vars
    <2>7. QED
      BY <2>1, <2>2, <2>3, <2>4, <2>5, <2>6 DEF Next, Tick
  <1>3. QED
    BY <1>1, <1>2, Invariance, PTL DEF Spec, ParserReadsStream, Stream!Spec

-----------------------------------------------------------------------------
(* The receiver, when no byte waits at the moment it is started.           *)

\* Uartx_Rx_Processing tells the truth, except after a failed transmission,
\* which has stopped the receiver behind its back.
RxInv ==
  /\ rxProcessing => armed \/ pc = "error"
  /\ tick = "flag" \/ pc = "flag" => armed
  /\ atProcessing \in BOOLEAN
  /\ ReceiverRestarted

\* If no byte is waiting when the receiver is started, a receiver that does
\* not run is started again.
THEOREM Restarted ==
  ASSUME "preempt" \notin Faults
  PROVE  Spec => []ReceiverRestarted
  <1> USE DEF RxInv, ReceiverRestarted, CommandFailed
  <1>1. Init => RxInv
    BY DEF Init
  <1>2. RxInv /\ [Next]_vars => RxInv'
    <2> SUFFICES ASSUME RxInv, [Next]_vars PROVE RxInv'
      OBVIOUS
    <2>1. CASE UartByte
      BY <2>1 DEF UartByte, Noting
    <2>2. CASE TickPop \/ TickPutBack \/ TickParsed \/ TickNothing
      BY <2>2 DEF TickPop, TickPutBack, TickParsed, TickNothing, rx
    <2>3. CASE TickResume
      BY <2>3 DEF TickResume, CanStart, rx
    <2>4. CASE TickFlag
      BY <2>4 DEF TickFlag
    <2>5. CASE ResumeDequeue
      BY <2>5 DEF ResumeDequeue, rx
    <2>6. CASE AtBegin
      BY <2>6 DEF AtBegin, Main, rx
    <2>7. CASE AtLock \/ AtSent \/ AtReceiving
      BY <2>7 DEF AtLock, AtSent, AtReceiving, Main, rx
    <2>8. CASE AtTimeout
      BY <2>8 DEF AtTimeout, Main
    <2>9. CASE AtReceive
      BY <2>9 DEF AtReceive
    <2>10. CASE AtFlag
      BY <2>10 DEF AtFlag, Main
    <2>11. CASE UNCHANGED vars
      BY <2>11 DEF vars, rx
    <2>12. CASE AtClear
      BY <2>12 DEF AtClear, Main, rx
    <2>13. QED
      BY <2>1, <2>2, <2>3, <2>4, <2>5, <2>6, <2>7, <2>8, <2>9, <2>10, <2>11,
         <2>12 DEF Next, Tick, Command
  <1>3. RxInv => ReceiverRestarted
    OBVIOUS
  <1>4. QED
    BY <1>1, <1>2, <1>3, PTL DEF Spec
=============================================================================
