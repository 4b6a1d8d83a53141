------------------------- MODULE HciTransportProofs -------------------------
(***************************************************************************)
(* Proofs about HciTransport for every number of buffers (at least two),   *)
(* every set of commands and events and every capacity of the controller.  *)
(***************************************************************************)
EXTENDS HciTransport, SequenceTheorems, FiniteSetTheorems, TLAPS

-----------------------------------------------------------------------------
(* Lemmas about the data.                                                  *)

LEMMA NoEventIsNotAnEvent == NoEvent \notin Events
  BY FaultsAssumption DEF NoEvent, Events, Answers

LEMMA NoCmdIsNotACmd == NoCmd \notin Cmds
  BY DEF NoCmd, Cmds

LEMMA AnswersAreEvents == Answers \subseteq Events
  BY DEF Events

\* Taking the last element off one sequence and putting it in front of
\* another, as move_list does.
LEMMA FrontProperties ==
  ASSUME NEW S, NEW s \in Seq(S), s # <<>>
  PROVE  /\ Front(s) \in Seq(S)
         /\ Last(s) \in S
         /\ Len(Front(s)) = Len(s) - 1
         /\ s = Front(s) \o <<Last(s)>>
  <1> DEFINE n == Len(s)
             f == SubSeq(s, 1, n - 1)
  <1>1. n \in Nat /\ n >= 1
    BY EmptySeq, LenProperties
  <1>2. \A i \in 1..n : s[i] \in S
    BY ElementOfSeq
  <1>3. 1 \in Int /\ n - 1 \in Int /\ \A i \in 1..n-1 : s[i] \in S
    BY <1>1, <1>2
  <1> HIDE DEF n
  <1>4. /\ f \in Seq(S)
        /\ Len(f) = IF 1 <= n - 1 THEN (n - 1) - 1 + 1 ELSE 0
    BY <1>3, SubSeqProperties
  <1>5. Len(f) = n - 1
    BY <1>1, <1>4
  <1>6. s = f \o <<s[n]>>
    <2>1. SubSeq(s, 1, n) = SubSeq(s, 1, n - 1) \o <<s[n]>>
      BY <1>1, SubSeqRecursiveSecond DEF n
    <2>2. SubSeq(s, 1, n) = s
      BY SubSeqFull DEF n
    <2>3. QED
      BY <2>1, <2>2
  <1>7. Front(s) = f /\ Last(s) = s[n]
    BY DEF Front, Last, n
  <1>8. s[n] \in S
    BY <1>1, <1>2
  <1>9. QED
    BY <1>4, <1>5, <1>6, <1>7, <1>8 DEF n

\* What taking the head off a queue leaves, and what a new tail makes.
LEMMA TakeHead ==
  ASSUME NEW S, NEW s \in Seq(S), s # <<>>
  PROVE  /\ Head(s) \in S /\ Tail(s) \in Seq(S)
         /\ Len(s) \in Nat /\ Len(s) >= 1
         /\ Len(Tail(s)) = Len(s) - 1
         /\ Tail(s) = <<>> <=> Len(s) = 1
  <1>1. Head(s) \in S /\ Tail(s) \in Seq(S) /\ Len(Tail(s)) = Len(s) - 1
    BY HeadTailProperties
  <1>2. Len(s) \in Nat /\ Len(s) >= 1
    BY EmptySeq, LenProperties
  <1>3. Tail(s) = <<>> <=> Len(Tail(s)) = 0
    BY <1>1, EmptySeq
  <1>4. QED
    BY <1>1, <1>2, <1>3

LEMMA AddTail ==
  ASSUME NEW S, NEW s \in Seq(S), NEW e \in S
  PROVE  /\ Append(s, e) \in Seq(S) /\ Append(s, e) # <<>>
         /\ Len(s) \in Nat /\ Len(Append(s, e)) = Len(s) + 1
  BY AppendProperties, LenProperties

-----------------------------------------------------------------------------
(* The inductive invariant.                                                *)

\* The control point says whether a callback and a request are under way.
ControlOK ==
  /\ pc \in {"main", "process", "process_isr"} => hand = NoEvent
  /\ pc = "callback" => hand # NoEvent
  /\ cmd # NoCmd <=> pc \in {"free", "send", "wait", "kept", "failed"}

\* RoomForAnswer, also while HCI_Isr runs on behalf of the waiting request.
RoomKept == pc \in {"wait", "kept"} => pool > 0 \/ rxQueue # <<>>

IInv ==
  /\ TypeOK
  /\ ControlOK
  /\ BuffersConserved
  /\ IrqDiscipline
  /\ NothingSetAsideOutsideRequest
  /\ RoomKept

LEMMA InitIInv == Init => IInv
  <1> SUFFICES ASSUME Init PROVE IInv
    OBVIOUS
  <1> USE DEF Init
  <1>1. TypeOK
    <2>1. /\ rxQueue \in Seq(Events) /\ tempQueue \in Seq(Events)
          /\ ctrl \in Seq(Events) /\ owed \in Seq(Opcodes)
      BY EmptySeq
    <2>2. QED
      BY <2>1, PacketNumAssumption DEF TypeOK, PCs
  <1>2. ControlOK /\ IrqDiscipline /\ NothingSetAsideOutsideRequest /\ RoomKept
    BY DEF ControlOK, IrqDiscipline, NothingSetAsideOutsideRequest, RoomKept
  <1>3. BuffersConserved
    BY PacketNumAssumption DEF BuffersConserved, InHand
  <1>4. QED
    BY <1>1, <1>2, <1>3 DEF IInv

LEMMA NextIInv == IInv /\ [Next]_vars => IInv'
  <1> SUFFICES ASSUME IInv, [Next]_vars PROVE IInv'
    OBVIOUS
  <1> USE PacketNumAssumption, NoEventIsNotAnEvent, NoCmdIsNotACmd
      DEF IInv, TypeOK, ControlOK, BuffersConserved, InHand, IrqDiscipline,
          NothingSetAsideOutsideRequest, RoomKept, PCs
  <1>1. CASE CtrlNotify
    BY <1>1 DEF CtrlNotify, Post, hostVars
  <1>2. CASE CtrlAnswer
    BY <1>2, AnswersAreEvents DEF CtrlAnswer, Post, hostVars
  <1>3. CASE IsrInterrupt
    BY <1>3 DEF IsrInterrupt, CallIsr
  <1>4. CASE IsrRead
    <2>1. /\ Head(ctrl) \in Events /\ Tail(ctrl) \in Seq(Events)
          /\ Append(rxQueue, Head(ctrl)) \in Seq(Events)
          /\ Append(rxQueue, Head(ctrl)) # <<>>
          /\ Len(rxQueue) \in Nat /\ Len(tempQueue) \in Nat
          /\ Len(Append(rxQueue, Head(ctrl))) = Len(rxQueue) + 1
      <3>1. ctrl # <<>>
        BY <1>4 DEF IsrRead
      <3>2. Head(ctrl) \in Events /\ Tail(ctrl) \in Seq(Events)
        BY <3>1, TakeHead
      <3>3. Len(tempQueue) \in Nat
        BY LenProperties
      <3>4. QED
        BY <3>2, <3>3, AddTail
    <2>2. ControlOK' /\ IrqDiscipline' /\ NothingSetAsideOutsideRequest'
      BY <1>4 DEF IsrRead
    <2>3. TypeOK'
      <3>1. pool' \in Nat
        BY <1>4 DEF IsrRead
      <3>2. rxQueue' \in Seq(Events) /\ ctrl' \in Seq(Events)
        BY <1>4, <2>1 DEF IsrRead
      <3>3. QED
        BY <1>4, <3>1, <3>2 DEF IsrRead
    <2>4. BuffersConserved'
      BY <1>4, <2>1 DEF IsrRead
    <2>5. RoomKept'
      BY <1>4, <2>1 DEF IsrRead
    <2>6. QED
      BY <2>2, <2>3, <2>4, <2>5
  <1>5. CASE IsrReturn
    BY <1>5 DEF IsrReturn
  <1>6. CASE ProcessBegin
    BY <1>6 DEF ProcessBegin
  <1>7. CASE ProcessTake
    BY <1>7 DEF ProcessTake
  <1>8. CASE ProcessRelease
    <2>1. hand # NoEvent /\ tempQueue = <<>>
      BY <1>8 DEF ProcessRelease
    <2>2. TypeOK'
      <3>1. pool' \in Nat /\ hand' = NoEvent
        BY <1>8 DEF ProcessRelease
      <3>2. QED
        BY <1>8, <3>1 DEF ProcessRelease
    <2>3. BuffersConserved'
      BY <1>8, <2>1 DEF ProcessRelease
    <2>4. ControlOK' /\ IrqDiscipline' /\ NothingSetAsideOutsideRequest' /\ RoomKept'
      BY <1>8, <2>1 DEF ProcessRelease
    <2>5. QED
      BY <2>2, <2>3, <2>4
  <1>9. CASE ProcessPoll
    BY <1>9 DEF ProcessPoll, CallIsr
  <1>10. CASE ProcessEnd
    BY <1>10 DEF ProcessEnd
  <1>11. ASSUME NEW c \in Cmds, Request(c) PROVE IInv'
    BY <1>11 DEF Request
  <1>12. CASE FreeDrop
    <2>1. /\ Tail(rxQueue) \in Seq(Events)
          /\ Len(Tail(rxQueue)) = Len(rxQueue) - 1
          /\ Len(rxQueue) \in Nat /\ Len(tempQueue) \in Nat
      BY <1>12, TakeHead, LenProperties DEF FreeDrop
    <2>2. ControlOK' /\ IrqDiscipline' /\ NothingSetAsideOutsideRequest' /\ RoomKept'
      BY <1>12 DEF FreeDrop, CallIsr
    <2>3. TypeOK'
      <3>1. pool' \in Nat /\ rxQueue' \in Seq(Events)
        BY <1>12, <2>1 DEF FreeDrop
      <3>2. QED
        BY <1>12, <3>1 DEF FreeDrop, CallIsr
    <2>4. BuffersConserved'
      BY <1>12, <2>1 DEF FreeDrop, CallIsr
    <2>5. QED
      BY <2>2, <2>3, <2>4
  <1>13. CASE FreeEnd
    BY <1>13 DEF FreeEnd
  <1>14. CASE SendCmd
    <2>1. cmd.op \in Opcodes /\ tempQueue = <<>>
      BY <1>14 DEF SendCmd, Cmds
    <2>2. owed' \in Seq(Opcodes)
      BY <1>14, <2>1, AppendProperties DEF SendCmd
    <2>3. pool > 0 \/ rxQueue # <<>>
      <3>1. pool + Len(rxQueue) + Len(tempQueue) + InHand = PacketNum
        OBVIOUS
      <3>2. Len(tempQueue) = 0 /\ InHand \in {0, 1}
        BY <2>1
      <3>3. rxQueue = <<>> => Len(rxQueue) = 0
        OBVIOUS
      <3>4. QED
        BY <3>1, <3>2, <3>3
    <2>4. QED
      BY <1>14, <2>2, <2>3 DEF SendCmd
  <1>15. CASE TakeAnswer
    BY <1>15 DEF TakeAnswer, CanTake, Finish, Caller
  <1>16. CASE TakeFailure
    BY <1>16 DEF TakeFailure, CanTake, Finish, Caller
  <1>17. CASE KeepOther
    <2>1. /\ Head(rxQueue) \in Events /\ Tail(rxQueue) \in Seq(Events)
          /\ Len(rxQueue) \in Nat /\ Len(tempQueue) \in Nat
          /\ Len(Tail(rxQueue)) = Len(rxQueue) - 1
          /\ Append(tempQueue, Head(rxQueue)) \in Seq(Events)
          /\ Len(Append(tempQueue, Head(rxQueue))) = Len(tempQueue) + 1
      <3>1. Head(rxQueue) \in Events /\ Tail(rxQueue) \in Seq(Events)
        BY <1>17, TakeHead DEF KeepOther, CanTake
      <3>2. /\ Len(rxQueue) \in Nat
            /\ Len(Tail(rxQueue)) = Len(rxQueue) - 1
        BY <1>17, TakeHead DEF KeepOther, CanTake
      <3>3. QED
        BY <3>1, <3>2, AddTail
    <2>2. ControlOK' /\ IrqDiscipline' /\ NothingSetAsideOutsideRequest'
      BY <1>17 DEF KeepOther, CanTake, CallIsr
    <2>3. TypeOK'
      <3>1. pool' \in Nat /\ rxQueue' \in Seq(Events)
        BY <1>17, <2>1 DEF KeepOther
      <3>2. tempQueue' \in Seq(Events)
        BY <1>17, <2>1 DEF KeepOther
      <3>3. QED
        BY <1>17, <3>1, <3>2 DEF KeepOther, CanTake, CallIsr
    <2>4. BuffersConserved'
      <3>1. CASE pool = 0 /\ Tail(rxQueue) = <<>>
        BY <1>17, <2>1, <3>1 DEF KeepOther
      <3>2. CASE ~(pool = 0 /\ Tail(rxQueue) = <<>>)
        <4>1. /\ pool' = pool /\ hand' = hand
              /\ tempQueue' = Append(tempQueue, Head(rxQueue))
              /\ rxQueue' = Tail(rxQueue)
          BY <1>17, <3>2 DEF KeepOther
        <4>2. QED
          BY <2>1, <4>1
      <3>3. QED
        BY <3>1, <3>2
    <2>5. RoomKept'
      BY <1>17 DEF KeepOther, CanTake, CallIsr
    <2>6. QED
      BY <2>2, <2>3, <2>4, <2>5
  <1>18. CASE KeepEnd
    BY <1>18 DEF KeepEnd
  <1>19. CASE WaitTimeout
    BY <1>19 DEF WaitTimeout
  <1>20. CASE FailedMove
    <2>1. /\ Last(tempQueue) \in Events /\ Front(tempQueue) \in Seq(Events)
          /\ Len(Front(tempQueue)) = Len(tempQueue) - 1
      BY <1>20, FrontProperties DEF FailedMove
    <2>2. /\ <<Last(tempQueue)>> \o rxQueue \in Seq(Events)
          /\ Len(<<Last(tempQueue)>> \o rxQueue) = 1 + Len(rxQueue)
      BY <2>1, ConcatProperties
    <2>3. QED
      BY <1>20, <2>1, <2>2 DEF FailedMove
  <1>21. CASE FailedEnd
    BY <1>21 DEF FailedEnd, Caller
  <1>22. CASE TimerExpires
    BY <1>22 DEF TimerExpires
  <1>23. CASE UNCHANGED vars
    BY <1>23 DEF vars, hostVars
  <1>24. QED
    BY <1>1, <1>2, <1>3, <1>4, <1>5, <1>6, <1>7, <1>8, <1>9, <1>10, <1>11,
       <1>12, <1>13, <1>14, <1>15, <1>16, <1>17, <1>18, <1>19, <1>20, <1>21,
       <1>22, <1>23 DEF Next, Isr, Process, SendReq

LEMMA SpecIInv == Spec => []IInv
  BY InitIInv, NextIInv, PTL DEF Spec

-----------------------------------------------------------------------------
(* The safety properties.                                                  *)

\* Every variable of the transport keeps its type.
THEOREM TypeCorrect == Spec => []TypeOK
  <1>1. IInv => TypeOK
    BY DEF IInv
  <1>2. QED
    BY <1>1, SpecIInv, PTL

\* No packet buffer is ever leaked or duplicated, whatever the number of
\* buffers and however requests, callbacks and interrupts interleave.
THEOREM NoBufferLeak == Spec => []BuffersConserved
  <1>1. IInv => BuffersConserved
    BY DEF IInv
  <1>2. QED
    BY <1>1, SpecIInv, PTL

\* free_event_list never removes the head of an empty receive queue, even
\* when it runs inside the callback that holds one of the buffers.
THEOREM DropIsSafe == Spec => []DropFindsAnEvent
  <1>1. IInv => DropFindsAnEvent
    <2> SUFFICES ASSUME IInv, pc = "free", PoolTooSmall, rxQueue = <<>>
                 PROVE  FALSE
      BY DEF DropFindsAnEvent
    <2>1. pool + 0 + 0 + InHand = PacketNum
      BY DEF IInv, BuffersConserved, NothingSetAsideOutsideRequest
    <2>2. InHand \in {0, 1} /\ pool \in Nat
      BY DEF InHand, IInv, TypeOK
    <2>3. pool < PacketNum \div 2
      BY DEF PoolTooSmall
    <2>4. QED
      BY <2>1, <2>2, <2>3, PacketNumAssumption
  <1>2. QED
    BY <1>1, SpecIInv, PTL

\* A waiting request always has a buffer for its answer.
THEOREM AnswerHasRoom == Spec => []RoomForAnswer
  <1>1. IInv => RoomForAnswer
    BY DEF IInv, RoomKept, RoomForAnswer
  <1>2. QED
    BY <1>1, SpecIInv, PTL

\* The interrupt is disabled exactly in the critical sections of hci.c.
THEOREM IrqDisciplined == Spec => []IrqDiscipline
  <1>1. IInv => IrqDiscipline
    BY DEF IInv
  <1>2. QED
    BY <1>1, SpecIInv, PTL

(* What hci_send_req sets aside goes back on every way out of it, the time-out *)
(* path included: no event is held between two requests.                       *)
THEOREM NothingSetAside == Spec => []NothingSetAsideOutsideRequest
  <1>1. IInv => NothingSetAsideOutsideRequest
    BY DEF IInv
  <1>2. QED
    BY <1>1, SpecIInv, PTL

-----------------------------------------------------------------------------
(* The transport implements the in-order event stream: however an event    *)
(* moves between the controller, the receive queue and the temporary       *)
(* queue, the sequence of outstanding events only grows at its tail, loses *)
(* its head to the application, or loses one element.                      *)

\* Deleting the element between two parts of a sequence joins the parts.
LEMMA RemoveBetween ==
  ASSUME NEW S, NEW s \in Seq(S), NEW e \in S, NEW t \in Seq(S)
  PROVE  /\ RemoveAt((s \o <<e>>) \o t, Len(s) + 1) = s \o t
         /\ Len(s) + 1 \in 1..Len((s \o <<e>>) \o t)
  <1> DEFINE w == (s \o <<e>>) \o t
             m == Len(s)
             k == Len(t)
  <1>1. m \in Nat /\ k \in Nat
    BY LenProperties
  <1>2. /\ s \o <<e>> \in Seq(S) /\ Len(s \o <<e>>) = m + 1
        /\ \A i \in 1..m+1 : (s \o <<e>>)[i] = IF i <= m THEN s[i] ELSE e
    <2>1. <<e>> \in Seq(S) /\ Len(<<e>>) = 1 /\ <<e>>[1] = e
      OBVIOUS
    <2>2. /\ s \o <<e>> \in Seq(S) /\ Len(s \o <<e>>) = m + 1
          /\ \A i \in 1..m+1 : (s \o <<e>>)[i] = IF i <= m THEN s[i] ELSE <<e>>[i - m]
      BY <2>1, ConcatProperties
    <2>3. \A i \in 1..m+1 : i <= m \/ i - m = 1
      BY <1>1
    <2>4. QED
      BY <2>1, <2>2, <2>3
  <1>3. /\ w \in Seq(S) /\ Len(w) = m + 1 + k
        /\ \A i \in 1..m+1+k : w[i] = IF i <= m + 1 THEN (s \o <<e>>)[i] ELSE t[i - (m + 1)]
    BY <1>2, ConcatProperties
  <1>4. \A i \in 1..m+1+k : w[i] \in S
    BY <1>3, ElementOfSeq
  <1> HIDE DEF w, m, k
  <1>5. /\ SubSeq(w, 1, m) \in Seq(S) /\ Len(SubSeq(w, 1, m)) = m
        /\ \A i \in 1..m : SubSeq(w, 1, m)[i] = s[i]
    <2>1. 1 \in Int /\ m \in Int /\ \A i \in 1..m : w[i] \in S
      BY <1>1, <1>4
    <2>2. /\ SubSeq(w, 1, m) \in Seq(S)
          /\ Len(SubSeq(w, 1, m)) = IF 1 <= m THEN m - 1 + 1 ELSE 0
          /\ \A i \in 1..m - 1 + 1 : SubSeq(w, 1, m)[i] = w[1 + i - 1]
      BY <2>1, SubSeqProperties
    <2>3. \A i \in 1..m : SubSeq(w, 1, m)[i] = w[i]
      BY <1>1, <2>2
    <2>4. \A i \in 1..m : w[i] = s[i]
      BY <1>1, <1>2, <1>3
    <2>5. QED
      BY <1>1, <2>2, <2>3, <2>4
  <1>6. /\ SubSeq(w, m + 2, m + 1 + k) \in Seq(S) /\ Len(SubSeq(w, m + 2, m + 1 + k)) = k
        /\ \A i \in 1..k : SubSeq(w, m + 2, m + 1 + k)[i] = t[i]
    <2>1. m + 2 \in Int /\ m + 1 + k \in Int /\ \A i \in m+2..m+1+k : w[i] \in S
      BY <1>1, <1>4
    <2>2. /\ SubSeq(w, m + 2, m + 1 + k) \in Seq(S)
          /\ Len(SubSeq(w, m + 2, m + 1 + k)) =
               IF m + 2 <= m + 1 + k THEN (m + 1 + k) - (m + 2) + 1 ELSE 0
          /\ \A i \in 1..(m + 1 + k) - (m + 2) + 1 :
               SubSeq(w, m + 2, m + 1 + k)[i] = w[(m + 2) + i - 1]
      BY <2>1, SubSeqProperties
    <2>3. \A i \in 1..k : SubSeq(w, m + 2, m + 1 + k)[i] = w[m + 1 + i]
      BY <1>1, <2>2
    <2>4. \A i \in 1..k : w[m + 1 + i] = t[i]
      <3> TAKE i \in 1..k
      <3>1. /\ m + 1 + i \in 1..m+1+k /\ ~(m + 1 + i <= m + 1)
            /\ (m + 1 + i) - (m + 1) = i
        BY <1>1
      <3>2. QED
        BY <1>3, <3>1
    <2>5. QED
      BY <1>1, <2>2, <2>3, <2>4
  <1>7. SubSeq(w, 1, m) = s
    BY <1>5, SeqEqual DEF m
  <1>8. SubSeq(w, m + 2, m + 1 + k) = t
    BY <1>6, SeqEqual DEF k
  <1>9. RemoveAt(w, m + 1) = SubSeq(w, 1, m) \o SubSeq(w, m + 2, m + 1 + k)
    <2>1. (m + 1) - 1 = m /\ (m + 1) + 1 = m + 2
      BY <1>1
    <2>2. QED
      BY <1>3, <2>1 DEF RemoveAt
  <1>10. RemoveAt(w, m + 1) = s \o t
    BY <1>7, <1>8, <1>9
  <1>11. m + 1 \in 1..Len(w)
    BY <1>1, <1>3
  <1>12. QED
    BY <1>10, <1>11 DEF w, m

\* A queue is its head followed by its tail.
LEMMA HeadThenTail ==
  ASSUME NEW S, NEW s \in Seq(S), s # <<>>
  PROVE  s = <<Head(s)>> \o Tail(s)
  <1>1. Len(s) \in Nat /\ Len(s) >= 1 /\ Head(s) = s[1]
    BY TakeHead
  <1>2. SubSeq(s, 1, Len(s)) = <<s[1]>> \o SubSeq(s, 1 + 1, Len(s))
    BY <1>1, SubSeqRecursiveFirst
  <1>3. SubSeq(s, 1, Len(s)) = s /\ Tail(s) = SubSeq(s, 2, Len(s))
    BY SubSeqFull, TailIsSubSeq
  <1>4. 1 + 1 = 2
    OBVIOUS
  <1>5. QED
    BY <1>1, <1>2, <1>3, <1>4

\* The three queues are sequences of events, and so is what they hold together.
LEMMA OutstandingType == TypeOK => Outstanding \in Seq(Events)
  BY ConcatProperties DEF TypeOK, Outstanding

\* One event less, at a place between two parts of Outstanding.
LEMMA WithdrawStep ==
  ASSUME NEW s \in Seq(Events), NEW e \in Events, NEW t \in Seq(Events),
         Outstanding = (s \o <<e>>) \o t, Outstanding' = s \o t, hand' = hand
  PROVE  EventStream!Next
  <1>1. /\ RemoveAt(Outstanding, Len(s) + 1) = s \o t
        /\ Len(s) + 1 \in 1..Len(Outstanding)
    BY RemoveBetween
  <1>2. Outstanding' = RemoveAt(Outstanding, Len(s) + 1)
    BY <1>1
  <1> HIDE DEF Outstanding
  <1>3. \E i \in 1..Len(Outstanding) : Outstanding' = RemoveAt(Outstanding, i)
    BY <1>1, <1>2
  <1>4. EventStream!Withdraw
    BY <1>3 DEF EventStream!Withdraw, EventStream!RemoveAt, RemoveAt
  <1>5. QED
    BY <1>4 DEF EventStream!Next

LEMMA RaiseStep ==
  ASSUME TypeOK, NEW e \in Events, ctrl' = Append(ctrl, e),
         rxQueue' = rxQueue, tempQueue' = tempQueue, hand' = hand
  PROVE  EventStream!Next
  <1>1. /\ tempQueue \o rxQueue \in Seq(Events) /\ ctrl \in Seq(Events)
        /\ <<e>> \in Seq(Events)
    BY ConcatProperties DEF TypeOK
  <1>2. Append(ctrl, e) = ctrl \o <<e>>
    BY <1>1, AppendIsConcat
  <1>3. Outstanding' = (tempQueue \o rxQueue) \o (ctrl \o <<e>>)
    BY <1>2 DEF Outstanding
  <1>4. Outstanding' = Outstanding \o <<e>>
    BY <1>1, <1>3, ConcatAssociative DEF Outstanding
  <1>5. Outstanding' = Append(Outstanding, e)
    BY <1>4, OutstandingType, AppendIsConcat
  <1>6. EventStream!Raise
    BY <1>5 DEF EventStream!Raise
  <1>7. QED
    BY <1>6 DEF EventStream!Next

\* HCI_Isr reads one event.
LEMMA IsrReadRefines ==
  ASSUME TypeOK, IsrRead
  PROVE  [EventStream!Next]_EventStream!vars
  <1> DEFINE h == Head(ctrl)
             s == tempQueue \o rxQueue
  <1>1. ctrl # <<>>
    BY DEF IsrRead
  <1>2. /\ h \in Events /\ Tail(ctrl) \in Seq(Events) /\ <<h>> \in Seq(Events)
        /\ ctrl = <<h>> \o Tail(ctrl)
    BY <1>1, TakeHead, HeadThenTail DEF TypeOK
  <1>3. s \in Seq(Events) /\ tempQueue \in Seq(Events) /\ rxQueue \in Seq(Events)
    BY ConcatProperties DEF TypeOK
  <1>4. hand' = hand /\ tempQueue' = tempQueue /\ ctrl' = Tail(ctrl)
    BY DEF IsrRead
  <1> HIDE DEF h
  <1>5. Outstanding = (s \o <<h>>) \o Tail(ctrl)
    <2>1. Outstanding = s \o (<<h>> \o Tail(ctrl))
      BY <1>2 DEF Outstanding
    <2>2. s \o (<<h>> \o Tail(ctrl)) = (s \o <<h>>) \o Tail(ctrl)
      BY <1>2, <1>3, ConcatAssociative
    <2>3. QED
      BY <2>1, <2>2
  <1>6. CASE h.kind = "bad"
    <2>1. rxQueue' = rxQueue
      BY <1>6 DEF IsrRead, h
    <2>2. Outstanding' = s \o Tail(ctrl)
      BY <1>4, <2>1 DEF Outstanding
    <2>3. QED
      BY <1>2, <1>3, <1>4, <1>5, <2>2, WithdrawStep
  <1>7. CASE h.kind # "bad"
    <2>1. rxQueue' = Append(rxQueue, h)
      BY <1>7 DEF IsrRead, h
    <2>2. Append(rxQueue, h) = rxQueue \o <<h>>
      BY <1>2, <1>3, AppendIsConcat
    <2>3. tempQueue \o (rxQueue \o <<h>>) = s \o <<h>>
      BY <1>2, <1>3, ConcatAssociative
    <2>4. Outstanding' = (s \o <<h>>) \o Tail(ctrl)
      BY <1>4, <2>1, <2>2, <2>3 DEF Outstanding
    <2>5. QED
      BY <1>4, <1>5, <2>4 DEF EventStream!vars
  <1>8. QED
    BY <1>6, <1>7

\* An event leaves the head of the receive queue.
LEMMA RxHead ==
  ASSUME TypeOK, rxQueue # <<>>
  PROVE  /\ Head(rxQueue) \in Events /\ Tail(rxQueue) \in Seq(Events)
         /\ tempQueue \in Seq(Events) /\ ctrl \in Seq(Events)
         /\ Tail(rxQueue) \o ctrl \in Seq(Events)
         /\ Outstanding = (tempQueue \o <<Head(rxQueue)>>) \o (Tail(rxQueue) \o ctrl)
  <1> DEFINE h == Head(rxQueue)
             t == Tail(rxQueue)
  <1>1. /\ h \in Events /\ t \in Seq(Events) /\ <<h>> \in Seq(Events)
        /\ rxQueue = <<h>> \o t
    BY TakeHead, HeadThenTail DEF TypeOK
  <1>2. tempQueue \in Seq(Events) /\ ctrl \in Seq(Events)
    BY DEF TypeOK
  <1> HIDE DEF h, t
  <1>3. Outstanding = (tempQueue \o (<<h>> \o t)) \o ctrl
    BY <1>1 DEF Outstanding
  <1>4. tempQueue \o (<<h>> \o t) = (tempQueue \o <<h>>) \o t
    BY <1>1, <1>2, ConcatAssociative
  <1>5. tempQueue \o <<h>> \in Seq(Events) /\ t \o ctrl \in Seq(Events)
    BY <1>1, <1>2, ConcatProperties
  <1>6. ((tempQueue \o <<h>>) \o t) \o ctrl = (tempQueue \o <<h>>) \o (t \o ctrl)
    BY <1>1, <1>2, <1>5, ConcatAssociative
  <1>7. QED
    BY <1>1, <1>2, <1>3, <1>4, <1>5, <1>6 DEF h, t

\* Whenever hci_send_req ends on an event, that event is withdrawn.
LEMMA FinishRefines ==
  ASSUME TypeOK, rxQueue # <<>>, Finish
  PROVE  EventStream!Next
  <1> DEFINE h == Head(rxQueue)
             t == Tail(rxQueue)
  <1>1. /\ h \in Events /\ t \in Seq(Events)
        /\ tempQueue \in Seq(Events) /\ ctrl \in Seq(Events)
        /\ t \o ctrl \in Seq(Events)
        /\ Outstanding = (tempQueue \o <<h>>) \o (t \o ctrl)
    BY RxHead
  <1>2. /\ rxQueue' = tempQueue \o t /\ tempQueue' = <<>>
        /\ ctrl' = ctrl /\ hand' = hand
    BY DEF Finish
  <1> HIDE DEF h, t
  <1>3. tempQueue \o t \in Seq(Events)
    BY <1>1, ConcatProperties
  <1>4. <<>> \o (tempQueue \o t) = tempQueue \o t
    BY <1>3, ConcatEmptySeq
  <1>5. (tempQueue \o t) \o ctrl = tempQueue \o (t \o ctrl)
    BY <1>1, ConcatAssociative
  <1>6. Outstanding' = tempQueue \o (t \o ctrl)
    BY <1>2, <1>4, <1>5 DEF Outstanding
  <1>7. QED
    BY <1>1, <1>2, <1>6, WithdrawStep

\* Setting an event aside changes nothing; discarding it withdraws it.
LEMMA KeepRefines ==
  ASSUME TypeOK, KeepOther
  PROVE  [EventStream!Next]_EventStream!vars
  <1> DEFINE h == Head(rxQueue)
             t == Tail(rxQueue)
  <1>1. rxQueue # <<>>
    BY DEF KeepOther, CanTake
  <1>2. /\ h \in Events /\ t \in Seq(Events)
        /\ tempQueue \in Seq(Events) /\ ctrl \in Seq(Events)
        /\ t \o ctrl \in Seq(Events)
        /\ Outstanding = (tempQueue \o <<h>>) \o (t \o ctrl)
    BY <1>1, RxHead
  <1>3. rxQueue' = t /\ ctrl' = ctrl /\ hand' = hand
    BY DEF KeepOther
  <1>4. \/ tempQueue' = tempQueue
        \/ tempQueue' = Append(tempQueue, h)
    BY DEF KeepOther
  <1> HIDE DEF h, t
  <1>5. CASE tempQueue' = tempQueue
    <2>1. Outstanding' = tempQueue \o (t \o ctrl)
      BY <1>2, <1>3, <1>5, ConcatAssociative DEF Outstanding
    <2>2. QED
      BY <1>2, <1>3, <2>1, WithdrawStep
  <1>6. CASE tempQueue' = Append(tempQueue, h)
    <2>1. Append(tempQueue, h) = tempQueue \o <<h>> /\ Append(tempQueue, h) \in Seq(Events)
      BY <1>2, AppendIsConcat, AppendProperties
    <2>2. Outstanding' = ((tempQueue \o <<h>>) \o t) \o ctrl
      BY <1>3, <1>6, <2>1 DEF Outstanding
    <2>3. tempQueue \o <<h>> \in Seq(Events)
      BY <2>1
    <2>4. ((tempQueue \o <<h>>) \o t) \o ctrl = (tempQueue \o <<h>>) \o (t \o ctrl)
      BY <1>2, <2>3, ConcatAssociative
    <2>5. QED
      BY <1>2, <1>3, <2>2, <2>4 DEF EventStream!vars
  <1>7. QED
    BY <1>4, <1>5, <1>6

\* move_list carries a packet from one queue to the next without passing
\* another one.
LEMMA MoveRefines ==
  ASSUME TypeOK, FailedMove
  PROVE  UNCHANGED EventStream!vars
  <1> DEFINE f == Front(tempQueue)
             l == Last(tempQueue)
  <1>1. /\ f \in Seq(Events) /\ l \in Events /\ <<l>> \in Seq(Events)
        /\ tempQueue = f \o <<l>>
    <2>1. tempQueue \in Seq(Events) /\ tempQueue # <<>>
      BY DEF FailedMove, TypeOK
    <2>2. f \in Seq(Events) /\ l \in Events /\ tempQueue = f \o <<l>>
      BY <2>1, FrontProperties
    <2>3. QED
      BY <2>2
  <1>2. rxQueue \in Seq(Events)
    BY DEF TypeOK
  <1>3. rxQueue' = <<l>> \o rxQueue /\ tempQueue' = f /\ ctrl' = ctrl /\ hand' = hand
    BY DEF FailedMove
  <1> HIDE DEF f, l
  <1>4. f \o (<<l>> \o rxQueue) = (f \o <<l>>) \o rxQueue
    BY <1>1, <1>2, ConcatAssociative
  <1>5. Outstanding' = Outstanding
    BY <1>1, <1>3, <1>4 DEF Outstanding
  <1>6. QED
    BY <1>3, <1>5 DEF EventStream!vars

\* The head of the receive queue leaves while nothing is set aside: it goes
\* to the application, or it is dropped.
LEMMA TakeHeadRefines ==
  ASSUME TypeOK, rxQueue # <<>>, tempQueue = <<>>,
         rxQueue' = Tail(rxQueue), tempQueue' = tempQueue, ctrl' = ctrl
  PROVE  /\ Outstanding # <<>>
         /\ Outstanding' = Tail(Outstanding)
         /\ Head(Outstanding) = Head(rxQueue)
         /\ hand' = hand => EventStream!Next
  <1> DEFINE h == Head(rxQueue)
             t == Tail(rxQueue)
  <1>1. /\ h \in Events /\ t \in Seq(Events) /\ <<h>> \in Seq(Events)
        /\ tempQueue \in Seq(Events) /\ ctrl \in Seq(Events)
        /\ t \o ctrl \in Seq(Events)
        /\ Outstanding = (tempQueue \o <<h>>) \o (t \o ctrl)
    BY RxHead
  <1>2. rxQueue' = t
    OBVIOUS
  <1> HIDE DEF h, t
  <1>3. Outstanding = <<h>> \o (t \o ctrl)
    BY <1>1, ConcatEmptySeq
  <1>4. Outstanding' = t \o ctrl /\ Outstanding' = tempQueue \o (t \o ctrl)
    BY <1>1, <1>2, ConcatEmptySeq DEF Outstanding
  <1>5. /\ Head(<<h>> \o (t \o ctrl)) = h
        /\ Tail(<<h>> \o (t \o ctrl)) = t \o ctrl
        /\ <<h>> \o (t \o ctrl) # <<>>
    BY <1>1
  <1>6. hand' = hand => EventStream!Next
    BY <1>1, <1>4, WithdrawStep
  <1>7. QED
    BY <1>3, <1>4, <1>5, <1>6 DEF h

LEMMA StepRefines == IInv /\ [Next]_vars => [EventStream!Next]_EventStream!vars
  <1> SUFFICES ASSUME IInv, [Next]_vars PROVE [EventStream!Next]_EventStream!vars
    OBVIOUS
  <1>1. TypeOK
    BY DEF IInv
  <1>2. CASE CtrlNotify \/ CtrlAnswer
    <2>1. /\ rxQueue' = rxQueue /\ tempQueue' = tempQueue /\ hand' = hand
          /\ \E e \in Events : ctrl' = Append(ctrl, e)
      BY <1>2, AnswersAreEvents DEF CtrlNotify, CtrlAnswer, Post, hostVars
    <2>2. QED
      BY <1>1, <2>1, RaiseStep
  <1>3. CASE IsrRead
    BY <1>1, <1>3, IsrReadRefines
  <1>4. CASE ProcessTake
    <2>1. /\ rxQueue # <<>> /\ tempQueue = <<>>
          /\ rxQueue' = Tail(rxQueue) /\ tempQueue' = tempQueue /\ ctrl' = ctrl
          /\ hand = NoEvent /\ hand' = Head(rxQueue)
      BY <1>4 DEF ProcessTake, IInv, NothingSetAsideOutsideRequest, ControlOK
    <2>2. EventStream!Deliver
      BY <1>1, <2>1, TakeHeadRefines DEF EventStream!Deliver
    <2>3. QED
      BY <2>2 DEF EventStream!Next
  <1>5. CASE ProcessRelease
    <2>1. hand # NoEvent /\ hand' = NoEvent /\ Outstanding' = Outstanding
      BY <1>5 DEF ProcessRelease, IInv, ControlOK, Outstanding
    <2>2. QED
      BY <2>1 DEF EventStream!Next, EventStream!Consume
  <1>6. CASE FreeDrop
    <2>1. /\ rxQueue # <<>> /\ tempQueue = <<>> /\ hand' = hand
          /\ rxQueue' = Tail(rxQueue) /\ tempQueue' = tempQueue /\ ctrl' = ctrl
      BY <1>6 DEF FreeDrop, IInv, NothingSetAsideOutsideRequest
    <2>2. QED
      BY <1>1, <2>1, TakeHeadRefines
  <1>7. CASE TakeAnswer \/ TakeFailure
    <2>1. rxQueue # <<>> /\ Finish
      BY <1>7 DEF TakeAnswer, TakeFailure, CanTake
    <2>2. QED
      BY <1>1, <2>1, FinishRefines
  <1>8. CASE KeepOther
    BY <1>1, <1>8, KeepRefines
  <1>9. CASE FailedMove
    BY <1>1, <1>9, MoveRefines
  <1>10. CASE \/ IsrInterrupt \/ IsrReturn \/ ProcessBegin \/ ProcessPoll
              \/ ProcessEnd \/ (\E c \in Cmds : Request(c)) \/ FreeEnd \/ SendCmd
              \/ KeepEnd \/ WaitTimeout \/ FailedEnd \/ TimerExpires
              \/ UNCHANGED vars
    <2>1. /\ rxQueue' = rxQueue /\ tempQueue' = tempQueue
          /\ ctrl' = ctrl /\ hand' = hand
      BY <1>10 DEF IsrInterrupt, IsrReturn, ProcessBegin, ProcessPoll,
         ProcessEnd, Request, FreeEnd, SendCmd, KeepEnd, WaitTimeout,
         FailedEnd, TimerExpires, vars, hostVars
    <2>2. QED
      BY <2>1 DEF EventStream!vars, Outstanding
  <1>11. QED
    BY <1>2, <1>3, <1>4, <1>5, <1>6, <1>7, <1>8, <1>9, <1>10
    DEF Next, Isr, Process, SendReq

\* Events reach HCI_Event_CB one at a time and in the order in which the
\* controller raised them, for every number of buffers and every schedule.
THEOREM DeliveredInOrder == Spec => InOrderDelivery
  <1>1. Init => EventStream!Init
    BY ConcatEmptySeq DEF Init, EventStream!Init, Outstanding
  <1>2. QED
    BY <1>1, StepRefines, SpecIInv, PTL
    DEF Spec, InOrderDelivery, EventStream!Spec

-----------------------------------------------------------------------------
(* Loss: counting the notices.                                             *)

LEMMA NoticesInType ==
  ASSUME NEW s \in Seq(Events)
  PROVE  IsFiniteSet(NoticesIn(s)) /\ Cardinality(NoticesIn(s)) \in Nat
  <1>1. Len(s) \in Nat
    BY LenProperties
  <1>2. IsFiniteSet(1..Len(s))
    BY <1>1, FS_Interval
  <1>3. NoticesIn(s) \in SUBSET (1..Len(s))
    BY DEF NoticesIn
  <1>4. IsFiniteSet(NoticesIn(s))
    BY <1>2, <1>3, FS_Subset
  <1>5. QED
    BY <1>4, FS_CardinalityType

\* A sequence put behind another has its notices further back, but as many.
LEMMA ShiftedNotices ==
  ASSUME NEW t \in Seq(Events), NEW m \in Nat
  PROVE  LET shifted == {m + j : j \in NoticesIn(t)}
         IN  IsFiniteSet(shifted) /\ Cardinality(shifted) = Cardinality(NoticesIn(t))
  <1> DEFINE N == NoticesIn(t)
             shifted == {m + j : j \in N}
             f == [j \in N |-> m + j]
  <1>1. N \subseteq Nat
    BY LenProperties DEF NoticesIn
  <1>2. IsFiniteSet(N)
    BY NoticesInType
  <1> HIDE DEF N
  <1>3. f \in [N -> shifted]
    OBVIOUS
  <1>4. \A x, y \in N : f[x] = f[y] => x = y
    BY <1>1
  <1>5. \A z \in shifted : \E x \in N : f[x] = z
    OBVIOUS
  <1>6. f \in Bijection(N, shifted)
    BY <1>3, <1>4, <1>5 DEF Bijection, Injection, Surjection, IsInjective
  <1>7. ExistsBijection(N, shifted)
    BY <1>6 DEF ExistsBijection
  <1>8. QED
    BY <1>2, <1>7, FS_Bijection DEF N

LEMMA NoticesConcat ==
  ASSUME NEW s \in Seq(Events), NEW t \in Seq(Events)
  PROVE  Cardinality(NoticesIn(s \o t))
           = Cardinality(NoticesIn(s)) + Cardinality(NoticesIn(t))
  <1> DEFINE m == Len(s)
             shifted == {m + j : j \in NoticesIn(t)}
  <1>1. m \in Nat /\ Len(t) \in Nat
    BY LenProperties
  <1>2. /\ s \o t \in Seq(Events) /\ Len(s \o t) = m + Len(t)
        /\ \A i \in 1..m + Len(t) : (s \o t)[i] = IF i <= m THEN s[i] ELSE t[i - m]
    BY ConcatProperties
  <1>3. NoticesIn(s \o t) = NoticesIn(s) \cup shifted
    <2>1. ASSUME NEW i \in NoticesIn(s \o t) PROVE i \in NoticesIn(s) \cup shifted
      <3>1. i \in 1..m + Len(t) /\ (s \o t)[i].kind = "notice"
        BY <1>2 DEF NoticesIn
      <3>2. CASE i <= m
        BY <1>1, <1>2, <3>1, <3>2 DEF NoticesIn
      <3>3. CASE ~(i <= m)
        <4>1. i - m \in 1..Len(t) /\ t[i - m].kind = "notice" /\ i = m + (i - m)
          BY <1>1, <1>2, <3>1, <3>3
        <4>2. i - m \in NoticesIn(t)
          BY <4>1 DEF NoticesIn
        <4>3. QED
          BY <4>1, <4>2
      <3>4. QED
        BY <3>2, <3>3
    <2>2. ASSUME NEW i \in NoticesIn(s) PROVE i \in NoticesIn(s \o t)
      <3>1. i \in 1..m /\ i \in 1..m + Len(t) /\ i <= m /\ s[i].kind = "notice"
        BY <1>1 DEF NoticesIn
      <3>2. QED
        BY <1>2, <3>1 DEF NoticesIn
    <2>3. ASSUME NEW j \in NoticesIn(t) PROVE m + j \in NoticesIn(s \o t)
      <3>1. j \in 1..Len(t) /\ t[j].kind = "notice"
        BY DEF NoticesIn
      <3>2. m + j \in 1..m + Len(t) /\ ~(m + j <= m) /\ (m + j) - m = j
        BY <1>1, <3>1
      <3>3. QED
        BY <1>2, <3>1, <3>2 DEF NoticesIn
    <2>4. QED
      BY <2>1, <2>2, <2>3
  <1>4. NoticesIn(s) \cap shifted = {}
    BY <1>1 DEF NoticesIn
  <1>5. /\ IsFiniteSet(shifted) /\ Cardinality(shifted) = Cardinality(NoticesIn(t))
        /\ Cardinality(NoticesIn(t)) \in Nat
    BY <1>1, ShiftedNotices, NoticesInType
  <1>6. IsFiniteSet(NoticesIn(s)) /\ Cardinality(NoticesIn(s)) \in Nat
    BY NoticesInType
  <1> HIDE DEF shifted
  <1>7. Cardinality(NoticesIn(s) \cup shifted)
          = Cardinality(NoticesIn(s)) + Cardinality(shifted)
                - Cardinality(NoticesIn(s) \cap shifted)
    BY <1>5, <1>6, FS_Union
  <1>8. Cardinality(NoticesIn(s) \cap shifted) = 0
    BY <1>4, FS_EmptySet
  <1>9. QED
    BY <1>3, <1>5, <1>6, <1>7, <1>8

\* One event leaves, between two parts of a sequence.
LEMMA NoticesWithout ==
  ASSUME NEW s \in Seq(Events), NEW e \in Events, NEW t \in Seq(Events)
  PROVE  /\ Cardinality(NoticesIn((s \o <<e>>) \o t)) \in Nat
         /\ Cardinality(NoticesIn(s \o t)) \in Nat
         /\ e.kind # "notice" =>
              Cardinality(NoticesIn((s \o <<e>>) \o t)) = Cardinality(NoticesIn(s \o t))
  <1>1. <<e>> \in Seq(Events) /\ s \o <<e>> \in Seq(Events) /\ s \o t \in Seq(Events)
        /\ (s \o <<e>>) \o t \in Seq(Events)
    BY ConcatProperties
  <1>2. /\ Cardinality(NoticesIn((s \o <<e>>) \o t))
             = Cardinality(NoticesIn(s \o <<e>>)) + Cardinality(NoticesIn(t))
        /\ Cardinality(NoticesIn(s \o <<e>>))
             = Cardinality(NoticesIn(s)) + Cardinality(NoticesIn(<<e>>))
        /\ Cardinality(NoticesIn(s \o t))
             = Cardinality(NoticesIn(s)) + Cardinality(NoticesIn(t))
    BY <1>1, NoticesConcat
  <1>3. e.kind # "notice" => Cardinality(NoticesIn(<<e>>)) = 0
    <2>1. Len(<<e>>) = 1 /\ <<e>>[1] = e
      OBVIOUS
    <2>2. e.kind # "notice" => NoticesIn(<<e>>) = {}
      BY <2>1 DEF NoticesIn
    <2>3. QED
      BY <2>2, FS_EmptySet
  <1>4. /\ Cardinality(NoticesIn(s)) \in Nat /\ Cardinality(NoticesIn(t)) \in Nat
        /\ Cardinality(NoticesIn(s \o t)) \in Nat
        /\ Cardinality(NoticesIn((s \o <<e>>) \o t)) \in Nat
    BY <1>1, NoticesInType
  <1>5. QED
    BY <1>2, <1>3, <1>4

\* What an event must be for its loss not to count.
LEMMA LostWithout ==
  ASSUME NEW s \in Seq(Events), NEW e \in Events, NEW t \in Seq(Events),
         Outstanding = (s \o <<e>>) \o t, Outstanding' = s \o t, e.kind # "notice"
  PROVE  ~(NoticeCount' < NoticeCount)
  <1>1. /\ Cardinality(NoticesIn(Outstanding)) \in Nat
        /\ Cardinality(NoticesIn(Outstanding')) = Cardinality(NoticesIn(Outstanding))
    BY NoticesWithout
  <1>2. NoticeCount' = Cardinality(NoticesIn(Outstanding'))
    BY DEF NoticeCount, NoticesIn
  <1>3. QED
    BY <1>1, <1>2 DEF NoticeCount

LEMMA SameOutstanding ==
  ASSUME TypeOK, Outstanding' = Outstanding
  PROVE  ~(NoticeCount' < NoticeCount)
  <1>1. NoticeCount' = Cardinality(NoticesIn(Outstanding'))
    BY DEF NoticeCount, NoticesIn
  <1>2. Cardinality(NoticesIn(Outstanding)) \in Nat
    BY OutstandingType, NoticesInType
  <1>3. QED
    BY <1>1, <1>2 DEF NoticeCount

\* An event the controller raises is one more.
LEMMA RaiseLosesNone ==
  ASSUME TypeOK, NEW e \in Events, ctrl' = Append(ctrl, e),
         rxQueue' = rxQueue, tempQueue' = tempQueue
  PROVE  ~(NoticeCount' < NoticeCount)
  <1>1. /\ tempQueue \o rxQueue \in Seq(Events) /\ ctrl \in Seq(Events)
        /\ <<e>> \in Seq(Events)
    BY ConcatProperties DEF TypeOK
  <1>2. Append(ctrl, e) = ctrl \o <<e>>
    BY <1>1, AppendIsConcat
  <1>3. Outstanding' = (tempQueue \o rxQueue) \o (ctrl \o <<e>>)
    BY <1>2 DEF Outstanding
  <1>4. Outstanding' = Outstanding \o <<e>>
    BY <1>1, <1>3, ConcatAssociative DEF Outstanding
  <1>5. Cardinality(NoticesIn(Outstanding \o <<e>>))
          = Cardinality(NoticesIn(Outstanding)) + Cardinality(NoticesIn(<<e>>))
    BY <1>1, OutstandingType, NoticesConcat
  <1>6. Cardinality(NoticesIn(Outstanding)) \in Nat /\ Cardinality(NoticesIn(<<e>>)) \in Nat
    BY <1>1, OutstandingType, NoticesInType
  <1>7. NoticeCount' = Cardinality(NoticesIn(Outstanding'))
    BY DEF NoticeCount, NoticesIn
  <1>8. QED
    BY <1>4, <1>5, <1>6, <1>7 DEF NoticeCount

\* A step that neither moves an event between the queues nor reads one.
LEMMA KeptQueues ==
  ASSUME TypeOK, rxQueue' = rxQueue, tempQueue' = tempQueue, ctrl' = ctrl
  PROVE  ~(NoticeCount' < NoticeCount)
  BY SameOutstanding DEF Outstanding

\* HCI_Isr reads an event, or drops a malformed one.
LEMMA IsrReadLosesNone ==
  ASSUME TypeOK, IsrRead
  PROVE  ~(NoticeCount' < NoticeCount)
  <1> DEFINE h == Head(ctrl)
             s == tempQueue \o rxQueue
  <1>1. ctrl # <<>>
    BY DEF IsrRead
  <1>2. /\ h \in Events /\ Tail(ctrl) \in Seq(Events) /\ <<h>> \in Seq(Events)
        /\ ctrl = <<h>> \o Tail(ctrl)
    BY <1>1, TakeHead, HeadThenTail DEF TypeOK
  <1>3. s \in Seq(Events) /\ tempQueue \in Seq(Events) /\ rxQueue \in Seq(Events)
    BY ConcatProperties DEF TypeOK
  <1>4. tempQueue' = tempQueue /\ ctrl' = Tail(ctrl)
    BY DEF IsrRead
  <1> HIDE DEF h
  <1>5. Outstanding = (s \o <<h>>) \o Tail(ctrl)
    <2>1. Outstanding = s \o (<<h>> \o Tail(ctrl))
      BY <1>2 DEF Outstanding
    <2>2. s \o (<<h>> \o Tail(ctrl)) = (s \o <<h>>) \o Tail(ctrl)
      BY <1>2, <1>3, ConcatAssociative
    <2>3. QED
      BY <2>1, <2>2
  <1>6. CASE h.kind = "bad"
    <2>1. rxQueue' = rxQueue
      BY <1>6 DEF IsrRead, h
    <2>2. Outstanding' = s \o Tail(ctrl)
      BY <1>4, <2>1 DEF Outstanding
    <2>3. h.kind # "notice"
      BY <1>6
    <2>4. QED
      BY <1>2, <1>3, <1>5, <2>2, <2>3, LostWithout
  <1>7. CASE h.kind # "bad"
    <2>1. rxQueue' = Append(rxQueue, h)
      BY <1>7 DEF IsrRead, h
    <2>2. Append(rxQueue, h) = rxQueue \o <<h>>
      BY <1>2, <1>3, AppendIsConcat
    <2>3. tempQueue \o (rxQueue \o <<h>>) = s \o <<h>>
      BY <1>2, <1>3, ConcatAssociative
    <2>4. Outstanding' = (s \o <<h>>) \o Tail(ctrl)
      BY <1>4, <2>1, <2>2, <2>3 DEF Outstanding
    <2>5. QED
      BY <1>5, <2>4, SameOutstanding
  <1>8. QED
    BY <1>6, <1>7

\* The event that ends a request answers a command or is an error.
LEMMA FinishLosesNone ==
  ASSUME TypeOK, TakeAnswer \/ TakeFailure
  PROVE  ~(NoticeCount' < NoticeCount)
  <1> DEFINE h == Head(rxQueue)
             t == Tail(rxQueue)
  <1>1. rxQueue # <<>> /\ Finish
    BY DEF TakeAnswer, TakeFailure, CanTake
  <1>2. /\ h \in Events /\ t \in Seq(Events)
        /\ tempQueue \in Seq(Events) /\ ctrl \in Seq(Events)
        /\ t \o ctrl \in Seq(Events)
        /\ Outstanding = (tempQueue \o <<h>>) \o (t \o ctrl)
    BY <1>1, RxHead
  <1>3. h.kind # "notice"
    BY DEF TakeAnswer, TakeFailure, IsAnswer, IsFailure, Answers
  <1>4. rxQueue' = tempQueue \o t /\ tempQueue' = <<>> /\ ctrl' = ctrl
    BY <1>1 DEF Finish
  <1> HIDE DEF h, t
  <1>5. tempQueue \o t \in Seq(Events)
    BY <1>2, ConcatProperties
  <1>6. <<>> \o (tempQueue \o t) = tempQueue \o t
    BY <1>5, ConcatEmptySeq
  <1>7. (tempQueue \o t) \o ctrl = tempQueue \o (t \o ctrl)
    BY <1>2, ConcatAssociative
  <1>8. Outstanding' = tempQueue \o (t \o ctrl)
    BY <1>4, <1>6, <1>7 DEF Outstanding
  <1>9. QED
    BY <1>2, <1>3, <1>8, LostWithout

\* An event set aside is still there; it is discarded only when no buffer is free.
LEMMA KeepLosesUnderLoad ==
  ASSUME TypeOK, KeepOther, pool # 0
  PROVE  ~(NoticeCount' < NoticeCount)
  <1> DEFINE h == Head(rxQueue)
             t == Tail(rxQueue)
  <1>1. rxQueue # <<>>
    BY DEF KeepOther, CanTake
  <1>2. /\ h \in Events /\ t \in Seq(Events)
        /\ tempQueue \in Seq(Events) /\ ctrl \in Seq(Events)
        /\ t \o ctrl \in Seq(Events)
        /\ Outstanding = (tempQueue \o <<h>>) \o (t \o ctrl)
    BY <1>1, RxHead
  <1>3. rxQueue' = t /\ ctrl' = ctrl /\ tempQueue' = Append(tempQueue, h)
    BY DEF KeepOther
  <1> HIDE DEF h, t
  <1>4. Append(tempQueue, h) = tempQueue \o <<h>> /\ Append(tempQueue, h) \in Seq(Events)
    BY <1>2, AppendIsConcat, AppendProperties
  <1>5. Outstanding' = ((tempQueue \o <<h>>) \o t) \o ctrl
    BY <1>3, <1>4 DEF Outstanding
  <1>6. tempQueue \o <<h>> \in Seq(Events)
    BY <1>4
  <1>7. ((tempQueue \o <<h>>) \o t) \o ctrl = (tempQueue \o <<h>>) \o (t \o ctrl)
    BY <1>2, <1>6, ConcatAssociative
  <1>8. QED
    BY <1>2, <1>5, <1>7, SameOutstanding

\* free_event_list drops an event only when at least half of the buffers are queued.
LEMMA DropsUnderLoad ==
  ASSUME IInv, FreeDrop
  PROVE  2 * Len(rxQueue) >= PacketNum
  <1>1. tempQueue = <<>> /\ pool \in Nat /\ pool < PacketNum \div 2
        /\ pool + Len(rxQueue) + Len(tempQueue) + InHand = PacketNum
    BY DEF IInv, TypeOK, BuffersConserved, NothingSetAsideOutsideRequest, FreeDrop,
           PoolTooSmall
  <1>2. Len(tempQueue) = 0 /\ Len(rxQueue) \in Nat
    BY <1>1, LenProperties, EmptySeq DEF IInv, TypeOK
  <1>3. InHand \in {0, 1}
    BY DEF InHand
  <1>4. QED
    BY <1>1, <1>2, <1>3, PacketNumAssumption

LEMMA StepLoses ==
  IInv /\ [Next]_vars =>
    (NoticeCount' < NoticeCount =>
       \/ hand = NoEvent /\ hand' # NoEvent
       \/ 2 * Len(rxQueue) >= PacketNum
       \/ pool = 0)
  <1> SUFFICES ASSUME IInv, [Next]_vars, NoticeCount' < NoticeCount
               PROVE  \/ hand = NoEvent /\ hand' # NoEvent
                      \/ 2 * Len(rxQueue) >= PacketNum
                      \/ pool = 0
    OBVIOUS
  <1>1. TypeOK
    BY DEF IInv
  <1>2. CASE CtrlNotify \/ CtrlAnswer
    <2>1. /\ rxQueue' = rxQueue /\ tempQueue' = tempQueue
          /\ \E e \in Events : ctrl' = Append(ctrl, e)
      BY <1>2, AnswersAreEvents DEF CtrlNotify, CtrlAnswer, Post, hostVars
    <2>2. QED
      BY <1>1, <2>1, RaiseLosesNone
  <1>3. CASE IsrRead
    BY <1>1, <1>3, IsrReadLosesNone
  <1>4. CASE ProcessTake
    <2>1. hand = NoEvent /\ hand' = Head(rxQueue) /\ rxQueue # <<>>
      BY <1>4 DEF ProcessTake, IInv, ControlOK
    <2>2. Head(rxQueue) \in Events
      BY <1>1, <2>1, TakeHead DEF TypeOK
    <2>3. QED
      BY <2>1, <2>2, NoEventIsNotAnEvent
  <1>5. CASE FreeDrop
    BY <1>5, DropsUnderLoad
  <1>6. CASE TakeAnswer \/ TakeFailure
    BY <1>1, <1>6, FinishLosesNone
  <1>7. CASE KeepOther
    BY <1>1, <1>7, KeepLosesUnderLoad
  <1>8. CASE FailedMove
    <2>1. Outstanding' = Outstanding
      BY <1>1, <1>8, MoveRefines DEF EventStream!vars
    <2>2. QED
      BY <1>1, <2>1, SameOutstanding
  <1>9. CASE \/ IsrInterrupt \/ IsrReturn \/ ProcessBegin \/ ProcessRelease
             \/ ProcessPoll \/ ProcessEnd \/ (\E c \in Cmds : Request(c)) \/ FreeEnd
             \/ SendCmd \/ KeepEnd \/ WaitTimeout \/ FailedEnd \/ TimerExpires
             \/ UNCHANGED vars
    <2>1. rxQueue' = rxQueue /\ tempQueue' = tempQueue /\ ctrl' = ctrl
      BY <1>9 DEF IsrInterrupt, IsrReturn, ProcessBegin, ProcessRelease, ProcessPoll,
         ProcessEnd, Request, FreeEnd, SendCmd, KeepEnd, WaitTimeout, FailedEnd,
         TimerExpires, vars, hostVars
    <2>2. QED
      BY <1>1, <2>1, KeptQueues
  <1>10. QED
    BY <1>2, <1>3, <1>4, <1>5, <1>6, <1>7, <1>8, <1>9 DEF Next, Isr, Process, SendReq

\* An event that answers no command is lost only under load, for every number of
\* buffers: free_event_list drops one when half of them are queued, the discard of
\* hci_send_req when none is free; nothing else loses one.
THEOREM LossOnlyUnderLoad == Spec => NoticesLostOnlyUnderLoad
  <1>1. Spec => []IInv
    BY SpecIInv
  <1>2. QED
    BY <1>1, StepLoses, PTL DEF Spec, NoticesLostOnlyUnderLoad
=============================================================================
