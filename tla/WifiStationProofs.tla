------------------------- MODULE WifiStationProofs -------------------------
(***************************************************************************)
(* Type correctness of the WiFi side, for any sockets, any bound and any   *)
(* faults.  It is not inductive: the driver counts a socket as open when   *)
(* an ID is handled, and every ID has to be that of a socket, in the       *)
(* messages of the module and in the queue.                                *)
(***************************************************************************)
EXTENDS WifiStation, SequenceTheorems, TLAPS

GoodItems == {e \in Items : e.kind = "ID" => e.sock \in Sockets}

IInv ==
  /\ TypeOK
  /\ queue \in Seq(GoodItems) /\ uart \in Seq(GoodItems)

USE DriverAssumption

-----------------------------------------------------------------------------
(* Items and sequences of them.                                            *)

LEMMA GoodItem ==
  ASSUME NEW kind \in Kinds, NEW s \in Sockets \cup {None}, NEW by \in Askers,
         kind = "ID" => s \in Sockets
  PROVE  Item(kind, s, by) \in GoodItems /\ Item(kind, s, by) \in Items
  BY DEF Item, GoodItems, Items

LEMMA GoodIsItems ==
  ASSUME NEW q \in Seq(GoodItems)
  PROVE  q \in Seq(Items)
  <1>1. GoodItems \subseteq Items
    BY DEF GoodItems
  <1>2. QED
    BY <1>1, SeqMonotonic

\* An event that is queued, if it fits.
LEMMA PushTypes ==
  ASSUME NEW e \in GoodItems, queue \in Seq(GoodItems), Len(queue) <= QueueMax, Push(e)
  PROVE  queue' \in Seq(GoodItems) /\ queue' \in Seq(Items) /\ Len(queue') <= QueueMax
  <1>1. CASE Len(queue) < QueueMax
    <2>1. queue' = Append(queue, e) /\ Len(queue) \in Nat
      BY <1>1, LenProperties DEF Push
    <2>2. queue' \in Seq(GoodItems) /\ Len(queue') = Len(queue) + 1
      BY <2>1, AppendProperties
    <2>3. Len(queue') <= QueueMax
      BY <1>1, <2>1, <2>2
    <2>4. QED
      BY <2>2, <2>3, GoodIsItems
  <1>2. CASE ~(Len(queue) < QueueMax)
    BY <1>2, GoodIsItems DEF Push
  <1>3. QED
    BY <1>1, <1>2

LEMMA SendTypes ==
  ASSUME NEW kind \in Kinds, NEW s \in Sockets \cup {None}, NEW by \in Askers,
         cmds \in Seq(Items), Send(kind, s, by)
  PROVE  cmds' \in Seq(Items)
  BY AppendProperties DEF Send, Item, Items

LEMMA QueueCloseTypes ==
  ASSUME NEW s \in Sockets \cup {None}, queue \in Seq(GoodItems), Len(queue) <= QueueMax,
         QueueClose(s)
  PROVE  queue' \in Seq(GoodItems) /\ queue' \in Seq(Items) /\ Len(queue') <= QueueMax
  <1>1. Item("CLOSE", s, "close") \in GoodItems
    BY GoodItem DEF Kinds, Askers
  <1>2. QED
    BY <1>1, PushTypes DEF QueueClose

\* What is given up stays what it is, by whom apart.
LEMMA GivenUpTypes ==
  ASSUME NEW S \in {Items, GoodItems}, NEW q \in Seq(S)
  PROVE  GivenUp(q) \in Seq(S) /\ Len(GivenUp(q)) = Len(q)
  <1>1. /\ Len(q) \in Nat /\ DOMAIN q = 1..Len(q)
        /\ \A i \in 1..Len(q) : q[i] \in S
    BY LenProperties, ElementOfSeq
  <1>2. \A e \in S : [e EXCEPT !.by = "late"] \in S
    <2>1. "late" \in Askers
      BY DEF Askers
    <2>2. \A e \in Items : [e EXCEPT !.by = "late"] \in Items
      BY <2>1 DEF Items
    <2>3. \A e \in GoodItems : [e EXCEPT !.by = "late"] \in GoodItems
      <3>1. \A e \in GoodItems : [e EXCEPT !.by = "late"] \in Items
        BY <2>2 DEF GoodItems
      <3>2. \A e \in Items : /\ [e EXCEPT !.by = "late"].kind = e.kind
                              /\ [e EXCEPT !.by = "late"].sock = e.sock
        BY DEF Items
      <3>3. QED
        BY <3>1, <3>2 DEF GoodItems
    <2>4. QED
      BY <2>2, <2>3
  <1>3. GivenUp(q) \in [1..Len(q) -> S]
    BY <1>1, <1>2 DEF GivenUp
  <1>4. QED
    BY <1>1, <1>3

LEMMA OldestItem ==
  ASSUME NEW S, NEW q \in Seq(S), q # <<>>
  PROVE  Head(q) \in S /\ Tail(q) \in Seq(S) /\ Len(Tail(q)) <= Len(q)
  <1>1. /\ Head(q) \in S /\ Tail(q) \in Seq(S) /\ Len(Tail(q)) = Len(q) - 1
        /\ Len(q) \in Nat
    BY HeadTailProperties, LenProperties, EmptySeq, ElementOfSeq
  <1>2. QED
    BY <1>1

\* Messages of the module and events that answer or indicate.
LEMMA GoodKinds ==
  ASSUME NEW kind \in Kinds \ {"ID"}, NEW by \in Askers, NEW s \in Sockets \cup {None}
  PROVE  Item(kind, s, by) \in GoodItems
  BY GoodItem

LEMMA AppendTypes ==
  ASSUME NEW S, NEW q \in Seq(S), NEW e \in S
  PROVE  Append(q, e) \in Seq(S)
  BY AppendProperties

-----------------------------------------------------------------------------
(* The module and the server: what they say, and what becomes of them.     *)

ModuleKept == <<queue, mailbox, timing, stop, swallow, closeVars, readVars, openVars,
                wind, tim>>

\* The driver's part of the invariant is about variables the module leaves alone.
LEMMA DriverPart ==
  ASSUME DriverTypeOK, UNCHANGED ModuleKept
  PROVE  DriverTypeOK'
  BY DEF DriverTypeOK, ModuleKept, mailbox, closeVars, readVars, openVars

DriverInv == DriverTypeOK /\ queue \in Seq(GoodItems)
ModuleInv == ModuleTypeOK /\ uart \in Seq(GoodItems)

LEMMA SpendTypes ==
  ASSUME budget \in 0..Budget, NEW fault, Spend(fault) \/ UNCHANGED budget
  PROVE  budget' \in 0..Budget
  BY DEF Spend

LEMMA DoneTypes ==
  ASSUME cmds \in Seq(Items), cmds # <<>>, uart \in Seq(GoodItems),
         NEW says \in Seq(GoodItems), Done(says)
  PROVE  /\ cmds' \in Seq(Items) /\ uart' \in Seq(GoodItems) /\ uart' \in Seq(Items)
         /\ UNCHANGED ModuleKept
  <1>1. cmds' \in Seq(Items)
    BY OldestItem DEF Done
  <1>2. uart' \in Seq(GoodItems)
    BY ConcatProperties DEF Done
  <1>3. UNCHANGED ModuleKept
    BY DEF Done, ModuleKept
  <1>4. QED
    BY <1>1, <1>2, <1>3, GoodIsItems

\* Each thing the module does with a command keeps its part of the invariant.
LEMMA ModuleActsTypes ==
  ASSUME ModuleInv, ModuleActs
  PROVE  ModuleInv' /\ UNCHANGED ModuleKept
  <1> DEFINE c == Head(cmds)
  <1>1. /\ cmds \in Seq(Items) /\ cmds # <<>> /\ uart \in Seq(GoodItems)
        /\ assoc \in {"no", "joining", "yes"} /\ budget \in 0..Budget
        /\ shut \subseteq alive /\ alive \subseteq Sockets /\ unread \subseteq Sockets
    BY DEF ModuleInv, ModuleTypeOK, ModuleActs
  <1>2. c \in Items
    BY <1>1, OldestItem
  <1>3. c.kind \in Kinds /\ c.sock \in Sockets \cup {None} /\ c.by \in Askers
    BY <1>2 DEF Items
  <1> HIDE DEF c
  <1> SUFFICES /\ cmds' \in Seq(Items) /\ uart' \in Seq(GoodItems)
               /\ uart' \in Seq(Items) /\ UNCHANGED ModuleKept
               /\ assoc' \in {"no", "joining", "yes"} /\ budget' \in 0..Budget
               /\ shut' \subseteq alive' /\ alive' \subseteq Sockets
               /\ unread' \subseteq Sockets
    BY DEF ModuleInv, ModuleTypeOK
  <1>4. \A a \in GoodItems, b \in GoodItems, d \in GoodItems :
          <<a>> \in Seq(GoodItems) /\ <<a, b>> \in Seq(GoodItems)
          /\ <<a, b, d>> \in Seq(GoodItems)
    OBVIOUS
  <1>5. \A kind \in Kinds \ {"ID"}, s \in Sockets \cup {None}, by \in Askers :
          Item(kind, s, by) \in GoodItems
    BY GoodKinds
  <1>6. \A fault : Spend(fault) => budget' \in 0..Budget
    BY <1>1, SpendTypes
  <1>7. \A says \in Seq(GoodItems) :
          Done(says) => /\ cmds' \in Seq(Items) /\ uart' \in Seq(GoodItems)
                        /\ uart' \in Seq(Items) /\ UNCHANGED ModuleKept
    BY <1>1, DoneTypes
  <1>8. \A kind \in Kinds \ {"ID"} :
          Done(<<Item(kind, None, c.by)>>) => /\ cmds' \in Seq(Items)
                                              /\ uart' \in Seq(GoodItems)
                                              /\ uart' \in Seq(Items)
                                              /\ UNCHANGED ModuleKept
    BY <1>3, <1>4, <1>5, <1>7
  <1>9. {"ERROR", "OK", "HASDATA", "LENGTH", "EMPTY", "VALUE", "PART", "DATA", "PENDING",
         "ON"} \subseteq Kinds \ {"ID"} /\ "module" \in Askers
    BY DEF Kinds, Indications, Askers
  <1>10. CASE ModuleOpens(c)
    <2>1. ASSUME NEW s \in Sockets, Done(<<Item("ID", s, c.by)>>)
          PROVE  /\ cmds' \in Seq(Items) /\ uart' \in Seq(GoodItems)
                 /\ uart' \in Seq(Items) /\ UNCHANGED ModuleKept
      <3>1. Item("ID", s, c.by) \in GoodItems
        BY <1>3, GoodItem DEF Kinds
      <3>2. QED
        BY <1>4, <1>7, <2>1, <3>1
    <2>2. QED
      BY <1>1, <1>6, <1>8, <1>9, <1>10, <2>1 DEF ModuleOpens
  <1>11. CASE ModuleWrites(c)
    <2>1. ASSUME c.sock \in alive \ shut,
                 Done(<<Item("OK", None, c.by), Item("PENDING", c.sock, "module")>>)
          PROVE  /\ cmds' \in Seq(Items) /\ uart' \in Seq(GoodItems)
                 /\ uart' \in Seq(Items) /\ UNCHANGED ModuleKept
      BY <1>3, <1>4, <1>5, <1>7, <1>9, <2>1
    <2>2. QED
      BY <1>1, <1>6, <1>8, <1>9, <1>11, <2>1 DEF ModuleWrites
  <1>12. CASE ModuleCloses(c)
    BY <1>1, <1>8, <1>9, <1>12 DEF ModuleCloses
  <1>13. CASE ModuleQueries(c)
    <2>1. \E kind \in {"ERROR", "LENGTH", "EMPTY"} : Done(<<Item(kind, None, c.by)>>)
      BY <1>13 DEF ModuleQueries
    <2>2. QED
      BY <1>1, <1>8, <1>9, <1>13, <2>1 DEF ModuleQueries
  <1>14. CASE ModuleReads(c)
    <2>1. ASSUME Done(<<Item("PART", None, c.by), Item("DATA", None, c.by),
                        Item("OK", None, c.by)>>)
          PROVE  /\ cmds' \in Seq(Items) /\ uart' \in Seq(GoodItems)
                 /\ uart' \in Seq(Items) /\ UNCHANGED ModuleKept
      BY <1>3, <1>4, <1>5, <1>7, <1>9, <2>1
    <2>2. unread' \subseteq Sockets /\ budget' \in 0..Budget
      BY <1>1, <1>6, <1>14 DEF ModuleReads
    <2>3. QED
      BY <1>1, <1>8, <1>9, <1>14, <2>1, <2>2 DEF ModuleReads
  <1>15. CASE ModuleConfigures(c)
    <2>1. budget' \in 0..Budget
      BY <1>1, <1>6, <1>15 DEF ModuleConfigures
    <2>2. \E kind \in {"VALUE", "OK", "ERROR"} : Done(<<Item(kind, None, c.by)>>)
      BY <1>15 DEF ModuleConfigures
    <2>3. QED
      BY <1>1, <1>8, <1>9, <1>15, <2>1, <2>2 DEF ModuleConfigures
  <1>16. CASE ModuleResets(c)
    <2>1. Item("ON", None, "module") \in GoodItems
      BY <1>5, <1>9
    <2>2. uart' \in Seq(GoodItems) /\ uart' \in Seq(Items)
      BY <1>1, <1>16, <2>1, AppendTypes, GoodIsItems DEF ModuleResets
    <2>3. cmds' \in Seq(Items)
      BY <1>16, EmptySeq DEF ModuleResets
    <2>4. QED
      BY <1>1, <1>16, <2>2, <2>3 DEF ModuleResets, ModuleKept
  <1>17. QED
    BY <1>10, <1>11, <1>12, <1>13, <1>15, <1>16, <1>14 DEF ModuleActs, c

\* What happens to the module unasked.
LEMMA IndicatesTypes ==
  ASSUME NEW kind \in Indications \cup {"CLOSED"}, NEW s \in Sockets \cup {None},
         Indicates(kind, s), cmds \in Seq(Items), uart \in Seq(GoodItems)
  PROVE  /\ cmds' \in Seq(Items) /\ uart' \in Seq(GoodItems) /\ uart' \in Seq(Items)
         /\ UNCHANGED ModuleKept
  <1>1. kind \in Kinds \ {"ID"} /\ "module" \in Askers
    BY DEF Kinds, Indications, Askers
  <1>2. Item(kind, s, "module") \in GoodItems
    BY <1>1, GoodKinds
  <1>3. uart' \in Seq(GoodItems) /\ uart' \in Seq(Items)
    BY <1>2, AppendTypes, GoodIsItems DEF Indicates
  <1>4. QED
    BY <1>3 DEF Indicates, ModuleKept

LEMMA UnaskedTypes ==
  ASSUME ModuleInv, ModuleJoins \/ ServerCloses \/ StationDropped
  PROVE  ModuleInv' /\ UNCHANGED ModuleKept
  <1>1. /\ cmds \in Seq(Items) /\ uart \in Seq(GoodItems)
        /\ assoc \in {"no", "joining", "yes"} /\ budget \in 0..Budget
        /\ shut \subseteq alive /\ alive \subseteq Sockets /\ unread \subseteq Sockets
    BY DEF ModuleInv, ModuleTypeOK
  <1> SUFFICES /\ cmds' \in Seq(Items) /\ uart' \in Seq(GoodItems)
               /\ uart' \in Seq(Items) /\ UNCHANGED ModuleKept
               /\ assoc' \in {"no", "joining", "yes"} /\ budget' \in 0..Budget
               /\ shut' \subseteq alive' /\ alive' \subseteq Sockets
               /\ unread' \subseteq Sockets
    BY DEF ModuleInv, ModuleTypeOK
  <1>2. \A kind \in Indications \cup {"CLOSED"}, s \in Sockets \cup {None} :
          Indicates(kind, s) => /\ cmds' \in Seq(Items) /\ uart' \in Seq(GoodItems)
                                /\ uart' \in Seq(Items) /\ UNCHANGED ModuleKept
    BY <1>1, IndicatesTypes
  <1>3. \A fault : Spend(fault) => budget' \in 0..Budget
    BY <1>1, SpendTypes
  <1>4. {"UP", "JOINFAILED", "DEAUTH", "DISASSOC"} \subseteq Indications
    BY DEF Indications
  <1>5. CASE ModuleJoins
    BY <1>1, <1>2, <1>3, <1>4, <1>5 DEF ModuleJoins
  <1>6. CASE ServerCloses
    <2>1. PICK s \in alive \ shut : shut' = shut \cup {s} /\ Indicates("CLOSED", s)
      BY <1>6 DEF ServerCloses
    <2>2. budget' \in 0..Budget /\ UNCHANGED <<assoc, alive, unread>>
      BY <1>3, <1>6 DEF ServerCloses
    <2>3. QED
      BY <1>1, <1>2, <2>1, <2>2
  <1>7. CASE StationDropped
    BY <1>1, <1>2, <1>3, <1>4, <1>7 DEF StationDropped
  <1>8. QED
    BY <1>5, <1>6, <1>7

-----------------------------------------------------------------------------
(* SysTick.                                                                *)

LEMMA ParseTypes ==
  ASSUME DriverInv, ModuleInv, Parse
  PROVE  DriverInv' /\ ModuleInv'
  <1> DEFINE m == Head(uart)
  <1>1. /\ DriverTypeOK /\ queue \in Seq(GoodItems) /\ Len(queue) <= QueueMax
        /\ queue \in Seq(Items) /\ uart # <<>> /\ uart \in Seq(GoodItems)
    BY DEF DriverInv, DriverTypeOK, ModuleInv, Parse
  <1>2. m \in GoodItems /\ uart' \in Seq(GoodItems) /\ uart' \in Seq(Items)
    BY <1>1, OldestItem, GoodIsItems DEF Parse
  <1> HIDE DEF m
  <1>3. ModuleInv'
    BY <1>2 DEF ModuleInv, ModuleTypeOK, Parse, ParserVars
  <1>4. UNCHANGED ParserVars
    BY DEF Parse
  <1>5. /\ queue' \in Seq(GoodItems) /\ queue' \in Seq(Items) /\ Len(queue') <= QueueMax
        /\ {timing, stop, swallow, closing, tellClosed, closedCb}' \subseteq BOOLEAN
        /\ {query, startRead, dataCb, dequeue}' \subseteq BOOLEAN
        /\ owed' \subseteq Sockets \cup {None} /\ open' \subseteq Sockets
        /\ clients' \in Nat /\ reading' \in {"no", "asked", "part"}
    <2>1. /\ {timing, stop, swallow, closing, tellClosed, closedCb} \subseteq BOOLEAN
          /\ {query, startRead, dataCb, dequeue} \subseteq BOOLEAN
          /\ owed \subseteq Sockets \cup {None} /\ open \subseteq Sockets
          /\ closeId \in Sockets \cup {None} /\ queryId \in Sockets \cup {None}
          /\ clients \in Nat /\ reading \in {"no", "asked", "part"}
      BY <1>1 DEF DriverTypeOK
    <2>2. Push(m) => /\ queue' \in Seq(GoodItems) /\ queue' \in Seq(Items)
                     /\ Len(queue') <= QueueMax
      BY <1>1, <1>2, PushTypes
    <2>3. QueueClose(queryId) => /\ queue' \in Seq(GoodItems) /\ queue' \in Seq(Items)
                                 /\ Len(queue') <= QueueMax
      BY <1>1, <2>1, QueueCloseTypes
    <2>4. CASE ParseEvent(m)
      BY <2>1, <2>2, <2>4 DEF ParseEvent
    <2>5. CASE ParseError(m)
      BY <2>1, <2>2, <2>5 DEF ParseError
    <2>6. CASE ParseSwallowed(m)
      <3>1. CASE closing
        <4>1. /\ closing' = FALSE /\ stop' = FALSE /\ swallow' = FALSE
              /\ clients' = (IF clients > 0 THEN clients - 1 ELSE 0)
              /\ open' = open \ {closeId} /\ tellClosed' = TRUE
              /\ closedCb' = (closedCb \/ tellClosed)
              /\ UNCHANGED <<queue, timing, owed, query, startRead, reading, dataCb, dequeue>>
          BY <2>6, <3>1 DEF ParseSwallowed
        <4>2. closedCb' \in BOOLEAN /\ clients' \in Nat
          BY <2>1, <4>1
        <4>3. QED
          BY <1>1, <2>1, <4>1, <4>2
      <3>2. CASE ~closing
        BY <1>1, <2>1, <2>6, <3>2 DEF ParseSwallowed
      <3>3. QED
        BY <3>1, <3>2
    <2>7. CASE ParseHasData(m)
      BY <1>1, <2>1, <2>7 DEF ParseHasData
    <2>8. CASE ParseLength(m)
      BY <1>1, <2>1, <2>8 DEF ParseLength
    <2>9. CASE ParseEmpty(m)
      BY <1>1, <2>1, <2>3, <2>9 DEF ParseEmpty
    <2>10. CASE ParseData(m)
      BY <1>1, <2>1, <2>10 DEF ParseData
    <2>11. CASE ParseReadError(m)
      BY <1>1, <2>1, <2>11 DEF ParseReadError
    <2>12. QED
      BY <2>4, <2>5, <2>6, <2>7, <2>8, <2>9, <2>10, <2>11 DEF Parse, m
  <1>6. answered' \in BOOLEAN /\ response' \in [ok : BOOLEAN, by : Askers]
    <2>1. answered \in BOOLEAN /\ response \in [ok : BOOLEAN, by : Askers] /\ m.by \in Askers
      BY <1>1, <1>2 DEF DriverTypeOK, GoodItems, Items
    <2>2. CASE UNCHANGED mailbox
      BY <2>1, <2>2 DEF mailbox
    <2>3. CASE Answer(FALSE, m.by)
      BY <2>1, <2>3 DEF Answer
    <2>4. QED
      BY <2>2, <2>3 DEF Parse, ParseReadError, m
  <1>7. QED
    BY <1>1, <1>3, <1>4, <1>5, <1>6 DEF DriverInv, DriverTypeOK, ParserVars

LEMMA TimeoutTypes ==
  ASSUME DriverInv, ModuleInv, Timeout
  PROVE  DriverInv' /\ ModuleInv'
  <1>1. /\ queue \in Seq(GoodItems) /\ uart \in Seq(GoodItems) /\ cmds \in Seq(Items)
        /\ Len(queue) <= QueueMax /\ budget \in 0..Budget
    BY DEF DriverInv, DriverTypeOK, ModuleInv, ModuleTypeOK
  <1>2. /\ queue' \in Seq(GoodItems) /\ queue' \in Seq(Items) /\ Len(queue') <= QueueMax
        /\ uart' \in Seq(GoodItems) /\ uart' \in Seq(Items) /\ cmds' \in Seq(Items)
    <2>1. /\ GivenUp(queue) \in Seq(GoodItems) /\ Len(GivenUp(queue)) = Len(queue)
          /\ GivenUp(uart) \in Seq(GoodItems) /\ GivenUp(cmds) \in Seq(Items)
      BY <1>1, GivenUpTypes
    <2>2. QED
      BY <1>1, <2>1, GoodIsItems DEF Timeout
  <1>3. budget' \in 0..Budget
    BY <1>1, SpendTypes DEF Timeout
  <1>4. ModuleInv'
    BY <1>2, <1>3 DEF ModuleInv, ModuleTypeOK, Timeout
  <1>5. answered' \in BOOLEAN /\ response' \in [ok : BOOLEAN, by : Askers]
    BY DEF Timeout, Answer, Askers
  <1>6. DriverInv'
    BY <1>2, <1>5 DEF DriverInv, DriverTypeOK, Timeout, closeVars, readVars, openVars
  <1>7. QED
    BY <1>4, <1>6

-----------------------------------------------------------------------------
(* The timer handler.                                                      *)

LEMMA PopTypes ==
  ASSUME DriverInv, ModuleInv, Pop
  PROVE  DriverInv' /\ ModuleInv'
  <1> DEFINE e == Head(queue)
  <1>1. /\ DriverTypeOK /\ queue # <<>> /\ queue \in Seq(GoodItems)
        /\ Len(queue) <= QueueMax /\ cmds \in Seq(Items)
        /\ closeId \in Sockets \cup {None} /\ openId \in Sockets \cup {None}
        /\ closeCmd \in Sockets \cup {None} /\ queryId \in Sockets \cup {None}
        /\ {timing, stop, swallow, closing, query, answered} \subseteq BOOLEAN
        /\ response \in [ok : BOOLEAN, by : Askers]
        /\ open \subseteq Sockets /\ clients \in Nat
        /\ reading \in {"no", "asked", "part"}
    BY DEF DriverInv, DriverTypeOK, ModuleInv, ModuleTypeOK, Pop, CanPop
  <1>2. /\ e \in GoodItems /\ queue' \in Seq(GoodItems) /\ queue' \in Seq(Items)
        /\ Len(queue') <= QueueMax
    <2>1. /\ e \in GoodItems /\ Tail(queue) \in Seq(GoodItems)
          /\ Len(Tail(queue)) <= Len(queue) /\ Len(Tail(queue)) \in Nat /\ Len(queue) \in Nat
      BY <1>1, OldestItem, LenProperties
    <2>2. QED
      BY <1>1, <2>1, GoodIsItems DEF Pop
  <1>3. /\ e.kind \in Kinds /\ e.sock \in Sockets \cup {None} /\ e.by \in Askers
        /\ e.kind = "ID" => e.sock \in Sockets
    BY <1>2 DEF GoodItems, Items
  <1> HIDE DEF e
  <1>4. \A ok \in BOOLEAN, by \in Askers :
          Answer(ok, by) => answered' \in BOOLEAN /\ response' \in [ok : BOOLEAN, by : Askers]
    BY DEF Answer
  <1>5. /\ cmds' \in Seq(Items)
        /\ answered' \in BOOLEAN /\ response' \in [ok : BOOLEAN, by : Askers]
        /\ {timing, stop, swallow, closing, query}' \subseteq BOOLEAN
        /\ closeId' \in Sockets \cup {None} /\ openId' \in Sockets \cup {None}
        /\ closeCmd' \in Sockets \cup {None} /\ queryId' \in Sockets \cup {None}
        /\ open' \subseteq Sockets /\ clients' \in Nat
        /\ reading' \in {"no", "asked", "part"}
    <2>1. \A kind \in {"open", "connect", "publish", "close"}, by \in Askers :
             Send(kind, e.sock, by) => cmds' \in Seq(Items)
      BY <1>1, <1>3, SendTypes DEF Kinds
    <2>2. CASE PopPending(e)
      BY <1>1, <1>3, <2>2 DEF PopPending, mailbox, openVars
    <2>3. CASE PopClosed(e)
      BY <1>1, <1>3, <2>3 DEF PopClosed, mailbox, openVars
    <2>4. CASE PopId(e)
      <3>1. answered' \in BOOLEAN /\ response' \in [ok : BOOLEAN, by : Askers]
        BY <1>3, <1>4, <2>4 DEF PopId
      <3>2. open' \subseteq Sockets /\ openId' \in Sockets \cup {None} /\ clients' \in Nat
        <4>1. /\ e.sock \in Sockets /\ clients' = clients + 1
              /\ \/ UNCHANGED <<open, openId>>
                 \/ open' = open \cup {e.sock} /\ openId' = e.sock
          BY <1>3, <2>4 DEF PopId
        <4>2. QED
          BY <1>1, <4>1
      <3>3. QED
        BY <1>1, <2>4, <3>1, <3>2 DEF PopId
    <2>5. CASE PopAnswer(e)
      BY <1>1, <1>3, <1>4, <2>5 DEF PopAnswer, openVars
    <2>6. CASE PopCommand(e)
      <3>1. cmds' \in Seq(Items)
        <4>1. \E kind \in {"open", "connect", "publish"} : Send(kind, e.sock, e.by)
          BY <2>6 DEF PopCommand
        <4>2. QED
          BY <1>3, <2>1, <4>1
      <3>2. timing' \in BOOLEAN
        BY <1>1, <2>6 DEF PopCommand
      <3>3. QED
        BY <1>1, <2>6, <3>1, <3>2 DEF PopCommand, mailbox, openVars
    <2>7. CASE PopClose(e)
      <3>1. CASE e.sock \in open
        <4>1. cmds' \in Seq(Items)
          BY <2>1, <2>7, <3>1 DEF PopClose, Askers
        <4>2. response' \in [ok : BOOLEAN, by : Askers]
          BY <1>1, <2>7, <3>1 DEF PopClose
        <4>3. QED
          BY <1>1, <1>3, <2>7, <3>1, <4>1, <4>2 DEF PopClose, openVars
      <3>2. CASE e.sock \notin open
        BY <1>1, <2>7, <3>2 DEF PopClose, openVars
      <3>3. QED
        BY <3>1, <3>2
    <2>8. CASE PopIndication(e)
      BY <1>1, <2>8 DEF PopIndication, mailbox, openVars
    <2>9. QED
      BY <2>2, <2>3, <2>4, <2>5, <2>6, <2>7, <2>8 DEF Pop, e
  <1>6. tim' = "chain" /\ wind' \in Indications \cup {None}
    BY DEF Pop
  <1>7. UNCHANGED <<tellClosed, closedCb, owed, startRead, dataCb, dequeue,
                    uart, assoc, alive, shut, unread, budget>>
    BY DEF Pop
  <1>8. DriverInv'
    BY <1>1, <1>2, <1>5, <1>6, <1>7 DEF DriverInv, DriverTypeOK
  <1>9. ModuleInv'
    BY <1>5, <1>7 DEF ModuleInv, ModuleTypeOK
  <1>10. QED
    BY <1>8, <1>9

LEMMA ChainTypes ==
  ASSUME DriverInv, ModuleInv, Chain
  PROVE  DriverInv' /\ ModuleInv'
  <1>1. /\ DriverTypeOK /\ queue \in Seq(GoodItems) /\ queue \in Seq(Items)
        /\ Len(queue) <= QueueMax /\ cmds \in Seq(Items)
        /\ closeCmd \in Sockets \cup {None} /\ queryId \in Sockets \cup {None}
        /\ {stop, startRead, query, dataCb, dequeue, closedCb} \subseteq BOOLEAN
        /\ reading \in {"no", "asked", "part"}
    BY DEF DriverInv, DriverTypeOK, ModuleInv, ModuleTypeOK
  <1>2. /\ queue' \in Seq(GoodItems) /\ queue' \in Seq(Items) /\ Len(queue') <= QueueMax
        /\ cmds' \in Seq(Items) /\ closeCmd' \in Sockets \cup {None}
        /\ {stop, startRead, query, dataCb, dequeue, closedCb}' \subseteq BOOLEAN
        /\ reading' \in {"no", "asked", "part"}
    <2>1. \A kind \in {"read", "query"} :
             Send(kind, queryId, "read") => cmds' \in Seq(Items)
      BY <1>1, SendTypes DEF Kinds, Askers
    <2>2. QueueClose(closeCmd) => /\ queue' \in Seq(GoodItems) /\ queue' \in Seq(Items)
                                  /\ Len(queue') <= QueueMax
      BY <1>1, QueueCloseTypes
    <2>3. CASE ChainRead
      BY <1>1, <2>1, <2>3 DEF ChainRead
    <2>4. CASE ChainQuery
      BY <1>1, <2>1, <2>4 DEF ChainQuery
    <2>5. CASE ChainData
      BY <1>1, <2>5 DEF ChainData
    <2>6. CASE ChainClose
      BY <1>1, <2>2, <2>6 DEF ChainClose
    <2>7. CASE ChainClosed
      BY <1>1, <2>7 DEF ChainClosed
    <2>8. CASE ChainNothing
      BY <1>1, <2>8 DEF ChainNothing
    <2>9. QED
      BY <2>3, <2>4, <2>5, <2>6, <2>7, <2>8 DEF Chain
  <1>3. /\ tim' = "idle" /\ wind' = None
        /\ UNCHANGED <<mailbox, timing, swallow, closing, closeId, tellClosed, owed,
                       queryId, openVars, uart, assoc, alive, shut, unread, budget>>
    BY DEF Chain
  <1>4. DriverInv'
    BY <1>1, <1>2, <1>3 DEF DriverInv, DriverTypeOK, mailbox, openVars
  <1>5. ModuleInv'
    BY <1>2, <1>3 DEF ModuleInv, ModuleTypeOK
  <1>6. QED
    BY <1>4, <1>5

-----------------------------------------------------------------------------
(* The thread.                                                             *)

StationInv ==
  /\ wifi_state \in WifiStates /\ pc \in Waits \cup {"loop"}
  /\ sock \in Sockets \cup {None}
  /\ {isconnected, inbox, wifi_connected, wifi_present, ongoing, started,
      start_bnrg} \subseteq BOOLEAN

\* Of the driver the thread writes only these.
LEMMA CallTypes ==
  ASSUME DriverInv, ModuleInv, UNCHANGED DriverKept,
         queue' \in Seq(GoodItems), Len(queue') <= QueueMax, cmds' \in Seq(Items),
         answered' \in BOOLEAN, response' \in [ok : BOOLEAN, by : Askers],
         tellClosed' \in BOOLEAN, budget' \in 0..Budget
  PROVE  DriverInv' /\ ModuleInv'
  <1>1. queue' \in Seq(Items)
    BY GoodIsItems
  <1>2. DriverInv'
    BY <1>1 DEF DriverInv, DriverTypeOK, DriverKept, readVars, openVars
  <1>3. ModuleInv'
    BY DEF ModuleInv, ModuleTypeOK, DriverKept
  <1>4. QED
    BY <1>2, <1>3

LEMMA ThreadDriverTypes ==
  ASSUME DriverInv, ModuleInv, StationInv, Thread
  PROVE  DriverInv' /\ ModuleInv'
  <1>1. /\ queue \in Seq(GoodItems) /\ Len(queue) <= QueueMax /\ cmds \in Seq(Items)
        /\ answered \in BOOLEAN /\ response \in [ok : BOOLEAN, by : Askers]
        /\ tellClosed \in BOOLEAN /\ budget \in 0..Budget /\ sock \in Sockets \cup {None}
    BY DEF DriverInv, DriverTypeOK, ModuleInv, ModuleTypeOK, StationInv
  <1>2. \A kind \in {"OPEN", "CONNECT", "PUBLISH"}, s \in {None, sock} :
          Asks(kind, s) => DriverInv' /\ ModuleInv'
    <2> SUFFICES ASSUME NEW kind \in {"OPEN", "CONNECT", "PUBLISH"}, NEW s \in {None, sock},
                        Asks(kind, s)
                 PROVE  DriverInv' /\ ModuleInv'
      OBVIOUS
    <2>1. kind \in Kinds \ {"ID"} /\ "thread" \in Askers /\ s \in Sockets \cup {None}
      BY <1>1 DEF Kinds, Askers
    <2>2. queue' \in Seq(GoodItems) /\ Len(queue') <= QueueMax
      BY <1>1, <2>1, GoodKinds, PushTypes DEF Asks
    <2>3. QED
      BY <1>1, <2>2, CallTypes DEF Asks, mailbox
  <1>3. \A kind \in {"scan", "config", "reset", "value"} :
          Commands(kind) => DriverInv' /\ ModuleInv'
    <2> SUFFICES ASSUME NEW kind \in {"scan", "config", "reset", "value"}, Commands(kind)
                 PROVE  DriverInv' /\ ModuleInv'
      OBVIOUS
    <2>1. kind \in Kinds /\ "thread" \in Askers
      BY DEF Kinds, Askers
    <2>2. cmds' \in Seq(Items)
      BY <1>1, <2>1, SendTypes DEF Commands
    <2>3. QED
      BY <1>1, <2>2, CallTypes DEF Commands, mailbox
  <1>4. NoCall => DriverInv' /\ ModuleInv'
    BY <1>1, CallTypes DEF NoCall, mailbox
  <1>5. \A kind \in {"config", "reset", "value"} :
          Answered /\ (Send(kind, None, "thread") \/ UNCHANGED cmds)
            => DriverInv' /\ ModuleInv'
    <2> SUFFICES ASSUME NEW kind \in {"config", "reset", "value"}, Answered,
                        Send(kind, None, "thread") \/ UNCHANGED cmds
                 PROVE  DriverInv' /\ ModuleInv'
      OBVIOUS
    <2>1. kind \in Kinds /\ "thread" \in Askers
      BY DEF Kinds, Askers
    <2>2. cmds' \in Seq(Items)
      BY <1>1, <2>1, SendTypes
    <2>3. QED
      BY <1>1, <2>2, CallTypes DEF Answered, mailbox
  <1>6. CASE Scan
    BY <1>3, <1>6 DEF Scan
  <1>7. CASE Scanned
    BY <1>5, <1>7 DEF Scanned
  <1>8. CASE Disconnected
    BY <1>4, <1>8 DEF Disconnected
  <1>9. CASE Reconnect
    BY <1>3, <1>9 DEF Reconnect
  <1>10. CASE Configured
    BY <1>5, <1>10 DEF Configured
  <1>11. CASE IsReset
    BY <1>4, <1>11 DEF IsReset
  <1>12. CASE WithoutWifi
    BY <1>4, <1>12 DEF WithoutWifi
  <1>13. CASE MqttSocketCreate
    BY <1>2, <1>13 DEF MqttSocketCreate
  <1>14. CASE SocketCreated
    BY <1>5, <1>14 DEF SocketCreated
  <1>15. CASE MqttConnectCall
    BY <1>2, <1>15 DEF MqttConnectCall
  <1>16. CASE MqttConnectRefused
    <2>1. /\ UNCHANGED <<DriverKept, mailbox, queue, cmds, budget>>
          /\ tellClosed' = FALSE
      BY <1>16 DEF MqttConnectRefused, Closing
    <2>2. QED
      BY <1>1, <2>1, CallTypes DEF mailbox
  <1>17. CASE ConnectSent
    <2>1. /\ UNCHANGED <<DriverKept, response, queue, cmds, budget>>
          /\ answered' = FALSE /\ (tellClosed' = FALSE \/ UNCHANGED tellClosed)
      BY <1>17 DEF ConnectSent, Closing
    <2>2. QED
      BY <1>1, <2>1, CallTypes
  <1>18. CASE Connack
    BY <1>4, <1>18 DEF Connack
  <1>19. CASE ConnackTimeout
    <2>1. /\ UNCHANGED <<DriverKept, mailbox, queue, cmds>> /\ tellClosed' = FALSE
          /\ Spend("silent") \/ UNCHANGED budget
      BY <1>19 DEF ConnackTimeout, Closing
    <2>2. budget' \in 0..Budget
      BY <1>1, <2>1, SpendTypes
    <2>3. QED
      BY <1>1, <2>1, <2>2, CallTypes DEF mailbox
  <1>20. CASE SocketClosed
    <2>1. queue' \in Seq(GoodItems) /\ Len(queue') <= QueueMax
      BY <1>1, <1>20, QueueCloseTypes DEF SocketClosed
    <2>2. UNCHANGED <<DriverKept, mailbox, tellClosed, cmds, budget>>
      BY <1>20 DEF SocketClosed
    <2>3. QED
      BY <1>1, <2>1, <2>2, CallTypes DEF mailbox
  <1>21. CASE ChannelKnown
    BY <1>4, <1>21 DEF ChannelKnown
  <1>22. CASE ChannelAsked
    BY <1>3, <1>22 DEF ChannelAsked
  <1>23. CASE ChannelRead
    BY <1>5, <1>23 DEF ChannelRead
  <1>24. CASE MqttPublish
    BY <1>2, <1>4, <1>24 DEF MqttPublish
  <1>25. CASE Published
    BY <1>5, <1>25 DEF Published
  <1>26. CASE NoNewData
    BY <1>4, <1>26 DEF NoNewData
  <1>27. CASE Delay
    BY <1>4, <1>27 DEF Delay
  <1>28. QED
    BY <1>6, <1>7, <1>8, <1>9, <1>10, <1>11, <1>12, <1>13, <1>14, <1>15, <1>16, <1>17,
       <1>18, <1>19, <1>20, <1>21, <1>22, <1>23, <1>24, <1>25, <1>26, <1>27 DEF Thread

LEMMA ThreadStationTypes ==
  ASSUME DriverInv, StationInv, Thread
  PROVE  StationInv'
  <1>1. openId \in Sockets \cup {None}
    BY DEF DriverInv, DriverTypeOK
  <1> USE DEF StationInv, WifiStates, Waits
  <1>2. CASE Scan
    BY <1>2 DEF Scan
  <1>3. CASE Scanned
    BY <1>3 DEF Scanned
  <1>4. CASE Disconnected
    BY <1>4 DEF Disconnected
  <1>5. CASE Reconnect
    BY <1>5 DEF Reconnect
  <1>6. CASE Configured
    BY <1>6 DEF Configured, ConnectFailed
  <1>7. CASE IsReset
    BY <1>7 DEF IsReset
  <1>8. CASE WithoutWifi
    BY <1>8 DEF WithoutWifi
  <1>9. CASE MqttSocketCreate
    BY <1>9 DEF MqttSocketCreate
  <1>10. CASE SocketCreated
    BY <1>1, <1>10 DEF SocketCreated
  <1>11. CASE MqttConnectCall
    BY <1>11 DEF MqttConnectCall
  <1>12. CASE MqttConnectRefused
    BY <1>12 DEF MqttConnectRefused, Closing
  <1>13. CASE ConnectSent
    BY <1>13 DEF ConnectSent, Closing
  <1>14. CASE Connack
    BY <1>14 DEF Connack
  <1>15. CASE ConnackTimeout
    BY <1>15 DEF ConnackTimeout, Closing
  <1>16. CASE SocketClosed
    BY <1>16 DEF SocketClosed
  <1>17. CASE ChannelKnown
    BY <1>17 DEF ChannelKnown
  <1>18. CASE ChannelAsked
    BY <1>18 DEF ChannelAsked
  <1>19. CASE ChannelRead
    BY <1>19 DEF ChannelRead
  <1>20. CASE MqttPublish
    BY <1>20 DEF MqttPublish
  <1>21. CASE Published
    BY <1>21 DEF Published
  <1>22. CASE NoNewData
    BY <1>22 DEF NoNewData
  <1>23. CASE Delay
    BY <1>23 DEF Delay
  <1>24. QED
    BY <1>2, <1>3, <1>4, <1>5, <1>6, <1>7, <1>8, <1>9, <1>10, <1>11, <1>12, <1>13, <1>14,
       <1>15, <1>16, <1>17, <1>18, <1>19, <1>20, <1>21, <1>22, <1>23 DEF Thread

\* The calls back from the timer handler into the program.
LEMMA TimerChainStationTypes ==
  ASSUME StationInv, TimerChain
  PROVE  StationInv'
  <1>1. /\ inbox' \in BOOLEAN /\ started' \in BOOLEAN /\ wifi_connected' \in BOOLEAN
    BY DEF TimerChain, StationInv
  <1>2. wifi_state' \in WifiStates
    <2>1. AfterClosed \in WifiStates
      BY DEF AfterClosed, WifiStates, StationInv
    <2>2. wifi_state' \in {"mqtt_socket_create", "disconnected", AfterClosed}
      BY DEF TimerChain
    <2>3. QED
      BY <2>1, <2>2 DEF WifiStates
  <1>3. QED
    BY <1>1, <1>2 DEF TimerChain, StationInv

-----------------------------------------------------------------------------
(* The theorem.                                                            *)

LEMMA Parts == IInv <=> DriverInv /\ ModuleInv /\ StationInv
  BY DEF IInv, TypeOK, DriverInv, ModuleInv, StationInv

LEMMA InitIInv == Init => IInv
  <1> SUFFICES ASSUME Init PROVE IInv
    OBVIOUS
  <1>1. <<>> \in Seq(GoodItems) /\ <<>> \in Seq(Items) /\ Len(<<>>) = 0
    BY EmptySeq
  <1>2. DriverInv
    <2>1. response \in [ok : BOOLEAN, by : Askers]
      BY DEF Init, DriverInit, Askers
    <2>2. /\ queue \in Seq(GoodItems) /\ queue \in Seq(Items) /\ Len(queue) <= QueueMax
      BY <1>1 DEF Init, DriverInit
    <2>3. QED
      BY <2>1, <2>2 DEF Init, DriverInit, DriverInv, DriverTypeOK
  <1>3. ModuleInv
    BY <1>1 DEF Init, DriverInit, ModuleInv, ModuleTypeOK
  <1>4. StationInv
    BY DEF Init, StationInv, WifiStates, Waits
  <1>5. QED
    BY <1>2, <1>3, <1>4, Parts

LEMMA NextIInv == IInv /\ [Next]_vars => IInv'
  <1> SUFFICES ASSUME DriverInv, ModuleInv, StationInv, [Next]_vars
               PROVE  DriverInv' /\ ModuleInv' /\ StationInv'
    BY Parts DEF IInv, TypeOK, DriverInv, ModuleInv, StationInv
  <1>1. CASE Thread
    BY <1>1, ThreadDriverTypes, ThreadStationTypes
  <1>2. CASE TimerPop
    BY <1>2, PopTypes DEF TimerPop, StationInv, stationVars
  <1>3. CASE TimerChain
    BY <1>3, ChainTypes, TimerChainStationTypes DEF TimerChain
  <1>4. CASE Driver
    <2>1. StationInv'
      BY <1>4 DEF Driver, StationInv, stationVars
    <2>2. CASE SysTick
      BY <2>1, <2>2, ParseTypes, TimeoutTypes DEF SysTick
    <2>3. CASE ModuleActs
      BY <2>1, <2>3, ModuleActsTypes, DriverPart DEF DriverInv, ModuleKept
    <2>4. QED
      BY <1>4, <2>2, <2>3 DEF Driver
  <1>5. CASE World
    <2>1. StationInv'
      BY <1>5 DEF World, StationInv, stationVars
    <2>2. ModuleInv' /\ UNCHANGED ModuleKept
      BY <1>5, UnaskedTypes DEF World
    <2>3. QED
      BY <2>1, <2>2, DriverPart DEF DriverInv, ModuleKept
  <1>6. CASE UNCHANGED vars
    BY <1>6 DEF vars, driverVars, stationVars, mailbox, closeVars, readVars, openVars,
                moduleVars, DriverInv, DriverTypeOK, ModuleInv, ModuleTypeOK, StationInv
  <1>7. QED
    BY <1>1, <1>2, <1>3, <1>4, <1>5, <1>6 DEF Next

\* Every variable of the WiFi side has its type, whatever the module, the broker and the
\* access point do: no event but those of the program's own alphabet is ever queued, the
\* queue never outgrows its buffer, and the driver's open sockets are ids of the module.
THEOREM StationTypes == Spec => []TypeOK
  <1>1. IInv => TypeOK
    BY DEF IInv
  <1>2. QED
    BY InitIInv, NextIInv, <1>1, PTL DEF Spec
=============================================================================
