--------------------------- MODULE WifiCallProofs ---------------------------
(***************************************************************************)
(* Proofs about the calls of the WiFi side: an answer belongs to the call  *)
(* that takes it, the timer handler never waits, events are held back only *)
(* for an answer that comes.  The invariant, CallInv, is about what is     *)
(* under way between the thread, the driver and the module.  With it,      *)
(* AgreeInv shows that the three agree on the sockets there are.           *)
(***************************************************************************)
EXTENDS WifiStationProofs, FiniteSetTheorems

\* No command is given up, no connection is closed while the program waits, no
\* read fails while a closing is put off, and the event buffer has a place for
\* each event there can be.
Prompt == Faults \cap {"late", "race", "readkeep"} = {} /\ QueueMax >= 7

-----------------------------------------------------------------------------
(* What is under way, by class: of each class there is one item at most.   *)
(* The failure of a read is of the class of its command.                   *)

Class(e) ==
  IF e.by = "read"
  THEN IF e.kind \in {"PART", "DATA", "OK"} THEN e.kind
       ELSE IF e.kind \in {"read", "ERROR"} THEN "read" ELSE "query"
  ELSE IF e.by = "close" THEN "close"
  ELSE IF e.by = "thread" THEN IF e.kind = "reset" THEN "ON" ELSE "thread"
  ELSE IF e.kind \in {"UP", "JOINFAILED"} THEN "join"
  ELSE IF e.kind \in {"DEAUTH", "DISASSOC"} THEN "drop"
  ELSE e.kind

Of(q) == {q[i] : i \in DOMAIN q}
Classes(q) == {Class(e) : e \in Of(q)}

Queued == Classes(queue)
Said == Classes(uart)
Sent == Classes(cmds)
UnderWay == Queued \cup Said \cup Sent

Once(q) == \A i, j \in DOMAIN q : Class(q[i]) = Class(q[j]) => i = j

Precedes == {<<"PART", "DATA">>, <<"DATA", "OK">>, <<"OK", "query">>,
           <<"thread", "PENDING">>, <<"join", "ON">>, <<"drop", "ON">>}

InOrder(q) ==
  \A i, j \in DOMAIN q : <<Class(q[i]), Class(q[j])>> \in Precedes => i < j

\* The data of a read follows what announces it.
DataFollows(q) ==
  \A i \in DOMAIN q : Class(q[i]) = "DATA"
    => i = 1 \/ (i > 1 /\ Class(q[i - 1]) = "PART")

FlowInv ==
  /\ Once(queue) /\ Once(uart) /\ Once(cmds)
  /\ Queued \cap Said = {} /\ Queued \cap Sent = {} /\ Said \cap Sent = {}
  /\ InOrder(queue) /\ InOrder(uart) /\ DataFollows(uart)
  /\ \A c \in Said, d \in Queued : <<c, d>> \notin Precedes

-----------------------------------------------------------------------------
(* The items.                                                              *)

News == {"PENDING", "CLOSED"} \cup Indications

QueueKinds(by) ==
  CASE by = "thread" -> {"OPEN", "CONNECT", "PUBLISH", "ID", "VALUE", "OK", "ERROR"}
    [] by = "close" -> {"CLOSE"}
    [] by = "module" -> News
    [] OTHER -> {}

UartKinds(by) ==
  CASE by = "thread" -> {"ID", "VALUE", "OK", "ERROR"}
    [] by = "read" -> {"PART", "DATA", "OK", "LENGTH", "EMPTY", "ERROR"}
    [] by = "close" -> {"OK", "HASDATA"}
    [] by = "module" -> News
    [] OTHER -> {}

CmdKinds(by) ==
  CASE by = "thread" -> {"scan", "config", "reset", "value", "open", "connect", "publish"}
    [] by = "read" -> {"query", "read"}
    [] by = "close" -> {"close"}
    [] OTHER -> {}

\* What a message or an event says of the sockets, and of the call it answers.
Told(e) ==
  /\ e.kind \in {"ID", "CLOSED", "CLOSE"} => e.sock \in alive
  /\ e.kind = "PENDING" => unread = {e.sock}
  /\ e.kind = "EMPTY" => queryId \notin unread
  /\ e.kind = "LENGTH" => queryId \in unread
  /\ e.kind = "HASDATA" => closeId \in unread
  /\ e.by = "close" /\ e.kind = "OK" => closeId \notin alive
  /\ e.by = "thread" /\ e.kind \in {"OK", "VALUE"} => pc # "open"

Asked(e) ==
  /\ e.kind = "OPEN" => pc = "open"
  /\ e.kind = "CONNECT" => pc = "connect" /\ e.sock \in open
  /\ e.kind = "PUBLISH" => pc = "publish"
  /\ e.kind = "connect" => pc = "connect" /\ e.sock \in open
  /\ e.kind = "publish" => pc = "publish"
  /\ e.kind \in {"scan", "config", "value"} => pc # "open"
  /\ e.kind \in {"query", "read"} => e.sock = queryId
  /\ e.kind = "close" => e.sock = closeId

ItemInv ==
  /\ \A e \in Of(queue) : e.kind \in QueueKinds(e.by) /\ Told(e) /\ Asked(e)
  /\ \A e \in Of(uart) : e.kind \in UartKinds(e.by) /\ Told(e)
  /\ \A e \in Of(cmds) : e.kind \in CmdKinds(e.by) /\ Asked(e)
  /\ "PENDING" \in UnderWay => \A e \in Of(queue) : e.kind # "CONNECT"

-----------------------------------------------------------------------------
(* The reading and the closing of a socket.                                *)

Reading ==
  query \/ startRead \/ {"query", "read"} \cap (Said \cup Sent) # {} \/ "DATA" \in Said

ReadSteps ==
  /\ query => /\ ~startRead /\ "query" \notin Said \cup Sent /\ "read" \notin Said \cup Sent
              /\ "DATA" \notin Said
  /\ startRead => /\ "query" \notin Said \cup Sent /\ "read" \notin Said \cup Sent
                  /\ "DATA" \notin Said /\ "OK" \notin Said
  /\ "query" \in Said \cup Sent => "read" \notin Said \cup Sent /\ "DATA" \notin Said
  /\ "read" \in Said \cup Sent => "DATA" \notin Said /\ "OK" \notin Said
  /\ "PART" \in Said => "DATA" \in Said
  /\ "DATA" \in Said => "OK" \in Said
  /\ "OK" \in Said => "DATA" \in Said \/ query \/ "query" \in Said \cup Sent

ReadFlags ==
  /\ reading = "asked" <=> "read" \in Said \cup Sent \/ "PART" \in Said
  /\ reading = "part" <=> "DATA" \in Said /\ "PART" \notin Said
  /\ swallow <=> closing \/ ("OK" \in Said /\ "DATA" \notin Said)
  /\ dataCb <=> ~dequeue
  /\ dataCb => "OK" \in Said /\ query

ReadSocket ==
  /\ Reading => queryId \in open \cap alive /\ unread \subseteq {queryId}
  /\ "OK" \in Said => queryId \notin unread
  /\ startRead \/ "read" \in Sent => queryId \in unread
  /\ "read" \in Said => queryId \notin unread /\ owed = {}

ClosePhases ==
  /\ closing <=> "close" \in Said \cup Sent
  /\ closing => ~Reading /\ closeId \in open
  /\ "close" \in Sent => closeId \in alive

\* Events are held back for these two and for nothing else.
Held ==
  /\ stop <=> Reading \/ closing
  /\ stop => "thread" \notin Said \cup Sent

SocketInv == ReadSteps /\ ReadFlags /\ ReadSocket /\ ClosePhases /\ Held

-----------------------------------------------------------------------------
(* The thread, and what may happen while it waits.                         *)

Calls == {"scan", "config", "open", "connect", "value", "publish"}

OneCall ==
  /\ pc \in Calls <=> "thread" \in UnderWay \/ answered
  /\ answered => "thread" \notin UnderWay /\ response.by = "thread"

Unread ==
  /\ unread \subseteq open \cap alive
  /\ unread # {} => /\ "PENDING" \in UnderWay \/ Reading
                    /\ pc \in {"connect", "connack", "close", "closed"}
  /\ "PENDING" \in UnderWay => /\ pc \in {"connect", "connack", "close", "closed"}
                               /\ "thread" \notin Sent /\ ~Reading

Closes ==
  /\ "close" \in UnderWay => pc \in {"closed", "delay"}
  /\ "CLOSED" \in UnderWay \/ closeCmd # None
       => pc = "delay" /\ "close" \notin UnderWay /\ ~Reading
  /\ "CLOSED" \in UnderWay => closeCmd = None
  /\ closeCmd # None => closeCmd \in alive
  /\ \A s \in owed : s \in unread \/ (Reading /\ s = queryId)
  /\ owed # {} => pc = "closed" /\ "close" \notin UnderWay

Alone ==
  pc \in {"scan", "config", "reset", "value"} \/ wifi_state = "ready"
    => /\ UnderWay \subseteq {"thread", "ON", "join", "drop"}
       /\ ~query /\ ~startRead /\ closeCmd = None

Network ==
  /\ "ON" \in UnderWay => pc = "reset"
  /\ pc = "reset" => "ON" \in UnderWay \/ UnderWay = {}
  /\ pc = "reset" /\ "ON" \notin Sent => assoc = "joining"
  /\ assoc = "joining" /\ pc # "reset" => "join" \notin UnderWay /\ "drop" \notin UnderWay
  /\ assoc = "yes" => "drop" \notin UnderWay
  /\ pc = "reset" /\ (started \/ wind = "ON") => "ON" \notin UnderWay
  /\ tim = "idle" => wind = None

Mqtt == wifi_state \in {"mqtt_connect", "mqtt_pub"}
        \/ pc \in {"connect", "connack", "close", "publish"}

ThreadState ==
  /\ wifi_state = "ready" => pc \in {"loop", "scan", "config", "reset"}
  /\ pc \in {"scan", "config", "reset", "open"} => wifi_state \notin {"mqtt_connect", "mqtt_pub"}
  /\ wifi_state = "mqtt_pub" \/ pc = "publish" => isconnected
  /\ wifi_state = "mqtt_connect" /\ ~isconnected
       => /\ pc \in {"loop", "connect", "connack", "close"}
          /\ pc = "loop" => ~inbox /\ ~Reading
  /\ pc = "connect" /\ (Reading \/ inbox) => answered
  /\ Reading /\ answered => pc = "connect"
  /\ inbox /\ pc \in {"connect", "connack"} => unread = {}
  /\ pc = "open" /\ answered /\ response.ok => openId \in alive
  /\ pc = "close" => sock \in open
  /\ Mqtt /\ sock \in open => sock \in alive \/ (closing /\ closeId = sock)

ThreadInv == OneCall /\ Unread /\ Closes /\ Alone /\ Network /\ ThreadState

CallInv == IInv /\ FlowInv /\ ItemInv /\ SocketInv /\ ThreadInv

-----------------------------------------------------------------------------
(* Sequences of items.                                                     *)

\* An item at the end.
LEMMA AppendClasses ==
  ASSUME NEW q \in Seq(Items), NEW e \in Items
  PROVE  /\ Append(q, e) \in Seq(Items)
         /\ Of(Append(q, e)) = Of(q) \cup {e}
         /\ Classes(Append(q, e)) = Classes(q) \cup {Class(e)}
  <1> DEFINE r == Append(q, e)
  <1>1. /\ r \in Seq(Items) /\ Len(q) \in Nat /\ Len(r) = Len(q) + 1
        /\ DOMAIN q = 1..Len(q) /\ DOMAIN r = 1..Len(r)
        /\ \A i \in 1..Len(q) : r[i] = q[i]
        /\ r[Len(q) + 1] = e
    BY AppendProperties, LenProperties
  <1> HIDE DEF r
  <1>2. Of(r) \subseteq Of(q) \cup {e}
    BY <1>1 DEF Of
  <1>3. Of(q) \cup {e} \subseteq Of(r)
    <2>1. \A i \in 1..Len(q) : i \in 1..Len(r)
      BY <1>1
    <2>2. Len(q) + 1 \in 1..Len(r)
      BY <1>1
    <2>3. QED
      BY <1>1, <2>1, <2>2 DEF Of
  <1>4. Of(r) = Of(q) \cup {e}
    BY <1>2, <1>3
  <1>5. Classes(r) = Classes(q) \cup {Class(e)}
    BY <1>4 DEF Classes
  <1>6. QED
    BY <1>1, <1>4, <1>5 DEF r

LEMMA AppendOnce ==
  ASSUME NEW q \in Seq(Items), NEW e \in Items, Once(q), Class(e) \notin Classes(q)
  PROVE  Once(Append(q, e))
  <1> DEFINE r == Append(q, e)
  <1>1. /\ Len(q) \in Nat /\ Len(r) = Len(q) + 1
        /\ DOMAIN q = 1..Len(q) /\ DOMAIN r = 1..Len(r)
        /\ \A i \in 1..Len(q) : r[i] = q[i] /\ Class(q[i]) # Class(e)
        /\ r[Len(q) + 1] = e
    BY AppendProperties, LenProperties DEF Classes, Of
  <1> HIDE DEF r
  <1>2. \A i \in 1..Len(r) : i \in 1..Len(q) \/ i = Len(q) + 1
    BY <1>1
  <1>3. Once(r)
    BY <1>1, <1>2 DEF Once
  <1>4. QED
    BY <1>3 DEF r

LEMMA AppendInOrder ==
  ASSUME NEW q \in Seq(Items), NEW e \in Items, InOrder(q), Class(e) \notin Classes(q),
         \A c \in Classes(q) : <<Class(e), c>> \notin Precedes
  PROVE  InOrder(Append(q, e))
  <1> DEFINE r == Append(q, e)
  <1>1. /\ Len(q) \in Nat /\ Len(r) = Len(q) + 1
        /\ DOMAIN q = 1..Len(q) /\ DOMAIN r = 1..Len(r)
        /\ \A i \in 1..Len(q) : r[i] = q[i] /\ <<Class(e), Class(q[i])>> \notin Precedes
        /\ r[Len(q) + 1] = e
    BY AppendProperties, LenProperties DEF Classes, Of
  <1> HIDE DEF r
  <1>2. \A i \in 1..Len(r) : i \in 1..Len(q) \/ i = Len(q) + 1
    BY <1>1
  <1>3. <<Class(e), Class(e)>> \notin Precedes
    BY DEF Precedes
  <1>4. ASSUME NEW i \in 1..Len(r), NEW j \in 1..Len(r),
               <<Class(r[i]), Class(r[j])>> \in Precedes
        PROVE  i < j
    <2>1. CASE i \in 1..Len(q) /\ j \in 1..Len(q)
      BY <1>1, <1>4, <2>1 DEF InOrder
    <2>2. CASE i = Len(q) + 1
      BY <1>1, <1>2, <1>3, <1>4, <2>2
    <2>3. CASE i \in 1..Len(q) /\ j = Len(q) + 1
      BY <1>1, <2>3
    <2>4. QED
      BY <1>2, <2>1, <2>2, <2>3
  <1>5. InOrder(r)
    BY <1>1, <1>4 DEF InOrder
  <1>6. QED
    BY <1>5 DEF r

\* Without its oldest item: that one was the only one of its class, and no item
\* was there that comes before it.
LEMMA TailClasses ==
  ASSUME NEW q \in Seq(Items), q # <<>>, Once(q), InOrder(q)
  PROVE  /\ Head(q) \in Items /\ Head(q) \in Of(q)
         /\ Class(Head(q)) \in Classes(q)
         /\ Tail(q) \in Seq(Items) /\ Of(Tail(q)) \subseteq Of(q)
         /\ Classes(Tail(q)) = Classes(q) \ {Class(Head(q))}
         /\ Once(Tail(q)) /\ InOrder(Tail(q))
         /\ \A c \in Classes(q) : <<c, Class(Head(q))>> \notin Precedes
  <1> DEFINE r == Tail(q)
             h == Head(q)
  <1>1. /\ Len(q) \in Nat /\ Len(q) >= 1 /\ DOMAIN q = 1..Len(q)
        /\ r \in Seq(Items) /\ Len(r) = Len(q) - 1 /\ DOMAIN r = 1..Len(r)
        /\ \A i \in 1..Len(r) : r[i] = q[i + 1]
        /\ h = q[1] /\ h \in Items
    <2>1. Len(q) \in Nat /\ Len(q) >= 1
      BY EmptySeq, LenProperties
    <2>2. QED
      BY <2>1, HeadTailProperties, LenProperties
  <1> HIDE DEF r, h
  <1>2. \A i \in 1..Len(r) : i + 1 \in 1..Len(q) /\ i + 1 # 1
    BY <1>1
  <1>3. \A i \in 1..Len(q) : i = 1 \/ (i - 1 \in 1..Len(r) /\ (i - 1) + 1 = i)
    BY <1>1
  <1>4. 1 \in 1..Len(q)
    BY <1>1
  <1>5. h \in Of(q) /\ Of(r) \subseteq Of(q)
    BY <1>1, <1>2, <1>4 DEF Of
  <1>6. Of(q) \subseteq Of(r) \cup {h}
    <2>1. \A i \in 1..Len(q) : i = 1 \/ q[i] = r[i - 1]
      BY <1>1, <1>3
    <2>2. QED
      BY <1>1, <1>3, <2>1 DEF Of
  <1>7. Class(h) \notin Classes(r)
    BY <1>1, <1>2, <1>4 DEF Classes, Of, Once
  <1>8. Classes(r) = Classes(q) \ {Class(h)}
    BY <1>5, <1>6, <1>7 DEF Classes
  <1>9. Once(r)
    <2>1. \A i, j \in 1..Len(r) : i + 1 = j + 1 => i = j
      BY <1>1
    <2>2. \A m, n \in 1..Len(q) : Class(q[m]) = Class(q[n]) => m = n
      BY <1>1 DEF Once
    <2>3. \A i, j \in 1..Len(r) : Class(r[i]) = Class(r[j]) => i + 1 = j + 1
      BY <1>1, <1>2, <2>2
    <2>4. QED
      BY <1>1, <2>1, <2>3 DEF Once
  <1>10. InOrder(r)
    <2>1. \A i, j \in 1..Len(r) : i + 1 < j + 1 => i < j
      BY <1>1
    <2>2. QED
      BY <1>1, <1>2, <2>1 DEF InOrder
  <1>11. \A c \in Classes(q) : <<c, Class(h)>> \notin Precedes
    <2>1. \A i \in 1..Len(q) : ~(i < 1)
      BY <1>1
    <2>2. QED
      BY <1>1, <1>4, <2>1 DEF InOrder, Classes, Of
  <1>12. QED
    BY <1>1, <1>5, <1>7, <1>8, <1>9, <1>10, <1>11 DEF r, h, Classes

LEMMA NoClasses ==
  /\ Of(<<>>) = {} /\ Classes(<<>>) = {} /\ Once(<<>>) /\ InOrder(<<>>)
  /\ \A q \in Seq(Items) : Classes(q) = {} <=> q = <<>>
  <1>1. DOMAIN <<>> = {}
    OBVIOUS
  <1>2. ASSUME NEW q \in Seq(Items), q # <<>> PROVE Classes(q) # {}
    <2>1. Len(q) \in Nat \ {0} /\ DOMAIN q = 1..Len(q)
      BY <1>2, EmptySeq, LenProperties
    <2>2. 1 \in DOMAIN q
      BY <2>1
    <2>3. QED
      BY <2>2 DEF Classes, Of
  <1>3. Of(<<>>) = {} /\ Once(<<>>) /\ InOrder(<<>>)
    BY <1>1 DEF Of, Once, InOrder
  <1>4. Classes(<<>>) = {}
    BY <1>3 DEF Classes
  <1>5. QED
    BY <1>2, <1>3, <1>4

-----------------------------------------------------------------------------
(* Each step of the program on the three sequences.                        *)

Seven == {"thread", "close", "PENDING", "CLOSED", "ON", "join", "drop"}

LEMMA Sequences ==
  ASSUME TypeOK
  PROVE  /\ queue \in Seq(Items) /\ uart \in Seq(Items) /\ cmds \in Seq(Items)
         /\ \A e \in Of(queue) \cup Of(uart) \cup Of(cmds) : e \in Items
  <1>1. queue \in Seq(Items) /\ uart \in Seq(Items) /\ cmds \in Seq(Items)
    BY DEF TypeOK, DriverTypeOK, ModuleTypeOK
  <1>2. ASSUME NEW q \in Seq(Items) PROVE \A e \in Of(q) : e \in Items
    BY LenProperties, ElementOfSeq DEF Of
  <1>3. QED
    BY <1>1, <1>2

LEMMA QueueClasses ==
  ASSUME TypeOK, ItemInv
  PROVE  Queued \subseteq Seven
  <1>1. ASSUME NEW e \in Items, e.kind \in QueueKinds(e.by) PROVE Class(e) \in Seven
    BY <1>1 DEF QueueKinds, News, Indications, Class, Seven
  <1>2. QED
    BY <1>1, Sequences DEF ItemInv, Queued, Classes

\* There is room for an event of a class that is not queued.
LEMMA Room ==
  ASSUME TypeOK, FlowInv, ItemInv, QueueMax >= 7, NEW c \in Seven, c \notin Queued
  PROVE  Len(queue) < QueueMax
  <1> DEFINE T == Seven \ {c}
             n == Len(queue)
             f == [i \in 1..n |-> Class(queue[i])]
  <1>1. n \in Nat /\ DOMAIN queue = 1..n
    BY Sequences, LenProperties
  <1>2. IsFiniteSet(T) /\ Cardinality(T) = 6
    <2>1. ASSUME NEW A, NEW B, NEW x, NEW k \in Nat, x \notin A, B = A \cup {x},
                 IsFiniteSet(A) /\ Cardinality(A) = k
          PROVE  IsFiniteSet(B) /\ Cardinality(B) = k + 1
      BY <2>1, FS_AddElement
    <2> DEFINE A0 == {}
               A1 == {"thread"}
               A2 == {"thread", "close"}
               A3 == {"thread", "close", "PENDING"}
               A4 == {"thread", "close", "PENDING", "CLOSED"}
               A5 == {"thread", "close", "PENDING", "CLOSED", "ON"}
               A6 == {"thread", "close", "PENDING", "CLOSED", "ON", "join"}
               A7 == {"thread", "close", "PENDING", "CLOSED", "ON", "join", "drop"}
    <2>2. IsFiniteSet(A0) /\ Cardinality(A0) = 0
      BY FS_EmptySet
    <2>3. "thread" \notin A0 /\ A1 = A0 \cup {"thread"}
      OBVIOUS
    <2>4. "close" \notin A1 /\ A2 = A1 \cup {"close"}
      OBVIOUS
    <2>5. "PENDING" \notin A2 /\ A3 = A2 \cup {"PENDING"}
      OBVIOUS
    <2>6. "CLOSED" \notin A3 /\ A4 = A3 \cup {"CLOSED"}
      OBVIOUS
    <2>7. "ON" \notin A4 /\ A5 = A4 \cup {"ON"}
      OBVIOUS
    <2>8. "join" \notin A5 /\ A6 = A5 \cup {"join"}
      OBVIOUS
    <2>9. "drop" \notin A6 /\ A7 = A6 \cup {"drop"}
      OBVIOUS
    <2>10. A7 = Seven
      BY DEF Seven
    <2> HIDE DEF A0, A1, A2, A3, A4, A5, A6, A7
    <2>11. IsFiniteSet(A1) /\ Cardinality(A1) = 1
      BY <2>1, <2>3, <2>2
    <2>12. IsFiniteSet(A2) /\ Cardinality(A2) = 2
      BY <2>1, <2>4, <2>11
    <2>13. IsFiniteSet(A3) /\ Cardinality(A3) = 3
      BY <2>1, <2>5, <2>12
    <2>14. IsFiniteSet(A4) /\ Cardinality(A4) = 4
      BY <2>1, <2>6, <2>13
    <2>15. IsFiniteSet(A5) /\ Cardinality(A5) = 5
      BY <2>1, <2>7, <2>14
    <2>16. IsFiniteSet(A6) /\ Cardinality(A6) = 6
      BY <2>1, <2>8, <2>15
    <2>17. IsFiniteSet(A7) /\ Cardinality(A7) = 7
      BY <2>1, <2>9, <2>16
    <2>18. QED
      BY <2>10, <2>17, FS_RemoveElement
  <1>3. \A i \in 1..n : Class(queue[i]) \in T
    BY <1>1, QueueClasses DEF Queued, Classes, Of
  <1>4. f \in Injection(1..n, T)
    BY <1>1, <1>3 DEF Injection, IsInjective, FlowInv, Once
  <1> HIDE DEF T, f
  <1>5. Cardinality(1..n) <= Cardinality(T)
    BY <1>2, <1>4, FS_Injection
  <1>6. 1 \in Int /\ n \in Int
    BY <1>1
  <1>7. Cardinality(1..n) = IF 1 > n THEN 0 ELSE n - 1 + 1
    BY <1>6, FS_Interval
  <1>8. QED
    BY <1>1, <1>2, <1>5, <1>7, DriverAssumption

\* What DataFollows says of the messages is kept when the oldest is taken.
LEMMA TailDataFollows ==
  ASSUME TypeOK, DataFollows(uart), uart # <<>>, uart' = Tail(uart)
  PROVE  DataFollows(uart')
  <1>1. /\ Len(uart) \in Nat /\ DOMAIN uart = 1..Len(uart)
        /\ Len(uart') = Len(uart) - 1 /\ DOMAIN uart' = 1..Len(uart')
        /\ \A i \in 1..Len(uart') : uart'[i] = uart[i + 1]
    BY Sequences, LenProperties, HeadTailProperties
  <1>2. \A i \in 1..Len(uart') : /\ i + 1 \in 1..Len(uart) /\ (i + 1) - 1 = i /\ i + 1 # 1
                                 /\ i # 1 => i > 1 /\ i - 1 \in 1..Len(uart') /\ (i - 1) + 1 = i
    BY <1>1
  <1>3. ASSUME NEW i \in 1..Len(uart'), Class(uart'[i]) = "DATA", i # 1
        PROVE  i > 1 /\ Class(uart'[i - 1]) = "PART"
    <2>1. Class(uart[i + 1]) = "DATA"
      BY <1>1, <1>3
    <2>2. Class(uart[i]) = "PART"
      BY <1>1, <1>2, <2>1 DEF DataFollows
    <2>3. QED
      BY <1>1, <1>2, <1>3, <2>2
  <1>4. QED
    BY <1>1, <1>3 DEF DataFollows

\* And when a message comes that is no data, or is the data announced last.
LEMMA AppendDataFollows ==
  ASSUME NEW q \in Seq(Items), NEW e \in Items, DataFollows(q),
         \/ Class(e) # "DATA"
         \/ q # <<>> /\ Class(q[Len(q)]) = "PART"
  PROVE  DataFollows(Append(q, e))
  <1> DEFINE r == Append(q, e)
  <1>1. /\ Len(q) \in Nat /\ Len(r) = Len(q) + 1
        /\ DOMAIN q = 1..Len(q) /\ DOMAIN r = 1..Len(r)
        /\ \A i \in 1..Len(q) : r[i] = q[i]
        /\ r[Len(q) + 1] = e
    BY AppendProperties, LenProperties
  <1>2. q # <<>> => Len(q) >= 1
    BY <1>1, EmptySeq
  <1> HIDE DEF r
  <1> SUFFICES ASSUME NEW i \in 1..Len(r), Class(r[i]) = "DATA", i # 1
               PROVE  i > 1 /\ Class(r[i - 1]) = "PART"
    BY <1>1 DEF r, DataFollows
  <1>3. CASE i \in 1..Len(q)
    <2>1. i - 1 \in 1..Len(q) /\ i > 1
      BY <1>1, <1>3
    <2>2. QED
      BY <1>1, <1>3, <2>1 DEF DataFollows
  <1>4. CASE i = Len(q) + 1
    <2>1. Class(e) = "DATA"
      BY <1>1, <1>4
    <2>2. Len(q) \in 1..Len(q) /\ i - 1 = Len(q) /\ i > 1
      BY <1>1, <1>2, <1>4, <2>1
    <2>3. QED
      BY <1>1, <1>4, <2>1, <2>2
  <1>5. QED
    BY <1>1, <1>3, <1>4

\* The three sequences stay as they are.
LEMMA SameFlow ==
  ASSUME UNCHANGED <<queue, uart, cmds>>
  PROVE  /\ FlowInv' <=> FlowInv
         /\ Queued' = Queued /\ Said' = Said /\ Sent' = Sent /\ UnderWay' = UnderWay
         /\ Of(queue') = Of(queue) /\ Of(uart') = Of(uart) /\ Of(cmds') = Of(cmds)
  BY DEF FlowInv, Queued, Said, Sent, UnderWay, Once, InOrder, DataFollows, Classes, Of

\* An event is queued.
LEMMA PushFlow ==
  ASSUME TypeOK, FlowInv, ItemInv, QueueMax >= 7,
         NEW e \in Items, Class(e) \in Seven, Class(e) \notin UnderWay,
         \A d \in Queued : <<Class(e), d>> \notin Precedes,
         \A c \in Said : <<c, Class(e)>> \notin Precedes,
         Push(e), UNCHANGED <<uart, cmds>>
  PROVE  /\ FlowInv'
         /\ Queued' = Queued \cup {Class(e)} /\ Said' = Said /\ Sent' = Sent
         /\ Of(queue') = Of(queue) \cup {e}
         /\ Of(uart') = Of(uart) /\ Of(cmds') = Of(cmds)
  <1>1. queue' = Append(queue, e)
    BY Room DEF Push, UnderWay
  <1>2. /\ Of(queue') = Of(queue) \cup {e}
        /\ Queued' = Queued \cup {Class(e)}
    BY <1>1, Sequences, AppendClasses DEF Queued
  <1>3. Once(queue') /\ InOrder(queue')
    BY <1>1, Sequences, AppendOnce, AppendInOrder DEF FlowInv, UnderWay, Queued
  <1>4. /\ Said' = Said /\ Sent' = Sent /\ Of(uart') = Of(uart) /\ Of(cmds') = Of(cmds)
        /\ Once(uart') /\ Once(cmds') /\ InOrder(uart') /\ DataFollows(uart')
    BY DEF Said, Sent, FlowInv, DataFollows
  <1>5. QED
    BY <1>2, <1>3, <1>4 DEF FlowInv, UnderWay

\* The timer handler takes an event.
LEMMA PopFlow ==
  ASSUME TypeOK, FlowInv, queue # <<>>, queue' = Tail(queue), UNCHANGED <<uart, cmds>>
  PROVE  /\ FlowInv'
         /\ Head(queue) \in Items /\ Head(queue) \in Of(queue)
         /\ Class(Head(queue)) \in Queued
         /\ \A c \in Queued \cup Said : <<c, Class(Head(queue))>> \notin Precedes
         /\ Queued' = Queued \ {Class(Head(queue))} /\ Said' = Said /\ Sent' = Sent
         /\ Of(queue') \subseteq Of(queue)
         /\ Of(uart') = Of(uart) /\ Of(cmds') = Of(cmds)
  <1>1. /\ Head(queue) \in Items /\ Head(queue) \in Of(queue)
        /\ Class(Head(queue)) \in Queued
        /\ \A c \in Queued : <<c, Class(Head(queue))>> \notin Precedes
        /\ Queued' = Queued \ {Class(Head(queue))}
        /\ Of(queue') \subseteq Of(queue)
        /\ Once(queue') /\ InOrder(queue')
    BY Sequences, TailClasses DEF FlowInv, Queued
  <1>2. /\ Said' = Said /\ Sent' = Sent /\ Of(uart') = Of(uart) /\ Of(cmds') = Of(cmds)
        /\ Once(uart') /\ Once(cmds') /\ InOrder(uart') /\ DataFollows(uart')
    BY DEF Said, Sent, FlowInv, DataFollows
  <1>3. QED
    BY <1>1, <1>2 DEF FlowInv

\* A command is sent.
LEMMA SendFlow ==
  ASSUME TypeOK, FlowInv, NEW e \in Items, Class(e) \notin UnderWay,
         cmds' = Append(cmds, e), UNCHANGED <<queue, uart>>
  PROVE  /\ FlowInv'
         /\ Queued' = Queued /\ Said' = Said /\ Sent' = Sent \cup {Class(e)}
         /\ Of(queue') = Of(queue) /\ Of(uart') = Of(uart)
         /\ Of(cmds') = Of(cmds) \cup {e}
  <1>1. /\ Of(cmds') = Of(cmds) \cup {e}
        /\ Sent' = Sent \cup {Class(e)} /\ Once(cmds')
    BY Sequences, AppendClasses, AppendOnce DEF FlowInv, UnderWay, Sent
  <1>2. /\ Said' = Said /\ Queued' = Queued /\ Of(uart') = Of(uart) /\ Of(queue') = Of(queue)
        /\ Once(uart') /\ Once(queue') /\ InOrder(uart') /\ InOrder(queue') /\ DataFollows(uart')
    BY DEF Said, Queued, FlowInv, DataFollows
  <1>3. QED
    BY <1>1, <1>2 DEF FlowInv, UnderWay

\* The timer handler takes an event and sends a command.
LEMMA PopSendFlow ==
  ASSUME TypeOK, FlowInv, queue # <<>>, queue' = Tail(queue), UNCHANGED uart,
         NEW e \in Items, Class(e) = Class(Head(queue)), cmds' = Append(cmds, e)
  PROVE  /\ FlowInv'
         /\ Queued' = Queued \ {Class(e)} /\ Said' = Said /\ Sent' = Sent \cup {Class(e)}
         /\ Of(queue') \subseteq Of(queue) /\ Of(uart') = Of(uart)
         /\ Of(cmds') = Of(cmds) \cup {e}
  <1>1. /\ Class(Head(queue)) \in Queued
        /\ Queued' = Queued \ {Class(Head(queue))}
        /\ Of(queue') \subseteq Of(queue)
        /\ Once(queue') /\ InOrder(queue')
    BY Sequences, TailClasses DEF FlowInv, Queued
  <1>2. Class(e) \notin Sent
    BY <1>1 DEF FlowInv
  <1>3. /\ Of(cmds') = Of(cmds) \cup {e}
        /\ Sent' = Sent \cup {Class(e)} /\ Once(cmds')
    BY <1>2, Sequences, AppendClasses, AppendOnce DEF FlowInv, Sent
  <1>4. /\ Said' = Said /\ Of(uart') = Of(uart)
        /\ Once(uart') /\ InOrder(uart') /\ DataFollows(uart')
    BY DEF Said, FlowInv, DataFollows
  <1>5. QED
    BY <1>1, <1>3, <1>4 DEF FlowInv

\* SysTick takes a message.
LEMMA ParseFlow ==
  ASSUME TypeOK, FlowInv, uart # <<>>, uart' = Tail(uart), UNCHANGED <<queue, cmds>>
  PROVE  /\ FlowInv'
         /\ Queued' = Queued /\ Said' = Said \ {Class(Head(uart))} /\ Sent' = Sent
         /\ Of(queue') = Of(queue) /\ Of(uart') \subseteq Of(uart) /\ Of(cmds') = Of(cmds)
  <1>1. /\ Said' = Said \ {Class(Head(uart))}
        /\ Of(uart') \subseteq Of(uart)
        /\ Once(uart') /\ InOrder(uart') /\ DataFollows(uart')
    BY Sequences, TailClasses, TailDataFollows DEF FlowInv, Said
  <1>2. /\ Queued' = Queued /\ Sent' = Sent /\ Of(queue') = Of(queue) /\ Of(cmds') = Of(cmds)
        /\ Once(queue') /\ InOrder(queue') /\ Once(cmds')
    BY DEF Queued, Sent, FlowInv
  <1>3. QED
    BY <1>1, <1>2 DEF FlowInv

\* What is known of the oldest message.
LEMMA OldestMessage ==
  ASSUME TypeOK, FlowInv, uart # <<>>
  PROVE  /\ Head(uart) \in Items /\ Head(uart) \in Of(uart)
         /\ Class(Head(uart)) \in Said
         /\ Class(Head(uart)) \notin Queued /\ Class(Head(uart)) \notin Sent
         /\ \A c \in Said : <<c, Class(Head(uart))>> \notin Precedes
  <1>1. /\ Head(uart) \in Items /\ Head(uart) \in Of(uart)
        /\ Class(Head(uart)) \in Said
        /\ \A c \in Said : <<c, Class(Head(uart))>> \notin Precedes
    BY Sequences, TailClasses DEF FlowInv, Said
  <1>2. QED
    BY <1>1 DEF FlowInv

\* SysTick takes a message and queues an event: the message, or one of a class
\* that is not under way.
LEMMA ParsePushFlow ==
  ASSUME TypeOK, FlowInv, ItemInv, QueueMax >= 7, uart # <<>>, uart' = Tail(uart),
         UNCHANGED cmds,
         NEW e \in Items, Class(e) \in Seven, Push(e),
         Class(e) = Class(Head(uart)) \/ (Class(e) = "close" /\ "close" \notin UnderWay)
  PROVE  /\ FlowInv'
         /\ Queued' = Queued \cup {Class(e)} /\ Said' = Said \ {Class(Head(uart))}
         /\ Sent' = Sent
         /\ Of(queue') = Of(queue) \cup {e} /\ Of(uart') \subseteq Of(uart)
         /\ Of(cmds') = Of(cmds)
  <1>1. /\ Class(Head(uart)) \in Said /\ Class(Head(uart)) \notin Queued \cup Sent
        /\ \A c \in Said : <<c, Class(Head(uart))>> \notin Precedes
        /\ Said' = Said \ {Class(Head(uart))}
        /\ Of(uart') \subseteq Of(uart)
        /\ Once(uart') /\ InOrder(uart') /\ DataFollows(uart')
    BY OldestMessage, Sequences, TailClasses, TailDataFollows DEF FlowInv, Said
  <1>2. /\ Class(e) \notin Queued /\ Class(e) \notin Sent
        /\ Class(e) \notin Said \ {Class(Head(uart))}
    BY <1>1 DEF UnderWay
  <1>3. \A c : <<"close", c>> \notin Precedes /\ <<c, "close">> \notin Precedes
    BY DEF Precedes
  <1>4. /\ \A d \in Queued : <<Class(e), d>> \notin Precedes
        /\ \A c \in Said : <<c, Class(e)>> \notin Precedes
    BY <1>1, <1>3 DEF FlowInv
  <1>5. queue' = Append(queue, e)
    BY <1>2, Room DEF Push
  <1>6. /\ Of(queue') = Of(queue) \cup {e} /\ Queued' = Queued \cup {Class(e)}
        /\ Once(queue') /\ InOrder(queue')
    BY <1>2, <1>4, <1>5, Sequences, AppendClasses, AppendOnce, AppendInOrder
       DEF FlowInv, Queued
  <1>7. Sent' = Sent /\ Of(cmds') = Of(cmds) /\ Once(cmds')
    BY DEF Sent, FlowInv
  <1>8. QED
    BY <1>1, <1>2, <1>4, <1>6, <1>7 DEF FlowInv

-----------------------------------------------------------------------------
(* The thread.                                                             *)

\* What an item means depends on what the thread waits for, if it is of the thread,
\* and on the sockets: a step may change no more than what is under way allows.
MeaningKept ==
  /\ pc' = pc \/ "thread" \notin UnderWay
  /\ queryId' = queryId \/ ("query" \notin Said \cup Sent /\ "read" \notin Sent)
  /\ closeId' = closeId \/ "close" \notin Said \cup Sent
  /\ unread' = unread \/ ("PENDING" \notin UnderWay /\ "query" \notin Said /\ "close" \notin Said)
  /\ alive \subseteq alive'
     \/ ("thread" \notin UnderWay /\ "close" \notin Queued /\ "CLOSED" \notin UnderWay)
  /\ alive' \subseteq alive \/ "close" \notin Said
  /\ open \subseteq open' \/ "thread" \notin UnderWay

LEMMA SameMeaning ==
  ASSUME ItemInv, MeaningKept, NEW e \in Of(queue) \cup Of(uart) \cup Of(cmds)
  PROVE  /\ e \in Of(queue) \cup Of(uart) => Told(e)'
         /\ e \in Of(queue) \cup Of(cmds) => Asked(e)'
  <1>1. /\ e \in Of(queue) => Class(e) \in Queued
        /\ e \in Of(uart) => Class(e) \in Said
        /\ e \in Of(cmds) => Class(e) \in Sent
    BY DEF Queued, Said, Sent, Classes
  <1>2. /\ e \in Of(queue) => e.kind \in QueueKinds(e.by) /\ Told(e) /\ Asked(e)
        /\ e \in Of(uart) => e.kind \in UartKinds(e.by) /\ Told(e)
        /\ e \in Of(cmds) => e.kind \in CmdKinds(e.by) /\ Asked(e)
    BY DEF ItemInv
  <1> USE DEF MeaningKept, UnderWay, Class, Told, Asked
  <1>3. CASE e \in Of(queue)
    BY <1>1, <1>2, <1>3 DEF QueueKinds, News, Indications
  <1>4. CASE e \in Of(uart)
    BY <1>1, <1>2, <1>4 DEF UartKinds, News, Indications
  <1>5. CASE e \in Of(cmds)
    BY <1>1, <1>2, <1>5 DEF CmdKinds
  <1>6. QED
    BY <1>3, <1>4, <1>5

\* No item has lost its meaning, and none is new.
LEMMA ItemsKept ==
  ASSUME ItemInv, MeaningKept,
         Of(queue') \subseteq Of(queue), Of(uart') \subseteq Of(uart),
         Of(cmds') \subseteq Of(cmds),
         "PENDING" \in UnderWay' => "PENDING" \in UnderWay
  PROVE  ItemInv'
  <1>1. ASSUME NEW e \in Of(queue) \cup Of(uart) \cup Of(cmds)
        PROVE  /\ e \in Of(queue) \cup Of(uart) => Told(e)'
               /\ e \in Of(queue) \cup Of(cmds) => Asked(e)'
    BY SameMeaning
  <1>2. QED
    BY <1>1 DEF ItemInv

\* Nothing at all is under way while the program lets time pass.
LEMMA QuietMeans ==
  ASSUME TypeOK, ItemInv, SocketInv, Quiet
  PROVE  /\ UnderWay = {} /\ Queued = {} /\ Said = {} /\ Sent = {}
         /\ ~Reading /\ ~closing /\ ~stop /\ closeCmd = None /\ ~startRead /\ ~query /\ ~dataCb
  <1>1. \A q \in {cmds, uart, queue} : \A i \in DOMAIN q : q[i].by = "late"
    BY DEF Quiet
  <1>2. \A e \in Of(queue) \cup Of(uart) \cup Of(cmds) : e.by = "late"
    BY <1>1 DEF Of
  <1>3. \A e \in Of(queue) \cup Of(uart) \cup Of(cmds) : e.by # "late"
    BY DEF ItemInv, QueueKinds, UartKinds, CmdKinds
  <1>4. Of(queue) = {} /\ Of(uart) = {} /\ Of(cmds) = {}
    BY <1>2, <1>3
  <1>5. Queued = {} /\ Said = {} /\ Sent = {}
    BY <1>4 DEF Queued, Said, Sent, Classes
  <1>6. ~startRead /\ ~query /\ ~dataCb /\ closeCmd = None
    BY DEF Quiet, Idle, QueryDue, DataDue, CloseDue, SocketInv, ReadFlags
  <1>7. QED
    BY <1>5, <1>6 DEF UnderWay, Reading, SocketInv, ClosePhases, Held

\* The thread leaves the sockets and their reading alone.
LEMMA ThreadSockets ==
  ASSUME SocketInv, UNCHANGED DriverKept, Said' = Said,
         \/ Sent' = Sent
         \/ Sent' = Sent \cup {"ON"}
         \/ Sent' = Sent \cup {"thread"} /\ ~stop
  PROVE  SocketInv'
  <1>1. UNCHANGED <<query, startRead, reading, swallow, closing, dataCb, dequeue, queryId,
                    open, alive, unread, closeId, stop, owed>>
    BY DEF DriverKept, readVars, openVars
  <1>2. \A c \in {"query", "read", "close"} : c \in Sent' <=> c \in Sent
    OBVIOUS
  <1>3. Reading' <=> Reading
    BY <1>1, <1>2 DEF Reading
  <1>4. ReadSteps' /\ ReadFlags'
    BY <1>1, <1>2 DEF SocketInv, ReadSteps, ReadFlags
  <1>5. ReadSocket' /\ ClosePhases' /\ Held'
    BY <1>1, <1>2, <1>3 DEF SocketInv, ReadSocket, ClosePhases, Held
  <1>6. QED
    BY <1>4, <1>5 DEF SocketInv

\* A step of the thread that puts nothing on its way.
LEMMA NothingSent ==
  ASSUME CallInv, UNCHANGED <<DriverKept, queue, cmds>>,
         pc' = pc \/ "thread" \notin UnderWay
  PROVE  /\ FlowInv' /\ ItemInv' /\ SocketInv'
         /\ Queued' = Queued /\ Said' = Said /\ Sent' = Sent /\ UnderWay' = UnderWay
         /\ Reading' <=> Reading
         /\ UNCHANGED <<closing, closeId, closeCmd, owed, query, queryId, startRead, open,
                        openId, wind, tim, assoc, alive, unread>>
  <1>1. /\ TypeOK /\ FlowInv /\ ItemInv /\ SocketInv
        /\ UNCHANGED <<queue, uart, cmds>>
        /\ UNCHANGED <<closing, closeId, closeCmd, owed, query, queryId, startRead, open,
                       openId, wind, tim, assoc, alive, unread>>
    BY DEF CallInv, IInv, DriverKept, readVars, openVars
  <1>2. /\ FlowInv'
        /\ Queued' = Queued /\ Said' = Said /\ Sent' = Sent /\ UnderWay' = UnderWay
        /\ Of(queue') = Of(queue) /\ Of(uart') = Of(uart) /\ Of(cmds') = Of(cmds)
    BY <1>1, SameFlow
  <1>3. ItemInv'
    BY <1>1, <1>2, ItemsKept DEF MeaningKept
  <1>4. SocketInv'
    BY <1>1, <1>2, ThreadSockets
  <1>5. Reading' <=> Reading
    BY <1>1, <1>2 DEF Reading
  <1>6. QED
    BY <1>1, <1>2, <1>3, <1>4, <1>5


LEMMA PendingMeans ==
  ASSUME ItemInv, "PENDING" \in UnderWay
  PROVE  unread # {}
  <1>1. PICK e \in Of(queue) \cup Of(uart) \cup Of(cmds) : Class(e) = "PENDING"
    BY DEF UnderWay, Queued, Said, Sent, Classes
  <1>2. e.kind = "PENDING" /\ e \notin Of(cmds)
    BY <1>1 DEF ItemInv, Class, QueueKinds, UartKinds, CmdKinds, News, Indications
  <1>3. unread = {e.sock}
    BY <1>1, <1>2 DEF ItemInv, Told
  <1>4. QED
    BY <1>3

\* The thread takes an answer, looks at the sockets, or goes on.
LEMMA ThreadGoesOn ==
  ASSUME CallInv,
         \/ Disconnected \/ IsReset \/ WithoutWifi \/ Connack \/ ChannelKnown
         \/ NoNewData \/ Delay \/ MqttConnectRefused \/ ConnectSent \/ ConnackTimeout
         \/ SocketCreated \/ Published
         \/ Scanned /\ ~response.ok
         \/ Configured /\ ~response.ok
         \/ ChannelRead /\ response.ok
         \/ MqttPublish /\ ~(isconnected /\ sock \in open)
  PROVE  FlowInv' /\ ItemInv' /\ SocketInv' /\ ThreadInv'
  <1>1. TypeOK /\ ItemInv /\ SocketInv /\ ThreadInv
    BY DEF CallInv, IInv
  <1>2. SUFFICES ThreadInv' /\ UNCHANGED <<DriverKept, queue, cmds>>
                 /\ (pc' = pc \/ "thread" \notin UnderWay)
    BY NothingSent
  <1> USE DEF ThreadInv, OneCall, Unread, Closes, Alone, Network, ThreadState, Mqtt, Calls
  <1>3. CASE Disconnected
    <2>1. UNCHANGED <<DriverKept, queue, cmds>> /\ (pc' = pc \/ "thread" \notin UnderWay)
      BY <1>1, <1>3 DEF Disconnected, Turn, NoCall, mailbox
    <2>2. ThreadInv'
      BY <1>1, <1>3, <2>1, NothingSent DEF Disconnected, Turn, NoCall, mailbox
    <2>3. QED
      BY <2>1, <2>2
  <1>4. CASE IsReset
    <2>1. UNCHANGED <<DriverKept, queue, cmds>> /\ (pc' = pc \/ "thread" \notin UnderWay)
      BY <1>1, <1>4 DEF IsReset, WaitsFor, NoCall, mailbox
    <2>2. ThreadInv'
      BY <1>1, <1>4, <2>1, NothingSent DEF IsReset, WaitsFor, NoCall, mailbox
    <2>3. QED
      BY <2>1, <2>2
  <1>5. CASE WithoutWifi
    <2>1. UNCHANGED <<DriverKept, queue, cmds>> /\ (pc' = pc \/ "thread" \notin UnderWay)
      BY <1>1, <1>5 DEF WithoutWifi, NoCall, mailbox
    <2>2. ThreadInv'
      BY <1>1, <1>5, <2>1, NothingSent DEF WithoutWifi, NoCall, mailbox
    <2>3. QED
      BY <2>1, <2>2
  <1>6. CASE Connack
    <2>1. UNCHANGED <<DriverKept, queue, cmds>> /\ (pc' = pc \/ "thread" \notin UnderWay)
      BY <1>1, <1>6 DEF Connack, WaitsFor, NoCall, mailbox
    <2>2. ThreadInv'
      BY <1>1, <1>6, <2>1, NothingSent, PendingMeans DEF Connack, WaitsFor, NoCall, mailbox
    <2>3. QED
      BY <2>1, <2>2
  <1>7. CASE ChannelKnown
    <2>1. UNCHANGED <<DriverKept, queue, cmds>> /\ (pc' = pc \/ "thread" \notin UnderWay)
      BY <1>1, <1>7 DEF ChannelKnown, WaitsFor, NoCall, mailbox
    <2>2. ThreadInv'
      BY <1>1, <1>7, <2>1, NothingSent DEF ChannelKnown, WaitsFor, NoCall, mailbox
    <2>3. QED
      BY <2>1, <2>2
  <1>8. CASE NoNewData
    <2>1. UNCHANGED <<DriverKept, queue, cmds>> /\ (pc' = pc \/ "thread" \notin UnderWay)
      BY <1>1, <1>8 DEF NoNewData, Turn, NoCall, mailbox
    <2>2. ThreadInv'
      BY <1>1, <1>8, <2>1, NothingSent DEF NoNewData, Turn, NoCall, mailbox
    <2>3. QED
      BY <2>1, <2>2
  <1>9. CASE Delay
    <2>1. UNCHANGED <<DriverKept, queue, cmds>> /\ (pc' = pc \/ "thread" \notin UnderWay)
      BY <1>1, <1>9 DEF Delay, WaitsFor, NoCall, mailbox
    <2>2. ThreadInv'
      BY <1>1, <1>9, <2>1, NothingSent, QuietMeans DEF Delay, WaitsFor, NoCall, mailbox
    <2>3. QED
      BY <2>1, <2>2
  <1>10. CASE MqttConnectRefused
    <2>1. UNCHANGED <<DriverKept, queue, cmds>> /\ (pc' = pc \/ "thread" \notin UnderWay)
      BY <1>1, <1>10 DEF MqttConnectRefused, Turn, Closing, mailbox
    <2>2. ThreadInv'
      BY <1>1, <1>10, <2>1, NothingSent DEF MqttConnectRefused, Turn, Closing, mailbox
    <2>3. QED
      BY <2>1, <2>2
  <1>11. CASE ConnectSent
    <2>1. UNCHANGED <<DriverKept, queue, cmds>> /\ (pc' = pc \/ "thread" \notin UnderWay)
      BY <1>1, <1>11 DEF ConnectSent, WaitsFor, Closing
    <2>2. ThreadInv'
      BY <1>1, <1>11, <2>1, NothingSent DEF ConnectSent, WaitsFor, Closing
    <2>3. QED
      BY <2>1, <2>2
  <1>12. CASE ConnackTimeout
    <2>1. UNCHANGED <<DriverKept, queue, cmds>> /\ (pc' = pc \/ "thread" \notin UnderWay)
      BY <1>1, <1>12 DEF ConnackTimeout, WaitsFor, Closing, mailbox
    <2>2. ThreadInv'
      BY <1>1, <1>12, <2>1, NothingSent DEF ConnackTimeout, WaitsFor, Closing, mailbox
    <2>3. QED
      BY <2>1, <2>2
  <1>13. CASE SocketCreated
    <2>1. UNCHANGED <<DriverKept, queue, cmds>> /\ (pc' = pc \/ "thread" \notin UnderWay)
      BY <1>1, <1>13 DEF SocketCreated, WaitsFor, Answered
    <2>2. ThreadInv'
      BY <1>1, <1>13, <2>1, NothingSent DEF SocketCreated, WaitsFor, Answered
    <2>3. QED
      BY <2>1, <2>2
  <1>14. CASE Published
    <2>1. UNCHANGED <<DriverKept, queue, cmds>> /\ (pc' = pc \/ "thread" \notin UnderWay)
      BY <1>1, <1>14 DEF Published, WaitsFor, Answered
    <2>2. ThreadInv'
      BY <1>1, <1>14, <2>1, NothingSent DEF Published, WaitsFor, Answered
    <2>3. QED
      BY <2>1, <2>2
  <1>15. CASE Scanned /\ ~response.ok
    <2>1. UNCHANGED <<DriverKept, queue, cmds>> /\ (pc' = pc \/ "thread" \notin UnderWay)
      BY <1>1, <1>15 DEF Scanned, WaitsFor, Answered
    <2>2. ThreadInv'
      BY <1>1, <1>15, <2>1, NothingSent DEF Scanned, WaitsFor, Answered
    <2>3. QED
      BY <2>1, <2>2
  <1>16. CASE Configured /\ ~response.ok
    <2>1. UNCHANGED <<DriverKept, queue, cmds>> /\ (pc' = pc \/ "thread" \notin UnderWay)
      BY <1>1, <1>16 DEF Configured, ConnectFailed, WaitsFor, Answered
    <2>2. ThreadInv'
      BY <1>1, <1>16, <2>1, NothingSent DEF Configured, ConnectFailed, WaitsFor, Answered
    <2>3. QED
      BY <2>1, <2>2
  <1>17. CASE ChannelRead /\ response.ok
    <2>1. UNCHANGED <<DriverKept, queue, cmds>> /\ (pc' = pc \/ "thread" \notin UnderWay)
      BY <1>1, <1>17 DEF ChannelRead, WaitsFor, Answered
    <2>2. ThreadInv'
      BY <1>1, <1>17, <2>1, NothingSent DEF ChannelRead, WaitsFor, Answered
    <2>3. QED
      BY <2>1, <2>2
  <1>18. CASE MqttPublish /\ ~(isconnected /\ sock \in open)
    <2>1. UNCHANGED <<DriverKept, queue, cmds>> /\ (pc' = pc \/ "thread" \notin UnderWay)
      BY <1>1, <1>18 DEF MqttPublish, Turn, NoCall, mailbox
    <2>2. ThreadInv'
      BY <1>1, <1>18, <2>1, NothingSent DEF MqttPublish, Turn, NoCall, mailbox
    <2>3. QED
      BY <2>1, <2>2
  <1>19. QED
    BY <1>3, <1>4, <1>5, <1>6, <1>7, <1>8, <1>9, <1>10, <1>11, <1>12, <1>13, <1>14, <1>15,
       <1>16, <1>17, <1>18

\* The thread sends a command itself.
LEMMA ThreadSends ==
  ASSUME CallInv, NEW kind \in {"scan", "config", "value", "reset"},
         Send(kind, None, "thread"), UNCHANGED <<DriverKept, queue>>,
         "thread" \notin UnderWay, pc' # "open",
         IF kind = "reset" THEN "ON" \notin UnderWay ELSE ~stop
  PROVE  /\ FlowInv' /\ ItemInv' /\ SocketInv'
         /\ Queued' = Queued /\ Said' = Said
         /\ Sent' = Sent \cup {IF kind = "reset" THEN "ON" ELSE "thread"}
         /\ UNCHANGED <<closing, closeId, closeCmd, owed, query, queryId, startRead, open,
                        openId, wind, tim, assoc, alive, unread, reading>>
  <1> DEFINE e == Item(kind, None, "thread")
  <1>1. /\ TypeOK /\ FlowInv /\ ItemInv /\ SocketInv
        /\ UNCHANGED <<queue, uart>> /\ cmds' = Append(cmds, e)
        /\ UNCHANGED <<closing, closeId, closeCmd, owed, query, queryId, startRead, open,
                       openId, wind, tim, assoc, alive, unread, reading>>
    BY DEF CallInv, IInv, DriverKept, readVars, openVars, Send
  <1>2. e.kind = kind /\ e.by = "thread" /\ e \in Items
    BY DEF Item, Items, Kinds, Askers
  <1>3. Class(e) = IF kind = "reset" THEN "ON" ELSE "thread"
    BY <1>2 DEF Class
  <1> HIDE DEF e
  <1>4. Class(e) \notin UnderWay
    BY <1>3
  <1>5. /\ FlowInv'
        /\ Queued' = Queued /\ Said' = Said /\ Sent' = Sent \cup {Class(e)}
        /\ Of(queue') = Of(queue) /\ Of(uart') = Of(uart)
        /\ Of(cmds') = Of(cmds) \cup {e}
    BY <1>1, <1>2, <1>4, SendFlow
  <1>6. ASSUME NEW d \in Of(queue) \cup Of(uart) \cup Of(cmds)
        PROVE  /\ d \in Of(queue) \cup Of(uart) => Told(d)'
               /\ d \in Of(queue) \cup Of(cmds) => Asked(d)'
    BY <1>1, SameMeaning DEF MeaningKept
  <1>8. e.kind \in CmdKinds(e.by) /\ Asked(e)'
    BY <1>2 DEF CmdKinds, Asked
  <1>9. "PENDING" \in UnderWay' => "PENDING" \in UnderWay
    BY <1>3, <1>5 DEF UnderWay
  <1>10. ItemInv'
    BY <1>1, <1>5, <1>6, <1>8, <1>9 DEF ItemInv
  <1>11. SocketInv'
    BY <1>1, <1>3, <1>5, ThreadSockets
  <1>12. QED
    BY <1>1, <1>3, <1>5, <1>10, <1>11

\* The thread queues an event: its call, or the closing of its socket.
LEMMA ThreadQueues ==
  ASSUME CallInv, QueueMax >= 7, NEW e \in Items, Push(e), UNCHANGED <<DriverKept, cmds>>,
         "thread" \notin UnderWay, Class(e) \in {"thread", "close"},
         e.kind \in QueueKinds(e.by) \ {"OK", "VALUE"}, Told(e), Asked(e)',
         IF Class(e) = "thread" THEN "PENDING" \notin UnderWay
         ELSE "close" \notin UnderWay /\ e.kind = "CLOSE"
  PROVE  /\ FlowInv' /\ ItemInv' /\ SocketInv'
         /\ Queued' = Queued \cup {Class(e)} /\ Said' = Said /\ Sent' = Sent
         /\ UNCHANGED <<closing, closeId, closeCmd, owed, query, queryId, startRead, open,
                        openId, wind, tim, assoc, alive, unread>>
  <1>1. /\ TypeOK /\ FlowInv /\ ItemInv /\ SocketInv
        /\ UNCHANGED <<uart, cmds>>
        /\ UNCHANGED <<closing, closeId, closeCmd, owed, query, queryId, startRead, open,
                       openId, wind, tim, assoc, alive, unread>>
    BY DEF CallInv, IInv, DriverKept, readVars, openVars
  <1>2. Class(e) \in Seven /\ Class(e) \notin UnderWay
    BY DEF Seven
  <1>3. /\ \A d \in Queued : <<Class(e), d>> \notin Precedes
        /\ \A c \in Said : <<c, Class(e)>> \notin Precedes
    BY DEF Precedes, UnderWay
  <1>4. /\ FlowInv'
        /\ Queued' = Queued \cup {Class(e)} /\ Said' = Said /\ Sent' = Sent
        /\ Of(queue') = Of(queue) \cup {e}
        /\ Of(uart') = Of(uart) /\ Of(cmds') = Of(cmds)
    BY <1>1, <1>2, <1>3, PushFlow
  <1>5. ASSUME NEW d \in Of(queue) \cup Of(uart) \cup Of(cmds)
        PROVE  /\ d \in Of(queue) \cup Of(uart) => Told(d)'
               /\ d \in Of(queue) \cup Of(cmds) => Asked(d)'
    BY <1>1, SameMeaning DEF MeaningKept
  <1>6. Told(e)'
    BY <1>1 DEF Told
  <1>7. "PENDING" \in UnderWay' => e.kind # "CONNECT" /\ "PENDING" \in UnderWay
    BY <1>4 DEF UnderWay
  <1>8. ItemInv'
    BY <1>1, <1>4, <1>5, <1>6, <1>7 DEF ItemInv
  <1>9. SocketInv'
    BY <1>1, <1>4, ThreadSockets
  <1>10. QED
    BY <1>1, <1>4, <1>8, <1>9

LEMMA ThreadCommands ==
  ASSUME CallInv,
         \/ Scan \/ Reconnect \/ ChannelAsked
         \/ Scanned /\ response.ok
         \/ Configured /\ response.ok
         \/ ChannelRead /\ ~response.ok
  PROVE  FlowInv' /\ ItemInv' /\ SocketInv' /\ ThreadInv'
  <1>1. TypeOK /\ ItemInv /\ SocketInv /\ ThreadInv
    BY DEF CallInv, IInv
  <1> USE DEF ThreadInv, OneCall, Unread, Closes, Alone, Network, ThreadState, Mqtt, Calls
  <1>2. CASE Scan
    <2>1. /\ Send("scan", None, "thread") /\ UNCHANGED <<DriverKept, queue>>
          /\ "thread" \notin UnderWay /\ pc' # "open"
      BY <1>1, <1>2 DEF Scan, Turn, Commands, mailbox
    <2>2. ~stop
      BY <1>1, <1>2
         DEF Scan, Turn, Commands, mailbox, SocketInv, Held, ClosePhases, Reading, UnderWay
    <2>3. FlowInv' /\ ItemInv' /\ SocketInv'
      BY <2>1, <2>2, ThreadSends
    <2>4. /\ Queued' = Queued /\ Said' = Said /\ Sent' = Sent \cup {"thread"}
          /\ UNCHANGED <<closing, closeId, closeCmd, owed, query, queryId, startRead, open,
                         openId, wind, tim, assoc, alive, unread>>
      BY <2>1, <2>2, ThreadSends
    <2>5. Reading' <=> Reading
      BY <2>4 DEF Reading
    <2>6. ThreadInv'
      BY <1>1, <1>2, <2>1, <2>2, <2>4, <2>5
         DEF Scan, Turn, Commands, mailbox, UnderWay, None
    <2>7. QED
      BY <2>3, <2>6
  <1>3. CASE Reconnect
    <2>1. /\ Send("config", None, "thread") /\ UNCHANGED <<DriverKept, queue>>
          /\ "thread" \notin UnderWay /\ pc' # "open"
      BY <1>1, <1>3, QuietMeans DEF Reconnect, Turn, Commands, mailbox
    <2>2. ~stop
      BY <1>1, <1>3, QuietMeans
         DEF Reconnect, Turn, Commands, mailbox, SocketInv, Held, ClosePhases, Reading,
             UnderWay
    <2>3. FlowInv' /\ ItemInv' /\ SocketInv'
      BY <2>1, <2>2, ThreadSends
    <2>4. /\ Queued' = Queued /\ Said' = Said /\ Sent' = Sent \cup {"thread"}
          /\ UNCHANGED <<closing, closeId, closeCmd, owed, query, queryId, startRead, open,
                         openId, wind, tim, assoc, alive, unread>>
      BY <2>1, <2>2, ThreadSends
    <2>5. Reading' <=> Reading
      BY <2>4 DEF Reading
    <2>6. ThreadInv'
      BY <1>1, <1>3, <2>1, <2>2, <2>4, <2>5, QuietMeans
         DEF Reconnect, Turn, Commands, mailbox, UnderWay, None
    <2>7. QED
      BY <2>3, <2>6
  <1>4. CASE ChannelAsked
    <2>1. /\ Send("value", None, "thread") /\ UNCHANGED <<DriverKept, queue>>
          /\ "thread" \notin UnderWay /\ pc' # "open"
      BY <1>1, <1>4, QuietMeans DEF ChannelAsked, WaitsFor, Commands, mailbox
    <2>2. ~stop
      BY <1>1, <1>4, QuietMeans
         DEF ChannelAsked, WaitsFor, Commands, mailbox, SocketInv, Held, ClosePhases,
             Reading, UnderWay
    <2>3. FlowInv' /\ ItemInv' /\ SocketInv'
      BY <2>1, <2>2, ThreadSends
    <2>4. /\ Queued' = Queued /\ Said' = Said /\ Sent' = Sent \cup {"thread"}
          /\ UNCHANGED <<closing, closeId, closeCmd, owed, query, queryId, startRead, open,
                         openId, wind, tim, assoc, alive, unread>>
      BY <2>1, <2>2, ThreadSends
    <2>5. Reading' <=> Reading
      BY <2>4 DEF Reading
    <2>6. ThreadInv'
      BY <1>1, <1>4, <2>1, <2>2, <2>4, <2>5, QuietMeans
         DEF ChannelAsked, WaitsFor, Commands, mailbox, UnderWay, None
    <2>7. QED
      BY <2>3, <2>6
  <1>5. CASE Scanned /\ response.ok
    <2>1. /\ Send("config", None, "thread") /\ UNCHANGED <<DriverKept, queue>>
          /\ "thread" \notin UnderWay /\ pc' # "open"
      BY <1>1, <1>5 DEF Scanned, WaitsFor, Answered
    <2>2. ~stop
      BY <1>1, <1>5
         DEF Scanned, WaitsFor, Answered, SocketInv, Held, ClosePhases, Reading, UnderWay
    <2>3. FlowInv' /\ ItemInv' /\ SocketInv'
      BY <2>1, <2>2, ThreadSends
    <2>4. /\ Queued' = Queued /\ Said' = Said /\ Sent' = Sent \cup {"thread"}
          /\ UNCHANGED <<closing, closeId, closeCmd, owed, query, queryId, startRead, open,
                         openId, wind, tim, assoc, alive, unread>>
      BY <2>1, <2>2, ThreadSends
    <2>5. Reading' <=> Reading
      BY <2>4 DEF Reading
    <2>6. ThreadInv'
      BY <1>1, <1>5, <2>1, <2>2, <2>4, <2>5 DEF Scanned, WaitsFor, Answered, UnderWay, None
    <2>7. QED
      BY <2>3, <2>6
  <1>6. CASE Configured /\ response.ok
    <2>1. /\ Send("reset", None, "thread") /\ UNCHANGED <<DriverKept, queue>>
          /\ "thread" \notin UnderWay /\ pc' # "open"
      BY <1>1, <1>6 DEF Configured, WaitsFor, Answered
    <2>2. "ON" \notin UnderWay
      BY <1>1, <1>6
         DEF Configured, WaitsFor, Answered, SocketInv, Held, ClosePhases, Reading,
             UnderWay
    <2>3. FlowInv' /\ ItemInv' /\ SocketInv'
      BY <2>1, <2>2, ThreadSends
    <2>4. /\ Queued' = Queued /\ Said' = Said /\ Sent' = Sent \cup {"ON"}
          /\ UNCHANGED <<closing, closeId, closeCmd, owed, query, queryId, startRead, open,
                         openId, wind, tim, assoc, alive, unread>>
      BY <2>1, <2>2, ThreadSends
    <2>5. Reading' <=> Reading
      BY <2>4 DEF Reading
    <2>6. ThreadInv'
      BY <1>1, <1>6, <2>1, <2>2, <2>4, <2>5
         DEF Configured, WaitsFor, Answered, UnderWay, None
    <2>7. QED
      BY <2>3, <2>6
  <1>7. CASE ChannelRead /\ ~response.ok
    <2>1. /\ Send("value", None, "thread") /\ UNCHANGED <<DriverKept, queue>>
          /\ "thread" \notin UnderWay /\ pc' # "open"
      BY <1>1, <1>7 DEF ChannelRead, WaitsFor, Answered
    <2>2. ~stop
      BY <1>1, <1>7
         DEF ChannelRead, WaitsFor, Answered, SocketInv, Held, ClosePhases, Reading,
             UnderWay
    <2>3. FlowInv' /\ ItemInv' /\ SocketInv'
      BY <2>1, <2>2, ThreadSends
    <2>4. /\ Queued' = Queued /\ Said' = Said /\ Sent' = Sent \cup {"thread"}
          /\ UNCHANGED <<closing, closeId, closeCmd, owed, query, queryId, startRead, open,
                         openId, wind, tim, assoc, alive, unread>>
      BY <2>1, <2>2, ThreadSends
    <2>5. Reading' <=> Reading
      BY <2>4 DEF Reading
    <2>6. ThreadInv'
      BY <1>1, <1>7, <2>1, <2>2, <2>4, <2>5
         DEF ChannelRead, WaitsFor, Answered, UnderWay, None
    <2>7. QED
      BY <2>3, <2>6
  <1>8. QED
    BY <1>2, <1>3, <1>4, <1>5, <1>6, <1>7

LEMMA ThreadAsks ==
  ASSUME CallInv, QueueMax >= 7,
         \/ MqttSocketCreate \/ MqttConnectCall \/ SocketClosed
         \/ MqttPublish /\ isconnected /\ sock \in open
  PROVE  FlowInv' /\ ItemInv' /\ SocketInv' /\ ThreadInv'
  <1>1. TypeOK /\ ItemInv /\ SocketInv /\ ThreadInv /\ sock \in Sockets \cup {None}
    BY DEF CallInv, IInv, TypeOK
  <1> USE DEF ThreadInv, OneCall, Unread, Closes, Alone, Network, ThreadState, Mqtt, Calls
  <1>2. CASE MqttSocketCreate
    <2>0. PICK e : e = Item("OPEN", None, "thread")
      OBVIOUS
    <2>1. /\ Push(e) /\ UNCHANGED <<DriverKept, mailbox, cmds>>
          /\ "thread" \notin UnderWay
      BY <1>1, <1>2, <2>0 DEF MqttSocketCreate, Turn, Asks
    <2>2. /\ e \in Items /\ e.kind = "OPEN" /\ e.sock = None /\ e.by = "thread"
          /\ e.kind \in QueueKinds(e.by) \ {"OK", "VALUE"} /\ Class(e) = "thread"
      BY <1>1, <2>0 DEF Item, Items, Kinds, Askers, Class, QueueKinds
    <2>3. "PENDING" \notin UnderWay
      BY <1>1, <1>2 DEF MqttSocketCreate, Turn, Asks, SocketInv, ClosePhases, UnderWay
    <2>4. Told(e) /\ Asked(e)'
      BY <1>1, <1>2, <2>1, <2>2, <2>3
         DEF MqttSocketCreate, Turn, Asks, Told, Asked, DriverKept, openVars
    <2>5. FlowInv' /\ ItemInv' /\ SocketInv'
      BY <2>1, <2>2, <2>3, <2>4, ThreadQueues
    <2>6. /\ Queued' = Queued \cup {"thread"} /\ Said' = Said /\ Sent' = Sent
          /\ UNCHANGED <<closing, closeId, closeCmd, owed, query, queryId, startRead, open,
                         openId, wind, tim, assoc, alive, unread>>
      BY <2>1, <2>2, <2>3, <2>4, ThreadQueues
    <2>7. Reading' <=> Reading
      BY <2>6 DEF Reading
    <2>8. ThreadInv'
      BY <1>1, <1>2, <2>1, <2>3, <2>6, <2>7
         DEF MqttSocketCreate, Turn, Asks, mailbox, UnderWay
    <2>9. QED
      BY <2>5, <2>8
  <1>3. CASE MqttConnectCall
    <2>0. PICK e : e = Item("CONNECT", sock, "thread")
      OBVIOUS
    <2>1. /\ Push(e) /\ UNCHANGED <<DriverKept, mailbox, cmds>>
          /\ "thread" \notin UnderWay
      BY <1>1, <1>3, <2>0 DEF MqttConnectCall, Turn, Asks
    <2>2. /\ e \in Items /\ e.kind = "CONNECT" /\ e.sock = sock /\ e.by = "thread"
          /\ e.kind \in QueueKinds(e.by) \ {"OK", "VALUE"} /\ Class(e) = "thread"
      BY <1>1, <2>0 DEF Item, Items, Kinds, Askers, Class, QueueKinds
    <2>3. "PENDING" \notin UnderWay
      BY <1>1, <1>3 DEF MqttConnectCall, Turn, Asks, SocketInv, ClosePhases, UnderWay
    <2>4. Told(e) /\ Asked(e)'
      BY <1>1, <1>3, <2>1, <2>2, <2>3
         DEF MqttConnectCall, Turn, Asks, Told, Asked, DriverKept, openVars
    <2>5. FlowInv' /\ ItemInv' /\ SocketInv'
      BY <2>1, <2>2, <2>3, <2>4, ThreadQueues
    <2>6. /\ Queued' = Queued \cup {"thread"} /\ Said' = Said /\ Sent' = Sent
          /\ UNCHANGED <<closing, closeId, closeCmd, owed, query, queryId, startRead, open,
                         openId, wind, tim, assoc, alive, unread>>
      BY <2>1, <2>2, <2>3, <2>4, ThreadQueues
    <2>7. Reading' <=> Reading
      BY <2>6 DEF Reading
    <2>8. ThreadInv'
      BY <1>1, <1>3, <2>1, <2>3, <2>6, <2>7
         DEF MqttConnectCall, Turn, Asks, mailbox, UnderWay
    <2>9. QED
      BY <2>5, <2>8
  <1>4. CASE SocketClosed
    <2>0. PICK e : e = Item("CLOSE", sock, "close")
      OBVIOUS
    <2>1. /\ Push(e) /\ UNCHANGED <<DriverKept, mailbox, cmds>>
          /\ "thread" \notin UnderWay
      BY <1>1, <1>4, <2>0 DEF SocketClosed, WaitsFor, QueueClose
    <2>2. /\ e \in Items /\ e.kind = "CLOSE" /\ e.sock = sock /\ e.by = "close"
          /\ e.kind \in QueueKinds(e.by) \ {"OK", "VALUE"} /\ Class(e) = "close"
      BY <1>1, <2>0 DEF Item, Items, Kinds, Askers, Class, QueueKinds
    <2>3. "close" \notin UnderWay /\ sock \in alive
      BY <1>1, <1>4 DEF SocketClosed, WaitsFor, QueueClose, SocketInv, ClosePhases, UnderWay
    <2>4. Told(e) /\ Asked(e)'
      BY <1>1, <1>4, <2>1, <2>2, <2>3
         DEF SocketClosed, WaitsFor, QueueClose, Told, Asked, DriverKept, openVars
    <2>5. FlowInv' /\ ItemInv' /\ SocketInv'
      BY <2>1, <2>2, <2>3, <2>4, ThreadQueues
    <2>6. /\ Queued' = Queued \cup {"close"} /\ Said' = Said /\ Sent' = Sent
          /\ UNCHANGED <<closing, closeId, closeCmd, owed, query, queryId, startRead, open,
                         openId, wind, tim, assoc, alive, unread>>
      BY <2>1, <2>2, <2>3, <2>4, ThreadQueues
    <2>7. Reading' <=> Reading
      BY <2>6 DEF Reading
    <2>8. ThreadInv'
      BY <1>1, <1>4, <2>1, <2>3, <2>6, <2>7
         DEF SocketClosed, WaitsFor, QueueClose, mailbox, UnderWay
    <2>9. QED
      BY <2>5, <2>8
  <1>5. CASE MqttPublish /\ isconnected /\ sock \in open
    <2>0. PICK e : e = Item("PUBLISH", sock, "thread")
      OBVIOUS
    <2>1. /\ Push(e) /\ UNCHANGED <<DriverKept, mailbox, cmds>>
          /\ "thread" \notin UnderWay
      BY <1>1, <1>5, <2>0 DEF MqttPublish, Turn, Asks
    <2>2. /\ e \in Items /\ e.kind = "PUBLISH" /\ e.sock = sock /\ e.by = "thread"
          /\ e.kind \in QueueKinds(e.by) \ {"OK", "VALUE"} /\ Class(e) = "thread"
      BY <1>1, <2>0 DEF Item, Items, Kinds, Askers, Class, QueueKinds
    <2>3. "PENDING" \notin UnderWay
      BY <1>1, <1>5 DEF MqttPublish, Turn, Asks, SocketInv, ClosePhases, UnderWay
    <2>4. Told(e) /\ Asked(e)'
      BY <1>1, <1>5, <2>1, <2>2, <2>3
         DEF MqttPublish, Turn, Asks, Told, Asked, DriverKept, openVars
    <2>5. FlowInv' /\ ItemInv' /\ SocketInv'
      BY <2>1, <2>2, <2>3, <2>4, ThreadQueues
    <2>6. /\ Queued' = Queued \cup {"thread"} /\ Said' = Said /\ Sent' = Sent
          /\ UNCHANGED <<closing, closeId, closeCmd, owed, query, queryId, startRead, open,
                         openId, wind, tim, assoc, alive, unread>>
      BY <2>1, <2>2, <2>3, <2>4, ThreadQueues
    <2>7. Reading' <=> Reading
      BY <2>6 DEF Reading
    <2>8. ThreadInv'
      BY <1>1, <1>5, <2>1, <2>3, <2>6, <2>7 DEF MqttPublish, Turn, Asks, mailbox, UnderWay
    <2>9. QED
      BY <2>5, <2>8
  <1>6. QED
    BY <1>2, <1>3, <1>4, <1>5

LEMMA ThreadKeeps ==
  ASSUME CallInv, QueueMax >= 7, Thread
  PROVE  FlowInv' /\ ItemInv' /\ SocketInv' /\ ThreadInv'
  <1>1. CASE \/ Disconnected \/ IsReset \/ WithoutWifi \/ Connack \/ ChannelKnown
             \/ NoNewData \/ Delay \/ MqttConnectRefused \/ ConnectSent \/ ConnackTimeout
             \/ SocketCreated \/ Published
    BY <1>1, ThreadGoesOn
  <1>2. CASE Scan \/ Reconnect \/ ChannelAsked
    BY <1>2, ThreadCommands
  <1>3. CASE Scanned \/ Configured \/ ChannelRead
    <2>1. ChannelRead /\ response.ok => FlowInv' /\ ItemInv' /\ SocketInv' /\ ThreadInv'
      BY ThreadGoesOn
    <2>2. Scanned /\ ~response.ok => FlowInv' /\ ItemInv' /\ SocketInv' /\ ThreadInv'
      BY ThreadGoesOn
    <2>3. Configured /\ ~response.ok => FlowInv' /\ ItemInv' /\ SocketInv' /\ ThreadInv'
      BY ThreadGoesOn
    <2>4. ChannelRead /\ ~response.ok => FlowInv' /\ ItemInv' /\ SocketInv' /\ ThreadInv'
      BY ThreadCommands
    <2>5. Scanned /\ response.ok => FlowInv' /\ ItemInv' /\ SocketInv' /\ ThreadInv'
      BY ThreadCommands
    <2>6. Configured /\ response.ok => FlowInv' /\ ItemInv' /\ SocketInv' /\ ThreadInv'
      BY ThreadCommands
    <2>7. QED
      BY <1>3, <2>1, <2>2, <2>3, <2>4, <2>5, <2>6
  <1>4. CASE MqttSocketCreate \/ MqttConnectCall \/ SocketClosed
    BY <1>4, ThreadAsks
  <1>5. CASE MqttPublish
    BY <1>5, ThreadGoesOn, ThreadAsks
  <1>6. QED
    BY <1>1, <1>2, <1>3, <1>4, <1>5 DEF Thread

-----------------------------------------------------------------------------
(* The timer handler.                                                      *)

LEMMA ItemClasses ==
  ASSUME TypeOK, ItemInv
  PROVE  /\ Queued \subseteq Seven
         /\ Said \subseteq {"thread", "PART", "DATA", "OK", "query", "read", "close",
                            "PENDING", "CLOSED", "ON", "join", "drop"}
         /\ Sent \subseteq {"thread", "ON", "query", "read", "close"}
  <1>1. ASSUME NEW e \in Of(uart)
        PROVE  Class(e) \in {"thread", "PART", "DATA", "OK", "query", "read", "close",
                             "PENDING", "CLOSED", "ON", "join", "drop"}
    BY <1>1 DEF ItemInv, UartKinds, News, Indications, Class
  <1>2. ASSUME NEW e \in Of(cmds)
        PROVE  Class(e) \in {"thread", "ON", "query", "read", "close"}
    BY <1>2 DEF ItemInv, CmdKinds, Class
  <1>3. QED
    BY <1>1, <1>2, QueueClasses DEF Said, Sent, Classes

\* When events are not held back, no socket is read and none is being closed.
LEMMA NotHeld ==
  ASSUME TypeOK, SocketInv, ~stop
  PROVE  /\ ~Reading /\ ~closing /\ ~query /\ ~startRead /\ ~dataCb /\ ~swallow
         /\ dequeue /\ reading = "no"
         /\ \A c \in {"query", "read", "close", "PART", "DATA", "OK"} : c \notin Said
         /\ \A c \in {"query", "read", "close"} : c \notin Sent
  <1>1. ~Reading /\ ~closing
    BY DEF SocketInv, Held
  <1>2. /\ ~query /\ ~startRead
        /\ \A c \in {"query", "read", "close", "DATA"} : c \notin Said
        /\ \A c \in {"query", "read", "close"} : c \notin Sent
    BY <1>1 DEF Reading, SocketInv, ClosePhases
  <1>3. "PART" \notin Said /\ "OK" \notin Said
    BY <1>2 DEF SocketInv, ReadSteps
  <1>4. reading \in {"no", "asked", "part"}
    BY DEF TypeOK, DriverTypeOK
  <1>5. QED
    BY <1>1, <1>2, <1>3, <1>4 DEF SocketInv, ReadFlags

\* What is known when the timer handler takes an event.
LEMMA PopBase ==
  ASSUME CallInv, TimerPop
  PROVE  /\ TypeOK /\ FlowInv /\ ItemInv /\ SocketInv /\ ThreadInv
         /\ queue # <<>> /\ queue' = Tail(queue) /\ ~stop /\ tim' = "chain"
         /\ Head(queue) \in Items /\ Head(queue) \in Of(queue)
         /\ Head(queue).kind \in QueueKinds(Head(queue).by)
         /\ Told(Head(queue)) /\ Asked(Head(queue))
         /\ Class(Head(queue)) \in Queued \ (Said \cup Sent)
         /\ \A c \in Queued \cup Said : <<c, Class(Head(queue))>> \notin Precedes
         /\ UNCHANGED <<owed, startRead, dataCb, dequeue, uart, assoc, alive, unread,
                        wifi_state, pc, sock, isconnected, inbox, started>>
  <1>1. /\ TypeOK /\ FlowInv /\ ItemInv /\ SocketInv /\ ThreadInv
        /\ queue # <<>> /\ queue' = Tail(queue) /\ ~stop /\ tim' = "chain"
        /\ UNCHANGED <<owed, startRead, dataCb, dequeue, uart, assoc, alive, unread,
                       wifi_state, pc, sock, isconnected, inbox, started>>
    BY DEF CallInv, IInv, TimerPop, Pop, CanPop, stationVars
  <1>2. /\ Head(queue) \in Items /\ Head(queue) \in Of(queue)
        /\ Class(Head(queue)) \in Queued
        /\ \A c \in Queued : <<c, Class(Head(queue))>> \notin Precedes
    BY <1>1, Sequences, TailClasses DEF FlowInv, Queued
  <1>3. QED
    BY <1>1, <1>2 DEF FlowInv, ItemInv

\* Data is announced on a socket: it is read.
LEMMA PopPendingKeeps ==
  ASSUME CallInv, TimerPop, PopPending(Head(queue))
  PROVE  FlowInv' /\ ItemInv' /\ SocketInv' /\ ThreadInv'
  <1>0. PICK e : e = Head(queue)
    OBVIOUS
  <1>1. /\ TypeOK /\ FlowInv /\ ItemInv /\ SocketInv /\ ThreadInv
        /\ queue # <<>> /\ queue' = Tail(queue) /\ ~stop
    BY PopBase
  <1>2. e.kind = "PENDING" /\ Class(e) = "PENDING"
    BY <1>0, PopBase DEF PopPending, QueueKinds, Class
  <1>3. /\ "PENDING" \in Queued /\ "PENDING" \notin Said \cup Sent
        /\ "thread" \notin UnderWay /\ unread = {e.sock} /\ e.sock \in open \cap alive
    <2>1. "PENDING" \in UnderWay /\ unread = {e.sock}
      BY <1>0, <1>2, PopBase DEF UnderWay, Told
    <2>2. "thread" \notin Queued \cup Said
      BY <1>0, <1>2, PopBase DEF Precedes
    <2>3. QED
      BY <1>0, <1>1, <1>2, <2>1, <2>2, PopBase DEF ThreadInv, Unread, UnderWay
  <1>4. /\ queryId' = e.sock /\ query' = TRUE /\ stop' = TRUE /\ reading' = "no"
        /\ UNCHANGED <<answered, response, timing, swallow, closing, closeId, closeCmd, open,
                       clients, openId, cmds>>
    BY <1>0, <1>1, <1>3, NotHeld DEF PopPending, mailbox, openVars
  <1>5. /\ FlowInv' /\ Queued' = Queued \ {"PENDING"} /\ Said' = Said /\ Sent' = Sent
        /\ Of(queue') \subseteq Of(queue) /\ Of(uart') = Of(uart) /\ Of(cmds') = Of(cmds)
    BY <1>0, <1>1, <1>2, <1>4, PopBase, PopFlow
  <1>6. ItemInv'
    <2>1. MeaningKept
      BY <1>1, <1>4, PopBase, NotHeld DEF MeaningKept
    <2>2. QED
      BY <1>1, <1>3, <1>5, <2>1, ItemsKept DEF UnderWay
  <1>7. Reading'
    BY <1>4 DEF Reading
  <1>8. SocketInv'
    <2>1. ReadSteps' /\ ReadFlags'
      BY <1>1, <1>4, <1>5, NotHeld, PopBase DEF ReadSteps, ReadFlags
    <2>2. ReadSocket' /\ ClosePhases' /\ Held'
      BY <1>1, <1>3, <1>4, <1>5, <1>7, NotHeld, PopBase
         DEF ReadSocket, ClosePhases, Held, UnderWay
    <2>3. QED
      BY <2>1, <2>2 DEF SocketInv
  <1>9. ThreadInv'
    BY <1>1, <1>3, <1>4, <1>5, <1>7, NotHeld, PopBase
       DEF ThreadInv, OneCall, Unread, Closes, Alone, Network, ThreadState, Mqtt, Calls,
           UnderWay
  <1>10. QED
    BY <1>5, <1>6, <1>8, <1>9

\* The server has closed a connection.
LEMMA PopClosedKeeps ==
  ASSUME CallInv, TimerPop, PopClosed(Head(queue))
  PROVE  FlowInv' /\ ItemInv' /\ SocketInv' /\ ThreadInv'
  <1>0. PICK e : e = Head(queue)
    OBVIOUS
  <1>1. /\ TypeOK /\ FlowInv /\ ItemInv /\ SocketInv /\ ThreadInv
        /\ queue # <<>> /\ queue' = Tail(queue) /\ ~stop
    BY PopBase
  <1>2. e.kind = "CLOSED" /\ Class(e) = "CLOSED" /\ e.sock \in alive
    BY <1>0, PopBase DEF PopClosed, QueueKinds, Class, Told
  <1>3. /\ "CLOSED" \in Queued /\ "CLOSED" \notin Said \cup Sent
    BY <1>0, <1>2, PopBase
  <1>4. /\ closeCmd' = e.sock
        /\ UNCHANGED <<answered, response, timing, stop, swallow, closing, closeId, query,
                       queryId, reading, open, clients, openId, cmds>>
    BY <1>0, <1>1 DEF PopClosed, mailbox, openVars
  <1>5. /\ FlowInv' /\ Queued' = Queued \ {"CLOSED"} /\ Said' = Said /\ Sent' = Sent
        /\ Of(queue') \subseteq Of(queue) /\ Of(uart') = Of(uart) /\ Of(cmds') = Of(cmds)
    BY <1>0, <1>1, <1>2, <1>4, PopBase, PopFlow
  <1>6. ItemInv'
    <2>1. MeaningKept
      BY <1>4, PopBase DEF MeaningKept
    <2>2. QED
      BY <1>1, <1>5, <2>1, ItemsKept DEF UnderWay
  <1>7. SocketInv' /\ (Reading' <=> Reading)
    BY <1>1, <1>4, <1>5, PopBase
       DEF SocketInv, ReadSteps, ReadFlags, ReadSocket, ClosePhases,
                                     Held, Reading
  <1>8. ThreadInv'
    BY <1>1, <1>2, <1>3, <1>4, <1>5, <1>7, PopBase
       DEF ThreadInv, OneCall, Unread, Closes, Alone, Network, ThreadState, Mqtt, Calls,
           UnderWay
  <1>9. QED
    BY <1>5, <1>6, <1>7, <1>8

\* The answer to the call of the thread.
LEMMA PopAnswerKeeps ==
  ASSUME CallInv, TimerPop, PopId(Head(queue)) \/ PopAnswer(Head(queue))
  PROVE  FlowInv' /\ ItemInv' /\ SocketInv' /\ ThreadInv'
  <1>0. PICK e : e = Head(queue)
    OBVIOUS
  <1>1. /\ TypeOK /\ FlowInv /\ ItemInv /\ SocketInv /\ ThreadInv
        /\ queue # <<>> /\ queue' = Tail(queue) /\ ~stop
    BY PopBase
  <1>2. e.kind \in {"ID", "OK", "VALUE", "ERROR"} /\ e.by = "thread" /\ Class(e) = "thread"
    BY <1>0, PopBase DEF PopId, PopAnswer, QueueKinds, Class, News, Indications
  <1>3. /\ "thread" \in Queued /\ "thread" \notin Said \cup Sent /\ ~answered
    BY <1>0, <1>1, <1>2, PopBase DEF ThreadInv, OneCall, UnderWay
  <1>4. /\ answered' = TRUE /\ response'.by = "thread"
        /\ response'.ok /\ pc = "open" => openId' \in alive
        /\ open \subseteq open' /\ open' \subseteq open \cup alive
        /\ UNCHANGED <<stop, swallow, closing, closeId, closeCmd, query, queryId, reading, cmds>>
    <2>1. CASE PopId(e)
      <3>1. e.sock \in alive
        BY <1>0, <2>1, PopBase DEF PopId, Told
      <3>2. QED
        BY <1>2, <2>1, <3>1 DEF PopId, Answer
    <2>2. CASE PopAnswer(e)
      <3>1. pc = "open" => e.kind = "ERROR"
        BY <1>0, <1>2, <2>2, PopBase DEF PopAnswer, Told
      <3>2. QED
        BY <1>2, <2>2, <3>1 DEF PopAnswer, Answer, openVars
    <2>3. QED
      BY <1>0, <2>1, <2>2
  <1>5. /\ FlowInv' /\ Queued' = Queued \ {"thread"} /\ Said' = Said /\ Sent' = Sent
        /\ Of(queue') \subseteq Of(queue) /\ Of(uart') = Of(uart) /\ Of(cmds') = Of(cmds)
    BY <1>0, <1>1, <1>2, <1>4, PopBase, PopFlow
  <1>6. ItemInv'
    <2>1. MeaningKept
      BY <1>4, PopBase DEF MeaningKept
    <2>2. QED
      BY <1>1, <1>5, <2>1, ItemsKept DEF UnderWay
  <1>7. SocketInv' /\ ~Reading' /\ ~Reading
    BY <1>1, <1>4, <1>5, PopBase, NotHeld
       DEF SocketInv, ReadSteps, ReadFlags, ReadSocket, ClosePhases, Held, Reading
  <1>8. ThreadInv'
    BY <1>1, <1>3, <1>4, <1>5, <1>7, PopBase, NotHeld
       DEF ThreadInv, OneCall, Unread, Closes, Alone, Network, ThreadState, Mqtt, Calls,
           UnderWay
  <1>9. QED
    BY <1>5, <1>6, <1>7, <1>8

\* The call of the thread becomes a command.
LEMMA PopCommandKeeps ==
  ASSUME CallInv, TimerPop, PopCommand(Head(queue))
  PROVE  FlowInv' /\ ItemInv' /\ SocketInv' /\ ThreadInv'
  <1>0. PICK e : e = Head(queue)
    OBVIOUS
  <1>1. /\ TypeOK /\ FlowInv /\ ItemInv /\ SocketInv /\ ThreadInv
        /\ queue # <<>> /\ queue' = Tail(queue) /\ ~stop
    BY PopBase
  <1>2. /\ e.kind \in {"OPEN", "CONNECT", "PUBLISH"} /\ e.by = "thread" /\ Class(e) = "thread"
        /\ e \in Items /\ e \in Of(queue) /\ Asked(e)
    BY <1>0, PopBase DEF PopCommand, QueueKinds, Class, News, Indications
  <1>3. /\ "thread" \in Queued /\ "thread" \notin Said \cup Sent
        /\ "PENDING" \notin UnderWay
    <2>1. "thread" \in Queued /\ "thread" \notin Said \cup Sent
      BY <1>0, <1>2, PopBase
    <2>2. "PENDING" \notin UnderWay
      BY <1>1, <1>2 DEF ItemInv, Asked, ThreadInv, Unread
    <2>3. QED
      BY <2>1, <2>2
  <1>4. PICK c \in {"open", "connect", "publish"} :
          /\ cmds' = Append(cmds, Item(c, e.sock, "thread"))
          /\ c = "open" <=> e.kind = "OPEN"
          /\ c = "connect" <=> e.kind = "CONNECT"
          /\ c = "publish" <=> e.kind = "PUBLISH"
    BY <1>0, <1>2 DEF PopCommand, Send
  <1>5. UNCHANGED <<answered, response, stop, swallow, closing, closeId, closeCmd, query,
                    queryId, reading, open, clients, openId>>
    BY <1>0 DEF PopCommand, mailbox, openVars
  <1>6. PICK d : d = Item(c, e.sock, "thread")
    OBVIOUS
  <1>7. /\ d \in Items /\ d.kind = c /\ d.sock = e.sock /\ d.by = "thread"
        /\ Class(d) = "thread" /\ d.kind \in CmdKinds(d.by)
    BY <1>2, <1>6 DEF Item, Items, Kinds, Askers, Class, CmdKinds
  <1>8. /\ FlowInv' /\ Queued' = Queued \ {"thread"} /\ Said' = Said
        /\ Sent' = Sent \cup {"thread"}
        /\ Of(queue') \subseteq Of(queue) /\ Of(uart') = Of(uart)
        /\ Of(cmds') = Of(cmds) \cup {d}
    BY <1>0, <1>1, <1>2, <1>4, <1>6, <1>7, PopBase, PopSendFlow
  <1>9. ItemInv'
    <2>1. MeaningKept
      BY <1>5, PopBase DEF MeaningKept
    <2>2. Asked(d)'
      BY <1>2, <1>4, <1>5, <1>7, PopBase DEF Asked
    <2>3. \A i \in Of(queue) \cup Of(uart) \cup Of(cmds) :
             /\ i \in Of(queue) \cup Of(uart) => Told(i)'
             /\ i \in Of(queue) \cup Of(cmds) => Asked(i)'
      BY <1>1, <2>1, SameMeaning
    <2>4. "PENDING" \notin UnderWay'
      BY <1>3, <1>8 DEF UnderWay
    <2>5. QED
      BY <1>1, <1>7, <1>8, <2>2, <2>3, <2>4 DEF ItemInv
  <1>10. SocketInv' /\ ~Reading' /\ ~Reading
    BY <1>1, <1>5, <1>8, PopBase, NotHeld
       DEF SocketInv, ReadSteps, ReadFlags, ReadSocket, ClosePhases, Held, Reading
  <1>11. ThreadInv'
    BY <1>1, <1>3, <1>5, <1>8, <1>10, PopBase, NotHeld
       DEF ThreadInv, OneCall, Unread, Closes, Alone, Network, ThreadState, Mqtt, Calls,
           UnderWay
  <1>12. QED
    BY <1>8, <1>9, <1>10, <1>11

\* A socket is to be closed: the command is sent, if the socket is still open.
LEMMA PopCloseKeeps ==
  ASSUME CallInv, TimerPop, PopClose(Head(queue))
  PROVE  FlowInv' /\ ItemInv' /\ SocketInv' /\ ThreadInv'
  <1>0. PICK e : e = Head(queue)
    OBVIOUS
  <1>1. /\ TypeOK /\ FlowInv /\ ItemInv /\ SocketInv /\ ThreadInv
        /\ queue # <<>> /\ queue' = Tail(queue) /\ ~stop
    BY PopBase
  <1>2. /\ e.kind = "CLOSE" /\ e.by = "close" /\ Class(e) = "close" /\ e.sock \in alive
        /\ e \in Items
    BY <1>0, PopBase DEF PopClose, QueueKinds, Class, News, Indications, Told
  <1>3. /\ "close" \in Queued /\ "close" \notin Said \cup Sent /\ "close" \in UnderWay
        /\ pc \in {"closed", "delay"} /\ ~answered /\ "thread" \notin UnderWay
    <2>1. "close" \in Queued /\ "close" \notin Said \cup Sent /\ "close" \in UnderWay
      BY <1>0, <1>2, PopBase DEF UnderWay
    <2>2. QED
      BY <1>1, <2>1 DEF ThreadInv, Closes, OneCall, Calls
  <1>4. UNCHANGED <<answered, timing, closeCmd, query, queryId, reading, open, clients, openId>>
    BY <1>0 DEF PopClose, openVars
  <1>5. CASE e.sock \in open
    <2>1. /\ cmds' = Append(cmds, Item("close", e.sock, "close"))
          /\ stop' = TRUE /\ closeId' = e.sock /\ closing' = TRUE /\ swallow' = TRUE
      BY <1>0, <1>5 DEF PopClose, Send
    <2>2. PICK d : d = Item("close", e.sock, "close")
      OBVIOUS
    <2>3. /\ d \in Items /\ d.kind = "close" /\ d.sock = e.sock /\ d.by = "close"
          /\ Class(d) = "close" /\ d.kind \in CmdKinds(d.by)
      BY <1>2, <2>2 DEF Item, Items, Kinds, Askers, Class, CmdKinds
    <2>4. /\ FlowInv' /\ Queued' = Queued \ {"close"} /\ Said' = Said
          /\ Sent' = Sent \cup {"close"}
          /\ Of(queue') \subseteq Of(queue) /\ Of(uart') = Of(uart)
          /\ Of(cmds') = Of(cmds) \cup {d}
      BY <1>0, <1>1, <1>2, <2>1, <2>2, <2>3, PopBase, PopSendFlow
    <2>5. ItemInv'
      <3>1. MeaningKept
        BY <1>3, <1>4, PopBase DEF MeaningKept
      <3>2. Asked(d)'
        BY <2>1, <2>3 DEF Asked
      <3>3. \A i \in Of(queue) \cup Of(uart) \cup Of(cmds) :
               /\ i \in Of(queue) \cup Of(uart) => Told(i)'
               /\ i \in Of(queue) \cup Of(cmds) => Asked(i)'
        BY <1>1, <3>1, SameMeaning
      <3>4. "PENDING" \in UnderWay' => "PENDING" \in UnderWay
        BY <2>4 DEF UnderWay
      <3>5. QED
        BY <1>1, <2>3, <2>4, <3>2, <3>3, <3>4 DEF ItemInv
    <2>6. ~Reading' /\ ~Reading
      BY <1>1, <1>4, <2>4, PopBase, NotHeld DEF Reading
    <2>7. SocketInv'
      BY <1>1, <1>2, <1>3, <1>4, <1>5, <2>1, <2>4, <2>6, PopBase, NotHeld
         DEF SocketInv, ReadSteps, ReadFlags, ReadSocket, ClosePhases, Held, UnderWay
    <2>8. ThreadInv'
      BY <1>1, <1>3, <1>4, <2>1, <2>4, <2>6, PopBase, NotHeld
         DEF ThreadInv, OneCall, Unread, Closes, Alone, Network, ThreadState, Mqtt, Calls,
             UnderWay
    <2>9. QED
      BY <2>4, <2>5, <2>7, <2>8
  <1>6. CASE e.sock \notin open
    <2>1. UNCHANGED <<cmds, response, stop, closeId, closing, swallow>>
      BY <1>0, <1>6 DEF PopClose
    <2>2. /\ FlowInv' /\ Queued' = Queued \ {"close"} /\ Said' = Said /\ Sent' = Sent
          /\ Of(queue') \subseteq Of(queue) /\ Of(uart') = Of(uart) /\ Of(cmds') = Of(cmds)
      BY <1>0, <1>1, <1>2, <2>1, PopBase, PopFlow
    <2>3. ItemInv'
      <3>1. MeaningKept
        BY <1>4, <2>1, PopBase DEF MeaningKept
      <3>2. QED
        BY <1>1, <2>2, <3>1, ItemsKept DEF UnderWay
    <2>4. SocketInv' /\ ~Reading' /\ ~Reading
      BY <1>1, <1>4, <2>1, <2>2, PopBase, NotHeld
         DEF SocketInv, ReadSteps, ReadFlags, ReadSocket, ClosePhases, Held, Reading
    <2>5. ThreadInv'
      BY <1>1, <1>3, <1>4, <2>1, <2>2, <2>4, PopBase, NotHeld
         DEF ThreadInv, OneCall, Unread, Closes, Alone, Network, ThreadState, Mqtt, Calls,
             UnderWay
    <2>6. QED
      BY <2>2, <2>3, <2>4, <2>5
  <1>7. QED
    BY <1>5, <1>6

\* An indication is passed on.
LEMMA PopIndicationKeeps ==
  ASSUME CallInv, TimerPop, PopIndication(Head(queue))
  PROVE  FlowInv' /\ ItemInv' /\ SocketInv' /\ ThreadInv'
  <1>0. PICK e : e = Head(queue)
    OBVIOUS
  <1>1. /\ TypeOK /\ FlowInv /\ ItemInv /\ SocketInv /\ ThreadInv
        /\ queue # <<>> /\ queue' = Tail(queue) /\ ~stop /\ wind' = e.kind
    BY <1>0, PopBase DEF TimerPop, Pop, PopIndication
  <1>2. /\ e.kind \in Indications
        /\ IF e.kind = "ON" THEN Class(e) = "ON" ELSE Class(e) \in {"join", "drop"}
    BY <1>0, PopBase DEF PopIndication, QueueKinds, Class, Indications
  <1>3. UNCHANGED <<answered, response, timing, stop, swallow, closing, closeId, closeCmd,
                    query, queryId, reading, open, clients, openId, cmds>>
    BY <1>0 DEF PopIndication, mailbox, openVars
  <1>4. Class(e) \in Queued \ (Said \cup Sent)
    BY <1>0, PopBase
  <1>5. /\ FlowInv' /\ Queued' = Queued \ {Class(e)} /\ Said' = Said /\ Sent' = Sent
        /\ Of(queue') \subseteq Of(queue) /\ Of(uart') = Of(uart) /\ Of(cmds') = Of(cmds)
    BY <1>0, <1>1, <1>3, PopBase, PopFlow
  <1>6. ItemInv'
    <2>1. MeaningKept
      BY <1>3, PopBase DEF MeaningKept
    <2>2. QED
      BY <1>1, <1>5, <2>1, ItemsKept DEF UnderWay
  <1>7. SocketInv' /\ ~Reading' /\ ~Reading
    BY <1>1, <1>3, <1>5, PopBase, NotHeld
       DEF SocketInv, ReadSteps, ReadFlags, ReadSocket, ClosePhases, Held, Reading
  \* When the module is on again nothing else is under way.
  <1>8. pc = "reset" /\ Class(e) = "ON" => UnderWay' = {}
    <2>1. Class(e) = "ON" => "join" \notin Queued \cup Said /\ "drop" \notin Queued \cup Said
      BY <1>0, PopBase DEF Precedes
    <2>2. "join" \notin Sent /\ "drop" \notin Sent
      BY <1>1, ItemClasses
    <2>3. pc = "reset" => /\ UnderWay \subseteq {"thread", "ON", "join", "drop"}
                          /\ "thread" \notin UnderWay
      BY <1>1 DEF ThreadInv, Alone, OneCall, Calls
    <2>4. QED
      BY <1>4, <1>5, <2>1, <2>2, <2>3 DEF UnderWay
  <1>9. "ON" \in UnderWay => Class(e) = "ON" \/ "ON" \in UnderWay'
    BY <1>5 DEF UnderWay
  <1>10. Network'
    <2>1. UnderWay' \subseteq UnderWay /\ UnderWay # {}
      BY <1>4, <1>5 DEF UnderWay
    <2>2. Class(e) = "ON" => "ON" \notin UnderWay'
      BY <1>4, <1>5 DEF UnderWay
    <2>3. QED
      BY <1>1, <1>2, <1>5, <1>8, <1>9, <2>1, <2>2, PopBase DEF ThreadInv, Network
  <1>11. OneCall' /\ Unread' /\ Closes' /\ Alone' /\ ThreadState'
    BY <1>1, <1>2, <1>3, <1>4, <1>5, <1>7, PopBase, NotHeld
       DEF ThreadInv, OneCall, Unread, Closes, Alone, ThreadState, Mqtt, Calls, UnderWay
  <1>12. QED
    BY <1>5, <1>6, <1>7, <1>10, <1>11 DEF ThreadInv

LEMMA TimerPopKeeps ==
  ASSUME CallInv, TimerPop
  PROVE  FlowInv' /\ ItemInv' /\ SocketInv' /\ ThreadInv'
  BY PopPendingKeeps, PopClosedKeeps, PopAnswerKeeps, PopCommandKeeps, PopCloseKeeps,
     PopIndicationKeeps DEF TimerPop, Pop

\* What the second step of the timer handler leaves alone, and what it tells the program.
LEMMA ChainBase ==
  ASSUME CallInv, TimerChain
  PROVE  /\ TypeOK /\ FlowInv /\ ItemInv /\ SocketInv /\ ThreadInv
         /\ UNCHANGED <<answered, response, swallow, closing, closeId, owed, queryId, open,
                        openId, uart, assoc, alive, unread, pc, sock, isconnected>>
         /\ tim' = "idle" /\ wind' = None
         /\ inbox' <=> inbox \/ DataDue
         /\ started' <=> started \/ wind = "ON"
         /\ wifi_state' = wifi_state \/ wifi_state' \in {"mqtt_socket_create", "disconnected"}
  BY DEF CallInv, IInv, TimerChain, Chain, AfterClosed, mailbox, openVars

\* A step that leaves the line as it is, and the invariant of the thread.
LEMMA ChainKeepsThread ==
  ASSUME CallInv, TimerChain, ~DataDue, UNCHANGED <<closeCmd, query, startRead>>,
         Queued' = Queued, Said' = Said, Sent' = Sent
  PROVE  ThreadInv' /\ (Reading' <=> Reading)
  <1>1. Reading' <=> Reading
    BY DEF Reading
  <1>2. ThreadInv'
    BY <1>1, ChainBase
       DEF ThreadInv, OneCall, Unread, Closes, Alone, Network, ThreadState, Mqtt, Calls,
           UnderWay,
           None
  <1>3. QED
    BY <1>1, <1>2

\* Nothing else is due, or the program is told that a socket was closed.
LEMMA ChainNothingKeeps ==
  ASSUME CallInv, TimerChain, ChainClosed \/ ChainNothing
  PROVE  FlowInv' /\ ItemInv' /\ SocketInv' /\ ThreadInv'
  <1>1. /\ UNCHANGED <<queue, stop, cmds, startRead, query, reading, dataCb, dequeue, closeCmd>>
        /\ ~DataDue
    BY DEF ChainClosed, ChainNothing, ClosedDue, DataDue, Idle
  <1>2. /\ FlowInv' /\ Queued' = Queued /\ Said' = Said /\ Sent' = Sent
        /\ UnderWay' = UnderWay
        /\ Of(queue') = Of(queue) /\ Of(uart') = Of(uart) /\ Of(cmds') = Of(cmds)
    BY <1>1, ChainBase, SameFlow
  <1>3. ItemInv'
    BY <1>2, ChainBase, ItemsKept DEF MeaningKept
  <1>4. ThreadInv' /\ (Reading' <=> Reading)
    BY <1>1, <1>2, ChainKeepsThread
  <1>5. SocketInv'
    BY <1>1, <1>2, <1>4, ChainBase
       DEF SocketInv, ReadSteps, ReadFlags, ReadSocket, ClosePhases, Held
  <1>6. QED
    BY <1>2, <1>3, <1>4, <1>5

\* The data that was read is for the program: it has all there was.
LEMMA ChainDataKeeps ==
  ASSUME CallInv, TimerChain, ChainData
  PROVE  FlowInv' /\ ItemInv' /\ SocketInv' /\ ThreadInv'
  <1>1. /\ UNCHANGED <<queue, stop, cmds, startRead, query, reading, closeCmd>>
        /\ dataCb /\ dataCb' = FALSE /\ dequeue' = TRUE
    BY DEF ChainData, DataDue
  <1>2. /\ FlowInv' /\ Queued' = Queued /\ Said' = Said /\ Sent' = Sent
        /\ UnderWay' = UnderWay
        /\ Of(queue') = Of(queue) /\ Of(uart') = Of(uart) /\ Of(cmds') = Of(cmds)
    BY <1>1, ChainBase, SameFlow
  <1>3. ItemInv'
    BY <1>2, ChainBase, ItemsKept DEF MeaningKept
  <1>4. /\ query /\ Reading /\ Reading' /\ unread = {}
    BY <1>1, ChainBase DEF SocketInv, ReadFlags, ReadSocket, Reading
  <1>5. SocketInv'
    BY <1>1, <1>2, <1>4, ChainBase
       DEF SocketInv, ReadSteps, ReadFlags, ReadSocket, ClosePhases, Held
  <1>6. ThreadInv'
    BY <1>1, <1>2, <1>4, ChainBase
       DEF ThreadInv, OneCall, Unread, Closes, Alone, Network, ThreadState, Mqtt, Calls,
           UnderWay
  <1>7. QED
    BY <1>2, <1>3, <1>5, <1>6

\* A command of the driver itself: it asks how much there is to read, or reads it.
LEMMA ChainAsksKeeps ==
  ASSUME CallInv, TimerChain, ChainRead \/ ChainQuery
  PROVE  FlowInv' /\ ItemInv' /\ SocketInv' /\ ThreadInv'
  <1>1. /\ TypeOK /\ FlowInv /\ ItemInv /\ SocketInv /\ ThreadInv
        /\ queryId \in open \cap alive /\ queryId \in Sockets \cup {None}
        /\ Reading
    BY ChainBase
       DEF ChainRead, ChainQuery, QueryDue, SocketInv, ReadSocket, Reading, TypeOK,
                     DriverTypeOK
  <1>2. PICK c \in {"read", "query"} :
          /\ cmds' = Append(cmds, Item(c, queryId, "read")) /\ stop' = TRUE
          /\ c = "read" => /\ startRead /\ startRead' = FALSE /\ reading' = "asked"
                           /\ UNCHANGED query
          /\ c = "query" => /\ query /\ query' = FALSE /\ dequeue
                            /\ UNCHANGED <<startRead, reading>>
    BY <1>1 DEF ChainRead, ChainQuery, QueryDue, Send
  <1>3. /\ UNCHANGED <<queue, dataCb, dequeue, closeCmd>> /\ ~DataDue
    BY DEF ChainRead, ChainQuery, DataDue
  <1>4. PICK d : d = Item(c, queryId, "read")
    OBVIOUS
  <1>5. /\ d \in Items /\ d.kind = c /\ d.sock = queryId /\ d.by = "read"
        /\ Class(d) = c /\ d.kind \in CmdKinds(d.by)
    BY <1>1, <1>4 DEF Item, Items, Kinds, Askers, Class, CmdKinds
  <1>6. /\ "read" \notin Said \cup Sent /\ "query" \notin Said \cup Sent
        /\ "DATA" \notin Said
        /\ "PART" \notin Said /\ c \notin UnderWay
        /\ c = "read" => "OK" \notin Said /\ ~query
        /\ ~closing
    <2>1. /\ "read" \notin Said \cup Sent /\ "query" \notin Said \cup Sent
          /\ "DATA" \notin Said
          /\ c = "read" => "OK" \notin Said /\ ~query
      BY <1>1, <1>2 DEF SocketInv, ReadSteps
    <2>2. c \notin Queued
      BY <1>1, ItemClasses DEF Seven
    <2>3. "PART" \notin Said /\ ~closing
      BY <1>1, <2>1 DEF SocketInv, ReadSteps, ClosePhases
    <2>4. QED
      BY <2>1, <2>2, <2>3 DEF UnderWay
  <1>7. /\ FlowInv' /\ Queued' = Queued /\ Said' = Said /\ Sent' = Sent \cup {c}
        /\ Of(queue') = Of(queue) /\ Of(uart') = Of(uart)
        /\ Of(cmds') = Of(cmds) \cup {d}
    BY <1>1, <1>2, <1>3, <1>4, <1>5, <1>6, ChainBase, SendFlow
  <1>8. ItemInv'
    <2>1. Asked(d)'
      BY <1>2, <1>5, ChainBase DEF Asked
    <2>2. \A i \in Of(queue) \cup Of(uart) \cup Of(cmds) :
             /\ i \in Of(queue) \cup Of(uart) => Told(i)'
             /\ i \in Of(queue) \cup Of(cmds) => Asked(i)'
      BY <1>1, ChainBase, SameMeaning DEF MeaningKept
    <2>3. "PENDING" \in UnderWay' => "PENDING" \in UnderWay
      BY <1>7 DEF UnderWay
    <2>4. QED
      BY <1>1, <1>5, <1>7, <2>1, <2>2, <2>3 DEF ItemInv
  <1>9. Reading'
    BY <1>7 DEF Reading
  <1>10. SocketInv'
    <2>1. ReadSteps'
      BY <1>1, <1>2, <1>3, <1>6, <1>7 DEF SocketInv, ReadSteps
    <2>2. ReadFlags'
      BY <1>1, <1>2, <1>3, <1>6, <1>7, ChainBase DEF SocketInv, ReadFlags
    <2>3. ReadSocket' /\ ClosePhases' /\ Held'
      BY <1>1, <1>2, <1>3, <1>6, <1>7, <1>9, ChainBase
         DEF SocketInv, ReadSocket, ClosePhases, Held
    <2>4. QED
      BY <2>1, <2>2, <2>3 DEF SocketInv
  <1>11. ThreadInv'
    <2>1. pc # "reset"
      BY <1>1, <1>2 DEF ThreadInv, Alone
    <2>2. QED
      BY <1>1, <1>2, <1>3, <1>7, <1>9, <2>1, ChainBase
         DEF ThreadInv, OneCall, Unread, Closes, Alone, Network, ThreadState, Mqtt, Calls,
             UnderWay
  <1>12. QED
    BY <1>7, <1>8, <1>10, <1>11

\* The server closed the connection: the socket is to be closed.
LEMMA ChainCloseKeeps ==
  ASSUME CallInv, QueueMax >= 7, TimerChain, ChainClose
  PROVE  FlowInv' /\ ItemInv' /\ SocketInv' /\ ThreadInv'
  <1>1. /\ TypeOK /\ FlowInv /\ ItemInv /\ SocketInv /\ ThreadInv
        /\ UNCHANGED <<stop, cmds, startRead, query, reading, dataCb, dequeue>>
        /\ ~DataDue /\ closeCmd' = None /\ closeCmd # None
    BY ChainBase DEF ChainClose, CloseDue, DataDue
  <1>2. /\ pc = "delay" /\ "close" \notin UnderWay /\ ~Reading /\ closeCmd \in alive
        /\ closeCmd \in Sockets \cup {None}
    BY <1>1 DEF ThreadInv, Closes, TypeOK, DriverTypeOK
  <1>3. CASE closeCmd \in open
    <2>1. PICK e : e = Item("CLOSE", closeCmd, "close")
      OBVIOUS
    <2>2. Push(e)
      BY <1>3, <2>1 DEF ChainClose, QueueClose
    <2>3. /\ e \in Items /\ e.kind = "CLOSE" /\ e.sock = closeCmd /\ e.by = "close"
          /\ Class(e) = "close" /\ e.kind \in QueueKinds(e.by)
      BY <1>2, <2>1 DEF Item, Items, Kinds, Askers, Class, QueueKinds
    <2>4. /\ Class(e) \in Seven /\ Class(e) \notin UnderWay
          /\ \A d \in Queued : <<Class(e), d>> \notin Precedes
          /\ \A c \in Said : <<c, Class(e)>> \notin Precedes
      BY <1>2, <2>3 DEF Precedes, Seven
    <2>5. /\ FlowInv' /\ Queued' = Queued \cup {"close"} /\ Said' = Said /\ Sent' = Sent
          /\ Of(queue') = Of(queue) \cup {e}
          /\ Of(uart') = Of(uart) /\ Of(cmds') = Of(cmds)
      BY <1>1, <2>2, <2>3, <2>4, ChainBase, PushFlow
    <2>6. ItemInv'
      <3>1. \A i \in Of(queue) \cup Of(uart) \cup Of(cmds) :
               /\ i \in Of(queue) \cup Of(uart) => Told(i)'
               /\ i \in Of(queue) \cup Of(cmds) => Asked(i)'
        BY <1>1, ChainBase, SameMeaning DEF MeaningKept
      <3>2. Told(e)' /\ Asked(e)'
        BY <1>2, <2>3, ChainBase DEF Told, Asked
      <3>3. "PENDING" \in UnderWay' => "PENDING" \in UnderWay
        BY <2>5 DEF UnderWay
      <3>4. QED
        BY <1>1, <2>3, <2>5, <3>1, <3>2, <3>3 DEF ItemInv
    <2>7. ~Reading'
      BY <1>1, <1>2, <2>5 DEF Reading
    <2>8. SocketInv'
      BY <1>1, <1>2, <2>5, <2>7, ChainBase
         DEF SocketInv, ReadSteps, ReadFlags, ReadSocket, ClosePhases, Held
    <2>9. ThreadInv'
      BY <1>1, <1>2, <2>5, <2>7, ChainBase
         DEF ThreadInv, OneCall, Unread, Closes, Alone, Network, ThreadState, Mqtt, Calls,
             UnderWay
    <2>10. QED
      BY <2>5, <2>6, <2>8, <2>9
  <1>4. CASE closeCmd \notin open
    <2>1. UNCHANGED queue
      BY <1>4 DEF ChainClose
    <2>2. /\ FlowInv' /\ Queued' = Queued /\ Said' = Said /\ Sent' = Sent
          /\ UnderWay' = UnderWay
          /\ Of(queue') = Of(queue) /\ Of(uart') = Of(uart) /\ Of(cmds') = Of(cmds)
      BY <1>1, <2>1, ChainBase, SameFlow
    <2>3. ItemInv'
      BY <2>2, ChainBase, ItemsKept DEF MeaningKept
    <2>4. ~Reading'
      BY <1>1, <1>2, <2>2 DEF Reading
    <2>5. SocketInv'
      BY <1>1, <1>2, <2>2, <2>4, ChainBase
         DEF SocketInv, ReadSteps, ReadFlags, ReadSocket, ClosePhases, Held
    <2>6. ThreadInv'
      BY <1>1, <1>2, <2>2, <2>4, ChainBase
         DEF ThreadInv, OneCall, Unread, Closes, Alone, Network, ThreadState, Mqtt, Calls,
             UnderWay
    <2>7. QED
      BY <2>2, <2>3, <2>5, <2>6
  <1>5. QED
    BY <1>3, <1>4

LEMMA TimerChainKeeps ==
  ASSUME CallInv, QueueMax >= 7, TimerChain
  PROVE  FlowInv' /\ ItemInv' /\ SocketInv' /\ ThreadInv'
  <1>1. ChainRead \/ ChainQuery \/ ChainData \/ ChainClose \/ ChainClosed \/ ChainNothing
    BY DEF TimerChain, Chain
  <1>2. QED
    BY <1>1, ChainAsksKeeps, ChainDataKeeps, ChainCloseKeeps, ChainNothingKeeps

-----------------------------------------------------------------------------
(* SysTick.                                                                *)

\* A failure parsed during a read is that of the read: the thread has no command with
\* the module, and no socket is being closed.
LEMMA ReadErrorOwn ==
  ASSUME TypeOK, FlowInv, ItemInv, SocketInv, uart # <<>>, ParseReadError(Head(uart))
  PROVE  /\ Head(uart).kind = "ERROR" /\ Head(uart).by = "read"
         /\ reading' = "no" /\ stop' = FALSE
         /\ UNCHANGED <<answered, response, queue, swallow, closing, owed, query, startRead,
                        dataCb, dequeue, open>>
  <1>0. PICK e : e = Head(uart)
    OBVIOUS
  <1>1. /\ e \in Of(uart) /\ Class(e) \in Said /\ e.kind \in UartKinds(e.by)
        /\ e.kind \in {"ERROR", "HASDATA"} /\ reading # "no"
    BY <1>0, OldestMessage DEF ItemInv, ParseReadError
  <1>2. Reading
    <2>1. reading \in {"asked", "part"}
      BY <1>1 DEF TypeOK, DriverTypeOK
    <2>2. QED
      BY <2>1 DEF SocketInv, ReadFlags, ReadSteps, Reading
  <1>3. "thread" \notin Said /\ "close" \notin Said
    BY <1>2 DEF SocketInv, Held, ClosePhases
  <1>4. e.by # "thread" /\ e.by # "close"
    BY <1>1, <1>3 DEF Class, UartKinds
  <1>5. e.kind = "ERROR" /\ e.by = "read"
    BY <1>1, <1>4 DEF UartKinds, News, Indications
  <1>6. QED
    BY <1>0, <1>5 DEF ParseReadError, mailbox

\* What is known when SysTick parses a message.
LEMMA ParseBase ==
  ASSUME CallInv, Parse, UNCHANGED stationVars
  PROVE  /\ TypeOK /\ FlowInv /\ ItemInv /\ SocketInv /\ ThreadInv
         /\ uart # <<>> /\ uart' = Tail(uart) /\ dequeue
         /\ Head(uart) \in Items /\ Head(uart) \in Of(uart)
         /\ Head(uart).kind \in UartKinds(Head(uart).by) /\ Told(Head(uart))
         /\ Class(Head(uart)) \in Said \ (Queued \cup Sent)
         /\ \A c \in Said : <<c, Class(Head(uart))>> \notin Precedes
         /\ UNCHANGED <<answered, response, closeId, closeCmd, queryId, openId, wind, tim,
                        cmds, assoc, alive, unread>>
         /\ UNCHANGED <<wifi_state, pc, sock, isconnected, inbox, started>>
  <1>1. /\ TypeOK /\ FlowInv /\ ItemInv /\ SocketInv /\ ThreadInv
        /\ uart # <<>> /\ uart' = Tail(uart) /\ dequeue
        /\ UNCHANGED <<closeId, closeCmd, queryId, openId, wind, tim, cmds, assoc, alive,
                       unread>>
        /\ UNCHANGED <<wifi_state, pc, sock, isconnected, inbox, started>>
    BY DEF CallInv, IInv, Parse, ParserVars, stationVars
  <1>2. /\ Head(uart) \in Items /\ Head(uart) \in Of(uart)
        /\ Class(Head(uart)) \in Said \ (Queued \cup Sent)
        /\ \A c \in Said : <<c, Class(Head(uart))>> \notin Precedes
    BY <1>1, OldestMessage
  <1>3. UNCHANGED <<answered, response>>
    <2>1. UNCHANGED mailbox \/ ParseReadError(Head(uart))
      BY DEF Parse
    <2>2. QED
      BY <1>1, <2>1, ReadErrorOwn DEF mailbox
  <1>4. QED
    BY <1>1, <1>2, <1>3 DEF ItemInv

\* An answer for the thread, or news: an event.
LEMMA ParseEventFlow ==
  ASSUME CallInv, QueueMax >= 7, Parse, UNCHANGED stationVars,
         ParseEvent(Head(uart)) \/ ParseError(Head(uart)),
         NEW e, e = Head(uart)
  PROVE  /\ e.by \in {"thread", "module"}
         /\ e.kind \in QueueKinds(e.by) \ {"OPEN", "CONNECT", "PUBLISH"}
         /\ Class(e) \in Seven \ {"close"}
         /\ e.kind = "ERROR" => Class(e) = "thread"
         /\ FlowInv' /\ Queued' = Queued \cup {Class(e)} /\ Said' = Said \ {Class(e)}
         /\ Sent' = Sent
         /\ Of(queue') = Of(queue) \cup {e} /\ Of(uart') \subseteq Of(uart)
         /\ Of(cmds') = Of(cmds)
  <1>0. e = Head(uart)
    OBVIOUS
  <1>1. /\ TypeOK /\ FlowInv /\ ItemInv /\ SocketInv /\ ThreadInv
        /\ uart # <<>> /\ uart' = Tail(uart)
        /\ e \in Items /\ Told(e) /\ Class(e) \in Said \ (Queued \cup Sent)
    BY <1>0, ParseBase
  <1>2. Push(e)
    BY <1>0 DEF ParseEvent, ParseError
  \* Neither the OK of a read nor that of a closing gets here.
  <1>3. /\ e.by \in {"thread", "module"}
        /\ e.kind \in QueueKinds(e.by) \ {"OPEN", "CONNECT", "PUBLISH"}
        /\ Class(e) \in Seven \ {"close"}
        /\ e.kind = "ERROR" => Class(e) = "thread"
    <2>1. CASE e.by = "read"
      <3>1. ASSUME e.kind = "ERROR" PROVE FALSE
        <4>1. "read" \in Said
          BY <1>1, <2>1, <3>1 DEF Class
        <4>2. reading = "no"
          BY <1>0, <3>1 DEF ParseEvent, ParseError, Indications
        <4>3. QED
          BY <1>1, <4>1, <4>2 DEF SocketInv, ReadFlags
      <3>2. e.kind = "OK" /\ ~swallow
        BY <1>0, <2>1, <3>1, ParseBase DEF ParseEvent, ParseError, UartKinds, Indications
      <3>3. "OK" \in Said /\ "DATA" \notin Said
        BY <1>0, <1>1, <2>1, <3>2, ParseBase DEF Class, Precedes
      <3>4. QED
        BY <1>1, <3>2, <3>3 DEF SocketInv, ReadFlags
    <2>2. CASE e.by = "close"
      <3>1. e.kind = "OK" /\ ~swallow
        BY <1>0, <2>2, ParseBase DEF ParseEvent, ParseError, UartKinds, Indications
      <3>2. "close" \in Said
        BY <1>1, <2>2 DEF Class
      <3>3. QED
        BY <1>1, <3>1, <3>2 DEF SocketInv, ReadFlags, ClosePhases
    <2>3. CASE e.by = "thread"
      BY <1>0, <2>3, ParseBase DEF UartKinds, QueueKinds, Class, Seven
    <2>4. CASE e.by = "module"
      BY <1>0, <2>4, ParseBase DEF UartKinds, QueueKinds, News, Indications, Class, Seven
    <2>5. e.by \in {"thread", "read", "close", "module"}
      BY <1>0, ParseBase DEF UartKinds
    <2>6. QED
      BY <2>1, <2>2, <2>3, <2>4, <2>5
  <1>4. /\ FlowInv' /\ Queued' = Queued \cup {Class(e)} /\ Said' = Said \ {Class(e)}
        /\ Sent' = Sent
        /\ Of(queue') = Of(queue) \cup {e} /\ Of(uart') \subseteq Of(uart)
        /\ Of(cmds') = Of(cmds)
    BY <1>0, <1>1, <1>2, <1>3, ParseBase, ParsePushFlow
  <1>5. QED
    BY <1>3, <1>4

LEMMA ParseEventKeeps ==
  ASSUME CallInv, QueueMax >= 7, Parse, UNCHANGED stationVars,
         ParseEvent(Head(uart)) \/ ParseError(Head(uart))
  PROVE  FlowInv' /\ ItemInv' /\ SocketInv' /\ ThreadInv'
  <1>0. PICK e : e = Head(uart)
    OBVIOUS
  <1>1. /\ TypeOK /\ FlowInv /\ ItemInv /\ SocketInv /\ ThreadInv
        /\ uart # <<>> /\ uart' = Tail(uart)
        /\ e \in Items /\ Told(e) /\ Class(e) \in Said \ (Queued \cup Sent)
    BY <1>0, ParseBase
  <1>2. Push(e) /\ UNCHANGED <<swallow, closing, owed, query, startRead, reading, dataCb,
                               dequeue, open>>
    BY <1>0 DEF ParseEvent, ParseError
  <1>3. /\ e.by \in {"thread", "module"}
        /\ e.kind \in QueueKinds(e.by) \ {"OPEN", "CONNECT", "PUBLISH"}
        /\ Class(e) \in Seven \ {"close"}
        /\ e.kind = "ERROR" => Class(e) = "thread"
    BY <1>0, ParseEventFlow
  <1>4. stop' <=> stop
    <2>1. e.kind = "ERROR" => ~stop
      BY <1>1, <1>3 DEF SocketInv, Held
    <2>2. QED
      BY <1>0, <2>1 DEF ParseEvent, ParseError
  <1>5. /\ FlowInv' /\ Queued' = Queued \cup {Class(e)} /\ Said' = Said \ {Class(e)}
        /\ Sent' = Sent
        /\ Of(queue') = Of(queue) \cup {e} /\ Of(uart') \subseteq Of(uart)
        /\ Of(cmds') = Of(cmds)
    BY <1>0, ParseEventFlow
  <1>6. UnderWay' = UnderWay
    BY <1>1, <1>5 DEF UnderWay
  <1>7. ItemInv'
    <2>1. MeaningKept
      BY <1>2, ParseBase DEF MeaningKept
    <2>2. \A i \in Of(queue) \cup Of(uart) \cup Of(cmds) :
             /\ i \in Of(queue) \cup Of(uart) => Told(i)'
             /\ i \in Of(queue) \cup Of(cmds) => Asked(i)'
      BY <1>1, <2>1, SameMeaning
    <2>3. Told(e)'
      BY <1>0, <2>2, ParseBase
    <2>4. Asked(e)'
      BY <1>3 DEF Asked, QueueKinds, News, Indications
    <2>5. QED
      BY <1>1, <1>3, <1>5, <1>6, <2>2, <2>3, <2>4 DEF ItemInv
  <1>8. \A c \in {"query", "read", "close", "PART", "DATA", "OK"} : c \in Said' <=> c \in Said
    BY <1>3, <1>5 DEF Seven
  <1>9. Reading' <=> Reading
    BY <1>2, <1>5, <1>8 DEF Reading
  <1>10. SocketInv'
    <2>1. ReadSteps' /\ ReadFlags'
      BY <1>1, <1>2, <1>5, <1>8 DEF SocketInv, ReadSteps, ReadFlags
    <2>2. ReadSocket' /\ ClosePhases' /\ Held'
      BY <1>1, <1>2, <1>4, <1>5, <1>8, <1>9, ParseBase
         DEF SocketInv, ReadSocket, ClosePhases, Held
    <2>3. QED
      BY <2>1, <2>2 DEF SocketInv
  <1>11. ThreadInv'
    BY <1>1, <1>2, <1>5, <1>6, <1>9, ParseBase
       DEF ThreadInv, OneCall, Unread, Closes, Alone, Network, ThreadState, Mqtt
  <1>12. QED
    BY <1>5, <1>7, <1>10, <1>11

\* What is left when SysTick has taken a message and queued nothing.
LEMMA ParseTakes ==
  ASSUME CallInv, Parse, UNCHANGED stationVars, UNCHANGED queue
  PROVE  /\ FlowInv' /\ Queued' = Queued /\ Said' = Said \ {Class(Head(uart))}
         /\ Sent' = Sent
         /\ Of(queue') = Of(queue) /\ Of(uart') \subseteq Of(uart) /\ Of(cmds') = Of(cmds)
         /\ UnderWay' = UnderWay \ {Class(Head(uart))}
         /\ open' = open \/ "thread" \notin UnderWay => ItemInv'
  <1>1. /\ FlowInv' /\ Queued' = Queued /\ Said' = Said \ {Class(Head(uart))}
        /\ Sent' = Sent
        /\ Of(queue') = Of(queue) /\ Of(uart') \subseteq Of(uart) /\ Of(cmds') = Of(cmds)
    BY ParseBase, ParseFlow
  <1>2. UnderWay' = UnderWay \ {Class(Head(uart))}
    BY <1>1, ParseBase DEF UnderWay
  <1>3. ASSUME open' = open \/ "thread" \notin UnderWay
        PROVE  ItemInv'
    <2>1. MeaningKept
      BY <1>3, ParseBase DEF MeaningKept
    <2>2. QED
      BY <1>1, <1>2, <2>1, ParseBase, ItemsKept
  <1>4. QED
    BY <1>1, <1>2, <1>3

\* The OK of a closing, or that of a read, which nobody waits for.
LEMMA ParseSwallowedKeeps ==
  ASSUME CallInv, Parse, UNCHANGED stationVars, ParseSwallowed(Head(uart))
  PROVE  FlowInv' /\ ItemInv' /\ SocketInv' /\ ThreadInv'
  <1>0. PICK e : e = Head(uart)
    OBVIOUS
  <1>1. /\ TypeOK /\ FlowInv /\ ItemInv /\ SocketInv /\ ThreadInv /\ dequeue
        /\ e.kind = "OK" /\ swallow /\ swallow' = FALSE
        /\ e.kind \in UartKinds(e.by) /\ Told(e) /\ Class(e) \in Said \ (Queued \cup Sent)
        /\ UNCHANGED <<queue, owed, query, startRead, reading, dataCb, dequeue>>
    BY <1>0, ParseBase DEF ParseSwallowed
  <1>2. ~dataCb
    BY <1>1 DEF SocketInv, ReadFlags
  <1>3. stop /\ "thread" \notin Said
    <2>1. closing \/ "OK" \in Said
      BY <1>1 DEF SocketInv, ReadFlags
    <2>2. closing \/ Reading
      BY <2>1, <1>1 DEF SocketInv, ReadSteps, Reading
    <2>3. QED
      BY <1>1, <2>2 DEF SocketInv, Held
  <1>4. e.by \in {"read", "close"} /\ Class(e) = IF e.by = "read" THEN "OK" ELSE "close"
    <2>1. e.by \in {"read", "close", "thread"}
      BY <1>1 DEF UartKinds, News, Indications
    <2>2. e.by = "thread" => Class(e) = "thread"
      BY <1>1 DEF Class
    <2>3. QED
      BY <1>1, <1>3, <2>1, <2>2 DEF Class
  <1>5. CASE closing
    <2>1. /\ closing' = FALSE /\ stop' = FALSE /\ open' = open \ {closeId}
      BY <1>0, <1>5 DEF ParseSwallowed
    <2>2. ~Reading /\ "OK" \notin Said
      BY <1>1, <1>5 DEF SocketInv, ClosePhases, ReadSteps, Reading
    <2>3. Class(e) = "close" /\ closeId \notin alive
      BY <1>1, <1>4, <2>2 DEF Told
    <2>4. /\ "close" \in UnderWay /\ pc \in {"closed", "delay"} /\ "thread" \notin UnderWay
          /\ ~answered /\ "close" \notin Sent
      BY <1>1, <2>3 DEF UnderWay, ThreadInv, Closes, OneCall, Calls
    <2>5. /\ FlowInv' /\ Queued' = Queued /\ Said' = Said \ {"close"} /\ Sent' = Sent
          /\ UnderWay' = UnderWay \ {"close"} /\ ItemInv'
      BY <1>0, <1>1, <2>3, <2>4, ParseTakes
    <2>6. ~Reading'
      BY <1>1, <2>2, <2>5 DEF Reading
    <2>7. SocketInv'
      BY <1>1, <2>1, <2>2, <2>3, <2>4, <2>5, <2>6, ParseBase
         DEF SocketInv, ReadSteps, ReadFlags, ReadSocket, ClosePhases, Held
    <2>8. ThreadInv'
      BY <1>1, <2>1, <2>2, <2>3, <2>4, <2>5, <2>6, ParseBase
         DEF ThreadInv, OneCall, Unread, Closes, Alone, Network, ThreadState, Mqtt, Calls
    <2>9. QED
      BY <2>5, <2>7, <2>8
  <1>6. CASE ~closing
    <2>1. UNCHANGED <<closing, stop, open>>
      BY <1>0, <1>6 DEF ParseSwallowed
    <2>2. Class(e) = "OK" /\ "OK" \in Said /\ "DATA" \notin Said /\ "close" \notin Said
      BY <1>1, <1>4, <1>6 DEF SocketInv, ClosePhases, ReadFlags
    <2>3. /\ FlowInv' /\ Queued' = Queued /\ Said' = Said \ {"OK"} /\ Sent' = Sent
          /\ UnderWay' = UnderWay \ {"OK"} /\ ItemInv'
      BY <1>0, <1>1, <2>1, <2>2, ParseTakes
    <2>4. Reading' <=> Reading
      BY <1>1, <2>3 DEF Reading
    <2>5. SocketInv'
      BY <1>1, <1>2, <1>6, <2>1, <2>2, <2>3, <2>4, ParseBase
         DEF SocketInv, ReadSteps, ReadFlags, ReadSocket, ClosePhases, Held
    <2>6. ThreadInv'
      BY <1>1, <2>1, <2>2, <2>3, <2>4, ParseBase
         DEF ThreadInv, OneCall, Unread, Closes, Alone, Network, ThreadState, Mqtt, Calls
    <2>7. QED
      BY <2>3, <2>5, <2>6
  <1>7. QED
    BY <1>5, <1>6

\* The socket cannot be closed before its data is read.
LEMMA ParseHasDataKeeps ==
  ASSUME CallInv, Parse, UNCHANGED stationVars, ParseHasData(Head(uart))
  PROVE  FlowInv' /\ ItemInv' /\ SocketInv' /\ ThreadInv'
  <1>0. PICK e : e = Head(uart)
    OBVIOUS
  <1>1. /\ TypeOK /\ FlowInv /\ ItemInv /\ SocketInv /\ ThreadInv
        /\ e.kind = "HASDATA" /\ Class(e) = "close" /\ closeId \in unread
        /\ "close" \in Said \ (Queued \cup Sent)
        /\ UNCHANGED <<queue, query, startRead, reading, dataCb, dequeue, open>>
        /\ swallow' = FALSE /\ closing' = FALSE /\ stop' = FALSE
        /\ owed' = owed \cup {closeId}
    BY <1>0, ParseBase DEF ParseHasData, UartKinds, Class, Told, News, Indications
  <1>2. /\ "close" \in UnderWay /\ closing /\ ~Reading /\ "OK" \notin Said
        /\ pc = "closed" /\ owed = {} /\ closeId \in alive
    BY <1>1
       DEF UnderWay, SocketInv, ClosePhases, ReadSteps, Reading, ThreadInv, Closes, Unread
  <1>3. /\ FlowInv' /\ Queued' = Queued /\ Said' = Said \ {"close"} /\ Sent' = Sent
        /\ UnderWay' = UnderWay \ {"close"} /\ ItemInv'
    BY <1>0, <1>1, ParseTakes
  <1>4. ~Reading'
    BY <1>1, <1>2, <1>3 DEF Reading
  <1>5. SocketInv'
    <2>1. "read" \notin Said /\ "read" \notin Said'
      BY <1>2, <1>3 DEF Reading
    <2>2. ReadSteps' /\ ReadFlags'
      BY <1>1, <1>2, <1>3, <1>4, ParseBase DEF SocketInv, ReadSteps, ReadFlags, ClosePhases
    <2>3. ReadSocket' /\ ClosePhases' /\ Held'
      BY <1>1, <1>2, <1>3, <1>4, <2>1, ParseBase DEF SocketInv, ReadSocket, ClosePhases, Held
    <2>4. QED
      BY <2>2, <2>3 DEF SocketInv
  <1>6. ThreadInv'
    BY <1>1, <1>2, <1>3, <1>4, ParseBase
       DEF ThreadInv, OneCall, Unread, Closes, Alone, Network, ThreadState, Mqtt, Calls
  <1>7. QED
    BY <1>3, <1>5, <1>6

\* There is something to read.
LEMMA ParseLengthKeeps ==
  ASSUME CallInv, Parse, UNCHANGED stationVars, ParseLength(Head(uart))
  PROVE  FlowInv' /\ ItemInv' /\ SocketInv' /\ ThreadInv'
  <1>0. PICK e : e = Head(uart)
    OBVIOUS
  <1>1. /\ TypeOK /\ FlowInv /\ ItemInv /\ SocketInv /\ ThreadInv
        /\ e.kind = "LENGTH" /\ Class(e) = "query"
        /\ "query" \in Said \ (Queued \cup Sent) /\ "OK" \notin Said
        /\ UNCHANGED <<queue, stop, swallow, closing, owed, query, reading, dataCb, dequeue,
                       open>>
        /\ startRead' = TRUE /\ queryId \in unread
    BY <1>0, ParseBase DEF ParseLength, UartKinds, Class, Precedes, News, Indications, Told
  <1>2. /\ FlowInv' /\ Queued' = Queued /\ Said' = Said \ {"query"} /\ Sent' = Sent
        /\ UnderWay' = UnderWay \ {"query"} /\ ItemInv'
    BY <1>0, <1>1, ParseTakes
  <1>3. Reading /\ Reading'
    BY <1>1 DEF Reading
  <1>4. SocketInv'
    BY <1>1, <1>2, <1>3, ParseBase
       DEF SocketInv, ReadSteps, ReadFlags, ReadSocket, ClosePhases, Held
  <1>5. ThreadInv'
    <2>1. pc \notin {"scan", "config", "reset", "value"} /\ wifi_state # "ready"
      BY <1>1 DEF ThreadInv, Alone, UnderWay
    <2>2. QED
      BY <1>1, <1>2, <1>3, <2>1, ParseBase
         DEF ThreadInv, OneCall, Unread, Closes, Alone, Network, ThreadState, Mqtt, Calls
  <1>6. QED
    BY <1>2, <1>4, <1>5

\* All is read: what was put off is done now.
LEMMA ParseEmptyKeeps ==
  ASSUME CallInv, QueueMax >= 7, Parse, UNCHANGED stationVars, ParseEmpty(Head(uart))
  PROVE  FlowInv' /\ ItemInv' /\ SocketInv' /\ ThreadInv'
  <1>0. PICK e : e = Head(uart)
    OBVIOUS
  <1>1. /\ TypeOK /\ FlowInv /\ ItemInv /\ SocketInv /\ ThreadInv /\ dequeue
        /\ e.kind = "EMPTY" /\ Class(e) = "query" /\ queryId \notin unread
        /\ "query" \in Said \ (Queued \cup Sent) /\ "OK" \notin Said
        /\ UNCHANGED <<swallow, closing, query, startRead, reading, dataCb, dequeue, open>>
        /\ owed' = owed \ {queryId} /\ stop' = FALSE
    BY <1>0, ParseBase
       DEF ParseEmpty, UartKinds, Class, Precedes, News, Indications, Told
  <1>2. /\ Reading /\ queryId \in open \cap alive /\ unread = {}
        /\ "DATA" \notin Said /\ "PART" \notin Said /\ "read" \notin Said \cup Sent
        /\ ~query /\ ~startRead /\ ~closing /\ ~dataCb
        /\ "close" \notin Said \cup Sent
    BY <1>1 DEF SocketInv, ReadSteps, ReadFlags, ReadSocket, ClosePhases, Reading
  <1>3. /\ owed \subseteq {queryId} /\ owed' = {}
        /\ owed # {} => pc = "closed" /\ "close" \notin UnderWay
    BY <1>1, <1>2 DEF ThreadInv, Closes
  <1>4. pc \notin {"scan", "config", "reset", "value"} /\ wifi_state # "ready"
    BY <1>1 DEF ThreadInv, Alone, UnderWay
  <1>5. CASE queryId \in owed \cap open
    <2>1. PICK d : d = Item("CLOSE", queryId, "close")
      OBVIOUS
    <2>2. Push(d)
      BY <1>0, <1>5, <2>1 DEF ParseEmpty, QueueClose
    <2>3. /\ d \in Items /\ d.kind = "CLOSE" /\ d.sock = queryId /\ d.by = "close"
          /\ Class(d) = "close" /\ d.kind \in QueueKinds(d.by) /\ Class(d) \in Seven
      BY <1>1, <2>1 DEF Item, Items, Kinds, Askers, Class, QueueKinds, Seven, TypeOK,
                        DriverTypeOK
    <2>4. pc = "closed" /\ "close" \notin UnderWay
      BY <1>3, <1>5
    <2>5. /\ FlowInv' /\ Queued' = Queued \cup {"close"} /\ Said' = Said \ {"query"}
          /\ Sent' = Sent
          /\ Of(queue') = Of(queue) \cup {d} /\ Of(uart') \subseteq Of(uart)
          /\ Of(cmds') = Of(cmds)
      BY <1>0, <1>1, <2>2, <2>3, <2>4, ParseBase, ParsePushFlow
    <2>6. ItemInv'
      <3>1. \A i \in Of(queue) \cup Of(uart) \cup Of(cmds) :
               /\ i \in Of(queue) \cup Of(uart) => Told(i)'
               /\ i \in Of(queue) \cup Of(cmds) => Asked(i)'
        BY <1>1, ParseBase, SameMeaning DEF MeaningKept
      <3>2. Told(d)' /\ Asked(d)'
        BY <1>2, <2>3, ParseBase DEF Told, Asked
      <3>3. "PENDING" \in UnderWay' => "PENDING" \in UnderWay
        BY <2>5 DEF UnderWay
      <3>4. QED
        BY <1>1, <2>3, <2>5, <3>1, <3>2, <3>3 DEF ItemInv
    <2>7. ~Reading'
      BY <1>1, <1>2, <2>5 DEF Reading
    <2>8. SocketInv'
      BY <1>1, <1>2, <2>5, <2>7, ParseBase
         DEF SocketInv, ReadSteps, ReadFlags, ReadSocket, ClosePhases, Held
    <2>9. ThreadInv'
      BY <1>1, <1>2, <1>3, <1>4, <2>4, <2>5, <2>7, ParseBase
         DEF ThreadInv, OneCall, Unread, Closes, Alone, Network, ThreadState, Mqtt, Calls,
             UnderWay
    <2>10. QED
      BY <2>5, <2>6, <2>8, <2>9
  <1>6. CASE queryId \notin owed \cap open
    <2>1. UNCHANGED queue
      BY <1>0, <1>6 DEF ParseEmpty
    <2>2. /\ FlowInv' /\ Queued' = Queued /\ Said' = Said \ {"query"} /\ Sent' = Sent
          /\ UnderWay' = UnderWay \ {"query"} /\ ItemInv'
      BY <1>0, <1>1, <2>1, ParseTakes
    <2>3. ~Reading'
      BY <1>1, <1>2, <2>2 DEF Reading
    <2>4. SocketInv'
      BY <1>1, <1>2, <2>2, <2>3, ParseBase
         DEF SocketInv, ReadSteps, ReadFlags, ReadSocket, ClosePhases, Held
    <2>5. ThreadInv'
      BY <1>1, <1>2, <1>3, <1>4, <2>2, <2>3, ParseBase
         DEF ThreadInv, OneCall, Unread, Closes, Alone, Network, ThreadState, Mqtt, Calls
    <2>6. QED
      BY <2>2, <2>4, <2>5
  <1>7. QED
    BY <1>5, <1>6

\* The data of the socket.
LEMMA ParseDataKeeps ==
  ASSUME CallInv, Parse, UNCHANGED stationVars, ParseData(Head(uart))
  PROVE  FlowInv' /\ ItemInv' /\ SocketInv' /\ ThreadInv'
  <1>0. PICK e : e = Head(uart)
    OBVIOUS
  <1>1. /\ TypeOK /\ FlowInv /\ ItemInv /\ SocketInv /\ ThreadInv
        /\ e.kind \in {"PART", "DATA"} /\ Class(e) = e.kind /\ Class(e) \in Said
        /\ UNCHANGED <<queue, stop, closing, owed, startRead, open>>
        /\ dequeue
        /\ e.kind = "DATA" => "PART" \notin Said
    BY <1>0, ParseBase DEF ParseData, UartKinds, Class, Precedes, News, Indications
  <1>2. /\ "DATA" \in Said /\ "OK" \in Said /\ Reading /\ "read" \notin Said \cup Sent
        /\ "query" \notin Said \cup Sent /\ ~query /\ ~startRead /\ ~closing /\ stop /\ ~dataCb
    BY <1>1 DEF SocketInv, ReadSteps, ReadFlags, ClosePhases, Held, Reading
  <1>3. /\ FlowInv' /\ Queued' = Queued /\ Said' = Said \ {e.kind} /\ Sent' = Sent
        /\ UnderWay' = UnderWay \ {e.kind} /\ ItemInv'
    BY <1>0, <1>1, ParseTakes
  <1>4. CASE e.kind = "PART"
    <2>1. reading' = "part" /\ UNCHANGED <<query, swallow, dataCb, dequeue>>
      BY <1>0, <1>4 DEF ParseData
    <2>2. Reading'
      BY <1>2, <1>3, <1>4 DEF Reading
    <2>3. SocketInv'
      BY <1>1, <1>2, <1>3, <1>4, <2>1, <2>2, ParseBase
         DEF SocketInv, ReadSteps, ReadFlags, ReadSocket, ClosePhases, Held
    <2>4. ThreadInv'
      BY <1>1, <1>2, <1>3, <1>4, <2>1, <2>2, ParseBase
         DEF ThreadInv, OneCall, Unread, Closes, Alone, Network, ThreadState, Mqtt, Calls
    <2>5. QED
      BY <1>3, <2>3, <2>4
  <1>5. CASE e.kind = "DATA"
    <2>1. /\ reading' = "no" /\ query' = TRUE /\ swallow' = TRUE
          /\ dequeue' = FALSE /\ dataCb' = TRUE
      BY <1>0, <1>5 DEF ParseData
    <2>2. Reading'
      BY <2>1 DEF Reading
    <2>3. SocketInv'
      BY <1>1, <1>2, <1>3, <1>5, <2>1, <2>2, ParseBase
         DEF SocketInv, ReadSteps, ReadFlags, ReadSocket, ClosePhases, Held
    <2>4. ThreadInv'
      <3>1. pc \notin {"scan", "config", "reset", "value"} /\ wifi_state # "ready"
        BY <1>1, <1>2 DEF ThreadInv, Alone, UnderWay
      <3>2. QED
        BY <1>1, <1>2, <1>3, <1>5, <2>1, <2>2, <3>1, ParseBase
           DEF ThreadInv, OneCall, Unread, Closes, Alone, Network, ThreadState, Mqtt, Calls
    <2>5. QED
      BY <1>3, <2>3, <2>4
  <1>6. QED
    BY <1>1, <1>4, <1>5

\* The read failed: it is over, and nothing is left of it.
LEMMA ParseReadErrorKeeps ==
  ASSUME CallInv, Parse, UNCHANGED stationVars, ParseReadError(Head(uart))
  PROVE  FlowInv' /\ ItemInv' /\ SocketInv' /\ ThreadInv'
  <1>0. PICK e : e = Head(uart)
    OBVIOUS
  <1>1. /\ TypeOK /\ FlowInv /\ ItemInv /\ SocketInv /\ ThreadInv
        /\ e.kind = "ERROR" /\ e.by = "read"
        /\ reading' = "no" /\ stop' = FALSE
        /\ UNCHANGED <<queue, swallow, closing, owed, query, startRead, dataCb, dequeue, open>>
    BY <1>0, ParseBase, ReadErrorOwn
  <1>2. Class(e) = "read" /\ "read" \in Said
    BY <1>0, <1>1, ParseBase DEF Class
  <1>3. /\ Reading /\ queryId \notin unread /\ unread = {} /\ owed = {}
        /\ "DATA" \notin Said /\ "OK" \notin Said /\ "PART" \notin Said
        /\ "query" \notin Said \cup Sent /\ "read" \notin Sent
        /\ ~query /\ ~startRead /\ ~closing /\ ~dataCb
        /\ "thread" \notin Said \cup Sent
    <2>1. Reading /\ "read" \notin Sent
      BY <1>1, <1>2 DEF Reading, FlowInv
    <2>2. queryId \notin unread /\ unread = {} /\ owed = {}
      BY <1>1, <1>2, <2>1 DEF SocketInv, ReadSocket
    <2>3. /\ "DATA" \notin Said /\ "OK" \notin Said /\ "PART" \notin Said
          /\ "query" \notin Said \cup Sent /\ ~query /\ ~startRead /\ ~dataCb
      BY <1>1, <1>2 DEF SocketInv, ReadSteps, ReadFlags
    <2>4. ~closing /\ "thread" \notin Said \cup Sent
      BY <1>1, <2>1 DEF SocketInv, ClosePhases, Held
    <2>5. QED
      BY <2>1, <2>2, <2>3, <2>4
  <1>4. /\ FlowInv' /\ Queued' = Queued /\ Said' = Said \ {"read"} /\ Sent' = Sent
        /\ UnderWay' = UnderWay \ {"read"} /\ ItemInv'
    BY <1>0, <1>1, <1>2, ParseTakes
  <1>5. ~Reading'
    BY <1>1, <1>3, <1>4 DEF Reading
  <1>6. SocketInv'
    BY <1>1, <1>3, <1>4, <1>5, ParseBase
       DEF SocketInv, ReadSteps, ReadFlags, ReadSocket, ClosePhases, Held
  <1>7. ThreadInv'
    <2>1. pc \notin {"scan", "config", "reset", "value"} /\ wifi_state # "ready"
      BY <1>1, <1>2 DEF ThreadInv, Alone, UnderWay
    <2>2. QED
      BY <1>1, <1>2, <1>3, <1>4, <1>5, <2>1, ParseBase
         DEF ThreadInv, OneCall, Unread, Closes, Alone, Network, ThreadState, Mqtt, Calls
  <1>8. QED
    BY <1>4, <1>6, <1>7

LEMMA ParseKeeps ==
  ASSUME CallInv, QueueMax >= 7, Parse, UNCHANGED stationVars
  PROVE  FlowInv' /\ ItemInv' /\ SocketInv' /\ ThreadInv'
  <1>1. \/ ParseEvent(Head(uart)) \/ ParseError(Head(uart)) \/ ParseSwallowed(Head(uart))
        \/ ParseHasData(Head(uart)) \/ ParseLength(Head(uart)) \/ ParseEmpty(Head(uart))
        \/ ParseData(Head(uart)) \/ ParseReadError(Head(uart))
    BY DEF Parse
  <1>2. QED
    BY <1>1, ParseEventKeeps, ParseSwallowedKeeps, ParseHasDataKeeps, ParseLengthKeeps,
       ParseEmptyKeeps, ParseDataKeeps, ParseReadErrorKeeps

-----------------------------------------------------------------------------
(* The module and the server.                                              *)

\* One message more on the line.
LEMMA SaysMore ==
  ASSUME NEW q \in Seq(Items), Once(q), InOrder(q), DataFollows(q),
         NEW e \in Items, Class(e) \notin Classes(q),
         \A c \in Classes(q) : <<Class(e), c>> \notin Precedes,
         \/ Class(e) # "DATA"
         \/ q # <<>> /\ Class(q[Len(q)]) = "PART",
         NEW r, r = Append(q, e)
  PROVE  /\ r \in Seq(Items) /\ Once(r) /\ InOrder(r) /\ DataFollows(r)
         /\ Of(r) = Of(q) \cup {e} /\ Classes(r) = Classes(q) \cup {Class(e)}
         /\ r # <<>> /\ r[Len(r)] = e
  <1>1. r \in Seq(Items) /\ Of(r) = Of(q) \cup {e} /\ Classes(r) = Classes(q) \cup {Class(e)}
    BY AppendClasses
  <1>2. Once(r) /\ InOrder(r) /\ DataFollows(r)
    BY AppendOnce, AppendInOrder, AppendDataFollows
  <1>3. r # <<>> /\ r[Len(r)] = e
    BY AppendProperties, LenProperties
  <1>4. QED
    BY <1>1, <1>2, <1>3

\* The module takes its oldest command and says something.
LEMMA AnswersFlow ==
  ASSUME TypeOK, FlowInv, ItemInv, cmds # <<>>, cmds' = Tail(cmds), UNCHANGED queue,
         Once(uart'), InOrder(uart'), DataFollows(uart'),
         NEW C, Said' = Said \cup C, C \cap Queued = {},
         C \cap Sent \subseteq {Class(Head(cmds))},
         \A c \in C, d \in Queued : <<c, d>> \notin Precedes
  PROVE  /\ FlowInv' /\ Queued' = Queued /\ Sent' = Sent \ {Class(Head(cmds))}
         /\ Of(queue') = Of(queue) /\ Of(cmds') \subseteq Of(cmds)
  <1>1. InOrder(cmds)
    <2>1. \A c, d \in Sent : <<c, d>> \notin Precedes
      BY ItemClasses DEF Precedes
    <2>2. QED
      BY <2>1 DEF InOrder, Sent, Classes, Of
  <1>2. /\ Sent' = Sent \ {Class(Head(cmds))} /\ Of(cmds') \subseteq Of(cmds)
        /\ Once(cmds')
    BY <1>1, Sequences, TailClasses DEF FlowInv, Sent
  <1>3. Queued' = Queued /\ Of(queue') = Of(queue) /\ Once(queue') /\ InOrder(queue')
    BY DEF Queued, FlowInv
  <1>4. Said' \cap Sent' = {}
    BY <1>2 DEF FlowInv
  <1>5. /\ Queued' \cap Said' = {} /\ Queued' \cap Sent' = {}
        /\ \A c \in Said', d \in Queued' : <<c, d>> \notin Precedes
    BY <1>2, <1>3 DEF FlowInv
  <1>6. QED
    BY <1>2, <1>3, <1>4, <1>5 DEF FlowInv

\* It says one thing: of the class of its command.
LEMMA AnswersOne ==
  ASSUME TypeOK, FlowInv, ItemInv, cmds # <<>>, NEW a \in Items, Done(<<a>>),
         Class(a) = Class(Head(cmds)), Class(a) # "DATA",
         \A d \in Queued \cup Said : <<Class(a), d>> \notin Precedes
  PROVE  /\ FlowInv' /\ Queued' = Queued /\ Said' = Said \cup {Class(a)}
         /\ Sent' = Sent \ {Class(a)} /\ Class(a) \in Sent \ (Queued \cup Said)
         /\ Of(queue') = Of(queue) /\ Of(uart') = Of(uart) \cup {a}
         /\ Of(cmds') \subseteq Of(cmds)
  <1>1. cmds' = Tail(cmds) /\ UNCHANGED queue
    BY DEF Done
  <1>2. uart' = Append(uart, a)
    BY Sequences, AppendIsConcat DEF Done
  <1>3. Class(a) \in Sent /\ Class(a) \notin Queued \cup Said
    <2>1. Head(cmds) \in Of(cmds)
      <3>1. Len(cmds) \in Nat /\ Len(cmds) >= 1 /\ DOMAIN cmds = 1..Len(cmds) /\ Head(cmds) = cmds[1]
        BY Sequences, EmptySeq, LenProperties, HeadTailProperties
      <3>2. QED
        BY <3>1 DEF Of
    <2>2. QED
      BY <2>1 DEF Sent, Classes, FlowInv
  <1>4. /\ Once(uart') /\ InOrder(uart') /\ DataFollows(uart')
        /\ Of(uart') = Of(uart) \cup {a} /\ Said' = Said \cup {Class(a)}
    BY <1>2, <1>3, Sequences, SaysMore DEF FlowInv, Said
  <1>5. PICK C : C = {Class(a)}
    OBVIOUS
  <1>6. /\ Said' = Said \cup C /\ C \cap Queued = {} /\ C \cap Sent \subseteq {Class(Head(cmds))}
        /\ \A c \in C, d \in Queued : <<c, d>> \notin Precedes
    BY <1>3, <1>4, <1>5
  <1>7. QED
    BY <1>1, <1>3, <1>4, <1>6, AnswersFlow

\* What is known of the oldest command.
LEMMA OldestCommand ==
  ASSUME TypeOK, FlowInv, ItemInv, cmds # <<>>
  PROVE  /\ Head(cmds) \in Items /\ Head(cmds) \in Of(cmds)
         /\ Head(cmds).kind \in CmdKinds(Head(cmds).by) /\ Asked(Head(cmds))
         /\ Class(Head(cmds)) \in Sent \ (Queued \cup Said)
  <1>1. Head(cmds) \in Of(cmds)
    <2>1. /\ Len(cmds) \in Nat /\ Len(cmds) >= 1 /\ DOMAIN cmds = 1..Len(cmds)
          /\ Head(cmds) = cmds[1]
      BY Sequences, EmptySeq, LenProperties, HeadTailProperties
    <2>2. QED
      BY <2>1 DEF Of
  <1>2. QED
    BY <1>1, Sequences DEF Sent, Classes, FlowInv, ItemInv

\* Data was written, and the server answers it at once.
LEMMA AnswersTwo ==
  ASSUME TypeOK, FlowInv, ItemInv, cmds # <<>>, NEW a \in Items, NEW b \in Items,
         Done(<<a, b>>), Class(Head(cmds)) = "thread", Class(a) = "thread",
         Class(b) = "PENDING", "PENDING" \notin UnderWay
  PROVE  /\ FlowInv' /\ Queued' = Queued /\ Said' = Said \cup {"thread", "PENDING"}
         /\ Sent' = Sent \ {"thread"}
         /\ Of(queue') = Of(queue) /\ Of(uart') = Of(uart) \cup {a, b}
         /\ Of(cmds') \subseteq Of(cmds)
  <1>1. cmds' = Tail(cmds) /\ UNCHANGED queue
    BY DEF Done
  <1>2. PICK q : q = Append(uart, a)
    OBVIOUS
  <1>3. q \in Seq(Items) /\ uart' = Append(q, b)
    BY <1>2, Sequences, AppendIsConcat, AppendProperties DEF Done
  <1>4. "thread" \in Sent /\ "thread" \notin Queued \cup Said
    BY OldestCommand
  <1>5. \A d \in Queued \cup Said \cup {"thread"} : <<"thread", d>> \notin Precedes
                                              /\ <<"PENDING", d>> \notin Precedes
    BY <1>4 DEF Precedes, UnderWay
  <1>6. /\ Once(q) /\ InOrder(q) /\ DataFollows(q)
        /\ Of(q) = Of(uart) \cup {a} /\ Classes(q) = Said \cup {"thread"}
    <2>1. /\ uart \in Seq(Items) /\ Once(uart) /\ InOrder(uart) /\ DataFollows(uart)
          /\ Said = Classes(uart)
      BY Sequences DEF FlowInv, Said
    <2>2. Class(a) \notin Classes(uart) /\ Class(a) # "DATA"
      BY <1>4, <2>1
    <2>3. \A c \in Classes(uart) : <<Class(a), c>> \notin Precedes
      BY <1>5, <2>1
    <2>4. \/ Class(a) # "DATA"
          \/ uart # <<>> /\ Class(uart[Len(uart)]) = "PART"
      BY <2>2
    <2>5. /\ Once(q) /\ InOrder(q) /\ DataFollows(q)
          /\ q # <<>> /\ q[Len(q)] = a
          /\ Of(q) = Of(uart) \cup {a} /\ Classes(q) = Classes(uart) \cup {Class(a)}
      BY <1>2, <2>1, <2>2, <2>3, <2>4, SaysMore
    <2>6. QED
      BY <2>1, <2>5
  <1>7. /\ Once(uart') /\ InOrder(uart') /\ DataFollows(uart')
        /\ Of(uart') = Of(q) \cup {b} /\ Said' = Classes(q) \cup {"PENDING"}
    <2>1. Class(b) \notin Classes(q) /\ Class(b) # "DATA"
      BY <1>6 DEF UnderWay
    <2>2. \A c \in Classes(q) : <<Class(b), c>> \notin Precedes
      BY <1>5, <1>6
    <2>3. \/ Class(b) # "DATA"
          \/ q # <<>> /\ Class(q[Len(q)]) = "PART"
      BY <2>1
    <2>4. q \in Seq(Items) /\ Once(q) /\ InOrder(q) /\ DataFollows(q)
      BY <1>3, <1>6
    <2>5. /\ Once(uart') /\ InOrder(uart') /\ DataFollows(uart')
          /\ Of(uart') = Of(q) \cup {b} /\ Classes(uart') = Classes(q) \cup {Class(b)}
      BY <1>3, <2>1, <2>2, <2>3, <2>4, SaysMore
    <2>6. QED
      BY <2>5 DEF Said
  <1>8. PICK C : C = {"thread", "PENDING"}
    OBVIOUS
  <1>9. /\ Said' = Said \cup C /\ C \cap Queued = {} /\ C \cap Sent \subseteq {Class(Head(cmds))}
        /\ \A c \in C, d \in Queued : <<c, d>> \notin Precedes
    BY <1>4, <1>5, <1>6, <1>7, <1>8 DEF UnderWay
  <1>10. QED
    BY <1>1, <1>6, <1>7, <1>8, <1>9, AnswersFlow

\* What was read of a socket.
LEMMA AnswersThree ==
  ASSUME TypeOK, FlowInv, ItemInv, cmds # <<>>,
         NEW a \in Items, NEW b \in Items, NEW f \in Items, Done(<<a, b, f>>),
         Class(Head(cmds)) = "read", Class(a) = "PART", Class(b) = "DATA", Class(f) = "OK",
         \A c \in {"PART", "DATA", "OK", "query"} : c \notin UnderWay
  PROVE  /\ FlowInv' /\ Queued' = Queued /\ Said' = Said \cup {"PART", "DATA", "OK"}
         /\ Sent' = Sent \ {"read"}
         /\ Of(queue') = Of(queue) /\ Of(uart') = Of(uart) \cup {a, b, f}
         /\ Of(cmds') \subseteq Of(cmds)
  <1>1. cmds' = Tail(cmds) /\ UNCHANGED queue
    BY DEF Done
  <1>2. PICK p : p = Append(uart, a)
    OBVIOUS
  <1>3. PICK q : q = Append(p, b)
    OBVIOUS
  <1>4. p \in Seq(Items) /\ q \in Seq(Items) /\ uart' = Append(q, f)
    <2>1. p \in Seq(Items) /\ q \in Seq(Items)
      BY <1>2, <1>3, Sequences, AppendProperties
    <2>2. uart \in Seq(Items) /\ uart' = uart \o <<a, b, f>>
      BY Sequences DEF Done
    <2>3. QED
      BY <1>2, <1>3, <2>1, <2>2
  <1>5. \A d \in Queued \cup Said : \A c \in {"PART", "DATA", "OK"} : <<c, d>> \notin Precedes
    BY DEF Precedes, UnderWay
  <1>6. /\ Once(p) /\ InOrder(p) /\ DataFollows(p) /\ p # <<>> /\ p[Len(p)] = a
        /\ Of(p) = Of(uart) \cup {a} /\ Classes(p) = Said \cup {"PART"}
    <2>1. /\ uart \in Seq(Items) /\ Once(uart) /\ InOrder(uart) /\ DataFollows(uart)
          /\ Said = Classes(uart)
      BY Sequences DEF FlowInv, Said
    <2>2. Class(a) \notin Classes(uart) /\ Class(a) # "DATA"
      BY <2>1 DEF UnderWay
    <2>3. \A c \in Classes(uart) : <<Class(a), c>> \notin Precedes
      BY <1>5, <2>1
    <2>4. \/ Class(a) # "DATA"
          \/ uart # <<>> /\ Class(uart[Len(uart)]) = "PART"
      BY <2>2
    <2>5. /\ Once(p) /\ InOrder(p) /\ DataFollows(p)
          /\ p # <<>> /\ p[Len(p)] = a
          /\ Of(p) = Of(uart) \cup {a} /\ Classes(p) = Classes(uart) \cup {Class(a)}
      BY <1>2, <2>1, <2>2, <2>3, <2>4, SaysMore
    <2>6. QED
      BY <2>1, <2>5
  <1>7. /\ Once(q) /\ InOrder(q) /\ DataFollows(q)
        /\ Of(q) = Of(p) \cup {b} /\ Classes(q) = Said \cup {"PART", "DATA"}
    <2>1. Class(b) \notin Classes(p)
      BY <1>6 DEF UnderWay
    <2>2. \A c \in Classes(p) : <<Class(b), c>> \notin Precedes
      <3>1. <<"DATA", "PART">> \notin Precedes
        BY DEF Precedes
      <3>2. QED
        BY <1>5, <1>6, <3>1
    <2>3. \/ Class(b) # "DATA"
          \/ p # <<>> /\ Class(p[Len(p)]) = "PART"
      BY <1>6
    <2>4. p \in Seq(Items) /\ Once(p) /\ InOrder(p) /\ DataFollows(p)
      BY <1>4, <1>6
    <2>5. /\ Once(q) /\ InOrder(q) /\ DataFollows(q)
          /\ Of(q) = Of(p) \cup {b} /\ Classes(q) = Classes(p) \cup {Class(b)}
      BY <1>3, <2>1, <2>2, <2>3, <2>4, SaysMore
    <2>6. QED
      BY <1>6, <2>5
  <1>8. /\ Once(uart') /\ InOrder(uart') /\ DataFollows(uart')
        /\ Of(uart') = Of(q) \cup {f} /\ Said' = Said \cup {"PART", "DATA", "OK"}
    <2>1. Class(f) \notin Classes(q) /\ Class(f) # "DATA"
      BY <1>7 DEF UnderWay
    <2>2. \A c \in Classes(q) : <<Class(f), c>> \notin Precedes
      <3>1. <<"OK", "PART">> \notin Precedes /\ <<"OK", "DATA">> \notin Precedes
        BY DEF Precedes
      <3>2. QED
        BY <1>5, <1>7, <3>1
    <2>3. \/ Class(f) # "DATA"
          \/ q # <<>> /\ Class(q[Len(q)]) = "PART"
      BY <2>1
    <2>4. /\ Once(uart') /\ InOrder(uart') /\ DataFollows(uart')
          /\ Of(uart') = Of(q) \cup {f} /\ Classes(uart') = Classes(q) \cup {Class(f)}
      BY <1>4, <1>7, <2>1, <2>2, <2>3, SaysMore
    <2>5. QED
      BY <1>7, <2>4 DEF Said
  <1>9. PICK C : C = {"PART", "DATA", "OK"}
    OBVIOUS
  <1>10. /\ Said' = Said \cup C /\ C \cap Queued = {} /\ C \cap Sent \subseteq {Class(Head(cmds))}
         /\ \A c \in C, d \in Queued : <<c, d>> \notin Precedes
    BY <1>5, <1>8, <1>9 DEF UnderWay
  <1>11. QED
    BY <1>1, <1>6, <1>7, <1>8, <1>10, AnswersFlow, OldestCommand

\* The module says something: the items stay what they mean.
LEMMA SaysItems ==
  ASSUME ItemInv, MeaningKept, Of(queue') = Of(queue), Of(cmds') \subseteq Of(cmds),
         NEW S, Of(uart') = Of(uart) \cup S,
         \A e \in S : e.kind \in UartKinds(e.by) /\ Told(e)',
         \/ "PENDING" \in UnderWay' => "PENDING" \in UnderWay
         \/ "thread" \notin Queued
  PROVE  ItemInv'
  <1>1. \A e \in Of(queue) \cup Of(uart) \cup Of(cmds) :
          /\ e \in Of(queue) \cup Of(uart) => Told(e)'
          /\ e \in Of(queue) \cup Of(cmds) => Asked(e)'
    BY SameMeaning
  <1>2. ASSUME "thread" \notin Queued, NEW e \in Of(queue), e.kind = "CONNECT" PROVE FALSE
    BY <1>2 DEF ItemInv, Queued, Classes, Class, QueueKinds, News, Indications
  <1>3. QED
    BY <1>1, <1>2 DEF ItemInv

\* What the module finds when it takes a command, and what it leaves alone.
LEMMA ActsBase ==
  ASSUME CallInv, ModuleActs, UNCHANGED stationVars
  PROVE  /\ TypeOK /\ FlowInv /\ ItemInv /\ SocketInv /\ ThreadInv
         /\ cmds # <<>> /\ tim = "idle" /\ wind = None
         /\ Head(cmds) \in Items /\ Head(cmds).kind \in CmdKinds(Head(cmds).by)
         /\ Asked(Head(cmds)) /\ Class(Head(cmds)) \in Sent \ (Queued \cup Said)
         /\ UNCHANGED <<queue, answered, response, stop, swallow, closing, closeId, closeCmd,
                        owed, query, queryId, startRead, reading, dataCb, dequeue, open,
                        openId, wind, tim>>
         /\ UNCHANGED <<wifi_state, pc, sock, isconnected, inbox, started>>
  <1>1. /\ TypeOK /\ FlowInv /\ ItemInv /\ SocketInv /\ ThreadInv
        /\ cmds # <<>> /\ tim = "idle"
        /\ UNCHANGED <<wifi_state, pc, sock, isconnected, inbox, started>>
    BY DEF CallInv, IInv, ModuleActs, stationVars
  <1>2. UNCHANGED ModuleKept
    BY Parts, ModuleActsTypes DEF CallInv
  <1>3. wind = None
    BY <1>1 DEF ThreadInv, Network
  <1>4. UNCHANGED <<queue, answered, response, stop, swallow, closing, closeId, closeCmd,
                    owed, query, queryId, startRead, reading, dataCb, dequeue, open, openId,
                    wind, tim>>
    BY <1>2 DEF ModuleKept, mailbox, closeVars, readVars, openVars
  <1>5. QED
    BY <1>1, <1>3, <1>4, OldestCommand

\* While a command of the thread is with the module, no socket is read or closed.
LEMMA ThreadCommand ==
  ASSUME TypeOK, SocketInv, ThreadInv, "thread" \in Sent
  PROVE  /\ ~stop /\ ~Reading /\ ~closing /\ "close" \notin Said
         /\ "query" \notin Said /\ "PENDING" \notin UnderWay /\ unread = {}
         /\ pc \in Calls /\ ~answered
  <1>1. ~stop
    BY DEF SocketInv, Held
  <1>2. /\ ~Reading /\ ~closing /\ "close" \notin Said /\ "query" \notin Said
    BY <1>1, NotHeld
  <1>3. "PENDING" \notin UnderWay /\ unread = {} /\ pc \in Calls /\ ~answered
    BY <1>2 DEF ThreadInv, Unread, OneCall, UnderWay
  <1>4. QED
    BY <1>1, <1>2, <1>3

\* It answers a command of the thread with one message, and keeps its sockets or opens one.
LEMMA AnswersThread ==
  ASSUME CallInv, ModuleActs, UNCHANGED stationVars, "thread" = Class(Head(cmds)),
         NEW a \in Items, Done(<<a>>), a.by = "thread",
         a.kind \in {"ID", "VALUE", "OK", "ERROR"},
         a.kind = "ID" => a.sock \in alive',
         a.kind \in {"OK", "VALUE"} => pc # "open",
         alive \subseteq alive', UNCHANGED <<assoc, unread>>
  PROVE  FlowInv' /\ ItemInv' /\ SocketInv' /\ ThreadInv'
  <1>1. /\ TypeOK /\ FlowInv /\ ItemInv /\ SocketInv /\ ThreadInv /\ cmds # <<>>
        /\ UNCHANGED <<queue, answered, response, stop, swallow, closing, closeId, closeCmd,
                       owed, query, queryId, startRead, reading, dataCb, dequeue, open,
                       openId, wind, tim>>
        /\ UNCHANGED <<wifi_state, pc, sock, isconnected, inbox, started>>
        /\ "thread" \in Sent \ (Queued \cup Said)
    BY ActsBase
  <1>2. /\ ~stop /\ ~Reading /\ ~closing /\ "close" \notin Said
        /\ "query" \notin Said /\ "PENDING" \notin UnderWay /\ unread = {}
        /\ pc \in Calls /\ ~answered
    BY <1>1, ThreadCommand
  <1>3. Class(a) = "thread" /\ a.kind \in UartKinds(a.by) /\ Told(a)'
    BY <1>1 DEF Class, UartKinds, Told
  <1>4. \A d \in Queued \cup Said : <<Class(a), d>> \notin Precedes
    BY <1>2, <1>3 DEF Precedes, UnderWay
  <1>5. /\ FlowInv' /\ Queued' = Queued /\ Said' = Said \cup {"thread"}
        /\ Sent' = Sent \ {"thread"} /\ Of(queue') = Of(queue)
        /\ Of(uart') = Of(uart) \cup {a} /\ Of(cmds') \subseteq Of(cmds)
    BY <1>1, <1>3, <1>4, AnswersOne
  <1>6. UnderWay' = UnderWay
    BY <1>1, <1>5 DEF UnderWay
  <1>7. MeaningKept
    BY <1>1, <1>2 DEF MeaningKept
  <1>8. ItemInv'
    <2>1. PICK S : S = {a}
      OBVIOUS
    <2>2. \A e \in S : e.kind \in UartKinds(e.by) /\ Told(e)'
      BY <1>3, <2>1
    <2>3. QED
      BY <1>1, <1>5, <1>6, <1>7, <2>1, <2>2, SaysItems
  <1>9. Reading' <=> Reading
    BY <1>1, <1>5 DEF Reading
  <1>10. SocketInv'
    BY <1>1, <1>2, <1>5, <1>9
       DEF SocketInv, ReadSteps, ReadFlags, ReadSocket, ClosePhases, Held
  <1>11. ThreadInv'
    BY <1>1, <1>2, <1>5, <1>6, <1>9
       DEF ThreadInv, OneCall, Unread, Closes, Alone, Network, ThreadState, Mqtt, Calls
  <1>12. QED
    BY <1>5, <1>8, <1>10, <1>11

\* An answer with no socket in it.
LEMMA AnswerItem ==
  ASSUME NEW kind \in Kinds, NEW by \in Askers
  PROVE  /\ Item(kind, None, by) \in Items
         /\ Item(kind, None, by).kind = kind /\ Item(kind, None, by).by = by
  BY DEF Item, Items

LEMMA OpensKeeps ==
  ASSUME CallInv, ModuleActs, UNCHANGED stationVars, ModuleOpens(Head(cmds))
  PROVE  FlowInv' /\ ItemInv' /\ SocketInv' /\ ThreadInv'
  <1>0. PICK c : c = Head(cmds)
    OBVIOUS
  <1>1. /\ c.kind = "open" /\ c.by = "thread" /\ Class(Head(cmds)) = "thread"
        /\ UNCHANGED <<assoc, unread>>
    BY <1>0, ActsBase DEF ModuleOpens, CmdKinds, Class
  <1>2. CASE \E s \in Sockets \ alive : alive' = alive \cup {s} /\ Done(<<Item("ID", s, c.by)>>)
    <2>1. PICK s \in Sockets \ alive : alive' = alive \cup {s} /\ Done(<<Item("ID", s, c.by)>>)
      BY <1>2
    <2>2. PICK a : a = Item("ID", s, c.by)
      OBVIOUS
    <2>3. a \in Items /\ a.kind = "ID" /\ a.by = "thread" /\ a.sock \in alive'
      BY <1>1, <2>1, <2>2 DEF Item, Items, Kinds, Askers
    <2>4. Done(<<a>>) /\ alive \subseteq alive'
      BY <2>1, <2>2
    <2>5. QED
      BY <1>1, <2>3, <2>4, AnswersThread
  <1>3. CASE Done(<<Item("ERROR", None, c.by)>>) /\ UNCHANGED alive
    <2>1. PICK a : a = Item("ERROR", None, c.by)
      OBVIOUS
    <2>2. a \in Items /\ a.kind = "ERROR" /\ a.by = "thread"
      BY <1>1, <2>1, AnswerItem DEF Kinds, Askers
    <2>3. Done(<<a>>) /\ alive \subseteq alive'
      BY <1>3, <2>1
    <2>4. QED
      BY <1>1, <2>2, <2>3, AnswersThread
  <1>4. QED
    BY <1>0, <1>2, <1>3 DEF ModuleOpens

LEMMA ConfiguresKeeps ==
  ASSUME CallInv, ModuleActs, UNCHANGED stationVars, ModuleConfigures(Head(cmds))
  PROVE  FlowInv' /\ ItemInv' /\ SocketInv' /\ ThreadInv'
  <1>0. PICK c : c = Head(cmds)
    OBVIOUS
  <1>1. /\ c.kind \in {"config", "scan", "value"} /\ c.by = "thread"
        /\ Class(Head(cmds)) = "thread" /\ pc # "open"
        /\ UNCHANGED <<assoc, alive, unread>>
    BY <1>0, ActsBase DEF ModuleConfigures, CmdKinds, Class, Asked
  <1>2. PICK kind \in {"VALUE", "OK", "ERROR"} : Done(<<Item(kind, None, c.by)>>)
    <2>1. \/ Done(<<Item(IF c.kind = "value" THEN "VALUE" ELSE "OK", None, c.by)>>)
          \/ Done(<<Item("ERROR", None, c.by)>>)
      BY <1>0 DEF ModuleConfigures
    <2>2. CASE c.kind = "value"
      BY <2>1, <2>2
    <2>3. CASE c.kind # "value"
      BY <2>1, <2>3
    <2>4. QED
      BY <2>2, <2>3
  <1>3. PICK a : a = Item(kind, None, c.by)
    OBVIOUS
  <1>4. a \in Items /\ a.kind = kind /\ a.by = "thread"
    BY <1>1, <1>3, AnswerItem DEF Kinds, Askers
  <1>5. Done(<<a>>)
    BY <1>2, <1>3
  <1>6. QED
    BY <1>1, <1>4, <1>5, AnswersThread

\* What is written is answered by OK or ERROR; a CONNECT by the server too.
LEMMA WritesKeeps ==
  ASSUME CallInv, ModuleActs, UNCHANGED stationVars, ModuleWrites(Head(cmds))
  PROVE  FlowInv' /\ ItemInv' /\ SocketInv' /\ ThreadInv'
  <1>0. PICK c : c = Head(cmds)
    OBVIOUS
  <1>1. /\ c.kind \in {"connect", "publish"} /\ c.by = "thread" /\ c \in Items
        /\ Class(Head(cmds)) = "thread" /\ pc # "open"
        /\ c.kind = "connect" => pc = "connect" /\ c.sock \in open
        /\ UNCHANGED <<assoc, alive>>
    BY <1>0, ActsBase DEF ModuleWrites, CmdKinds, Class, Asked
  <1>2. CASE \E kind \in {"OK", "ERROR"} : Done(<<Item(kind, None, c.by)>>) /\ UNCHANGED unread
    <2>1. PICK kind \in {"OK", "ERROR"} : Done(<<Item(kind, None, c.by)>>) /\ UNCHANGED unread
      BY <1>2
    <2>2. PICK a : a = Item(kind, None, c.by)
      OBVIOUS
    <2>3. a \in Items /\ a.kind = kind /\ a.by = "thread"
      BY <1>1, <2>2, AnswerItem DEF Kinds, Askers
    <2>4. Done(<<a>>)
      BY <2>1, <2>2
    <2>5. QED
      BY <1>1, <2>1, <2>3, <2>4, AnswersThread
  <1>3. CASE /\ c.kind = "connect" /\ c.sock \in alive \ shut
             /\ unread' = unread \cup {c.sock}
             /\ Done(<<Item("OK", None, c.by), Item("PENDING", c.sock, "module")>>)
    <2>1. /\ TypeOK /\ FlowInv /\ ItemInv /\ SocketInv /\ ThreadInv /\ cmds # <<>>
          /\ UNCHANGED <<queue, answered, response, stop, swallow, closing, closeId, closeCmd,
                         owed, query, queryId, startRead, reading, dataCb, dequeue, open,
                         openId, wind, tim>>
          /\ UNCHANGED <<wifi_state, pc, sock, isconnected, inbox, started>>
          /\ "thread" \in Sent \ (Queued \cup Said)
      BY <1>1, ActsBase
    <2>2. /\ ~stop /\ ~Reading /\ ~closing /\ "close" \notin Said
          /\ "query" \notin Said /\ "PENDING" \notin UnderWay /\ unread = {}
          /\ pc = "connect" /\ ~answered
      BY <1>1, <1>3, <2>1, ThreadCommand
    <2>3. PICK a : a = Item("OK", None, c.by)
      OBVIOUS
    <2>4. PICK b : b = Item("PENDING", c.sock, "module")
      OBVIOUS
    <2>5. /\ a \in Items /\ a.kind = "OK" /\ a.by = "thread" /\ Class(a) = "thread"
          /\ a.kind \in UartKinds(a.by)
      BY <1>1, <2>3 DEF Item, Items, Kinds, Askers, Class, UartKinds
    <2>6. /\ b \in Items /\ b.kind = "PENDING" /\ b.by = "module" /\ Class(b) = "PENDING"
          /\ b.kind \in UartKinds(b.by) /\ b.sock = c.sock
      BY <1>1, <2>4 DEF Item, Items, Kinds, Askers, Class, UartKinds, News
    <2>7. Done(<<a, b>>)
      BY <1>3, <2>3, <2>4
    <2>8. unread' = {c.sock} /\ c.sock \in open \cap alive
      BY <1>1, <1>3, <2>2
    <2>9. Told(a)' /\ Told(b)'
      BY <2>1, <2>2, <2>5, <2>6, <2>8 DEF Told
    <2>10. /\ FlowInv' /\ Queued' = Queued /\ Said' = Said \cup {"thread", "PENDING"}
           /\ Sent' = Sent \ {"thread"}
           /\ Of(queue') = Of(queue) /\ Of(uart') = Of(uart) \cup {a, b}
           /\ Of(cmds') \subseteq Of(cmds)
      BY <1>1, <2>1, <2>2, <2>5, <2>6, <2>7, AnswersTwo
    <2>11. UnderWay' = UnderWay \cup {"PENDING"}
      BY <2>1, <2>10 DEF UnderWay
    <2>12. ItemInv'
      <3>1. MeaningKept
        BY <1>1, <2>1, <2>2 DEF MeaningKept
      <3>2. PICK S : S = {a, b}
        OBVIOUS
      <3>3. \A e \in S : e.kind \in UartKinds(e.by) /\ Told(e)'
        BY <2>5, <2>6, <2>9, <3>2
      <3>4. QED
        BY <2>1, <2>10, <3>1, <3>2, <3>3, SaysItems
    <2>13. Reading' <=> Reading
      BY <2>1, <2>10 DEF Reading
    <2>14. SocketInv'
      <3>1. /\ "OK" \notin Said /\ "read" \notin Said \cup Sent /\ ~startRead
        BY <2>1, <2>2, NotHeld
      <3>2. ReadSteps' /\ ReadFlags'
        BY <1>1, <2>1, <2>2, <2>10, <3>1 DEF SocketInv, ReadSteps, ReadFlags
      <3>3. ReadSocket' /\ ClosePhases' /\ Held'
        BY <1>1, <2>1, <2>2, <2>8, <2>10, <2>13, <3>1
           DEF SocketInv, ReadSocket, ClosePhases, Held
      <3>4. QED
        BY <3>2, <3>3 DEF SocketInv
    <2>15. ThreadInv'
      <3>1. UnderWay # {} /\ wifi_state # "ready" /\ ~inbox
        BY <2>1, <2>2 DEF ThreadInv, ThreadState, UnderWay
      <3>2. OneCall' /\ Unread'
        BY <1>1, <2>1, <2>2, <2>8, <2>10, <2>11, <2>13
           DEF ThreadInv, OneCall, Unread, Calls, UnderWay
      <3>3. Closes'
        BY <1>1, <2>1, <2>2, <2>8, <2>10, <2>11, <2>13 DEF ThreadInv, Closes
      <3>4. Alone' /\ Network'
        BY <1>1, <2>1, <2>2, <2>11, <3>1 DEF ThreadInv, Alone, Network
      <3>5. ThreadState'
        BY <1>1, <2>1, <2>2, <2>8, <2>11, <2>13, <3>1 DEF ThreadInv, ThreadState, Mqtt
      <3>6. QED
        BY <3>2, <3>3, <3>4, <3>5 DEF ThreadInv
    <2>16. QED
      BY <2>10, <2>12, <2>14, <2>15
  <1>4. QED
    BY <1>0, <1>1, <1>2, <1>3 DEF ModuleWrites

\* The socket the driver closes is one the module has: it still has data, or it is closed.
LEMMA ClosesKeeps ==
  ASSUME CallInv, ModuleActs, UNCHANGED stationVars, ModuleCloses(Head(cmds))
  PROVE  FlowInv' /\ ItemInv' /\ SocketInv' /\ ThreadInv'
  <1>0. PICK c : c = Head(cmds)
    OBVIOUS
  <1>1. /\ TypeOK /\ FlowInv /\ ItemInv /\ SocketInv /\ ThreadInv /\ cmds # <<>>
        /\ UNCHANGED <<queue, answered, response, stop, swallow, closing, closeId, closeCmd,
                       owed, query, queryId, startRead, reading, dataCb, dequeue, open,
                       openId, wind, tim>>
        /\ UNCHANGED <<wifi_state, pc, sock, isconnected, inbox, started>>
    BY ActsBase
  <1>2. /\ c.kind = "close" /\ c.by = "close" /\ Class(Head(cmds)) = "close"
        /\ c.sock = closeId /\ "close" \in Sent \ (Queued \cup Said)
        /\ UNCHANGED <<assoc, unread>>
    BY <1>0, ActsBase DEF ModuleCloses, CmdKinds, Class, Asked
  <1>3. /\ closing /\ closeId \in alive /\ ~Reading /\ stop
        /\ "thread" \notin UnderWay /\ "CLOSED" \notin UnderWay
        /\ pc \in {"closed", "delay"} /\ closeCmd = None /\ "PART" \notin Said
    <2>1. closing /\ closeId \in alive /\ ~Reading /\ stop
      BY <1>1, <1>2 DEF SocketInv, ClosePhases, Held
    <2>2. /\ "CLOSED" \notin UnderWay /\ pc \in {"closed", "delay"} /\ closeCmd = None
      BY <1>1, <1>2 DEF ThreadInv, Closes, UnderWay
    <2>3. "thread" \notin UnderWay
      BY <1>1, <2>2 DEF ThreadInv, OneCall, Calls
    <2>4. "PART" \notin Said
      BY <1>1, <2>1 DEF SocketInv, ReadSteps, Reading
    <2>5. QED
      BY <2>1, <2>2, <2>3, <2>4
  <1>4. PICK kind \in {"HASDATA", "OK"} :
          /\ Done(<<Item(kind, None, c.by)>>)
          /\ IF kind = "OK" THEN alive' = alive \ {closeId} /\ closeId \notin unread
             ELSE alive' = alive /\ closeId \in unread
    BY <1>0, <1>2, <1>3 DEF ModuleCloses
  <1>5. PICK a : a = Item(kind, None, c.by)
    OBVIOUS
  <1>6. /\ a \in Items /\ a.kind = kind /\ a.by = "close" /\ Class(a) = "close"
        /\ a.kind \in UartKinds(a.by) /\ Told(a)'
    BY <1>1, <1>2, <1>4, <1>5
       DEF Item, Items, Kinds, Askers, Class, UartKinds, Told
  <1>7. Done(<<a>>)
    BY <1>4, <1>5
  <1>8. /\ FlowInv' /\ Queued' = Queued /\ Said' = Said \cup {"close"}
        /\ Sent' = Sent \ {"close"} /\ Of(queue') = Of(queue)
        /\ Of(uart') = Of(uart) \cup {a} /\ Of(cmds') \subseteq Of(cmds)
    <2>1. \A d \in Queued \cup Said : <<Class(a), d>> \notin Precedes
      BY <1>6 DEF Precedes
    <2>2. QED
      BY <1>1, <1>2, <1>6, <1>7, <2>1, AnswersOne
  <1>9. UnderWay' = UnderWay
    BY <1>2, <1>8 DEF UnderWay
  <1>10. ItemInv'
    <2>1. MeaningKept
      BY <1>1, <1>2, <1>3, <1>4 DEF MeaningKept
    <2>2. PICK S : S = {a}
      OBVIOUS
    <2>3. \A e \in S : e.kind \in UartKinds(e.by) /\ Told(e)'
      BY <1>6, <2>2
    <2>4. QED
      BY <1>1, <1>8, <1>9, <2>1, <2>2, <2>3, SaysItems
  <1>11. ~Reading'
    BY <1>1, <1>3, <1>8 DEF Reading
  <1>12. SocketInv'
    BY <1>1, <1>2, <1>3, <1>8, <1>11
       DEF SocketInv, ReadSteps, ReadFlags, ReadSocket, ClosePhases, Held
  <1>13. ThreadInv'
    <2>1. unread \subseteq alive' /\ alive' \subseteq alive /\ alive \subseteq alive' \cup {closeId}
      BY <1>1, <1>4 DEF ThreadInv, Unread
    <2>2. OneCall' /\ Unread'
      BY <1>1, <1>2, <1>3, <1>8, <1>9, <1>11, <2>1 DEF ThreadInv, OneCall, Unread, Calls
    <2>3. Closes'
      BY <1>1, <1>2, <1>3, <1>9, <1>11, <2>1 DEF ThreadInv, Closes
    <2>4. Alone' /\ Network'
      BY <1>1, <1>2, <1>3, <1>8, <1>9 DEF ThreadInv, Alone, Network
    <2>5. ThreadState'
      BY <1>1, <1>2, <1>3, <1>9, <1>11, <2>1 DEF ThreadInv, ThreadState, Mqtt
    <2>6. QED
      BY <2>2, <2>3, <2>4, <2>5 DEF ThreadInv
  <1>14. QED
    BY <1>8, <1>10, <1>12, <1>13

\* What a socket has is asked for.
LEMMA QueriesKeeps ==
  ASSUME CallInv, ModuleActs, UNCHANGED stationVars, ModuleQueries(Head(cmds))
  PROVE  FlowInv' /\ ItemInv' /\ SocketInv' /\ ThreadInv'
  <1>0. PICK c : c = Head(cmds)
    OBVIOUS
  <1>1. /\ TypeOK /\ FlowInv /\ ItemInv /\ SocketInv /\ ThreadInv /\ cmds # <<>>
        /\ UNCHANGED <<queue, answered, response, stop, swallow, closing, closeId, closeCmd,
                       owed, query, queryId, startRead, reading, dataCb, dequeue, open,
                       openId, wind, tim>>
        /\ UNCHANGED <<wifi_state, pc, sock, isconnected, inbox, started>>
    BY ActsBase
  <1>2. /\ c.kind = "query" /\ c.by = "read" /\ Class(Head(cmds)) = "query"
        /\ c.sock = queryId /\ "query" \in Sent \ (Queued \cup Said)
        /\ UNCHANGED <<assoc, alive, unread>>
    BY <1>0, ActsBase DEF ModuleQueries, CmdKinds, Class, Asked
  <1>3. Reading /\ queryId \in alive
    BY <1>1, <1>2 DEF SocketInv, ReadSocket, Reading
  <1>4. PICK kind \in {"LENGTH", "EMPTY"} :
          /\ Done(<<Item(kind, None, c.by)>>)
          /\ kind = "EMPTY" => queryId \notin unread
          /\ kind = "LENGTH" => queryId \in unread
    <2>1. Done(<<IF c.sock \notin alive THEN Item("ERROR", None, c.by)
                 ELSE IF c.sock \in unread THEN Item("LENGTH", None, c.by)
                 ELSE Item("EMPTY", None, c.by)>>)
      BY <1>0, <1>2 DEF ModuleQueries
    <2>2. CASE queryId \in unread
      BY <1>2, <1>3, <2>1, <2>2
    <2>3. CASE queryId \notin unread
      BY <1>2, <1>3, <2>1, <2>3
    <2>4. QED
      BY <2>2, <2>3
  <1>5. PICK a : a = Item(kind, None, c.by)
    OBVIOUS
  <1>6. /\ a \in Items /\ a.kind = kind /\ a.by = "read" /\ Class(a) = "query"
        /\ a.kind \in UartKinds(a.by) /\ Told(a)'
    BY <1>1, <1>2, <1>4, <1>5
       DEF Item, Items, Kinds, Askers, Class, UartKinds, Told
  <1>7. Done(<<a>>)
    BY <1>4, <1>5
  <1>8. /\ FlowInv' /\ Queued' = Queued /\ Said' = Said \cup {"query"}
        /\ Sent' = Sent \ {"query"} /\ Of(queue') = Of(queue)
        /\ Of(uart') = Of(uart) \cup {a} /\ Of(cmds') \subseteq Of(cmds)
    <2>1. \A d \in Queued \cup Said : <<Class(a), d>> \notin Precedes
      BY <1>6 DEF Precedes
    <2>2. QED
      BY <1>1, <1>2, <1>6, <1>7, <2>1, AnswersOne
  <1>9. UnderWay' = UnderWay
    BY <1>2, <1>8 DEF UnderWay
  <1>10. ItemInv'
    <2>1. MeaningKept
      BY <1>1, <1>2 DEF MeaningKept
    <2>2. PICK S : S = {a}
      OBVIOUS
    <2>3. \A e \in S : e.kind \in UartKinds(e.by) /\ Told(e)'
      BY <1>6, <2>2
    <2>4. QED
      BY <1>1, <1>8, <1>9, <2>1, <2>2, <2>3, SaysItems
  <1>11. Reading'
    BY <1>1, <1>8 DEF Reading
  <1>12. SocketInv'
    BY <1>1, <1>2, <1>3, <1>8, <1>11
       DEF SocketInv, ReadSteps, ReadFlags, ReadSocket, ClosePhases, Held
  <1>13. ThreadInv'
    BY <1>1, <1>2, <1>3, <1>8, <1>9, <1>11
       DEF ThreadInv, OneCall, Unread, Closes, Alone, Network, ThreadState, Mqtt, Calls
  <1>14. QED
    BY <1>8, <1>10, <1>12, <1>13

\* The data of a socket is read: it has none left.
LEMMA ReadsKeeps ==
  ASSUME CallInv, ModuleActs, UNCHANGED stationVars, ModuleReads(Head(cmds)),
         Head(cmds).sock \in unread,
         Done(<<Item("PART", None, Head(cmds).by), Item("DATA", None, Head(cmds).by),
                Item("OK", None, Head(cmds).by)>>),
         unread' = unread \ {Head(cmds).sock}
  PROVE  FlowInv' /\ ItemInv' /\ SocketInv' /\ ThreadInv'
  <1>0. PICK c : c = Head(cmds)
    OBVIOUS
  <1>1. /\ TypeOK /\ FlowInv /\ ItemInv /\ SocketInv /\ ThreadInv /\ cmds # <<>>
        /\ UNCHANGED <<queue, answered, response, stop, swallow, closing, closeId, closeCmd,
                       owed, query, queryId, startRead, reading, dataCb, dequeue, open,
                       openId, wind, tim>>
        /\ UNCHANGED <<wifi_state, pc, sock, isconnected, inbox, started>>
    BY ActsBase
  <1>2. /\ c.kind = "read" /\ c.by = "read" /\ Class(Head(cmds)) = "read"
        /\ c.sock = queryId /\ "read" \in Sent \ (Queued \cup Said)
        /\ UNCHANGED <<assoc, alive>> /\ unread' = unread \ {queryId}
        /\ Done(<<Item("PART", None, c.by), Item("DATA", None, c.by), Item("OK", None, c.by)>>)
    BY <1>0, ActsBase DEF ModuleReads, CmdKinds, Class, Asked
  <1>3. /\ Reading /\ queryId \in alive /\ unread' = {} /\ ~closing
        /\ \A d \in {"PART", "DATA", "OK", "query", "PENDING"} : d \notin UnderWay
        /\ "close" \notin Said \cup Sent /\ ~query /\ ~startRead /\ ~dataCb
    <2>1. Reading /\ queryId \in alive /\ unread' = {} /\ ~closing
      BY <1>1, <1>2 DEF SocketInv, ReadSocket, ClosePhases, Reading
    <2>2. /\ "DATA" \notin Said /\ "PART" \notin Said /\ "OK" \notin Said
          /\ "query" \notin Said \cup Sent
          /\ "close" \notin Said \cup Sent /\ ~query /\ ~startRead /\ ~dataCb
      BY <1>1, <1>2, <2>1 DEF SocketInv, ReadSteps, ReadFlags, ClosePhases
    <2>3. "PENDING" \notin UnderWay
      BY <1>1, <2>1 DEF ThreadInv, Unread
    <2>4. QED
      BY <1>1, <2>1, <2>2, <2>3, ItemClasses DEF UnderWay, Seven
  <1>4. PICK a : a = Item("PART", None, c.by)
    OBVIOUS
  <1>5. PICK b : b = Item("DATA", None, c.by)
    OBVIOUS
  <1>6. PICK f : f = Item("OK", None, c.by)
    OBVIOUS
  <1>7. /\ a \in Items /\ a.kind \in UartKinds(a.by) /\ Class(a) = "PART" /\ Told(a)'
        /\ b \in Items /\ b.kind \in UartKinds(b.by) /\ Class(b) = "DATA" /\ Told(b)'
        /\ f \in Items /\ f.kind \in UartKinds(f.by) /\ Class(f) = "OK" /\ Told(f)'
    BY <1>2, <1>4, <1>5, <1>6
       DEF Item, Items, Kinds, Askers, Class, UartKinds, Told
  <1>8. Done(<<a, b, f>>)
    BY <1>2, <1>4, <1>5, <1>6
  <1>9. /\ FlowInv' /\ Queued' = Queued /\ Said' = Said \cup {"PART", "DATA", "OK"}
        /\ Sent' = Sent \ {"read"} /\ Of(queue') = Of(queue)
        /\ Of(uart') = Of(uart) \cup {a, b, f} /\ Of(cmds') \subseteq Of(cmds)
    BY <1>1, <1>2, <1>3, <1>7, <1>8, AnswersThree
  <1>10. UnderWay' = (UnderWay \ {"read"}) \cup {"PART", "DATA", "OK"}
    BY <1>2, <1>9 DEF UnderWay
  <1>11. ItemInv'
    <2>1. MeaningKept
      BY <1>1, <1>2, <1>3 DEF MeaningKept, UnderWay
    <2>2. PICK S : S = {a, b, f}
      OBVIOUS
    <2>3. \A e \in S : e.kind \in UartKinds(e.by) /\ Told(e)'
      BY <1>7, <2>2
    <2>4. "PENDING" \in UnderWay' => "PENDING" \in UnderWay
      BY <1>10
    <2>5. QED
      BY <1>1, <1>9, <2>1, <2>2, <2>3, <2>4, SaysItems
  <1>12. Reading'
    BY <1>9 DEF Reading
  <1>13. SocketInv'
    BY <1>1, <1>2, <1>3, <1>9, <1>12
       DEF SocketInv, ReadSteps, ReadFlags, ReadSocket, ClosePhases, Held, UnderWay
  <1>14. ThreadInv'
    <2>1. pc \notin {"scan", "config", "reset", "value"} /\ wifi_state # "ready"
      BY <1>1, <1>2 DEF ThreadInv, Alone, UnderWay
    <2>2. OneCall' /\ Unread' /\ Closes'
      BY <1>1, <1>2, <1>3, <1>10, <1>12 DEF ThreadInv, OneCall, Unread, Closes, Calls
    <2>3. Alone' /\ Network'
      BY <1>1, <1>2, <1>9, <1>10, <2>1 DEF ThreadInv, Alone, Network
    <2>4. ThreadState'
      BY <1>1, <1>2, <1>3, <1>10, <1>12 DEF ThreadInv, ThreadState, Mqtt
    <2>5. QED
      BY <2>2, <2>3, <2>4 DEF ThreadInv
  <1>15. QED
    BY <1>9, <1>11, <1>13, <1>14

\* The read fails, and its data is gone; no closing was put off.
LEMMA ReadFailsKeeps ==
  ASSUME CallInv, ModuleActs, UNCHANGED stationVars, ModuleReads(Head(cmds)),
         Head(cmds).sock \in unread, Done(<<Item("ERROR", None, Head(cmds).by)>>),
         unread' = unread \ {Head(cmds).sock}, owed = {}
  PROVE  FlowInv' /\ ItemInv' /\ SocketInv' /\ ThreadInv'
  <1>0. PICK c : c = Head(cmds)
    OBVIOUS
  <1>1. /\ TypeOK /\ FlowInv /\ ItemInv /\ SocketInv /\ ThreadInv /\ cmds # <<>>
        /\ UNCHANGED <<queue, answered, response, stop, swallow, closing, closeId, closeCmd,
                       owed, query, queryId, startRead, reading, dataCb, dequeue, open,
                       openId, wind, tim>>
        /\ UNCHANGED <<wifi_state, pc, sock, isconnected, inbox, started>>
    BY ActsBase
  <1>2. /\ c.kind = "read" /\ c.by = "read" /\ Class(Head(cmds)) = "read"
        /\ c.sock = queryId /\ "read" \in Sent \ (Queued \cup Said)
        /\ UNCHANGED <<assoc, alive>> /\ unread' = unread \ {queryId}
    BY <1>0, ActsBase DEF ModuleReads, CmdKinds, Class, Asked
  <1>3. /\ Reading /\ queryId \in alive /\ unread' = {} /\ ~closing
        /\ \A d \in {"PART", "DATA", "OK", "query", "PENDING"} : d \notin UnderWay
        /\ "close" \notin Said \cup Sent /\ ~query /\ ~startRead /\ ~dataCb
    <2>1. Reading /\ queryId \in alive /\ unread' = {} /\ ~closing
      BY <1>1, <1>2 DEF SocketInv, ReadSocket, ClosePhases, Reading
    <2>2. /\ "DATA" \notin Said /\ "PART" \notin Said /\ "OK" \notin Said
          /\ "query" \notin Said \cup Sent
          /\ "close" \notin Said \cup Sent /\ ~query /\ ~startRead /\ ~dataCb
      BY <1>1, <1>2, <2>1 DEF SocketInv, ReadSteps, ReadFlags, ClosePhases
    <2>3. "PENDING" \notin UnderWay
      BY <1>1, <2>1 DEF ThreadInv, Unread
    <2>4. QED
      BY <1>1, <2>1, <2>2, <2>3, ItemClasses DEF UnderWay, Seven
  <1>4. PICK a : a = Item("ERROR", None, c.by)
    OBVIOUS
  <1>5. /\ a \in Items /\ a.kind \in UartKinds(a.by) /\ Class(a) = "read" /\ Told(a)'
    BY <1>2, <1>4 DEF Item, Items, Kinds, Askers, Class, UartKinds, Told
  <1>6. Done(<<a>>)
    BY <1>0, <1>4
  <1>7. /\ FlowInv' /\ Queued' = Queued /\ Said' = Said \cup {"read"}
        /\ Sent' = Sent \ {"read"} /\ Of(queue') = Of(queue)
        /\ Of(uart') = Of(uart) \cup {a} /\ Of(cmds') \subseteq Of(cmds)
    <2>1. \A d \in Queued \cup Said : <<Class(a), d>> \notin Precedes
      BY <1>5 DEF Precedes
    <2>2. QED
      BY <1>1, <1>2, <1>5, <1>6, <2>1, AnswersOne
  <1>8. UnderWay' = UnderWay
    BY <1>2, <1>7 DEF UnderWay
  <1>9. ItemInv'
    <2>1. MeaningKept
      BY <1>1, <1>2, <1>3 DEF MeaningKept, UnderWay
    <2>2. PICK S : S = {a}
      OBVIOUS
    <2>3. \A e \in S : e.kind \in UartKinds(e.by) /\ Told(e)'
      BY <1>5, <2>2
    <2>4. QED
      BY <1>1, <1>7, <1>8, <2>1, <2>2, <2>3, SaysItems
  <1>10. Reading'
    BY <1>7 DEF Reading
  <1>11. SocketInv'
    BY <1>1, <1>2, <1>3, <1>7, <1>10
       DEF SocketInv, ReadSteps, ReadFlags, ReadSocket, ClosePhases, Held, UnderWay
  <1>12. ThreadInv'
    BY <1>1, <1>2, <1>3, <1>7, <1>8, <1>10
       DEF ThreadInv, OneCall, Unread, Closes, Alone, Network, ThreadState, Mqtt, Calls
  <1>13. QED
    BY <1>7, <1>9, <1>11, <1>12

\* The module is reset: what it was asked for, and its sockets, are gone.
LEMMA ResetsKeeps ==
  ASSUME CallInv, ModuleActs, UNCHANGED stationVars, ModuleResets(Head(cmds))
  PROVE  FlowInv' /\ ItemInv' /\ SocketInv' /\ ThreadInv'
  <1>0. PICK c : c = Head(cmds)
    OBVIOUS
  <1>1. /\ TypeOK /\ FlowInv /\ ItemInv /\ SocketInv /\ ThreadInv /\ cmds # <<>>
        /\ UNCHANGED <<queue, answered, response, stop, swallow, closing, closeId, closeCmd,
                       owed, query, queryId, startRead, reading, dataCb, dequeue, open,
                       openId, wind, tim>>
        /\ UNCHANGED <<wifi_state, pc, sock, isconnected, inbox, started>>
    BY ActsBase
  <1>2. /\ c.kind = "reset" /\ Class(Head(cmds)) = "ON"
        /\ "ON" \in Sent \ (Queued \cup Said) /\ cmds' = <<>>
        /\ uart' = Append(uart, Item("ON", None, "module"))
        /\ assoc' = "joining" /\ alive' = {} /\ unread' = {}
    BY <1>0, ActsBase DEF ModuleResets, CmdKinds, Class
  <1>3. /\ pc = "reset" /\ UnderWay \subseteq {"thread", "ON", "join", "drop"}
        /\ "thread" \notin UnderWay /\ ~query /\ ~startRead /\ closeCmd = None
        /\ ~answered /\ ~started /\ wind # "ON" /\ owed = {} /\ ~Mqtt
    <2>1. pc = "reset"
      BY <1>1, <1>2 DEF ThreadInv, Network, UnderWay
    <2>2. /\ UnderWay \subseteq {"thread", "ON", "join", "drop"}
          /\ ~query /\ ~startRead /\ closeCmd = None
      BY <1>1, <2>1 DEF ThreadInv, Alone
    <2>3. "thread" \notin UnderWay /\ ~answered
      BY <1>1, <2>1 DEF ThreadInv, OneCall, Calls
    <2>4. ~started /\ wind # "ON"
      BY <1>1, <1>2, <2>1 DEF ThreadInv, Network, UnderWay
    <2>5. owed = {} /\ ~Mqtt
      BY <1>1, <2>1 DEF ThreadInv, Closes, ThreadState, Mqtt
    <2>6. QED
      BY <2>1, <2>2, <2>3, <2>4, <2>5
  <1>4. ~Reading /\ ~closing
    BY <1>1, <1>3 DEF Reading, SocketInv, ClosePhases, UnderWay
  <1>5. PICK a : a = Item("ON", None, "module")
    OBVIOUS
  <1>6. /\ a \in Items /\ a.kind = "ON" /\ a.by = "module" /\ Class(a) = "ON"
        /\ a.kind \in UartKinds(a.by) /\ Told(a)'
    BY <1>5 DEF Item, Items, Kinds, Indications, Askers, Class, UartKinds, News, Told
  <1>7. /\ Once(uart') /\ InOrder(uart') /\ DataFollows(uart')
        /\ Of(uart') = Of(uart) \cup {a} /\ Classes(uart') = Classes(uart) \cup {Class(a)}
    <2>1. uart \in Seq(Items) /\ Once(uart) /\ InOrder(uart) /\ DataFollows(uart)
      BY <1>1, Sequences DEF FlowInv
    <2>2. Class(a) \notin Classes(uart) /\ \A d \in Classes(uart) : <<Class(a), d>> \notin Precedes
      BY <1>2, <1>6 DEF Said, Precedes
    <2>3. \/ Class(a) # "DATA"
          \/ uart # <<>> /\ Class(uart[Len(uart)]) = "PART"
      BY <1>6
    <2>4. uart' = Append(uart, a) /\ a \in Items
      BY <1>2, <1>5, <1>6
    <2>5. QED
      BY <2>1, <2>2, <2>3, <2>4, SaysMore
  <1>8. /\ Queued' = Queued /\ Said' = Said \cup {"ON"} /\ Sent' = {}
        /\ Of(queue') = Of(queue) /\ Of(cmds') = {} /\ Once(cmds')
    BY <1>1, <1>2, <1>6, <1>7, NoClasses DEF Queued, Said, Sent
  <1>9. FlowInv'
    <2>1. Once(queue') /\ InOrder(queue')
      BY <1>1 DEF FlowInv
    <2>2. \A d \in Said', e \in Queued' : <<d, e>> \notin Precedes
      BY <1>1, <1>8 DEF FlowInv, Precedes
    <2>3. QED
      BY <1>1, <1>2, <1>7, <1>8, <2>1, <2>2 DEF FlowInv
  <1>10. UnderWay' \subseteq {"ON", "join", "drop"} /\ "ON" \in UnderWay' /\ UnderWay' \subseteq UnderWay
    BY <1>2, <1>3, <1>8 DEF UnderWay
  <1>11. ItemInv'
    <2>1. MeaningKept
      BY <1>1, <1>3 DEF MeaningKept, UnderWay
    <2>2. PICK S : S = {a}
      OBVIOUS
    <2>3. \A e \in S : e.kind \in UartKinds(e.by) /\ Told(e)'
      BY <1>6, <2>2
    <2>4. Of(cmds') \subseteq Of(cmds)
      BY <1>8
    <2>5. QED
      BY <1>1, <1>7, <1>8, <1>10, <2>1, <2>2, <2>3, <2>4, SaysItems
  <1>12. ~Reading'
    BY <1>1, <1>3, <1>8, <1>4 DEF Reading
  <1>13. SocketInv'
    BY <1>1, <1>3, <1>4, <1>8, <1>12
       DEF SocketInv, ReadSteps, ReadFlags, ReadSocket, ClosePhases, Held, UnderWay
  <1>14. ThreadInv'
    BY <1>1, <1>2, <1>3, <1>8, <1>10, <1>12
       DEF ThreadInv, OneCall, Unread, Closes, Alone, Network, ThreadState, Mqtt, Calls
  <1>15. QED
    BY <1>9, <1>11, <1>13, <1>14

LEMMA ModuleActsKeeps ==
  ASSUME CallInv, "readkeep" \notin Faults, ModuleActs, UNCHANGED stationVars
  PROVE  FlowInv' /\ ItemInv' /\ SocketInv' /\ ThreadInv'
  <1>1. CASE ModuleReads(Head(cmds))
    <2>1. Head(cmds).sock \in unread
      <3>1. SocketInv /\ Asked(Head(cmds)) /\ Class(Head(cmds)) \in Sent
            /\ Head(cmds).kind \in CmdKinds(Head(cmds).by)
        BY ActsBase
      <3>2. Head(cmds).kind = "read"
        BY <1>1 DEF ModuleReads
      <3>3. Head(cmds).by = "read"
        BY <3>1, <3>2 DEF CmdKinds
      <3>4. "read" \in Sent /\ Head(cmds).sock = queryId
        BY <3>1, <3>2, <3>3 DEF Class, Asked
      <3>5. QED
        BY <3>1, <3>4 DEF SocketInv, ReadSocket
    <2>2. \/ /\ Done(<<Item("PART", None, Head(cmds).by), Item("DATA", None, Head(cmds).by),
                       Item("OK", None, Head(cmds).by)>>)
             /\ unread' = unread \ {Head(cmds).sock}
          \/ /\ Done(<<Item("ERROR", None, Head(cmds).by)>>)
             /\ owed = {} /\ unread' = unread \ {Head(cmds).sock}
      BY <1>1, <2>1 DEF ModuleReads, Spend
    <2>3. QED
      BY <1>1, <2>1, <2>2, ReadsKeeps, ReadFailsKeeps
  <1>2. QED
    BY <1>1, OpensKeeps, WritesKeeps, ClosesKeeps, QueriesKeeps, ConfiguresKeeps, ResetsKeeps
       DEF ModuleActs

\* The module says something unasked.
LEMMA IndicatesFlow ==
  ASSUME TypeOK, FlowInv, ItemInv, MeaningKept,
         NEW kind \in Indications \cup {"CLOSED"}, NEW s \in Sockets \cup {None},
         Indicates(kind, s), kind = "CLOSED" => s \in alive',
         NEW k, k = Class(Item(kind, s, "module")), k \notin UnderWay,
         \A d \in Queued \cup Said : <<k, d>> \notin Precedes
  PROVE  /\ FlowInv' /\ ItemInv'
         /\ Queued' = Queued /\ Said' = Said \cup {k} /\ Sent' = Sent
         /\ UnderWay' = UnderWay \cup {k}
         /\ k \in {"ON", "join", "drop", "CLOSED"}
         /\ UNCHANGED <<answered, response, stop, swallow, closing, closeId, closeCmd,
                        owed, query, queryId, startRead, reading, dataCb, dequeue, open,
                        openId, wind, tim>>
  <1>1. PICK a : a = Item(kind, s, "module")
    OBVIOUS
  <1>2. /\ a \in Items /\ a.kind = kind /\ a.by = "module" /\ a.sock = s /\ Class(a) = k
        /\ a.kind \in UartKinds(a.by) /\ a.kind # "PENDING" /\ k # "DATA" /\ k # "PENDING"
        /\ k \in {"ON", "join", "drop", "CLOSED"}
    BY <1>1 DEF Item, Items, Kinds, Indications, Askers, Class, UartKinds, News
  <1>3. Told(a)'
    BY <1>2 DEF Told, Indications
  <1>4. /\ uart' = Append(uart, a) /\ UNCHANGED <<queue, cmds>>
        /\ UNCHANGED <<answered, response, stop, swallow, closing, closeId, closeCmd,
                       owed, query, queryId, startRead, reading, dataCb, dequeue, open,
                       openId, wind, tim>>
    BY <1>1 DEF Indicates, mailbox, closeVars, readVars, openVars
  <1>5. /\ Once(uart') /\ InOrder(uart') /\ DataFollows(uart')
        /\ Of(uart') = Of(uart) \cup {a} /\ Classes(uart') = Classes(uart) \cup {Class(a)}
    <2>1. uart \in Seq(Items) /\ Once(uart) /\ InOrder(uart) /\ DataFollows(uart)
      BY Sequences DEF FlowInv
    <2>2. Class(a) \notin Classes(uart) /\ \A d \in Classes(uart) : <<Class(a), d>> \notin Precedes
      BY <1>2 DEF UnderWay, Said
    <2>3. \/ Class(a) # "DATA"
          \/ uart # <<>> /\ Class(uart[Len(uart)]) = "PART"
      BY <1>2
    <2>4. uart' = Append(uart, a) /\ a \in Items
      BY <1>2, <1>4
    <2>5. QED
      BY <2>1, <2>2, <2>3, <2>4, SaysMore
  <1>6. /\ Queued' = Queued /\ Said' = Said \cup {k} /\ Sent' = Sent
        /\ Of(queue') = Of(queue) /\ Of(cmds') = Of(cmds)
    BY <1>2, <1>4, <1>5 DEF Queued, Said, Sent
  <1>7. UnderWay' = UnderWay \cup {k}
    BY <1>6 DEF UnderWay
  <1>8. FlowInv'
    <2>1. Once(queue') /\ InOrder(queue') /\ Once(cmds')
      BY <1>4 DEF FlowInv
    <2>2. \A d \in Said', e \in Queued' : <<d, e>> \notin Precedes
      BY <1>6 DEF FlowInv
    <2>3. QED
      BY <1>5, <1>6, <2>1, <2>2 DEF FlowInv, UnderWay
  <1>9. ItemInv'
    <2>1. PICK S : S = {a}
      OBVIOUS
    <2>2. \A e \in S : e.kind \in UartKinds(e.by) /\ Told(e)'
      BY <1>2, <1>3, <2>1
    <2>3. "PENDING" \in UnderWay' => "PENDING" \in UnderWay
      BY <1>2, <1>7
    <2>4. QED
      BY <1>5, <1>6, <2>1, <2>2, <2>3, SaysItems
  <1>10. QED
    BY <1>2, <1>4, <1>6, <1>7, <1>8, <1>9

\* It joins the network, or is turned away.
LEMMA JoinsKeeps ==
  ASSUME CallInv, ModuleJoins, pc # "reset", UNCHANGED stationVars
  PROVE  FlowInv' /\ ItemInv' /\ SocketInv' /\ ThreadInv'
  <1>1. /\ TypeOK /\ FlowInv /\ ItemInv /\ SocketInv /\ ThreadInv
        /\ UNCHANGED <<wifi_state, pc, sock, isconnected, inbox, started>>
        /\ UNCHANGED <<alive, unread>> /\ assoc = "joining" /\ assoc' \in {"yes", "no"}
    BY DEF CallInv, IInv, ModuleJoins, stationVars
  <1>2. "ON" \notin UnderWay /\ "join" \notin UnderWay /\ "drop" \notin UnderWay
    BY <1>1 DEF ThreadInv, Network
  <1>3. PICK kind \in {"UP", "JOINFAILED"} : Indicates(kind, None)
    BY DEF ModuleJoins
  <1>4. PICK k : k = Class(Item(kind, None, "module"))
    OBVIOUS
  <1>5. k = "join"
    BY <1>4 DEF Item, Class
  <1>6. /\ UNCHANGED <<open, queryId, closeId>>
    BY <1>3 DEF Indicates, closeVars, readVars, openVars
  <1>7. MeaningKept
    BY <1>1, <1>6 DEF MeaningKept
  <1>8. /\ FlowInv' /\ ItemInv'
        /\ Queued' = Queued /\ Said' = Said \cup {"join"} /\ Sent' = Sent
        /\ UnderWay' = UnderWay \cup {"join"}
        /\ UNCHANGED <<answered, response, stop, swallow, closing, closeId, closeCmd,
                       owed, query, queryId, startRead, reading, dataCb, dequeue, open,
                       openId, wind, tim>>
    <2>1. \A d \in Queued \cup Said : <<k, d>> \notin Precedes
      BY <1>2, <1>5 DEF Precedes, UnderWay
    <2>2. kind \in Indications \cup {"CLOSED"} /\ kind # "CLOSED"
      BY DEF Indications
    <2>3. QED
      BY <1>1, <1>2, <1>3, <1>4, <1>5, <1>7, <2>1, <2>2, IndicatesFlow
  <1>9. Reading' <=> Reading
    BY <1>8 DEF Reading
  <1>10. SocketInv'
    BY <1>1, <1>8, <1>9 DEF SocketInv, ReadSteps, ReadFlags, ReadSocket, ClosePhases, Held
  <1>11. ThreadInv'
    BY <1>1, <1>2, <1>8, <1>9
       DEF ThreadInv, OneCall, Unread, Closes, Alone, Network, ThreadState, Mqtt, Calls
  <1>12. QED
    BY <1>8, <1>10, <1>11

\* The access point drops it.
LEMMA DroppedKeeps ==
  ASSUME CallInv, StationDropped, UNCHANGED stationVars
  PROVE  FlowInv' /\ ItemInv' /\ SocketInv' /\ ThreadInv'
  <1>1. /\ TypeOK /\ FlowInv /\ ItemInv /\ SocketInv /\ ThreadInv
        /\ UNCHANGED <<wifi_state, pc, sock, isconnected, inbox, started>>
        /\ UNCHANGED <<alive, unread>> /\ assoc = "yes" /\ assoc' = "no"
    BY DEF CallInv, IInv, StationDropped, stationVars
  <1>2. /\ "drop" \notin UnderWay /\ "ON" \notin Queued \cup Said
        /\ pc = "reset" => "ON" \in Sent
    BY <1>1 DEF ThreadInv, Network, FlowInv, UnderWay
  <1>3. PICK kind \in {"DEAUTH", "DISASSOC"} : Indicates(kind, None)
    BY DEF StationDropped
  <1>4. PICK k : k = Class(Item(kind, None, "module"))
    OBVIOUS
  <1>5. k = "drop"
    BY <1>4 DEF Item, Class
  <1>6. /\ UNCHANGED <<open, queryId, closeId>>
    BY <1>3 DEF Indicates, closeVars, readVars, openVars
  <1>7. MeaningKept
    BY <1>1, <1>6 DEF MeaningKept
  <1>8. /\ FlowInv' /\ ItemInv'
        /\ Queued' = Queued /\ Said' = Said \cup {"drop"} /\ Sent' = Sent
        /\ UnderWay' = UnderWay \cup {"drop"}
        /\ UNCHANGED <<answered, response, stop, swallow, closing, closeId, closeCmd,
                       owed, query, queryId, startRead, reading, dataCb, dequeue, open,
                       openId, wind, tim>>
    <2>1. \A d \in Queued \cup Said : <<k, d>> \notin Precedes
      BY <1>2, <1>5 DEF Precedes, UnderWay
    <2>2. kind \in Indications \cup {"CLOSED"} /\ kind # "CLOSED"
      BY DEF Indications
    <2>3. QED
      BY <1>1, <1>2, <1>3, <1>4, <1>5, <1>7, <2>1, <2>2, IndicatesFlow
  <1>9. Reading' <=> Reading
    BY <1>8 DEF Reading
  <1>10. SocketInv'
    BY <1>1, <1>8, <1>9 DEF SocketInv, ReadSteps, ReadFlags, ReadSocket, ClosePhases, Held
  <1>11. ThreadInv'
    BY <1>1, <1>2, <1>8, <1>9
       DEF ThreadInv, OneCall, Unread, Closes, Alone, Network, ThreadState, Mqtt, Calls,
           UnderWay
  <1>12. QED
    BY <1>8, <1>10, <1>11

\* The server closes a connection while the program lets time pass.
LEMMA ServerClosesKeeps ==
  ASSUME CallInv, ServerCloses, pc = "delay", Quiet, UNCHANGED stationVars
  PROVE  FlowInv' /\ ItemInv' /\ SocketInv' /\ ThreadInv'
  <1>1. /\ TypeOK /\ FlowInv /\ ItemInv /\ SocketInv /\ ThreadInv
        /\ UNCHANGED <<wifi_state, pc, sock, isconnected, inbox, started>>
        /\ UNCHANGED <<assoc, alive, unread>>
    BY DEF CallInv, IInv, ServerCloses, stationVars
  <1>2. /\ UnderWay = {} /\ Queued = {} /\ Said = {} /\ Sent = {}
        /\ ~Reading /\ ~closing /\ ~stop /\ closeCmd = None /\ ~startRead /\ ~query
    BY <1>1, QuietMeans
  <1>3. PICK s \in alive : Indicates("CLOSED", s)
    BY DEF ServerCloses
  <1>4. PICK k : k = Class(Item("CLOSED", s, "module"))
    OBVIOUS
  <1>5. k = "CLOSED" /\ s \in Sockets
    BY <1>1, <1>4 DEF Item, Class, TypeOK, ModuleTypeOK
  <1>6. /\ UNCHANGED <<open, queryId, closeId>>
    BY <1>3 DEF Indicates, closeVars, readVars, openVars
  <1>7. MeaningKept
    BY <1>1, <1>6 DEF MeaningKept
  <1>8. /\ FlowInv' /\ ItemInv'
        /\ Queued' = Queued /\ Said' = Said \cup {"CLOSED"} /\ Sent' = Sent
        /\ UnderWay' = UnderWay \cup {"CLOSED"}
        /\ UNCHANGED <<answered, response, stop, swallow, closing, closeId, closeCmd,
                       owed, query, queryId, startRead, reading, dataCb, dequeue, open,
                       openId, wind, tim>>
    <2>1. \A d \in Queued \cup Said : <<k, d>> \notin Precedes
      BY <1>2
    <2>2. s \in alive' /\ s \in Sockets \cup {None} /\ k \notin UnderWay
      BY <1>1, <1>2, <1>5
    <2>3. QED
      BY <1>1, <1>3, <1>4, <1>5, <1>7, <2>1, <2>2, IndicatesFlow
  <1>9. ~Reading'
    BY <1>2, <1>8 DEF Reading
  <1>10. SocketInv'
    BY <1>1, <1>2, <1>8, <1>9
       DEF SocketInv, ReadSteps, ReadFlags, ReadSocket, ClosePhases, Held
  <1>11. ThreadInv'
    BY <1>1, <1>2, <1>8, <1>9
       DEF ThreadInv, OneCall, Unread, Closes, Alone, Network, ThreadState, Mqtt, Calls
  <1>12. QED
    BY <1>8, <1>10, <1>11

-----------------------------------------------------------------------------
(* The invariant.                                                          *)

LEMMA InitCallInv == Init => CallInv
  <1> SUFFICES ASSUME Init PROVE CallInv
    OBVIOUS
  <1>1. IInv
    BY InitIInv
  <1>2. queue = <<>> /\ uart = <<>> /\ cmds = <<>>
    BY DEF Init, DriverInit
  <1>3. DataFollows(<<>>)
    BY NoClasses, EmptySeq, LenProperties DEF DataFollows
  <1>4. /\ Queued = {} /\ Said = {} /\ Sent = {} /\ UnderWay = {}
        /\ Of(queue) = {} /\ Of(uart) = {} /\ Of(cmds) = {}
    BY <1>2, NoClasses DEF Queued, Said, Sent, UnderWay
  <1>5. FlowInv
    BY <1>2, <1>3, <1>4, NoClasses DEF FlowInv
  <1>6. ItemInv
    BY <1>4 DEF ItemInv
  <1>7. SocketInv /\ ~Reading
    BY <1>4 DEF SocketInv, ReadSteps, ReadFlags, ReadSocket, ClosePhases, Held, Reading,
                Init, DriverInit
  <1>8. ThreadInv
    BY <1>4, <1>7 DEF ThreadInv, OneCall, Unread, Closes, Alone, Network, ThreadState, Mqtt,
                      Calls, Init, DriverInit
  <1>9. QED
    BY <1>1, <1>5, <1>6, <1>7, <1>8 DEF CallInv

LEMMA NextCallInv ==
  ASSUME Prompt, CallInv, [Next]_vars
  PROVE  CallInv'
  <1>1. IInv'
    BY NextIInv DEF CallInv
  <1> SUFFICES FlowInv' /\ ItemInv' /\ SocketInv' /\ ThreadInv'
    BY <1>1 DEF CallInv
  <1>2. /\ QueueMax >= 7
        /\ "late" \notin Faults /\ "race" \notin Faults /\ "readkeep" \notin Faults
    BY DEF Prompt
  <1>3. CASE Thread
    BY <1>2, <1>3, ThreadKeeps
  <1>4. CASE TimerPop
    BY <1>4, TimerPopKeeps
  <1>5. CASE TimerChain
    BY <1>2, <1>5, TimerChainKeeps
  <1>6. CASE Driver
    <2>1. ~Timeout
      BY <1>2 DEF Timeout, Spend
    <2>2. CASE Parse /\ UNCHANGED stationVars
      BY <1>2, <2>2, ParseKeeps
    <2>3. CASE ModuleActs /\ UNCHANGED stationVars
      BY <1>2, <2>3, ModuleActsKeeps
    <2>4. QED
      BY <1>6, <2>1, <2>2, <2>3 DEF Driver, SysTick
  <1>7. CASE World
    BY <1>2, <1>7, JoinsKeeps, ServerClosesKeeps, DroppedKeeps DEF World
  <1>8. CASE UNCHANGED vars
    <2>1. UNCHANGED <<queue, uart, cmds>>
      BY <1>8 DEF vars, driverVars, moduleVars
    <2>2. /\ FlowInv' /\ Queued' = Queued /\ Said' = Said /\ Sent' = Sent
          /\ UnderWay' = UnderWay /\ Of(queue') = Of(queue) /\ Of(uart') = Of(uart)
          /\ Of(cmds') = Of(cmds)
      BY <2>1, SameFlow DEF CallInv
    <2>3. /\ UNCHANGED <<answered, response, stop, swallow, closing, closeId, closeCmd,
                         owed, query, queryId, startRead, reading, dataCb, dequeue, open,
                         openId, wind, tim>>
          /\ UNCHANGED <<assoc, alive, unread>>
          /\ UNCHANGED <<wifi_state, pc, sock, isconnected, inbox, started>>
      BY <1>8
         DEF vars, driverVars, moduleVars, mailbox, closeVars, readVars, openVars,
             stationVars
    <2>4. MeaningKept
      BY <2>3 DEF MeaningKept
    <2>5. ItemInv'
      BY <2>2, <2>4, ItemsKept DEF CallInv
    <2>6. Reading' <=> Reading
      BY <2>2, <2>3 DEF Reading
    <2>7. SocketInv'
      BY <2>2, <2>3, <2>6
         DEF CallInv, SocketInv, ReadSteps, ReadFlags, ReadSocket, ClosePhases, Held
    <2>8. ThreadInv'
      BY <2>2, <2>3, <2>6
         DEF CallInv, ThreadInv, OneCall, Unread, Closes, Alone, Network, ThreadState, Mqtt,
             Calls
    <2>9. QED
      BY <2>2, <2>5, <2>7, <2>8
  <1>9. QED
    BY <1>3, <1>4, <1>5, <1>6, <1>7, <1>8 DEF Next

-----------------------------------------------------------------------------
(* What the properties of the runs need of it.                             *)

\* The items of the thread's call: one at most in each sequence.
LEMMA CountOfThread ==
  ASSUME NEW q \in Seq(Items), Once(q),
         \A e \in Of(q) : Class(e) = "thread" <=> e.by = "thread" /\ e.kind # "reset"
  PROVE  Count(q) = IF "thread" \in Classes(q) THEN 1 ELSE 0
  <1> DEFINE I == {i \in DOMAIN q : q[i].by = "thread" /\ q[i].kind # "reset"}
  <1>1. I = {i \in DOMAIN q : Class(q[i]) = "thread"}
    BY DEF Of
  <1>2. Count(q) = Cardinality(I)
    BY DEF Count
  <1> HIDE DEF I
  <1>3. CASE "thread" \in Classes(q)
    <2>1. PICK i \in DOMAIN q : Class(q[i]) = "thread"
      BY <1>3 DEF Classes, Of
    <2>2. I = {i}
      BY <1>1, <2>1 DEF Once
    <2>3. QED
      BY <1>2, <1>3, <2>2, FS_Singleton
  <1>4. CASE "thread" \notin Classes(q)
    <2>1. I = {}
      BY <1>1, <1>4 DEF Classes, Of
    <2>2. QED
      BY <1>2, <1>4, <2>1, FS_EmptySet
  <1>5. QED
    BY <1>3, <1>4

LEMMA OfTheThread ==
  ASSUME CallInv
  PROVE  \A e \in Of(queue) \cup Of(uart) \cup Of(cmds) :
           Class(e) = "thread" <=> e.by = "thread" /\ e.kind # "reset"
  <1>1. ASSUME NEW e \in Of(queue)
        PROVE  Class(e) = "thread" <=> e.by = "thread" /\ e.kind # "reset"
    BY DEF CallInv, ItemInv, QueueKinds, News, Indications, Class
  <1>2. ASSUME NEW e \in Of(uart)
        PROVE  Class(e) = "thread" <=> e.by = "thread" /\ e.kind # "reset"
    BY DEF CallInv, ItemInv, UartKinds, News, Indications, Class
  <1>3. ASSUME NEW e \in Of(cmds)
        PROVE  Class(e) = "thread" <=> e.by = "thread" /\ e.kind # "reset"
    BY DEF CallInv, ItemInv, CmdKinds, Class
  <1>4. QED
    BY <1>1, <1>2, <1>3

LEMMA InvOneCall == CallInv => OneCallUnderWay
  <1> SUFFICES ASSUME CallInv PROVE OneCallUnderWay
    OBVIOUS
  <1>1. /\ TypeOK /\ FlowInv /\ OneCall
        /\ queue \in Seq(Items) /\ uart \in Seq(Items) /\ cmds \in Seq(Items)
    BY Sequences DEF CallInv, IInv, ThreadInv
  <1>2. /\ Count(queue) = IF "thread" \in Queued THEN 1 ELSE 0
        /\ Count(uart) = IF "thread" \in Said THEN 1 ELSE 0
        /\ Count(cmds) = IF "thread" \in Sent THEN 1 ELSE 0
    BY <1>1, OfTheThread, CountOfThread DEF FlowInv, Queued, Said, Sent
  <1>3. /\ ~("thread" \in Queued /\ "thread" \in Said)
        /\ ~("thread" \in Queued /\ "thread" \in Sent)
        /\ ~("thread" \in Said /\ "thread" \in Sent)
    BY <1>1 DEF FlowInv
  <1>4. /\ answered => "thread" \notin Queued /\ "thread" \notin Said /\ "thread" \notin Sent
        /\ pc \in {"scan", "config", "open", "connect", "value", "publish"}
             <=> answered \/ "thread" \in Queued \/ "thread" \in Said \/ "thread" \in Sent
    BY <1>1 DEF OneCall, Calls, UnderWay
  <1>5. CASE pc \in {"scan", "config", "open", "connect", "value", "publish"}
    <2>1. Count(queue) + Count(cmds) + Count(uart) + (IF answered THEN 1 ELSE 0) = 1
      BY <1>2, <1>3, <1>4, <1>5
    <2>2. QED
      BY <1>5, <2>1 DEF OneCallUnderWay
  <1>6. CASE pc \notin {"scan", "config", "open", "connect", "value", "publish"}
    <2>1. Count(queue) + Count(cmds) + Count(uart) + (IF answered THEN 1 ELSE 0) = 0
      BY <1>2, <1>3, <1>4, <1>6
    <2>2. QED
      BY <1>6, <2>1 DEF OneCallUnderWay
  <1>7. QED
    BY <1>5, <1>6

LEMMA InvAnswerBelongs == CallInv => AnswerBelongs
  BY DEF CallInv, ThreadInv, OneCall, Calls, AnswerBelongs

\* A read under way is a socket being read: no socket is about to be closed.
LEMMA InvNeverBlocks == CallInv => HandlerNeverBlocks
  <1> SUFFICES ASSUME CallInv, ReadUnderWay
               PROVE  /\ closeCmd \notin open
                      /\ uart # <<>> => Head(uart).kind # "EMPTY"
    BY DEF HandlerNeverBlocks
  <1>1. TypeOK /\ FlowInv /\ ItemInv /\ SocketInv /\ ThreadInv
    BY DEF CallInv, IInv
  <1>2. "DATA" \in Said \/ "OK" \in Said
    BY <1>1 DEF ReadUnderWay, SocketInv, ReadFlags
  <1>3. Reading
    BY <1>1, <1>2 DEF SocketInv, ReadSteps, Reading
  <1>4. closeCmd = None /\ None \notin open
    <2>1. closeCmd = None
      BY <1>1, <1>3 DEF ThreadInv, Closes
    <2>2. None \notin open
      BY <1>1, DriverAssumption DEF TypeOK, DriverTypeOK
    <2>3. QED
      BY <2>1, <2>2
  <1>5. ASSUME uart # <<>>, Head(uart).kind = "EMPTY" PROVE FALSE
    <2>1. /\ Head(uart) \in Of(uart) /\ Class(Head(uart)) \in Said
          /\ \A d \in Said : <<d, Class(Head(uart))>> \notin Precedes
      BY <1>1, <1>5, OldestMessage
    <2>2. Class(Head(uart)) = "query"
      BY <1>1, <1>5, <2>1 DEF ItemInv, UartKinds, News, Indications, Class
    <2>3. "DATA" \notin Said
      BY <1>1, <2>1, <2>2 DEF SocketInv, ReadSteps
    <2>4. "OK" \notin Said
      BY <2>1, <2>2 DEF Precedes
    <2>5. QED
      BY <1>2, <2>3, <2>4
  <1>6. QED
    BY <1>4, <1>5

LEMMA InvHeld == CallInv => HeldForAnAnswer
  <1> SUFFICES ASSUME CallInv, stop
               PROVE  \/ By(cmds, {"read", "close"}) \/ By(uart, {"read", "close"})
                      \/ startRead \/ query \/ dataCb
    BY DEF HeldForAnAnswer
  <1>1. ItemInv /\ SocketInv
    BY DEF CallInv
  <1>2. \/ query \/ startRead
        \/ "query" \in Said \/ "read" \in Said \/ "DATA" \in Said \/ "close" \in Said
        \/ "query" \in Sent \/ "read" \in Sent \/ "close" \in Sent
    BY <1>1 DEF SocketInv, Held, ClosePhases, Reading
  <1>3. ASSUME "query" \in Said \/ "read" \in Said \/ "DATA" \in Said \/ "close" \in Said
        PROVE  By(uart, {"read", "close"})
    <2>1. PICK i \in DOMAIN uart : Class(uart[i]) \in {"query", "read", "DATA", "close"}
      BY <1>3 DEF Said, Classes, Of
    <2>2. uart[i].by \in {"read", "close"}
      BY <1>1, <2>1 DEF ItemInv, Of, UartKinds, News, Indications, Class
    <2>3. QED
      BY <2>1, <2>2 DEF By
  <1>4. ASSUME "query" \in Sent \/ "read" \in Sent \/ "close" \in Sent
        PROVE  By(cmds, {"read", "close"})
    <2>1. PICK i \in DOMAIN cmds : Class(cmds[i]) \in {"query", "read", "close"}
      BY <1>4 DEF Sent, Classes, Of
    <2>2. cmds[i].by \in {"read", "close"}
      BY <1>1, <2>1 DEF ItemInv, Of, CmdKinds, Class
    <2>3. QED
      BY <2>1, <2>2 DEF By
  <1>5. QED
    BY <1>2, <1>3, <1>4

LEMMA InvData == CallInv => DataParsedAsData
  <1> SUFFICES ASSUME CallInv, uart # <<>>
               PROVE  /\ Head(uart).kind = "PART" => reading = "asked"
                      /\ Head(uart).kind = "DATA" <=> reading = "part"
                      /\ Head(uart).kind \in {"ERROR", "HASDATA"} =>
                           (reading # "no" <=> Head(uart).by = "read")
    BY DEF DataParsedAsData
  <1>1. TypeOK /\ FlowInv /\ ItemInv /\ SocketInv
    BY DEF CallInv, IInv
  <1>2. /\ Head(uart) \in Of(uart) /\ Class(Head(uart)) \in Said
        /\ \A d \in Said : <<d, Class(Head(uart))>> \notin Precedes
    BY <1>1, OldestMessage
  <1>3. /\ Head(uart).kind = "PART" <=> Class(Head(uart)) = "PART"
        /\ Head(uart).kind = "DATA" <=> Class(Head(uart)) = "DATA"
    BY <1>1, <1>2 DEF ItemInv, UartKinds, News, Indications, Class
  <1>4. ASSUME Head(uart).kind = "PART" PROVE reading = "asked"
    BY <1>1, <1>2, <1>3, <1>4 DEF SocketInv, ReadFlags
  <1>5. ASSUME Head(uart).kind = "DATA" PROVE reading = "part"
    <2>1. "DATA" \in Said /\ "PART" \notin Said
      BY <1>2, <1>3, <1>5 DEF Precedes
    <2>2. QED
      BY <1>1, <2>1 DEF SocketInv, ReadFlags
  <1>6. ASSUME reading = "part" PROVE Head(uart).kind = "DATA"
    <2>1. "DATA" \in Said /\ "PART" \notin Said
      BY <1>1, <1>6 DEF SocketInv, ReadFlags
    <2>2. PICK i \in DOMAIN uart : Class(uart[i]) = "DATA"
      BY <2>1 DEF Said, Classes, Of
    <2>3. Len(uart) \in Nat /\ DOMAIN uart = 1..Len(uart)
      BY <1>1, Sequences, LenProperties
    <2>4. i = 1
      <3>1. ASSUME i > 1, Class(uart[i - 1]) = "PART" PROVE FALSE
        <4>1. i - 1 \in DOMAIN uart
          BY <2>2, <2>3, <3>1
        <4>2. QED
          BY <2>1, <3>1, <4>1 DEF Said, Classes, Of
      <3>2. QED
        BY <1>1, <2>2, <3>1 DEF FlowInv, DataFollows
    <2>5. Head(uart) = uart[1]
      BY <1>1, Sequences, HeadTailProperties
    <2>6. QED
      BY <1>3, <2>2, <2>4, <2>5
  \* The failure of a read comes while it is recorded, another one while none is.
  <1>7. ASSUME Head(uart).kind \in {"ERROR", "HASDATA"}
        PROVE  reading # "no" <=> Head(uart).by = "read"
    <2>1. Head(uart).kind \in UartKinds(Head(uart).by)
      BY <1>1, <1>2 DEF ItemInv
    <2>2. CASE Head(uart).by = "read"
      <3>1. Class(Head(uart)) = "read"
        BY <1>7, <2>1, <2>2 DEF UartKinds, Class
      <3>2. QED
        BY <1>1, <1>2, <2>2, <3>1 DEF SocketInv, ReadFlags
    <2>3. CASE Head(uart).by # "read"
      <3>1. "thread" \in Said \/ "close" \in Said
        BY <1>2, <1>7, <2>1, <2>3 DEF UartKinds, News, Indications, Class
      <3>2. ~Reading
        BY <1>1, <3>1 DEF SocketInv, Held, ClosePhases
      <3>3. reading # "asked" /\ reading # "part"
        BY <1>1, <3>2 DEF SocketInv, ReadFlags, ReadSteps, Reading
      <3>4. QED
        BY <1>1, <2>3, <3>3 DEF TypeOK, DriverTypeOK
    <2>4. QED
      BY <2>2, <2>3
  <1>8. QED
    BY <1>4, <1>5, <1>6, <1>7

-----------------------------------------------------------------------------
(* The theorems.                                                           *)

\* Of each class one command, event or message is under way at most, they come in their
\* order, they say what is so of the sockets, and the flags of the driver, the thread and
\* the module agree on how far a read, a closing or a call has come.
THEOREM CallsKeepTheirOrder ==
  ASSUME Prompt
  PROVE  Spec => []CallInv
  <1>1. CallInv /\ [Next]_vars => CallInv'
    BY NextCallInv
  <1>2. QED
    BY InitCallInv, <1>1, PTL DEF Spec

\* The answer the thread takes is the answer to what it asked, though the driver reads
\* and closes sockets meanwhile with commands of its own (Process_Buffer: "There can be
\* only ONE outstanding AT command").
THEOREM AnswersBelong ==
  ASSUME Prompt
  PROVE  Spec => []AnswerBelongs
  BY CallsKeepTheirOrder, InvAnswerBelongs, PTL

\* A call of the thread has one command, event or answer under way until the thread takes
\* the answer, and there is none while it makes no call.
THEOREM CallsAreAnsweredOnce ==
  ASSUME Prompt
  PROVE  Spec => []OneCallUnderWay
  BY CallsKeepTheirOrder, InvOneCall, PTL

\* Neither the timer handler nor SysTick gets to Queue_Client_Close_Event while a read is
\* under way, whose end it would wait for.
THEOREM HandlersNeverBlock ==
  ASSUME Prompt
  PROVE  Spec => []HandlerNeverBlocks
  BY CallsKeepTheirOrder, InvNeverBlocks, PTL

\* Events are held back (stop_event_dequeue) only while a command of the driver is with
\* the module, its answer on the way, or a step of a read due, also when reads fail.
THEOREM EventsHeldForAnAnswer ==
  ASSUME Prompt
  PROVE  Spec => []HeldForAnAnswer
  BY CallsKeepTheirOrder, InvHeld, PTL

\* What the module sends is parsed as the data of a socket when it is that, and only then;
\* a failure in the place of the data ends the read it belongs to, and no other does.
THEOREM DataIsParsedAsData ==
  ASSUME Prompt
  PROVE  Spec => []DataParsedAsData
  BY CallsKeepTheirOrder, InvData, PTL

-----------------------------------------------------------------------------
(* The sockets: of the driver, of the module and of the thread.            *)

\* The access point keeps the module, and the driver may have a socket.
Steady == Faults \cap {"deauth", "disassoc"} = {} /\ MaxClients >= 1

JoinNews == {"UP", "JOINFAILED"}

\* Before the module has joined the network there is no socket; once it has, it does
\* not join again.
Joined ==
  /\ "drop" \notin UnderWay /\ wind \notin {"DEAUTH", "DISASSOC"}
  /\ ~wifi_connected => /\ alive = {} /\ open = {} /\ ~closedCb
                        /\ pc \in {"loop", "scan", "config", "reset"}
                        /\ wifi_state \in {"ready", "idle", "disconnected", "reconnect"}
  /\ wifi_connected => /\ assoc # "joining" /\ pc \notin {"scan", "config", "reset"}
                       /\ wifi_state \in {"mqtt_socket_create", "mqtt_connect", "mqtt_pub"}
  /\ "join" \in UnderWay \/ wind \in JoinNews \/ (assoc = "joining" /\ pc # "reset")
       => ~wifi_connected /\ wifi_state = "idle" /\ pc = "loop"
  /\ wind \in JoinNews => assoc # "joining" /\ "join" \notin UnderWay

\* One socket at most, which is counted, and which the program knows.
OneSocket ==
  /\ \A s, u \in open \cup alive : s = u
  /\ clients = IF open = {} THEN 0 ELSE 1
  /\ pc = "open" => open = IF answered /\ response.ok THEN {openId} ELSE {}
  /\ pc # "open" => open \subseteq {sock}

\* The ID of a new socket is on its way to the driver.
Opening ==
  /\ pc = "open" /\ ~answered /\ "thread" \in Queued \cup Said
  /\ \A e \in Of(queue) \cup Of(uart) : e.by = "thread" => e.kind = "ID"

\* The module is ahead of the driver by an ID, or by the answer to a closing.
Ahead ==
  /\ alive \subseteq open \/ Opening
  /\ open \subseteq alive \/ "close" \in Said
  /\ \A e \in Of(queue) \cup Of(uart) \cup Of(cmds) : e.kind \in {"ID", "open"} => pc = "open"

\* No socket is forgotten: when the program is to open one, it has none, or is
\* closing it.
Forgotten ==
  /\ closedCb => open = {} /\ pc \in {"closed", "delay"}
  /\ wifi_state = "mqtt_socket_create" /\ pc \notin {"open", "closed"} => open = {}
  /\ pc = "closed" => open = {} \/ "close" \in UnderWay \/ owed # {}

AgreeInv == Joined /\ OneSocket /\ Ahead /\ Forgotten

LEMMA InitAgrees == Init => AgreeInv
  <1> SUFFICES ASSUME Init PROVE AgreeInv
    OBVIOUS
  <1>1. queue = <<>> /\ uart = <<>> /\ cmds = <<>>
    BY DEF Init, DriverInit
  <1>2. UnderWay = {} /\ Of(queue) = {} /\ Of(uart) = {} /\ Of(cmds) = {}
    BY <1>1, NoClasses DEF UnderWay, Queued, Said, Sent
  <1>3. QED
    BY <1>2 DEF Init, DriverInit, AgreeInv, Joined, OneSocket, Ahead, Forgotten, JoinNews, None

\* A step that leaves the sockets alone, and of the items what speaks of them.
SocketsLeft ==
  /\ UNCHANGED <<open, clients, openId, alive, pc, sock, wifi_state, wifi_connected, closedCb,
                 assoc>>
  /\ wind' \in {wind, None}
  /\ UNCHANGED <<answered, response>> \/ pc # "open"

LEMMA AgreeKept ==
  ASSUME AgreeInv, SocketsLeft,
         \A e \in Of(queue') \cup Of(uart') :
           \/ e \in Of(queue) \cup Of(uart)
           \/ e.kind \notin {"ID", "open"} /\ (e.by # "thread" \/ ~Opening),
         \A e \in Of(cmds') : e \in Of(cmds) \/ (e.kind \in {"ID", "open"} => pc = "open"),
         "thread" \in Queued \cup Said => "thread" \in Queued' \cup Said' \/ ~Opening,
         "drop" \notin UnderWay', "join" \in UnderWay' => "join" \in UnderWay,
         open \subseteq alive \/ "close" \in Said',
         pc = "closed" => open = {} \/ "close" \in UnderWay' \/ owed' # {}
  PROVE  AgreeInv'
  <1> USE DEF AgreeInv, SocketsLeft
  <1>1. Joined'
    BY DEF Joined, JoinNews, None
  <1>2. OneSocket'
    BY DEF OneSocket
  <1>3. Opening => Opening'
    BY DEF Opening
  <1>4. Ahead'
    <2>1. alive' \subseteq open' \/ Opening'
      BY <1>3 DEF Ahead
    <2>2. \A e \in (Of(queue') \cup Of(uart')) \cup Of(cmds') :
            e.kind \in {"ID", "open"} => pc' = "open"
      BY DEF Ahead
    <2>3. QED
      BY <2>1, <2>2 DEF Ahead
  <1>5. Forgotten'
    BY DEF Forgotten
  <1>6. QED
    BY <1>1, <1>2, <1>4, <1>5

\* The timer handler takes an event.
LEMMA PopAgrees ==
  ASSUME Steady, CallInv, AgreeInv, TimerPop
  PROVE  AgreeInv'
  <1>0. PICK e : e = Head(queue)
    OBVIOUS
  <1>1. /\ TypeOK /\ FlowInv /\ ItemInv /\ SocketInv /\ ThreadInv /\ queue # <<>>
        /\ e \in Items /\ e \in Of(queue) /\ e.kind \in QueueKinds(e.by)
        /\ Told(e) /\ Asked(e) /\ Class(e) \in Queued \ (Said \cup Sent)
        /\ UNCHANGED <<owed, uart, assoc, alive, wifi_state, pc, sock>>
    BY <1>0, PopBase
  <1>2. /\ UNCHANGED <<closedCb, wifi_connected>> /\ wind = None
        /\ wind' = IF e.kind \in Indications THEN e.kind ELSE None
    BY <1>0, <1>1 DEF TimerPop, Pop, stationVars, ThreadInv, Network
  <1>3. /\ Queued' = Queued \ {Class(e)} /\ Said' = Said
        /\ Of(queue') \subseteq Of(queue) /\ Of(uart') = Of(uart)
    <2>1. queue' = Tail(queue) /\ uart' = uart
      BY <1>1 DEF TimerPop, Pop
    <2>2. queue \in Seq(Items) /\ Once(queue) /\ InOrder(queue)
      BY <1>1, Sequences DEF FlowInv
    <2>3. Queued' = Queued \ {Class(e)} /\ Of(queue') \subseteq Of(queue)
      BY <1>0, <1>1, <2>1, <2>2, TailClasses DEF Queued
    <2>4. QED
      BY <2>1, <2>3 DEF Said
  <1> DEFINE k == Class(e)
  <1>4. ASSUME UNCHANGED cmds
        PROVE  /\ Of(cmds') = Of(cmds) /\ Sent' = Sent
               /\ UnderWay' = (UnderWay \ {k})
    BY <1>1, <1>3, <1>4 DEF Sent, UnderWay
  <1>5. ASSUME NEW d \in Items, cmds' = Append(cmds, d), Class(d) = k
        PROVE  /\ Of(cmds') = Of(cmds) \cup {d} /\ Sent' = Sent \cup {k}
               /\ UnderWay' = UnderWay
    <2>1. Of(cmds') = Of(cmds) \cup {d} /\ Sent' = Sent \cup {k}
      BY <1>1, <1>5, Sequences, AppendClasses DEF Sent
    <2>2. QED
      BY <1>1, <1>3, <2>1 DEF UnderWay
  <1>6. CASE PopId(e)
    <2>1. /\ e.kind = "ID" /\ e.by = "thread" /\ k = "thread" /\ e.sock \in alive /\ pc = "open"
          /\ UNCHANGED cmds
      BY <1>1, <1>6 DEF PopId, QueueKinds, News, Indications, Told, Class, AgreeInv, Ahead
    <2>2. open = {} /\ clients = 0
      BY <1>1, <2>1 DEF ThreadInv, OneCall, UnderWay, AgreeInv, OneSocket
    <2>3. /\ clients' = 1 /\ open' = {e.sock} /\ openId' = e.sock
          /\ answered' = TRUE /\ response'.ok = TRUE
      <3>1. ~(clients + 1 > MaxClients)
        BY <2>2, DriverAssumption DEF Steady
      <3>2. QED
        BY <1>6, <2>2, <3>1 DEF PopId, Answer
    <2>4. alive = {e.sock}
      BY <2>1 DEF AgreeInv, OneSocket
    <2>5. wind' = None /\ UnderWay' \subseteq UnderWay
      BY <1>2, <1>4, <2>1 DEF Indications
    <2>6. Joined'
      BY <1>1, <1>2, <2>1, <2>5 DEF AgreeInv, Joined, None, JoinNews
    <2>7. OneSocket'
      BY <1>1, <2>1, <2>3, <2>4 DEF OneSocket
    <2>8. Ahead'
      BY <1>1, <1>3, <1>4, <2>1, <2>3, <2>4 DEF AgreeInv, Ahead
    <2>9. Forgotten'
      BY <1>1, <1>2, <2>1 DEF AgreeInv, Forgotten
    <2>10. QED
      BY <2>6, <2>7, <2>8, <2>9 DEF AgreeInv
  <1>7. CASE PopAnswer(e)
    <2>1. /\ e.kind \in {"OK", "VALUE", "ERROR"} /\ e.by = "thread" /\ k = "thread"
          /\ answered' = TRUE /\ response' = [ok |-> e.kind # "ERROR", by |-> e.by]
          /\ UNCHANGED <<cmds, open, clients, openId>>
      BY <1>1, <1>7 DEF PopAnswer, QueueKinds, News, Indications, Class, Answer, openVars
    <2>2. ~Opening /\ alive \subseteq open
      BY <1>1, <2>1 DEF Opening, AgreeInv, Ahead
    <2>3. pc = "open" => ~response'.ok /\ open = {}
      <3>1. pc = "open" => e.kind = "ERROR"
        BY <1>1, <2>1 DEF Told
      <3>2. ~answered
        BY <1>1, <2>1 DEF ThreadInv, OneCall, UnderWay
      <3>3. QED
        BY <2>1, <3>1, <3>2 DEF AgreeInv, OneSocket
    <2>4. wind' = None /\ UnderWay' \subseteq UnderWay
      BY <1>2, <1>4, <2>1 DEF Indications
    <2>5. Joined'
      BY <1>1, <1>2, <2>1, <2>4 DEF AgreeInv, Joined, None, JoinNews
    <2>6. OneSocket'
      BY <1>1, <2>1, <2>3 DEF AgreeInv, OneSocket
    <2>7. Ahead'
      BY <1>1, <1>3, <1>4, <2>1, <2>2 DEF AgreeInv, Ahead
    <2>8. Forgotten'
      BY <1>1, <1>2, <1>4, <2>1 DEF AgreeInv, Forgotten
    <2>9. QED
      BY <2>5, <2>6, <2>7, <2>8 DEF AgreeInv
  <1>8. CASE PopIndication(e)
    <2>1. /\ e.kind \in Indications /\ k \in {"ON", "join", "drop"}
          /\ k = "join" <=> e.kind \in JoinNews
          /\ UNCHANGED <<cmds, open, clients, openId, answered, response>>
      BY <1>1, <1>8 DEF PopIndication, QueueKinds, News, Indications, Class, JoinNews, openVars,
                        mailbox
    <2>2. wind' = e.kind /\ UnderWay' = UnderWay \ {k} /\ Of(cmds') = Of(cmds)
      BY <1>2, <1>4, <2>1
    <2>3. k # "drop" /\ e.kind \notin {"DEAUTH", "DISASSOC"}
      BY <1>1, <2>1 DEF AgreeInv, Joined, UnderWay, Class, QueueKinds, JoinNews
    <2>4. k = "join" => assoc # "joining"
      BY <1>1 DEF ThreadInv, Network, AgreeInv, Joined, UnderWay
    <2>5. Joined'
      BY <1>1, <1>2, <2>1, <2>2, <2>3, <2>4 DEF AgreeInv, Joined, UnderWay
    <2>6. OneSocket'
      BY <1>1, <2>1 DEF AgreeInv, OneSocket
    <2>7. Opening => Opening'
      BY <1>1, <1>3, <2>1 DEF Opening
    <2>8. Ahead'
      BY <1>1, <1>3, <2>1, <2>2, <2>7 DEF AgreeInv, Ahead
    <2>9. Forgotten'
      BY <1>1, <1>2, <2>1, <2>2 DEF AgreeInv, Forgotten
    <2>10. QED
      BY <2>5, <2>6, <2>8, <2>9 DEF AgreeInv
  <1>9. CASE PopPending(e) \/ PopClosed(e)
    <2>1. /\ k \in {"PENDING", "CLOSED"} /\ e.kind \notin Indications
          /\ UNCHANGED <<cmds, open, clients, openId, answered, response>>
      BY <1>1, <1>9 DEF PopPending, PopClosed, QueueKinds, News, Indications, Class, openVars,
                        mailbox
    <2>2. SocketsLeft
      BY <1>1, <1>2, <2>1 DEF SocketsLeft
    <2>3. UnderWay' = UnderWay \ {k} /\ Of(cmds') = Of(cmds)
      BY <1>4, <2>1
    <2>4. \A i \in Of(queue') \cup Of(uart') : i \in Of(queue) \cup Of(uart)
      BY <1>3
    <2>5. /\ "drop" \notin UnderWay'
          /\ "join" \in UnderWay' => "join" \in UnderWay
          /\ "thread" \in Queued \cup Said => "thread" \in Queued' \cup Said'
      BY <1>3, <2>1, <2>3 DEF AgreeInv, Joined
    <2>6. /\ open \subseteq alive \/ "close" \in Said'
          /\ pc = "closed" => open = {} \/ "close" \in UnderWay' \/ owed' # {}
      BY <1>1, <1>3, <2>1, <2>3 DEF AgreeInv, Ahead, Forgotten
    <2>7. QED
      BY <2>2, <2>3, <2>4, <2>5, <2>6, AgreeKept
  <1>10. CASE PopCommand(e)
    <2>1. /\ e.kind \in {"OPEN", "CONNECT", "PUBLISH"} /\ e.by = "thread" /\ k = "thread"
          /\ e.kind = "OPEN" => pc = "open"
          /\ UNCHANGED <<open, clients, openId, answered, response>>
      BY <1>1, <1>10 DEF PopCommand, QueueKinds, News, Indications, Class, openVars, mailbox,
                         Asked
    <2>2. PICK d \in Items :
            /\ cmds' = Append(cmds, d) /\ d.by = "thread"
            /\ d.kind \in {"open", "connect", "publish"}
            /\ d.kind = "open" => pc = "open"
      <3>1. PICK c \in {"open", "connect", "publish"} :
              /\ cmds' = Append(cmds, Item(c, e.sock, e.by))
              /\ c = "open" => e.kind = "OPEN"
        <4>1. CASE e.kind = "OPEN"
          BY <1>10, <4>1 DEF PopCommand, Send
        <4>2. CASE e.kind = "CONNECT"
          BY <1>10, <4>2 DEF PopCommand, Send
        <4>3. CASE e.kind = "PUBLISH"
          BY <1>10, <4>3 DEF PopCommand, Send
        <4>4. QED
          BY <2>1, <4>1, <4>2, <4>3
      <3>2. PICK d : d = Item(c, e.sock, e.by)
        OBVIOUS
      <3>3. d \in Items /\ d.by = "thread" /\ d.kind = c
        BY <1>1, <2>1, <3>2 DEF Item, Items, Kinds, Askers
      <3>4. QED
        BY <2>1, <3>1, <3>2, <3>3
    <2>3. Class(d) = k
      BY <2>1, <2>2 DEF Class
    <2>4. UnderWay' = UnderWay /\ Of(cmds') = Of(cmds) \cup {d}
      BY <1>5, <2>2, <2>3
    <2>5. ~Opening /\ e.kind \notin Indications
      BY <1>1, <2>1 DEF Opening, Indications
    <2>6. SocketsLeft
      BY <1>1, <1>2, <2>1, <2>5 DEF SocketsLeft
    <2>7. \A i \in Of(queue') \cup Of(uart') : i \in Of(queue) \cup Of(uart)
      BY <1>3
    <2>8. \A i \in Of(cmds') : i \in Of(cmds) \/ (i.kind \in {"ID", "open"} => pc = "open")
      BY <2>2, <2>4
    <2>9. /\ "drop" \notin UnderWay'
          /\ "join" \in UnderWay' => "join" \in UnderWay
          /\ open \subseteq alive \/ "close" \in Said'
          /\ pc = "closed" => open = {} \/ "close" \in UnderWay' \/ owed' # {}
      BY <1>1, <1>3, <2>4 DEF AgreeInv, Joined, Ahead, Forgotten
    <2>10. QED
      BY <2>5, <2>6, <2>7, <2>8, <2>9, AgreeKept
  <1>11. CASE PopClose(e)
    <2>1. /\ e.kind = "CLOSE" /\ e.by = "close" /\ k = "close" /\ e.sock \in alive
          /\ UNCHANGED <<open, clients, openId>> /\ pc \in {"closed", "delay"}
      BY <1>1, <1>11 DEF PopClose, QueueKinds, News, Indications, Class, openVars, Told,
                         ThreadInv, Closes, UnderWay
    <2>2. e.sock \in open
      BY <2>1 DEF AgreeInv, Ahead, Opening
    <2>3. PICK d : d = Item("close", e.sock, "close")
      OBVIOUS
    <2>4. cmds' = Append(cmds, d)
      BY <1>11, <2>2, <2>3 DEF PopClose, Send
    <2>5. d \in Items /\ d.kind = "close" /\ Class(d) = k
      BY <1>1, <2>1, <2>3 DEF Item, Items, Kinds, Askers, Class
    <2>6. UnderWay' = UnderWay /\ Of(cmds') = Of(cmds) \cup {d}
      BY <1>5, <2>4, <2>5
    <2>7. SocketsLeft
      BY <1>1, <1>2, <2>1 DEF SocketsLeft, Indications
    <2>8. \A i \in Of(queue') \cup Of(uart') : i \in Of(queue) \cup Of(uart)
      BY <1>3
    <2>9. \A i \in Of(cmds') : i \in Of(cmds) \/ (i.kind \in {"ID", "open"} => pc = "open")
      BY <2>5, <2>6
    <2>10. /\ "drop" \notin UnderWay'
           /\ "join" \in UnderWay' => "join" \in UnderWay
           /\ open \subseteq alive \/ "close" \in Said'
           /\ pc = "closed" => open = {} \/ "close" \in UnderWay' \/ owed' # {}
           /\ ~Opening
      BY <1>1, <1>3, <2>1, <2>6 DEF AgreeInv, Joined, Ahead, Forgotten, Opening
    <2>11. QED
      BY <2>7, <2>8, <2>9, <2>10, AgreeKept
  <1>12. QED
    BY <1>0, <1>6, <1>7, <1>8, <1>9, <1>10, <1>11 DEF TimerPop, Pop

\* What the second step of the timer handler adds to the items.
LEMMA ChainItems ==
  ASSUME CallInv, TimerChain
  PROVE  /\ Said' = Said /\ Of(uart') = Of(uart) /\ Queued \subseteq Queued'
         /\ UnderWay \subseteq UnderWay'
         /\ UnderWay' \subseteq UnderWay \cup {"read", "query", "close"}
         /\ \A e \in Of(queue') : e \in Of(queue) \/ (e.kind = "CLOSE" /\ e.by = "close")
         /\ \A e \in Of(cmds') : e \in Of(cmds) \/ e.kind \in {"read", "query"}
  <1>1. /\ queue \in Seq(Items) /\ cmds \in Seq(Items) /\ UNCHANGED uart
        /\ queryId \in Sockets \cup {None} /\ closeCmd \in Sockets \cup {None}
    BY ChainBase, Sequences DEF TypeOK, DriverTypeOK
  <1>2. \/ UNCHANGED cmds
        \/ \E c \in {"read", "query"} : cmds' = Append(cmds, Item(c, queryId, "read"))
    BY DEF TimerChain, Chain, ChainRead, ChainQuery, ChainData, ChainClose, ChainClosed,
           ChainNothing, Send
  <1>3. \/ UNCHANGED queue
        \/ queue' = Append(queue, Item("CLOSE", closeCmd, "close"))
    BY DEF TimerChain, Chain, ChainRead, ChainQuery, ChainData, ChainClose, ChainClosed,
           ChainNothing, QueueClose, Push
  <1>4. /\ Sent \subseteq Sent' /\ Sent' \subseteq Sent \cup {"read", "query"}
        /\ \A e \in Of(cmds') : e \in Of(cmds) \/ e.kind \in {"read", "query"}
    <2>1. ASSUME NEW c \in {"read", "query"}, NEW d, d = Item(c, queryId, "read"),
                 cmds' = Append(cmds, d)
          PROVE  Of(cmds') = Of(cmds) \cup {d} /\ d.kind = c /\ Sent' = Sent \cup {c}
      <3>1. d \in Items /\ d.kind = c /\ Class(d) = c
        BY <1>1, <2>1 DEF Item, Items, Kinds, Askers, Class
      <3>2. QED
        BY <1>1, <2>1, <3>1, AppendClasses DEF Sent
    <2>2. CASE UNCHANGED cmds
      BY <2>2 DEF Sent
    <2>3. QED
      BY <1>2, <2>1, <2>2
  <1>5. /\ Queued \subseteq Queued' /\ Queued' \subseteq Queued \cup {"close"}
        /\ \A e \in Of(queue') : e \in Of(queue) \/ (e.kind = "CLOSE" /\ e.by = "close")
    <2>1. ASSUME NEW d, d = Item("CLOSE", closeCmd, "close"), queue' = Append(queue, d)
          PROVE  /\ Of(queue') = Of(queue) \cup {d} /\ d.kind = "CLOSE" /\ d.by = "close"
                 /\ Queued' = Queued \cup {"close"}
      <3>1. d \in Items /\ d.kind = "CLOSE" /\ d.by = "close" /\ Class(d) = "close"
        BY <1>1, <2>1 DEF Item, Items, Kinds, Askers, Class
      <3>2. QED
        BY <1>1, <2>1, <3>1, AppendClasses DEF Queued
    <2>2. CASE UNCHANGED queue
      BY <2>2 DEF Queued
    <2>3. QED
      BY <1>3, <2>1, <2>2
  <1>6. Said' = Said /\ Of(uart') = Of(uart)
    BY <1>1 DEF Said
  <1>7. QED
    BY <1>4, <1>5, <1>6 DEF UnderWay

\* The timer handler does what is due, and tells the program.
LEMMA ChainAgrees ==
  ASSUME CallInv, AgreeInv, TimerChain
  PROVE  AgreeInv'
  <1>1. /\ UNCHANGED <<answered, response, owed, open, clients, openId, alive, assoc, pc, sock>>
        /\ wind' = None /\ wind \notin {"DEAUTH", "DISASSOC"}
    BY DEF TimerChain, Chain, mailbox, openVars, AgreeInv, Joined
  <1>2. /\ Said' = Said /\ Of(uart') = Of(uart) /\ Queued \subseteq Queued'
        /\ UnderWay \subseteq UnderWay'
        /\ UnderWay' \subseteq UnderWay \cup {"read", "query", "close"}
        /\ \A e \in Of(queue') : e \in Of(queue) \/ (e.kind = "CLOSE" /\ e.by = "close")
        /\ \A e \in Of(cmds') : e \in Of(cmds) \/ e.kind \in {"read", "query"}
    BY ChainItems
  <1>3. closedCb' = closedCb \/ ClosedDue
    BY DEF TimerChain, Chain, ChainRead, ChainQuery, ChainData, ChainClose, ChainClosed,
           ChainNothing
  <1>4. closedCb' => closedCb
    BY DEF TimerChain, Chain, ChainRead, ChainQuery, ChainData, ChainClose, ChainClosed,
           ChainNothing
  <1>5. OneSocket'
    BY <1>1 DEF AgreeInv, OneSocket
  <1>6. Ahead'
    <2>1. Opening => Opening'
      BY <1>1, <1>2 DEF Opening
    <2>2. QED
      BY <1>1, <1>2, <2>1 DEF AgreeInv, Ahead
  <1>7. CASE wind \in JoinNews
    <2>1. /\ ~wifi_connected /\ wifi_state = "idle" /\ pc = "loop" /\ assoc # "joining"
          /\ "join" \notin UnderWay /\ "drop" \notin UnderWay
          /\ open = {} /\ alive = {} /\ ~closedCb
      BY <1>7 DEF AgreeInv, Joined
    <2>2. IF wind = "UP" THEN wifi_connected' /\ wifi_state' = "mqtt_socket_create"
          ELSE ~wifi_connected' /\ wifi_state' = "disconnected"
      <3>1. CASE wind = "UP"
        BY <2>1, <3>1 DEF TimerChain
      <3>2. CASE wind = "JOINFAILED"
        BY <2>1, <3>2 DEF TimerChain
      <3>3. QED
        BY <1>7, <3>1, <3>2 DEF JoinNews
    <2>3. Joined'
      BY <1>1, <1>2, <1>4, <2>1, <2>2 DEF Joined, JoinNews, None
    <2>4. Forgotten'
      BY <1>1, <1>4, <2>1, <2>2 DEF Forgotten
    <2>5. QED
      BY <1>5, <1>6, <2>3, <2>4 DEF AgreeInv
  <1>8. CASE wind \notin JoinNews
    <2>1. wifi_state' = AfterClosed /\ wifi_connected' = wifi_connected
      <3>1. wind # "UP" /\ wind # "JOINFAILED" /\ wind # "DEAUTH" /\ wind # "DISASSOC"
        BY <1>1, <1>8 DEF JoinNews
      <3>2. wifi_connected \in BOOLEAN
        BY DEF CallInv, IInv, TypeOK
      <3>3. QED
        BY <3>1, <3>2 DEF TimerChain
    <2>2. CASE ClosedDue
      <3>1. closedCb /\ open = {} /\ wifi_connected /\ pc \in {"closed", "delay"}
        BY <2>2 DEF ClosedDue, AgreeInv, Joined, Forgotten
      <3>2. wifi_state' = "mqtt_socket_create"
        BY <2>1, <2>2, <3>1 DEF AfterClosed, AgreeInv, Joined
      <3>3. Joined'
        BY <1>1, <1>2, <2>1, <3>1, <3>2 DEF AgreeInv, Joined, JoinNews, None
      <3>4. Forgotten'
        BY <1>1, <1>4, <3>1 DEF Forgotten
      <3>5. QED
        BY <1>5, <1>6, <3>3, <3>4 DEF AgreeInv
    <2>3. CASE ~ClosedDue
      <3>1. UNCHANGED <<wifi_state, closedCb>>
        BY <1>3, <2>1, <2>3 DEF AfterClosed
      <3>2. Joined'
        BY <1>1, <1>2, <2>1, <3>1 DEF AgreeInv, Joined, JoinNews, None
      <3>3. Forgotten'
        BY <1>1, <1>2, <3>1 DEF AgreeInv, Forgotten
      <3>4. QED
        BY <1>5, <1>6, <3>2, <3>3 DEF AgreeInv
    <2>4. QED
      BY <2>2, <2>3
  <1>9. QED
    BY <1>7, <1>8

\* What a step of the thread adds to the items.
LEMMA ThreadItems ==
  ASSUME CallInv, QueueMax >= 7, Thread
  PROVE  /\ UNCHANGED DriverKept /\ Said' = Said /\ Of(uart') = Of(uart)
         /\ UnderWay \subseteq UnderWay'
         /\ UnderWay' \subseteq UnderWay \cup {"thread", "ON", "close"}
         /\ \A e \in Of(queue') : e \in Of(queue) \/ e.kind \in {"OPEN", "CONNECT", "PUBLISH", "CLOSE"}
         /\ \A e \in Of(cmds') : e \in Of(cmds) \/ e.kind \in {"scan", "config", "reset", "value"}
         /\ SocketClosed => "close" \in UnderWay'
  <1>1. /\ TypeOK /\ FlowInv /\ ItemInv /\ SocketInv /\ ThreadInv
        /\ queue \in Seq(Items) /\ cmds \in Seq(Items) /\ sock \in Sockets \cup {None}
    BY Sequences DEF CallInv, IInv, TypeOK
  <1> DEFINE Sends == \E kind \in {"scan", "config", "reset", "value"} :
                        cmds' = Append(cmds, Item(kind, None, "thread")) /\ UNCHANGED queue
             Queues == \E kind \in {"OPEN", "CONNECT", "PUBLISH"}, s \in Sockets \cup {None} :
                         Push(Item(kind, s, "thread")) /\ UNCHANGED cmds
  <1>2. /\ UNCHANGED DriverKept
        /\ \/ UNCHANGED <<queue, cmds>> /\ pc # "close"
           \/ Sends /\ pc # "close"
           \/ Queues /\ pc # "close"
           \/ SocketClosed /\ Push(Item("CLOSE", sock, "close")) /\ UNCHANGED cmds
    <2>1. CASE Scan \/ Reconnect \/ ChannelAsked
      BY <2>1 DEF Scan, Reconnect, ChannelAsked, Commands, Send, Turn, WaitsFor
    <2>2. CASE Scanned \/ Configured \/ ChannelRead
      BY <2>2 DEF Scanned, Configured, ChannelRead, Answered, Send, WaitsFor
    <2>3. CASE MqttSocketCreate \/ MqttConnectCall
      BY <1>1, <2>3 DEF MqttSocketCreate, MqttConnectCall, Asks, Turn
    <2>4. CASE MqttPublish
      BY <1>1, <2>4 DEF MqttPublish, Asks, NoCall, Turn
    <2>5. CASE SocketClosed
      BY <2>5 DEF SocketClosed, QueueClose
    <2>6. CASE Disconnected \/ IsReset \/ WithoutWifi \/ Connack \/ ChannelKnown \/ NoNewData
               \/ Delay
      BY <2>6 DEF Disconnected, IsReset, WithoutWifi, Connack, ChannelKnown, NoNewData, Delay,
                  NoCall, Turn, WaitsFor
    <2>7. CASE MqttConnectRefused \/ ConnectSent \/ ConnackTimeout
      BY <2>7 DEF MqttConnectRefused, ConnectSent, ConnackTimeout, Turn, WaitsFor
    <2>8. CASE SocketCreated \/ Published
      BY <2>8 DEF SocketCreated, Published, Answered, WaitsFor
    <2>9. QED
      BY <2>1, <2>2, <2>3, <2>4, <2>5, <2>6, <2>7, <2>8 DEF Thread
  <1>3. Said' = Said /\ Of(uart') = Of(uart)
    BY <1>2 DEF DriverKept, Said
  <1>4. SocketClosed => pc = "close"
    BY DEF SocketClosed, WaitsFor
  <1>5. CASE UNCHANGED <<queue, cmds>> /\ pc # "close"
    <2>1. Queued' = Queued /\ Sent' = Sent /\ UnderWay' = UnderWay
      BY <1>3, <1>5 DEF Queued, Sent, UnderWay
    <2>2. QED
      BY <1>2, <1>3, <1>4, <1>5, <2>1
  <1>6. CASE Sends /\ pc # "close"
    <2>1. PICK kind \in {"scan", "config", "reset", "value"} :
            cmds' = Append(cmds, Item(kind, None, "thread")) /\ UNCHANGED queue
      BY <1>6
    <2>2. PICK d : d = Item(kind, None, "thread")
      OBVIOUS
    <2>3. d \in Items /\ d.kind = kind /\ Class(d) \in {"thread", "ON"}
      BY <2>2 DEF Item, Items, Kinds, Askers, Class
    <2>4. Of(cmds') = Of(cmds) \cup {d} /\ Sent' = Sent \cup {Class(d)}
      BY <1>1, <2>1, <2>2, <2>3, AppendClasses DEF Sent
    <2>5. Queued' = Queued /\ Of(queue') = Of(queue)
      BY <2>1 DEF Queued
    <2>6. QED
      BY <1>2, <1>3, <1>4, <1>6, <2>3, <2>4, <2>5 DEF UnderWay
  <1>7. ASSUME NEW kind \in {"OPEN", "CONNECT", "PUBLISH", "CLOSE"},
               NEW s \in Sockets \cup {None}, NEW by \in {"thread", "close"},
               Push(Item(kind, s, by)), UNCHANGED cmds
        PROVE  /\ Queued \subseteq Queued' /\ Queued' \subseteq Queued \cup {"thread", "close"}
               /\ \A e \in Of(queue') : e \in Of(queue) \/ e.kind = kind
               /\ Sent' = Sent /\ Of(cmds') = Of(cmds)
               /\ Len(queue) < QueueMax => by \in Queued'
    <2>1. PICK d : d = Item(kind, s, by)
      OBVIOUS
    <2>2. d \in Items /\ d.kind = kind /\ Class(d) = by
      BY <1>7, <2>1 DEF Item, Items, Kinds, Askers, Class
    <2>3. Sent' = Sent /\ Of(cmds') = Of(cmds)
      BY <1>7 DEF Sent
    <2>4. queue' = Append(queue, d) \/ (queue' = queue /\ ~(Len(queue) < QueueMax))
      BY <1>7, <2>1 DEF Push
    <2>5. CASE queue' = Append(queue, d)
      <3>1. Of(queue') = Of(queue) \cup {d} /\ Queued' = Queued \cup {by}
        BY <1>1, <2>2, <2>5, AppendClasses DEF Queued
      <3>2. QED
        BY <1>7, <2>2, <2>3, <3>1
    <2>6. CASE queue' = queue /\ ~(Len(queue) < QueueMax)
      BY <2>3, <2>6 DEF Queued
    <2>7. QED
      BY <2>4, <2>5, <2>6
  <1>8. CASE Queues /\ pc # "close"
    <2>1. PICK kind \in {"OPEN", "CONNECT", "PUBLISH"}, s \in Sockets \cup {None} :
            Push(Item(kind, s, "thread")) /\ UNCHANGED cmds
      BY <1>8
    <2>2. /\ Queued \subseteq Queued' /\ Queued' \subseteq Queued \cup {"thread", "close"}
          /\ \A e \in Of(queue') : e \in Of(queue) \/ e.kind = kind
          /\ Sent' = Sent /\ Of(cmds') = Of(cmds)
      BY <1>7, <2>1
    <2>3. QED
      BY <1>2, <1>3, <1>4, <1>8, <2>2 DEF UnderWay
  <1>9. CASE SocketClosed /\ Push(Item("CLOSE", sock, "close")) /\ UNCHANGED cmds
    <2>1. "close" \notin Queued
      BY <1>1, <1>4, <1>9 DEF ThreadInv, Closes, UnderWay
    <2>2. Len(queue) < QueueMax
      BY <1>1, <2>1, Room DEF Seven
    <2>3. /\ Queued \subseteq Queued' /\ Queued' \subseteq Queued \cup {"thread", "close"}
          /\ \A e \in Of(queue') : e \in Of(queue) \/ e.kind = "CLOSE"
          /\ Sent' = Sent /\ Of(cmds') = Of(cmds)
          /\ "close" \in Queued'
      BY <1>1, <1>7, <1>9, <2>2
    <2>4. QED
      BY <1>2, <1>3, <2>3 DEF UnderWay
  <1>10. QED
    BY <1>2, <1>5, <1>6, <1>8, <1>9

\* The thread does not touch the sockets: what it comes to believe of them is so.
LEMMA ThreadAgrees ==
  ASSUME CallInv, AgreeInv, QueueMax >= 7, Thread
  PROVE  AgreeInv'
  <1>1. /\ TypeOK /\ ItemInv /\ SocketInv /\ ThreadInv
    BY DEF CallInv, IInv
  <1>2. /\ UNCHANGED DriverKept /\ Said' = Said /\ Of(uart') = Of(uart)
        /\ UnderWay \subseteq UnderWay'
        /\ UnderWay' \subseteq UnderWay \cup {"thread", "ON", "close"}
        /\ \A e \in Of(queue') : e \in Of(queue) \/ e.kind \in {"OPEN", "CONNECT", "PUBLISH", "CLOSE"}
        /\ \A e \in Of(cmds') : e \in Of(cmds) \/ e.kind \in {"scan", "config", "reset", "value"}
        /\ SocketClosed => "close" \in UnderWay'
    BY ThreadItems
  <1>3. /\ UNCHANGED <<open, clients, openId, alive, closedCb, wind, assoc, owed>>
        /\ wind = None
    <2>1. tim = "idle"
      BY DEF Thread, Scan, Scanned, Disconnected, Reconnect, Configured, IsReset, WithoutWifi,
             MqttSocketCreate, SocketCreated, MqttConnectCall, MqttConnectRefused, ConnectSent,
             Connack, ConnackTimeout, SocketClosed, ChannelKnown, ChannelAsked, ChannelRead,
             MqttPublish, Published, NoNewData, Delay, Turn, WaitsFor
    <2>2. QED
      BY <1>1, <1>2, <2>1 DEF DriverKept, openVars, ThreadInv, Network
  <1>4. pc = "open" => /\ answered /\ sock' = openId /\ pc' \in {"loop", "delay"}
                       /\ response.ok \/ wifi_state' = "mqtt_socket_create"
                       /\ response.ok => wifi_state' = "mqtt_connect"
                       /\ UNCHANGED <<wifi_connected, cmds, queue>>
    BY DEF Thread, Scan, Scanned, Disconnected, Reconnect, Configured, IsReset, WithoutWifi,
           MqttSocketCreate, SocketCreated, MqttConnectCall, MqttConnectRefused, ConnectSent,
           Connack, ConnackTimeout, SocketClosed, ChannelKnown, ChannelAsked, ChannelRead,
           MqttPublish, Published, NoNewData, Delay, Turn, WaitsFor, Answered
  <1>5. pc # "open" => UNCHANGED <<sock, wifi_connected>>
    BY DEF Thread, Scan, Scanned, Disconnected, Reconnect, Configured, IsReset, WithoutWifi,
           MqttSocketCreate, SocketCreated, MqttConnectCall, MqttConnectRefused, ConnectSent,
           Connack, ConnackTimeout, SocketClosed, ChannelKnown, ChannelAsked, ChannelRead,
           MqttPublish, Published, NoNewData, Delay, Turn, WaitsFor
  <1>6. pc' = "open" => MqttSocketCreate
    BY <1>4 DEF Thread, Scan, Scanned, Disconnected, Reconnect, Configured, ConnectFailed, IsReset,
           WithoutWifi,
           SocketCreated, MqttConnectCall, MqttConnectRefused, ConnectSent, Closing,
           Connack, ConnackTimeout, SocketClosed, ChannelKnown, ChannelAsked, ChannelRead,
           MqttPublish, Published, NoNewData, Delay, Turn, WaitsFor
  <1>7. MqttSocketCreate => /\ pc = "loop" /\ pc' = "open" /\ ~answered /\ ~answered' /\ open = {}
    BY <1>1 DEF MqttSocketCreate, Turn, Asks, mailbox, ThreadInv, OneCall, Calls, AgreeInv,
                Forgotten
  <1>8. OneSocket'
    <2>1. CASE pc = "open"
      BY <1>3, <1>4, <2>1 DEF AgreeInv, OneSocket
    <2>2. CASE pc # "open" /\ pc' = "open"
      BY <1>3, <1>6, <1>7, <2>2 DEF AgreeInv, OneSocket
    <2>3. CASE pc # "open" /\ pc' # "open"
      BY <1>3, <1>5, <2>3 DEF AgreeInv, OneSocket
    <2>4. QED
      BY <2>1, <2>2, <2>3
  <1>9. Ahead'
    <2>1. ~Opening
      BY <1>4 DEF Opening
    <2>2. ASSUME NEW e \in Of(queue) \cup Of(uart) \cup Of(cmds), e.kind \in {"ID", "open"}
          PROVE  FALSE
      <3>1. pc = "open" /\ answered /\ "thread" \notin UnderWay
        BY <1>1, <1>4, <2>2 DEF AgreeInv, Ahead, ThreadInv, OneCall
      <3>2. Class(e) = "thread"
        BY <1>1, <2>2 DEF ItemInv, QueueKinds, UartKinds, CmdKinds, News, Indications, Class
      <3>3. Class(e) \in UnderWay
        BY <2>2 DEF UnderWay, Queued, Said, Sent, Classes
      <3>4. QED
        BY <3>1, <3>2, <3>3
    <2>3. QED
      BY <1>2, <1>3, <2>1, <2>2 DEF AgreeInv, Ahead
  <1>10. ASSUME Quiet PROVE ~closedCb /\ (pc = "closed" => open = {})
    <2>1. /\ UnderWay = {} /\ ~Reading /\ closeCmd = None
          /\ ~startRead /\ ~query /\ ~dataCb
      BY <1>1, <1>10, QuietMeans
    <2>2. ~closedCb
      BY <1>10, <2>1 DEF Quiet, Idle, ClosedDue, QueryDue
    <2>3. owed = {}
      BY <1>1, <2>1 DEF ThreadInv, Closes, Unread
    <2>4. QED
      BY <2>1, <2>2, <2>3 DEF AgreeInv, Forgotten
  <1>11. /\ pc \in {"closed", "delay"} => Quiet
         /\ pc' = "closed" => SocketClosed \/ (pc # "open" /\ sock \notin open)
         /\ wifi_state' = "mqtt_socket_create" /\ pc' \notin {"open", "closed"}
              => \/ pc = "open" /\ ~response.ok
                 \/ pc = "closed"
                 \/ wifi_state = "mqtt_socket_create" /\ pc \notin {"open", "closed"}
    BY <1>4 DEF Thread, Scan, Scanned, Disconnected, Reconnect, Configured, ConnectFailed, IsReset,
           WithoutWifi, MqttSocketCreate, SocketCreated, MqttConnectCall, MqttConnectRefused,
           ConnectSent, Closing, Connack, ConnackTimeout, SocketClosed, ChannelKnown,
           ChannelAsked, ChannelRead, MqttPublish, Published, NoNewData, Delay, Turn, WaitsFor
  <1>12. Forgotten'
    <2>1. ~closedCb
      BY <1>10, <1>11 DEF AgreeInv, Forgotten
    <2>2. wifi_state' = "mqtt_socket_create" /\ pc' \notin {"open", "closed"} => open = {}
      BY <1>4, <1>10, <1>11 DEF AgreeInv, Forgotten, OneSocket
    <2>3. pc' = "closed" => open = {} \/ "close" \in UnderWay'
      BY <1>2, <1>11 DEF AgreeInv, OneSocket
    <2>4. QED
      BY <1>3, <2>1, <2>2, <2>3 DEF Forgotten
  <1>13. /\ ~wifi_connected => /\ pc' \in {"loop", "scan", "config", "reset"}
                               /\ wifi_state' \in {"ready", "idle", "disconnected", "reconnect"}
         /\ wifi_connected => /\ pc' \notin {"scan", "config", "reset"}
                              /\ wifi_state' \in {"mqtt_socket_create", "mqtt_connect", "mqtt_pub"}
         /\ pc = "loop" /\ wifi_state = "idle" => UNCHANGED <<pc, wifi_state>>
         /\ pc = "reset" => pc' = "loop" /\ wifi_state' = "idle"
    BY DEF Thread, Scan, Scanned, Disconnected, Reconnect, Configured, ConnectFailed, IsReset,
           WithoutWifi, MqttSocketCreate, SocketCreated, MqttConnectCall, MqttConnectRefused,
           ConnectSent, Closing, Connack, ConnackTimeout, SocketClosed, ChannelKnown,
           ChannelAsked, ChannelRead, MqttPublish, Published, NoNewData, Delay, Turn, WaitsFor,
           AgreeInv, Joined
  <1>14. Joined'
    <2>1. wifi_connected' = wifi_connected
      BY <1>4, <1>5
    <2>2. /\ "drop" \notin UnderWay'
          /\ "join" \in UnderWay' => "join" \in UnderWay
      BY <1>2 DEF AgreeInv, Joined
    <2>3. assoc = "joining" /\ pc = "reset" => ~wifi_connected
      BY DEF AgreeInv, Joined
    <2>4. QED
      BY <1>3, <1>13, <2>1, <2>2, <2>3 DEF AgreeInv, Joined, JoinNews, None
  <1>15. QED
    BY <1>8, <1>9, <1>12, <1>14 DEF AgreeInv

\* SysTick takes a message of a read, and queues nothing.
LEMMA ParseTakesAgrees ==
  ASSUME CallInv, AgreeInv, Parse, UNCHANGED stationVars,
         UNCHANGED <<queue, open, clients, closedCb, owed>>,
         Class(Head(uart)) \notin {"thread", "close"}
  PROVE  AgreeInv'
  <1>0. PICK k : k = Class(Head(uart))
    OBVIOUS
  <1>1. /\ Queued' = Queued /\ Said' = Said \ {k}
        /\ Of(queue') = Of(queue) /\ Of(uart') \subseteq Of(uart) /\ Of(cmds') = Of(cmds)
        /\ UnderWay' = UnderWay \ {k} /\ k \notin {"thread", "close"}
    BY <1>0, ParseTakes
  <1>2. SocketsLeft
    BY ParseBase DEF SocketsLeft, stationVars
  <1>3. \A e \in Of(queue') \cup Of(uart') : e \in Of(queue) \cup Of(uart)
    BY <1>1
  <1>4. /\ "thread" \in Queued \cup Said => "thread" \in Queued' \cup Said'
        /\ "drop" \notin UnderWay'
        /\ "join" \in UnderWay' => "join" \in UnderWay
    BY <1>1 DEF AgreeInv, Joined
  <1>5. /\ open \subseteq alive \/ "close" \in Said'
        /\ pc = "closed" => open = {} \/ "close" \in UnderWay' \/ owed' # {}
    BY <1>1 DEF AgreeInv, Ahead, Forgotten
  <1>6. QED
    BY <1>1, <1>2, <1>3, <1>4, <1>5, AgreeKept

\* A message becomes an event.
LEMMA ParseEventAgrees ==
  ASSUME CallInv, AgreeInv, QueueMax >= 7, Parse, UNCHANGED stationVars,
         ParseEvent(Head(uart)) \/ ParseError(Head(uart))
  PROVE  AgreeInv'
  <1>0. PICK e : e = Head(uart)
    OBVIOUS
  <1>1. /\ Queued' = Queued \cup {Class(e)} /\ Said' = Said \ {Class(e)} /\ Sent' = Sent
        /\ Of(queue') = Of(queue) \cup {e} /\ Of(uart') \subseteq Of(uart)
        /\ Of(cmds') = Of(cmds) /\ Class(e) \in Seven \ {"close"}
    BY <1>0, ParseEventFlow
  <1>2. e \in Of(uart) /\ Class(e) \in Said
    BY <1>0, ParseBase
  <1>3. UnderWay' = UnderWay
    BY <1>1, <1>2 DEF UnderWay
  <1>4. UNCHANGED <<open, clients, closedCb, owed>>
    BY DEF ParseEvent, ParseError
  <1>5. SocketsLeft
    BY <1>4, ParseBase DEF SocketsLeft, stationVars
  <1>6. \A i \in Of(queue') \cup Of(uart') : i \in Of(queue) \cup Of(uart)
    BY <1>1, <1>2
  <1>7. /\ "thread" \in Queued \cup Said => "thread" \in Queued' \cup Said'
        /\ "drop" \notin UnderWay'
        /\ "join" \in UnderWay' => "join" \in UnderWay
    BY <1>1, <1>3 DEF AgreeInv, Joined
  <1>8. /\ open \subseteq alive \/ "close" \in Said'
        /\ pc = "closed" => open = {} \/ "close" \in UnderWay' \/ owed' # {}
    BY <1>1, <1>3, <1>4 DEF AgreeInv, Ahead, Forgotten
  <1>9. QED
    BY <1>1, <1>5, <1>6, <1>7, <1>8, AgreeKept

\* The answer to a closing: the socket is gone for the driver as for the module.
LEMMA ParseSwallowedAgrees ==
  ASSUME CallInv, AgreeInv, Parse, UNCHANGED stationVars, ParseSwallowed(Head(uart))
  PROVE  AgreeInv'
  <1>0. PICK e : e = Head(uart)
    OBVIOUS
  <1>1. /\ TypeOK /\ FlowInv /\ ItemInv /\ SocketInv /\ ThreadInv
        /\ e.kind = "OK" /\ swallow /\ UNCHANGED <<queue, owed>>
        /\ e.kind \in UartKinds(e.by) /\ Told(e) /\ Class(e) \in Said \ (Queued \cup Sent)
    BY <1>0, ParseBase DEF ParseSwallowed
  <1>2. stop /\ "thread" \notin Said
    <2>1. closing \/ "OK" \in Said
      BY <1>1 DEF SocketInv, ReadFlags
    <2>2. closing \/ Reading
      BY <1>1, <2>1 DEF SocketInv, ReadSteps, Reading
    <2>3. QED
      BY <1>1, <2>2 DEF SocketInv, Held
  <1>3. e.by \in {"read", "close"} /\ Class(e) = IF e.by = "read" THEN "OK" ELSE "close"
    <2>1. e.by \in {"read", "close", "thread"}
      BY <1>1 DEF UartKinds, News, Indications
    <2>2. e.by = "thread" => Class(e) = "thread"
      BY <1>1 DEF Class
    <2>3. QED
      BY <1>1, <1>2, <2>1, <2>2 DEF Class
  <1>4. CASE closing
    <2>1. /\ open' = open \ {closeId} /\ clients' = IF clients > 0 THEN clients - 1 ELSE 0
      BY <1>0, <1>4 DEF ParseSwallowed
    <2>2. "OK" \notin Said /\ closeId \in open
      BY <1>1, <1>4 DEF SocketInv, ClosePhases, ReadSteps, Reading
    <2>3. Class(e) = "close" /\ closeId \notin alive
      BY <1>1, <1>3, <2>2 DEF Told
    <2>4. /\ "close" \in UnderWay /\ pc \in {"closed", "delay"}
      BY <1>1, <2>3 DEF UnderWay, ThreadInv, Closes
    <2>5. /\ Of(queue') = Of(queue) /\ Of(uart') \subseteq Of(uart) /\ Of(cmds') = Of(cmds)
          /\ UnderWay' \subseteq UnderWay
      BY <1>0, <1>1, ParseTakes
    <2>6. open = {closeId} /\ alive = {}
      BY <2>2, <2>3 DEF AgreeInv, OneSocket
    <2>7. open' = {} /\ clients' = 0
      BY <2>1, <2>6 DEF AgreeInv, OneSocket
    <2>8. /\ UNCHANGED <<alive, pc, sock, wifi_state, wifi_connected, assoc, wind>>
          /\ wifi_connected
      BY <2>6, ParseBase DEF stationVars, AgreeInv, Joined
    <2>9. Joined'
      BY <2>5, <2>8 DEF AgreeInv, Joined
    <2>10. OneSocket'
      BY <2>4, <2>6, <2>7, <2>8 DEF OneSocket
    <2>11. Ahead'
      BY <2>5, <2>6, <2>7, <2>8 DEF AgreeInv, Ahead
    <2>12. Forgotten'
      BY <2>4, <2>7, <2>8 DEF Forgotten
    <2>13. QED
      BY <2>9, <2>10, <2>11, <2>12 DEF AgreeInv
  <1>5. CASE ~closing
    <2>1. UNCHANGED <<open, clients, closedCb>>
      BY <1>0, <1>5 DEF ParseSwallowed
    <2>2. Class(e) = "OK"
      BY <1>1, <1>3, <1>5 DEF SocketInv, ClosePhases
    <2>3. Class(Head(uart)) \notin {"thread", "close"}
      BY <1>0, <2>2
    <2>4. UNCHANGED <<queue, open, clients, closedCb, owed>>
      BY <1>1, <2>1
    <2>5. QED
      BY <2>3, <2>4, ParseTakesAgrees
  <1>6. QED
    BY <1>4, <1>5

\* The socket has data: it stays, and its closing is owed.
LEMMA ParseHasDataAgrees ==
  ASSUME CallInv, AgreeInv, Parse, UNCHANGED stationVars, ParseHasData(Head(uart))
  PROVE  AgreeInv'
  <1>0. PICK e : e = Head(uart)
    OBVIOUS
  <1>1. /\ TypeOK /\ ThreadInv /\ e.kind = "HASDATA" /\ Class(e) = "close" /\ closeId \in unread
        /\ UNCHANGED <<queue, open, clients, closedCb>> /\ owed' = owed \cup {closeId}
    BY <1>0, ParseBase DEF ParseHasData, UartKinds, Class, Told, News, Indications
  <1>2. /\ Queued' = Queued /\ Said' = Said \ {"close"}
        /\ Of(queue') = Of(queue) /\ Of(uart') \subseteq Of(uart) /\ Of(cmds') = Of(cmds)
        /\ UnderWay' = UnderWay \ {"close"}
    BY <1>0, <1>1, ParseTakes
  <1>3. SocketsLeft
    BY <1>1, ParseBase DEF SocketsLeft, stationVars
  <1>4. \A i \in Of(queue') \cup Of(uart') : i \in Of(queue) \cup Of(uart)
    BY <1>2
  <1>5. /\ "thread" \in Queued \cup Said => "thread" \in Queued' \cup Said'
        /\ "drop" \notin UnderWay'
        /\ "join" \in UnderWay' => "join" \in UnderWay
    BY <1>2 DEF AgreeInv, Joined
  <1>6. /\ open \subseteq alive
        /\ pc = "closed" => open = {} \/ "close" \in UnderWay' \/ owed' # {}
    BY <1>1 DEF ThreadInv, Unread, AgreeInv, OneSocket
  <1>7. QED
    BY <1>2, <1>3, <1>4, <1>5, <1>6, AgreeKept

\* All is read: a closing that is owed goes on its way.
LEMMA ParseEmptyAgrees ==
  ASSUME CallInv, AgreeInv, QueueMax >= 7, Parse, UNCHANGED stationVars,
         ParseEmpty(Head(uart))
  PROVE  AgreeInv'
  <1>0. PICK e : e = Head(uart)
    OBVIOUS
  <1>1. /\ TypeOK /\ FlowInv /\ ItemInv /\ SocketInv /\ ThreadInv
        /\ Class(e) = "query" /\ queryId \notin unread
        /\ "query" \in Said \ (Queued \cup Sent)
        /\ UNCHANGED <<open, clients, closedCb>> /\ owed' = owed \ {queryId}
    BY <1>0, ParseBase
       DEF ParseEmpty, UartKinds, Class, Precedes, News, Indications, Told
  <1>2. /\ Reading /\ queryId \in open \cap alive /\ unread = {}
    BY <1>1 DEF SocketInv, ReadSteps, ReadFlags, ReadSocket, Reading
  <1>3. /\ owed \subseteq {queryId}
        /\ owed # {} => pc = "closed" /\ "close" \notin UnderWay
    BY <1>1, <1>2 DEF ThreadInv, Closes
  <1>4. CASE queryId \in owed \cap open
    <2>1. PICK d : d = Item("CLOSE", queryId, "close")
      OBVIOUS
    <2>2. Push(d)
      BY <1>0, <1>4, <2>1 DEF ParseEmpty, QueueClose
    <2>3. /\ d \in Items /\ d.kind = "CLOSE" /\ d.by = "close"
          /\ Class(d) = "close" /\ Class(d) \in Seven
      BY <1>1, <2>1 DEF Item, Items, Kinds, Askers, Class, Seven, TypeOK, DriverTypeOK
    <2>4. pc = "closed" /\ "close" \notin UnderWay
      BY <1>3, <1>4
    <2>5. /\ Queued' = Queued \cup {"close"} /\ Said' = Said \ {"query"} /\ Sent' = Sent
          /\ Of(queue') = Of(queue) \cup {d} /\ Of(uart') \subseteq Of(uart)
          /\ Of(cmds') = Of(cmds)
      BY <1>0, <1>1, <2>2, <2>3, <2>4, ParseBase, ParsePushFlow
    <2>6. SocketsLeft
      BY <1>1, ParseBase DEF SocketsLeft, stationVars
    <2>7. \A i \in Of(queue') \cup Of(uart') :
            \/ i \in Of(queue) \cup Of(uart)
            \/ i.kind \notin {"ID", "open"} /\ (i.by # "thread" \/ ~Opening)
      BY <2>3, <2>5
    <2>8. /\ "thread" \in Queued \cup Said => "thread" \in Queued' \cup Said'
          /\ "drop" \notin UnderWay'
          /\ "join" \in UnderWay' => "join" \in UnderWay
      BY <2>5 DEF UnderWay, AgreeInv, Joined
    <2>9. /\ open \subseteq alive \/ "close" \in Said'
          /\ pc = "closed" => open = {} \/ "close" \in UnderWay' \/ owed' # {}
      BY <2>5 DEF UnderWay, AgreeInv, Ahead
    <2>10. QED
      BY <2>5, <2>6, <2>7, <2>8, <2>9, AgreeKept
  <1>5. CASE queryId \notin owed \cap open
    <2>1. owed = {} /\ owed' = {}
      BY <1>1, <1>2, <1>3, <1>5
    <2>2. UNCHANGED queue
      BY <1>0, <1>5 DEF ParseEmpty
    <2>3. Class(Head(uart)) \notin {"thread", "close"}
      BY <1>0, <1>1
    <2>4. UNCHANGED <<queue, open, clients, closedCb, owed>>
      BY <1>1, <2>1, <2>2
    <2>5. QED
      BY <2>3, <2>4, ParseTakesAgrees
  <1>6. QED
    BY <1>4, <1>5

LEMMA ParseAgrees ==
  ASSUME CallInv, AgreeInv, QueueMax >= 7, Parse, UNCHANGED stationVars
  PROVE  AgreeInv'
  <1>1. \/ ParseEvent(Head(uart)) \/ ParseError(Head(uart)) \/ ParseSwallowed(Head(uart))
        \/ ParseHasData(Head(uart)) \/ ParseLength(Head(uart)) \/ ParseEmpty(Head(uart))
        \/ ParseData(Head(uart)) \/ ParseReadError(Head(uart))
    BY DEF Parse
  <1>2. CASE ParseLength(Head(uart)) \/ ParseData(Head(uart))
    <2>1. UNCHANGED <<queue, open, clients, closedCb, owed>>
      BY <1>2 DEF ParseLength, ParseData
    <2>2. Class(Head(uart)) \notin {"thread", "close"}
      BY <1>2, ParseBase DEF ParseLength, ParseData, UartKinds, Class, News, Indications
    <2>3. QED
      BY <2>1, <2>2, ParseTakesAgrees
  <1>3. CASE ParseReadError(Head(uart))
    <2>1. /\ Head(uart).kind = "ERROR" /\ Head(uart).by = "read"
          /\ UNCHANGED <<queue, open, closedCb, owed>>
      BY <1>3, ParseBase, ReadErrorOwn DEF ParseReadError
    <2>2. UNCHANGED <<queue, open, clients, closedCb, owed>>
      BY <1>3, <2>1 DEF ParseReadError
    <2>3. Class(Head(uart)) \notin {"thread", "close"}
      BY <2>1 DEF Class
    <2>4. QED
      BY <2>2, <2>3, ParseTakesAgrees
  <1>4. QED
    BY <1>1, <1>2, <1>3, ParseEventAgrees, ParseSwallowedAgrees, ParseHasDataAgrees,
       ParseEmptyAgrees

\* The module answers, and its sockets stay as they are.
LEMMA AnswerAgrees ==
  ASSUME CallInv, AgreeInv, ModuleActs, UNCHANGED stationVars, UNCHANGED <<assoc, alive>>,
         Of(queue') = Of(queue), Of(cmds') \subseteq Of(cmds),
         NEW S, Of(uart') = Of(uart) \cup S,
         \A e \in S : e.kind \notin {"ID", "open"} /\ (e.by # "thread" \/ ~Opening),
         Queued' = Queued, Said \subseteq Said',
         "close" \in Sent => "close" \in Sent' \cup Said',
         UnderWay' \subseteq UnderWay \cup {"PENDING", "PART", "DATA", "OK"}
  PROVE  AgreeInv'
  <1>1. UNCHANGED <<clients, closedCb>> \/ ModuleResets(Head(cmds))
    BY DEF ModuleActs, ModuleOpens, ModuleWrites, ModuleCloses, ModuleQueries, ModuleReads,
           ModuleConfigures, Done, openVars, closeVars
  <1>2. UNCHANGED <<clients, closedCb>>
    BY <1>1 DEF ModuleResets, openVars, closeVars
  <1>3. SocketsLeft
    BY <1>2, ActsBase DEF SocketsLeft, stationVars
  <1>4. \A e \in Of(queue') \cup Of(uart') :
          \/ e \in Of(queue) \cup Of(uart)
          \/ e.kind \notin {"ID", "open"} /\ (e.by # "thread" \/ ~Opening)
    OBVIOUS
  <1>5. \A e \in Of(cmds') : e \in Of(cmds) \/ (e.kind \in {"ID", "open"} => pc = "open")
    OBVIOUS
  <1>6. /\ "thread" \in Queued \cup Said => "thread" \in Queued' \cup Said'
        /\ "drop" \notin UnderWay'
        /\ "join" \in UnderWay' => "join" \in UnderWay
    BY DEF AgreeInv, Joined
  <1>7. "close" \in UnderWay => "close" \in UnderWay'
    BY DEF UnderWay
  <1>8. /\ open \subseteq alive \/ "close" \in Said'
        /\ pc = "closed" => open = {} \/ "close" \in UnderWay' \/ owed' # {}
    BY <1>7, ActsBase DEF AgreeInv, Ahead, Forgotten
  <1>9. QED
    BY <1>3, <1>4, <1>5, <1>6, <1>8, AgreeKept

\* It answers with one message, of the class of the command.
LEMMA AnswerOneAgrees ==
  ASSUME CallInv, AgreeInv, ModuleActs, UNCHANGED stationVars, UNCHANGED <<assoc, alive>>,
         NEW a \in Items, Done(<<a>>), Class(a) = Class(Head(cmds)),
         Class(a) \in {"thread", "close", "query", "read"}, a.kind \notin {"ID", "open"}
  PROVE  AgreeInv'
  <1>1. /\ TypeOK /\ FlowInv /\ ItemInv /\ SocketInv /\ ThreadInv /\ cmds # <<>>
        /\ Class(a) \in Sent \ (Queued \cup Said)
    BY ActsBase
  <1>2. Class(a) = "thread" => "PENDING" \notin UnderWay
    BY <1>1, ThreadCommand
  <1>3. \A d \in Queued \cup Said : <<Class(a), d>> \notin Precedes
    BY <1>2 DEF Precedes, UnderWay
  <1>4. /\ Queued' = Queued /\ Said' = Said \cup {Class(a)}
        /\ Sent' = Sent \ {Class(a)} /\ Of(queue') = Of(queue)
        /\ Of(uart') = Of(uart) \cup {a} /\ Of(cmds') \subseteq Of(cmds)
    BY <1>1, <1>3, AnswersOne
  <1>5. PICK S : S = {a}
    OBVIOUS
  <1>6. a.by = "thread" => Class(a) = "thread"
    BY DEF Class
  <1>7. \A e \in S : e.kind \notin {"ID", "open"} /\ (e.by # "thread" \/ ~Opening)
    BY <1>1, <1>5, <1>6 DEF Opening
  <1>8. /\ "close" \in Sent => "close" \in Sent' \cup Said'
        /\ UnderWay' \subseteq UnderWay \cup {"PENDING", "PART", "DATA", "OK"}
        /\ Said \subseteq Said'
    BY <1>1, <1>4 DEF UnderWay
  <1>9. Of(uart') = Of(uart) \cup S
    BY <1>4, <1>5
  <1>10. QED
    BY <1>4, <1>7, <1>8, <1>9, AnswerAgrees

\* A socket is opened only when there is none.
LEMMA OpensAgrees ==
  ASSUME CallInv, AgreeInv, ModuleActs, UNCHANGED stationVars, ModuleOpens(Head(cmds))
  PROVE  AgreeInv'
  <1>0. PICK c : c = Head(cmds)
    OBVIOUS
  <1>1. /\ TypeOK /\ FlowInv /\ ItemInv /\ SocketInv /\ ThreadInv /\ cmds # <<>>
        /\ c.kind = "open" /\ c.by = "thread" /\ Class(Head(cmds)) = "thread"
        /\ "thread" \in Sent \ (Queued \cup Said)
        /\ UNCHANGED assoc
    BY <1>0, ActsBase DEF ModuleOpens, CmdKinds, Class
  <1>2. CASE \E s \in Sockets \ alive : alive' = alive \cup {s} /\ Done(<<Item("ID", s, c.by)>>)
    <2>1. PICK s \in Sockets \ alive : alive' = alive \cup {s} /\ Done(<<Item("ID", s, c.by)>>)
      BY <1>2
    <2>2. PICK a : a = Item("ID", s, c.by)
      OBVIOUS
    <2>3. a \in Items /\ a.kind = "ID" /\ a.by = "thread" /\ Class(a) = "thread"
      BY <1>1, <2>1, <2>2 DEF Item, Items, Kinds, Askers, Class
    <2>4. /\ ~answered /\ "PENDING" \notin UnderWay /\ pc \in Calls
      BY <1>1, ThreadCommand
    <2>5. \A d \in Queued \cup Said : <<Class(a), d>> \notin Precedes
      BY <2>3, <2>4 DEF Precedes, UnderWay
    <2>6. Done(<<a>>)
      BY <2>1, <2>2
    <2>7. /\ Queued' = Queued /\ Said' = Said \cup {"thread"}
          /\ Sent' = Sent \ {"thread"} /\ Of(queue') = Of(queue)
          /\ Of(uart') = Of(uart) \cup {a} /\ Of(cmds') \subseteq Of(cmds)
      BY <1>1, <2>3, <2>5, <2>6, AnswersOne
    <2>8. UnderWay' = UnderWay
      BY <1>1, <2>7 DEF UnderWay
    <2>9. pc = "open" /\ open = {} /\ alive = {}
      <3>1. c \in Of(cmds)
        BY <1>0, <1>1, OldestCommand
      <3>2. pc = "open" /\ open = {}
        BY <1>1, <2>4, <3>1 DEF AgreeInv, Ahead, OneSocket
      <3>3. ~Opening
        BY <1>1 DEF Opening
      <3>4. QED
        BY <3>2, <3>3 DEF AgreeInv, Ahead
    <2>10. /\ UNCHANGED <<wifi_state, wifi_connected, pc, sock, open, openId, answered,
                          response, wind, clients, closedCb>>
           /\ alive' = {s}
      <3>1. UNCHANGED <<clients, closedCb>>
        BY <2>6 DEF Done, openVars, closeVars
      <3>2. QED
        BY <2>1, <2>9, <3>1, ActsBase DEF stationVars
    <2>11. wifi_connected
      BY <2>9 DEF AgreeInv, Joined
    <2>12. Joined'
      BY <1>1, <2>8, <2>10, <2>11 DEF AgreeInv, Joined
    <2>13. OneSocket'
      BY <2>9, <2>10 DEF AgreeInv, OneSocket
    <2>14. Opening'
      <3>1. \A e \in Of(queue) \cup Of(uart) : e.by # "thread"
        <4>1. \A e \in Of(queue) \cup Of(uart) : Class(e) # "thread" /\ Class(e) # "ON"
          <5>1. \A e \in Of(queue) \cup Of(uart) : Class(e) \in Queued \cup Said
            BY DEF Queued, Said, Classes
          <5>2. "ON" \notin UnderWay
            BY <1>1, <2>9 DEF ThreadInv, Network
          <5>3. QED
            BY <1>1, <5>1, <5>2 DEF UnderWay
        <4>2. QED
          BY <4>1 DEF Class
      <3>2. QED
        BY <2>3, <2>4, <2>7, <2>9, <2>10, <3>1 DEF Opening
    <2>15. Ahead'
      BY <2>7, <2>9, <2>10, <2>14 DEF AgreeInv, Ahead
    <2>16. Forgotten'
      BY <2>9, <2>10 DEF AgreeInv, Forgotten
    <2>17. QED
      BY <2>12, <2>13, <2>15, <2>16 DEF AgreeInv
  <1>3. CASE Done(<<Item("ERROR", None, c.by)>>) /\ UNCHANGED alive
    <2>1. PICK a : a = Item("ERROR", None, c.by)
      OBVIOUS
    <2>2. a \in Items /\ a.kind = "ERROR" /\ a.by = "thread"
      BY <1>1, <2>1, AnswerItem DEF Kinds, Askers
    <2>3. Class(a) = "thread"
      BY <2>2 DEF Class
    <2>4. Done(<<a>>)
      BY <1>3, <2>1
    <2>5. UNCHANGED <<assoc, alive>>
      BY <1>1, <1>3
    <2>6. QED
      BY <1>1, <2>2, <2>3, <2>4, <2>5, AnswerOneAgrees
  <1>4. QED
    BY <1>0, <1>2, <1>3 DEF ModuleOpens

LEMMA ConfiguresAgrees ==
  ASSUME CallInv, AgreeInv, ModuleActs, UNCHANGED stationVars, ModuleConfigures(Head(cmds))
  PROVE  AgreeInv'
  <1>0. PICK c : c = Head(cmds)
    OBVIOUS
  <1>1. /\ c.kind \in {"config", "scan", "value"} /\ c.by = "thread"
        /\ Class(Head(cmds)) = "thread" /\ UNCHANGED <<assoc, alive>>
    BY <1>0, ActsBase DEF ModuleConfigures, CmdKinds, Class
  <1>2. PICK kind \in {"VALUE", "OK", "ERROR"} : Done(<<Item(kind, None, c.by)>>)
    <2>1. \/ Done(<<Item(IF c.kind = "value" THEN "VALUE" ELSE "OK", None, c.by)>>)
          \/ Done(<<Item("ERROR", None, c.by)>>)
      BY <1>0 DEF ModuleConfigures
    <2>2. CASE c.kind = "value"
      BY <2>1, <2>2
    <2>3. CASE c.kind # "value"
      BY <2>1, <2>3
    <2>4. QED
      BY <2>2, <2>3
  <1>3. PICK a : a = Item(kind, None, c.by)
    OBVIOUS
  <1>4. a \in Items /\ a.kind = kind /\ a.by = "thread"
    BY <1>1, <1>3, AnswerItem DEF Kinds, Askers
  <1>5. Done(<<a>>) /\ Class(a) = "thread"
    BY <1>2, <1>3, <1>4 DEF Class
  <1>6. QED
    BY <1>1, <1>4, <1>5, AnswerOneAgrees

LEMMA WritesAgrees ==
  ASSUME CallInv, AgreeInv, ModuleActs, UNCHANGED stationVars, ModuleWrites(Head(cmds))
  PROVE  AgreeInv'
  <1>0. PICK c : c = Head(cmds)
    OBVIOUS
  <1>1. /\ c.by = "thread" /\ c \in Items
        /\ Class(Head(cmds)) = "thread" /\ UNCHANGED <<assoc, alive>>
    BY <1>0, ActsBase DEF ModuleWrites, CmdKinds, Class
  <1>2. CASE \E kind \in {"OK", "ERROR"} : Done(<<Item(kind, None, c.by)>>)
    <2>1. PICK kind \in {"OK", "ERROR"} : Done(<<Item(kind, None, c.by)>>)
      BY <1>2
    <2>2. PICK a : a = Item(kind, None, c.by)
      OBVIOUS
    <2>3. a \in Items /\ a.kind = kind /\ a.by = "thread"
      BY <1>1, <2>2, AnswerItem DEF Kinds, Askers
    <2>4. Done(<<a>>) /\ Class(a) = "thread"
      BY <2>1, <2>2, <2>3 DEF Class
    <2>5. QED
      BY <1>1, <2>3, <2>4, AnswerOneAgrees
  <1>3. CASE Done(<<Item("OK", None, c.by), Item("PENDING", c.sock, "module")>>)
    <2>1. /\ TypeOK /\ FlowInv /\ ItemInv /\ SocketInv /\ ThreadInv /\ cmds # <<>>
          /\ "thread" \in Sent \ (Queued \cup Said)
      BY <1>1, ActsBase
    <2>2. "PENDING" \notin UnderWay
      BY <2>1, ThreadCommand
    <2>3. PICK a : a = Item("OK", None, c.by)
      OBVIOUS
    <2>4. PICK b : b = Item("PENDING", c.sock, "module")
      OBVIOUS
    <2>5. a \in Items /\ a.kind = "OK" /\ Class(a) = "thread"
      BY <1>1, <2>3 DEF Item, Items, Kinds, Askers, Class
    <2>6. b \in Items /\ b.kind = "PENDING" /\ Class(b) = "PENDING"
      BY <1>1, <2>4 DEF Item, Items, Kinds, Askers, Class
    <2>7. Done(<<a, b>>)
      BY <1>3, <2>3, <2>4
    <2>8. /\ Queued' = Queued /\ Said' = Said \cup {"thread", "PENDING"}
          /\ Sent' = Sent \ {"thread"}
          /\ Of(queue') = Of(queue) /\ Of(uart') = Of(uart) \cup {a, b}
          /\ Of(cmds') \subseteq Of(cmds)
      BY <1>1, <2>1, <2>2, <2>5, <2>6, <2>7, AnswersTwo
    <2>9. PICK S : S = {a, b}
      OBVIOUS
    <2>10. \A e \in S : e.kind \notin {"ID", "open"} /\ (e.by # "thread" \/ ~Opening)
      BY <2>1, <2>5, <2>6, <2>9 DEF Opening
    <2>11. /\ "close" \in Sent => "close" \in Sent' \cup Said'
           /\ UnderWay' \subseteq UnderWay \cup {"PENDING", "PART", "DATA", "OK"}
           /\ Said \subseteq Said'
      BY <2>1, <2>8 DEF UnderWay
    <2>12. Of(uart') = Of(uart) \cup S
      BY <2>8, <2>9
    <2>13. QED
      BY <1>1, <2>8, <2>10, <2>11, <2>12, AnswerAgrees
  <1>4. QED
    BY <1>0, <1>1, <1>2, <1>3 DEF ModuleWrites

\* The module is ahead: it has closed a socket, and the driver is not told yet.
LEMMA ClosesAgrees ==
  ASSUME CallInv, AgreeInv, ModuleActs, UNCHANGED stationVars, ModuleCloses(Head(cmds))
  PROVE  AgreeInv'
  <1>0. PICK c : c = Head(cmds)
    OBVIOUS
  <1>1. /\ TypeOK /\ FlowInv /\ ItemInv /\ SocketInv /\ ThreadInv /\ cmds # <<>>
        /\ c.by = "close" /\ Class(Head(cmds)) = "close" /\ c.sock = closeId
        /\ "close" \in Sent \ (Queued \cup Said) /\ UNCHANGED assoc
    BY <1>0, ActsBase DEF ModuleCloses, CmdKinds, Class, Asked
  <1>2. CASE \E kind \in {"HASDATA", "ERROR"} : Done(<<Item(kind, None, c.by)>>) /\ UNCHANGED alive
    <2>1. PICK kind \in {"HASDATA", "ERROR"} : Done(<<Item(kind, None, c.by)>>) /\ UNCHANGED alive
      BY <1>2
    <2>2. PICK a : a = Item(kind, None, c.by)
      OBVIOUS
    <2>3. a \in Items /\ a.kind = kind /\ a.by = "close"
      BY <1>1, <2>2, AnswerItem DEF Kinds, Askers
    <2>4. Done(<<a>>) /\ Class(a) = "close"
      BY <2>1, <2>2, <2>3 DEF Class
    <2>5. UNCHANGED <<assoc, alive>>
      BY <1>1, <2>1
    <2>6. QED
      BY <1>1, <2>3, <2>4, <2>5, AnswerOneAgrees
  <1>3. CASE alive' = alive \ {c.sock} /\ Done(<<Item("OK", None, c.by)>>)
    <2>1. PICK a : a = Item("OK", None, c.by)
      OBVIOUS
    <2>2. a \in Items /\ a.kind = "OK" /\ a.by = "close"
      BY <1>1, <2>1, AnswerItem DEF Kinds, Askers
    <2>3. Done(<<a>>) /\ Class(a) = "close"
      BY <1>3, <2>1, <2>2 DEF Class
    <2>4. \A d \in Queued \cup Said : <<Class(a), d>> \notin Precedes
      BY <2>3 DEF Precedes
    <2>5. /\ Queued' = Queued /\ Said' = Said \cup {"close"}
          /\ Sent' = Sent \ {"close"} /\ Of(queue') = Of(queue)
          /\ Of(uart') = Of(uart) \cup {a} /\ Of(cmds') \subseteq Of(cmds)
      BY <1>1, <2>2, <2>3, <2>4, AnswersOne
    <2>6. UnderWay' = UnderWay
      BY <1>1, <2>5 DEF UnderWay
    <2>7. /\ UNCHANGED <<wifi_state, wifi_connected, pc, sock, open, openId, answered,
                         response, wind, clients, closedCb, owed>>
          /\ alive' \subseteq alive
      <3>1. UNCHANGED <<clients, closedCb>>
        BY <2>3 DEF Done, openVars, closeVars
      <3>2. QED
        BY <1>3, <3>1, ActsBase DEF stationVars
    <2>8. pc \in {"closed", "delay"}
      BY <1>1 DEF ThreadInv, Closes, UnderWay
    <2>9. ~Opening
      BY <2>8 DEF Opening
    <2>10. Joined'
      BY <1>1, <2>6, <2>7 DEF AgreeInv, Joined
    <2>11. OneSocket'
      BY <2>7 DEF AgreeInv, OneSocket
    <2>12. Ahead'
      BY <2>2, <2>5, <2>7, <2>9 DEF AgreeInv, Ahead
    <2>13. Forgotten'
      BY <2>6, <2>7 DEF AgreeInv, Forgotten
    <2>14. QED
      BY <2>10, <2>11, <2>12, <2>13 DEF AgreeInv
  <1>4. QED
    BY <1>0, <1>2, <1>3 DEF ModuleCloses

LEMMA QueriesAgrees ==
  ASSUME CallInv, AgreeInv, ModuleActs, UNCHANGED stationVars, ModuleQueries(Head(cmds))
  PROVE  AgreeInv'
  <1>0. PICK c : c = Head(cmds)
    OBVIOUS
  <1>1. /\ SocketInv /\ c.by = "read" /\ Class(Head(cmds)) = "query" /\ c.sock = queryId
        /\ "query" \in Sent /\ UNCHANGED <<assoc, alive>>
    BY <1>0, ActsBase DEF ModuleQueries, CmdKinds, Class, Asked
  <1>2. queryId \in alive
    BY <1>1 DEF SocketInv, ReadSocket, Reading
  <1>3. PICK kind \in {"LENGTH", "EMPTY"} : Done(<<Item(kind, None, c.by)>>)
    <2>1. Done(<<IF c.sock \notin alive THEN Item("ERROR", None, c.by)
                 ELSE IF c.sock \in unread THEN Item("LENGTH", None, c.by)
                 ELSE Item("EMPTY", None, c.by)>>)
      BY <1>0 DEF ModuleQueries
    <2>2. CASE c.sock \in unread
      BY <1>1, <1>2, <2>1, <2>2
    <2>3. CASE c.sock \notin unread
      BY <1>1, <1>2, <2>1, <2>3
    <2>4. QED
      BY <2>2, <2>3
  <1>4. PICK a : a = Item(kind, None, c.by)
    OBVIOUS
  <1>5. a \in Items /\ a.kind = kind /\ a.by = "read"
    BY <1>1, <1>4, AnswerItem DEF Kinds, Askers
  <1>6. Done(<<a>>) /\ Class(a) = "query"
    BY <1>3, <1>4, <1>5 DEF Class
  <1>7. QED
    BY <1>1, <1>5, <1>6, AnswerOneAgrees

LEMMA ReadsAgrees ==
  ASSUME CallInv, AgreeInv, ModuleActs, UNCHANGED stationVars, ModuleReads(Head(cmds))
  PROVE  AgreeInv'
  <1>0. PICK c : c = Head(cmds)
    OBVIOUS
  <1>1. /\ TypeOK /\ FlowInv /\ ItemInv /\ SocketInv /\ ThreadInv /\ cmds # <<>>
        /\ c.by = "read" /\ Class(Head(cmds)) = "read"
        /\ "read" \in Sent \ (Queued \cup Said) /\ UNCHANGED <<assoc, alive>>
    BY <1>0, ActsBase DEF ModuleReads, CmdKinds, Class
  <1>2. CASE Done(<<Item("ERROR", None, c.by)>>)
    <2>1. PICK a : a = Item("ERROR", None, c.by)
      OBVIOUS
    <2>2. a \in Items /\ a.kind = "ERROR" /\ a.by = "read"
      BY <1>1, <2>1, AnswerItem DEF Kinds, Askers
    <2>3. Done(<<a>>) /\ Class(a) = "read"
      BY <1>2, <2>1, <2>2 DEF Class
    <2>4. QED
      BY <1>1, <2>2, <2>3, AnswerOneAgrees
  <1>3. CASE Done(<<Item("PART", None, c.by), Item("DATA", None, c.by),
                   Item("OK", None, c.by)>>)
    <2>1. PICK a : a = Item("PART", None, c.by)
      OBVIOUS
    <2>2. PICK b : b = Item("DATA", None, c.by)
      OBVIOUS
    <2>3. PICK f : f = Item("OK", None, c.by)
      OBVIOUS
    <2>4. /\ a \in Items /\ a.kind = "PART" /\ a.by = "read" /\ Class(a) = "PART"
          /\ b \in Items /\ b.kind = "DATA" /\ b.by = "read" /\ Class(b) = "DATA"
          /\ f \in Items /\ f.kind = "OK" /\ f.by = "read" /\ Class(f) = "OK"
      BY <1>1, <2>1, <2>2, <2>3 DEF Item, Items, Kinds, Askers, Class
    <2>5. Done(<<a, b, f>>)
      BY <1>3, <2>1, <2>2, <2>3
    <2>6. \A d \in {"PART", "DATA", "OK", "query"} : d \notin UnderWay
      <3>1. Reading
        BY <1>1 DEF Reading
      <3>2. /\ "DATA" \notin Said /\ "PART" \notin Said /\ "OK" \notin Said
            /\ "query" \notin Said \cup Sent
        BY <1>1, <3>1 DEF SocketInv, ReadSteps
      <3>3. QED
        BY <1>1, <3>2, ItemClasses DEF UnderWay, Seven
    <2>7. /\ Queued' = Queued /\ Said' = Said \cup {"PART", "DATA", "OK"}
          /\ Sent' = Sent \ {"read"} /\ Of(queue') = Of(queue)
          /\ Of(uart') = Of(uart) \cup {a, b, f} /\ Of(cmds') \subseteq Of(cmds)
      BY <1>1, <2>4, <2>5, <2>6, AnswersThree
    <2>8. PICK S : S = {a, b, f}
      OBVIOUS
    <2>9. \A e \in S : e.kind \notin {"ID", "open"} /\ (e.by # "thread" \/ ~Opening)
      BY <2>4, <2>8
    <2>10. /\ "close" \in Sent => "close" \in Sent' \cup Said'
           /\ UnderWay' \subseteq UnderWay \cup {"PENDING", "PART", "DATA", "OK"}
           /\ Said \subseteq Said'
      BY <2>7 DEF UnderWay
    <2>11. Of(uart') = Of(uart) \cup S
      BY <2>7, <2>8
    <2>12. QED
      BY <1>1, <2>7, <2>9, <2>10, <2>11, AnswerAgrees
  <1>4. QED
    BY <1>0, <1>2, <1>3 DEF ModuleReads

\* The module is reset before it has joined the network: it has no socket yet.
LEMMA ResetsAgrees ==
  ASSUME CallInv, AgreeInv, ModuleActs, UNCHANGED stationVars, ModuleResets(Head(cmds))
  PROVE  AgreeInv'
  <1>0. PICK a : a = Item("ON", None, "module")
    OBVIOUS
  <1>1. /\ TypeOK /\ FlowInv /\ ItemInv /\ ThreadInv
        /\ UNCHANGED <<wifi_state, wifi_connected, pc, sock, queue, open, openId, answered,
                       response, wind, clients, closedCb, owed>>
        /\ cmds' = <<>> /\ uart' = Append(uart, a) /\ assoc' = "joining" /\ alive' = {}
    BY <1>0, ActsBase DEF ModuleResets, stationVars, openVars, closeVars
  <1>2. pc = "reset" /\ "ON" \in Sent
    <2>1. Class(Head(cmds)) = "ON" /\ Class(Head(cmds)) \in Sent
      BY ActsBase DEF ModuleResets, CmdKinds, Class
    <2>2. QED
      BY <1>1, <2>1 DEF ThreadInv, Network, UnderWay
  <1>3. ~wifi_connected /\ open = {}
    BY <1>2 DEF AgreeInv, Joined
  <1>4. a \in Items /\ a.kind = "ON" /\ Class(a) = "ON"
    BY <1>0 DEF Item, Items, Kinds, Indications, Askers, Class
  <1>5. /\ Queued' = Queued /\ Of(queue') = Of(queue) /\ Sent' = {} /\ Of(cmds') = {}
        /\ Said' = Said \cup {"ON"} /\ Of(uart') = Of(uart) \cup {a}
    BY <1>1, <1>4, Sequences, AppendClasses, NoClasses DEF Queued, Said, Sent
  <1>6. UnderWay' \subseteq UnderWay
    BY <1>2, <1>5 DEF UnderWay
  <1>7. Joined'
    BY <1>1, <1>2, <1>3, <1>6 DEF AgreeInv, Joined
  <1>8. OneSocket'
    BY <1>1, <1>3 DEF AgreeInv, OneSocket
  <1>9. Ahead'
    BY <1>1, <1>3, <1>4, <1>5 DEF AgreeInv, Ahead
  <1>10. Forgotten'
    BY <1>1, <1>2, <1>3 DEF AgreeInv, Forgotten
  <1>11. QED
    BY <1>7, <1>8, <1>9, <1>10 DEF AgreeInv

LEMMA ModuleActsAgrees ==
  ASSUME CallInv, AgreeInv, ModuleActs, UNCHANGED stationVars
  PROVE  AgreeInv'
  BY OpensAgrees, WritesAgrees, ClosesAgrees, QueriesAgrees, ReadsAgrees, ConfiguresAgrees,
     ResetsAgrees
     DEF ModuleActs

\* The module says something unasked.
LEMMA IndicatesItems ==
  ASSUME TypeOK, NEW kind \in Indications \cup {"CLOSED"}, NEW s \in Sockets \cup {None},
         Indicates(kind, s)
  PROVE  /\ Of(queue') = Of(queue) /\ Of(cmds') = Of(cmds) /\ Queued' = Queued /\ Sent' = Sent
         /\ \E a : /\ a.kind = kind /\ a.by = "module" /\ Of(uart') = Of(uart) \cup {a}
                   /\ Said' = Said \cup {Class(a)}
                   /\ Class(a) = IF kind \in JoinNews THEN "join"
                                 ELSE IF kind \in {"DEAUTH", "DISASSOC"} THEN "drop" ELSE kind
         /\ UNCHANGED <<open, clients, openId, closedCb, owed, wind, answered, response>>
  <1>1. PICK a : a = Item(kind, s, "module")
    OBVIOUS
  <1>2. /\ a \in Items /\ a.kind = kind /\ a.by = "module"
        /\ Class(a) = IF kind \in JoinNews THEN "join"
                      ELSE IF kind \in {"DEAUTH", "DISASSOC"} THEN "drop" ELSE kind
    BY <1>1 DEF Item, Items, Kinds, Indications, Askers, Class, JoinNews
  <1>3. /\ uart' = Append(uart, a) /\ UNCHANGED <<queue, cmds>>
        /\ UNCHANGED <<open, clients, openId, closedCb, owed, wind, answered, response>>
    BY <1>1 DEF Indicates, mailbox, closeVars, openVars
  <1>4. /\ Of(uart') = Of(uart) \cup {a} /\ Said' = Said \cup {Class(a)}
    BY <1>2, <1>3, Sequences, AppendClasses DEF Said
  <1>5. Of(queue') = Of(queue) /\ Of(cmds') = Of(cmds) /\ Queued' = Queued /\ Sent' = Sent
    BY <1>3 DEF Queued, Sent
  <1>6. QED
    BY <1>2, <1>3, <1>4, <1>5

\* The news that it has joined the network finds a program that waits for it.
LEMMA JoinsAgrees ==
  ASSUME CallInv, AgreeInv, ModuleJoins, pc # "reset", UNCHANGED stationVars
  PROVE  AgreeInv'
  <1>1. /\ TypeOK /\ ThreadInv /\ UNCHANGED <<wifi_state, wifi_connected, pc, sock, alive>>
        /\ assoc = "joining" /\ assoc' # "joining"
    BY DEF CallInv, IInv, ModuleJoins, stationVars
  <1>2. PICK kind \in JoinNews : Indicates(kind, None)
    BY DEF ModuleJoins, JoinNews
  <1>3. /\ Of(queue') = Of(queue) /\ Of(cmds') = Of(cmds) /\ Queued' = Queued /\ Sent' = Sent
        /\ UNCHANGED <<open, clients, openId, closedCb, owed, wind, answered, response>>
    BY <1>1, <1>2, IndicatesItems DEF JoinNews, Indications
  <1>4. PICK a : /\ a.kind = kind /\ a.by = "module" /\ Of(uart') = Of(uart) \cup {a}
                 /\ Said' = Said \cup {"join"}
    BY <1>1, <1>2, IndicatesItems DEF JoinNews, Indications
  <1>5. ~wifi_connected /\ wifi_state = "idle" /\ pc = "loop" /\ wind \notin JoinNews
    BY <1>1 DEF AgreeInv, Joined
  <1>6. UnderWay' = UnderWay \cup {"join"}
    BY <1>3, <1>4 DEF UnderWay
  <1>7. Joined'
    BY <1>1, <1>3, <1>5, <1>6 DEF AgreeInv, Joined
  <1>8. OneSocket'
    BY <1>1, <1>3 DEF AgreeInv, OneSocket
  <1>9. open = {} /\ alive = {}
    BY <1>5 DEF AgreeInv, Joined
  <1>10. Ahead'
    BY <1>1, <1>3, <1>4, <1>9 DEF AgreeInv, Ahead, JoinNews
  <1>11. Forgotten'
    BY <1>1, <1>3, <1>5, <1>9 DEF AgreeInv, Forgotten
  <1>12. QED
    BY <1>7, <1>8, <1>10, <1>11 DEF AgreeInv

LEMMA ServerClosesAgrees ==
  ASSUME CallInv, AgreeInv, ServerCloses, pc = "delay", UNCHANGED stationVars
  PROVE  AgreeInv'
  <1>1. /\ TypeOK /\ UNCHANGED <<wifi_state, wifi_connected, pc, sock, alive, assoc>>
    BY DEF CallInv, IInv, ServerCloses, stationVars
  <1>2. PICK s \in Sockets : Indicates("CLOSED", s)
    BY <1>1 DEF ServerCloses, TypeOK, ModuleTypeOK
  <1>3. /\ Of(queue') = Of(queue) /\ Of(cmds') = Of(cmds) /\ Queued' = Queued /\ Sent' = Sent
        /\ UNCHANGED <<open, clients, openId, closedCb, owed, wind, answered, response>>
    BY <1>1, <1>2, IndicatesItems
  <1>4. PICK a : /\ a.kind = "CLOSED" /\ a.by = "module" /\ Of(uart') = Of(uart) \cup {a}
                 /\ Said' = Said \cup {"CLOSED"}
    BY <1>1, <1>2, IndicatesItems DEF JoinNews
  <1>5. SocketsLeft
    BY <1>1, <1>3 DEF SocketsLeft
  <1>6. \A e \in Of(queue') \cup Of(uart') :
          \/ e \in Of(queue) \cup Of(uart)
          \/ e.kind \notin {"ID", "open"} /\ (e.by # "thread" \/ ~Opening)
    BY <1>3, <1>4
  <1>7. \A e \in Of(cmds') : e \in Of(cmds) \/ (e.kind \in {"ID", "open"} => pc = "open")
    BY <1>3
  <1>8. UnderWay' = UnderWay \cup {"CLOSED"}
    BY <1>3, <1>4 DEF UnderWay
  <1>9. /\ "thread" \in Queued \cup Said => "thread" \in Queued' \cup Said' \/ ~Opening
        /\ "drop" \notin UnderWay'
        /\ "join" \in UnderWay' => "join" \in UnderWay
    BY <1>3, <1>4, <1>8 DEF AgreeInv, Joined
  <1>10. /\ open \subseteq alive \/ "close" \in Said'
         /\ pc = "closed" => open = {} \/ "close" \in UnderWay' \/ owed' # {}
    BY <1>4, <1>8 DEF AgreeInv, Ahead
  <1>11. QED
    BY <1>5, <1>6, <1>7, <1>9, <1>10, AgreeKept

LEMMA NextAgrees ==
  ASSUME Prompt, Steady, CallInv, AgreeInv, [Next]_vars
  PROVE  AgreeInv'
  <1>1. /\ QueueMax >= 7 /\ "late" \notin Faults /\ "race" \notin Faults
        /\ "deauth" \notin Faults /\ "disassoc" \notin Faults
    BY DEF Prompt, Steady
  <1>2. CASE Thread
    BY <1>1, <1>2, ThreadAgrees
  <1>3. CASE TimerPop
    BY <1>3, PopAgrees
  <1>4. CASE TimerChain
    BY <1>4, ChainAgrees
  <1>5. CASE Driver
    <2>1. ~Timeout
      BY <1>1 DEF Timeout, Spend
    <2>2. CASE Parse /\ UNCHANGED stationVars
      BY <1>1, <2>2, ParseAgrees
    <2>3. CASE ModuleActs /\ UNCHANGED stationVars
      BY <2>3, ModuleActsAgrees
    <2>4. QED
      BY <1>5, <2>1, <2>2, <2>3 DEF Driver, SysTick
  <1>6. CASE World
    <2>1. ~StationDropped
      BY <1>1 DEF StationDropped, Spend
    <2>2. QED
      BY <1>1, <1>6, <2>1, JoinsAgrees, ServerClosesAgrees DEF World
  <1>7. CASE UNCHANGED vars
    <2>1. UNCHANGED <<queue, uart, cmds>>
      BY <1>7 DEF vars, driverVars, moduleVars
    <2>2. /\ Queued' = Queued /\ Said' = Said /\ UnderWay' = UnderWay
          /\ Of(queue') = Of(queue) /\ Of(uart') = Of(uart) /\ Of(cmds') = Of(cmds)
      BY <2>1, SameFlow DEF CallInv
    <2>3. SocketsLeft /\ UNCHANGED owed
      BY <1>7 DEF SocketsLeft, vars, driverVars, moduleVars, mailbox, closeVars, openVars,
                  stationVars
    <2>4. \A e \in Of(queue') \cup Of(uart') : e \in Of(queue) \cup Of(uart)
      BY <2>2
    <2>5. /\ "drop" \notin UnderWay'
          /\ open \subseteq alive \/ "close" \in Said'
          /\ pc = "closed" => open = {} \/ "close" \in UnderWay' \/ owed' # {}
      BY <2>2, <2>3 DEF AgreeInv, Joined, Ahead, Forgotten
    <2>6. QED
      BY <2>2, <2>3, <2>4, <2>5, AgreeKept
  <1>8. QED
    BY <1>2, <1>3, <1>4, <1>5, <1>6, <1>7 DEF Next

LEMMA InvSocketsAgree == CallInv /\ AgreeInv => SocketsAgree
  <1> SUFFICES ASSUME CallInv, AgreeInv, Quiet, pc = "delay"
               PROVE  open = alive /\ clients = Cardinality(open) /\ open \subseteq {sock}
    BY DEF SocketsAgree
  <1>1. Said = {}
    BY QuietMeans DEF CallInv, IInv
  <1>2. open = alive
    BY <1>1 DEF AgreeInv, Ahead, Opening
  <1>3. open \subseteq {sock} /\ clients = IF open = {} THEN 0 ELSE 1
    BY DEF AgreeInv, OneSocket
  <1>4. clients = Cardinality(open)
    <2>1. CASE open = {}
      BY <1>3, <2>1, FS_EmptySet
    <2>2. CASE open # {}
      <3>1. open = {sock}
        BY <1>3, <2>2
      <3>2. QED
        BY <1>3, <3>1, FS_Singleton
    <2>3. QED
      BY <2>1, <2>2
  <1>5. QED
    BY <1>2, <1>3, <1>4

\* When nothing is under way, the driver's open_sockets, its count of clients and the
\* sockets of the module are the same, and n.my_socket is the one there is: neither
\* side keeps a socket the other has closed, and the program forgets none.
THEOREM SocketsStayAgreed ==
  ASSUME Prompt, Steady
  PROVE  Spec => []SocketsAgree
  <1>1. Init => CallInv /\ AgreeInv
    BY InitCallInv, InitAgrees
  <1>2. CallInv /\ AgreeInv /\ [Next]_vars => (CallInv /\ AgreeInv)'
    BY NextCallInv, NextAgrees
  <1>3. QED
    BY <1>1, <1>2, InvSocketsAgree, PTL DEF Spec
=============================================================================
