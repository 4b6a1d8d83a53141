--------------------------- MODULE BleClientProofs ---------------------------
(***************************************************************************)
(* Proofs of what the streams of the nodes are to a client, with the       *)
(* hypothesis of BleMasterProofs.                                          *)
(*                                                                         *)
(* A node streams for a client only (StreamsHaveAClient), with at most one *)
(* client.  What has to be shown is about the queue: a write that a client *)
(* made is handled while the slave service believes in that client,        *)
(* although the client may have left, and come back, before the write is   *)
(* looked at.                                                              *)
(*                                                                         *)
(* At most one stream is on (OneStream), while the node stays.  What has   *)
(* to be shown is that no client is heard before the node is counted.      *)
(***************************************************************************)
EXTENDS BleMasterProofs

\* At most one client: a second one can be linked beside the first (a scan that
\* is refused in the pass in which a connection is announced turns the
\* advertising on again), and its writes outlive the first one's link.
OneClient == \A c, d \in Clients : c = d

IsSlave(k) == IsConn(k) /\ events[k].role = "slave"

\* When the event at k is handled the slave service is connected: it is now, or
\* a connection comes first, and no disconnection in between ends it.
ClientThere(k) ==
  \/ slaveDev.is_connected /\ \A j \in 1..k-1 : ~IsDisconn(j, slaveDev.conn_handle)
  \/ \E i \in 1..k-1 : IsSlave(i) /\ \A j \in i+1..k-1 : ~IsDisconn(j, events[i].handle)

\* A write is handled while its client is there.
WritesHaveAClient ==
  \A k \in 1..Len(events) : events[k].type = "modified" => ClientThere(k)

\* While a client is linked, so is one that the next event would find.
LinkHasAClient ==
  \A h \in Handles, k \in 1..Len(events)+1 :
    links[h] \in Clients /\ k > Len(events) => ClientThere(k)

\* A client connects only after the end of the last one's link.
ClientEnds ==
  \A k \in 1..Len(events) : IsSlave(k) /\ slaveDev.is_connected
    => \E j \in 1..k-1 : IsDisconn(j, slaveDev.conn_handle)

ClientsAlternate ==
  \A k, m \in 1..Len(events) : IsSlave(k) /\ IsSlave(m) /\ k < m
    => \E j \in k+1..m-1 : IsDisconn(j, events[k].handle)

OneLink == \A g, h \in Handles : links[g] \in Clients /\ links[h] \in Clients => g = h

QueueInv == WritesHaveAClient /\ LinkHasAClient /\ ClientEnds /\ ClientsAlternate /\ OneLink

\* The streams that can be on, and for whom.
Streamed == {"prx", "agm", "sfusion"}

StreamInv ==
  perDevs.on[0] \subseteq Streamed /\ (perDevs.on[0] # {} => slaveDev.is_connected)

ClientInv == QueueInv /\ StreamInv

-----------------------------------------------------------------------------
(* The queue.                                                              *)

\* Neither the queue, nor the links, nor what is believed of the client changes.
LEMMA PassKeepsClients ==
  ASSUME QueueInv, UNCHANGED <<links, events>>, ClientKept
  PROVE  QueueInv'
  BY DEF QueueInv, WritesHaveAClient, LinkHasAClient, ClientEnds, ClientsAlternate, OneLink,
         ClientThere, ClientKept, IsSlave, IsConn, IsDisconn

\* What is behind the head keeps its place in the order.
LEMMA PopShiftsClients ==
  ASSUME Typed, events # <<>>, events' = Tail(events)
  PROVE  \A k \in 1..Len(events') : IsSlave(k)' <=> IsSlave(k + 1)
  <1>1. \A k \in 1..Len(events') : events'[k] = events[k + 1] /\ (IsConn(k)' <=> IsConn(k + 1))
    BY PopShifts
  <1>2. QED
    BY <1>1 DEF IsSlave

\* A client that the event at k + 1 finds through a later connection is found
\* by it still when it has moved to k.
LEMMA PopKeepsConnection ==
  ASSUME Typed, events # <<>>, events' = Tail(events),
         NEW k \in 1..Len(events), NEW i \in 2..k, IsSlave(i),
         \A j \in i+1..k : ~IsDisconn(j, events[i].handle)
  PROVE  ClientThere(k)'
  <1>1. /\ i - 1 \in 1..Len(events') /\ i - 1 \in 1..k-1 /\ (i - 1) + 1 = i
        /\ \A j \in i..k-1 : j \in 1..Len(events') /\ j + 1 \in i+1..k
    BY PopShifts
  <1>2. IsSlave(i - 1)' /\ events'[i - 1] = events[i]
    BY <1>1, PopShifts, PopShiftsClients
  <1>3. \A j \in (i - 1)+1..k-1 : ~IsDisconn(j, events[i - 1].handle)'
    BY <1>1, <1>2, PopShifts
  <1>4. QED
    BY <1>1, <1>2, <1>3 DEF ClientThere

\* The parts of QueueInv that follow when every client there is found still.
LEMMA PopKeepsWrites ==
  ASSUME Typed, QueueInv, events # <<>>, events' = Tail(events), UNCHANGED links,
         \A k \in 1..Len(events) : ClientThere(k + 1) => ClientThere(k)'
  PROVE  WritesHaveAClient' /\ LinkHasAClient' /\ ClientsAlternate' /\ OneLink'
  <1>1. /\ Len(events) \in Nat /\ Len(events) >= 1 /\ Len(events') = Len(events) - 1
        /\ \A k \in 1..Len(events') : k + 1 \in 1..Len(events) /\ events'[k] = events[k + 1]
    BY PopShifts
  <1>2. WritesHaveAClient'
    BY <1>1 DEF QueueInv, WritesHaveAClient
  <1>3. LinkHasAClient'
    <2> SUFFICES ASSUME NEW h \in Handles, NEW k \in 1..Len(events')+1,
                        links[h] \in Clients, k > Len(events')
                 PROVE  ClientThere(k)'
      BY DEF LinkHasAClient
    <2>1. k \in 1..Len(events) /\ k + 1 \in 1..Len(events)+1 /\ k + 1 > Len(events)
      BY <1>1
    <2>2. QED
      BY <2>1 DEF QueueInv, LinkHasAClient
  <1>4. ClientsAlternate'
    <2> SUFFICES ASSUME NEW k \in 1..Len(events'), NEW m \in 1..Len(events'), k < m,
                        IsSlave(k)', IsSlave(m)'
                 PROVE  \E j \in k+1..m-1 : IsDisconn(j, events[k].handle)'
      BY DEF ClientsAlternate
    <2>1. IsSlave(k + 1) /\ IsSlave(m + 1) /\ k + 1 < m + 1
      BY <1>1, PopShiftsClients
    <2>2. PICK j \in k+2..m : IsDisconn(j, events[k + 1].handle)
      BY <1>1, <2>1 DEF QueueInv, ClientsAlternate
    <2>3. j - 1 \in k+1..m-1 /\ j - 1 \in 1..Len(events') /\ (j - 1) + 1 = j
      BY <1>1, <2>2
    <2>4. QED
      BY PopShifts, <2>2, <2>3
  <1>5. OneLink'
    BY DEF QueueInv, OneLink
  <1>6. QED
    BY <1>2, <1>3, <1>4, <1>5

\* An event that connects no client; the client is gone afterwards if, and only
\* if, the event is the end of its link.
LEMMA PopKeepsClients ==
  ASSUME Typed, QueueInv, events # <<>>, events' = Tail(events), UNCHANGED links,
         ~IsSlave(1),
         slaveDev'.is_connected
           <=> slaveDev.is_connected /\ ~IsDisconn(1, slaveDev.conn_handle),
         slaveDev'.is_connected => slaveDev'.conn_handle = slaveDev.conn_handle
  PROVE  QueueInv'
  <1>1. /\ Len(events) \in Nat /\ Len(events') = Len(events) - 1
        /\ \A k \in 1..Len(events') : k + 1 \in 1..Len(events) /\ events'[k] = events[k + 1]
    BY PopShifts
  <1>2. ASSUME NEW k \in 1..Len(events), ClientThere(k + 1)
        PROVE  ClientThere(k)'
    <2>1. CASE slaveDev.is_connected /\ \A j \in 1..k : ~IsDisconn(j, slaveDev.conn_handle)
      <3>1. slaveDev'.is_connected /\ slaveDev'.conn_handle = slaveDev.conn_handle
        BY <2>1
      <3>2. \A j \in 1..k-1 : j \in 1..Len(events') /\ j + 1 \in 1..k
        BY <1>1
      <3>3. \A j \in 1..k-1 : ~IsDisconn(j, slaveDev.conn_handle)'
        BY <2>1, <3>1, <3>2, PopShifts
      <3>4. QED
        BY <3>1, <3>3 DEF ClientThere
    <2>2. CASE \E i \in 1..k : IsSlave(i) /\ \A j \in i+1..k : ~IsDisconn(j, events[i].handle)
      <3>1. PICK i \in 1..k : IsSlave(i) /\ \A j \in i+1..k : ~IsDisconn(j, events[i].handle)
        BY <2>2
      <3>2. i \in 2..k
        BY <3>1
      <3>3. QED
        BY <3>1, <3>2, PopKeepsConnection
    <2>3. (k + 1) - 1 = k
      OBVIOUS
    <2>4. QED
      BY <1>2, <2>1, <2>2, <2>3 DEF ClientThere
  <1>3. ClientEnds'
    <2> SUFFICES ASSUME NEW k \in 1..Len(events'), IsSlave(k)', slaveDev'.is_connected
                 PROVE  \E j \in 1..k-1 : IsDisconn(j, slaveDev.conn_handle)'
      BY DEF ClientEnds
    <2>1. IsSlave(k + 1)
      BY PopShiftsClients
    <2>2. \E j \in 1..k : IsDisconn(j, slaveDev.conn_handle)
      BY <1>1, <2>1 DEF QueueInv, ClientEnds
    <2>3. QED
      BY <2>2, PopKeepsEnds
  <1>4. QED
    BY <1>2, <1>3, PopKeepsWrites DEF QueueInv

\* A client is connected: none was there, or it would have ended first.
LEMMA PopConnectsClient ==
  ASSUME Typed, QueueInv, events # <<>>, events' = Tail(events), UNCHANGED links,
         IsSlave(1), slaveDev'.is_connected, slaveDev'.conn_handle = events[1].handle
  PROVE  QueueInv'
  <1>1. /\ Len(events) \in Nat /\ Len(events') = Len(events) - 1 /\ 1 \in 1..Len(events)
        /\ \A k \in 1..Len(events') : k + 1 \in 1..Len(events) /\ events'[k] = events[k + 1]
    BY PopShifts
  <1>2. ~slaveDev.is_connected
    BY <1>1 DEF QueueInv, ClientEnds
  <1>3. ASSUME NEW k \in 1..Len(events), ClientThere(k + 1)
        PROVE  ClientThere(k)'
    <2>1. (k + 1) - 1 = k
      OBVIOUS
    <2>2. PICK i \in 1..k : IsSlave(i) /\ \A j \in i+1..k : ~IsDisconn(j, events[i].handle)
      BY <1>2, <1>3, <2>1 DEF ClientThere
    <2>3. CASE i = 1
      <3>1. \A j \in 1..k-1 : j \in 1..Len(events') /\ j + 1 \in i+1..k
        BY <1>1, <2>3
      <3>2. \A j \in 1..k-1 : ~IsDisconn(j, slaveDev.conn_handle)'
        BY <2>2, <2>3, <3>1, PopShifts DEF IsDisconn
      <3>3. QED
        BY <3>2 DEF ClientThere
    <2>4. CASE i # 1
      <3>1. i \in 2..k
        BY <2>4
      <3>2. QED
        BY <2>2, <3>1, PopKeepsConnection
    <2>5. QED
      BY <2>3, <2>4
  <1>4. ClientEnds'
    <2> SUFFICES ASSUME NEW k \in 1..Len(events'), IsSlave(k)'
                 PROVE  \E j \in 1..k-1 : IsDisconn(j, slaveDev.conn_handle)'
      BY DEF ClientEnds
    <2>1. IsSlave(k + 1) /\ 1 < k + 1
      BY <1>1, PopShiftsClients
    <2>2. \E j \in 2..k : IsDisconn(j, events[1].handle)
      BY <1>1, <2>1 DEF QueueInv, ClientsAlternate
    <2>3. ~IsDisconn(1, events[1].handle)
      BY DEF IsSlave, IsConn, IsDisconn
    <2>4. QED
      BY <2>2, <2>3, PopKeepsEnds
  <1>5. QED
    BY <1>3, <1>4, PopKeepsWrites DEF QueueInv

\* What is posted comes too late to take a client from what was queued.
LEMMA PostKeepsThere ==
  ASSUME Typed, NEW es \in Seq(Events), Post(es), ClientKept
  PROVE  /\ \A k \in 1..Len(events) : IsSlave(k)' <=> IsSlave(k)
         /\ \A k \in 1..Len(events)+1 : ClientThere(k) => ClientThere(k)'
         /\ (\A i \in 1..Len(es) : es[i].type # "disconn") =>
              \A k \in Len(events)+1..Len(events')+1 :
                ClientThere(Len(events) + 1) => ClientThere(k)'
  <1>1. PICK n \in Nat : n = Len(events)
    BY PostKeepsQueue
  <1>2. /\ Len(es) \in Nat /\ Len(events') = n + Len(es)
        /\ 1..n \subseteq 1..Len(events')
        /\ \A k \in 1..n : /\ events'[k] = events[k] /\ (IsConn(k)' <=> IsConn(k))
                           /\ \A h : IsDisconn(k, h)' <=> IsDisconn(k, h)
        /\ \A k \in 1..Len(events') : k \notin 1..n =>
             k - n \in 1..Len(es) /\ events'[k] = es[k - n]
    BY <1>1, PostKeepsQueue
  <1>3. \A k \in 1..n : IsSlave(k)' <=> IsSlave(k)
    BY <1>2 DEF IsSlave
  <1>4. slaveDev'.is_connected = slaveDev.is_connected
        /\ slaveDev'.conn_handle = slaveDev.conn_handle
    BY DEF ClientKept
  <1>5. ASSUME NEW m \in 1..n+1, NEW k \in m..Len(events')+1, ClientThere(m),
               \A j \in m..k-1 : \A h : ~IsDisconn(j, h)'
        PROVE  ClientThere(k)'
    <2>1. CASE slaveDev.is_connected /\ \A j \in 1..m-1 : ~IsDisconn(j, slaveDev.conn_handle)
      <3>1. \A j \in 1..k-1 : j \in m..k-1 \/ (j \in 1..m-1 /\ j \in 1..n)
        BY <1>5
      <3>2. \A j \in 1..k-1 : ~IsDisconn(j, slaveDev.conn_handle)'
        BY <1>2, <1>4, <1>5, <2>1, <3>1
      <3>3. QED
        BY <1>4, <2>1, <3>2 DEF ClientThere
    <2>2. CASE \E i \in 1..m-1 : IsSlave(i) /\ \A j \in i+1..m-1 : ~IsDisconn(j, events[i].handle)
      <3>1. PICK i \in 1..m-1 : IsSlave(i) /\ \A j \in i+1..m-1 : ~IsDisconn(j, events[i].handle)
        BY <2>2
      <3>2. i \in 1..n /\ i \in 1..k-1
        BY <1>2, <3>1
      <3>3. IsSlave(i)' /\ events'[i] = events[i]
        BY <1>2, <1>3, <3>1, <3>2
      <3>4. \A j \in i+1..k-1 : j \in m..k-1 \/ (j \in i+1..m-1 /\ j \in 1..n)
        BY <1>5, <3>2
      <3>5. \A j \in i+1..k-1 : ~IsDisconn(j, events[i].handle)'
        BY <1>2, <1>5, <3>1, <3>3, <3>4
      <3>6. QED
        BY <3>2, <3>3, <3>5 DEF ClientThere
    <2>3. QED
      BY <1>5, <2>1, <2>2 DEF ClientThere
  <1>6. \A k \in 1..n+1 : ClientThere(k) => ClientThere(k)'
    <2>1. \A k \in 1..n+1 : k \in k..Len(events')+1 /\ k..k-1 = {}
      BY <1>2
    <2>2. QED
      BY <1>5, <2>1
  <1>7. ASSUME \A i \in 1..Len(es) : es[i].type # "disconn",
               NEW k \in n+1..Len(events')+1, ClientThere(n + 1)
        PROVE  ClientThere(k)'
    <2>1. \A j \in n+1..k-1 : j \in 1..Len(events') /\ j \notin 1..n
      BY <1>2
    <2>2. \A j \in n+1..k-1 : \A h : ~IsDisconn(j, h)'
      BY <1>2, <1>7, <2>1 DEF IsDisconn
    <2>3. n + 1 \in 1..n+1
      OBVIOUS
    <2>4. QED
      BY <1>5, <1>7, <2>2, <2>3
  <1>8. QED
    BY <1>1, <1>3, <1>6, <1>7

\* No client comes or goes.  A write is posted while a client is linked.
LEMMA PostKeepsClients ==
  ASSUME Typed, QueueInv, NEW es \in Seq(Events), Post(es), ClientKept,
         \A h \in Handles : links'[h] \in Clients => links'[h] = links[h],
         \A i \in 1..Len(es) :
           /\ es[i].type # "disconn"
           /\ es[i].type = "conn" => es[i].role # "slave"
           /\ es[i].type = "modified" => \E h \in Handles : links[h] \in Clients
  PROVE  QueueInv'
  <1>1. PICK n \in Nat : n = Len(events)
    BY PostKeepsQueue
  <1>2. /\ Len(es) \in Nat /\ Len(events') = n + Len(es)
        /\ 1..n \subseteq 1..Len(events')
        /\ \A k \in 1..n : /\ events'[k] = events[k]
                           /\ \A h : IsDisconn(k, h)' <=> IsDisconn(k, h)
        /\ \A k \in 1..Len(events') : k \notin 1..n =>
             k - n \in 1..Len(es) /\ events'[k] = es[k - n]
    BY <1>1, PostKeepsQueue
  <1>3. /\ \A k \in 1..n : IsSlave(k)' <=> IsSlave(k)
        /\ \A k \in 1..n : ClientThere(k) => ClientThere(k)'
        /\ \A k \in n+1..Len(events')+1 : ClientThere(n + 1) => ClientThere(k)'
    BY <1>1, PostKeepsThere
  <1>4. (\E h \in Handles : links[h] \in Clients) => ClientThere(n + 1)
    BY <1>1 DEF QueueInv, LinkHasAClient
  <1>5. WritesHaveAClient'
    <2> SUFFICES ASSUME NEW k \in 1..Len(events'), events'[k].type = "modified"
                 PROVE  ClientThere(k)'
      BY DEF WritesHaveAClient
    <2>1. CASE k \in 1..n
      BY <1>1, <1>2, <1>3, <2>1 DEF QueueInv, WritesHaveAClient
    <2>2. CASE k \notin 1..n
      <3>1. k - n \in 1..Len(es) /\ events'[k] = es[k - n] /\ k \in n+1..Len(events')+1
        BY <1>2, <2>2
      <3>2. \E h \in Handles : links[h] \in Clients
        BY <3>1
      <3>3. QED
        BY <1>3, <1>4, <3>1, <3>2
    <2>3. QED
      BY <2>1, <2>2
  <1>6. LinkHasAClient'
    <2> SUFFICES ASSUME NEW h \in Handles, NEW k \in 1..Len(events')+1,
                        links'[h] \in Clients, k > Len(events')
                 PROVE  ClientThere(k)'
      BY DEF LinkHasAClient
    <2>1. links[h] \in Clients /\ k \in n+1..Len(events')+1
      BY <1>2
    <2>2. QED
      BY <1>3, <1>4, <2>1
  <1>7. \A k \in 1..Len(events') : IsSlave(k)' => k \in 1..n
    <2> SUFFICES ASSUME NEW k \in 1..Len(events'), k \notin 1..n
                 PROVE  ~IsSlave(k)'
      OBVIOUS
    <2>1. k - n \in 1..Len(es) /\ events'[k] = es[k - n]
      BY <1>2
    <2>2. QED
      BY <2>1 DEF IsSlave, IsConn
  <1>8. ClientEnds' /\ ClientsAlternate'
    <2>1. ASSUME NEW k \in 1..Len(events'), IsSlave(k)', slaveDev'.is_connected
          PROVE  \E j \in 1..k-1 : IsDisconn(j, slaveDev.conn_handle)'
      <3>1. k \in 1..n /\ IsSlave(k) /\ slaveDev.is_connected
        BY <1>3, <1>7, <2>1 DEF ClientKept
      <3>2. PICK j \in 1..k-1 : IsDisconn(j, slaveDev.conn_handle)
        BY <1>1, <3>1 DEF QueueInv, ClientEnds
      <3>3. j \in 1..n
        BY <3>1
      <3>4. QED
        BY <1>2, <3>2, <3>3 DEF ClientKept
    <2>2. ASSUME NEW k \in 1..Len(events'), NEW m \in 1..Len(events'),
                 IsSlave(k)', IsSlave(m)', k < m
          PROVE  \E j \in k+1..m-1 : IsDisconn(j, events[k].handle)'
      <3>1. k \in 1..n /\ m \in 1..n /\ IsSlave(k) /\ IsSlave(m) /\ events'[k] = events[k]
        BY <1>2, <1>3, <1>7, <2>2
      <3>2. PICK j \in k+1..m-1 : IsDisconn(j, events[k].handle)
        BY <1>1, <2>2, <3>1 DEF QueueInv, ClientsAlternate
      <3>3. j \in 1..n
        BY <3>1
      <3>4. QED
        BY <1>2, <3>1, <3>2, <3>3
    <2>3. QED
      BY <2>1, <2>2 DEF ClientEnds, ClientsAlternate
  <1>9. OneLink'
    BY DEF QueueInv, OneLink
  <1>10. QED
    BY <1>5, <1>6, <1>8, <1>9 DEF QueueInv

\* A link is lost.  If it was the client's no client is linked; if it was the
\* node's its handle is not the one of the client.
LEMMA LossKeepsClients ==
  ASSUME IInv, QueueInv, NEW h \in Handles, links[h] # None, ClientKept,
         links' = [links EXCEPT ![h] = None],
         Post(<<[type |-> "disconn", handle |-> h]>>)
  PROVE  QueueInv'
  <1> DEFINE e == [type |-> "disconn", handle |-> h]
             es == <<e>>
  <1>1. e \in Events /\ Typed /\ LinkInv
    BY DEF Events, IInv
  <1>2. es \in Seq(Events) /\ Len(es) = 1 /\ Post(es) /\ es[1] = e
    BY <1>1
  <1>3. PICK n \in Nat : n = Len(events)
    BY <1>1, <1>2, PostKeepsQueue
  <1> HIDE DEF es
  <1>4. 1 \in 1..Len(es)
    BY <1>2
  <1>5. /\ Len(events') = n + 1 /\ events'[n + 1] = e
        /\ \A k \in 1..n : /\ events'[k] = events[k]
                           /\ \A g : IsDisconn(k, g)' <=> IsDisconn(k, g)
    BY <1>1, <1>2, <1>3, <1>4, PostKeepsQueue
  <1>6. /\ \A k \in 1..n : IsSlave(k)' <=> IsSlave(k)
        /\ \A k \in 1..n+1 : ClientThere(k) => ClientThere(k)'
    BY <1>1, <1>2, <1>3, PostKeepsThere
  <1>7. /\ links'[h] = None /\ None \notin Clients
        /\ \A g \in Handles : g # h => links'[g] = links[g]
    BY <1>1, PeersAssumption DEF Typed, TypeOK, None
  <1>8. ~IsSlave(n + 1)' /\ \A k \in 1..n+1 : k \in 1..n \/ k = n + 1
    BY <1>5 DEF IsSlave, IsConn
  <1>9. WritesHaveAClient'
    <2> SUFFICES ASSUME NEW k \in 1..n+1, events'[k].type = "modified"
                 PROVE  ClientThere(k)'
      BY <1>5 DEF WritesHaveAClient
    <2>1. k \in 1..n
      BY <1>5, <1>8
    <2>2. QED
      BY <1>3, <1>5, <1>6, <2>1 DEF QueueInv, WritesHaveAClient
  <1>10. LinkHasAClient'
    <2> SUFFICES ASSUME NEW g \in Handles, links'[g] \in Clients
                 PROVE  ClientThere(n + 2)'
      BY <1>5 DEF LinkHasAClient
    <2>1. g # h /\ links[g] \in Clients
      BY <1>7
    <2>2. links[h] \in Addrs
      BY <1>1, <2>1 DEF QueueInv, OneLink, Typed, TypeOK, Peers
    <2>3. Addrs \cap Clients = {}
      BY PeersAssumption
    <2>4. ClientThere(n + 1)
      BY <1>3, <2>1 DEF QueueInv, LinkHasAClient
    <2>5. (n + 1) - 1 = n /\ (n + 2) - 1 = n + 1
      OBVIOUS
    <2>6. CASE slaveDev.is_connected /\ \A j \in 1..n : ~IsDisconn(j, slaveDev.conn_handle)
      <3>1. ~QueuedOf("disconn", slaveDev.conn_handle)
        BY <1>1, <1>3, <2>6, EventsTyped DEF QueuedOf, IsDisconn
      <3>2. links[slaveDev.conn_handle] \in Clients
        BY <1>1, <2>6, <3>1 DEF LinkInv, ClientLinked
      <3>3. slaveDev.conn_handle # h
        BY <2>2, <2>3, <3>2
      <3>4. ~IsDisconn(n + 1, slaveDev.conn_handle)'
        BY <1>5, <3>3 DEF IsDisconn, ClientKept
      <3>5. \A j \in 1..n+1 : ~IsDisconn(j, slaveDev.conn_handle)'
        BY <1>5, <1>8, <2>6, <3>4 DEF ClientKept
      <3>6. QED
        BY <2>5, <2>6, <3>5 DEF ClientThere, ClientKept
    <2>7. CASE \E i \in 1..n : IsSlave(i) /\ \A j \in i+1..n : ~IsDisconn(j, events[i].handle)
      <3>1. PICK i \in 1..n : IsSlave(i) /\ \A j \in i+1..n : ~IsDisconn(j, events[i].handle)
        BY <2>7
      <3>2. links[events[i].handle] \in Clients
        BY <1>1, <1>3, <3>1 DEF LinkInv, ConnsLinked, IsSlave, PeerOf
      <3>3. events[i].handle # h
        BY <2>2, <2>3, <3>2
      <3>4. IsSlave(i)' /\ events'[i] = events[i]
        BY <1>5, <1>6, <3>1
      <3>5. ~IsDisconn(n + 1, events[i].handle)'
        BY <1>5, <3>3, <3>4 DEF IsDisconn
      <3>6. \A j \in i+1..n+1 : j \in 1..n \/ j = n + 1
        OBVIOUS
      <3>7. \A j \in i+1..n+1 : ~IsDisconn(j, events[i].handle)'
        BY <1>5, <3>1, <3>4, <3>5, <3>6
      <3>8. i \in 1..(n + 2) - 1
        OBVIOUS
      <3>9. QED
        BY <2>5, <3>4, <3>7, <3>8 DEF ClientThere
    <2>8. QED
      BY <2>4, <2>5, <2>6, <2>7 DEF ClientThere
  <1>11. ClientEnds' /\ ClientsAlternate'
    <2>1. ASSUME NEW k \in 1..n+1, IsSlave(k)', slaveDev'.is_connected
          PROVE  \E j \in 1..k-1 : IsDisconn(j, slaveDev.conn_handle)'
      <3>1. k \in 1..n /\ IsSlave(k) /\ slaveDev.is_connected
        BY <1>6, <1>8, <2>1 DEF ClientKept
      <3>2. PICK j \in 1..k-1 : IsDisconn(j, slaveDev.conn_handle)
        BY <1>3, <3>1 DEF QueueInv, ClientEnds
      <3>3. j \in 1..n
        BY <3>1
      <3>4. QED
        BY <1>5, <3>2, <3>3 DEF ClientKept
    <2>2. ASSUME NEW k \in 1..n+1, NEW m \in 1..n+1, IsSlave(k)', IsSlave(m)', k < m
          PROVE  \E j \in k+1..m-1 : IsDisconn(j, events[k].handle)'
      <3>1. k \in 1..n /\ m \in 1..n /\ IsSlave(k) /\ IsSlave(m) /\ events'[k] = events[k]
        BY <1>5, <1>6, <1>8, <2>2
      <3>2. PICK j \in k+1..m-1 : IsDisconn(j, events[k].handle)
        BY <1>3, <2>2, <3>1 DEF QueueInv, ClientsAlternate
      <3>3. j \in 1..n
        BY <3>1
      <3>4. QED
        BY <1>5, <3>1, <3>2, <3>3
    <2>3. QED
      BY <1>5, <2>1, <2>2 DEF ClientEnds, ClientsAlternate
  <1>12. OneLink'
    BY <1>7 DEF QueueInv, OneLink
  <1>13. QED
    BY <1>9, <1>10, <1>11, <1>12 DEF QueueInv

\* The client is linked again: what is believed of it, and every connection
\* that is queued, has its end in the queue.
LEMMA ConnectKeepsClients ==
  ASSUME OneClient, IInv, QueueInv, NEW c \in Clients, NEW h \in Handles, ClientKept,
         \A g \in Handles : links[g] # c, links' = [links EXCEPT ![h] = c],
         Post(<<[type |-> "conn", handle |-> h, role |-> "slave"]>>)
  PROVE  QueueInv'
  <1> DEFINE e == [type |-> "conn", handle |-> h, role |-> "slave"]
             es == <<e>>
  <1>1. e \in Events /\ Typed /\ LinkInv
    BY DEF Events, IInv
  <1>2. es \in Seq(Events) /\ Len(es) = 1 /\ Post(es) /\ es[1] = e
    BY <1>1
  <1>3. PICK n \in Nat : n = Len(events)
    BY <1>1, <1>2, PostKeepsQueue
  <1> HIDE DEF es
  <1>4. 1 \in 1..Len(es)
    BY <1>2
  <1>5. /\ Len(events') = n + 1 /\ events'[n + 1] = e
        /\ \A k \in 1..n : /\ events'[k] = events[k]
                           /\ \A g : IsDisconn(k, g)' <=> IsDisconn(k, g)
    BY <1>1, <1>2, <1>3, <1>4, PostKeepsQueue
  <1>6. /\ \A k \in 1..n : IsSlave(k)' <=> IsSlave(k)
        /\ \A k \in 1..n+1 : ClientThere(k) => ClientThere(k)'
    BY <1>1, <1>2, <1>3, PostKeepsThere
  <1>7. /\ \A g \in Handles : links[g] \notin Clients
        /\ \A g \in Handles : g # h => links'[g] = links[g]
    BY <1>1 DEF OneClient, Typed, TypeOK
  <1>8. IsSlave(n + 1)' /\ \A k \in 1..n+1 : k \in 1..n \/ k = n + 1
    BY <1>5 DEF IsSlave, IsConn
  <1>9. WritesHaveAClient'
    <2> SUFFICES ASSUME NEW k \in 1..n+1, events'[k].type = "modified"
                 PROVE  ClientThere(k)'
      BY <1>5 DEF WritesHaveAClient
    <2>1. k \in 1..n
      BY <1>5, <1>8
    <2>2. QED
      BY <1>3, <1>5, <1>6, <2>1 DEF QueueInv, WritesHaveAClient
  <1>10. LinkHasAClient'
    <2>1. n + 1 \in 1..(n + 2) - 1 /\ (n + 1) + 1..(n + 2) - 1 = {}
      OBVIOUS
    <2>2. ClientThere(n + 2)'
      BY <1>8, <2>1 DEF ClientThere
    <2>3. QED
      BY <1>5, <2>2 DEF LinkHasAClient
  <1>11. \A k \in 1..n : IsSlave(k) => \E j \in k+1..n : IsDisconn(j, events[k].handle)
    <2> SUFFICES ASSUME NEW k \in 1..n, IsSlave(k)
                 PROVE  \E j \in k+1..n : IsDisconn(j, events[k].handle)
      OBVIOUS
    <2>1. IsConn(k) /\ events[k].role = "slave" /\ events[k].handle \in Handles
      BY <1>1, <1>3, EventsTyped DEF IsSlave, IsConn
    <2>2. QED
      BY <1>1, <1>3, <1>7, <2>1 DEF LinkInv, ConnsLinked, PeerOf
  <1>12. slaveDev.is_connected => \E j \in 1..n : IsDisconn(j, slaveDev.conn_handle)
    <2>1. slaveDev.is_connected => QueuedOf("disconn", slaveDev.conn_handle)
      BY <1>1, <1>7 DEF LinkInv, ClientLinked
    <2>2. QED
      BY <1>1, <1>3, <2>1, EventsTyped DEF QueuedOf, IsDisconn
  <1>13. ClientEnds' /\ ClientsAlternate'
    <2>1. ASSUME NEW k \in 1..n+1, IsSlave(k)', slaveDev'.is_connected
          PROVE  \E j \in 1..k-1 : IsDisconn(j, slaveDev.conn_handle)'
      <3>1. \E j \in 1..k-1 : j \in 1..n /\ IsDisconn(j, slaveDev.conn_handle)
        <4>1. CASE k \in 1..n
          <5>1. \E j \in 1..k-1 : IsDisconn(j, slaveDev.conn_handle)
            BY <1>3, <1>6, <2>1, <4>1 DEF QueueInv, ClientEnds, ClientKept
          <5>2. QED
            BY <4>1, <5>1
        <4>2. CASE k = n + 1
          BY <1>12, <2>1, <4>2 DEF ClientKept
        <4>3. QED
          BY <1>8, <4>1, <4>2
      <3>2. QED
        BY <1>5, <3>1 DEF ClientKept
    <2>2. ASSUME NEW k \in 1..n+1, NEW m \in 1..n+1, IsSlave(k)', IsSlave(m)', k < m
          PROVE  \E j \in k+1..m-1 : IsDisconn(j, events[k].handle)'
      <3>1. k \in 1..n /\ IsSlave(k) /\ events'[k] = events[k]
        BY <1>5, <1>6, <2>2
      <3>2. \E j \in k+1..m-1 : j \in 1..n /\ IsDisconn(j, events[k].handle)
        <4>1. CASE m \in 1..n
          <5>1. \E j \in k+1..m-1 : IsDisconn(j, events[k].handle)
            BY <1>3, <1>6, <2>2, <3>1, <4>1 DEF QueueInv, ClientsAlternate
          <5>2. QED
            BY <4>1, <5>1
        <4>2. CASE m = n + 1
          BY <1>11, <3>1, <4>2
        <4>3. QED
          BY <1>8, <4>1, <4>2
      <3>3. QED
        BY <1>5, <3>1, <3>2
    <2>3. QED
      BY <1>5, <2>1, <2>2 DEF ClientEnds, ClientsAlternate
  <1>14. OneLink'
    BY <1>7 DEF OneLink
  <1>15. QED
    BY <1>9, <1>10, <1>13, <1>14 DEF QueueInv

-----------------------------------------------------------------------------
(* The steps.                                                              *)

\* What happens on the air.
LEMMA AirClients ==
  ASSUME OneClient, IInv, ClientInv, Air
  PROVE  ClientInv'
  <1>1. Typed /\ QueueInv
    BY DEF IInv, ClientInv
  <1>2. UNCHANGED <<perDevs, slaveDev>> /\ ClientKept
    BY DEF Air, devVars, ClientKept
  <1>3. QueueInv'
    <2>1. ASSUME NEW e \in Events, Post(<<e>>), UNCHANGED links,
                 e.type \notin {"conn", "disconn"},
                 e.type = "modified" => \E h \in Handles : links[h] \in Clients
          PROVE  QueueInv'
      <3> DEFINE es == <<e>>
      <3>1. es \in Seq(Events) /\ (\A k \in 1..Len(es) : es[k] = e) /\ Post(es)
        BY <2>1, OneEvent
      <3> HIDE DEF es
      <3>2. \A i \in 1..Len(es) :
              /\ es[i].type # "disconn"
              /\ es[i].type = "conn" => es[i].role # "slave"
              /\ es[i].type = "modified" => \E h \in Handles : links[h] \in Clients
        BY <2>1, <3>1
      <3>3. QED
        BY <1>1, <1>2, <2>1, <3>1, <3>2, PostKeepsClients
    <2>2. ASSUME NEW a \in Addrs, Advertise(a)
          PROVE  QueueInv'
      <3> DEFINE e == [type |-> "adv", addr |-> a]
      <3>1. e \in Events
        BY DEF Events
      <3>2. QED
        BY <2>1, <2>2, <3>1 DEF Advertise, linkVars
    <2>3. CASE ScanEnds
      <3>1. [type |-> "scan_end"] \in Events
        BY DEF Events
      <3>2. QED
        BY <2>1, <2>3, <3>1 DEF ScanEnds, linkVars
    <2>4. CASE NodeConnects
      <3>1. PICK h \in Handles : /\ links' = [links EXCEPT ![h] = gap] /\ gap \in Addrs
                                 /\ Post(<<[type |-> "conn", handle |-> h, role |-> "master"]>>)
        BY <2>4 DEF NodeConnects, Link, FreeHandles
      <3> DEFINE e == [type |-> "conn", handle |-> h, role |-> "master"]
                 es == <<e>>
      <3>2. e \in Events
        BY DEF Events
      <3>3. es \in Seq(Events) /\ (\A k \in 1..Len(es) : es[k] = e) /\ Post(es)
        BY <3>1, <3>2, OneEvent
      <3>4. \A g \in Handles : links'[g] \in Clients => links'[g] = links[g]
        BY <1>1, <3>1, PeersAssumption DEF Typed, TypeOK
      <3> HIDE DEF es
      <3>5. QED
        BY <1>1, <1>2, <3>3, <3>4, PostKeepsClients
    <2>5. ASSUME NEW c \in Clients, ClientConnects(c)
          PROVE  QueueInv'
      <3>1. PICK h \in Handles : /\ links' = [links EXCEPT ![h] = c]
                                 /\ Post(<<[type |-> "conn", handle |-> h, role |-> "slave"]>>)
        BY <2>5 DEF ClientConnects, Link, FreeHandles
      <3>2. \A g \in Handles : links[g] # c
        BY <2>5, PeersAssumption DEF ClientConnects, Linked, None
      <3>3. QED
        BY <1>1, <1>2, <3>1, <3>2, ConnectKeepsClients
    <2>6. ASSUME NEW h \in Handles, LinkLost(h)
          PROVE  QueueInv'
      <3>1. links[h] # None
        BY <2>6, LosableAssumption, PeersAssumption DEF LinkLost, None
      <3>2. QED
        BY <1>1, <1>2, <2>6, <3>1, LossKeepsClients DEF LinkLost
    <2>7. ASSUME NEW h \in Handles, ProcedureEnds(h)
          PROVE  QueueInv'
      <3> DEFINE e == [type |-> "proc_end", handle |-> h]
                 f == [type |-> "found", attrs |-> Found(h), addr |-> links[h]]
      <3>1. Found(h) \subseteq Attrs /\ links[h] \in Peers \cup {None} /\ links' = links
        BY <1>1, <2>7, OffersAssumption DEF Found, Typed, TypeOK, ProcedureEnds
      <3>2. e \in Events /\ f \in Events
        BY <3>1 DEF Events
      <3>3. PICK es \in {<<e>>, <<f, e>>} : Post(es)
        BY <2>7 DEF ProcedureEnds
      <3>4. es \in Seq(Events) /\ \A k \in 1..Len(es) : es[k] = e \/ es[k] = f
        <4>1. CASE es = <<e>>
          BY <3>2, <4>1, OneEvent
        <4>2. CASE es = <<f, e>>
          <5>1. es \in Seq(Events) /\ Len(es) = 2 /\ es[1] = f /\ es[2] = e
            BY <3>2, <4>2
          <5>2. QED
            BY <5>1
        <4>3. QED
          BY <3>3, <4>1, <4>2
      <3>5. e.type = "proc_end" /\ f.type = "found"
        OBVIOUS
      <3> HIDE DEF e, f
      <3>6. QED
        BY <1>1, <1>2, <3>1, <3>3, <3>4, <3>5, PostKeepsClients
    <2>8. ASSUME NEW h \in Handles, NEW s \in Streams, Notify(h, s)
          PROVE  QueueInv'
      <3> DEFINE e == [type |-> "notification", handle |-> h, char |-> s]
      <3>1. e \in Events
        BY DEF Events
      <3>2. QED
        BY <2>1, <2>8, <3>1 DEF Notify, linkVars
    <2>9. ASSUME NEW h \in Handles, NEW c \in ClientCmds, ClientWrites(h, c)
          PROVE  QueueInv'
      <3> DEFINE e == [type |-> "modified", cmd |-> c]
      <3>1. e \in Events
        BY DEF Events
      <3>2. QED
        BY <2>1, <2>9, <3>1 DEF ClientWrites, linkVars
    <2>10. QED
      BY <2>2, <2>3, <2>4, <2>5, <2>6, <2>7, <2>8, <2>9 DEF Air, Radio
  <1>4. QED
    BY <1>2, <1>3 DEF ClientInv, StreamInv

\* A step of the main loop, between two events.
LEMMA PassClients ==
  ASSUME ClientInv, UNCHANGED <<links, events>>, ClientKept,
         perDevs'.on[0] \subseteq perDevs.on[0]
  PROVE  ClientInv'
  <1>1. QueueInv'
    BY PassKeepsClients DEF ClientInv
  <1>2. StreamInv'
    BY DEF ClientInv, StreamInv, ClientKept
  <1>3. QED
    BY <1>1, <1>2 DEF ClientInv

\* Only a completed procedure or a new status: the streams stay as they are.
LEMMA StatusKeepsStreams ==
  ASSUME NEW p \in PerDevs, p.on = perDevs.on,
         perDevs' = p \/ GATT_Procedure_Complete(p) \/ \E st : perDevs' = [p EXCEPT !.status = st]
  PROVE  perDevs'.on = perDevs.on
  <1>1. GATT_Procedure_Complete(p) => \E st : perDevs' = [p EXCEPT !.status = st]
    BY DEF GATT_Procedure_Complete
  <1>2. \A st : [p EXCEPT !.status = st].on = p.on
    BY StatusKeepsOn
  <1>3. QED
    BY <1>1, <1>2

\* A connection, or its refusal, leaves the streams as they are.
LEMMA ConnectionKeepsStreams ==
  ASSUME NEW p \in PerDevs, NEW h, NEW q \in MasterConnected(p, h)
  PROVE  q.on = p.on
  <1>1. q = Unconnectable(p) \/ q = Connected(p, h)
    BY DEF MasterConnected
  <1>2. QED
    BY <1>1 DEF Unconnectable, Connected, PerDevs

\* The blocks that switch no notification.
LEMMA ConnectionProcessClients ==
  ASSUME OneNode, IInv, ClientInv, Connection_Process
  PROVE  ClientInv'
  <1> DEFINE p == perDevs
  <1>1. p \in PerDevs /\ Typed
    BY DEF IInv, Typed, TypeOK
  <1>2. UNCHANGED <<links, events>> /\ ClientKept /\ perDevs'.on = p.on
    <2>1. CASE ConnInit
      <3>1. UNCHANGED <<links, events>>
        BY <1>1, <2>1, Blocked DEF ConnInit, linkVars
      <3>2. CASE perDevs' = [p EXCEPT !.status = "DEVICE_CONNECTED"] /\ slaveDev' = slaveDev
        BY <1>1, <3>1, <3>2, StatusKeepsStreams DEF ClientKept
      <3>3. CASE Start_Discovery
        <4>1. /\ \/ perDevs' = [p EXCEPT !.status = "START_DEVICE_DISCOVERY"]
                 \/ perDevs' = ScanOver([p EXCEPT !.status = "START_DEVICE_DISCOVERY"])
              /\ \E b : slaveDev' = [slaveDev EXCEPT !.is_discoverable = b]
          BY <3>3 DEF Start_Discovery
        <4>2. perDevs'.on = p.on
          BY <1>1, <4>1 DEF ScanOver, PerDevs
        <4>3. ClientKept
          BY <1>1, <4>1 DEF ClientKept, Typed, TypeOK, SlaveDev
        <4>4. QED
          BY <3>1, <4>2, <4>3
      <3>4. QED
        BY <2>1, <3>2, <3>3 DEF ConnInit
    <2>2. CASE DiscoveryComplete
      <3>1. UNCHANGED <<links, events, slaveDev>>
        BY <1>1, <2>2, Blocked DEF DiscoveryComplete, linkVars
      <3> DEFINE i == p.connDeviceIdx
                 q == [p EXCEPT !.status = "START_DEVICE_CONNECTION"]
                 u == [q EXCEPT !.is_unconnectable[i] = TRUE]
      <3>2. \/ perDevs' = [p EXCEPT !.status = "DEVICE_NOT_FOUND"]
            \/ perDevs' = q
            \/ perDevs' \in MasterConnected(u, 0)
        BY <2>2 DEF DiscoveryComplete, Connect_Peripheral
      <3>3. "START_DEVICE_CONNECTION" \in Statuses
        BY DEF Statuses
      <3>4. u \in PerDevs /\ u.on = p.on
        BY <1>1, <3>3 DEF PerDevs
      <3>5. perDevs'.on = p.on
        <4>1. CASE perDevs' \in MasterConnected(u, 0)
          <5> HIDE DEF u
          <5>1. QED
            BY <3>4, <4>1, ConnectionKeepsStreams
        <4>2. CASE perDevs' = [p EXCEPT !.status = "DEVICE_NOT_FOUND"] \/ perDevs' = q
          BY <1>1, <4>2 DEF PerDevs
        <4>3. QED
          BY <3>2, <4>1, <4>2
      <3>6. QED
        BY <3>1, <3>5 DEF ClientKept
    <2>3. CASE ConnectionOver
      <3>1. UNCHANGED <<links, events, slaveDev>>
        BY <1>1, <2>3, Blocked DEF ConnectionOver, linkVars
      <3>2. perDevs'.on = p.on
        BY <1>1, <2>3 DEF ConnectionOver, PerDevs
      <3>3. QED
        BY <3>1, <3>2 DEF ClientKept
    <2>4. ASSUME NEW proc, NEW st \in Statuses, Discover(proc, st),
                 UNCHANGED <<slaveDev, events>>
          PROVE  UNCHANGED <<links, events>> /\ ClientKept /\ perDevs'.on = p.on
      <3> DEFINE q == [p EXCEPT !.status = st]
      <3>1. links' = links /\ (perDevs' = q \/ GATT_Procedure_Complete(q))
        BY <2>4 DEF Discover, linkVars
      <3>2. q \in PerDevs /\ q.on = p.on
        BY <1>1, <2>4, StatusTyped, StatusKeepsOn
      <3> HIDE DEF q
      <3>3. perDevs'.on = p.on
        BY <3>1, <3>2, StatusKeepsStreams
      <3>4. QED
        BY <2>4, <3>1, <3>3 DEF ClientKept
    <2>5. CASE Discover_Services
      <3>1. UNCHANGED <<slaveDev, events>> /\ Discover("services", "START_SERVICE_DISCOVERY")
        BY <1>1, <2>5, Blocked DEF Discover_Services
      <3>2. QED
        BY <2>4, <3>1 DEF Statuses
    <2>6. ASSUME NEW serv, NEW before, NEW running \in Statuses, NEW after,
                 Discover_Service_Chars(serv, before, running, after)
          PROVE  UNCHANGED <<links, events>> /\ ClientKept /\ perDevs'.on = p.on
      <3>1. /\ UNCHANGED <<slaveDev, events>>
            /\ \/ Discover(serv, running)
               \/ perDevs' = [p EXCEPT !.status = after] /\ links' = links
        BY <1>1, <2>6, Blocked DEF Discover_Service_Chars, linkVars
      <3>2. CASE Discover(serv, running)
        BY <2>4, <2>6, <3>1, <3>2
      <3>3. CASE perDevs' = [p EXCEPT !.status = after] /\ links' = links
        BY <1>1, <3>1, <3>3, StatusKeepsStreams DEF ClientKept
      <3>4. QED
        BY <3>1, <3>2, <3>3
    <2>7. CASE DiscoverChars
      BY <2>6, <2>7 DEF DiscoverChars, Statuses
    <2>8. CASE ChooseNotifications
      <3>1. /\ UNCHANGED <<links, events, slaveDev>>
            /\ \E st : perDevs' = [p EXCEPT !.status = st]
        BY <1>1, <2>8, Blocked DEF ChooseNotifications, linkVars
      <3>2. QED
        BY <1>1, <3>1, StatusKeepsStreams DEF ClientKept
    <2>9. CASE Enable_Notifications
      BY <1>1, <2>9, Blocked DEF Enable_Notifications, linkVars, devVars, ClientKept
    <2>10. CASE NodeReady
      <3>1. UNCHANGED <<links, events, slaveDev>>
        BY <1>1, <2>10, Blocked DEF NodeReady, linkVars
      <3>2. \E q \in PerDevs : \E i : /\ q.on = p.on
                                      /\ perDevs' = [q EXCEPT !.readDeviceIdx = i, !.status = "READ_INIT"]
        <4> DEFINE i == p.connDeviceIdx
                   n == [p EXCEPT !.is_connected[i] = TRUE,
                                  !.connDeviceIdx = Byte(@ + 1), !.connDevices = Byte(@ + 1)]
                   q == IF p.is_disconnected[i] THEN p ELSE n
        <4>1. \A b \in Bytes : Byte(b + 1) \in Bytes
          BY ByteAssumption, ByteRange DEF Bytes
        <4>2. q \in PerDevs /\ q.on = p.on
          BY <1>1, <4>1 DEF PerDevs
        <4>3. perDevs' = [q EXCEPT !.readDeviceIdx = Byte(q.connDevices - 1),
                                   !.status = "READ_INIT"]
          BY <2>10 DEF NodeReady
        <4> HIDE DEF q
        <4>4. QED
          BY <4>2, <4>3
      <3>3. perDevs'.on = p.on
        BY <3>2 DEF PerDevs
      <3>4. QED
        BY <3>1, <3>3 DEF ClientKept
    <2>11. QED
      BY <2>1, <2>2, <2>3, <2>5, <2>7, <2>8, <2>9, <2>10 DEF Connection_Process
  <1>3. QED
    BY <1>2, PassClients

LEMMA ReadingProcessClients ==
  ASSUME OneNode, IInv, ClientInv, Reading_Process \/ Write_Charac_Descriptor
  PROVE  ClientInv'
  <1> DEFINE p == perDevs
  <1>1. p \in PerDevs /\ Typed
    BY DEF IInv, Typed, TypeOK
  <1>2. /\ UNCHANGED <<links, events>> /\ ClientKept
        /\ perDevs'.on[0] \subseteq p.on[0]
    <2>1. CASE StreamPass
      <3>1. UNCHANGED <<links, events, slaveDev>>
        BY <1>1, <2>1, Blocked DEF StreamPass, linkVars
      <3>2. perDevs' = p \/ perDevs' = [p EXCEPT !.status = "ALL_DATA_READ"]
        BY <2>1 DEF StreamPass
      <3>3. QED
        BY <1>1, <3>1, <3>2, StatusKeepsStreams DEF ClientKept
    <2>2. CASE ReadInit
      <3>1. UNCHANGED <<links, events, slaveDev>>
        BY <1>1, <2>2, Blocked DEF ReadInit, linkVars
      <3> DEFINE q == [p EXCEPT !.status = "ALL_DATA_READ"]
      <3>2. perDevs' = [p EXCEPT !.status = "CONN_INIT"] \/ GATT_Procedure_Complete(q)
        BY <2>2 DEF ReadInit
      <3>3. q \in PerDevs /\ q.on = p.on
        <4>1. "ALL_DATA_READ" \in Statuses
          BY DEF Statuses
        <4>2. QED
          BY <1>1, <4>1, StatusTyped, StatusKeepsOn
      <3> HIDE DEF q
      <3>4. perDevs'.on = p.on
        BY <1>1, <3>2, <3>3, StatusKeepsStreams
      <3>5. QED
        BY <3>1, <3>4 DEF ClientKept
    <2>3. CASE Read_Sensor_Data
      <3>1. UNCHANGED <<events, slaveDev>>
        BY <1>1, <2>3, Blocked DEF Read_Sensor_Data
      <3>2. links' = links /\ (perDevs' = p \/ GATT_Procedure_Complete(p))
        BY <2>3 DEF Read_Sensor_Data, ReadOf, linkVars
      <3>3. QED
        BY <1>1, <3>1, <3>2, StatusKeepsStreams DEF ClientKept
    <2>4. CASE NextNode
      <3>1. UNCHANGED <<links, events>>
        BY <1>1, <2>4, Blocked DEF NextNode, linkVars
      <3>2. /\ slaveDev' = slaveDev \/ slaveDev' = [slaveDev EXCEPT !.is_discoverable = TRUE]
            /\ \E i, st : perDevs' = [p EXCEPT !.readDeviceIdx = i, !.status = st]
        BY <2>4 DEF NextNode
      <3>3. perDevs'.on = p.on
        BY <1>1, <3>2 DEF PerDevs
      <3>4. ClientKept
        BY <1>1, <3>2 DEF ClientKept, Typed, TypeOK, SlaveDev
      <3>5. QED
        BY <3>1, <3>3, <3>4
    <2>5. CASE DisableNotifications
      <3>1. UNCHANGED <<links, events, slaveDev>>
        BY <1>1, <2>5, Blocked DEF DisableNotifications, linkVars
      <3> DEFINE q == Disable_All_Notifications(p).p
      <3>2. perDevs' = [q EXCEPT !.status = "ALL_DATA_READ"]
        BY <2>5 DEF DisableNotifications
      <3>3. q \in PerDevs /\ q.on[0] \subseteq p.on[0]
        BY <1>1, DisableAllKeeps
      <3> HIDE DEF q
      <3>4. perDevs'.on = q.on
        BY <3>2, <3>3 DEF PerDevs
      <3>5. QED
        BY <3>1, <3>3, <3>4 DEF ClientKept
    <2>6. CASE PassEnds
      BY <2>6 DEF PassEnds, devVars, ctrlVars, linkVars, ClientKept
    <2>7. CASE Write_Charac_Descriptor
      BY <2>7 DEF Write_Charac_Descriptor, devVars, ClientKept
    <2>8. QED
      BY <2>1, <2>2, <2>3, <2>4, <2>5, <2>6, <2>7 DEF Reading_Process
  <1>3. QED
    BY <1>2, PassClients

\* The events that are neither about a connection nor a write of the client.
LEMMA OtherEventClients ==
  ASSUME OneNode, IInv, ClientInv,
         \/ OnAdvertisement \/ OnDiscoveryComplete \/ OnHandlesFound
         \/ OnProcedureComplete \/ OnNotification
  PROVE  ClientInv'
  <1> DEFINE p == perDevs
  <1>1. p \in PerDevs /\ Typed /\ QueueInv
    BY DEF IInv, Typed, TypeOK, ClientInv
  <1>2. PICK type \in {"adv", "scan_end", "found", "proc_end", "notification"} : Deliver(type)
    BY DEF OnAdvertisement, OnDiscoveryComplete, OnHandlesFound, OnProcedureComplete,
           OnNotification
  <1>3. /\ events # <<>> /\ events' = Tail(events) /\ UNCHANGED links
        /\ events[1].type = type /\ Head(events) = events[1]
    BY <1>1, <1>2, Delivered
  <1>4. slaveDev' = slaveDev
    BY DEF OnAdvertisement, OnDiscoveryComplete, OnHandlesFound, OnProcedureComplete,
           OnNotification
  <1>5. ~IsSlave(1) /\ ~IsDisconn(1, slaveDev.conn_handle)
    BY <1>2, <1>3 DEF IsSlave, IsConn, IsDisconn
  <1>6. QueueInv'
    BY <1>1, <1>3, <1>4, <1>5, PopKeepsClients
  <1>7. perDevs'.on[0] \subseteq p.on[0]
    <2>1. CASE OnAdvertisement
      BY <1>1, <2>1 DEF OnAdvertisement, DeviceFound, PerDevs
    <2>2. CASE OnDiscoveryComplete
      BY <1>1, <2>2 DEF OnDiscoveryComplete, ScanOver, PerDevs
    <2>3. CASE OnHandlesFound
      BY <1>1, <2>3, OneSlot DEF OnHandlesFound, Handled, PerDevs
    <2>4. CASE OnProcedureComplete
      BY <1>1, <2>4, StatusKeepsStreams DEF OnProcedureComplete
    <2>5. CASE OnNotification
      <3>1. PICK i, s : perDevs' = p \/ perDevs' = Notified(i, s)
        BY <2>5 DEF OnNotification
      <3>2. perDevs'.on = p.on
        BY <1>1, <3>1 DEF Notified, PerDevs
      <3>3. QED
        BY <3>2
    <2>6. QED
      BY <2>1, <2>2, <2>3, <2>4, <2>5
  <1>8. StreamInv'
    BY <1>4, <1>7 DEF ClientInv, StreamInv
  <1>9. QED
    BY <1>6, <1>8 DEF ClientInv

\* A node or a client is connected.
LEMMA ConnectionEventClients ==
  ASSUME OneNode, IInv, ClientInv, OnConnection
  PROVE  ClientInv'
  <1> DEFINE p == perDevs
  <1>1. p \in PerDevs /\ slaveDev \in SlaveDev /\ Typed /\ QueueInv /\ StreamInv
    BY DEF IInv, Typed, TypeOK, ClientInv
  <1>2. Deliver("conn")
    BY DEF OnConnection
  <1>3. /\ events # <<>> /\ events' = Tail(events) /\ UNCHANGED links
        /\ IsConn(1) /\ Head(events) = events[1]
    BY <1>1, <1>2, Delivered DEF IsConn
  <1>4. \/ /\ events[1].role = "master" /\ slaveDev' = slaveDev
           /\ perDevs' \in MasterConnected(p, events[1].handle)
        \/ /\ events[1].role # "master" /\ perDevs' = p
           /\ slaveDev' = [slaveDev EXCEPT !.conn_handle = events[1].handle,
                             !.is_connected = TRUE, !.is_discoverable = FALSE]
    BY <1>3 DEF OnConnection
  <1>5. CASE events[1].role = "master"
    <2>1. ~IsSlave(1) /\ ~IsDisconn(1, slaveDev.conn_handle)
      BY <1>3, <1>5 DEF IsSlave, IsConn, IsDisconn
    <2>2. QueueInv'
      BY <1>1, <1>3, <1>4, <1>5, <2>1, PopKeepsClients
    <2>3. perDevs'.on = p.on
      BY <1>1, <1>4, <1>5, ConnectionKeepsStreams
    <2>4. QED
      BY <1>1, <1>4, <1>5, <2>2, <2>3 DEF ClientInv, StreamInv
  <1>6. CASE events[1].role # "master"
    <2>1. IsSlave(1)
      <3>1. 1 \in 1..Len(events)
        BY <1>1, <1>2, Delivered
      <3>2. QED
        BY <1>1, <1>3, <1>6, <3>1, EventsTyped DEF IsSlave, IsConn
    <2>2. slaveDev'.is_connected /\ slaveDev'.conn_handle = events[1].handle
      BY <1>1, <1>4, <1>6 DEF SlaveDev
    <2>3. QueueInv'
      BY <1>1, <1>3, <2>1, <2>2, PopConnectsClient
    <2>4. QED
      BY <1>1, <1>4, <1>6, <2>2, <2>3 DEF ClientInv, StreamInv
  <1>7. QED
    BY <1>5, <1>6

\* The end of a link; when it is the client's, every stream is forgotten.
LEMMA DisconnectionEventClients ==
  ASSUME OneNode, IInv, ClientInv, OnDisconnection
  PROVE  ClientInv'
  <1> DEFINE h == events[1].handle
             i == CHOOSE k \in SlotsOf(perDevs, h) : TRUE
             p == IF SlotsOf(perDevs, h) = {} THEN perDevs ELSE NodeDisconnected(perDevs, i)
  <1>1. perDevs \in PerDevs /\ slaveDev \in SlaveDev /\ Typed /\ QueueInv /\ StreamInv
    BY DEF IInv, Typed, TypeOK, ClientInv
  <1>2. Deliver("disconn")
    BY DEF OnDisconnection
  <1>3. /\ events # <<>> /\ events' = Tail(events) /\ UNCHANGED links
        /\ IsDisconn(1, h) /\ Head(events) = events[1]
    BY <1>1, <1>2, Delivered DEF IsDisconn
  <1>4. ~IsSlave(1) /\ \A g : IsDisconn(1, g) <=> g = h
    BY <1>3 DEF IsSlave, IsConn, IsDisconn
  <1>5. IF h = slaveDev.conn_handle
        THEN perDevs' = ClientDisconnected(p) /\ slaveDev' = NoClient(slaveDev)
        ELSE perDevs' = p /\ slaveDev' = slaveDev
    BY <1>3 DEF OnDisconnection
  <1>6. p.on = perDevs.on /\ DOMAIN p = DOMAIN perDevs
    BY <1>1 DEF NodeDisconnected, PerDevs
  <1> HIDE DEF p
  <1>7. QueueInv'
    <2>1. CASE h = slaveDev.conn_handle
      <3>1. slaveDev'.is_connected = FALSE
        BY <1>1, <1>5, <2>1 DEF NoClient, SlaveDev
      <3>2. QED
        BY <1>1, <1>3, <1>4, <2>1, <3>1, PopKeepsClients
    <2>2. CASE h # slaveDev.conn_handle
      BY <1>1, <1>3, <1>4, <1>5, <2>2, PopKeepsClients
    <2>3. QED
      BY <2>1, <2>2
  <1>8. StreamInv'
    <2>1. CASE h = slaveDev.conn_handle
      <3>1. perDevs'.on = [k \in Slots |-> p.on[k] \ Streamed]
        BY <1>1, <1>5, <1>6, <2>1 DEF ClientDisconnected, PerDevs, Streamed
      <3>2. perDevs'.on[0] = {}
        BY <1>1, <1>6, <3>1, OneSlot DEF StreamInv
      <3>3. QED
        BY <3>2 DEF StreamInv
    <2>2. CASE h # slaveDev.conn_handle
      BY <1>1, <1>5, <1>6, <2>2 DEF StreamInv
    <2>3. QED
      BY <2>1, <2>2
  <1>9. QED
    BY <1>7, <1>8 DEF ClientInv

\* A write of the client, which is there.
LEMMA WriteEventClients ==
  ASSUME OneNode, IInv, ClientInv, OnAttributeModified
  PROVE  ClientInv'
  <1> DEFINE c == events[1].cmd
  <1>1. perDevs \in PerDevs /\ slaveDev \in SlaveDev /\ Typed /\ QueueInv /\ StreamInv
    BY DEF IInv, Typed, TypeOK, ClientInv
  <1>2. Deliver("modified")
    BY DEF OnAttributeModified
  <1>3. /\ events # <<>> /\ events' = Tail(events) /\ UNCHANGED links
        /\ 1 \in 1..Len(events) /\ events[1].type = "modified" /\ Head(events) = events[1]
    BY <1>1, <1>2, Delivered
  <1>4. slaveDev.is_connected
    BY <1>1, <1>3 DEF QueueInv, WritesHaveAClient, ClientThere
  <1>5. c \in ClientCmds
    BY <1>1, <1>3, EventsTyped
  <1>6. perDevs' = Modified(perDevs, c).p /\ slaveDev' = Subscribed(slaveDev, c)
    BY <1>3 DEF OnAttributeModified
  <1>7. /\ slaveDev'.is_connected = slaveDev.is_connected
        /\ slaveDev'.conn_handle = slaveDev.conn_handle
    <2>1. slaveDev' = slaveDev \/ \E b : slaveDev' = [slaveDev EXCEPT !.star_data_char_notify = b]
      BY <1>6 DEF Subscribed
    <2>2. QED
      BY <1>1, <2>1 DEF SlaveDev
  <1>8. QueueInv'
    <2>1. ~IsSlave(1) /\ ~IsDisconn(1, slaveDev.conn_handle)
      BY <1>3 DEF IsSlave, IsConn, IsDisconn
    <2>2. QED
      BY <1>1, <1>3, <1>7, <2>1, PopKeepsClients
  <1>9. perDevs'.on[0] \subseteq perDevs.on[0] \cup Streamed
    BY <1>1, <1>5, <1>6, ModifiedKeeps DEF Streamed
  <1>10. QED
    BY <1>1, <1>4, <1>7, <1>8, <1>9 DEF ClientInv, StreamInv

-----------------------------------------------------------------------------
(* The specification.                                                      *)

LEMMA InitClients == OneNode /\ Init_Processes => ClientInv
  <1> SUFFICES ASSUME OneNode, Init_Processes PROVE ClientInv
    OBVIOUS
  <1>1. /\ events = <<>> /\ Len(events) = 0 /\ ~slaveDev.is_connected
        /\ perDevs.on = [i \in Slots |-> {}]
        /\ links = [h \in Handles |-> None]
    BY DEF Init_Processes, CtrlInit
  <1>2. \A h \in Handles : links[h] \notin Clients
    BY <1>1, PeersAssumption DEF None
  <1>3. QueueInv
    BY <1>1, <1>2
       DEF QueueInv, WritesHaveAClient, LinkHasAClient, ClientEnds, ClientsAlternate, OneLink
  <1>4. StreamInv
    BY <1>1, OneSlot DEF StreamInv
  <1>5. QED
    BY <1>3, <1>4 DEF ClientInv

LEMMA NextClients == OneNode /\ OneClient /\ IInv /\ ClientInv /\ [Next]_vars => ClientInv'
  <1> SUFFICES ASSUME OneNode, OneClient, IInv, ClientInv, [Next]_vars PROVE ClientInv'
    OBVIOUS
  <1>1. CASE HandleEvent
    <2>1. CASE ProcessEnds
      BY <2>1, PassClients DEF ProcessEnds, devVars, ctrlVars, linkVars, ClientKept
    <2>2. QED
      BY <1>1, <2>1, ConnectionEventClients, DisconnectionEventClients, WriteEventClients,
         OtherEventClients DEF HandleEvent
  <1>2. CASE Connection_Process
    BY <1>2, ConnectionProcessClients
  <1>3. CASE Reading_Process \/ Write_Charac_Descriptor
    BY <1>3, ReadingProcessClients
  <1>4. CASE Air
    BY <1>4, AirClients
  <1>5. CASE UNCHANGED vars
    BY <1>5, PassClients DEF vars, devVars, ctrlVars, linkVars, ClientKept
  <1>6. QED
    BY <1>1, <1>2, <1>3, <1>4, <1>5 DEF Next, Host

\* No data stream is on without a client: the disconnection forgets them all,
\* and no write of a client that has left, still queued, brings one back.
THEOREM StreamsKeepAClient ==
  ASSUME OneNode, OneClient
  PROVE  Spec => []StreamsHaveAClient
  <1>1. Init_Processes => IInv /\ ClientInv
    BY InitIInv, InitClients
  <1>2. IInv /\ ClientInv /\ [Next]_vars => (IInv /\ ClientInv)'
    BY NextIInv, NextClients
  <1>3. IInv /\ ClientInv => StreamsHaveAClient
    BY OneSlot DEF ClientInv, StreamInv, StreamsHaveAClient
  <1>4. QED
    BY <1>1, <1>2, <1>3, PTL DEF Spec

-----------------------------------------------------------------------------
(* One stream at a time (OneStream).  Disable_All_Notifications visits the *)
(* node only while it is counted, and finds in its table entry what is     *)
(* enabled, except a microphone it has switched off before: the proof has  *)
(* to show that no client is heard before the node is served, and it needs *)
(* that the node is then never lost.                                       *)

\* The node keeps its link.
NodeStays == Addrs \cap Losable = {}

\* A client asks for streams that the node has, and not for its microphone.
Supported ==
  \A c \in ClientCmds : c.cmd = "stream" => c.char \in Offers[c.node] \ {"mic"}

\* No end of the node's link is queued.
LinkStays ==
  /\ ~perDevs.is_disconnected[0] =>
       \A k \in 1..Len(events) : ~IsDisconn(k, perDevs.connection_handle[0])
  /\ \A k, m \in 1..Len(events) : IsMaster(k) /\ k < m => ~IsDisconn(m, events[k].handle)

\* The statuses in which the node is read, and those that a client causes.
ReadStatuses == {"READING_AI_RECOGNITION", "NOTIFY_AI_TO_CLIENT", "ALL_DATA_READ",
                 "NOTIFICATIONS_DATA_READ", "DISABLE_NOTIFICATIONS"}

\* No client has been there: the central node has not advertised itself yet.
NoClientYet ==
  /\ ~adv /\ \A h \in Handles : links[h] \notin Clients
  /\ ~slaveDev.is_connected /\ slaveDev.conn_handle = 0
  /\ perDevs.status \notin ReadStatuses
  /\ \A k \in 1..Len(events) :
       /\ ~IsSlave(k) /\ events[k].type # "modified"
       /\ events[k].type = "notification" => events[k].char = "wup"
  /\ subs \in [Handles -> SUBSET {"wup"}]
  /\ writes = <<>> \/ \E w : w.char \in {"led", "wup", "ai"} /\ writes = <<w>>

\* Before the node is served no stream is enabled.
ServedFirst == ~perDevs.is_connected[0] => NoClientYet /\ perDevs.enabled = {}

\* What is enabled is what Disable_All_Notifications finds, and one round of it
\* is enough.
Finds(p) ==
  /\ p.enabled \subseteq Streamed \cap p.event[0]
  /\ \A s, u \in p.enabled : s = u
  /\ p.bdaddr[0] \in Addrs => Offers[p.bdaddr[0]] \cap Streamed \subseteq p.event[0]

OneStreamInv == LinkStays /\ ServedFirst /\ Finds(perDevs)

\* What the invariant looks at in the table, but for the status.
SameStreams(p, q) ==
  /\ q.enabled = p.enabled /\ q.bdaddr = p.bdaddr
  /\ q.event[0] \cap Streamed = p.event[0] \cap Streamed

-----------------------------------------------------------------------------
(* The operators of the slave service.                                     *)

LEMMA FindsSame ==
  ASSUME NEW p, NEW q, Finds(p), SameStreams(p, q)
  PROVE  Finds(q)
  BY DEF Finds, SameStreams

\* Switching the one enabled stream of the node off.
LEMMA DisableNodeFinds ==
  ASSUME OneNode, NEW t, t.p \in PerDevs, Finds(t.p)
  PROVE  LET q == DisableNode(t, 0).p
         IN  q.enabled = {} /\ q.bdaddr = t.p.bdaddr /\ q.event = t.p.event
  <1> DEFINE p == t.p
             S == ToDisable(p, 0)
  <1>1. S = p.enabled
    BY DEF Finds, ToDisable, DisableOrder, Streamed
  <1>2. CASE S = {}
    BY <1>1, <1>2 DEF DisableNode
  <1>3. CASE S # {}
    <2>1. PICK s \in Streamed : p.enabled = {s} /\ S = {s}
      BY <1>1, <1>3 DEF Finds
    <2>2. DisableOrder[s] \in Int /\ s # "mic"
      BY DEF DisableOrder, Streamed
    <2> DEFINE first == CHOOSE u \in S : \A v \in S : DisableOrder[u] <= DisableOrder[v]
    <2>3. first = s
      BY <2>1, <2>2
    <2> DEFINE q == [p EXCEPT !.enabled = @ \ {first}, !.on[0] = @ \ {first},
                              !.event[0] = IF first = "mic" THEN @ \ {first} ELSE @]
    <2>4. DisableNode(t, 0).p = q
      BY <1>3 DEF DisableNode, Table
    <2> HIDE DEF first
    <2>5. q.enabled = {} /\ q.bdaddr = p.bdaddr /\ q.event = p.event
      BY <2>1, <2>2, <2>3 DEF PerDevs
    <2>6. QED
      BY <2>4, <2>5
  <1>4. QED
    BY <1>2, <1>3

\* Disable_All_Notifications leaves no stream enabled.
LEMMA DisableAllFinds ==
  ASSUME OneNode, NEW p \in PerDevs, Finds(p), Rounds(p) # 0
  PROVE  LET q == Disable_All_Notifications(p).p
         IN  q.enabled = {} /\ q.bdaddr = p.bdaddr /\ q.event = p.event
  <1> DEFINE t == Table(p, <<>>)
  <1>1. t.p = p
    BY DEF Table
  <1>2. Disable_All_Notifications(p) = DisableNode(t, 0)
    BY DisablesOneNode
  <1> HIDE DEF t
  <1>3. QED
    BY <1>1, <1>2, DisableNodeFinds

\* A node that is counted is visited.
LEMMA OneRound ==
  ASSUME OneNode, NEW p \in PerDevs, p.connDevices = 1
  PROVE  Rounds(p) # 0
  <1> DEFINE sum == p.connDevices + p.discDevices
  <1>1. sum \in Nat /\ sum >= 1
    BY ByteAssumption DEF PerDevs, Bytes
  <1>2. \E m \in {sum, 1} : \A x \in {sum, 1} : m <= x
    BY <1>1
  <1>3. Min({sum, 1}) \in {sum, 1}
    BY <1>2 DEF Min
  <1>4. QED
    BY <1>1, <1>3 DEF Rounds, OneNode

\* Change_Notification_Status: the stream that is switched on is then the only
\* one.
LEMMA ChangeFinds ==
  ASSUME OneNode, NEW p \in PerDevs, NEW s \in Streamed, NEW mode \in {0, 1},
         Finds(p), p.connDevices = 1, s \in p.event[0]
  PROVE  Finds(Change_Notification_Status(p, 0, s, mode).p)
  <1> DEFINE p0 == [p EXCEPT !.discovery_enabled = FALSE]
             before == IF mode = 1 THEN Disable_All_Notifications(p0) ELSE Table(p, <<>>)
             b == before.p
             e == [b EXCEPT !.enabled = IF mode = 1 THEN @ \cup {s} ELSE @ \ {s}]
             own == Table(e, Append(before.w, DescriptorWrite(p, 0, s, mode)))
             r == SwitchAllWup(own, 1 - mode).p
             st == IF mode = 1 THEN "NOTIFICATIONS_DATA_READ" ELSE "ALL_DATA_READ"
             on == IF mode = 1 /\ s # "mic" THEN r.on[0] \cup {s} ELSE r.on[0] \ {s}
             q == [r EXCEPT !.status = st, !.readDeviceIdx = 0, !.on[0] = on]
  <1>1. p0 \in PerDevs /\ SameStreams(p, p0) /\ p0.event = p.event /\ p0.connDevices = 1
    BY DEF PerDevs, SameStreams
  <1>2. Finds(p0) /\ Rounds(p0) # 0
    BY <1>1, FindsSame, OneRound
  <1> HIDE DEF p0
  <1>3. /\ b \in PerDevs /\ b.bdaddr = p.bdaddr /\ b.event = p.event
        /\ b.enabled = IF mode = 1 THEN {} ELSE p.enabled
    BY <1>1, <1>2, DisableAllKeeps, DisableAllFinds DEF Table, SameStreams
  <1> HIDE DEF b
  <1>4. /\ e \in PerDevs /\ e.bdaddr = p.bdaddr /\ e.event = p.event
        /\ e.enabled = IF mode = 1 THEN {s} ELSE p.enabled \ {s}
    BY <1>3 DEF PerDevs, Streamed, Streams
  <1> HIDE DEF e
  <1>5. Finds(e)
    BY <1>4 DEF Finds
  <1>6. own.p = e
    BY DEF Table
  <1> HIDE DEF own
  <1>7. r \in PerDevs /\ SameStreams(e, r)
    BY <1>4, <1>6, SwitchAllKeeps DEF NodeSame, SameStreams, Streamed
  <1> HIDE DEF r
  <1>8. SameStreams(r, q)
    BY <1>7 DEF SameStreams, PerDevs
  <1>9. Finds(q)
    BY <1>5, <1>7, <1>8, FindsSame
  <1>10. Change_Notification_Status(p, 0, s, mode).p = q
    BY DEF Change_Notification_Status, Table, own, e, b, r, p0
  <1>11. QED
    BY <1>9, <1>10

\* Attribute_Modified_CB, for a node that is served.
LEMMA ModifiedFinds ==
  ASSUME OneNode, Supported, NEW p \in PerDevs, NEW c \in ClientCmds,
         Finds(p), p.connDevices = 1
  PROVE  Finds(Modified(p, c).p)
  <1>1. CASE c.cmd = "scan"
    <2> DEFINE a == [p EXCEPT !.status = "ALL_DATA_READ"]
               t == IF c.value = 1 THEN Disable_All_Notifications(a) ELSE Table(a, <<>>)
               b == t.p
               q == [b EXCEPT !.discovery_enabled = c.value = 1 \/ (@ /\ c.value # 2)]
    <2>1. a \in PerDevs /\ a.connDevices = 1 /\ SameStreams(p, a) /\ a.event = p.event
      BY DEF PerDevs, Statuses, SameStreams
    <2>2. Finds(a) /\ Rounds(a) # 0
      BY <2>1, FindsSame, OneRound
    <2> HIDE DEF a
    <2>3. b \in PerDevs /\ Finds(b)
      <3>1. CASE c.value = 1
        <4>1. b \in PerDevs /\ b.enabled = {} /\ b.bdaddr = a.bdaddr /\ b.event = a.event
          BY <2>1, <2>2, <3>1, DisableAllKeeps, DisableAllFinds
        <4>2. QED
          BY <2>2, <4>1 DEF Finds
      <3>2. CASE c.value # 1
        BY <2>1, <2>2, <3>2 DEF Table
      <3>3. QED
        BY <3>1, <3>2
    <2> HIDE DEF b
    <2>4. SameStreams(b, q)
      BY <2>3 DEF SameStreams, PerDevs
    <2>5. Modified(p, c).p = q
      BY <1>1 DEF Modified, ScanCommand, Table, a, b
    <2>6. QED
      BY <2>3, <2>4, <2>5, FindsSame
  <1>2. CASE c.cmd = "led" \/ c.cmd = "stream"
    <2>1. CASE Commanded(p, c.node) = {}
      BY <1>2, <2>1 DEF Modified, NodeCommand, Table
    <2>2. CASE Commanded(p, c.node) # {}
      <3>1. (CHOOSE k \in Commanded(p, c.node) : TRUE) = 0 /\ p.bdaddr[0] = c.node
        BY <2>2 DEF Commanded, Slots, OneNode
      <3>2. CASE c.cmd = "led"
        <4>1. Modified(p, c).p = [p EXCEPT !.readDeviceIdx = 0]
          BY <2>2, <3>1, <3>2 DEF Modified, NodeCommand, Table
        <4>2. SameStreams(p, Modified(p, c).p)
          BY <4>1 DEF SameStreams, PerDevs
        <4>3. QED
          BY <4>2, FindsSame
      <3>3. CASE c.cmd = "stream"
        <4>1. /\ c.node \in Addrs /\ c.mode \in {0, 1} /\ c.char \in Streamed
              /\ c.char \in Offers[c.node]
          BY <3>3, ClientCmdsAssumption DEF Commands, Streams, Streamed, Supported
        <4>2. c.char \in p.event[0]
          BY <3>1, <4>1 DEF Finds
        <4>3. Modified(p, c) = Change_Notification_Status(p, 0, c.char, c.mode)
          BY <2>2, <3>1, <3>3 DEF Modified, NodeCommand
        <4>4. QED
          BY <4>1, <4>2, <4>3, ChangeFinds
      <3>4. QED
        BY <1>2, <3>2, <3>3
    <2>3. QED
      BY <2>1, <2>2
  <1>3. CASE c.cmd \notin {"scan", "led", "stream"}
    BY <1>3 DEF Modified, Table
  <1>4. QED
    BY <1>1, <1>2, <1>3

-----------------------------------------------------------------------------
(* What a step leaves of the invariant.                                    *)

\* A step that takes nothing from the node in the slot.
StaysCounted ==
  /\ perDevs'.is_disconnected = perDevs.is_disconnected
  /\ perDevs'.connection_handle = perDevs.connection_handle
  /\ perDevs.is_connected[0] => perDevs'.is_connected[0]

\* A step that lets no client in, but for the queue.
NobodyComes ==
  /\ ~adv' /\ ClientKept /\ perDevs'.status \notin ReadStatuses
  /\ subs' \in [Handles -> SUBSET {"wup"}]
  /\ writes' = <<>> \/ \E w : w.char \in {"led", "wup", "ai"} /\ writes' = <<w>>

Unserved == ~perDevs.is_connected[0] /\ NoClientYet

\* A step between two events.
LEMMA PassOne ==
  ASSUME OneStreamInv, UNCHANGED <<links, events>>, StaysCounted, SameStreams(perDevs, perDevs'),
         Unserved /\ ~perDevs'.is_connected[0] => NobodyComes
  PROVE  OneStreamInv'
  <1>1. LinkStays'
    BY DEF OneStreamInv, LinkStays, StaysCounted, IsDisconn, IsMaster, IsConn
  <1>2. ASSUME NoClientYet, NobodyComes
        PROVE  NoClientYet'
    <2>1. \A k \in 1..Len(events) : IsSlave(k)' <=> IsSlave(k)
      BY DEF IsSlave, IsConn
    <2>2. QED
      BY <1>2, <2>1 DEF NobodyComes, NoClientYet, ClientKept
  <1>3. ServedFirst'
    BY <1>2 DEF OneStreamInv, ServedFirst, StaysCounted, Unserved, SameStreams
  <1>4. Finds(perDevs')
    BY FindsSame DEF OneStreamInv
  <1>5. QED
    BY <1>1, <1>3, <1>4 DEF OneStreamInv

LEMMA PopStays ==
  ASSUME Typed, LinkStays, events # <<>>, events' = Tail(events),
         perDevs'.is_disconnected = perDevs.is_disconnected,
         perDevs'.connection_handle = perDevs.connection_handle
  PROVE  LinkStays'
  <1>1. Len(events) \in Nat /\ \A k \in 1..Len(events') : k + 1 \in 2..Len(events)
    BY PopShifts
  <1>2. /\ \A k \in 1..Len(events') : k + 1 \in 1..Len(events)
        /\ \A k, m \in 1..Len(events') : k < m => k + 1 < m + 1
    BY <1>1
  <1>3. \A k \in 1..Len(events') :
          /\ events'[k] = events[k + 1] /\ (IsMaster(k)' <=> IsMaster(k + 1))
          /\ \A h : IsDisconn(k, h)' <=> IsDisconn(k + 1, h)
    BY PopShifts
  <1>4. ~perDevs'.is_disconnected[0] =>
          \A k \in 1..Len(events') : ~IsDisconn(k, perDevs.connection_handle[0])'
    BY <1>2, <1>3 DEF LinkStays
  <1>5. \A k, m \in 1..Len(events') :
          IsMaster(k)' /\ k < m => ~IsDisconn(m, events[k].handle)'
    BY <1>2, <1>3 DEF LinkStays
  <1>6. QED
    BY <1>4, <1>5 DEF LinkStays

\* An event that is handled without letting a client in.
LEMMA PopNobody ==
  ASSUME Typed, NoClientYet, events # <<>>, events' = Tail(events), UNCHANGED links,
         NobodyComes
  PROVE  NoClientYet'
  <1>1. \A k \in 1..Len(events') :
          /\ k + 1 \in 1..Len(events) /\ events'[k] = events[k + 1]
          /\ IsSlave(k)' <=> IsSlave(k + 1)
    BY PopShifts, PopShiftsClients
  <1>2. QED
    BY <1>1 DEF NoClientYet, NobodyComes, ClientKept

LEMMA PopOne ==
  ASSUME Typed, OneStreamInv, events # <<>>, events' = Tail(events), UNCHANGED links,
         StaysCounted, SameStreams(perDevs, perDevs'),
         Unserved /\ ~perDevs'.is_connected[0] => NobodyComes
  PROVE  OneStreamInv'
  <1>1. LinkStays'
    BY PopStays DEF OneStreamInv, StaysCounted
  <1>2. ServedFirst'
    BY PopNobody DEF OneStreamInv, ServedFirst, StaysCounted, Unserved, SameStreams
  <1>3. Finds(perDevs')
    BY FindsSame DEF OneStreamInv
  <1>4. QED
    BY <1>1, <1>2, <1>3 DEF OneStreamInv

\* What is posted ends no link of the node.
LEMMA PostStays ==
  ASSUME Typed, LinkInv, LinkStays, NEW es \in Seq(Events), Post(es), UNCHANGED perDevs,
         \A i \in 1..Len(es) : es[i].type = "disconn" => links[es[i].handle] \notin Addrs,
         \A i \in 1..Len(es) : es[i].type = "conn" => i = Len(es)
  PROVE  LinkStays'
  <1>1. PICK n \in Nat : n = Len(events)
    BY PostKeepsQueue
  <1>2. /\ Len(es) \in Nat /\ Len(events') = n + Len(es)
        /\ \A k \in 1..n : /\ events'[k] = events[k] /\ (IsMaster(k)' <=> IsMaster(k))
                           /\ \A h : IsDisconn(k, h)' <=> IsDisconn(k, h)
        /\ \A k \in 1..Len(events') : k \notin 1..n =>
             k - n \in 1..Len(es) /\ events'[k] = es[k - n]
    BY <1>1, PostKeepsQueue
  <1>3. ASSUME NEW m \in 1..Len(events'), m \notin 1..n, NEW h, IsDisconn(m, h)'
        PROVE  links[h] \notin Addrs
    BY <1>2, <1>3 DEF IsDisconn
  <1>4. ASSUME ~perDevs.is_disconnected[0], NEW k \in 1..Len(events')
        PROVE  ~IsDisconn(k, perDevs.connection_handle[0])'
    <2>1. ~QueuedOf("disconn", perDevs.connection_handle[0])
      BY <1>1, <1>4, EventsTyped DEF LinkStays, QueuedOf, IsDisconn
    <2>2. links[perDevs.connection_handle[0]] \in Addrs
      BY <1>4, <2>1 DEF LinkInv, SlotLinked
    <2>3. CASE k \in 1..n
      BY <1>1, <1>2, <1>4, <2>3 DEF LinkStays
    <2>4. CASE k \notin 1..n
      BY <1>3, <2>2, <2>4
    <2>5. QED
      BY <2>3, <2>4
  <1>5. ASSUME NEW k \in 1..Len(events'), NEW m \in 1..Len(events'), k < m, IsMaster(k)'
        PROVE  ~IsDisconn(m, events[k].handle)'
    <2>1. CASE k \notin 1..n
      <3>1. k - n \in 1..Len(es) /\ events'[k] = es[k - n] /\ m <= n + Len(es)
        BY <1>2, <2>1
      <3>2. es[k - n].type = "conn"
        BY <1>5, <3>1 DEF IsMaster, IsConn
      <3>3. k - n = Len(es)
        BY <3>1, <3>2
      <3>4. QED
        BY <1>2, <1>5, <3>1, <3>3
    <2>2. CASE k \in 1..n /\ m \in 1..n
      BY <1>1, <1>2, <1>5, <2>2 DEF LinkStays
    <2>3. CASE k \in 1..n /\ m \notin 1..n
      <3>1. IsMaster(k) /\ events'[k] = events[k]
        BY <1>2, <1>5, <2>3
      <3>2. \A j \in k+1..n : j \in 1..n /\ k < j
        BY <2>3
      <3>3. \A j \in k+1..n : ~IsDisconn(j, events[k].handle)
        BY <1>1, <2>3, <3>1, <3>2 DEF LinkStays
      <3>4. links[events[k].handle] \in Addrs
        BY <1>1, <2>3, <3>1, <3>3 DEF LinkInv, ConnsLinked, IsMaster, PeerOf
      <3>5. QED
        BY <1>3, <2>3, <3>1, <3>4
    <2>4. QED
      BY <2>1, <2>2, <2>3
  <1>6. QED
    BY <1>4, <1>5 DEF LinkStays

LEMMA PostOne ==
  ASSUME Typed, LinkInv, OneStreamInv, NEW es \in Seq(Events), Post(es),
         UNCHANGED <<devVars, writes>>,
         \A i \in 1..Len(es) : es[i].type = "disconn" => links[es[i].handle] \notin Addrs,
         \A i \in 1..Len(es) : es[i].type = "conn" => i = Len(es),
         NoClientYet =>
           /\ ~adv' /\ \A h \in Handles : links'[h] \notin Clients
           /\ subs' \in [Handles -> SUBSET {"wup"}]
           /\ \A i \in 1..Len(es) :
                /\ ~(es[i].type = "conn" /\ es[i].role = "slave") /\ es[i].type # "modified"
                /\ es[i].type = "notification" => es[i].char = "wup"
  PROVE  OneStreamInv'
  <1>1. UNCHANGED <<perDevs, slaveDev>>
    BY DEF devVars
  <1>2. LinkStays'
    BY <1>1, PostStays DEF OneStreamInv
  <1>3. ASSUME NoClientYet
        PROVE  NoClientYet'
    <2>1. /\ \A k \in 1..Len(events) : events'[k] = events[k] /\ (IsConn(k)' <=> IsConn(k))
          /\ \A k \in 1..Len(events') : k \notin 1..Len(events) =>
               k - Len(events) \in 1..Len(es) /\ events'[k] = es[k - Len(events)]
      BY PostKeepsQueue
    <2>2. \A k \in 1..Len(events') :
            /\ ~IsSlave(k)' /\ events'[k].type # "modified"
            /\ events'[k].type = "notification" => events'[k].char = "wup"
      <3> SUFFICES ASSUME NEW k \in 1..Len(events')
                   PROVE  /\ ~IsSlave(k)' /\ events'[k].type # "modified"
                          /\ events'[k].type = "notification" => events'[k].char = "wup"
        OBVIOUS
      <3>1. CASE k \in 1..Len(events)
        BY <1>3, <2>1, <3>1 DEF NoClientYet, IsSlave, IsConn
      <3>2. CASE k \notin 1..Len(events)
        BY <1>3, <2>1, <3>2 DEF IsSlave, IsConn
      <3>3. QED
        BY <3>1, <3>2
    <2>3. QED
      BY <1>1, <1>3, <2>2 DEF NoClientYet
  <1>4. ServedFirst'
    BY <1>1, <1>3 DEF OneStreamInv, ServedFirst
  <1>5. QED
    BY <1>1, <1>2, <1>4 DEF OneStreamInv

-----------------------------------------------------------------------------
(* The steps.                                                              *)

\* What happens on the air.
LEMMA AirOne ==
  ASSUME NodeStays, IInv, OneStreamInv, Air
  PROVE  OneStreamInv'
  <1>1. Typed /\ LinkInv /\ UNCHANGED <<devVars, writes>>
    BY DEF IInv, Air
  <1>2. ASSUME NEW e \in Events, Post(<<e>>),
               e.type = "disconn" => links[e.handle] \notin Addrs,
               NoClientYet =>
                 /\ ~adv' /\ \A h \in Handles : links'[h] \notin Clients
                 /\ subs' \in [Handles -> SUBSET {"wup"}]
                 /\ ~(e.type = "conn" /\ e.role = "slave") /\ e.type # "modified"
                 /\ e.type = "notification" => e.char = "wup"
        PROVE  OneStreamInv'
    <2> DEFINE es == <<e>>
    <2>1. es \in Seq(Events) /\ Len(es) = 1 /\ (\A k \in 1..Len(es) : es[k] = e) /\ Post(es)
      BY <1>2, OneEvent
    <2> HIDE DEF es
    <2>2. \A i \in 1..Len(es) : i = Len(es) /\ es[i] = e
      BY <2>1
    <2>3. QED
      BY <1>1, <1>2, <2>1, <2>2, PostOne
  <1>3. ASSUME NEW a \in Addrs, Advertise(a)
        PROVE  OneStreamInv'
    <2> DEFINE e == [type |-> "adv", addr |-> a]
    <2>1. e \in Events /\ Post(<<e>>) /\ UNCHANGED <<adv, links, subs>>
      BY <1>3 DEF Events, Advertise, linkVars
    <2>2. QED
      BY <1>2, <2>1 DEF NoClientYet
  <1>4. CASE ScanEnds
    <2> DEFINE e == [type |-> "scan_end"]
    <2>1. e \in Events /\ Post(<<e>>) /\ UNCHANGED <<adv, links, subs>>
      BY <1>4 DEF Events, ScanEnds, linkVars
    <2>2. QED
      BY <1>2, <2>1 DEF NoClientYet
  <1>5. CASE NodeConnects
    <2>1. PICK h \in Handles : /\ links' = [links EXCEPT ![h] = gap] /\ gap \in Addrs
                               /\ Post(<<[type |-> "conn", handle |-> h, role |-> "master"]>>)
                               /\ UNCHANGED <<adv, subs>>
      BY <1>5 DEF NodeConnects, Link, FreeHandles
    <2> DEFINE e == [type |-> "conn", handle |-> h, role |-> "master"]
    <2>2. e \in Events
      BY DEF Events
    <2>3. NoClientYet => \A g \in Handles : links'[g] \notin Clients
      BY <1>1, <2>1, PeersAssumption DEF NoClientYet, Typed, TypeOK
    <2>4. QED
      BY <1>2, <2>1, <2>2, <2>3 DEF NoClientYet
  <1>6. ASSUME NEW c \in Clients, ClientConnects(c)
        PROVE  OneStreamInv'
    <2>1. PICK h \in Handles : Post(<<[type |-> "conn", handle |-> h, role |-> "slave"]>>)
      BY <1>6 DEF ClientConnects, Link, FreeHandles
    <2> DEFINE e == [type |-> "conn", handle |-> h, role |-> "slave"]
    <2>2. e \in Events /\ ~NoClientYet
      BY <1>6 DEF Events, ClientConnects, NoClientYet
    <2>3. QED
      BY <1>2, <2>1, <2>2
  <1>7. ASSUME NEW h \in Handles, LinkLost(h)
        PROVE  OneStreamInv'
    <2> DEFINE e == [type |-> "disconn", handle |-> h]
    <2>1. e \in Events /\ Post(<<e>>) /\ links[h] \notin Addrs
      BY <1>7 DEF Events, LinkLost, NodeStays
    <2>2. /\ links' = [links EXCEPT ![h] = None] /\ adv' = adv
          /\ subs' = [subs EXCEPT ![h] = {}]
      BY <1>7 DEF LinkLost, radioVars
    <2>3. NoClientYet => \A g \in Handles : links'[g] \notin Clients
      BY <1>1, <2>2, PeersAssumption DEF NoClientYet, Typed, TypeOK, None
    <2>4. NoClientYet => subs' \in [Handles -> SUBSET {"wup"}]
      BY <2>2 DEF NoClientYet
    <2>5. QED
      BY <1>2, <2>1, <2>2, <2>3, <2>4 DEF NoClientYet
  <1>8. ASSUME NEW h \in Handles, ProcedureEnds(h)
        PROVE  OneStreamInv'
    <2> DEFINE e == [type |-> "proc_end", handle |-> h]
               f == [type |-> "found", attrs |-> Found(h), addr |-> links[h]]
    <2>1. /\ Found(h) \subseteq Attrs /\ links[h] \in Peers \cup {None}
          /\ UNCHANGED <<links, adv, subs>>
      BY <1>1, <1>8, OffersAssumption DEF Found, Typed, TypeOK, ProcedureEnds, radioVars
    <2>2. e \in Events /\ f \in Events
      BY <2>1 DEF Events
    <2>3. PICK es \in {<<e>>, <<f, e>>} : Post(es)
      BY <1>8 DEF ProcedureEnds
    <2>4. es \in Seq(Events) /\ \A k \in 1..Len(es) : es[k] = e \/ es[k] = f
      <3>1. CASE es = <<e>>
        BY <2>2, <3>1, OneEvent
      <3>2. CASE es = <<f, e>>
        <4>1. es \in Seq(Events) /\ Len(es) = 2 /\ es[1] = f /\ es[2] = e
          BY <2>2, <3>2
        <4>2. QED
          BY <4>1
      <3>3. QED
        BY <2>3, <3>1, <3>2
    <2>5. e.type = "proc_end" /\ f.type = "found"
      OBVIOUS
    <2> HIDE DEF e, f
    <2>6. \A i \in 1..Len(es) : es[i].type \in {"proc_end", "found"}
      BY <2>4, <2>5
    <2>7. QED
      BY <1>1, <2>1, <2>3, <2>4, <2>6, PostOne DEF NoClientYet
  <1>9. ASSUME NEW h \in Handles, NEW s \in Streams, Notify(h, s)
        PROVE  OneStreamInv'
    <2> DEFINE e == [type |-> "notification", handle |-> h, char |-> s]
    <2>1. e \in Events /\ Post(<<e>>) /\ UNCHANGED <<adv, links, subs>> /\ s \in subs[h]
      BY <1>9 DEF Events, Notify, linkVars, radioVars
    <2>2. NoClientYet => s = "wup"
      BY <2>1 DEF NoClientYet
    <2>3. QED
      BY <1>2, <2>1, <2>2 DEF NoClientYet
  <1>10. ASSUME NEW h \in Handles, NEW c \in ClientCmds, ClientWrites(h, c)
         PROVE  OneStreamInv'
    <2> DEFINE e == [type |-> "modified", cmd |-> c]
    <2>1. e \in Events /\ Post(<<e>>) /\ ~NoClientYet
      BY <1>10 DEF Events, ClientWrites, NoClientYet
    <2>2. QED
      BY <1>2, <2>1
  <1>11. QED
    BY <1>3, <1>4, <1>5, <1>6, <1>7, <1>8, <1>9, <1>10 DEF Air, Radio

\* All that the invariant looks at in the table but the status.
SlotSame(p, q) ==
  /\ q.enabled = p.enabled /\ q.bdaddr = p.bdaddr /\ q.event = p.event
  /\ q.is_disconnected = p.is_disconnected /\ q.connection_handle = p.connection_handle
  /\ q.is_connected = p.is_connected

\* The status stays outside ReadStatuses when it was outside.
StaysOut(st1, st2) == st1 \notin ReadStatuses => st2 \notin ReadStatuses

LEMMA StatusSlot ==
  ASSUME NEW p \in PerDevs, NEW st
  PROVE  SlotSame(p, [p EXCEPT !.status = st]) /\ [p EXCEPT !.status = st].status = st
  BY DEF SlotSame, PerDevs

\* Set_New_Status.
LEMMA CompletedSlot ==
  ASSUME NEW p \in PerDevs, GATT_Procedure_Complete(p)
  PROVE  SlotSame(p, perDevs') /\ StaysOut(p.status, perDevs'.status)
  <1>1. PICK st \in NewStatus(p) : perDevs' = [p EXCEPT !.status = st]
    BY DEF GATT_Procedure_Complete
  <1>2. StaysOut(p.status, st)
    <2> USE DEF StaysOut, ReadStatuses
    <2>1. CASE p.status \in DOMAIN Advance
      BY <1>1, <2>1 DEF NewStatus, Advance
    <2>2. CASE p.status \notin DOMAIN Advance /\ p.status = "ENABLE_ME1_LED_NOTIFICATIONS"
      BY <1>1, <2>2 DEF NewStatus
    <2>3. CASE /\ p.status \notin DOMAIN Advance
               /\ p.status \notin {"ENABLE_ME1_LED_NOTIFICATIONS",
                                   "READING_AI_RECOGNITION", "ALL_DATA_READ"}
      BY <1>1, <2>3 DEF NewStatus
    <2>4. QED
      BY <2>1, <2>2, <2>3
  <1>3. QED
    BY <1>1, <1>2, StatusSlot

\* A step of the main loop that switches nothing and issues no write.
LEMMA QuietOne ==
  ASSUME OneStreamInv, UNCHANGED <<links, events, subs, writes>>, ~adv => ~adv', ClientKept,
         SlotSame(perDevs, perDevs'),
         ~perDevs.is_connected[0] => StaysOut(perDevs.status, perDevs'.status)
  PROVE  OneStreamInv'
  <1>1. StaysCounted /\ SameStreams(perDevs, perDevs')
    BY DEF StaysCounted, SameStreams, SlotSame
  <1>2. Unserved => NobodyComes
    BY DEF Unserved, NobodyComes, NoClientYet, StaysOut
  <1>3. QED
    BY <1>1, <1>2, PassOne

\* The blocks of Connection_Process that start a procedure of the controller.
LEMMA StartOne ==
  ASSUME OneNode, IInv, OneStreamInv, ConnInit \/ DiscoveryComplete \/ ConnectionOver
  PROVE  OneStreamInv'
  <1> DEFINE p == perDevs
  <1>1. p \in PerDevs /\ slaveDev \in SlaveDev /\ Typed
    BY DEF IInv, Typed, TypeOK
  <1>2. CASE ConnInit
    <2>1. UNCHANGED <<links, events, subs, writes>>
      BY <1>1, <1>2, Blocked DEF ConnInit, linkVars
    <2>2. CASE perDevs' = [p EXCEPT !.status = "DEVICE_CONNECTED"] /\ UNCHANGED <<slaveDev, radioVars>>
      <3>1. SlotSame(p, perDevs') /\ perDevs'.status = "DEVICE_CONNECTED"
        BY <1>1, <2>2, StatusSlot
      <3>2. QED
        BY <2>1, <2>2, <3>1, QuietOne DEF StaysOut, ReadStatuses, ClientKept, radioVars
    <2>3. CASE Start_Discovery
      <3>1. /\ \/ perDevs' = [p EXCEPT !.status = "START_DEVICE_DISCOVERY"]
               \/ perDevs' = ScanOver([p EXCEPT !.status = "START_DEVICE_DISCOVERY"])
            /\ \E b : slaveDev' = [slaveDev EXCEPT !.is_discoverable = b]
            /\ ~adv => ~adv'
        BY <2>3 DEF Start_Discovery, StartScan
      <3>2. /\ SlotSame(p, perDevs')
            /\ perDevs'.status \in {"START_DEVICE_DISCOVERY", "DEVICE_DISCOVERY_COMPLETE"}
        BY <1>1, <3>1 DEF ScanOver, SlotSame, PerDevs
      <3>3. ClientKept
        BY <1>1, <3>1 DEF ClientKept, SlaveDev
      <3>4. QED
        BY <2>1, <3>1, <3>2, <3>3, QuietOne DEF StaysOut, ReadStatuses
    <2>4. QED
      BY <1>2, <2>2, <2>3 DEF ConnInit
  <1>3. CASE DiscoveryComplete
    <2>1. UNCHANGED <<links, events, subs, writes, slaveDev, adv>>
      BY <1>1, <1>3, Blocked
         DEF DiscoveryComplete, Connect_Peripheral, CreateConnection, linkVars, radioVars
    <2> DEFINE i == p.connDeviceIdx
               q == [p EXCEPT !.status = "START_DEVICE_CONNECTION"]
               u == [q EXCEPT !.is_unconnectable[i] = TRUE]
    <2>2. \/ perDevs' = [p EXCEPT !.status = "DEVICE_NOT_FOUND"]
          \/ perDevs' = q
          \/ p.device_found /\ perDevs' \in MasterConnected(u, 0)
      BY <1>3 DEF DiscoveryComplete, Connect_Peripheral
    <2>3. /\ SlotSame(p, perDevs')
          /\ perDevs'.status \in {"DEVICE_NOT_FOUND", "START_DEVICE_CONNECTION"}
      <3>1. CASE p.device_found /\ perDevs' \in MasterConnected(u, 0)
        <4>1. i = 0
          BY <3>1 DEF IInv, NodeInv, Fresh
        <4>2. /\ u \in PerDevs /\ SlotSame(p, u)
              /\ u.connDeviceIdx = 0 /\ u.is_unconnectable[0] = TRUE
          BY <1>1, <4>1, OneSlot DEF SlotSame, PerDevs, Statuses
        <4> HIDE DEF u
        <4>3. perDevs' = Unconnectable(u)
          BY <3>1, <4>2, OneSlot DEF MasterConnected
        <4>4. QED
          BY <4>2, <4>3 DEF Unconnectable, SlotSame, PerDevs
      <3>2. CASE perDevs' = [p EXCEPT !.status = "DEVICE_NOT_FOUND"] \/ perDevs' = q
        BY <1>1, <3>2, StatusSlot
      <3>3. QED
        BY <2>2, <3>1, <3>2
    <2>4. QED
      BY <2>1, <2>3, QuietOne DEF StaysOut, ReadStatuses, ClientKept
  <1>4. CASE ConnectionOver
    <2>1. UNCHANGED <<links, events, subs, writes, slaveDev, adv>>
      BY <1>1, <1>4, Blocked DEF ConnectionOver, linkVars, radioVars
    <2>2. SlotSame(p, perDevs') /\ perDevs'.status \in {"DISCOVERABLE_MODE_SET", "READ_INIT"}
      BY <1>1, <1>4 DEF ConnectionOver, SlotSame, PerDevs
    <2>3. QED
      BY <2>1, <2>2, QuietOne DEF StaysOut, ReadStatuses, ClientKept
  <1>5. QED
    BY <1>2, <1>3, <1>4

\* The blocks that explore a node, and the one that counts it.
LEMMA ExploreOne ==
  ASSUME OneNode, IInv, OneStreamInv,
         \/ Discover_Services \/ DiscoverChars \/ ChooseNotifications
         \/ Enable_Notifications \/ NodeReady
  PROVE  OneStreamInv'
  <1> DEFINE p == perDevs
  <1>1. p \in PerDevs /\ Typed
    BY DEF IInv, Typed, TypeOK
  <1>2. ASSUME NEW proc, NEW st \in Statuses \ ReadStatuses, Discover(proc, st),
               UNCHANGED <<slaveDev, events, writes, adv>>
        PROVE  OneStreamInv'
    <2> DEFINE q == [p EXCEPT !.status = st]
    <2>1. UNCHANGED <<links, subs>> /\ (perDevs' = q \/ GATT_Procedure_Complete(q))
      BY <1>2 DEF Discover, linkVars
    <2>2. q \in PerDevs /\ SlotSame(p, q) /\ q.status = st
      BY <1>1, <1>2, StatusTyped, StatusSlot
    <2> HIDE DEF q
    <2>3. SlotSame(q, perDevs') /\ StaysOut(st, perDevs'.status)
      BY <2>1, <2>2, CompletedSlot DEF SlotSame, StaysOut
    <2>4. SlotSame(p, perDevs')
      BY <2>2, <2>3 DEF SlotSame
    <2>5. QED
      BY <1>2, <2>1, <2>3, <2>4, QuietOne DEF StaysOut, ClientKept
  <1>3. CASE Discover_Services
    <2>1. UNCHANGED <<slaveDev, events, writes, adv>> /\ Discover("services", "START_SERVICE_DISCOVERY")
      BY <1>1, <1>3, Blocked DEF Discover_Services, radioVars
    <2>2. "START_SERVICE_DISCOVERY" \in Statuses \ ReadStatuses
      BY DEF Statuses, ReadStatuses
    <2>3. QED
      BY <1>2, <2>1, <2>2
  <1>4. ASSUME NEW serv, NEW before, NEW running \in Statuses \ ReadStatuses,
               NEW after \in Statuses \ ReadStatuses,
               Discover_Service_Chars(serv, before, running, after)
        PROVE  OneStreamInv'
    <2>1. /\ UNCHANGED <<slaveDev, events, writes, adv>>
          /\ \/ Discover(serv, running)
             \/ perDevs' = [p EXCEPT !.status = after] /\ UNCHANGED <<links, subs>>
      BY <1>1, <1>4, Blocked DEF Discover_Service_Chars, linkVars, radioVars
    <2>2. CASE Discover(serv, running)
      BY <1>2, <1>4, <2>1, <2>2
    <2>3. CASE perDevs' = [p EXCEPT !.status = after] /\ UNCHANGED <<links, subs>>
      <3>1. SlotSame(p, perDevs') /\ perDevs'.status = after
        BY <1>1, <2>3, StatusSlot
      <3>2. QED
        BY <1>4, <2>1, <2>3, <3>1, QuietOne DEF StaysOut, ClientKept
    <2>4. QED
      BY <2>1, <2>2, <2>3
  <1>5. CASE DiscoverChars
    <2>1. {"START_HARDWARE_SERV_CHARS_DISCOVERY", "HARDWARE_SERV_CHARS_DISCOVERED",
           "START_SOFTWARE_SERV_CHARS_DISCOVERY", "SOFTWARE_SERV_CHARS_DISCOVERED",
           "START_CONFIGURATION_SERV_CHARS_DISCOVERY", "CONFIGURATION_SERV_CHARS_DISCOVERED"}
            \subseteq Statuses \ ReadStatuses
      BY DEF Statuses, ReadStatuses
    <2>2. QED
      BY <1>4, <1>5, <2>1 DEF DiscoverChars
  <1>6. CASE ChooseNotifications
    <2>1. /\ UNCHANGED <<links, events, subs, writes, slaveDev, adv>>
          /\ \E st \in Statuses \ ReadStatuses : perDevs' = [p EXCEPT !.status = st]
      BY <1>1, <1>6, Blocked DEF ChooseNotifications, linkVars, radioVars, Statuses, ReadStatuses
    <2>2. SlotSame(p, perDevs') /\ perDevs'.status \notin ReadStatuses
      BY <1>1, <2>1, StatusSlot
    <2>3. QED
      BY <2>1, <2>2, QuietOne DEF StaysOut, ClientKept
  <1>7. CASE Enable_Notifications
    <2>1. UNCHANGED <<links, events, subs, perDevs, slaveDev, adv>>
      BY <1>1, <1>7, Blocked DEF Enable_Notifications, linkVars, radioVars, devVars
    <2>2. \E w : w.char \in {"led", "wup", "ai"} /\ writes' = <<w>>
      <3>1. PICK s \in {"led", "wup", "ai"} :
              writes' = <<DescriptorWrite(p, p.connDeviceIdx, s, 1)>>
        BY <1>7 DEF Enable_Notifications
      <3>2. DescriptorWrite(p, p.connDeviceIdx, s, 1).char = s
        BY DEF DescriptorWrite
      <3>3. QED
        BY <3>1, <3>2
    <2>3. StaysCounted /\ SameStreams(p, perDevs')
      BY <2>1 DEF StaysCounted, SameStreams
    <2>4. Unserved => NobodyComes
      BY <2>1, <2>2 DEF Unserved, NobodyComes, NoClientYet, ClientKept
    <2>5. QED
      BY <2>1, <2>3, <2>4, PassOne
  <1>8. CASE NodeReady
    <2>1. UNCHANGED <<links, events, subs, writes, slaveDev, adv>>
      BY <1>1, <1>8, Blocked DEF NodeReady, linkVars, radioVars
    <2>2. p.status = "NOTIFICATIONS_ENABLED"
      BY <1>1, <1>8, Blocked DEF NodeReady
    <2>3. p.connDeviceIdx = 0
      BY <2>2 DEF IInv, NodeInv, Fresh, Discovering
    <2>4. CASE p.is_disconnected[0]
      <3>1. \E i : perDevs' = [p EXCEPT !.readDeviceIdx = i, !.status = "READ_INIT"]
        BY <1>8, <2>3, <2>4 DEF NodeReady
      <3>2. SlotSame(p, perDevs') /\ perDevs'.status = "READ_INIT"
        BY <1>1, <3>1 DEF SlotSame, PerDevs
      <3>3. QED
        BY <2>1, <3>2, QuietOne DEF StaysOut, ReadStatuses, ClientKept
    <2>5. CASE ~p.is_disconnected[0]
      <3> DEFINE q == [p EXCEPT !.is_connected[0] = TRUE,
                         !.connDeviceIdx = Byte(@ + 1), !.connDevices = Byte(@ + 1)]
      <3>1. \E i : perDevs' = [q EXCEPT !.readDeviceIdx = i, !.status = "READ_INIT"]
        BY <1>8, <2>3, <2>5 DEF NodeReady
      <3>2. /\ StaysCounted /\ SameStreams(p, perDevs') /\ perDevs'.is_connected[0]
        BY <1>1, <3>1, OneSlot DEF StaysCounted, SameStreams, PerDevs
      <3>3. QED
        BY <2>1, <3>2, PassOne
    <2>6. QED
      BY <2>4, <2>5
  <1>9. QED
    BY <1>3, <1>5, <1>6, <1>7, <1>8

\* The blocks of Reading_Process.
LEMMA ReadingOne ==
  ASSUME OneNode, IInv, OneStreamInv, Reading_Process
  PROVE  OneStreamInv'
  <1> DEFINE p == perDevs
  <1>1. p \in PerDevs /\ slaveDev \in SlaveDev /\ Typed
    BY DEF IInv, Typed, TypeOK
  <1>2. p.connDevices > 0 <=> p.is_connected[0]
    BY DEF IInv, NodeInv, Counted
  <1>3. ~p.is_connected[0] => p.status \notin ReadStatuses
    BY DEF OneStreamInv, ServedFirst, NoClientYet
  <1>4. CASE StreamPass
    <2>1. UNCHANGED <<links, events, subs, writes, slaveDev, adv>> /\ p.status \in ReadStatuses
      BY <1>1, <1>4, Blocked DEF StreamPass, linkVars, radioVars, ReadStatuses
    <2>2. perDevs' = p \/ perDevs' = [p EXCEPT !.status = "ALL_DATA_READ"]
      BY <1>4 DEF StreamPass
    <2>3. SlotSame(p, perDevs')
      <3>1. CASE perDevs' = p
        BY <3>1 DEF SlotSame
      <3>2. CASE perDevs' = [p EXCEPT !.status = "ALL_DATA_READ"]
        BY <1>1, <3>2, StatusSlot
      <3>3. QED
        BY <2>2, <3>1, <3>2
    <2>4. QED
      BY <1>3, <2>1, <2>3, QuietOne DEF StaysOut, ClientKept
  <1>5. CASE ReadInit
    <2>1. UNCHANGED <<links, events, subs, writes, slaveDev, adv>>
      BY <1>1, <1>5, Blocked DEF ReadInit, linkVars, radioVars
    <2> DEFINE q == [p EXCEPT !.status = "ALL_DATA_READ"]
    <2>2. CASE p.connDevices > 0
      <3>1. GATT_Procedure_Complete(q)
        BY <1>5, <2>2 DEF ReadInit
      <3>2. q \in PerDevs /\ SlotSame(p, q)
        BY <1>1, StatusTyped, StatusSlot DEF Statuses
      <3> HIDE DEF q
      <3>3. SlotSame(p, perDevs')
        BY <3>1, <3>2, CompletedSlot DEF SlotSame
      <3>4. QED
        BY <1>2, <2>1, <2>2, <3>3, QuietOne DEF ClientKept
    <2>3. CASE ~(p.connDevices > 0)
      <3>1. perDevs' = [p EXCEPT !.status = "CONN_INIT"]
        BY <1>5, <2>3 DEF ReadInit
      <3>2. SlotSame(p, perDevs') /\ perDevs'.status = "CONN_INIT"
        BY <1>1, <3>1, StatusSlot
      <3>3. QED
        BY <2>1, <3>2, QuietOne DEF StaysOut, ReadStatuses, ClientKept
    <2>4. QED
      BY <2>2, <2>3
  <1>6. CASE Read_Sensor_Data
    <2>1. UNCHANGED <<events, writes, slaveDev, adv>>
      BY <1>1, <1>6, Blocked DEF Read_Sensor_Data, radioVars
    <2>2. UNCHANGED <<links, subs>> /\ (perDevs' = p \/ GATT_Procedure_Complete(p))
      BY <1>6 DEF Read_Sensor_Data, ReadOf, linkVars
    <2>3. SlotSame(p, perDevs') /\ StaysOut(p.status, perDevs'.status)
      BY <1>1, <2>2, CompletedSlot DEF SlotSame, StaysOut
    <2>4. QED
      BY <2>1, <2>2, <2>3, QuietOne DEF ClientKept
  <1>7. CASE NextNode
    <2>1. UNCHANGED <<links, events, subs, writes>> /\ p.status \in ReadStatuses
      BY <1>1, <1>7, Blocked DEF NextNode, linkVars, ReadStatuses
    <2>2. /\ slaveDev' = slaveDev \/ slaveDev' = [slaveDev EXCEPT !.is_discoverable = TRUE]
          /\ \E i, st : perDevs' = [p EXCEPT !.readDeviceIdx = i, !.status = st]
      BY <1>7 DEF NextNode
    <2>3. StaysCounted /\ SameStreams(p, perDevs')
      BY <1>1, <2>2 DEF StaysCounted, SameStreams, PerDevs
    <2>4. ~Unserved
      BY <1>3, <2>1 DEF Unserved
    <2>5. QED
      BY <2>1, <2>3, <2>4, PassOne
  <1>8. CASE DisableNotifications
    <2>1. UNCHANGED <<links, events, subs, slaveDev>> /\ p.status \in ReadStatuses
      BY <1>1, <1>8, Blocked DEF DisableNotifications, linkVars, ReadStatuses
    <2>2. p.is_connected[0] /\ p.connDevices = 1
      BY <1>2, <1>3, <2>1 DEF IInv, NodeInv, Counted
    <2> DEFINE q == Disable_All_Notifications(p).p
    <2>3. perDevs' = [q EXCEPT !.status = "ALL_DATA_READ"]
      BY <1>8 DEF DisableNotifications
    <2>4. /\ q \in PerDevs /\ NodeSame(p, q)
          /\ q.enabled = {} /\ q.bdaddr = p.bdaddr /\ q.event = p.event
      BY <1>1, <2>2, OneRound, DisableAllKeeps, DisableAllFinds DEF OneStreamInv
    <2> HIDE DEF q
    <2>5. SlotSame(q, perDevs')
      BY <2>3, <2>4, StatusSlot
    <2>6. StaysCounted /\ perDevs'.is_connected[0]
      BY <2>2, <2>4, <2>5 DEF StaysCounted, NodeSame, SlotSame
    <2>7. Finds(perDevs')
      BY <2>4, <2>5 DEF Finds, SlotSame, OneStreamInv
    <2>8. LinkStays'
      BY <2>1, <2>6 DEF OneStreamInv, LinkStays, StaysCounted, IsDisconn, IsMaster, IsConn
    <2>9. QED
      BY <2>6, <2>7, <2>8 DEF OneStreamInv, ServedFirst
  <1>9. CASE PassEnds
    <2>1. UNCHANGED <<links, events, subs, writes, perDevs, slaveDev, adv>>
      BY <1>9 DEF PassEnds, devVars, ctrlVars, linkVars, radioVars
    <2>2. QED
      BY <2>1, QuietOne DEF StaysOut, ClientKept, SlotSame
  <1>10. QED
    BY <1>4, <1>5, <1>6, <1>7, <1>8, <1>9 DEF Reading_Process

\* A descriptor write that waited.
LEMMA WriteOne ==
  ASSUME OneStreamInv, Write_Charac_Descriptor
  PROVE  OneStreamInv'
  <1>1. /\ UNCHANGED <<perDevs, slaveDev, links, adv, events>>
        /\ writes # <<>> /\ writes' = Tail(writes)
    BY DEF Write_Charac_Descriptor, devVars, radioVars
  <1>2. StaysCounted /\ SameStreams(perDevs, perDevs')
    BY <1>1 DEF StaysCounted, SameStreams
  <1>3. ASSUME Unserved
        PROVE  NobodyComes
    <2>1. PICK w : w.char \in {"led", "wup", "ai"} /\ writes = <<w>>
      BY <1>1, <1>3 DEF Unserved, NoClientYet
    <2>2. Head(writes) = w /\ writes' = <<>>
      BY <1>1, <2>1
    <2>3. w.char \in Streams => w.char = "wup"
      BY <2>1 DEF Streams
    <2>4. \/ subs' = subs
          \/ /\ w.char = "wup"
             /\ \E X \in {subs[w.handle] \cup {w.char}, subs[w.handle] \ {w.char}} :
                  subs' = [subs EXCEPT ![w.handle] = X]
      BY <2>2, <2>3 DEF Write_Charac_Descriptor
    <2>5. subs' \in [Handles -> SUBSET {"wup"}]
      BY <1>3, <2>4 DEF Unserved, NoClientYet
    <2>6. QED
      BY <1>1, <1>3, <2>2, <2>5 DEF Unserved, NoClientYet, NobodyComes, ClientKept
  <1>4. QED
    BY <1>1, <1>2, <1>3, PassOne

-----------------------------------------------------------------------------
(* The events.                                                             *)

\* Most events leave all but the status alone, and let no client in.
LEMMA QuietEventOne ==
  ASSUME Typed, OneStreamInv, events # <<>>, events' = Tail(events),
         UNCHANGED <<adv, links, subs, writes>>, ClientKept,
         StaysCounted, SameStreams(perDevs, perDevs'),
         Unserved /\ ~perDevs'.is_connected[0] => StaysOut(perDevs.status, perDevs'.status)
  PROVE  OneStreamInv'
  <1>1. Unserved /\ ~perDevs'.is_connected[0] => NobodyComes
    BY DEF Unserved, NobodyComes, NoClientYet, StaysOut
  <1>2. QED
    BY <1>1, PopOne

LEMMA DeliveredOne ==
  ASSUME Typed, NEW type, Deliver(type)
  PROVE  /\ events # <<>> /\ events' = Tail(events) /\ Head(events) = events[1]
         /\ UNCHANGED <<adv, links, subs>>
         /\ 1 \in 1..Len(events) /\ events[1].type = type /\ events[1] \in Events
  BY Delivered DEF Deliver, radioVars, linkVars

\* Primary_Services_CB, Service_Chars_CB, GATT_Procedure_Complete_CB, and the end
\* of the scan.
LEMMA DataEventOne ==
  ASSUME OneNode, IInv, OneStreamInv,
         OnHandlesFound \/ OnProcedureComplete \/ OnDiscoveryComplete
  PROVE  OneStreamInv'
  <1> DEFINE p == perDevs
  <1>1. p \in PerDevs /\ Typed
    BY DEF IInv, Typed, TypeOK
  <1>2. PICK type : Deliver(type)
    BY DEF OnHandlesFound, OnProcedureComplete, OnDiscoveryComplete
  <1>3. /\ events # <<>> /\ events' = Tail(events)
        /\ UNCHANGED <<adv, links, subs, writes>> /\ ClientKept
    BY <1>1, <1>2, DeliveredOne
       DEF OnHandlesFound, OnProcedureComplete, OnDiscoveryComplete, ClientKept
  <1>4. SlotSame(p, perDevs') /\ StaysOut(p.status, perDevs'.status)
    <2>1. CASE OnHandlesFound
      BY <1>1, <2>1 DEF OnHandlesFound, Handled, SlotSame, StaysOut, PerDevs
    <2>2. CASE OnProcedureComplete
      BY <1>1, <2>2, CompletedSlot DEF OnProcedureComplete
    <2>3. CASE OnDiscoveryComplete
      BY <1>1, <2>3
         DEF OnDiscoveryComplete, ScanOver, SlotSame, StaysOut, ReadStatuses, PerDevs
    <2>4. QED
      BY <2>1, <2>2, <2>3
  <1>5. StaysCounted /\ SameStreams(p, perDevs')
    BY <1>4 DEF StaysCounted, SameStreams, SlotSame
  <1>6. QED
    BY <1>1, <1>3, <1>4, <1>5, QuietEventOne

\* GATT_Notification_CB: only wake-up notifications come before a client does,
\* and they change nothing then.
LEMMA NotificationOne ==
  ASSUME OneNode, IInv, OneStreamInv, OnNotification
  PROVE  OneStreamInv'
  <1> DEFINE p == perDevs
  <1>1. p \in PerDevs /\ Typed /\ Deliver("notification")
    BY DEF IInv, Typed, TypeOK, OnNotification
  <1>2. /\ events # <<>> /\ events' = Tail(events) /\ Head(events) = events[1]
        /\ 1 \in 1..Len(events) /\ events[1].type = "notification"
        /\ UNCHANGED <<adv, links, subs, writes>> /\ ClientKept
    BY <1>1, DeliveredOne DEF OnNotification, ClientKept
  <1>3. PICK i : perDevs' = p \/ perDevs' = Notified(i, events[1].char)
    BY <1>2 DEF OnNotification
  <1>4. SlotSame(p, perDevs')
    <2>1. CASE perDevs' = p
      BY <2>1 DEF SlotSame
    <2>2. CASE perDevs' = Notified(i, events[1].char)
      BY <1>1, <2>2 DEF Notified, SlotSame, PerDevs
    <2>3. QED
      BY <1>3, <2>1, <2>2
  <1>5. StaysCounted /\ SameStreams(p, perDevs')
    BY <1>4 DEF StaysCounted, SameStreams, SlotSame
  <1>6. ASSUME Unserved
        PROVE  StaysOut(p.status, perDevs'.status)
    <2>1. events[1].char = "wup" /\ ~Notifying
      BY <1>2, <1>6 DEF Unserved, NoClientYet, Notifying
    <2>2. perDevs' = p
      BY <1>3, <2>1 DEF Notified
    <2>3. QED
      BY <2>2 DEF StaysOut
  <1>7. QED
    BY <1>1, <1>2, <1>5, <1>6, QuietEventOne

\* A write of a client, for a node that is served by then.
LEMMA ModifiedOne ==
  ASSUME OneNode, Supported, IInv, OneStreamInv, OnAttributeModified
  PROVE  OneStreamInv'
  <1> DEFINE p == perDevs
  <1>1. p \in PerDevs /\ Typed /\ NodeInv /\ Deliver("modified")
    BY DEF IInv, Typed, TypeOK, OnAttributeModified
  <1>2. /\ events # <<>> /\ events' = Tail(events) /\ Head(events) = events[1]
        /\ 1 \in 1..Len(events) /\ events[1].type = "modified" /\ UNCHANGED links
    BY <1>1, DeliveredOne
  <1> DEFINE c == events[1].cmd
  <1>3. c \in ClientCmds /\ perDevs' = Modified(p, c).p
    BY <1>1, <1>2, EventsTyped DEF OnAttributeModified
  <1>4. p.is_connected[0] /\ p.connDevices = 1
    BY <1>1, <1>2 DEF OneStreamInv, ServedFirst, NoClientYet, NodeInv, Counted
  <1>5. NodeSame(p, perDevs') /\ Finds(perDevs')
    BY <1>1, <1>3, <1>4, ModifiedKeeps, ModifiedFinds DEF OneStreamInv
  <1>6. LinkStays'
    BY <1>1, <1>2, <1>5, PopStays DEF OneStreamInv, NodeSame
  <1>7. QED
    BY <1>4, <1>5, <1>6 DEF OneStreamInv, ServedFirst, NodeSame

\* A node that is found takes the slot while it is vacant.
LEMMA FoundOne ==
  ASSUME OneNode, IInv, OneStreamInv, OnAdvertisement
  PROVE  OneStreamInv'
  <1> DEFINE p == perDevs
             a == events[1].addr
  <1>1. p \in PerDevs /\ Typed /\ NodeInv /\ Deliver("adv")
    BY DEF IInv, Typed, TypeOK, OnAdvertisement
  <1>2. /\ events # <<>> /\ events' = Tail(events) /\ Head(events) = events[1]
        /\ 1 \in 1..Len(events) /\ events[1].type = "adv" /\ a \in Addrs
        /\ UNCHANGED <<adv, links, subs, writes>> /\ ClientKept
    BY <1>1, DeliveredOne, EventsTyped DEF OnAdvertisement, ClientKept
  <1>3. CASE perDevs' = p
    <2>1. StaysCounted /\ SameStreams(p, perDevs')
      BY <1>3 DEF StaysCounted, SameStreams
    <2>2. QED
      BY <1>1, <1>2, <1>3, <2>1, QuietEventOne DEF StaysOut
  <1>4. CASE Vacant(p) # {} /\ perDevs' = DeviceFound(p, a)
    <2>1. p.is_disconnected[0] /\ Vacant(p) = {0} /\ ~p.is_connected[0]
      BY <1>1, <1>4, OneSlot DEF Vacant, NodeInv, Counted
    <2>2. NoClientYet /\ p.enabled = {}
      BY <2>1 DEF OneStreamInv, ServedFirst
    <2>3. SlotFor(p, a) = 0
      <3>1. Own(p, a) \in {{}, {0}} /\ Unused(p) \in {{}, {0}}
        BY <2>1 DEF Own, Unused
      <3> DEFINE own == Own(p, a)
                 unused == Unused(p)
      <3> HIDE DEF own, unused
      <3>2. QED
        BY <2>1, <3>1, MinOfZero, MaxOfZero DEF SlotFor, own, unused
    <2> DEFINE disc == IF Own(p, a) # {} THEN Byte(p.discDevices - 1) ELSE p.discDevices
               q == [p EXCEPT !.connDeviceIdx = 0, !.discDevices = disc, !.bdaddr[0] = a,
                              !.event[0] = Offers[a] \cap Streams, !.status = "DEVICE_FOUND"]
    <2>4. perDevs' = q
      BY <1>4, <2>3 DEF DeviceFound
    <2> HIDE DEF disc
    <2>5. /\ q.is_disconnected = p.is_disconnected
          /\ q.connection_handle = p.connection_handle
          /\ q.is_connected = p.is_connected /\ q.enabled = p.enabled
          /\ q.bdaddr[0] = a /\ q.event[0] = Offers[a] \cap Streams
          /\ q.status = "DEVICE_FOUND"
      BY <1>1, OneSlot DEF PerDevs
    <2> HIDE DEF q
    <2>6. LinkStays'
      BY <1>1, <1>2, <2>4, <2>5, PopStays DEF OneStreamInv
    <2>7. NobodyComes
      BY <1>2, <2>2, <2>4, <2>5 DEF NobodyComes, NoClientYet, ReadStatuses
    <2>8. NoClientYet'
      BY <1>1, <1>2, <2>2, <2>7, PopNobody
    <2>9. Finds(perDevs')
      BY <2>2, <2>4, <2>5 DEF Finds, Streamed, Streams
    <2>10. QED
      BY <2>2, <2>4, <2>5, <2>6, <2>8, <2>9 DEF OneStreamInv, ServedFirst
  <1>5. QED
    BY <1>2, <1>3, <1>4 DEF OnAdvertisement

\* GAP_ConnectionComplete_CB: nothing queued behind it ends the node's link; and
\* a client's comes only when the node is served.
LEMMA ConnectionOne ==
  ASSUME OneNode, IInv, OneStreamInv, OnConnection
  PROVE  OneStreamInv'
  <1> DEFINE p == perDevs
             h == events[1].handle
  <1>1. p \in PerDevs /\ Typed /\ NodeInv /\ Deliver("conn")
    BY DEF IInv, Typed, TypeOK, OnConnection
  <1>2. /\ events # <<>> /\ events' = Tail(events) /\ Head(events) = events[1]
        /\ 1 \in 1..Len(events) /\ events[1].type = "conn"
        /\ h \in Handles /\ events[1].role \in {"master", "slave"}
        /\ UNCHANGED <<adv, links, subs, writes>>
    BY <1>1, DeliveredOne, EventsTyped DEF OnConnection
  <1>3. CASE events[1].role = "master"
    <2>1. IsMaster(1) /\ Connecting
      BY <1>1, <1>2, <1>3, EventsTyped DEF IsMaster, IsConn, Connecting
    <2>2. p.connDeviceIdx = 0 /\ ~p.is_connected[0]
      BY <1>1, <2>1 DEF NodeInv, Fresh
    <2>3. ClientKept /\ (perDevs' = Unconnectable(p) \/ perDevs' = Connected(p, h))
      BY <1>2, <1>3, <2>2 DEF OnConnection, MasterConnected, ClientKept
    <2>4. CASE perDevs' = Unconnectable(p)
      <3>1. SlotSame(p, perDevs') /\ perDevs'.status = "DEVICE_NOT_FOUND"
        BY <1>1, <2>2, <2>4, OneSlot DEF Unconnectable, SlotSame, PerDevs
      <3>2. StaysCounted /\ SameStreams(p, perDevs')
        BY <3>1 DEF StaysCounted, SameStreams, SlotSame
      <3>3. QED
        BY <1>1, <1>2, <2>3, <3>1, <3>2, QuietEventOne DEF StaysOut, ReadStatuses
    <2>5. CASE perDevs' = Connected(p, h)
      <3> DEFINE q == [p EXCEPT !.connection_handle[0] = h, !.is_disconnected[0] = FALSE,
                                !.status = "DEVICE_CONNECTED"]
      <3>1. perDevs' = q
        BY <2>2, <2>5 DEF Connected
      <3>2. /\ q.connection_handle[0] = h /\ q.is_connected = p.is_connected
            /\ q.enabled = p.enabled /\ SameStreams(p, q) /\ q.status = "DEVICE_CONNECTED"
        BY <1>1, OneSlot DEF PerDevs, SameStreams
      <3> HIDE DEF q
      <3>3. /\ \A k \in 1..Len(events') : k + 1 \in 1..Len(events) /\ 1 < k + 1
            /\ \A k, m \in 1..Len(events') : k < m => k + 1 < m + 1
        <4>1. Len(events) \in Nat /\ \A k \in 1..Len(events') : k + 1 \in 2..Len(events)
          BY <1>1, <1>2, PopShifts
        <4>2. QED
          BY <4>1
      <3>4. \A k \in 1..Len(events') :
              /\ events'[k] = events[k + 1] /\ (IsMaster(k)' <=> IsMaster(k + 1))
              /\ \A g : IsDisconn(k, g)' <=> IsDisconn(k + 1, g)
        BY <1>1, <1>2, PopShifts
      <3>5. PICK g : g = h
        OBVIOUS
      <3>6. \A k \in 1..Len(events') : ~IsDisconn(k, g)'
        <4>1. \A m \in 1..Len(events) : 1 < m => ~IsDisconn(m, g)
          BY <1>2, <2>1, <3>5 DEF OneStreamInv, LinkStays
        <4>2. QED
          BY <3>3, <3>4, <4>1
      <3>7. \A k, m \in 1..Len(events') :
              IsMaster(k)' /\ k < m => ~IsDisconn(m, events[k].handle)'
        BY <3>3, <3>4 DEF OneStreamInv, LinkStays
      <3>8. LinkStays'
        <4>1. perDevs'.connection_handle[0] = g
          BY <3>1, <3>2, <3>5
        <4>2. QED
          BY <3>6, <3>7, <4>1 DEF LinkStays
      <3>9. NoClientYet /\ p.enabled = {}
        BY <2>2 DEF OneStreamInv, ServedFirst
      <3>10. NobodyComes
        <4>1. perDevs'.status = "DEVICE_CONNECTED"
          BY <3>1, <3>2
        <4>2. QED
          BY <1>2, <2>3, <3>9, <4>1 DEF NobodyComes, NoClientYet, ReadStatuses
      <3>11. NoClientYet'
        BY <1>1, <1>2, <3>9, <3>10, PopNobody
      <3>12. Finds(perDevs')
        BY <3>1, <3>2, FindsSame DEF OneStreamInv
      <3>13. QED
        BY <3>1, <3>2, <3>8, <3>9, <3>11, <3>12 DEF OneStreamInv, ServedFirst
    <2>6. QED
      BY <2>3, <2>4, <2>5
  <1>4. CASE events[1].role = "slave"
    <2>1. perDevs' = p
      BY <1>2, <1>4 DEF OnConnection
    <2>2. StaysCounted /\ SameStreams(p, perDevs')
      BY <2>1 DEF StaysCounted, SameStreams
    <2>3. ~Unserved
      BY <1>2, <1>4 DEF Unserved, NoClientYet, IsSlave, IsConn
    <2>4. QED
      BY <1>1, <1>2, <2>2, <2>3, PopOne
  <1>5. QED
    BY <1>2, <1>3, <1>4

\* GAP_DisconnectionComplete_CB: never for the node, and for a client only when
\* the node is served.
LEMMA DisconnectionOne ==
  ASSUME OneNode, IInv, OneStreamInv, OnDisconnection
  PROVE  OneStreamInv'
  <1> DEFINE p == perDevs
             h == events[1].handle
             node == h = p.connection_handle[0]
             q == IF SlotsOf(p, h) = {} THEN p
                  ELSE NodeDisconnected(p, CHOOSE i \in SlotsOf(p, h) : TRUE)
  <1>1. p \in PerDevs /\ Typed /\ Deliver("disconn")
    BY DEF IInv, Typed, TypeOK, OnDisconnection
  <1>2. /\ events # <<>> /\ events' = Tail(events) /\ Head(events) = events[1]
        /\ 1 \in 1..Len(events) /\ events[1].type = "disconn" /\ h \in Handles
        /\ UNCHANGED <<adv, links, subs, writes>>
    BY <1>1, DeliveredOne, EventsTyped DEF OnDisconnection
  <1>3. q = IF node THEN NodeDisconnected(p, 0) ELSE p
    <2>1. SlotsOf(p, h) = IF node THEN {0} ELSE {}
      BY OneSlot DEF SlotsOf
    <2>2. QED
      BY <2>1
  <1>4. IF h = slaveDev.conn_handle
        THEN perDevs' = ClientDisconnected(q) /\ slaveDev' = NoClient(slaveDev)
        ELSE perDevs' = q /\ slaveDev' = slaveDev
    BY <1>2 DEF OnDisconnection
  <1> HIDE DEF q
  <1>5. node => p.is_disconnected[0]
    BY <1>2 DEF OneStreamInv, LinkStays, IsDisconn
  <1>6. SlotSame(p, q) /\ q.status = p.status /\ q \in PerDevs
    <2>1. q = p \/ q = [p EXCEPT !.is_unconnectable[0] = TRUE]
      BY <1>3, <1>5 DEF NodeDisconnected
    <2>2. QED
      BY <1>1, <2>1, OneSlot DEF SlotSame, PerDevs
  <1>7. SlotSame(q, perDevs')
    <2>1. CASE perDevs' = q
      BY <2>1 DEF SlotSame
    <2>2. CASE perDevs' = ClientDisconnected(q)
      BY <1>6, <2>2 DEF ClientDisconnected, SlotSame, PerDevs
    <2>3. QED
      BY <1>4, <2>1, <2>2
  <1>8. StaysCounted /\ SameStreams(p, perDevs')
    BY <1>6, <1>7 DEF StaysCounted, SameStreams, SlotSame
  <1>9. ASSUME Unserved
        PROVE  NobodyComes
    <2>1. h # slaveDev.conn_handle
      BY <1>2, <1>9, HandlesAssumption DEF Unserved, NoClientYet
    <2>2. slaveDev' = slaveDev /\ perDevs'.status = p.status
      BY <1>4, <1>6, <2>1
    <2>3. QED
      BY <1>2, <1>9, <2>2 DEF Unserved, NobodyComes, NoClientYet, ClientKept
  <1>10. QED
    BY <1>1, <1>2, <1>8, <1>9, PopOne

-----------------------------------------------------------------------------
(* The specification.                                                      *)

LEMMA InitOne == OneNode /\ Init_Processes => OneStreamInv
  <1> SUFFICES ASSUME OneNode, Init_Processes PROVE OneStreamInv
    OBVIOUS
  <1>1. /\ events = <<>> /\ Len(events) = 0 /\ writes = <<>> /\ ~adv
        /\ links = [h \in Handles |-> None] /\ subs = [h \in Handles |-> {}]
        /\ ~slaveDev.is_connected /\ slaveDev.conn_handle = 0
        /\ perDevs.status = "CONN_INIT" /\ perDevs.enabled = {}
        /\ perDevs.bdaddr = [i \in Slots |-> None]
    BY DEF Init_Processes, CtrlInit
  <1>2. \A h \in Handles : links[h] \notin Clients
    BY <1>1, PeersAssumption DEF None
  <1>3. LinkStays
    BY <1>1 DEF LinkStays
  <1>4. ServedFirst
    BY <1>1, <1>2 DEF ServedFirst, NoClientYet, ReadStatuses
  <1>5. perDevs.bdaddr[0] \notin Addrs
    BY <1>1, OneSlot, PeersAssumption DEF None
  <1>6. Finds(perDevs)
    BY <1>1, <1>5 DEF Finds
  <1>7. QED
    BY <1>3, <1>4, <1>6 DEF OneStreamInv

LEMMA NextOne ==
  ASSUME OneNode, NodeStays, Supported, IInv, OneStreamInv, [Next]_vars
  PROVE  OneStreamInv'
  <1>1. Typed
    BY DEF IInv
  <1>2. CASE HandleEvent
    <2>1. CASE ProcessEnds
      <3>1. UNCHANGED <<links, events, subs, writes, adv, perDevs, slaveDev>>
        BY <2>1 DEF ProcessEnds, devVars, ctrlVars, linkVars, radioVars
      <3>2. QED
        BY <3>1, QuietOne DEF StaysOut, ClientKept, SlotSame
    <2>2. QED
      BY <1>2, <2>1, ConnectionOne, DisconnectionOne, FoundOne, DataEventOne,
         NotificationOne, ModifiedOne DEF HandleEvent
  <1>3. CASE Connection_Process
    BY <1>3, StartOne, ExploreOne DEF Connection_Process
  <1>4. CASE Reading_Process
    BY <1>4, ReadingOne
  <1>5. CASE Write_Charac_Descriptor
    BY <1>5, WriteOne
  <1>6. CASE Air
    BY <1>6, AirOne
  <1>7. CASE UNCHANGED vars
    <2>1. UNCHANGED <<links, events, subs, writes, adv, perDevs, slaveDev>>
      BY <1>7 DEF vars, devVars, ctrlVars, linkVars, radioVars
    <2>2. QED
      BY <2>1, QuietOne DEF StaysOut, ClientKept, SlotSame
  <1>8. QED
    BY <1>2, <1>3, <1>4, <1>5, <1>6, <1>7 DEF Next, Host

\* At most one of the streams that a client can ask for is enabled, while the
\* node stays and no client asks for its microphone: what the comment of
\* Change_Notification_Status says of the notifications enabled before.
THEOREM OneStreamAtATime ==
  ASSUME OneNode, NodeStays, Supported
  PROVE  Spec => []OneStream
  <1>1. Init_Processes => IInv /\ OneStreamInv
    BY InitIInv, InitOne
  <1>2. IInv /\ OneStreamInv /\ [Next]_vars => (IInv /\ OneStreamInv)'
    BY NextIInv, NextOne
  <1>3. ASSUME OneStreamInv
        PROVE  OneStream
    <2>1. \A s, u \in perDevs.enabled : s = u
      BY <1>3 DEF OneStreamInv, Finds
    <2>2. CASE perDevs.enabled = {}
      BY <2>2, FS_EmptySet DEF OneStream
    <2>3. CASE perDevs.enabled # {}
      <3>1. PICK s : perDevs.enabled = {s}
        BY <2>1, <2>3
      <3>2. Cardinality({s}) = 1
        BY FS_Singleton
      <3>3. QED
        BY <3>1, <3>2 DEF OneStream
    <2>4. QED
      BY <2>2, <2>3
  <1>4. QED
    BY <1>1, <1>2, <1>3, PTL DEF Spec
=============================================================================
