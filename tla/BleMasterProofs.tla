--------------------------- MODULE BleMasterProofs ---------------------------
(***************************************************************************)
(* Proofs about BleMaster with the table of the build, which has one slot, *)
(* and at most one node in range (OneNode); everything else is arbitrary:  *)
(* the clients and what they write, the handles, the type of the node and  *)
(* what it offers, who may be lost, the refusals and the bounds.           *)
(*                                                                         *)
(* The inductive invariant has three parts.  LinkInv follows the events    *)
(* about each handle through the queue: what the application believes of a *)
(* handle, then its queued events in order, end in what the link is.       *)
(* NodeInv is about the slot under construction, AwaitInv about what the   *)
(* statuses wait for.                                                      *)
(***************************************************************************)
EXTENDS BleMaster, SequenceTheorems, FiniteSetTheorems, TLAPS

\* The build's table, and at most one node in range.
OneNode == MaxNumOfNodes = 1 /\ \A a, b \in Addrs : a = b

Procedures == Services \cup {"services", "read", "write"}

Events ==
  [type : {"adv"}, addr : Addrs]
  \cup [type : {"scan_end"}]
  \cup [type : {"conn"}, handle : Handles, role : {"master", "slave"}]
  \cup [type : {"disconn"}, handle : Handles]
  \cup [type : {"found"}, attrs : SUBSET Attrs, addr : Peers \cup {None}]
  \cup [type : {"proc_end"}, handle : Handles]
  \cup [type : {"notification"}, handle : Handles, char : Streams]
  \cup [type : {"modified"}, cmd : ClientCmds]

Typed ==
  /\ TypeOK /\ events \in Seq(Events)
  /\ gatt \in [Handles -> Procedures \cup {None}]

-----------------------------------------------------------------------------
(* The links and the events about them.                                    *)

SlotHolds(h) == ~perDevs.is_disconnected[0] /\ perDevs.connection_handle[0] = h
ClientHolds(h) == slaveDev.is_connected /\ slaveDev.conn_handle = h

IsConn(k) == events[k].type = "conn"
IsMaster(k) == IsConn(k) /\ events[k].role = "master"
IsDisconn(k, h) == events[k].type = "disconn" /\ events[k].handle = h

PeerOf(role) == IF role = "master" THEN Addrs ELSE Clients

\* A connection that is announced is there, or its end is announced too.
ConnsLinked ==
  \A k \in 1..Len(events) : IsConn(k) =>
    \/ links[events[k].handle] \in PeerOf(events[k].role)
    \/ \E j \in k+1..Len(events) : IsDisconn(j, events[k].handle)

\* A handle is given again only after the end of the connection it was for.
HandlesAlternate ==
  \A k, m \in 1..Len(events) :
    IsConn(k) /\ IsConn(m) /\ k < m /\ events[k].handle = events[m].handle
      => \E j \in k+1..m-1 : IsDisconn(j, events[k].handle)

\* What the application takes for a link ends before its handle is given again.
HeldHandlesEnd ==
  \A k \in 1..Len(events) :
    IsConn(k) /\ (SlotHolds(events[k].handle) \/ ClientHolds(events[k].handle))
      => \E j \in 1..k-1 : IsDisconn(j, events[k].handle)

\* The node is linked again only after the end of its link.
NodeAlternates ==
  \A k, m \in 1..Len(events) : IsMaster(k) /\ IsMaster(m) /\ k < m
    => \E j \in k+1..m-1 : IsDisconn(j, events[k].handle)

NodeEnds ==
  \A k \in 1..Len(events) : IsMaster(k) /\ ~perDevs.is_disconnected[0]
    => \E j \in 1..k-1 : IsDisconn(j, perDevs.connection_handle[0])

SlotLinked ==
  ~perDevs.is_disconnected[0] =>
    /\ perDevs.connection_handle[0] \in Handles /\ perDevs.bdaddr[0] \in Addrs
    /\ \/ links[perDevs.connection_handle[0]] \in Addrs
       \/ QueuedOf("disconn", perDevs.connection_handle[0])

ClientLinked ==
  slaveDev.is_connected =>
    /\ slaveDev.conn_handle \in Handles
    /\ \/ links[slaveDev.conn_handle] \in Clients
       \/ QueuedOf("disconn", slaveDev.conn_handle)
    /\ ~SlotHolds(slaveDev.conn_handle)

GapFree == gap \in Addrs => \A h \in Handles : links[h] # gap

LinkInv == /\ ConnsLinked /\ HandlesAlternate /\ NodeAlternates
           /\ HeldHandlesEnd /\ NodeEnds
           /\ SlotLinked /\ ClientLinked /\ GapFree

-----------------------------------------------------------------------------
(* The node in the slot.                                                   *)

Chain == Discovering \ {"DEVICE_FOUND", "START_DEVICE_CONNECTION"}

Counted == /\ perDevs.connDevices = IF perDevs.is_connected[0] THEN 1 ELSE 0
           /\ perDevs.is_connected[0] => ~perDevs.is_disconnected[0]

Fresh ==
  perDevs.status \in Discovering \/ Connecting \/ perDevs.device_found =>
    /\ perDevs.connDeviceIdx = 0 /\ ~perDevs.is_connected[0]
    /\ perDevs.bdaddr[0] \in Addrs

FoundBefore == perDevs.status \in Chain => ~perDevs.device_found

ConnectingInPass ==
  at > 0 /\ ~perDevs.is_disconnected[0] /\ Connecting
    => perDevs.status = "START_DEVICE_CONNECTION"

NodeInv == Counted /\ Fresh /\ FoundBefore /\ ConnectingInPass

-----------------------------------------------------------------------------
(* What is waited for.                                                     *)

FoundInScan ==
  \A k \in 1..Len(events) : events[k].type = "adv" =>
    gap = "scan" \/ \E j \in k+1..Len(events) : events[j].type = "scan_end"

ScanAwaited == perDevs.status \in Scanning => gap = "scan" \/ Queued("scan_end")

ConnectionAwaited == perDevs.status = "START_DEVICE_CONNECTION" => Connecting

ProcedureAwaited ==
  perDevs.status \in Exploring =>
    /\ ~perDevs.is_disconnected[0]
    /\ \/ Queued("proc_end")
       \/ QueuedOf("disconn", perDevs.connection_handle[0])
       \/ gatt[perDevs.connection_handle[0]] # None

AwaitInv == FoundInScan /\ ScanAwaited /\ ConnectionAwaited /\ ProcedureAwaited

IInv == Typed /\ LinkInv /\ NodeInv /\ AwaitInv

-----------------------------------------------------------------------------
(* The queue.                                                              *)

LEMMA EventsTyped ==
  ASSUME Typed
  PROVE  /\ Len(events) \in Nat /\ DOMAIN events = 1..Len(events)
         /\ \A k \in 1..Len(events) :
              /\ events[k] \in Events
              /\ events[k].type \in {"conn", "disconn"} => events[k].handle \in Handles
              /\ events[k].type = "conn" => events[k].role \in {"master", "slave"}
              /\ events[k].type = "adv" => events[k].addr \in Addrs
              /\ events[k].type = "found" => events[k].addr \in Peers \cup {None}
              /\ events[k].type = "modified" => events[k].cmd \in ClientCmds
  <1>1. Len(events) \in Nat /\ DOMAIN events = 1..Len(events)
    BY LenProperties DEF Typed
  <1>2. \A k \in 1..Len(events) : events[k] \in Events
    BY <1>1, ElementOfSeq DEF Typed
  <1>3. ASSUME NEW e \in Events
        PROVE  /\ e.type \in {"conn", "disconn"} => e.handle \in Handles
               /\ e.type = "conn" => e.role \in {"master", "slave"}
               /\ e.type = "adv" => e.addr \in Addrs
               /\ e.type = "found" => e.addr \in Peers \cup {None}
               /\ e.type = "modified" => e.cmd \in ClientCmds
    BY <1>3 DEF Events
  <1>4. QED
    BY <1>1, <1>2, <1>3

\* Taking the head off moves every other event one place forward.
LEMMA Popped ==
  ASSUME Typed, events # <<>>, events' = Tail(events)
  PROVE  /\ events' \in Seq(Events) /\ Len(events) \in Nat /\ Len(events) >= 1
         /\ Len(events') = Len(events) - 1 /\ DOMAIN events' = 1..Len(events')
         /\ \A k \in 1..Len(events') : events'[k] = events[k + 1]
         /\ Head(events) = events[1]
  <1>1. events \in Seq(Events)
    BY DEF Typed
  <1>2. /\ events' \in Seq(Events) /\ Len(events') = Len(events) - 1
        /\ Head(events) = events[1]
    BY <1>1, HeadTailProperties
  <1>3. Len(events) \in Nat /\ Len(events) >= 1
    BY <1>1, EmptySeq, LenProperties
  <1>4. DOMAIN events' = 1..Len(events')
    BY <1>2, LenProperties
  <1>5. \A k \in 1..Len(events') : events'[k] = events[k + 1]
    BY <1>1, <1>2, <1>3
  <1>6. QED
    BY <1>2, <1>3, <1>4, <1>5

\* What is posted comes after everything that was queued.
LEMMA Posted ==
  ASSUME Typed, NEW es \in Seq(Events), Post(es)
  PROVE  /\ events' \in Seq(Events) /\ Len(events) \in Nat
         /\ Len(events') = Len(events) + Len(es) /\ Len(events') <= EventsMax
         /\ DOMAIN events' = 1..Len(events')
         /\ \A k \in 1..Len(events) : events'[k] = events[k]
         /\ \A k \in 1..Len(es) : events'[Len(events) + k] = es[k]
  <1>1. events \in Seq(Events)
    BY DEF Typed
  <1>2. Len(events) \in Nat /\ Len(es) \in Nat
    BY <1>1, LenProperties
  <1>3. events' = events \o es /\ Len(events) + Len(es) <= EventsMax
    BY DEF Post
  <1>4. /\ events' \in Seq(Events) /\ Len(events') = Len(events) + Len(es)
    BY <1>1, <1>3, ConcatProperties
  <1>5. \A i \in 1..Len(events') :
          events'[i] = IF i <= Len(events) THEN events[i] ELSE es[i - Len(events)]
    BY <1>1, <1>3, <1>4, ConcatProperties
  <1>6. DOMAIN events' = 1..Len(events')
    BY <1>4, LenProperties
  <1>7. QED
    BY <1>2, <1>3, <1>4, <1>5, <1>6

-----------------------------------------------------------------------------
(* LinkInv, step by step.                                                  *)

SlotKept == /\ perDevs'.is_disconnected = perDevs.is_disconnected
            /\ perDevs'.connection_handle = perDevs.connection_handle
            /\ ~perDevs.is_disconnected[0] => perDevs'.bdaddr = perDevs.bdaddr

ClientKept == /\ slaveDev'.is_connected = slaveDev.is_connected
              /\ slaveDev'.conn_handle = slaveDev.conn_handle

\* A step of the host that handles no event, and changes none of this.
LEMMA PassKeepsLinks ==
  ASSUME LinkInv, UNCHANGED <<links, events>>, SlotKept, ClientKept,
         gap' \in Addrs => \A h \in Handles : links[h] # gap'
  PROVE  LinkInv'
  <1> USE DEF SlotKept, ClientKept, IsConn, IsMaster, IsDisconn, SlotHolds, ClientHolds
  <1>1. ConnsLinked' /\ HandlesAlternate'
    BY DEF LinkInv, ConnsLinked, HandlesAlternate, PeerOf
  <1>2. HeldHandlesEnd' /\ NodeEnds' /\ NodeAlternates'
    BY DEF LinkInv, HeldHandlesEnd, NodeEnds, NodeAlternates
  <1>3. SlotLinked' /\ ClientLinked'
    BY DEF LinkInv, SlotLinked, ClientLinked, QueuedOf
  <1>4. GapFree'
    BY DEF GapFree
  <1>5. QED
    BY <1>1, <1>2, <1>3, <1>4 DEF LinkInv

\* Handling an event moves the others forward and leaves their order as it is.
LEMMA PopShifts ==
  ASSUME Typed, events # <<>>, events' = Tail(events)
  PROVE  /\ Len(events) \in Nat /\ Len(events) >= 1 /\ Len(events') = Len(events) - 1
         /\ \A k \in 1..Len(events') : k + 1 \in 2..Len(events) /\ events'[k] = events[k + 1]
         /\ \A k \in 2..Len(events) : k - 1 \in 1..Len(events') /\ (k - 1) + 1 = k
         /\ \A k \in 1..Len(events') :
              /\ IsConn(k)' <=> IsConn(k + 1)
              /\ IsMaster(k)' <=> IsMaster(k + 1)
              /\ \A h : IsDisconn(k, h)' <=> IsDisconn(k + 1, h)
  <1>1. /\ Len(events) \in Nat /\ Len(events) >= 1 /\ Len(events') = Len(events) - 1
        /\ \A k \in 1..Len(events') : events'[k] = events[k + 1]
    BY Popped
  <1>2. QED
    BY <1>1 DEF IsConn, IsMaster, IsDisconn

LEMMA PopKeepsOrder ==
  ASSUME Typed, LinkInv, events # <<>>, events' = Tail(events), UNCHANGED <<links, gap>>
  PROVE  ConnsLinked' /\ HandlesAlternate' /\ NodeAlternates' /\ GapFree'
  <1>1. ConnsLinked'
    <2> SUFFICES ASSUME NEW k \in 1..Len(events'), IsConn(k)',
                        ~(links[events[k].handle] \in PeerOf(events[k].role))'
                 PROVE  \E j \in k+1..Len(events') : IsDisconn(j, events[k].handle)'
      BY DEF ConnsLinked
    <2>1. PICK j \in k+2..Len(events) : IsDisconn(j, events[k + 1].handle)
      BY PopShifts DEF LinkInv, ConnsLinked, PeerOf
    <2>2. /\ j - 1 \in k+1..Len(events') /\ j - 1 \in 1..Len(events')
          /\ (j - 1) + 1 = j
      BY PopShifts, <2>1
    <2>3. IsDisconn(j - 1, events[k].handle)'
      BY PopShifts, <2>1, <2>2
    <2>4. QED
      BY <2>2, <2>3
  <1>2. HandlesAlternate'
    <2> SUFFICES ASSUME NEW k \in 1..Len(events'), NEW m \in 1..Len(events'), k < m,
                        IsConn(k)', IsConn(m)', (events[k].handle = events[m].handle)'
                 PROVE  \E j \in k+1..m-1 : IsDisconn(j, events[k].handle)'
      BY DEF HandlesAlternate
    <2>1. PICK j \in k+2..m : IsDisconn(j, events[k + 1].handle)
      BY PopShifts DEF LinkInv, HandlesAlternate
    <2>2. j - 1 \in k+1..m-1 /\ j - 1 \in 1..Len(events') /\ (j - 1) + 1 = j
      BY PopShifts, <2>1
    <2>3. QED
      BY PopShifts, <2>1, <2>2
  <1>3. NodeAlternates'
    <2> SUFFICES ASSUME NEW k \in 1..Len(events'), NEW m \in 1..Len(events'), k < m,
                        IsMaster(k)', IsMaster(m)'
                 PROVE  \E j \in k+1..m-1 : IsDisconn(j, events[k].handle)'
      BY DEF NodeAlternates
    <2>1. PICK j \in k+2..m : IsDisconn(j, events[k + 1].handle)
      BY PopShifts DEF LinkInv, NodeAlternates
    <2>2. j - 1 \in k+1..m-1 /\ j - 1 \in 1..Len(events') /\ (j - 1) + 1 = j
      BY PopShifts, <2>1
    <2>3. QED
      BY PopShifts, <2>1, <2>2
  <1>4. GapFree'
    BY DEF LinkInv, GapFree
  <1>5. QED
    BY <1>1, <1>2, <1>3, <1>4

\* The end of a link that is still queued.
LEMMA PopKeepsEnds ==
  ASSUME Typed, events # <<>>, events' = Tail(events),
         NEW h, ~IsDisconn(1, h)
  PROVE  /\ QueuedOf("disconn", h) => QueuedOf("disconn", h)'
         /\ \A k \in 1..Len(events') : (\E j \in 1..k : IsDisconn(j, h))
              => \E j \in 1..k-1 : IsDisconn(j, h)'
  <1>1. DOMAIN events = 1..Len(events) /\ DOMAIN events' = 1..Len(events')
    BY Popped, EventsTyped
  <1>2. ASSUME QueuedOf("disconn", h)
        PROVE  QueuedOf("disconn", h)'
    <2>1. PICK j \in 1..Len(events) : events[j].type = "disconn" /\ events[j].handle = h
      BY <1>1, <1>2 DEF QueuedOf
    <2>2. j \in 2..Len(events)
      BY <2>1, PopShifts DEF IsDisconn
    <2>3. j - 1 \in 1..Len(events') /\ events'[j - 1] = events[j]
      BY PopShifts, <2>2
    <2>4. QED
      BY <1>1, <2>1, <2>3 DEF QueuedOf
  <1>3. ASSUME NEW k \in 1..Len(events'), NEW j \in 1..k, IsDisconn(j, h)
        PROVE  \E i \in 1..k-1 : IsDisconn(i, h)'
    <2>1. j - 1 \in 1..k-1 /\ j - 1 \in 1..Len(events') /\ (j - 1) + 1 = j
      BY PopShifts, <1>3
    <2>2. QED
      BY PopShifts, <1>3, <2>1
  <1>4. QED
    BY <1>2, <1>3

\* An event that is not about a link.
LEMMA PopKeepsLinks ==
  ASSUME Typed, LinkInv, events # <<>>, events' = Tail(events),
         events[1].type # "disconn", UNCHANGED <<links, gap>>, SlotKept, ClientKept
  PROVE  LinkInv'
  <1>1. \A h : ~IsDisconn(1, h)
    BY DEF IsDisconn
  <1>2. HeldHandlesEnd'
    <2> SUFFICES ASSUME NEW k \in 1..Len(events'), IsConn(k)',
                        (SlotHolds(events[k].handle) \/ ClientHolds(events[k].handle))'
                 PROVE  \E j \in 1..k-1 : IsDisconn(j, events[k].handle)'
      BY DEF HeldHandlesEnd
    <2>1. SlotHolds(events[k + 1].handle) \/ ClientHolds(events[k + 1].handle)
      BY PopShifts DEF SlotHolds, ClientHolds, SlotKept, ClientKept
    <2>2. \E j \in 1..k : IsDisconn(j, events[k + 1].handle)
      BY PopShifts, <2>1 DEF LinkInv, HeldHandlesEnd
    <2>3. QED
      BY PopShifts, PopKeepsEnds, <1>1, <2>2
  <1>3. NodeEnds'
    <2> SUFFICES ASSUME NEW k \in 1..Len(events'), IsMaster(k)', ~perDevs'.is_disconnected[0]
                 PROVE  \E j \in 1..k-1 : IsDisconn(j, perDevs.connection_handle[0])'
      BY DEF NodeEnds
    <2>1. \E j \in 1..k : IsDisconn(j, perDevs.connection_handle[0])
      BY PopShifts DEF LinkInv, NodeEnds, SlotKept
    <2>2. QED
      BY PopKeepsEnds, <1>1, <2>1 DEF SlotKept
  <1>4. \A h : QueuedOf("disconn", h) => QueuedOf("disconn", h)'
    BY PopKeepsEnds, <1>1
  <1>5. SlotLinked' /\ ClientLinked'
    BY <1>4 DEF LinkInv, SlotLinked, ClientLinked, SlotHolds, SlotKept, ClientKept
  <1>6. QED
    BY <1>2, <1>3, <1>5, PopKeepsOrder DEF LinkInv

\* A node is linked: the slot was vacant, and no client has this handle.
LEMMA MasterLinks ==
  ASSUME Typed, LinkInv, events # <<>>, events' = Tail(events), IsMaster(1),
         UNCHANGED <<links, gap>>, ClientKept,
         ~perDevs'.is_disconnected[0], perDevs'.bdaddr[0] \in Addrs,
         perDevs'.connection_handle[0] = events[1].handle
  PROVE  LinkInv'
  <1> DEFINE h1 == events[1].handle
  <1>1. /\ 1 \in 1..Len(events) /\ IsConn(1) /\ h1 \in Handles
        /\ events[1].role = "master" /\ \A h : ~IsDisconn(1, h)
    BY PopShifts, EventsTyped DEF IsMaster, IsConn, IsDisconn
  <1>2. HeldHandlesEnd'
    <2> SUFFICES ASSUME NEW k \in 1..Len(events'), IsConn(k)',
                        (SlotHolds(events[k].handle) \/ ClientHolds(events[k].handle))'
                 PROVE  \E j \in 1..k-1 : IsDisconn(j, events[k].handle)'
      BY DEF HeldHandlesEnd
    <2>1. /\ k + 1 \in 1..Len(events) /\ 1 < k + 1 /\ IsConn(k + 1)
          /\ events'[k] = events[k + 1]
      BY PopShifts
    <2>2. \E j \in 1..k : IsDisconn(j, events[k + 1].handle)
      <3>1. CASE SlotHolds(events[k].handle)'
        <4>1. events[k + 1].handle = h1
          BY <2>1, <3>1 DEF SlotHolds
        <4>2. \E j \in 2..k : IsDisconn(j, h1)
          BY <1>1, <2>1, <4>1 DEF LinkInv, HandlesAlternate
        <4>3. QED
          BY <4>1, <4>2
      <3>2. CASE ClientHolds(events[k].handle)'
        BY <2>1, <3>2 DEF LinkInv, HeldHandlesEnd, ClientHolds, ClientKept
      <3>3. QED
        BY <3>1, <3>2
    <2>3. QED
      BY PopKeepsEnds, <1>1, <2>1, <2>2
  <1>3. NodeEnds'
    <2> SUFFICES ASSUME NEW k \in 1..Len(events'), IsMaster(k)'
                 PROVE  \E j \in 1..k-1 : IsDisconn(j, perDevs.connection_handle[0])'
      BY DEF NodeEnds
    <2>1. k + 1 \in 1..Len(events) /\ 1 < k + 1 /\ IsMaster(k + 1)
      BY PopShifts
    <2>2. \E j \in 1..k : IsDisconn(j, h1)
      BY <1>1, <2>1 DEF LinkInv, NodeAlternates
    <2>3. QED
      BY PopKeepsEnds, <1>1, <2>2
  <1>4. \A h : QueuedOf("disconn", h) => QueuedOf("disconn", h)'
    BY PopKeepsEnds, <1>1
  <1>5. SlotLinked'
    <2>1. links[h1] \in Addrs \/ \E j \in 2..Len(events) : IsDisconn(j, h1)
      BY <1>1 DEF LinkInv, ConnsLinked, PeerOf
    <2>2. links[h1] \in Addrs \/ QueuedOf("disconn", h1)
      BY <2>1, EventsTyped, PopShifts DEF QueuedOf, IsDisconn
    <2>3. QED
      BY <1>1, <1>4, <2>2 DEF SlotLinked
  <1>6. ClientLinked'
    <2>1. ~ClientHolds(h1)
      BY <1>1 DEF LinkInv, HeldHandlesEnd
    <2>2. QED
      BY <1>4, <2>1 DEF LinkInv, ClientLinked, ClientHolds, SlotHolds, ClientKept
  <1>7. QED
    BY <1>2, <1>3, <1>5, <1>6, PopKeepsOrder DEF LinkInv

\* A client is linked: the slot does not stand for this handle.
LEMMA SlaveLinks ==
  ASSUME Typed, LinkInv, events # <<>>, events' = Tail(events), IsConn(1), ~IsMaster(1),
         UNCHANGED <<links, gap>>, SlotKept, slaveDev'.conn_handle = events[1].handle
  PROVE  LinkInv'
  <1> DEFINE h1 == events[1].handle
  <1>1. /\ 1 \in 1..Len(events) /\ h1 \in Handles /\ events[1].role = "slave"
        /\ \A h : ~IsDisconn(1, h)
    BY PopShifts, EventsTyped DEF IsMaster, IsConn, IsDisconn
  <1>2. HeldHandlesEnd'
    <2> SUFFICES ASSUME NEW k \in 1..Len(events'), IsConn(k)',
                        (SlotHolds(events[k].handle) \/ ClientHolds(events[k].handle))'
                 PROVE  \E j \in 1..k-1 : IsDisconn(j, events[k].handle)'
      BY DEF HeldHandlesEnd
    <2>1. /\ k + 1 \in 1..Len(events) /\ 1 < k + 1 /\ IsConn(k + 1)
          /\ events'[k] = events[k + 1]
      BY PopShifts
    <2>2. \E j \in 1..k : IsDisconn(j, events[k + 1].handle)
      <3>1. CASE ClientHolds(events[k].handle)'
        <4>1. events[k + 1].handle = h1
          BY <2>1, <3>1 DEF ClientHolds
        <4>2. \E j \in 2..k : IsDisconn(j, h1)
          BY <1>1, <2>1, <4>1 DEF LinkInv, HandlesAlternate
        <4>3. QED
          BY <4>1, <4>2
      <3>2. CASE SlotHolds(events[k].handle)'
        BY <2>1, <3>2 DEF LinkInv, HeldHandlesEnd, SlotHolds, SlotKept
      <3>3. QED
        BY <3>1, <3>2
    <2>3. QED
      BY PopKeepsEnds, <1>1, <2>1, <2>2
  <1>3. NodeEnds'
    <2> SUFFICES ASSUME NEW k \in 1..Len(events'), IsMaster(k)', ~perDevs'.is_disconnected[0]
                 PROVE  \E j \in 1..k-1 : IsDisconn(j, perDevs.connection_handle[0])'
      BY DEF NodeEnds
    <2>1. \E j \in 1..k : IsDisconn(j, perDevs.connection_handle[0])
      BY PopShifts DEF LinkInv, NodeEnds, SlotKept
    <2>2. QED
      BY PopKeepsEnds, <1>1, <2>1 DEF SlotKept
  <1>4. \A h : QueuedOf("disconn", h) => QueuedOf("disconn", h)'
    BY PopKeepsEnds, <1>1
  <1>5. SlotLinked'
    BY <1>4 DEF LinkInv, SlotLinked, SlotKept
  <1>6. ClientLinked'
    <2>1. links[h1] \in Clients \/ \E j \in 2..Len(events) : IsDisconn(j, h1)
      BY <1>1 DEF LinkInv, ConnsLinked, PeerOf
    <2>2. links[h1] \in Clients \/ QueuedOf("disconn", h1)
      BY <2>1, EventsTyped, PopShifts DEF QueuedOf, IsDisconn
    <2>3. ~SlotHolds(h1)
      BY <1>1 DEF LinkInv, HeldHandlesEnd
    <2>4. QED
      BY <1>1, <1>4, <2>2, <2>3 DEF ClientLinked, SlotHolds, SlotKept
  <1>7. QED
    BY <1>2, <1>3, <1>5, <1>6, PopKeepsOrder DEF LinkInv

\* A link has ended: neither the slot nor the client stands for it any more.
LEMMA DisconnectionLinks ==
  ASSUME Typed, LinkInv, events # <<>>, events' = Tail(events),
         UNCHANGED <<links, gap>>,
         perDevs'.connection_handle = perDevs.connection_handle,
         perDevs'.bdaddr = perDevs.bdaddr,
         ~perDevs'.is_disconnected[0] =>
           ~perDevs.is_disconnected[0] /\ ~IsDisconn(1, perDevs.connection_handle[0]),
         slaveDev'.is_connected =>
           /\ slaveDev.is_connected /\ slaveDev'.conn_handle = slaveDev.conn_handle
           /\ ~IsDisconn(1, slaveDev.conn_handle)
  PROVE  LinkInv'
  <1>1. HeldHandlesEnd'
    <2> SUFFICES ASSUME NEW k \in 1..Len(events'), IsConn(k)',
                        (SlotHolds(events[k].handle) \/ ClientHolds(events[k].handle))'
                 PROVE  \E j \in 1..k-1 : IsDisconn(j, events[k].handle)'
      BY DEF HeldHandlesEnd
    <2>1. /\ k + 1 \in 1..Len(events) /\ IsConn(k + 1)
          /\ events'[k] = events[k + 1]
      BY PopShifts
    <2>2. /\ SlotHolds(events[k + 1].handle) \/ ClientHolds(events[k + 1].handle)
          /\ ~IsDisconn(1, events[k + 1].handle)
      BY <2>1 DEF SlotHolds, ClientHolds
    <2>3. \E j \in 1..k : IsDisconn(j, events[k + 1].handle)
      BY <2>1, <2>2 DEF LinkInv, HeldHandlesEnd
    <2>4. QED
      BY PopKeepsEnds, <2>1, <2>2, <2>3
  <1>2. NodeEnds'
    <2> SUFFICES ASSUME NEW k \in 1..Len(events'), IsMaster(k)', ~perDevs'.is_disconnected[0]
                 PROVE  \E j \in 1..k-1 : IsDisconn(j, perDevs.connection_handle[0])'
      BY DEF NodeEnds
    <2>1. \E j \in 1..k : IsDisconn(j, perDevs.connection_handle[0])
      BY PopShifts DEF LinkInv, NodeEnds
    <2>2. QED
      BY PopKeepsEnds, <2>1
  <1>3. SlotLinked'
    BY PopKeepsEnds DEF LinkInv, SlotLinked
  <1>4. ClientLinked'
    BY PopKeepsEnds DEF LinkInv, ClientLinked, SlotHolds
  <1>5. QED
    BY <1>1, <1>2, <1>3, <1>4, PopKeepsOrder DEF LinkInv

\* An event is posted: the others stay where they are.
LEMMA PostKeepsQueue ==
  ASSUME Typed, NEW es \in Seq(Events), Post(es)
  PROVE  /\ Len(events) \in Nat /\ Len(es) \in Nat /\ Len(events') = Len(events) + Len(es)
         /\ 1..Len(events) \subseteq 1..Len(events')
         /\ \A k \in 1..Len(events) :
              /\ events'[k] = events[k]
              /\ IsConn(k)' <=> IsConn(k)
              /\ IsMaster(k)' <=> IsMaster(k)
              /\ \A h : IsDisconn(k, h)' <=> IsDisconn(k, h)
         /\ \A type : Queued(type) => Queued(type)'
         /\ \A type, h : QueuedOf(type, h) => QueuedOf(type, h)'
         /\ \A k \in 1..Len(es) :
              Len(events) + k \in 1..Len(events') /\ events'[Len(events) + k] = es[k]
         /\ \A k \in 1..Len(events') : k \notin 1..Len(events) =>
              k - Len(events) \in 1..Len(es) /\ events'[k] = es[k - Len(events)]
  <1>1. /\ Len(events) \in Nat /\ Len(es) \in Nat /\ Len(events') = Len(events) + Len(es)
        /\ \A k \in 1..Len(events) : events'[k] = events[k]
        /\ \A k \in 1..Len(es) : events'[Len(events) + k] = es[k]
        /\ DOMAIN events = 1..Len(events) /\ DOMAIN events' = 1..Len(events')
    BY Posted, EventsTyped, LenProperties
  <1>2. 1..Len(events) \subseteq 1..Len(events')
    BY <1>1
  <1>3. \A k \in 1..Len(events) :
          /\ IsConn(k)' <=> IsConn(k)
          /\ IsMaster(k)' <=> IsMaster(k)
          /\ \A h : IsDisconn(k, h)' <=> IsDisconn(k, h)
    BY <1>1 DEF IsConn, IsMaster, IsDisconn
  <1>4. \A type : Queued(type) => Queued(type)'
    BY <1>1, <1>2 DEF Queued
  <1>5. \A type, h : QueuedOf(type, h) => QueuedOf(type, h)'
    BY <1>1, <1>2 DEF QueuedOf
  <1>6. \A k \in 1..Len(es) : Len(events) + k \in 1..Len(events')
    BY <1>1
  <1>7. ASSUME NEW k \in 1..Len(events'), k \notin 1..Len(events)
        PROVE  k - Len(events) \in 1..Len(es) /\ events'[k] = es[k - Len(events)]
    <2>1. k - Len(events) \in 1..Len(es) /\ Len(events) + (k - Len(events)) = k
      BY <1>1, <1>7
    <2>2. QED
      BY <1>1, <2>1
  <1>8. QED
    BY <1>1, <1>2, <1>3, <1>4, <1>5, <1>6, <1>7

\* What is queued of a handle or of the node, whatever comes behind it.
LEMMA PostKeepsOrder ==
  ASSUME Typed, LinkInv, NEW es \in Seq(Events), Post(es), SlotKept, ClientKept
  PROVE  /\ \A k, m \in 1..Len(events) :
              /\ IsConn(k)' /\ IsConn(m)' /\ k < m /\ (events[k].handle = events[m].handle)'
                   => \E j \in k+1..m-1 : IsDisconn(j, events[k].handle)'
              /\ IsMaster(k)' /\ IsMaster(m)' /\ k < m
                   => \E j \in k+1..m-1 : IsDisconn(j, events[k].handle)'
         /\ \A k \in 1..Len(events) :
              /\ IsConn(k)' /\ (SlotHolds(events[k].handle) \/ ClientHolds(events[k].handle))'
                   => \E j \in 1..k-1 : IsDisconn(j, events[k].handle)'
              /\ IsMaster(k)' /\ ~perDevs'.is_disconnected[0]
                   => \E j \in 1..k-1 : IsDisconn(j, perDevs.connection_handle[0])'
  <1>1. Len(events) \in Nat
    BY PostKeepsQueue
  <1>2. ASSUME NEW k \in 1..Len(events), NEW m \in 1..Len(events), k < m,
               IsConn(k)', IsConn(m)', (events[k].handle = events[m].handle)'
        PROVE  \E j \in k+1..m-1 : IsDisconn(j, events[k].handle)'
    <2>1. PICK j \in k+1..m-1 : IsDisconn(j, events[k].handle)
      BY <1>2, PostKeepsQueue DEF LinkInv, HandlesAlternate
    <2>2. j \in 1..Len(events)
      BY <1>1, <2>1
    <2>3. QED
      BY <2>1, <2>2, PostKeepsQueue
  <1>3. ASSUME NEW k \in 1..Len(events), NEW m \in 1..Len(events), k < m,
               IsMaster(k)', IsMaster(m)'
        PROVE  \E j \in k+1..m-1 : IsDisconn(j, events[k].handle)'
    <2>1. PICK j \in k+1..m-1 : IsDisconn(j, events[k].handle)
      BY <1>3, PostKeepsQueue DEF LinkInv, NodeAlternates
    <2>2. j \in 1..Len(events)
      BY <1>1, <2>1
    <2>3. QED
      BY <2>1, <2>2, PostKeepsQueue
  <1>4. ASSUME NEW k \in 1..Len(events), IsConn(k)',
               (SlotHolds(events[k].handle) \/ ClientHolds(events[k].handle))'
        PROVE  \E j \in 1..k-1 : IsDisconn(j, events[k].handle)'
    <2>1. SlotHolds(events[k].handle) \/ ClientHolds(events[k].handle)
      BY <1>4, PostKeepsQueue DEF SlotHolds, ClientHolds, SlotKept, ClientKept
    <2>2. PICK j \in 1..k-1 : IsDisconn(j, events[k].handle)
      BY <1>4, <2>1, PostKeepsQueue DEF LinkInv, HeldHandlesEnd
    <2>3. j \in 1..Len(events)
      BY <1>1, <2>2
    <2>4. QED
      BY <2>2, <2>3, PostKeepsQueue
  <1>5. ASSUME NEW k \in 1..Len(events), IsMaster(k)', ~perDevs'.is_disconnected[0]
        PROVE  \E j \in 1..k-1 : IsDisconn(j, perDevs.connection_handle[0])'
    <2>1. PICK j \in 1..k-1 : IsDisconn(j, perDevs.connection_handle[0])
      BY <1>5, PostKeepsQueue DEF LinkInv, NodeEnds, SlotKept
    <2>2. j \in 1..Len(events)
      BY <1>1, <2>1
    <2>3. QED
      BY <2>1, <2>2, PostKeepsQueue DEF SlotKept
  <1>6. QED
    BY <1>2, <1>3, <1>4, <1>5

\* No link is made; one may be lost, and then that is what is posted.
LEMMA PostKeepsLinks ==
  ASSUME Typed, LinkInv, NEW es \in Seq(Events), Post(es), SlotKept, ClientKept,
         \A k \in 1..Len(es) : es[k].type # "conn",
         gap' \in Addrs => gap' = gap,
         \A h \in Handles :
           \/ links'[h] = links[h]
           \/ links'[h] = None /\ \E k \in 1..Len(es) : es[k].type = "disconn" /\ es[k].handle = h
  PROVE  LinkInv'
  <1>1. /\ Len(events) \in Nat
        /\ \A k \in 1..Len(events') : IsConn(k)' => k \in 1..Len(events)
    BY PostKeepsQueue DEF IsConn
  <1>2. \A k \in 1..Len(events') : IsMaster(k)' => k \in 1..Len(events)
    BY <1>1 DEF IsMaster
  <1>3. HandlesAlternate' /\ NodeAlternates' /\ HeldHandlesEnd' /\ NodeEnds'
    BY <1>1, <1>2, PostKeepsOrder
       DEF HandlesAlternate, NodeAlternates, HeldHandlesEnd, NodeEnds
  <1>4. \A h \in Handles : links'[h] = links[h] \/
          \E j \in 1..Len(events') : Len(events) < j /\ IsDisconn(j, h)'
    <2> SUFFICES ASSUME NEW h \in Handles, links'[h] # links[h]
                 PROVE  \E j \in 1..Len(events') : Len(events) < j /\ IsDisconn(j, h)'
      OBVIOUS
    <2>1. PICK k \in 1..Len(es) : es[k].type = "disconn" /\ es[k].handle = h
      OBVIOUS
    <2>2. PICK j \in 1..Len(events') : Len(events) < j /\ events'[j] = es[k]
      BY <1>1, PostKeepsQueue
    <2>3. IsDisconn(j, h)'
      BY <2>1, <2>2 DEF IsDisconn
    <2>4. QED
      BY <2>2, <2>3
  <1>5. ConnsLinked'
    <2> SUFFICES ASSUME NEW k \in 1..Len(events'), IsConn(k)',
                        ~(links[events[k].handle] \in PeerOf(events[k].role))'
                 PROVE  \E j \in k+1..Len(events') : IsDisconn(j, events[k].handle)'
      BY DEF ConnsLinked
    <2>1. k \in 1..Len(events) /\ IsConn(k) /\ events'[k] = events[k]
      BY <1>1, PostKeepsQueue
    <2>2. events[k].handle \in Handles
      BY <2>1, EventsTyped DEF IsConn
    <2>3. CASE links'[events[k].handle] = links[events[k].handle]
      <3>1. PICK j \in k+1..Len(events) : IsDisconn(j, events[k].handle)
        BY <2>1, <2>3 DEF LinkInv, ConnsLinked, PeerOf
      <3>2. j \in 1..Len(events) /\ j \in k+1..Len(events')
        BY <1>1, <3>1, PostKeepsQueue
      <3>3. IsDisconn(j, events[k].handle)'
        BY <2>1, <3>1, <3>2, PostKeepsQueue
      <3>4. QED
        BY <3>2, <3>3
    <2>4. CASE links'[events[k].handle] # links[events[k].handle]
      <3>1. PICK j \in 1..Len(events') : Len(events) < j /\ IsDisconn(j, events[k].handle)'
        BY <1>4, <2>1, <2>2, <2>4
      <3>2. j \in k+1..Len(events')
        BY <1>1, <3>1, <2>1, PostKeepsQueue
      <3>3. QED
        BY <3>1, <3>2
    <2>5. QED
      BY <2>3, <2>4
  <1>6. \A h \in Handles : links'[h] = links[h] \/ QueuedOf("disconn", h)'
    <2>1. DOMAIN events' = 1..Len(events')
      BY Posted
    <2>2. QED
      BY <1>4, <2>1 DEF QueuedOf, IsDisconn
  <1>7. SlotLinked' /\ ClientLinked'
    BY <1>6, PostKeepsQueue DEF LinkInv, SlotLinked, ClientLinked, SlotHolds, SlotKept, ClientKept
  <1>8. GapFree'
    BY PeersAssumption DEF LinkInv, GapFree, None
  <1>9. QED
    BY <1>3, <1>5, <1>7, <1>8 DEF LinkInv

\* A link is made: nothing queued or believed of its handle, nor of the node if
\* it is the node's, has not ended.
LEMMA LinkKeepsLinks ==
  ASSUME OneNode, Typed, LinkInv, NEW h \in Handles, NEW role \in {"master", "slave"},
         NEW peer \in PeerOf(role), links[h] = None,
         links' = [links EXCEPT ![h] = peer],
         Post(<<[type |-> "conn", handle |-> h, role |-> role]>>), SlotKept, ClientKept,
         role = "master" => gap' \notin Addrs /\ \A g \in Handles : links[g] # peer,
         role = "slave" => gap' = gap
  PROVE  LinkInv'
  <1> DEFINE conn == [type |-> "conn", handle |-> h, role |-> role]
             es == <<conn>>
  <1>1. conn \in Events
    BY DEF Events
  <1>2. es \in Seq(Events) /\ Len(es) = 1 /\ es[1] = conn
    BY <1>1
  <1>3. Post(es)
    OBVIOUS
  <1>4. PICK n \in Nat : n = Len(events)
    BY <1>2, <1>3, PostKeepsQueue
  <1> HIDE DEF es
  <1>5. /\ Len(events') = n + 1 /\ events'[n + 1] = conn
        /\ \A k \in 1..n+1 : k \in 1..n \/ k = n + 1
        /\ 1..n \subseteq 1..n+1
    <2>1. Len(events') = n + 1
      BY <1>2, <1>3, <1>4, PostKeepsQueue
    <2>2. 1 \in 1..Len(es)
      BY <1>2
    <2>3. events'[n + 1] = conn
      BY <1>2, <1>3, <1>4, <2>2, PostKeepsQueue
    <2>4. QED
      BY <2>1, <2>3
  <1>6. /\ \A k \in 1..n : /\ events'[k] = events[k]
                           /\ IsConn(k)' <=> IsConn(k)
                           /\ IsMaster(k)' <=> IsMaster(k)
                           /\ \A g : IsDisconn(k, g)' <=> IsDisconn(k, g)
        /\ \A g : QueuedOf("disconn", g) => QueuedOf("disconn", g)'
    BY <1>2, <1>3, <1>4, PostKeepsQueue
  <1>7. IsConn(n + 1)' /\ (IsMaster(n + 1)' <=> role = "master")
    BY <1>5 DEF IsConn, IsMaster
  <1>8. /\ links'[h] = peer /\ \A g \in Handles : g # h => links'[g] = links[g]
        /\ links[h] \notin Peers /\ PeerOf(role) \subseteq Peers
        /\ Addrs \cap Clients = {}
    BY PeersAssumption DEF Typed, TypeOK, Peers, PeerOf, None
  <1>9. \A k \in 1..n : IsConn(k) /\ events[k].handle = h =>
          \E j \in k+1..n : IsDisconn(j, h)
    BY <1>4, <1>8 DEF LinkInv, ConnsLinked, PeerOf, Peers
  <1>10. SlotHolds(h) \/ ClientHolds(h) => \E j \in 1..n : IsDisconn(j, h)
    <2>1. SlotHolds(h) \/ ClientHolds(h) => QueuedOf("disconn", h)
      BY <1>8 DEF LinkInv, SlotLinked, ClientLinked, SlotHolds, ClientHolds, Peers
    <2>2. QED
      BY <1>4, <2>1, EventsTyped DEF QueuedOf, IsDisconn
  <1>11. ASSUME role = "master"
         PROVE  /\ \A k \in 1..n : IsMaster(k) =>
                     \E j \in k+1..n : IsDisconn(j, events[k].handle)
                /\ ~perDevs.is_disconnected[0] =>
                     \E j \in 1..n : IsDisconn(j, perDevs.connection_handle[0])
    <2>1. \A g \in Handles : links[g] \notin Addrs
      BY <1>11 DEF OneNode, PeerOf
    <2>2. \A k \in 1..n : IsMaster(k) => events[k].handle \in Handles
      BY <1>4, EventsTyped DEF IsMaster, IsConn
    <2>3. \A k \in 1..n : IsMaster(k) => \E j \in k+1..n : IsDisconn(j, events[k].handle)
      BY <1>4, <2>1, <2>2 DEF LinkInv, ConnsLinked, PeerOf, IsMaster
    <2>4. ~perDevs.is_disconnected[0] => QueuedOf("disconn", perDevs.connection_handle[0])
      BY <2>1 DEF LinkInv, SlotLinked
    <2>5. QED
      BY <1>4, <2>3, <2>4, EventsTyped DEF QueuedOf, IsDisconn
  <1>12. ConnsLinked'
    <2> SUFFICES ASSUME NEW k \in 1..n+1, IsConn(k)',
                        ~(links[events[k].handle] \in PeerOf(events[k].role))'
                 PROVE  \E j \in k+1..n+1 : IsDisconn(j, events[k].handle)'
      BY <1>5 DEF ConnsLinked
    <2>1. k \in 1..n /\ IsConn(k) /\ events'[k] = events[k]
      BY <1>5, <1>6, <1>8 DEF PeerOf
    <2>2. events[k].handle \in Handles
      BY <2>1, <1>4, EventsTyped DEF IsConn
    <2>3. \E j \in k+1..n : IsDisconn(j, events[k].handle)
      <3>1. CASE events[k].handle = h
        BY <2>1, <3>1, <1>9
      <3>2. CASE events[k].handle # h
        BY <2>1, <2>2, <3>2, <1>4, <1>8 DEF LinkInv, ConnsLinked, PeerOf
      <3>3. QED
        BY <3>1, <3>2
    <2>4. PICK j \in k+1..n : IsDisconn(j, events[k].handle)
      BY <2>3
    <2>5. j \in 1..n /\ j \in k+1..n+1
      BY <2>4
    <2>6. IsDisconn(j, events[k].handle)'
      BY <1>6, <2>1, <2>4, <2>5
    <2>7. QED
      BY <2>5, <2>6
  <1>13. HandlesAlternate'
    <2> SUFFICES ASSUME NEW k \in 1..n+1, NEW m \in 1..n+1, k < m,
                        IsConn(k)', IsConn(m)', (events[k].handle = events[m].handle)'
                 PROVE  \E j \in k+1..m-1 : IsDisconn(j, events[k].handle)'
      BY <1>5 DEF HandlesAlternate
    <2>1. CASE m \in 1..n
      <3>1. k \in 1..n
        BY <2>1
      <3>2. QED
        BY <1>2, <1>3, <1>4, <2>1, <3>1, PostKeepsOrder
    <2>2. CASE m = n + 1
      <3>1. k \in 1..n /\ IsConn(k) /\ events'[k] = events[k] /\ events[k].handle = h
        BY <1>5, <1>6, <2>2
      <3>2. PICK j \in k+1..n : IsDisconn(j, h)
        BY <1>9, <3>1
      <3>3. j \in 1..n /\ j \in k+1..m-1
        BY <2>2, <3>2
      <3>4. IsDisconn(j, events[k].handle)'
        BY <1>6, <3>1, <3>2, <3>3
      <3>5. QED
        BY <3>3, <3>4
    <2>3. QED
      BY <1>5, <2>1, <2>2
  <1>14. NodeAlternates'
    <2> SUFFICES ASSUME NEW k \in 1..n+1, NEW m \in 1..n+1, k < m, IsMaster(k)', IsMaster(m)'
                 PROVE  \E j \in k+1..m-1 : IsDisconn(j, events[k].handle)'
      BY <1>5 DEF NodeAlternates
    <2>1. CASE m \in 1..n
      <3>1. k \in 1..n
        BY <2>1
      <3>2. QED
        BY <1>2, <1>3, <1>4, <2>1, <3>1, PostKeepsOrder
    <2>2. CASE m = n + 1
      <3>1. k \in 1..n /\ IsMaster(k) /\ events'[k] = events[k]
        BY <1>5, <1>6, <2>2
      <3>2. PICK j \in k+1..n : IsDisconn(j, events[k].handle)
        BY <1>7, <1>11, <2>2, <3>1
      <3>3. j \in 1..n /\ j \in k+1..m-1
        BY <2>2, <3>2
      <3>4. IsDisconn(j, events[k].handle)'
        BY <1>6, <3>1, <3>2, <3>3
      <3>5. QED
        BY <3>3, <3>4
    <2>3. QED
      BY <1>5, <2>1, <2>2
  <1>15. HeldHandlesEnd'
    <2> SUFFICES ASSUME NEW k \in 1..n+1, IsConn(k)',
                        (SlotHolds(events[k].handle) \/ ClientHolds(events[k].handle))'
                 PROVE  \E j \in 1..k-1 : IsDisconn(j, events[k].handle)'
      BY <1>5 DEF HeldHandlesEnd
    <2>1. CASE k \in 1..n
      BY <1>2, <1>3, <1>4, <2>1, PostKeepsOrder
    <2>2. CASE k = n + 1
      <3>1. events'[k].handle = h
        BY <1>5, <2>2
      <3>2. SlotHolds(h) \/ ClientHolds(h)
        BY <3>1 DEF SlotHolds, ClientHolds, SlotKept, ClientKept
      <3>3. PICK j \in 1..n : IsDisconn(j, h)
        BY <1>10, <3>2
      <3>4. IsDisconn(j, events[k].handle)'
        BY <1>6, <3>1, <3>3
      <3>5. QED
        BY <2>2, <3>4
    <2>3. QED
      BY <1>5, <2>1, <2>2
  <1>16. NodeEnds'
    <2> SUFFICES ASSUME NEW k \in 1..n+1, IsMaster(k)', ~perDevs'.is_disconnected[0]
                 PROVE  \E j \in 1..k-1 : IsDisconn(j, perDevs.connection_handle[0])'
      BY <1>5 DEF NodeEnds
    <2>1. CASE k \in 1..n
      BY <1>2, <1>3, <1>4, <2>1, PostKeepsOrder
    <2>2. CASE k = n + 1
      <3>1. PICK j \in 1..n : IsDisconn(j, perDevs.connection_handle[0])
        BY <1>7, <1>11, <2>2 DEF SlotKept
      <3>2. IsDisconn(j, perDevs.connection_handle[0])'
        BY <1>6, <3>1 DEF SlotKept
      <3>3. QED
        BY <2>2, <3>2
    <2>3. QED
      BY <1>5, <2>1, <2>2
  <1>17. \A g \in Handles : links[g] \in Peers => links'[g] = links[g]
    BY <1>8
  <1>18. SlotLinked' /\ ClientLinked'
    BY <1>6, <1>17
       DEF LinkInv, SlotLinked, ClientLinked, SlotHolds, SlotKept, ClientKept, Peers
  <1>19. GapFree'
    BY <1>8 DEF LinkInv, GapFree, PeerOf
  <1>20. QED
    BY <1>12, <1>13, <1>14, <1>15, <1>16, <1>18, <1>19 DEF LinkInv

-----------------------------------------------------------------------------
(* What the device operators leave of the node in the slot.                *)

NodeSame(p, q) ==
  /\ q.connDevices = p.connDevices /\ q.connDeviceIdx = p.connDeviceIdx
  /\ q.device_found = p.device_found /\ q.bdaddr = p.bdaddr
  /\ q.connection_handle = p.connection_handle
  /\ q.is_connected = p.is_connected /\ q.is_disconnected = p.is_disconnected

\* Nothing new is awaited, and no discovery starts.
Moves(st1, st2) == /\ st2 \in Waiting => st2 = st1 /\ st2 \notin Exploring
                   /\ st2 \in Chain => st1 \in Chain

LEMMA StatusTyped ==
  ASSUME NEW p \in PerDevs, NEW st \in Statuses
  PROVE  /\ [p EXCEPT !.status = st] \in PerDevs
         /\ [p EXCEPT !.status = st].status = st
         /\ NodeSame(p, [p EXCEPT !.status = st])
  BY DEF PerDevs, NodeSame

LEMMA StatusKeepsOn ==
  ASSUME NEW p \in PerDevs, NEW st
  PROVE  [p EXCEPT !.status = st].on = p.on
  BY DEF PerDevs

\* Set_New_Status ends every wait for a GATT procedure, and starts none.
LEMMA Completed ==
  ASSUME NEW p \in PerDevs, GATT_Procedure_Complete(p)
  PROVE  perDevs' \in PerDevs /\ NodeSame(p, perDevs') /\ Moves(p.status, perDevs'.status)
  <1>1. PICK st \in NewStatus(p) : perDevs' = [p EXCEPT !.status = st]
    BY DEF GATT_Procedure_Complete
  <1>2. p.status \in Statuses
    BY DEF PerDevs
  <1>3. st \in Statuses /\ Moves(p.status, st)
    <2> USE <1>2 DEF Statuses, Moves, Waiting, Scanning, Exploring, Chain, Discovering
    <2>1. CASE p.status \in DOMAIN Advance
      BY <1>1, <2>1 DEF NewStatus, Advance
    <2>2. CASE p.status \notin DOMAIN Advance /\ p.status = "ENABLE_ME1_LED_NOTIFICATIONS"
      BY <1>1, <2>2 DEF NewStatus
    <2>3. CASE p.status \notin DOMAIN Advance /\ p.status = "READING_AI_RECOGNITION"
      BY <1>1, <2>3 DEF NewStatus
    <2>4. CASE p.status \notin DOMAIN Advance /\ p.status = "ALL_DATA_READ"
      BY <1>1, <2>4 DEF NewStatus, Resumed
    <2>5. CASE /\ p.status \notin DOMAIN Advance
               /\ p.status \notin {"ENABLE_ME1_LED_NOTIFICATIONS",
                                   "READING_AI_RECOGNITION", "ALL_DATA_READ"}
      <3>1. st = p.status
        BY <1>1, <2>5 DEF NewStatus
      <3>2. p.status \notin Exploring
        BY <2>5 DEF Advance
      <3>3. QED
        BY <3>1, <3>2
    <2>6. QED
      BY <2>1, <2>2, <2>3, <2>4, <2>5
  <1>4. QED
    BY <1>1, <1>3, StatusTyped

LEMMA OneSlot ==
  ASSUME OneNode
  PROVE  Slots = {0}
  BY DEF OneNode, Slots

\* The loops over the table have at most one round.
LEMMA AtMostOneRound ==
  ASSUME OneNode, NEW p \in PerDevs
  PROVE  Rounds(p) \in 0..1
  <1> DEFINE sum == p.connDevices + p.discDevices
  <1>1. sum \in Nat
    BY ByteAssumption DEF PerDevs, Bytes
  <1>2. \E m \in {sum, 1} : \A x \in {sum, 1} : m <= x
    BY <1>1
  <1>3. Min({sum, 1}) \in {sum, 1} /\ Min({sum, 1}) <= 1
    BY <1>2 DEF Min
  <1>4. QED
    BY <1>1, <1>3 DEF Rounds, OneNode

LEMMA DisableNodeKeeps ==
  ASSUME OneNode, NEW t, t.p \in PerDevs
  PROVE  LET q == DisableNode(t, 0).p
         IN  /\ q \in PerDevs /\ NodeSame(t.p, q) /\ q.status = t.p.status
             /\ q.on[0] \subseteq t.p.on[0]
  <1>1. CASE ToDisable(t.p, 0) = {}
    BY <1>1 DEF DisableNode, NodeSame
  <1>2. CASE ToDisable(t.p, 0) # {}
    <2> DEFINE s == CHOOSE u \in ToDisable(t.p, 0) :
                      \A v \in ToDisable(t.p, 0) : DisableOrder[u] <= DisableOrder[v]
               p == t.p
               q == [p EXCEPT !.enabled = @ \ {s}, !.on[0] = @ \ {s},
                              !.event[0] = IF s = "mic" THEN @ \ {s} ELSE @]
    <2>1. DisableNode(t, 0).p = q
      BY <1>2 DEF DisableNode, Table
    <2> HIDE DEF s
    <2>2. q \in PerDevs /\ NodeSame(p, q) /\ q.status = p.status
      BY DEF PerDevs, NodeSame
    <2>3. q.on[0] \subseteq p.on[0]
      BY OneSlot DEF PerDevs
    <2>4. QED
      BY <2>1, <2>2, <2>3
  <1>3. QED
    BY <1>1, <1>2

\* Looped, unfolded: the loop ends before the node, or after it.
LEMMA DisablesOneNode ==
  ASSUME OneNode, NEW p \in PerDevs
  PROVE  Disable_All_Notifications(p) =
           IF Rounds(p) = 0 THEN Table(p, <<>>) ELSE DisableNode(Table(p, <<>>), 0)
  <1> DEFINE n == Rounds(p)
             t == Table(p, <<>>)
             Rec(f) == [k \in 0..n |-> IF k = 0 THEN t ELSE DisableNode(f[k - 1], k - 1)]
             after == CHOOSE f : f = Rec(f)
  <1>1. n \in 0..1
    BY AtMostOneRound
  <1> HIDE DEF n, t
  <1>2. \E f : f = Rec(f)
    <2> DEFINE w == [k \in 0..n |-> IF k = 0 THEN t ELSE DisableNode(t, 0)]
    <2>1. w[0] = t
      BY <1>1
    <2>2. \A k \in 0..n : k # 0 => k = 1 /\ k - 1 = 0
      BY <1>1
    <2>3. w = Rec(w)
      BY <2>1, <2>2
    <2>4. QED
      BY <2>3
  <1>3. after = Rec(after)
    BY <1>2
  <1> HIDE DEF after
  <1>4. after[0] = t /\ (n = 1 => after[1] = DisableNode(after[0], 0))
    BY <1>1, <1>3
  <1>5. Disable_All_Notifications(p) = after[n]
    BY DEF Disable_All_Notifications, Looped, after, n, t
  <1>6. after[n] = IF n = 0 THEN t ELSE DisableNode(t, 0)
    BY <1>1, <1>4
  <1>7. QED
    BY <1>5, <1>6 DEF n, t

LEMMA DisableAllKeeps ==
  ASSUME OneNode, NEW p \in PerDevs
  PROVE  LET q == Disable_All_Notifications(p).p
         IN  /\ q \in PerDevs /\ NodeSame(p, q) /\ q.status = p.status
             /\ q.on[0] \subseteq p.on[0]
  <1> DEFINE t == Table(p, <<>>)
  <1>1. t.p = p
    BY DEF Table
  <1> HIDE DEF t
  <1>2. CASE Disable_All_Notifications(p) = t
    BY <1>1, <1>2 DEF NodeSame
  <1>3. CASE Disable_All_Notifications(p) = DisableNode(t, 0)
    BY <1>1, <1>3, DisableNodeKeeps
  <1>4. QED
    BY <1>2, <1>3, DisablesOneNode DEF t

LEMMA ZeroIsAByte == 0 \in Bytes
  BY ByteAssumption DEF Bytes

LEMMA SwitchWupKeeps ==
  ASSUME OneNode, NEW t, t.p \in PerDevs, NEW mode
  PROVE  LET q == SwitchWup(t, 0, mode).p
         IN  /\ q \in PerDevs /\ NodeSame(t.p, q) /\ q.status = t.p.status
             /\ q.on = t.p.on /\ q.enabled = t.p.enabled
             /\ q.event[0] \ {"wup"} = t.p.event[0] \ {"wup"}
  <1> DEFINE p == t.p
             q == [p EXCEPT !.event[0] = IF mode = 1 THEN @ \cup {"wup"} ELSE @ \ {"wup"}]
  <1>1. SwitchWup(t, 0, mode).p \in {p, q}
    BY DEF SwitchWup, Table
  <1>2. p \in PerDevs /\ NodeSame(p, p)
    BY DEF NodeSame
  <1>3. /\ q \in PerDevs /\ NodeSame(p, q) /\ q.status = p.status
        /\ q.on = p.on /\ q.enabled = p.enabled
    BY DEF PerDevs, NodeSame, Streams
  <1>4. q.event[0] \ {"wup"} = p.event[0] \ {"wup"}
    BY OneSlot DEF PerDevs
  <1>5. QED
    BY <1>1, <1>2, <1>3, <1>4

\* The same for the loop of the wake-up notifications.
LEMMA SwitchesOneNode ==
  ASSUME OneNode, NEW t, t.p \in PerDevs, NEW mode
  PROVE  SwitchAllWup(t, mode) = IF Rounds(t.p) = 0 THEN t ELSE SwitchWup(t, 0, mode)
  <1> DEFINE n == Rounds(t.p)
             Rec(f) == [k \in 0..n |-> IF k = 0 THEN t ELSE SwitchWup(f[k - 1], k - 1, mode)]
             after == CHOOSE f : f = Rec(f)
  <1>1. n \in 0..1
    BY AtMostOneRound
  <1> HIDE DEF n
  <1>2. \E f : f = Rec(f)
    <2> DEFINE w == [k \in 0..n |-> IF k = 0 THEN t ELSE SwitchWup(t, 0, mode)]
    <2>1. w[0] = t
      BY <1>1
    <2>2. \A k \in 0..n : k # 0 => k = 1 /\ k - 1 = 0
      BY <1>1
    <2>3. w = Rec(w)
      BY <2>1, <2>2
    <2>4. QED
      BY <2>3
  <1>3. after = Rec(after)
    BY <1>2
  <1> HIDE DEF after
  <1>4. after[0] = t /\ (n = 1 => after[1] = SwitchWup(after[0], 0, mode))
    BY <1>1, <1>3
  <1>5. SwitchAllWup(t, mode) = after[n]
    BY DEF SwitchAllWup, Looped, after, n
  <1>6. after[n] = IF n = 0 THEN t ELSE SwitchWup(t, 0, mode)
    BY <1>1, <1>4
  <1>7. QED
    BY <1>5, <1>6 DEF n

LEMMA SwitchAllKeeps ==
  ASSUME OneNode, NEW own, own.p \in PerDevs, NEW mode
  PROVE  LET q == SwitchAllWup(own, mode).p
         IN  /\ q \in PerDevs /\ NodeSame(own.p, q) /\ q.status = own.p.status
             /\ q.on = own.p.on /\ q.enabled = own.p.enabled
             /\ q.event[0] \ {"wup"} = own.p.event[0] \ {"wup"}
  <1>1. CASE SwitchAllWup(own, mode) = own
    BY <1>1 DEF NodeSame
  <1>2. CASE SwitchAllWup(own, mode) = SwitchWup(own, 0, mode)
    BY <1>2, SwitchWupKeeps
  <1>3. QED
    BY <1>1, <1>2, SwitchesOneNode

LEMMA ChangeKeeps ==
  ASSUME OneNode, NEW p \in PerDevs, NEW s \in Streams, NEW mode \in {0, 1}
  PROVE  LET q == Change_Notification_Status(p, 0, s, mode).p
         IN  /\ q \in PerDevs /\ NodeSame(p, q)
             /\ q.status \in {"NOTIFICATIONS_DATA_READ", "ALL_DATA_READ"}
             /\ q.on[0] \subseteq p.on[0] \cup ({s} \ {"mic"})
  <1> DEFINE p0 == [p EXCEPT !.discovery_enabled = FALSE]
             before == IF mode = 1 THEN Disable_All_Notifications(p0) ELSE Table(p, <<>>)
             b == before.p
             e == [b EXCEPT !.enabled = IF mode = 1 THEN @ \cup {s} ELSE @ \ {s}]
             own == Table(e, Append(before.w, DescriptorWrite(p, 0, s, mode)))
             r == SwitchAllWup(own, 1 - mode).p
             st == IF mode = 1 THEN "NOTIFICATIONS_DATA_READ" ELSE "ALL_DATA_READ"
             on == IF mode = 1 /\ s # "mic" THEN r.on[0] \cup {s} ELSE r.on[0] \ {s}
             q == [r EXCEPT !.status = st, !.readDeviceIdx = 0, !.on[0] = on]
  <1>1. p0 \in PerDevs /\ NodeSame(p, p0) /\ p0.on = p.on
    BY DEF PerDevs, NodeSame
  <1>2. b \in PerDevs /\ NodeSame(p, b) /\ b.on[0] \subseteq p.on[0]
    BY <1>1, DisableAllKeeps DEF NodeSame, Table
  <1> HIDE DEF b
  <1>3. e \in PerDevs /\ NodeSame(p, e) /\ e.on = b.on
    BY <1>2 DEF PerDevs, NodeSame
  <1> HIDE DEF e
  <1>4. own.p \in PerDevs /\ NodeSame(p, own.p) /\ own.p.on = e.on
    BY <1>3 DEF Table
  <1> HIDE DEF own
  <1>5. r \in PerDevs /\ NodeSame(p, r) /\ r.on = own.p.on
    BY <1>4, SwitchAllKeeps DEF NodeSame
  <1> HIDE DEF r
  <1>6. /\ q \in PerDevs /\ NodeSame(p, q)
        /\ q.status \in {"NOTIFICATIONS_DATA_READ", "ALL_DATA_READ"}
        /\ q.on[0] \subseteq p.on[0] \cup ({s} \ {"mic"})
    <2>1. st \in Statuses /\ st \in {"NOTIFICATIONS_DATA_READ", "ALL_DATA_READ"}
      BY DEF Statuses
    <2>2. r.on \in [Slots -> SUBSET Streams] /\ 0 \in Slots
      BY <1>5 DEF PerDevs, OneNode, Slots
    <2>3. on \in SUBSET Streams
      BY <2>2
    <2>4. on \subseteq p.on[0] \cup ({s} \ {"mic"})
      BY <1>2, <1>3, <1>4, <1>5
    <2> HIDE DEF st, on
    <2>5. q.on[0] = on
      BY <1>5, <2>2 DEF PerDevs
    <2>6. QED
      BY <1>5, <2>1, <2>3, <2>4, <2>5, ZeroIsAByte DEF PerDevs, NodeSame
  <1>7. Change_Notification_Status(p, 0, s, mode).p = q
    BY DEF Change_Notification_Status, Table, own, e, b, r, q, st, on
  <1>8. QED
    BY <1>6, <1>7

\* Attribute_Modified_CB.
LEMMA ModifiedKeeps ==
  ASSUME OneNode, NEW p \in PerDevs, NEW c \in ClientCmds
  PROVE  LET q == Modified(p, c).p
         IN  /\ q \in PerDevs /\ NodeSame(p, q)
             /\ q.status \in {p.status, "NOTIFICATIONS_DATA_READ", "ALL_DATA_READ"}
             /\ q.on[0] \subseteq p.on[0] \cup {"prx", "agm", "sfusion"}
  <1>1. CASE c.cmd = "scan"
    <2> DEFINE a == [p EXCEPT !.status = "ALL_DATA_READ"]
               t == IF c.value = 1 THEN Disable_All_Notifications(a) ELSE Table(a, <<>>)
               b == t.p
               q == [b EXCEPT !.discovery_enabled = c.value = 1 \/ (@ /\ c.value # 2)]
    <2>1. a \in PerDevs /\ NodeSame(p, a) /\ a.status = "ALL_DATA_READ" /\ a.on = p.on
      <3>1. "ALL_DATA_READ" \in Statuses
        BY DEF Statuses
      <3>2. a \in PerDevs /\ NodeSame(p, a) /\ a.status = "ALL_DATA_READ"
        BY <3>1, StatusTyped
      <3>3. a.on = p.on
        BY StatusKeepsOn
      <3>4. QED
        BY <3>2, <3>3
    <2> HIDE DEF a
    <2>2. /\ b \in PerDevs /\ NodeSame(p, b) /\ b.status = "ALL_DATA_READ"
          /\ b.on[0] \subseteq p.on[0]
      BY <2>1, DisableAllKeeps DEF NodeSame, Table
    <2> HIDE DEF b
    <2>3. /\ q \in PerDevs /\ NodeSame(p, q) /\ q.status = "ALL_DATA_READ"
          /\ q.on = b.on
      BY <2>2 DEF PerDevs, NodeSame
    <2>4. Modified(p, c).p = q
      BY <1>1 DEF Modified, ScanCommand, Table, a, b
    <2>5. QED
      BY <2>2, <2>3, <2>4
  <1>2. CASE c.cmd = "led" \/ c.cmd = "stream"
    <2>1. CASE Commanded(p, c.node) = {}
      BY <1>2, <2>1 DEF Modified, NodeCommand, Table, NodeSame
    <2>2. CASE Commanded(p, c.node) # {}
      <3>1. (CHOOSE k \in Commanded(p, c.node) : TRUE) = 0
        BY <2>2 DEF Commanded, Slots, OneNode
      <3>2. CASE c.cmd = "led"
        <4>1. Modified(p, c).p = [p EXCEPT !.readDeviceIdx = 0]
          BY <2>2, <3>1, <3>2 DEF Modified, NodeCommand, Table
        <4>2. QED
          BY <4>1, ZeroIsAByte DEF PerDevs, NodeSame
      <3>3. CASE c.cmd = "stream"
        <4>1. /\ c.char \in Streams \ {"wup"} /\ c.mode \in {0, 1}
              /\ {c.char} \ {"mic"} \subseteq {"prx", "agm", "sfusion"}
          BY <3>3, ClientCmdsAssumption DEF Commands, Streams
        <4>2. Modified(p, c) = Change_Notification_Status(p, 0, c.char, c.mode)
          BY <2>2, <3>1, <3>3 DEF Modified, NodeCommand
        <4>3. QED
          BY <4>1, <4>2, ChangeKeeps
      <3>4. QED
        BY <1>2, <3>2, <3>3
    <2>3. QED
      BY <2>1, <2>2
  <1>3. CASE c.cmd \notin {"scan", "led", "stream"}
    BY <1>3 DEF Modified, Table, NodeSame
  <1>4. QED
    BY <1>1, <1>2, <1>3

-----------------------------------------------------------------------------
(* NodeInv and AwaitInv, step by step.                                     *)

NodeKept == NodeSame(perDevs, perDevs')

LEMMA PopKeepsAwaited ==
  ASSUME Typed, events # <<>>, events' = Tail(events), UNCHANGED gap
  PROVE  /\ Connecting' => Connecting
         /\ ~IsMaster(1) /\ Connecting => Connecting'
         /\ \A type : events[1].type # type /\ Queued(type) => Queued(type)'
         /\ FoundInScan => FoundInScan'
  <1>1. DOMAIN events = 1..Len(events) /\ DOMAIN events' = 1..Len(events')
    BY Popped, EventsTyped
  <1>2. Connecting <=> gap \in Addrs \/ \E k \in 1..Len(events) : IsMaster(k)
    BY <1>1 DEF Connecting, IsMaster, IsConn
  <1>3. Connecting' <=> gap \in Addrs \/ \E k \in 1..Len(events') : IsMaster(k)'
    BY <1>1 DEF Connecting, IsMaster, IsConn
  <1>4. Connecting' => Connecting
    BY <1>2, <1>3, PopShifts
  <1>5. ASSUME ~IsMaster(1), Connecting
        PROVE  Connecting'
    <2>1. CASE gap \in Addrs
      BY <1>3, <2>1
    <2>2. CASE \E k \in 1..Len(events) : IsMaster(k)
      <3>1. PICK k \in 2..Len(events) : IsMaster(k)
        BY <1>5, <2>2, PopShifts
      <3>2. k - 1 \in 1..Len(events') /\ (k - 1) + 1 = k
        BY PopShifts
      <3>3. IsMaster(k - 1)'
        BY <3>1, <3>2, PopShifts
      <3>4. QED
        BY <1>3, <3>2, <3>3
    <2>3. QED
      BY <1>2, <1>5, <2>1, <2>2
  <1>6. ASSUME NEW type, events[1].type # type, Queued(type)
        PROVE  Queued(type)'
    <2>1. PICK k \in 2..Len(events) : events[k].type = type
      BY <1>1, <1>6, PopShifts DEF Queued
    <2>2. k - 1 \in 1..Len(events') /\ events'[k - 1] = events[k]
      BY PopShifts
    <2>3. QED
      BY <1>1, <2>1, <2>2 DEF Queued
  <1>7. ASSUME FoundInScan
        PROVE  FoundInScan'
    <2> SUFFICES ASSUME NEW k \in 1..Len(events'), events'[k].type = "adv", gap # "scan"
                 PROVE  \E j \in k+1..Len(events') : events'[j].type = "scan_end"
      BY DEF FoundInScan
    <2>1. PICK j \in k+2..Len(events) : events[j].type = "scan_end"
      BY <1>7, PopShifts DEF FoundInScan
    <2>2. j - 1 \in k+1..Len(events') /\ events'[j - 1] = events[j]
      BY <2>1, PopShifts
    <2>3. QED
      BY <2>1, <2>2
  <1>8. QED
    BY <1>4, <1>5, <1>6, <1>7

\* An event that leaves the node where it is.
LEMMA QuietPop ==
  ASSUME Typed, NodeInv, AwaitInv, events # <<>>, events' = Tail(events), at = 0,
         UNCHANGED <<at, gap, gatt>>, NodeKept,
         ~IsMaster(1), events[1].type \notin {"disconn", "scan_end"},
         perDevs'.status = perDevs.status \/ Moves(perDevs.status, perDevs'.status),
         events[1].type = "proc_end" => perDevs'.status \notin Exploring
  PROVE  NodeInv' /\ AwaitInv'
  <1>1. /\ Connecting' <=> Connecting
        /\ \A type : events[1].type # type /\ Queued(type) => Queued(type)'
        /\ FoundInScan'
    BY PopKeepsAwaited DEF AwaitInv
  <1>2. \A h : QueuedOf("disconn", h) => QueuedOf("disconn", h)'
    BY PopKeepsEnds DEF IsDisconn
  <1>3. /\ perDevs'.status \in Waiting => perDevs'.status = perDevs.status
        /\ perDevs'.status \in Chain => perDevs.status \in Chain
        /\ perDevs'.status \in Discovering => perDevs.status \in Discovering
    BY DEF Moves, Chain, Discovering, Waiting, Scanning
  <1>4. Counted' /\ Fresh' /\ FoundBefore' /\ ConnectingInPass'
    BY <1>1, <1>3 DEF NodeInv, Counted, Fresh, FoundBefore, ConnectingInPass, NodeKept, NodeSame
  <1>5. ScanAwaited' /\ ConnectionAwaited'
    BY <1>1, <1>3 DEF AwaitInv, ScanAwaited, ConnectionAwaited, Waiting
  <1>6. ProcedureAwaited'
    BY <1>1, <1>2, <1>3 DEF AwaitInv, ProcedureAwaited, Waiting, NodeKept, NodeSame
  <1>7. QED
    BY <1>1, <1>4, <1>5, <1>6 DEF NodeInv, AwaitInv

\* A step of the two processes that starts nothing.
LEMMA QuietPass ==
  ASSUME SlotLinked, NodeInv, AwaitInv, UNCHANGED <<gap, events>>,
         at' > 0 => at > 0,
         \A h \in Handles : gatt'[h] = gatt[h] \/ gatt'[h] # None,
         perDevs'.device_found => perDevs.device_found,
         perDevs'.connDevices = perDevs.connDevices,
         perDevs'.connDeviceIdx = perDevs.connDeviceIdx,
         perDevs'.bdaddr = perDevs.bdaddr,
         perDevs'.connection_handle = perDevs.connection_handle,
         perDevs'.is_connected = perDevs.is_connected,
         perDevs'.is_disconnected = perDevs.is_disconnected,
         \/ perDevs'.status = perDevs.status
         \/ /\ Moves(perDevs.status, perDevs'.status)
            /\ perDevs.status # "START_DEVICE_CONNECTION"
  PROVE  NodeInv' /\ AwaitInv'
  <1>1. (Connecting' <=> Connecting) /\ FoundInScan'
    BY DEF Connecting, FoundInScan, AwaitInv
  <1>2. /\ \A type : Queued(type)' <=> Queued(type)
        /\ \A h : QueuedOf("disconn", h)' <=> QueuedOf("disconn", h)
    BY DEF Queued, QueuedOf
  <1>3. /\ perDevs'.status \in Waiting => perDevs'.status = perDevs.status
        /\ perDevs'.status \in Chain => perDevs.status \in Chain
        /\ perDevs'.status \in Discovering => perDevs.status \in Discovering
        /\ perDevs.status = "START_DEVICE_CONNECTION" => perDevs'.status = perDevs.status
    BY DEF Moves, Chain, Discovering, Waiting, Scanning
  <1>4. Counted' /\ Fresh' /\ FoundBefore' /\ ConnectingInPass'
    BY <1>1, <1>3 DEF NodeInv, Counted, Fresh, FoundBefore, ConnectingInPass
  <1>5. ScanAwaited' /\ ConnectionAwaited'
    BY <1>1, <1>2, <1>3 DEF AwaitInv, ScanAwaited, ConnectionAwaited, Waiting
  <1>6. ProcedureAwaited'
    BY <1>2, <1>3 DEF AwaitInv, ProcedureAwaited, Waiting, SlotLinked
  <1>7. QED
    BY <1>1, <1>4, <1>5, <1>6 DEF NodeInv, AwaitInv

\* What happens on the air announces what it ends, and brings no new node.
LEMMA AirKeeps ==
  ASSUME Typed, LinkInv, NodeInv, AwaitInv, UNCHANGED <<devVars, at>>,
         NEW es \in Seq(Events), Post(es),
         gap \in Addrs <=>
           \/ gap' \in Addrs
           \/ \E k \in 1..Len(es) : es[k].type = "conn" /\ es[k].role = "master",
         gap = "scan" =>
           \/ gap' = "scan"
           \/ \E k \in 1..Len(es) : es[k].type = "scan_end",
         \A k \in 1..Len(es) : es[k].type = "adv" => gap' = "scan",
         \A h \in Handles : gatt[h] # None =>
           \/ gatt'[h] # None
           \/ \E k \in 1..Len(es) :
                \/ es[k].type = "proc_end"
                \/ es[k].type = "disconn" /\ es[k].handle = h
  PROVE  NodeInv' /\ AwaitInv'
  <1>1. DOMAIN events = 1..Len(events) /\ DOMAIN events' = 1..Len(events')
    BY Posted, EventsTyped
  <1>2. /\ \A type : (\E k \in 1..Len(es) : es[k].type = type) => Queued(type)'
        /\ \A type, h : (\E k \in 1..Len(es) : es[k].type = type /\ es[k].handle = h)
                          => QueuedOf(type, h)'
    <2>1. \A k \in 1..Len(es) : \E j \in 1..Len(events') : events'[j] = es[k]
      BY PostKeepsQueue
    <2>2. QED
      BY <1>1, <2>1 DEF Queued, QueuedOf
  <1>3. Connecting' <=> Connecting
    <2>1. Connecting <=> gap \in Addrs \/ \E k \in 1..Len(events) : IsMaster(k)
      BY <1>1 DEF Connecting, IsMaster, IsConn
    <2>2. Connecting' <=> gap' \in Addrs \/ \E k \in 1..Len(events') : IsMaster(k)'
      BY <1>1 DEF Connecting, IsMaster, IsConn
    <2>3. (\E k \in 1..Len(events') : IsMaster(k)') <=>
            \/ \E k \in 1..Len(events) : IsMaster(k)
            \/ \E k \in 1..Len(es) : es[k].type = "conn" /\ es[k].role = "master"
      <3>1. ASSUME NEW k \in 1..Len(events'), IsMaster(k)', k \notin 1..Len(events)
            PROVE  \E i \in 1..Len(es) : es[i].type = "conn" /\ es[i].role = "master"
        <4>1. PICK i \in 1..Len(es) : events'[k] = es[i]
          BY <3>1, PostKeepsQueue
        <4>2. QED
          BY <3>1, <4>1 DEF IsMaster, IsConn
      <3>2. ASSUME NEW i \in 1..Len(es), es[i].type = "conn", es[i].role = "master"
            PROVE  \E k \in 1..Len(events') : IsMaster(k)'
        <4>1. PICK k \in 1..Len(events') : events'[k] = es[i]
          BY PostKeepsQueue
        <4>2. IsMaster(k)'
          BY <3>2, <4>1 DEF IsMaster, IsConn
        <4>3. QED
          BY <4>2
      <3>3. QED
        BY <3>1, <3>2, PostKeepsQueue
    <2>4. QED
      BY <2>1, <2>2, <2>3
  <1>4. gap = "scan" => gap' = "scan" \/ Queued("scan_end")'
    BY <1>2
  <1>5. FoundInScan'
    <2> SUFFICES ASSUME NEW k \in 1..Len(events'), events'[k].type = "adv", gap' # "scan"
                 PROVE  \E j \in k+1..Len(events') : events'[j].type = "scan_end"
      BY DEF FoundInScan
    <2>1. k \in 1..Len(events) /\ events'[k] = events[k]
      <3>1. CASE k \in 1..Len(events)
        BY <3>1, PostKeepsQueue
      <3>2. CASE k \notin 1..Len(events)
        <4>1. k - Len(events) \in 1..Len(es) /\ events'[k] = es[k - Len(events)]
          BY <3>2, PostKeepsQueue
        <4>2. QED
          BY <4>1
      <3>3. QED
        BY <3>1, <3>2
    <2>2. CASE gap # "scan"
      <3>1. PICK j \in k+1..Len(events) : events[j].type = "scan_end"
        BY <2>1, <2>2 DEF AwaitInv, FoundInScan
      <3>2. j \in 1..Len(events) /\ j \in k+1..Len(events')
        BY <2>1, <3>1, PostKeepsQueue
      <3>3. QED
        BY <3>1, <3>2, PostKeepsQueue
    <2>3. CASE gap = "scan"
      <3>1. PICK i \in 1..Len(es) : es[i].type = "scan_end"
        BY <2>3
      <3>2. /\ Len(events) + i \in 1..Len(events') /\ events'[Len(events) + i] = es[i]
            /\ Len(events) + i \in k+1..Len(events')
        BY <2>1, <3>1, PostKeepsQueue
      <3>3. QED
        BY <3>1, <3>2
    <2>4. QED
      BY <2>2, <2>3
  <1>6. NodeInv'
    BY <1>3 DEF NodeInv, Counted, Fresh, FoundBefore, ConnectingInPass, devVars
  <1>7. ScanAwaited' /\ ConnectionAwaited'
    BY <1>3, <1>4, PostKeepsQueue DEF AwaitInv, ScanAwaited, ConnectionAwaited, devVars
  <1>8. ProcedureAwaited'
    BY <1>2, PostKeepsQueue
       DEF AwaitInv, ProcedureAwaited, LinkInv, SlotLinked, devVars
  <1>9. QED
    BY <1>5, <1>6, <1>7, <1>8 DEF AwaitInv

LEMMA OneEvent ==
  ASSUME NEW e \in Events
  PROVE  /\ <<e>> \in Seq(Events) /\ Len(<<e>>) = 1
         /\ \A k \in 1..Len(<<e>>) : <<e>>[k] = e
         /\ \E k \in 1..Len(<<e>>) : <<e>>[k] = e
  <1>1. <<e>> \in Seq(Events) /\ Len(<<e>>) = 1 /\ <<e>>[1] = e
    OBVIOUS
  <1>2. QED
    BY <1>1

\* Posting keeps the types, of the queue and of what no post changes.
LEMMA PostTyped ==
  ASSUME Typed, UNCHANGED <<devVars, at>>, NEW es \in Seq(Events), Post(es),
         gap' \in Addrs \cup {"idle", "scan"},
         links' \in [Handles -> Peers \cup {None}],
         gatt' \in [Handles -> Procedures \cup {None}]
  PROVE  Typed'
  <1>1. events' \in Seq(Events) /\ Len(events') <= EventsMax
    BY Posted
  <1>2. QED
    BY <1>1 DEF Typed, TypeOK, devVars

LEMMA ScanSteps ==
  ASSUME IInv, UNCHANGED <<devVars, at>>,
         ScanEnds \/ \E a \in Addrs : Advertise(a)
  PROVE  IInv'
  <1> USE DEF IInv
  <1>1. SlotKept /\ ClientKept
    BY DEF SlotKept, ClientKept, devVars
  <1>2. CASE ScanEnds
    <2> DEFINE e == [type |-> "scan_end"]
               es == <<e>>
    <2>1. e \in Events
      BY DEF Events
    <2>2. es \in Seq(Events) /\ \A k \in 1..Len(es) : es[k] = e
      BY <2>1, OneEvent
    <2>3. \E k \in 1..Len(es) : es[k] = e
      BY <2>1, OneEvent
    <2>4. /\ Post(es) /\ gap = "scan" /\ gap' = "idle" /\ UNCHANGED <<links, gatt>>
      BY <1>2 DEF ScanEnds, linkVars
    <2> HIDE DEF es
    <2>5. gap \notin Addrs /\ gap' \notin Addrs
      BY <2>4, PeersAssumption
    <2>6. Typed'
      BY <2>2, <2>4, PostTyped DEF Typed, TypeOK
    <2>7. LinkInv'
      BY <1>1, <2>2, <2>4, <2>5, PostKeepsLinks
    <2>8. NodeInv' /\ AwaitInv'
      BY <2>2, <2>3, <2>4, <2>5, AirKeeps
    <2>9. QED
      BY <2>6, <2>7, <2>8
  <1>3. ASSUME NEW a \in Addrs, Advertise(a)
        PROVE  IInv'
    <2> DEFINE e == [type |-> "adv", addr |-> a]
               es == <<e>>
    <2>1. e \in Events
      BY DEF Events
    <2>2. es \in Seq(Events) /\ \A k \in 1..Len(es) : es[k] = e
      BY <2>1, OneEvent
    <2>3. Post(es) /\ gap = "scan" /\ UNCHANGED <<gap, links, gatt>>
      BY <1>3 DEF Advertise, linkVars
    <2> HIDE DEF es
    <2>4. Typed'
      BY <2>2, <2>3, PostTyped DEF Typed, TypeOK
    <2>5. LinkInv'
      BY <1>1, <2>2, <2>3, PostKeepsLinks
    <2>6. NodeInv' /\ AwaitInv'
      BY <2>2, <2>3, AirKeeps
    <2>7. QED
      BY <2>4, <2>5, <2>6
  <1>4. QED
    BY <1>2, <1>3

LEMMA LinkSteps ==
  ASSUME OneNode, IInv, UNCHANGED <<devVars, at>>,
         NodeConnects \/ \E c \in Clients : ClientConnects(c)
  PROVE  IInv'
  <1> USE DEF IInv
  <1>1. SlotKept /\ ClientKept
    BY DEF SlotKept, ClientKept, devVars
  <1>2. PICK role \in {"master", "slave"}, peer \in Peers :
          /\ peer \in PeerOf(role)
          /\ Link(peer, role)
          /\ role = "master" => gap \in Addrs \ Linked /\ gap' = "idle" /\ peer = gap
          /\ role = "slave" => gap' = gap
    <2>1. CASE NodeConnects
      BY <2>1 DEF NodeConnects, PeerOf, Peers
    <2>2. CASE \E c \in Clients : ClientConnects(c)
      BY <2>2 DEF ClientConnects, PeerOf, Peers
    <2>3. QED
      BY <2>1, <2>2
  <1> DEFINE Conn(h) == [type |-> "conn", handle |-> h, role |-> role]
  <1>3. PICK h \in Handles : /\ links[h] = None
                             /\ links' = [links EXCEPT ![h] = peer]
                             /\ Post(<<Conn(h)>>) /\ gatt' = gatt
    BY <1>2 DEF Link, FreeHandles
  <1>4. role = "master" =>
          gap' \notin Addrs /\ \A g \in Handles : links[g] # peer
    BY <1>2, PeersAssumption DEF Linked, None
  <1>5. LinkInv'
    BY <1>1, <1>2, <1>3, <1>4, LinkKeepsLinks
  <1> DEFINE e == Conn(h)
             es == <<e>>
  <1>6. e \in Events
    BY DEF Events
  <1>7. /\ es \in Seq(Events) /\ (\A k \in 1..Len(es) : es[k] = e)
        /\ \E k \in 1..Len(es) : es[k] = e
    BY <1>6, OneEvent
  <1>8. Post(es)
    BY <1>3
  <1> HIDE DEF es
  <1>9. Typed'
    <2>1. gap' \in Addrs \cup {"idle", "scan"}
      BY <1>2 DEF Typed, TypeOK
    <2>2. links' \in [Handles -> Peers \cup {None}]
      BY <1>3 DEF Typed, TypeOK, PeerOf, Peers
    <2>3. QED
      BY <1>3, <1>7, <1>8, <2>1, <2>2, PostTyped DEF Typed
  <1>10. gap \in Addrs <=> gap' \in Addrs \/ role = "master"
    BY <1>2, <1>4
  <1>11. gap = "scan" => gap' = "scan"
    BY <1>2, PeersAssumption
  <1>12. NodeInv' /\ AwaitInv'
    BY <1>3, <1>7, <1>8, <1>10, <1>11, AirKeeps
  <1>13. QED
    BY <1>5, <1>9, <1>12

\* The two steps that end something on a link.
LEMMA EndSteps ==
  ASSUME IInv, UNCHANGED <<devVars, at>>, NEW h \in Handles,
         LinkLost(h) \/ ProcedureEnds(h)
  PROVE  IInv'
  <1> USE DEF IInv
  <1>1. SlotKept /\ ClientKept
    BY DEF SlotKept, ClientKept, devVars
  <1>2. CASE LinkLost(h)
    <2> DEFINE e == [type |-> "disconn", handle |-> h]
               es == <<e>>
    <2>1. e \in Events
      BY DEF Events
    <2>2. /\ es \in Seq(Events) /\ (\A k \in 1..Len(es) : es[k] = e)
          /\ \E k \in 1..Len(es) : es[k] = e
      BY <2>1, OneEvent
    <2>3. /\ Post(es) /\ gap' = gap /\ links' = [links EXCEPT ![h] = None]
          /\ gatt' = [gatt EXCEPT ![h] = None]
      BY <1>2 DEF LinkLost, radioVars
    <2> HIDE DEF es
    <2>4. Typed'
      BY <2>2, <2>3, PostTyped DEF Typed, TypeOK
    <2>5. LinkInv'
      <3>1. \A g \in Handles :
              \/ links'[g] = links[g]
              \/ /\ links'[g] = None
                 /\ \E k \in 1..Len(es) : es[k].type = "disconn" /\ es[k].handle = g
        BY <2>2, <2>3 DEF Typed, TypeOK
      <3>2. QED
        BY <1>1, <2>2, <2>3, <3>1, PostKeepsLinks
    <2>6. NodeInv' /\ AwaitInv'
      <3>1. \A g \in Handles : gatt[g] # None =>
              \/ gatt'[g] # None
              \/ \E k \in 1..Len(es) : es[k].type = "disconn" /\ es[k].handle = g
        BY <2>2, <2>3 DEF Typed
      <3>2. QED
        BY <2>2, <2>3, <3>1, AirKeeps
    <2>7. QED
      BY <2>4, <2>5, <2>6
  <1>3. CASE ProcedureEnds(h)
    <2> DEFINE e == [type |-> "proc_end", handle |-> h]
               f == [type |-> "found", attrs |-> Found(h), addr |-> links[h]]
    <2>1. e \in Events
      BY DEF Events
    <2>2. f \in Events
      <3>1. Found(h) \subseteq Attrs
        BY OffersAssumption DEF Found
      <3>2. links[h] \in Peers \cup {None}
        BY DEF Typed, TypeOK
      <3>3. QED
        BY <3>1, <3>2 DEF Events
    <2>3. PICK es \in {<<e>>, <<f, e>>} : Post(es)
      BY <1>3 DEF ProcedureEnds
    <2>4. /\ es \in Seq(Events) /\ (\A k \in 1..Len(es) : es[k] = e \/ es[k] = f)
          /\ \E k \in 1..Len(es) : es[k] = e
      <3>1. CASE es = <<e>>
        BY <2>1, <3>1, OneEvent
      <3>2. CASE es = <<f, e>>
        <4>1. es \in Seq(Events) /\ Len(es) = 2 /\ es[1] = f /\ es[2] = e
          BY <2>1, <2>2, <3>2
        <4>2. QED
          BY <4>1
      <3>3. QED
        BY <2>3, <3>1, <3>2
    <2>5. UNCHANGED <<gap, links>> /\ gatt' = [gatt EXCEPT ![h] = None]
      BY <1>3 DEF ProcedureEnds, radioVars
    <2>6. e.type = "proc_end" /\ f.type = "found"
      OBVIOUS
    <2> HIDE DEF e, f
    <2>7. Typed'
      BY <2>3, <2>4, <2>5, PostTyped DEF Typed, TypeOK
    <2>8. LinkInv'
      BY <1>1, <2>3, <2>4, <2>5, <2>6, PostKeepsLinks
    <2>9. NodeInv' /\ AwaitInv'
      BY <2>3, <2>4, <2>5, <2>6, AirKeeps
    <2>10. QED
      BY <2>7, <2>8, <2>9
  <1>4. QED
    BY <1>2, <1>3

\* The steps that only post an event.
LEMMA DataSteps ==
  ASSUME IInv, UNCHANGED <<devVars, at>>, NEW h \in Handles,
         (\E s \in Streams : Notify(h, s)) \/ \E c \in ClientCmds : ClientWrites(h, c)
  PROVE  IInv'
  <1> USE DEF IInv
  <1>1. SlotKept /\ ClientKept
    BY DEF SlotKept, ClientKept, devVars
  <1>2. PICK e \in Events : /\ Post(<<e>>) /\ e.type \in {"notification", "modified"}
                            /\ UNCHANGED <<gap, links, gatt>>
    <2>1. ASSUME NEW s \in Streams, Notify(h, s)
          PROVE  \E e \in Events : /\ Post(<<e>>) /\ e.type \in {"notification", "modified"}
                                   /\ UNCHANGED <<gap, links, gatt>>
      <3> DEFINE e == [type |-> "notification", handle |-> h, char |-> s]
      <3>1. e \in Events
        BY DEF Events
      <3>2. QED
        BY <2>1, <3>1 DEF Notify, radioVars, linkVars
    <2>2. ASSUME NEW c \in ClientCmds, ClientWrites(h, c)
          PROVE  \E e \in Events : /\ Post(<<e>>) /\ e.type \in {"notification", "modified"}
                                   /\ UNCHANGED <<gap, links, gatt>>
      <3> DEFINE e == [type |-> "modified", cmd |-> c]
      <3>1. e \in Events
        BY DEF Events
      <3>2. QED
        BY <2>2, <3>1 DEF ClientWrites, radioVars, linkVars
    <2>3. QED
      BY <2>1, <2>2
  <1> DEFINE es == <<e>>
  <1>3. es \in Seq(Events) /\ \A k \in 1..Len(es) : es[k] = e
    BY OneEvent
  <1>4. Post(es)
    BY <1>2
  <1> HIDE DEF es
  <1>5. Typed'
    BY <1>2, <1>3, <1>4, PostTyped DEF Typed, TypeOK
  <1>6. LinkInv'
    BY <1>1, <1>2, <1>3, <1>4, PostKeepsLinks
  <1>7. NodeInv' /\ AwaitInv'
    BY <1>2, <1>3, <1>4, AirKeeps
  <1>8. QED
    BY <1>5, <1>6, <1>7

LEMMA AirIInv == OneNode /\ IInv /\ Air => IInv'
  <1> SUFFICES ASSUME OneNode, IInv, Radio, UNCHANGED <<devVars, at>> PROVE IInv'
    BY DEF Air
  <1>1. CASE ScanEnds \/ \E a \in Addrs : Advertise(a)
    BY <1>1, ScanSteps
  <1>2. CASE NodeConnects \/ \E c \in Clients : ClientConnects(c)
    BY <1>2, LinkSteps
  <1>3. ASSUME NEW h \in Handles, LinkLost(h) \/ ProcedureEnds(h)
        PROVE  IInv'
    BY <1>3, EndSteps
  <1>4. ASSUME NEW h \in Handles,
               (\E s \in Streams : Notify(h, s)) \/ \E c \in ClientCmds : ClientWrites(h, c)
        PROVE  IInv'
    BY <1>4, DataSteps
  <1>5. QED
    BY <1>1, <1>2, <1>3, <1>4 DEF Radio

-----------------------------------------------------------------------------
(* HCI_Process: the events.                                                *)

LEMMA Delivered ==
  ASSUME Typed, NEW type, Deliver(type)
  PROVE  /\ events # <<>> /\ events' = Tail(events) /\ Head(events) = events[1]
         /\ at = 0 /\ UNCHANGED <<at, gap, links, gatt>>
         /\ 1 \in 1..Len(events) /\ events[1].type = type /\ events[1] \in Events
  <1>1. /\ events # <<>> /\ events' = Tail(events) /\ at = 0 /\ Head(events).type = type
        /\ UNCHANGED <<at, gap, links, gatt>>
    BY DEF Deliver, radioVars, linkVars
  <1>2. Head(events) = events[1] /\ 1 \in 1..Len(events)
    BY <1>1, Popped
  <1>3. QED
    BY <1>1, <1>2, EventsTyped

LEMMA DeliveredTyped ==
  ASSUME Typed, NEW type, Deliver(type), perDevs' \in PerDevs, slaveDev' \in SlaveDev
  PROVE  Typed'
  <1>1. /\ events # <<>> /\ events' = Tail(events)
        /\ UNCHANGED <<at, gap, links, gatt>>
    BY Delivered
  <1>2. events' \in Seq(Events) /\ Len(events') = Len(events) - 1 /\ Len(events) \in Nat
    BY <1>1, Popped
  <1>3. Len(events') <= EventsMax
    BY <1>2, EventsMaxAssumption DEF Typed, TypeOK
  <1>4. QED
    BY <1>1, <1>2, <1>3 DEF Typed, TypeOK

\* An event that leaves the node and the client where they are.
LEMMA QuietEvent ==
  ASSUME IInv, NEW type, Deliver(type), type \notin {"conn", "disconn", "scan_end"},
         perDevs' \in PerDevs, NodeKept, slaveDev' \in SlaveDev, ClientKept,
         perDevs'.status = perDevs.status \/ Moves(perDevs.status, perDevs'.status),
         type = "proc_end" => perDevs'.status \notin Exploring
  PROVE  IInv'
  <1>1. Typed /\ LinkInv /\ NodeInv /\ AwaitInv
    BY DEF IInv
  <1>2. /\ events # <<>> /\ events' = Tail(events) /\ at = 0 /\ events[1].type = type
        /\ UNCHANGED <<at, gap, links, gatt>>
    BY <1>1, Delivered
  <1>3. Typed'
    BY <1>1, DeliveredTyped
  <1>4. SlotKept
    BY DEF SlotKept, NodeKept, NodeSame
  <1>5. LinkInv'
    BY <1>1, <1>2, <1>4, PopKeepsLinks
  <1>6. ~IsMaster(1)
    BY <1>2 DEF IsMaster, IsConn
  <1>7. NodeInv' /\ AwaitInv'
    BY <1>1, <1>2, <1>6, QuietPop
  <1>8. QED
    BY <1>3, <1>5, <1>7 DEF IInv

\* Primary_Services_CB, Service_Chars_CB and GATT_Procedure_Complete_CB.
LEMMA ProcedureEvents ==
  ASSUME OneNode, IInv, OnHandlesFound \/ OnProcedureComplete
  PROVE  IInv'
  <1>1. Typed /\ perDevs \in PerDevs /\ slaveDev \in SlaveDev
    BY DEF IInv, Typed, TypeOK
  <1>2. ClientKept /\ slaveDev' \in SlaveDev
    BY <1>1 DEF OnHandlesFound, OnProcedureComplete, ClientKept
  <1>3. CASE OnHandlesFound
    <2>1. Deliver("found")
      BY <1>3 DEF OnHandlesFound
    <2> DEFINE e == events[1]
    <2>2. e \in Events /\ e.addr \in Peers \cup {None}
      BY <1>1, <2>1, Delivered, EventsTyped
    <2>3. perDevs' = perDevs \/ (perDevs.connDeviceIdx \in Slots /\ perDevs' = Handled(perDevs, e))
      BY <1>1, <1>3, <2>1, Delivered DEF OnHandlesFound
    <2>4. perDevs' \in PerDevs /\ NodeKept /\ perDevs'.status = perDevs.status
      <3>1. CASE perDevs' = perDevs
        BY <1>1, <3>1 DEF NodeKept, NodeSame
      <3>2. CASE perDevs.connDeviceIdx \in Slots /\ perDevs' = Handled(perDevs, e)
        <4> DEFINE p == perDevs
                   i == p.connDeviceIdx
                   hs == [a \in Attrs |-> IF a \in e.attrs THEN e.addr
                                          ELSE p.attr_handle[i][a]]
                   read == p.sfusion_char_read[i] /\ "sfusion" \notin e.attrs
                   on0 == p.on[0] \ (e.attrs \cap {"prx", "agm", "sfusion"})
                   q == [p EXCEPT !.attr_handle[i] = hs, !.sfusion_char_read[i] = read,
                                  !.on[0] = on0]
        <4>1. perDevs' = q
          BY <1>1, <3>2 DEF Handled, PerDevs
        <4>2. hs \in [Attrs -> Peers \cup {None}] /\ read \in BOOLEAN
          BY <1>1, <2>2, <3>2 DEF PerDevs
        <4>3. on0 \in SUBSET Streams
          BY <1>1, OneSlot DEF PerDevs
        <4> HIDE DEF hs, read, on0
        <4>4. q \in PerDevs /\ NodeSame(p, q) /\ q.status = p.status
          BY <1>1, <3>2, <4>2, <4>3, OneSlot DEF PerDevs, NodeSame
        <4>5. QED
          BY <4>1, <4>4 DEF NodeKept
      <3>3. QED
        BY <2>3, <3>1, <3>2
    <2>5. QED
      BY <1>2, <2>1, <2>4, QuietEvent
  <1>4. CASE OnProcedureComplete
    <2>1. Deliver("proc_end") /\ GATT_Procedure_Complete(perDevs)
      BY <1>4 DEF OnProcedureComplete
    <2>2. /\ perDevs' \in PerDevs /\ NodeKept /\ Moves(perDevs.status, perDevs'.status)
      BY <1>1, <2>1, Completed DEF NodeKept
    <2>3. perDevs'.status \notin Exploring
      BY <2>2 DEF Moves, Waiting
    <2>4. QED
      BY <1>2, <2>1, <2>2, <2>3, QuietEvent
  <1>5. QED
    BY <1>3, <1>4

LEMMA MinOfZero == Min({0}) = 0
  <1>1. \E m \in {0} : \A x \in {0} : m <= x
    OBVIOUS
  <1>2. QED
    BY <1>1 DEF Min

LEMMA MaxOfZero == Max({0}) = 0
  <1>1. \E m \in {0} : \A x \in {0} : m >= x
    OBVIOUS
  <1>2. QED
    BY <1>1 DEF Max

\* GATT_Notification_CB and Attribute_Modified_CB.
LEMMA DataEvents ==
  ASSUME OneNode, IInv, OnNotification \/ OnAttributeModified
  PROVE  IInv'
  <1>1. Typed /\ perDevs \in PerDevs /\ slaveDev \in SlaveDev
    BY DEF IInv, Typed, TypeOK
  <1>2. ASSUME perDevs'.status \in {perDevs.status, "NOTIFICATIONS_DATA_READ", "ALL_DATA_READ"}
        PROVE  perDevs'.status = perDevs.status \/ Moves(perDevs.status, perDevs'.status)
    BY <1>2 DEF Moves, Waiting, Scanning, Exploring, Chain, Discovering
  <1>3. CASE OnNotification
    <2>1. Deliver("notification")
      BY <1>3 DEF OnNotification
    <2> DEFINE e == events[1]
               h == e.handle
               i == IF SlotsOf(perDevs, h) = {} THEN 0 ELSE Min(SlotsOf(perDevs, h))
    <2>2. i = 0
      <3>1. SlotsOf(perDevs, h) \in {{}, {0}}
        BY OneSlot DEF SlotsOf
      <3> DEFINE found == SlotsOf(perDevs, h)
      <3> HIDE DEF found
      <3>2. QED
        BY <3>1, MinOfZero
    <2> HIDE DEF i
    <2>3. perDevs' = perDevs \/ perDevs' = Notified(0, e.char)
      BY <1>1, <1>3, <2>1, <2>2, Delivered DEF OnNotification, i
    <2>4. /\ perDevs' \in PerDevs /\ NodeKept
          /\ perDevs'.status \in {perDevs.status, "NOTIFICATIONS_DATA_READ", "ALL_DATA_READ"}
      <3>1. CASE perDevs' = perDevs
        BY <1>1, <3>1 DEF NodeKept, NodeSame
      <3>2. CASE perDevs' = Notified(0, e.char)
        <4>1. "ALL_DATA_READ" \in Statuses /\ "NOTIFICATIONS_DATA_READ" \in Statuses
          BY DEF Statuses
        <4>2. CASE e.char \in {"wup", "mic", "prx", "agm"}
          <5>1. \/ perDevs' = perDevs
                \/ perDevs' = [perDevs EXCEPT !.status = "ALL_DATA_READ"]
                \/ perDevs' = [perDevs EXCEPT !.status = "NOTIFICATIONS_DATA_READ"]
            BY <3>2, <4>2 DEF Notified
          <5>2. ASSUME NEW st \in {"ALL_DATA_READ", "NOTIFICATIONS_DATA_READ"},
                       perDevs' = [perDevs EXCEPT !.status = st]
                PROVE  perDevs' \in PerDevs /\ NodeKept /\ perDevs'.status = st
            BY <1>1, <4>1, <5>2, StatusTyped DEF NodeKept
          <5>3. QED
            BY <3>1, <5>1, <5>2
        <4>3. CASE e.char \notin {"wup", "mic", "prx", "agm"}
          <5> DEFINE p == perDevs
                     st0 == IF Streaming(0, e.char) THEN "NOTIFICATIONS_DATA_READ"
                            ELSE "ALL_DATA_READ"
                     read == p.sfusion_char_read[0] \/ Streaming(0, e.char)
                     q == [p EXCEPT !.status = st0, !.sfusion_char_read[0] = read]
          <5>1. perDevs' = q
            BY <1>1, <3>2, <4>3 DEF Notified, PerDevs
          <5>2. st0 \in Statuses /\ st0 \in {"NOTIFICATIONS_DATA_READ", "ALL_DATA_READ"}
            BY <4>1
          <5>3. read \in BOOLEAN
            OBVIOUS
          <5> HIDE DEF st0, read
          <5>4. q \in PerDevs /\ NodeSame(p, q) /\ q.status = st0
            BY <1>1, <5>2, <5>3, OneSlot DEF PerDevs, NodeSame
          <5>5. QED
            BY <5>1, <5>2, <5>4 DEF NodeKept
        <4>4. QED
          BY <4>2, <4>3
      <3>3. QED
        BY <2>3, <3>1, <3>2
    <2>5. slaveDev' \in SlaveDev /\ ClientKept
      BY <1>1, <1>3 DEF OnNotification, ClientKept
    <2>6. QED
      BY <1>2, <2>1, <2>4, <2>5, QuietEvent
  <1>4. CASE OnAttributeModified
    <2>1. Deliver("modified")
      BY <1>4 DEF OnAttributeModified
    <2> DEFINE c == events[1].cmd
    <2>2. c \in ClientCmds
      BY <1>1, <2>1, Delivered, EventsTyped
    <2>3. perDevs' = Modified(perDevs, c).p /\ slaveDev' = Subscribed(slaveDev, c)
      BY <1>1, <1>4, <2>1, Delivered DEF OnAttributeModified
    <2>4. /\ perDevs' \in PerDevs /\ NodeKept
          /\ perDevs'.status \in {perDevs.status, "NOTIFICATIONS_DATA_READ", "ALL_DATA_READ"}
      BY <1>1, <2>2, <2>3, ModifiedKeeps DEF NodeKept
    <2>5. slaveDev' \in SlaveDev /\ ClientKept
      <3>1. \/ slaveDev' = slaveDev
            \/ slaveDev' = [slaveDev EXCEPT !.star_data_char_notify = TRUE]
            \/ slaveDev' = [slaveDev EXCEPT !.star_data_char_notify = (c.value = 1)]
        BY <2>3 DEF Subscribed
      <3>2. QED
        BY <1>1, <3>1 DEF SlaveDev, ClientKept
    <2>6. QED
      BY <1>2, <2>1, <2>4, <2>5, QuietEvent
  <1>5. QED
    BY <1>3, <1>4

\* GAP_Start_General_Discovery_CB: a node is found, the scan is over.
LEMMA ScanEvents ==
  ASSUME OneNode, IInv, OnAdvertisement \/ OnDiscoveryComplete
  PROVE  IInv'
  <1>1. /\ Typed /\ LinkInv /\ NodeInv /\ AwaitInv
        /\ perDevs \in PerDevs /\ slaveDev \in SlaveDev
    BY DEF IInv, Typed, TypeOK
  <1>2. /\ slaveDev' \in SlaveDev
        /\ ClientKept /\ slaveDev' = slaveDev
    BY <1>1 DEF OnAdvertisement, OnDiscoveryComplete, ClientKept
  <1>3. CASE OnAdvertisement
    <2>1. Deliver("adv")
      BY <1>3 DEF OnAdvertisement
    <2> DEFINE p == perDevs
               a == events[1].addr
               i == SlotFor(p, a)
               disc == IF Own(p, a) # {} THEN Byte(p.discDevices - 1) ELSE p.discDevices
               q == [p EXCEPT !.connDeviceIdx = 0, !.discDevices = disc, !.bdaddr[0] = a,
                              !.event[0] = Offers[a] \cap Streams, !.status = "DEVICE_FOUND"]
    <2>2. /\ events # <<>> /\ events' = Tail(events) /\ at = 0 /\ a \in Addrs
          /\ UNCHANGED <<at, gap, links, gatt>> /\ Head(events) = events[1]
          /\ 1 \in 1..Len(events) /\ events[1].type = "adv"
      BY <1>1, <2>1, Delivered, EventsTyped
    <2>3. CASE perDevs' = perDevs
      <3>1. NodeKept
        BY <2>3 DEF NodeKept, NodeSame
      <3>2. QED
        BY <1>1, <1>2, <2>1, <2>3, <3>1, QuietEvent
    <2>4. CASE /\ perDevs.connDevices < MaxNumOfNodes /\ Vacant(perDevs) # {}
               /\ perDevs' = DeviceFound(perDevs, a)
      <3>1. perDevs.is_disconnected[0] /\ Vacant(p) = {0}
        BY <2>4, OneSlot DEF Vacant
      <3>2. i = 0
        <4>1. Own(p, a) \in {{}, {0}} /\ Unused(p) \in {{}, {0}}
          BY <3>1 DEF Own, Unused
        <4> DEFINE own == Own(p, a)
                   unused == Unused(p)
        <4> HIDE DEF own, unused
        <4>2. QED
          BY <3>1, <4>1, MinOfZero, MaxOfZero DEF SlotFor, own, unused
      <3>3. perDevs' = q
        BY <2>4, <3>2 DEF DeviceFound
      <3>4. disc \in Bytes /\ Offers[a] \cap Streams \in SUBSET Streams
        BY <1>1, ByteAssumption DEF PerDevs, Bytes, Byte
      <3> HIDE DEF disc, i
      <3>5. /\ q \in PerDevs /\ q.status = "DEVICE_FOUND" /\ q.connDeviceIdx = 0
            /\ q.bdaddr[0] = a /\ q.connDevices = p.connDevices
            /\ q.is_connected = p.is_connected /\ q.is_disconnected = p.is_disconnected
            /\ q.connection_handle = p.connection_handle
        <4>1. "DEVICE_FOUND" \in Statuses
          BY DEF Statuses
        <4>2. QED
          BY <1>1, <2>2, <3>4, <4>1, OneSlot, ZeroIsAByte DEF PerDevs
      <3> HIDE DEF q
      <3>6. Typed'
        BY <1>1, <1>2, <2>1, <3>3, <3>5, DeliveredTyped
      <3>7. SlotKept
        BY <3>1, <3>3, <3>5 DEF SlotKept
      <3>8. LinkInv'
        BY <1>1, <1>2, <2>2, <3>7, PopKeepsLinks
      <3>9. NodeInv'
        <4>1. p.connDevices < 1 /\ p.connDevices \in Nat
          BY <1>1, <2>4, ByteAssumption DEF OneNode, PerDevs, Bytes
        <4>2. ~p.is_connected[0]
          BY <1>1, <4>1 DEF NodeInv, Counted
        <4>3. Counted'
          BY <1>1, <3>3, <3>5 DEF NodeInv, Counted
        <4>4. Fresh'
          BY <2>2, <3>3, <3>5, <4>2 DEF Fresh
        <4>5. FoundBefore' /\ ConnectingInPass'
          BY <2>2, <3>3, <3>5 DEF FoundBefore, ConnectingInPass, Chain
        <4>6. QED
          BY <4>3, <4>4, <4>5 DEF NodeInv
      <3>10. AwaitInv'
        <4>1. FoundInScan'
          BY <1>1, <2>2, PopKeepsAwaited DEF AwaitInv
        <4>2. gap = "scan" \/ \E j \in 2..Len(events) : events[j].type = "scan_end"
          BY <1>1, <2>2 DEF AwaitInv, FoundInScan
        <4>3. gap = "scan" \/ Queued("scan_end")
          BY <1>1, <4>2, EventsTyped DEF Queued
        <4>4. gap' = "scan" \/ Queued("scan_end")'
          BY <1>1, <2>2, <4>3, PopKeepsAwaited
        <4>5. ScanAwaited' /\ ConnectionAwaited' /\ ProcedureAwaited'
          BY <3>3, <3>5, <4>4 DEF ScanAwaited, ConnectionAwaited, ProcedureAwaited, Exploring
        <4>6. QED
          BY <4>1, <4>5 DEF AwaitInv
      <3>11. QED
        BY <3>6, <3>8, <3>9, <3>10 DEF IInv
    <2>5. QED
      BY <1>3, <2>2, <2>3, <2>4 DEF OnAdvertisement
  <1>4. CASE OnDiscoveryComplete
    <2>1. Deliver("scan_end")
      BY <1>4 DEF OnDiscoveryComplete
    <2> DEFINE p == perDevs
               q == [p EXCEPT !.device_found = (p.status = "DEVICE_FOUND"),
                              !.status = "DEVICE_DISCOVERY_COMPLETE"]
    <2>2. /\ events # <<>> /\ events' = Tail(events) /\ at = 0
          /\ UNCHANGED <<at, gap, links, gatt>> /\ events[1].type = "scan_end"
      BY <1>1, <2>1, Delivered
    <2>3. perDevs' = q
      BY <1>4 DEF OnDiscoveryComplete, ScanOver
    <2>4. /\ q \in PerDevs /\ q.status = "DEVICE_DISCOVERY_COMPLETE"
          /\ q.device_found <=> p.status = "DEVICE_FOUND"
          /\ q.connDeviceIdx = p.connDeviceIdx /\ q.connDevices = p.connDevices
          /\ q.bdaddr = p.bdaddr /\ q.connection_handle = p.connection_handle
          /\ q.is_connected = p.is_connected /\ q.is_disconnected = p.is_disconnected
      <3>1. "DEVICE_DISCOVERY_COMPLETE" \in Statuses
        BY DEF Statuses
      <3>2. QED
        BY <1>1, <3>1 DEF PerDevs
    <2> HIDE DEF q
    <2>5. Typed'
      BY <1>1, <1>2, <2>1, <2>3, <2>4, DeliveredTyped
    <2>6. SlotKept
      BY <2>3, <2>4 DEF SlotKept
    <2>7. LinkInv'
      BY <1>1, <1>2, <2>2, <2>6, PopKeepsLinks
    <2>8. (Connecting' => Connecting) /\ FoundInScan'
      BY <1>1, <2>2, PopKeepsAwaited DEF AwaitInv
    <2>9. NodeInv'
      <3>1. Counted'
        BY <1>1, <2>3, <2>4 DEF NodeInv, Counted
      <3>2. Fresh'
        BY <1>1, <2>3, <2>4, <2>8 DEF NodeInv, Fresh, Discovering
      <3>3. FoundBefore' /\ ConnectingInPass'
        BY <2>2, <2>3, <2>4 DEF FoundBefore, ConnectingInPass, Chain, Discovering
      <3>4. QED
        BY <3>1, <3>2, <3>3 DEF NodeInv
    <2>10. AwaitInv'
      BY <2>3, <2>4, <2>8
         DEF AwaitInv, ScanAwaited, ConnectionAwaited, ProcedureAwaited, Scanning, Exploring
    <2>11. QED
      BY <2>5, <2>7, <2>9, <2>10 DEF IInv
  <1>5. QED
    BY <1>3, <1>4

LEMMA ByteRange ==
  /\ \A n \in Int : Byte(n) \in Bytes
  /\ Byte(0) = 0 /\ Byte(1) = 1
  BY ByteAssumption DEF Byte, Bytes

\* GAP_ConnectionComplete_CB: the node whose connection was asked for, which is
\* marked as not connectable or not, or a client.
LEMMA ConnectionEvent ==
  ASSUME OneNode, IInv, OnConnection
  PROVE  IInv'
  <1>1. /\ Typed /\ LinkInv /\ NodeInv /\ AwaitInv
        /\ perDevs \in PerDevs /\ slaveDev \in SlaveDev
    BY DEF IInv, Typed, TypeOK
  <1>2. Deliver("conn")
    BY DEF OnConnection
  <1> DEFINE p == perDevs
             h == events[1].handle
  <1>3. /\ events # <<>> /\ events' = Tail(events) /\ at = 0 /\ Head(events) = events[1]
        /\ UNCHANGED <<at, gap, links, gatt>>
        /\ 1 \in 1..Len(events) /\ events[1].type = "conn" /\ h \in Handles
        /\ events[1].role \in {"master", "slave"}
    BY <1>1, <1>2, Delivered, EventsTyped
  <1>4. CASE events[1].role = "master"
    <2>1. IsMaster(1) /\ Connecting
      BY <1>1, <1>3, <1>4, EventsTyped DEF IsMaster, IsConn, Connecting
    <2>2. p.connDeviceIdx = 0 /\ ~p.is_connected[0] /\ p.bdaddr[0] \in Addrs
      BY <1>1, <2>1 DEF NodeInv, Fresh
    <2>3. ClientKept /\ slaveDev' \in SlaveDev
      BY <1>1, <1>3, <1>4 DEF OnConnection, ClientKept
    <2>4. (Connecting' => Connecting) /\ FoundInScan'
      BY <1>1, <1>3, PopKeepsAwaited DEF AwaitInv
    <2>5. perDevs' \in MasterConnected(p, h)
      BY <1>3, <1>4 DEF OnConnection
    <2>6. perDevs' = Unconnectable(p) \/ perDevs' = Connected(p, h)
      BY <2>2, <2>5 DEF MasterConnected
    <2>7. CASE perDevs' = Unconnectable(p)
      <3> DEFINE q == [p EXCEPT !.is_unconnectable[0] = FALSE, !.device_found = FALSE,
                                !.status = "DEVICE_NOT_FOUND"]
      <3>1. perDevs' = q
        BY <2>2, <2>7 DEF Unconnectable
      <3>2. /\ q \in PerDevs /\ q.status = "DEVICE_NOT_FOUND" /\ ~q.device_found
            /\ q.connDeviceIdx = p.connDeviceIdx /\ q.connDevices = p.connDevices
            /\ q.bdaddr = p.bdaddr /\ q.connection_handle = p.connection_handle
            /\ q.is_connected = p.is_connected /\ q.is_disconnected = p.is_disconnected
        <4>1. "DEVICE_NOT_FOUND" \in Statuses
          BY DEF Statuses
        <4>2. QED
          BY <1>1, <4>1, OneSlot DEF PerDevs
      <3> HIDE DEF q
      <3>3. Typed'
        BY <1>1, <1>2, <2>3, <3>1, <3>2, DeliveredTyped
      <3>4. LinkInv'
        <4>1. SlotKept
          BY <3>1, <3>2 DEF SlotKept
        <4>2. QED
          BY <1>1, <1>3, <2>3, <4>1, PopKeepsLinks
      <3>5. NodeInv'
        BY <1>1, <1>3, <2>4, <3>1, <3>2
           DEF NodeInv, Counted, Fresh, FoundBefore, ConnectingInPass, Discovering, Chain
      <3>6. AwaitInv'
        BY <2>4, <3>1, <3>2
           DEF AwaitInv, ScanAwaited, ConnectionAwaited, ProcedureAwaited, Scanning, Exploring
      <3>7. QED
        BY <3>3, <3>4, <3>5, <3>6 DEF IInv
    <2>8. CASE perDevs' = Connected(p, h)
      <3> DEFINE q == [p EXCEPT !.connection_handle[0] = h, !.is_disconnected[0] = FALSE,
                                !.status = "DEVICE_CONNECTED"]
      <3>1. perDevs' = q
        BY <2>2, <2>8 DEF Connected
      <3>2. /\ q \in PerDevs /\ q.status = "DEVICE_CONNECTED"
            /\ q.device_found = p.device_found
            /\ q.connDeviceIdx = p.connDeviceIdx /\ q.connDevices = p.connDevices
            /\ q.bdaddr = p.bdaddr /\ q.connection_handle[0] = h
            /\ q.is_connected = p.is_connected /\ ~q.is_disconnected[0]
        <4>1. "DEVICE_CONNECTED" \in Statuses
          BY DEF Statuses
        <4>2. QED
          BY <1>1, <1>3, <4>1, OneSlot DEF PerDevs
      <3> HIDE DEF q
      <3>3. Typed'
        BY <1>1, <1>2, <2>3, <3>1, <3>2, DeliveredTyped
      <3>4. LinkInv'
        BY <1>1, <1>3, <2>1, <2>2, <2>3, <3>1, <3>2, MasterLinks
      <3>5. NodeInv'
        BY <1>1, <1>3, <2>2, <2>4, <3>1, <3>2
           DEF NodeInv, Counted, Fresh, FoundBefore, ConnectingInPass, Discovering, Chain
      <3>6. AwaitInv'
        BY <2>4, <3>1, <3>2
           DEF AwaitInv, ScanAwaited, ConnectionAwaited, ProcedureAwaited, Scanning, Exploring
      <3>7. QED
        BY <3>3, <3>4, <3>5, <3>6 DEF IInv
    <2>9. QED
      BY <2>6, <2>7, <2>8
  <1>5. CASE events[1].role = "slave"
    <2>1. IsConn(1) /\ ~IsMaster(1)
      BY <1>3, <1>5 DEF IsMaster, IsConn
    <2>2. /\ perDevs' = perDevs
          /\ slaveDev' = [slaveDev EXCEPT !.conn_handle = h, !.is_connected = TRUE,
                                          !.is_discoverable = FALSE]
      BY <1>3, <1>5 DEF OnConnection
    <2>3. slaveDev' \in SlaveDev /\ slaveDev'.conn_handle = h
      BY <1>1, <1>3, <2>2 DEF SlaveDev
    <2>4. SlotKept /\ NodeKept
      BY <2>2 DEF SlotKept, NodeKept, NodeSame
    <2>5. Typed'
      BY <1>1, <1>2, <2>2, <2>3, DeliveredTyped
    <2>6. LinkInv'
      BY <1>1, <1>3, <2>1, <2>3, <2>4, SlaveLinks
    <2>7. NodeInv' /\ AwaitInv'
      BY <1>1, <1>3, <2>1, <2>2, <2>4, QuietPop
    <2>8. QED
      BY <2>5, <2>6, <2>7 DEF IInv
  <1>6. QED
    BY <1>3, <1>4, <1>5

\* GAP_DisconnectionComplete_CB: the node, the client, or, where the slot still
\* shows the old handle of a lost node, both.
LEMMA DisconnectionEvent ==
  ASSUME OneNode, IInv, OnDisconnection
  PROVE  IInv'
  <1>1. /\ Typed /\ LinkInv /\ NodeInv /\ AwaitInv
        /\ perDevs \in PerDevs /\ slaveDev \in SlaveDev
    BY DEF IInv, Typed, TypeOK
  <1>2. Deliver("disconn")
    BY DEF OnDisconnection
  <1> DEFINE h == events[1].handle
             p == perDevs
             node == h = p.connection_handle[0]
             q == IF SlotsOf(p, h) = {} THEN p
                  ELSE NodeDisconnected(p, CHOOSE i \in SlotsOf(p, h) : TRUE)
  <1>3. /\ events # <<>> /\ events' = Tail(events) /\ at = 0 /\ Head(events) = events[1]
        /\ UNCHANGED <<at, gap, links, gatt>>
        /\ 1 \in 1..Len(events) /\ events[1].type = "disconn" /\ h \in Handles
    BY <1>1, <1>2, Delivered, EventsTyped
  <1>4. q = IF node THEN NodeDisconnected(p, 0) ELSE p
    <2>1. SlotsOf(p, h) = IF node THEN {0} ELSE {}
      BY OneSlot DEF SlotsOf
    <2>2. QED
      BY <2>1
  <1> HIDE DEF q
  <1>5. /\ q \in PerDevs /\ q.device_found = p.device_found
        /\ q.connDeviceIdx = p.connDeviceIdx /\ q.bdaddr = p.bdaddr
        /\ q.connection_handle = p.connection_handle
        /\ q.connDevices = IF q.is_connected[0] THEN 1 ELSE 0
        /\ q.is_connected[0] => p.is_connected[0] /\ ~q.is_disconnected[0]
        /\ ~q.is_disconnected[0] => ~p.is_disconnected[0] /\ ~node
        /\ q.status = p.status \/ q.status = "CONN_INIT"
        /\ q.status = p.status => (~p.is_disconnected[0] => ~q.is_disconnected[0])
                                  \/ p.status = "CONN_INIT"
    <2>1. /\ p.connDevices = IF p.is_connected[0] THEN 1 ELSE 0
          /\ p.is_connected[0] => ~p.is_disconnected[0]
      BY <1>1 DEF NodeInv, Counted
    <2>2. CASE ~node
      <3>1. q = p
        BY <1>4, <2>2
      <3>2. QED
        BY <1>1, <2>1, <2>2, <3>1
    <2>3. CASE node /\ p.is_disconnected[0]
      <3>1. q = [p EXCEPT !.is_unconnectable[0] = TRUE]
        BY <1>4, <2>3 DEF NodeDisconnected
      <3>2. QED
        BY <1>1, <2>1, <2>3, <3>1, OneSlot DEF PerDevs
    <2>4. CASE node /\ ~p.is_disconnected[0]
      <3> DEFINE conn == IF p.is_connected[0] THEN Byte(p.connDevices - 1) ELSE p.connDevices
                 disc == IF p.is_connected[0] THEN Byte(p.discDevices + 1) ELSE p.discDevices
      <3>1. q = [p EXCEPT !.is_disconnected[0] = TRUE, !.is_unconnectable[0] = FALSE,
                          !.is_connected[0] = FALSE, !.connDevices = conn,
                          !.discDevices = disc, !.status = "CONN_INIT"]
        BY <1>4, <2>4 DEF NodeDisconnected
      <3>2. conn = 0
        BY <2>1, ByteRange
      <3>3. disc \in Bytes
        BY <1>1, ByteRange DEF PerDevs, Bytes
      <3>4. "CONN_INIT" \in Statuses
        BY DEF Statuses
      <3> HIDE DEF conn, disc
      <3>5. QED
        BY <1>1, <2>1, <2>4, <3>1, <3>2, <3>3, <3>4, ZeroIsAByte, OneSlot DEF PerDevs
    <2>5. QED
      BY <1>4, <2>2, <2>3, <2>4
  <1> DEFINE r == perDevs'
  <1>6. /\ r \in PerDevs /\ r.device_found = q.device_found
        /\ r.connDeviceIdx = q.connDeviceIdx /\ r.bdaddr = q.bdaddr
        /\ r.connection_handle = q.connection_handle
        /\ r.connDevices = q.connDevices
        /\ r.is_connected = q.is_connected /\ r.is_disconnected = q.is_disconnected
        /\ r.status = q.status \/ r.status = "DISABLE_NOTIFICATIONS"
    <2>1. CASE r = q
      BY <1>5, <2>1
    <2>2. CASE r = ClientDisconnected(q)
      <3> DEFINE on == [i \in Slots |-> q.on[i] \ {"prx", "agm", "sfusion"}]
                 read == [i \in Slots |-> FALSE]
      <3>1. r = [q EXCEPT !.on = on, !.sfusion_char_read = read, !.discovery_enabled = TRUE,
                          !.status = "DISABLE_NOTIFICATIONS"]
        BY <2>2 DEF ClientDisconnected
      <3>2. on \in [Slots -> SUBSET Streams] /\ read \in [Slots -> BOOLEAN]
        BY <1>5 DEF PerDevs
      <3>3. "DISABLE_NOTIFICATIONS" \in Statuses
        BY DEF Statuses
      <3> HIDE DEF on, read
      <3>4. QED
        BY <1>5, <3>1, <3>2, <3>3 DEF PerDevs
    <2>3. QED
      BY <1>3, <2>1, <2>2 DEF OnDisconnection, q
  <1>7. /\ slaveDev' \in SlaveDev
        /\ slaveDev'.is_connected =>
             /\ slaveDev.is_connected /\ slaveDev'.conn_handle = slaveDev.conn_handle
             /\ ~IsDisconn(1, slaveDev.conn_handle)
    <2>1. CASE h = slaveDev.conn_handle
      <3>1. slaveDev' = NoClient(slaveDev)
        BY <1>3, <2>1 DEF OnDisconnection
      <3>2. QED
        BY <1>1, <3>1 DEF NoClient, SlaveDev
    <2>2. CASE h # slaveDev.conn_handle
      <3>1. slaveDev' = slaveDev
        BY <1>3, <2>2 DEF OnDisconnection
      <3>2. QED
        BY <1>1, <2>2, <3>1 DEF IsDisconn
    <2>3. QED
      BY <2>1, <2>2
  <1>8. Typed'
    BY <1>1, <1>2, <1>6, <1>7, DeliveredTyped
  <1>9. LinkInv'
    <2>1. ~r.is_disconnected[0] =>
            ~p.is_disconnected[0] /\ ~IsDisconn(1, p.connection_handle[0])
      BY <1>5, <1>6 DEF IsDisconn
    <2>2. r.connection_handle = p.connection_handle /\ r.bdaddr = p.bdaddr
      BY <1>5, <1>6
    <2>3. QED
      BY <1>1, <1>3, <1>7, <2>1, <2>2, DisconnectionLinks
  <1>10. /\ Connecting' <=> Connecting
         /\ \A type : events[1].type # type /\ Queued(type) => Queued(type)'
         /\ FoundInScan'
    BY <1>1, <1>3, PopKeepsAwaited DEF AwaitInv, IsMaster, IsConn
  <1>11. /\ r.status \in Waiting \cup Discovering => r.status = p.status
         /\ r.status \in Exploring => r.status = p.status /\ q.status = p.status
    BY <1>5, <1>6 DEF Waiting, Scanning, Exploring, Discovering
  <1>12. NodeInv'
    <2>1. Counted'
      BY <1>5, <1>6 DEF Counted
    <2>2. Fresh'
      BY <1>1, <1>5, <1>6, <1>10, <1>11 DEF NodeInv, Fresh
    <2>3. FoundBefore' /\ ConnectingInPass'
      BY <1>1, <1>3, <1>5, <1>6, <1>11 DEF NodeInv, FoundBefore, ConnectingInPass, Chain
    <2>4. QED
      BY <2>1, <2>2, <2>3 DEF NodeInv
  <1>13. AwaitInv'
    <2>1. ScanAwaited' /\ ConnectionAwaited'
      BY <1>1, <1>3, <1>10, <1>11 DEF AwaitInv, ScanAwaited, ConnectionAwaited, Waiting
    <2>2. ProcedureAwaited'
      <3> SUFFICES ASSUME r.status \in Exploring
                   PROVE  /\ ~r.is_disconnected[0]
                          /\ (\/ Queued("proc_end")
                              \/ QueuedOf("disconn", perDevs.connection_handle[0])
                              \/ gatt[perDevs.connection_handle[0]] # None)'
        BY DEF ProcedureAwaited
      <3>1. PICK g : g = p.connection_handle[0]
        OBVIOUS
      <3>2. /\ ~p.is_disconnected[0]
            /\ \/ Queued("proc_end") \/ QueuedOf("disconn", g) \/ gatt[g] # None
        BY <1>1, <1>11, <3>1 DEF AwaitInv, ProcedureAwaited
      <3>3. ~q.is_disconnected[0] /\ ~node
        BY <1>5, <1>11, <3>2 DEF Exploring
      <3>4. ~IsDisconn(1, g)
        BY <3>1, <3>3 DEF IsDisconn
      <3>5. QueuedOf("disconn", g) => QueuedOf("disconn", g)'
        BY <1>1, <1>3, <3>4, PopKeepsEnds
      <3>6. r.connection_handle[0] = g /\ gatt' = gatt
        BY <1>3, <1>5, <1>6, <3>1
      <3>7. Queued("proc_end") => Queued("proc_end")'
        BY <1>3, <1>10
      <3>8. QED
        BY <1>6, <3>2, <3>3, <3>5, <3>6, <3>7
    <2>3. QED
      BY <1>10, <2>1, <2>2 DEF AwaitInv
  <1>14. QED
    BY <1>8, <1>9, <1>12, <1>13 DEF IInv

\* The pass begins when nothing is queued: the node the slot stands for is then
\* linked, and no other is being connected.
LEMMA PassBegins ==
  ASSUME OneNode, IInv, ProcessEnds
  PROVE  IInv'
  <1>1. /\ Typed /\ LinkInv /\ NodeInv /\ AwaitInv
        /\ events = <<>> /\ at' = 1
        /\ UNCHANGED <<perDevs, slaveDev, gap, links, gatt, events>>
    BY DEF IInv, ProcessEnds, devVars, ctrlVars, radioVars, linkVars
  <1>2. Typed'
    BY <1>1 DEF Typed, TypeOK
  <1>3. LinkInv'
    BY <1>1, PassKeepsLinks DEF LinkInv, GapFree, SlotKept, ClientKept
  <1>4. Counted' /\ Fresh' /\ FoundBefore'
    BY <1>1 DEF NodeInv, Counted, Fresh, FoundBefore, Connecting
  <1>5. ConnectingInPass'
    <2>1. DOMAIN events = {}
      BY <1>1
    <2>2. Connecting' => gap \in Addrs
      BY <1>1, <2>1 DEF Connecting
    <2>3. ~perDevs.is_disconnected[0] => gap \notin Addrs
      <3>1. \A h : ~QueuedOf("disconn", h)
        BY <2>1 DEF QueuedOf
      <3>2. QED
        BY <1>1, <3>1 DEF LinkInv, SlotLinked, GapFree, OneNode
    <2>4. QED
      BY <1>1, <2>2, <2>3 DEF ConnectingInPass
  <1>6. AwaitInv'
    BY <1>1 DEF AwaitInv, FoundInScan, ScanAwaited, ConnectionAwaited, ProcedureAwaited,
                Connecting, Queued, QueuedOf
  <1>7. QED
    BY <1>2, <1>3, <1>4, <1>5, <1>6 DEF IInv, NodeInv

LEMMA EventIInv == OneNode /\ IInv /\ HandleEvent => IInv'
  BY ConnectionEvent, DisconnectionEvent, ScanEvents, ProcedureEvents, DataEvents,
     PassBegins DEF HandleEvent

LEMMA InitIInv == OneNode /\ Init_Processes => IInv
  <1> SUFFICES ASSUME OneNode, Init_Processes PROVE IInv
    OBVIOUS
  <1>1. /\ events = <<>> /\ gap = "idle" /\ at = 0
        /\ links = [h \in Handles |-> None] /\ gatt = [h \in Handles |-> None]
    BY DEF Init_Processes, CtrlInit
  <1>2. /\ perDevs.status = "CONN_INIT" /\ perDevs.is_disconnected = [i \in Slots |-> TRUE]
        /\ perDevs.is_connected = [i \in Slots |-> FALSE] /\ perDevs.connDevices = 0
        /\ ~perDevs.device_found /\ ~slaveDev.is_connected
    BY DEF Init_Processes
  <1>3. Len(events) = 0 /\ DOMAIN events = {} /\ events \in Seq(Events)
    BY <1>1
  <1>4. Typed
    <2>1. perDevs \in PerDevs
      BY ZeroIsAByte DEF Init_Processes, PerDevs, Statuses
    <2>2. slaveDev \in SlaveDev
      BY DEF Init_Processes, SlaveDev
    <2>3. QED
      BY <1>1, <1>3, <2>1, <2>2, EventsMaxAssumption DEF Typed, TypeOK
  <1>5. LinkInv
    <2>1. gap \notin Addrs
      BY <1>1, PeersAssumption
    <2>2. perDevs.is_disconnected[0]
      BY <1>2, OneSlot
    <2>3. QED
      BY <1>2, <1>3, <2>1, <2>2
         DEF LinkInv, ConnsLinked, HandlesAlternate, NodeAlternates, HeldHandlesEnd,
             NodeEnds, SlotLinked, ClientLinked, GapFree
  <1>6. NodeInv
    BY <1>1, <1>2, <1>3, OneSlot, PeersAssumption
       DEF NodeInv, Counted, Fresh, FoundBefore, ConnectingInPass, Connecting, Chain,
           Discovering
  <1>7. AwaitInv
    BY <1>2, <1>3
       DEF AwaitInv, FoundInScan, ScanAwaited, ConnectionAwaited, ProcedureAwaited,
           Scanning, Exploring
  <1>8. QED
    BY <1>4, <1>5, <1>6, <1>7 DEF IInv

-----------------------------------------------------------------------------
(* Connection_Process and Reading_Process: the blocks.                     *)

LEMMA Blocked ==
  ASSUME Typed, NEW sts, Block(sts)
  PROVE  /\ at > 0 /\ at' \in 0..16 /\ events' = events
         /\ perDevs.status \in sts /\ perDevs.status \in DOMAIN BlockOf
  <1>1. /\ at > 0 /\ events' = events /\ perDevs.status \in sts
        /\ perDevs.status \in DOMAIN BlockOf /\ at' = BlockOf[perDevs.status] + 1
    BY DEF Block, Due
  <1>2. \A st \in DOMAIN BlockOf : BlockOf[st] \in 1..15
    BY DEF BlockOf
  <1>3. QED
    BY <1>1, <1>2

LEMMA PassTyped ==
  ASSUME Typed, at' \in 0..16, UNCHANGED <<links, events>>,
         perDevs' \in PerDevs, slaveDev' \in SlaveDev,
         gap' \in Addrs \cup {"idle", "scan"},
         gatt' \in [Handles -> Procedures \cup {None}]
  PROVE  Typed'
  BY DEF Typed, TypeOK

\* A GATT procedure is started on a link, or is not.
GattGains ==
  /\ gatt' \in [Handles -> Procedures \cup {None}]
  /\ \A h \in Handles : gatt'[h] = gatt[h] \/ gatt'[h] # None

LEMMA Started ==
  ASSUME Typed, NEW ok, NEW h, NEW proc \in Procedures, StartProcedure(ok, h, proc)
  PROVE  /\ ok \in BOOLEAN /\ GattGains
         /\ ok => h \in Handles /\ gatt'[h] # None
  <1>1. /\ ok \in BOOLEAN
        /\ ok => h \in Handles
        /\ gatt' = IF ok THEN [gatt EXCEPT ![h] = proc] ELSE gatt
    BY DEF StartProcedure, Returns
  <1>2. gatt \in [Handles -> Procedures \cup {None}] /\ proc # None
    BY DEF Typed, Procedures, Services, None
  <1>3. CASE ok
    <2> DEFINE g == [gatt EXCEPT ![h] = proc]
    <2>1. gatt' = g /\ h \in Handles
      BY <1>1, <1>3
    <2>2. /\ g \in [Handles -> Procedures \cup {None}] /\ g[h] = proc
          /\ \A k \in Handles : g[k] = gatt[k] \/ g[k] = proc
      BY <1>2, <2>1
    <2>3. QED
      BY <1>1, <1>2, <2>1, <2>2 DEF GattGains
  <1>4. CASE ~ok
    BY <1>1, <1>2, <1>4 DEF GattGains
  <1>5. QED
    BY <1>1, <1>3, <1>4

\* A step of the main loop that leaves the node and the client where they are,
\* and starts nothing but a GATT procedure.
LEMMA QuietBlock ==
  ASSUME IInv, at' \in 0..16, at' > 0 => at > 0, UNCHANGED <<gap, links, events>>,
         GattGains, slaveDev' \in SlaveDev, ClientKept, perDevs' \in PerDevs,
         perDevs'.device_found => perDevs.device_found,
         NodeSame(perDevs, [perDevs' EXCEPT !.device_found = perDevs.device_found]),
         \/ perDevs'.status = perDevs.status
         \/ /\ Moves(perDevs.status, perDevs'.status)
            /\ perDevs.status # "START_DEVICE_CONNECTION"
  PROVE  IInv'
  <1>1. /\ Typed /\ LinkInv /\ NodeInv /\ AwaitInv
    BY DEF IInv
  <1>2. /\ perDevs'.connDevices = perDevs.connDevices
        /\ perDevs'.connDeviceIdx = perDevs.connDeviceIdx
        /\ perDevs'.bdaddr = perDevs.bdaddr
        /\ perDevs'.connection_handle = perDevs.connection_handle
        /\ perDevs'.is_connected = perDevs.is_connected
        /\ perDevs'.is_disconnected = perDevs.is_disconnected
    BY DEF NodeSame, PerDevs
  <1>3. Typed'
    BY <1>1, PassTyped DEF Typed, TypeOK, GattGains
  <1>4. SlotKept
    BY <1>2 DEF SlotKept
  <1>5. LinkInv'
    BY <1>1, <1>4, PassKeepsLinks DEF LinkInv, GapFree
  <1>6. SlotLinked /\ \A h \in Handles : gatt'[h] = gatt[h] \/ gatt'[h] # None
    BY <1>1 DEF LinkInv, GattGains
  <1>7. NodeInv' /\ AwaitInv'
    BY <1>1, <1>2, <1>6, QuietPass
  <1>8. QED
    BY <1>3, <1>5, <1>7 DEF IInv

\* The same, when perDevs keeps all that NodeSame is about.
LEMMA QuietStep ==
  ASSUME IInv, at' \in 0..16, at' > 0 => at > 0, UNCHANGED <<gap, links, events>>,
         GattGains, slaveDev' \in SlaveDev, ClientKept, perDevs' \in PerDevs, NodeKept,
         \/ perDevs'.status = perDevs.status
         \/ /\ Moves(perDevs.status, perDevs'.status)
            /\ perDevs.status # "START_DEVICE_CONNECTION"
  PROVE  IInv'
  <1>1. NodeSame(perDevs, [perDevs' EXCEPT !.device_found = perDevs.device_found])
    BY DEF NodeKept, NodeSame, PerDevs
  <1>2. perDevs'.device_found => perDevs.device_found
    BY DEF NodeKept, NodeSame
  <1>3. QED
    BY <1>1, <1>2, QuietBlock

\* The blocks of Reading_Process.
LEMMA ReadingSteps ==
  ASSUME OneNode, IInv, StreamPass \/ ReadInit \/ NextNode \/ DisableNotifications \/ PassEnds
  PROVE  IInv'
  <1> DEFINE p == perDevs
  <1>1. /\ Typed /\ p \in PerDevs /\ slaveDev \in SlaveDev /\ at \in 0..16
        /\ gatt \in [Handles -> Procedures \cup {None}]
    BY DEF IInv, Typed, TypeOK
  <1>2. gatt' = gatt => GattGains
    BY <1>1 DEF GattGains
  <1>3. /\ {"ALL_DATA_READ", "CONN_INIT", "READ_INIT"} \subseteq Statuses
        /\ \A st \in {"ALL_DATA_READ", "CONN_INIT", "READ_INIT"} :
             st \notin Waiting /\ st \notin Chain
    BY DEF Statuses, Waiting, Scanning, Exploring, Chain, Discovering
  <1>4. CASE StreamPass
    <2>1. /\ at > 0 /\ at' \in 0..16 /\ events' = events /\ p.status = "NOTIFICATIONS_DATA_READ"
          /\ UNCHANGED <<slaveDev, gap, links, gatt>>
      BY <1>1, <1>4, Blocked DEF StreamPass, radioVars, linkVars
    <2>2. perDevs' = p \/ perDevs' = [p EXCEPT !.status = "ALL_DATA_READ"]
      BY <1>4 DEF StreamPass
    <2>3. /\ perDevs' \in PerDevs /\ NodeKept
          /\ perDevs'.status = p.status \/ perDevs'.status = "ALL_DATA_READ"
      <3>1. CASE perDevs' = p
        BY <1>1, <3>1 DEF NodeKept, NodeSame
      <3>2. CASE perDevs' = [p EXCEPT !.status = "ALL_DATA_READ"]
        BY <1>1, <1>3, <3>2, StatusTyped DEF NodeKept
      <3>3. QED
        BY <2>2, <3>1, <3>2
    <2>4. QED
      BY <1>1, <1>2, <1>3, <2>1, <2>3, QuietStep DEF Moves, ClientKept
  <1>5. CASE ReadInit
    <2>1. /\ at > 0 /\ at' \in 0..16 /\ events' = events /\ p.status = "READ_INIT"
          /\ UNCHANGED <<slaveDev, gap, links, gatt>>
      BY <1>1, <1>5, Blocked DEF ReadInit, radioVars, linkVars
    <2> DEFINE q == [p EXCEPT !.status = "ALL_DATA_READ"]
    <2>2. q \in PerDevs /\ NodeSame(p, q) /\ q.status = "ALL_DATA_READ"
      BY <1>1, <1>3, StatusTyped
    <2> HIDE DEF q
    <2>3. /\ perDevs' \in PerDevs /\ NodeKept /\ Moves(p.status, perDevs'.status)
      <3>1. CASE GATT_Procedure_Complete(q)
        <4>1. perDevs' \in PerDevs /\ NodeSame(q, perDevs') /\ Moves(q.status, perDevs'.status)
          BY <2>2, <3>1, Completed
        <4>2. QED
          BY <1>3, <2>2, <4>1 DEF Moves, NodeKept, NodeSame
      <3>2. CASE perDevs' = [p EXCEPT !.status = "CONN_INIT"]
        BY <1>1, <1>3, <3>2, StatusTyped DEF NodeKept, Moves
      <3>3. QED
        BY <1>5, <3>1, <3>2 DEF ReadInit, q
    <2>4. QED
      BY <1>1, <1>2, <2>1, <2>3, QuietStep DEF ClientKept
  <1>6. CASE NextNode
    <2>1. /\ at > 0 /\ at' \in 0..16 /\ events' = events /\ p.status = "ALL_DATA_READ"
          /\ UNCHANGED <<gap, links, gatt>>
      BY <1>1, <1>6, Blocked DEF NextNode, radioVars, linkVars, Set_Slave_Discoverable
    <2>2. slaveDev' \in SlaveDev /\ ClientKept
      <3>1. slaveDev' = slaveDev \/ slaveDev' = [slaveDev EXCEPT !.is_discoverable = TRUE]
        BY <1>6 DEF NextNode
      <3>2. QED
        BY <1>1, <3>1 DEF SlaveDev, ClientKept
    <2> DEFINE i == p.readDeviceIdx
               j == IF i > 0 THEN i - 1 ELSE i
               st == IF i = 0 THEN "CONN_INIT" ELSE "READ_INIT"
               q == [p EXCEPT !.readDeviceIdx = j, !.status = st]
    <2>3. perDevs' = q
      BY <1>6 DEF NextNode
    <2>4. j \in Bytes /\ st \in Statuses /\ st \notin Waiting /\ st \notin Chain
      BY <1>1, <1>3, ByteAssumption DEF PerDevs, Bytes
    <2> HIDE DEF j, st
    <2>5. q \in PerDevs /\ NodeSame(p, q) /\ q.status = st
      BY <1>1, <2>4 DEF PerDevs, NodeSame
    <2>6. QED
      BY <1>1, <1>2, <2>1, <2>2, <2>3, <2>4, <2>5, QuietStep DEF Moves, NodeKept
  <1>7. CASE DisableNotifications
    <2>1. /\ at > 0 /\ at' \in 0..16 /\ events' = events /\ p.status = "DISABLE_NOTIFICATIONS"
          /\ UNCHANGED <<slaveDev, gap, links, gatt>>
      BY <1>1, <1>7, Blocked DEF DisableNotifications, radioVars, linkVars
    <2> DEFINE t == Disable_All_Notifications(p).p
    <2>2. t \in PerDevs /\ NodeSame(p, t)
      BY <1>1, DisableAllKeeps
    <2>3. perDevs' = [t EXCEPT !.status = "ALL_DATA_READ"]
      BY <1>7 DEF DisableNotifications
    <2> HIDE DEF t
    <2>4. perDevs' \in PerDevs /\ NodeKept /\ perDevs'.status = "ALL_DATA_READ"
      BY <1>3, <2>2, <2>3, StatusTyped DEF NodeKept, NodeSame
    <2>5. QED
      BY <1>1, <1>2, <1>3, <2>1, <2>4, QuietStep DEF Moves, ClientKept
  <1>8. CASE PassEnds
    <2>1. at' = 0 /\ UNCHANGED <<perDevs, slaveDev, gap, links, gatt, events>>
      BY <1>8 DEF PassEnds, devVars, ctrlVars, radioVars, linkVars
    <2>2. QED
      BY <1>1, <1>2, <2>1, QuietStep DEF ClientKept, NodeKept, NodeSame
  <1>9. QED
    BY <1>4, <1>5, <1>6, <1>7, <1>8

\* Reading a characteristic, and writing a descriptor.
LEMMA GattSteps ==
  ASSUME OneNode, IInv, Read_Sensor_Data \/ Write_Charac_Descriptor
  PROVE  IInv'
  <1> DEFINE p == perDevs
  <1>1. /\ Typed /\ p \in PerDevs /\ slaveDev \in SlaveDev /\ at \in 0..16
        /\ gatt \in [Handles -> Procedures \cup {None}]
    BY DEF IInv, Typed, TypeOK
  <1>2. gatt' = gatt => GattGains
    BY <1>1 DEF GattGains
  <1>3. CASE Read_Sensor_Data
    <2>1. /\ at > 0 /\ at' \in 0..16 /\ events' = events /\ p.status = "READING_AI_RECOGNITION"
          /\ UNCHANGED <<slaveDev, gap>>
      BY <1>1, <1>3, Blocked DEF Read_Sensor_Data, radioVars
    <2>2. GATT_Procedure_Complete(p) =>
            perDevs' \in PerDevs /\ NodeKept /\ Moves(p.status, perDevs'.status)
      BY <1>1, Completed DEF NodeKept
    <2>3. perDevs' = p => perDevs' \in PerDevs /\ NodeKept /\ perDevs'.status = p.status
      BY <1>1 DEF NodeKept, NodeSame
    <2>4. ASSUME NEW h, ReadOf(h)
          PROVE  /\ GattGains /\ links' = links
                 /\ perDevs' = p \/ GATT_Procedure_Complete(p)
      <3>1. PICK ok \in BOOLEAN : /\ StartProcedure(ok, h, "read")
                                  /\ IF ok THEN perDevs' = p ELSE GATT_Procedure_Complete(p)
                                  /\ links' = links
        BY <2>4 DEF ReadOf
      <3>2. "read" \in Procedures
        BY DEF Procedures
      <3>3. QED
        BY <1>1, <3>1, <3>2, Started
    <2>5. /\ GattGains /\ links' = links
          /\ perDevs' = p \/ GATT_Procedure_Complete(p)
      BY <1>2, <1>3, <2>4 DEF Read_Sensor_Data, linkVars
    <2>6. QED
      BY <1>1, <2>1, <2>2, <2>3, <2>5, QuietStep DEF ClientKept
  <1>4. CASE Write_Charac_Descriptor
    <2>1. UNCHANGED <<perDevs, slaveDev, at, links, gap, events>>
      BY <1>4 DEF Write_Charac_Descriptor, devVars, radioVars
    <2>2. \E ok, h : StartProcedure(ok, h, "write")
      BY <1>4 DEF Write_Charac_Descriptor
    <2>3. "write" \in Procedures
      BY DEF Procedures
    <2>4. GattGains
      BY <1>1, <2>2, <2>3, Started
    <2>5. QED
      BY <1>1, <2>1, <2>4, QuietStep DEF ClientKept, NodeKept, NodeSame
  <1>5. QED
    BY <1>3, <1>4

\* The blocks of Connection_Process that command no connection and no procedure.
LEMMA ConnectionSteps ==
  ASSUME OneNode, IInv, ChooseNotifications \/ Enable_Notifications
  PROVE  IInv'
  <1> DEFINE p == perDevs
  <1>1. /\ Typed /\ p \in PerDevs /\ slaveDev \in SlaveDev
        /\ gatt \in [Handles -> Procedures \cup {None}]
    BY DEF IInv, Typed, TypeOK
  <1>2. gatt' = gatt => GattGains
    BY <1>1 DEF GattGains
  <1>3. CASE ChooseNotifications
    <2>1. /\ at > 0 /\ at' \in 0..16 /\ events' = events
          /\ p.status = "CONFIGURATION_SERV_CHARS_DISCOVERED"
          /\ UNCHANGED <<slaveDev, gap, links, gatt>>
      BY <1>1, <1>3, Blocked DEF ChooseNotifications, radioVars, linkVars
    <2>2. PICK st \in {"NOTIFICATIONS_ENABLED", "ENABLE_ME1_LED_NOTIFICATIONS",
                       "ENABLE_SE1_HAR_NOTIFICATIONS"} :
            perDevs' = [p EXCEPT !.status = st]
      BY <1>3 DEF ChooseNotifications
    <2>3. st \in Statuses /\ Moves(p.status, st)
      BY <2>1, <2>2
         DEF Statuses, Moves, Waiting, Scanning, Exploring, Chain, Discovering
    <2>4. perDevs' \in PerDevs /\ NodeKept /\ Moves(p.status, perDevs'.status)
      BY <1>1, <2>2, <2>3, StatusTyped DEF NodeKept
    <2>5. QED
      BY <1>1, <1>2, <2>1, <2>4, QuietStep DEF ClientKept
  <1>4. CASE Enable_Notifications
    <2>1. /\ at > 0 /\ at' \in 0..16 /\ events' = events
          /\ UNCHANGED <<perDevs, slaveDev, gap, links, gatt>>
      BY <1>1, <1>4, Blocked DEF Enable_Notifications, devVars, radioVars, linkVars
    <2>2. QED
      BY <1>1, <1>2, <2>1, QuietStep DEF ClientKept, NodeKept, NodeSame
  <1>5. QED
    BY <1>3, <1>4

\* A scan is started, or refused, or not wanted.
LEMMA ConnInitStep ==
  ASSUME OneNode, IInv, ConnInit
  PROVE  IInv'
  <1> DEFINE p == perDevs
             stopAdv == ~slaveDev.is_connected /\ slaveDev.is_discoverable
  <1>1. /\ Typed /\ LinkInv /\ NodeInv /\ AwaitInv
        /\ p \in PerDevs /\ slaveDev \in SlaveDev
        /\ gatt \in [Handles -> Procedures \cup {None}]
    BY DEF IInv, Typed, TypeOK
  <1>2. /\ at > 0 /\ at' \in 0..16 /\ events' = events /\ p.status = "CONN_INIT"
        /\ UNCHANGED <<links, gatt>>
    BY <1>1, Blocked DEF ConnInit, linkVars
  <1>3. GattGains
    BY <1>1, <1>2 DEF GattGains
  <1>4. CASE Start_Discovery
    <2>1. PICK ok \in BOOLEAN :
            /\ StartScan(ok, stopAdv)
            /\ perDevs' = IF ok THEN [p EXCEPT !.status = "START_DEVICE_DISCOVERY"]
                          ELSE ScanOver([p EXCEPT !.status = "START_DEVICE_DISCOVERY"])
      BY <1>4 DEF Start_Discovery
    <2>2. slaveDev' \in SlaveDev /\ ClientKept
      <3>1. slaveDev' = [slaveDev EXCEPT !.is_discoverable = @ /\ ~stopAdv]
        BY <1>4 DEF Start_Discovery
      <3>2. QED
        BY <1>1, <3>1 DEF SlaveDev, ClientKept
    <2>3. CASE ~ok
      <3> DEFINE q == [p EXCEPT !.device_found = FALSE,
                                !.status = "DEVICE_DISCOVERY_COMPLETE"]
      <3>1. perDevs' = q /\ gap' = gap
        <4> DEFINE a == [p EXCEPT !.status = "START_DEVICE_DISCOVERY"]
        <4>1. perDevs' = ScanOver(a) /\ gap' = gap
          BY <2>1, <2>3 DEF StartScan
        <4>2. a.status = "START_DEVICE_DISCOVERY"
          BY <1>1 DEF PerDevs
        <4>3. ScanOver(a) = q
          BY <1>1, <4>2 DEF ScanOver, PerDevs
        <4>4. QED
          BY <4>1, <4>3
      <3>2. "DEVICE_DISCOVERY_COMPLETE" \in Statuses
        BY DEF Statuses
      <3>3. /\ q \in PerDevs /\ q.device_found = FALSE
            /\ q.status = "DEVICE_DISCOVERY_COMPLETE"
            /\ NodeSame(p, [q EXCEPT !.device_found = p.device_found])
        BY <1>1, <3>2 DEF PerDevs, NodeSame
      <3>4. Moves(p.status, q.status)
        BY <3>3 DEF Moves, Waiting, Scanning, Exploring, Chain, Discovering
      <3> HIDE DEF q
      <3>5. QED
        BY <1>2, <1>3, <2>2, <3>1, <3>3, <3>4, QuietBlock
    <2>4. CASE ok
      <3> DEFINE q == [p EXCEPT !.status = "START_DEVICE_DISCOVERY"]
      <3>1. perDevs' = q /\ gap = "idle" /\ gap' = "scan"
        BY <2>1, <2>4 DEF StartScan, Returns
      <3>2. gap \notin Addrs /\ gap' \notin Addrs
        BY <3>1, PeersAssumption
      <3>3. q \in PerDevs /\ NodeSame(p, q) /\ q.status = "START_DEVICE_DISCOVERY"
        BY <1>1, StatusTyped DEF Statuses
      <3> HIDE DEF q
      <3>4. Typed'
        BY <1>1, <1>2, <1>3, <2>2, <3>1, <3>3, PassTyped DEF GattGains
      <3>5. LinkInv'
        <4>1. SlotKept
          BY <3>1, <3>3 DEF SlotKept, NodeSame
        <4>2. QED
          BY <1>1, <1>2, <2>2, <3>2, <4>1, PassKeepsLinks
      <3>6. Connecting' <=> Connecting
        BY <1>2, <3>2 DEF Connecting
      <3>7. NodeInv'
        <4>1. Counted' /\ FoundBefore'
          BY <1>1, <3>1, <3>3
             DEF NodeInv, Counted, FoundBefore, NodeSame, Chain, Discovering
        <4>2. Fresh'
          BY <1>1, <3>1, <3>3, <3>6 DEF NodeInv, Fresh, NodeSame, Discovering
        <4>3. ConnectingInPass'
          BY <1>1, <1>2, <3>1, <3>3, <3>6 DEF NodeInv, ConnectingInPass, NodeSame
        <4>4. QED
          BY <4>1, <4>2, <4>3 DEF NodeInv
      <3>8. AwaitInv'
        BY <3>1, <3>3
           DEF AwaitInv, FoundInScan, ScanAwaited, ConnectionAwaited, ProcedureAwaited,
               Exploring
      <3>9. QED
        BY <3>4, <3>5, <3>7, <3>8 DEF IInv
    <2>5. QED
      BY <2>3, <2>4
  <1>5. CASE perDevs' = [p EXCEPT !.status = "DEVICE_CONNECTED"]
             /\ UNCHANGED <<slaveDev, radioVars>>
    <2>1. "DEVICE_CONNECTED" \in Statuses /\ Moves(p.status, "DEVICE_CONNECTED")
      BY <1>2 DEF Statuses, Moves, Waiting, Scanning, Exploring, Chain, Discovering
    <2>2. perDevs' \in PerDevs /\ NodeKept /\ Moves(p.status, perDevs'.status)
      BY <1>1, <1>5, <2>1, StatusTyped DEF NodeKept
    <2>3. slaveDev' \in SlaveDev /\ ClientKept /\ gap' = gap
      BY <1>1, <1>5 DEF ClientKept, radioVars
    <2>4. QED
      BY <1>2, <1>3, <2>2, <2>3, QuietStep
  <1>6. QED
    BY <1>4, <1>5 DEF ConnInit

\* The node that was found is connected, and then explored.
LEMMA ConnectSteps ==
  ASSUME OneNode, IInv, DiscoveryComplete \/ ConnectionOver
  PROVE  IInv'
  <1> DEFINE p == perDevs
  <1>1. /\ Typed /\ LinkInv /\ NodeInv /\ AwaitInv
        /\ p \in PerDevs /\ slaveDev \in SlaveDev
        /\ gatt \in [Handles -> Procedures \cup {None}]
    BY DEF IInv, Typed, TypeOK
  <1>2. /\ at > 0 /\ at' \in 0..16 /\ events' = events
        /\ p.status \in {"DEVICE_DISCOVERY_COMPLETE", "DEVICE_CONNECTED", "DEVICE_NOT_FOUND"}
        /\ UNCHANGED <<slaveDev, links, gatt>>
    BY <1>1, Blocked DEF DiscoveryComplete, ConnectionOver, linkVars
  <1>3. GattGains /\ slaveDev' \in SlaveDev /\ ClientKept
    BY <1>1, <1>2 DEF GattGains, ClientKept
  <1>4. /\ {"START_DEVICE_CONNECTION", "DEVICE_NOT_FOUND", "READ_INIT",
            "DISCOVERABLE_MODE_SET"} \subseteq Statuses
        /\ \A st \in {"DEVICE_NOT_FOUND", "READ_INIT"} : Moves(p.status, st)
    BY DEF Statuses, Moves, Waiting, Scanning, Exploring, Chain, Discovering
  <1>5. CASE DiscoveryComplete /\ p.device_found
    <2>1. p.connDeviceIdx = 0 /\ ~p.is_connected[0] /\ p.bdaddr[0] \in Addrs
      BY <1>1, <1>5 DEF NodeInv, Fresh
    <2> DEFINE a == p.bdaddr[0]
               q == [p EXCEPT !.status = "START_DEVICE_CONNECTION"]
    <2>2. PICK ok \in BOOLEAN :
            /\ CreateConnection(ok, a)
            /\ perDevs' \in IF ok THEN {q}
                            ELSE MasterConnected([q EXCEPT !.is_unconnectable[0] = TRUE], 0)
      BY <1>5, <2>1 DEF DiscoveryComplete, Connect_Peripheral
    <2>3. CASE ~ok
      <3> DEFINE u == [q EXCEPT !.is_unconnectable[0] = TRUE]
                 r == [p EXCEPT !.is_unconnectable[0] = FALSE, !.device_found = FALSE,
                                !.status = "DEVICE_NOT_FOUND"]
      <3>1. u.connDeviceIdx = 0 /\ u.is_unconnectable[0] = TRUE
        BY <1>1, <2>1, OneSlot DEF PerDevs
      <3>2. perDevs' = Unconnectable(u)
        BY <2>2, <2>3, <3>1, OneSlot DEF MasterConnected
      <3>3. Unconnectable(u) = r
        BY <1>1, <2>1, <3>1, OneSlot DEF Unconnectable, PerDevs
      <3>4. /\ r \in PerDevs /\ r.device_found = FALSE /\ r.status = "DEVICE_NOT_FOUND"
            /\ NodeSame(p, [r EXCEPT !.device_found = p.device_found])
        BY <1>1, <1>4, OneSlot DEF PerDevs, NodeSame
      <3>5. gap' = gap
        BY <2>2, <2>3 DEF CreateConnection
      <3> HIDE DEF r, u
      <3>6. perDevs' = r
        BY <3>2, <3>3
      <3>7. Moves(p.status, perDevs'.status) /\ p.status # "START_DEVICE_CONNECTION"
        BY <1>2, <1>4, <3>4, <3>6
      <3>8. QED
        BY <1>2, <1>3, <3>4, <3>5, <3>6, <3>7, QuietBlock
    <2>4. CASE ok
      <3>1. perDevs' = q /\ gap = "idle" /\ a \notin Linked /\ gap' = a
        BY <2>2, <2>4 DEF CreateConnection, Returns
      <3>2. q \in PerDevs /\ NodeSame(p, q) /\ q.status = "START_DEVICE_CONNECTION"
        BY <1>1, <1>4, StatusTyped
      <3> HIDE DEF q
      <3>3. gap' \in Addrs /\ \A h \in Handles : links[h] # gap'
        BY <2>1, <3>1, PeersAssumption DEF Linked, None
      <3>4. Typed'
        BY <1>1, <1>2, <1>3, <3>1, <3>2, <3>3, PassTyped DEF GattGains
      <3>5. LinkInv'
        <4>1. SlotKept
          BY <3>1, <3>2 DEF SlotKept, NodeSame
        <4>2. QED
          BY <1>1, <1>2, <1>3, <3>3, <4>1, PassKeepsLinks
      <3>6. NodeInv'
        <4>1. Counted' /\ FoundBefore' /\ ConnectingInPass'
          BY <1>1, <3>1, <3>2
             DEF NodeInv, Counted, FoundBefore, ConnectingInPass, NodeSame, Chain
        <4>2. Fresh'
          BY <2>1, <3>1, <3>2 DEF Fresh, NodeSame
        <4>3. QED
          BY <4>1, <4>2 DEF NodeInv
      <3>7. AwaitInv'
        <4>1. FoundInScan'
          BY <1>1, <1>2, <3>1 DEF AwaitInv, FoundInScan
        <4>2. Connecting'
          BY <3>3 DEF Connecting
        <4>3. QED
          BY <3>1, <3>2, <4>1, <4>2
             DEF AwaitInv, ScanAwaited, ConnectionAwaited, ProcedureAwaited, Scanning,
                 Exploring
      <3>8. QED
        BY <3>4, <3>5, <3>6, <3>7 DEF IInv
    <2>5. QED
      BY <2>3, <2>4
  <1>6. CASE ConnectionOver /\ p.device_found
    <2> DEFINE q == [p EXCEPT !.status = "DISCOVERABLE_MODE_SET", !.device_found = FALSE]
    <2>1. perDevs' = q /\ gap' = gap
      BY <1>6 DEF ConnectionOver, radioVars
    <2>2. /\ q \in PerDevs /\ q.status = "DISCOVERABLE_MODE_SET" /\ ~q.device_found
          /\ NodeSame(p, [q EXCEPT !.device_found = p.device_found])
          /\ q.connDevices = p.connDevices /\ q.connDeviceIdx = p.connDeviceIdx
          /\ q.bdaddr = p.bdaddr /\ q.connection_handle = p.connection_handle
          /\ q.is_connected = p.is_connected /\ q.is_disconnected = p.is_disconnected
      BY <1>1, <1>4 DEF PerDevs, NodeSame
    <2> HIDE DEF q
    <2>3. Typed'
      BY <1>1, <1>2, <1>3, <2>1, <2>2, PassTyped DEF GattGains, Typed, TypeOK
    <2>4. LinkInv'
      <3>1. SlotKept
        BY <2>1, <2>2 DEF SlotKept
      <3>2. QED
        BY <1>1, <1>2, <1>3, <2>1, <3>1, PassKeepsLinks DEF LinkInv, GapFree
    <2>5. Connecting' <=> Connecting
      BY <1>2, <2>1 DEF Connecting
    <2>6. NodeInv'
      <3>1. Counted' /\ FoundBefore'
        BY <1>1, <2>1, <2>2 DEF NodeInv, Counted, FoundBefore
      <3>2. Fresh'
        BY <1>1, <1>6, <2>1, <2>2 DEF NodeInv, Fresh
      <3>3. ConnectingInPass'
        BY <1>1, <1>2, <2>1, <2>2, <2>5 DEF NodeInv, ConnectingInPass
      <3>4. QED
        BY <3>1, <3>2, <3>3 DEF NodeInv
    <2>7. AwaitInv'
      BY <1>1, <1>2, <2>1, <2>2
         DEF AwaitInv, FoundInScan, ScanAwaited, ConnectionAwaited, ProcedureAwaited,
             Scanning, Exploring
    <2>8. QED
      BY <2>3, <2>4, <2>6, <2>7 DEF IInv
  <1>7. CASE DiscoveryComplete /\ ~p.device_found
    <2>1. perDevs' = [p EXCEPT !.status = "DEVICE_NOT_FOUND"] /\ gap' = gap
      BY <1>7 DEF DiscoveryComplete, radioVars
    <2>2. perDevs' \in PerDevs /\ NodeKept /\ Moves(p.status, perDevs'.status)
      BY <1>1, <1>4, <2>1, StatusTyped DEF NodeKept
    <2>3. QED
      BY <1>2, <1>3, <2>1, <2>2, QuietStep
  <1>8. CASE ConnectionOver /\ ~p.device_found
    <2> DEFINE i == Byte(p.connDevices + p.discDevices - 1)
               q == [p EXCEPT !.status = "READ_INIT", !.readDeviceIdx = i]
    <2>1. perDevs' = q /\ gap' = gap
      BY <1>8 DEF ConnectionOver, radioVars
    <2>2. i \in Bytes
      BY <1>1, ByteRange DEF PerDevs, Bytes
    <2> HIDE DEF i
    <2>3. q \in PerDevs /\ NodeSame(p, q) /\ q.status = "READ_INIT"
      BY <1>1, <1>4, <2>2 DEF PerDevs, NodeSame
    <2>4. QED
      BY <1>2, <1>3, <1>4, <2>1, <2>3, QuietStep DEF NodeKept
  <1>9. QED
    BY <1>5, <1>6, <1>7, <1>8

\* A procedure of the discovery: it is waited for only when it was started, on
\* the link of the node.
LEMMA Explores ==
  ASSUME OneNode, IInv, NEW proc \in Procedures, NEW st \in Exploring, Discover(proc, st),
         at > 0, at' \in 0..16, UNCHANGED <<slaveDev, gap, events>>, perDevs.status \in Chain
  PROVE  IInv'
  <1> DEFINE p == perDevs
             q == [p EXCEPT !.status = st]
  <1>1. /\ Typed /\ LinkInv /\ NodeInv /\ AwaitInv
        /\ p \in PerDevs /\ slaveDev \in SlaveDev
        /\ gatt \in [Handles -> Procedures \cup {None}]
    BY DEF IInv, Typed, TypeOK
  <1>2. st \in Statuses /\ st \in Chain /\ st # "START_DEVICE_CONNECTION" /\ st \notin Scanning
    BY DEF Exploring, Statuses, Chain, Discovering, Scanning
  <1>3. p.connDeviceIdx = 0 /\ ~p.is_connected[0] /\ p.bdaddr[0] \in Addrs /\ ~p.device_found
    BY <1>1 DEF NodeInv, Fresh, FoundBefore, Chain
  <1>4. q \in PerDevs /\ NodeSame(p, q) /\ q.status = st
    BY <1>1, <1>2, StatusTyped
  <1>5. slaveDev' \in SlaveDev /\ ClientKept
    BY <1>1 DEF ClientKept
  <1>6. p.status # "START_DEVICE_CONNECTION"
    BY DEF Chain
  <1>7. \/ GATT_Procedure_Complete(q) /\ UNCHANGED <<links, gatt>>
        \/ \E ok \in BOOLEAN :
             /\ StartProcedure(ok, p.connection_handle[0], proc) /\ links' = links
             /\ IF ok THEN perDevs' = q /\ ~p.is_disconnected[0]
                ELSE GATT_Procedure_Complete(q)
    BY <1>3 DEF Discover, linkVars
  <1> HIDE DEF q
  <1>8. CASE GATT_Procedure_Complete(q) /\ links' = links /\ GattGains
    <2>1. perDevs' \in PerDevs /\ NodeSame(q, perDevs') /\ Moves(st, perDevs'.status)
      BY <1>4, <1>8, Completed
    <2>2. NodeKept /\ Moves(p.status, perDevs'.status)
      BY <1>4, <2>1 DEF NodeKept, NodeSame, Moves
    <2>3. QED
      BY <1>5, <1>6, <1>8, <2>1, <2>2, QuietStep
  <1>9. CASE /\ perDevs' = q /\ ~p.is_disconnected[0] /\ links' = links /\ GattGains
             /\ gatt'[p.connection_handle[0]] # None
    <2>1. Typed'
      BY <1>1, <1>4, <1>5, <1>9, PassTyped DEF GattGains, Typed, TypeOK
    <2>2. LinkInv'
      <3>1. SlotKept
        BY <1>4, <1>9 DEF SlotKept, NodeSame
      <3>2. QED
        BY <1>1, <1>5, <1>9, <3>1, PassKeepsLinks DEF LinkInv, GapFree
    <2>3. Connecting' <=> Connecting
      BY DEF Connecting
    <2>4. NodeInv'
      <3>1. Counted' /\ FoundBefore' /\ Fresh'
        BY <1>1, <1>3, <1>4, <1>9 DEF NodeInv, Counted, FoundBefore, Fresh, NodeSame
      <3>2. ConnectingInPass'
        BY <1>1, <1>4, <1>6, <1>9, <2>3 DEF NodeInv, ConnectingInPass, NodeSame
      <3>3. QED
        BY <3>1, <3>2 DEF NodeInv
    <2>5. AwaitInv'
      <3>1. FoundInScan' /\ ScanAwaited' /\ ConnectionAwaited'
        BY <1>1, <1>2, <1>4, <1>9 DEF AwaitInv, FoundInScan, ScanAwaited, ConnectionAwaited
      <3>2. ProcedureAwaited'
        BY <1>4, <1>9 DEF ProcedureAwaited, NodeSame
      <3>3. QED
        BY <3>1, <3>2 DEF AwaitInv
    <2>6. QED
      BY <2>1, <2>2, <2>4, <2>5 DEF IInv
  <1>10. QED
    <2>1. gatt' = gatt => GattGains
      BY <1>1 DEF GattGains
    <2>2. \A ok : StartProcedure(ok, p.connection_handle[0], proc) =>
            GattGains /\ (ok => gatt'[p.connection_handle[0]] # None)
      BY <1>1, Started
    <2>3. QED
      BY <1>7, <1>8, <1>9, <2>1, <2>2

LEMMA ExploreSteps ==
  ASSUME OneNode, IInv, Discover_Services \/ DiscoverChars
  PROVE  IInv'
  <1> DEFINE p == perDevs
  <1>1. /\ Typed /\ p \in PerDevs /\ slaveDev \in SlaveDev
        /\ gatt \in [Handles -> Procedures \cup {None}]
    BY DEF IInv, Typed, TypeOK
  <1>2. CASE Discover_Services
    <2>1. /\ at > 0 /\ at' \in 0..16 /\ p.status = "DISCOVERABLE_MODE_SET"
          /\ UNCHANGED <<slaveDev, gap, events>>
          /\ Discover("services", "START_SERVICE_DISCOVERY")
      BY <1>1, <1>2, Blocked DEF Discover_Services, radioVars
    <2>2. /\ "services" \in Procedures /\ "START_SERVICE_DISCOVERY" \in Exploring
          /\ p.status \in Chain
      BY <2>1 DEF Procedures, Exploring, Chain, Discovering
    <2>3. QED
      BY <2>1, <2>2, Explores
  <1>3. ASSUME NEW serv \in Services, NEW before \in Chain, NEW running \in Exploring,
               NEW after \in Chain \ Waiting,
               after \in Statuses,
               Discover_Service_Chars(serv, before, running, after)
        PROVE  IInv'
    <2>1. /\ at > 0 /\ at' \in 0..16 /\ p.status = before
          /\ UNCHANGED <<slaveDev, gap, events>>
          /\ \/ Discover(serv, running)
             \/ /\ perDevs' = [p EXCEPT !.status = after]
                /\ UNCHANGED linkVars
      BY <1>1, <1>3, Blocked DEF Discover_Service_Chars, radioVars
    <2>2. CASE Discover(serv, running)
      BY <1>3, <2>1, <2>2, Explores DEF Procedures
    <2>3. CASE perDevs' = [p EXCEPT !.status = after] /\ UNCHANGED linkVars
      <3>1. perDevs' \in PerDevs /\ NodeKept /\ perDevs'.status = after
        BY <1>1, <1>3, <2>3, StatusTyped DEF NodeKept
      <3>2. Moves(p.status, perDevs'.status) /\ p.status # "START_DEVICE_CONNECTION"
        BY <1>3, <2>1, <3>1 DEF Moves, Chain
      <3>3. GattGains /\ links' = links
        BY <1>1, <2>3 DEF GattGains, linkVars
      <3>4. QED
        BY <1>1, <2>1, <3>1, <3>2, <3>3, QuietStep DEF ClientKept
    <2>4. QED
      BY <2>1, <2>2, <2>3
  <1>4. CASE DiscoverChars
    <2> USE DEF Services, Chain, Discovering, Waiting, Scanning, Exploring, Statuses
    <2>1. CASE Discover_Service_Chars("hw", "SERVICE_DISCOVERED",
                 "START_HARDWARE_SERV_CHARS_DISCOVERY", "HARDWARE_SERV_CHARS_DISCOVERED")
      BY <1>3, <2>1
    <2>2. CASE Discover_Service_Chars("sw", "HARDWARE_SERV_CHARS_DISCOVERED",
                 "START_SOFTWARE_SERV_CHARS_DISCOVERY", "SOFTWARE_SERV_CHARS_DISCOVERED")
      BY <1>3, <2>2
    <2>3. CASE Discover_Service_Chars("cfgs", "SOFTWARE_SERV_CHARS_DISCOVERED",
                 "START_CONFIGURATION_SERV_CHARS_DISCOVERY",
                 "CONFIGURATION_SERV_CHARS_DISCOVERED")
      BY <1>3, <2>3
    <2>4. QED
      BY <1>4, <2>1, <2>2, <2>3 DEF DiscoverChars
  <1>5. QED
    BY <1>2, <1>4

\* The node is counted in: connDeviceIdx, now past the table, is not used before
\* the next node is found.
LEMMA ReadyStep ==
  ASSUME OneNode, IInv, NodeReady
  PROVE  IInv'
  <1> DEFINE p == perDevs
  <1>1. /\ Typed /\ LinkInv /\ NodeInv /\ AwaitInv
        /\ p \in PerDevs /\ slaveDev \in SlaveDev
        /\ gatt \in [Handles -> Procedures \cup {None}]
    BY DEF IInv, Typed, TypeOK
  <1>2. /\ at > 0 /\ at' \in 0..16 /\ events' = events /\ p.status = "NOTIFICATIONS_ENABLED"
        /\ UNCHANGED <<slaveDev, gap, links, gatt>>
    BY <1>1, Blocked DEF NodeReady, radioVars, linkVars
  <1>3. GattGains /\ slaveDev' \in SlaveDev /\ ClientKept
    BY <1>1, <1>2 DEF GattGains, ClientKept
  <1>4. p.status \in Chain /\ p.status \in Discovering /\ p.status # "START_DEVICE_CONNECTION"
    BY <1>2 DEF Chain, Discovering
  <1>5. /\ p.connDeviceIdx = 0 /\ ~p.is_connected[0] /\ p.connDevices = 0
        /\ ~p.device_found
    BY <1>1, <1>4 DEF NodeInv, Fresh, Counted, FoundBefore
  <1>6. /\ "READ_INIT" \in Statuses /\ "READ_INIT" \notin Waiting
        /\ "READ_INIT" \notin Discovering
    BY DEF Statuses, Waiting, Scanning, Exploring, Discovering
  <1>7. CASE p.is_disconnected[0]
    <2> DEFINE i == Byte(p.connDevices - 1)
               q == [p EXCEPT !.readDeviceIdx = i, !.status = "READ_INIT"]
    <2>1. perDevs' = q
      BY <1>5, <1>7 DEF NodeReady
    <2>2. i \in Bytes
      BY <1>5, ByteRange
    <2> HIDE DEF i
    <2>3. q \in PerDevs /\ NodeSame(p, q) /\ q.status = "READ_INIT"
      BY <1>1, <1>6, <2>2 DEF PerDevs, NodeSame
    <2>4. Moves(p.status, "READ_INIT")
      BY <1>6 DEF Moves, Chain
    <2> HIDE DEF q
    <2>5. QED
      BY <1>2, <1>3, <1>4, <2>1, <2>3, <2>4, QuietStep DEF NodeKept
  <1>8. CASE ~p.is_disconnected[0]
    <2> DEFINE q == [p EXCEPT !.is_connected[0] = TRUE, !.connDeviceIdx = 1,
                              !.connDevices = 1, !.readDeviceIdx = 0, !.status = "READ_INIT"]
    <2>1. perDevs' = q
      <3> DEFINE n == [p EXCEPT !.is_connected[0] = TRUE,
                                !.connDeviceIdx = Byte(p.connDeviceIdx + 1),
                                !.connDevices = Byte(p.connDevices + 1)]
      <3>1. perDevs' = [n EXCEPT !.readDeviceIdx = Byte(n.connDevices - 1),
                                 !.status = "READ_INIT"]
        BY <1>1, <1>5, <1>8 DEF NodeReady, PerDevs
      <3>2. p.connDeviceIdx + 1 = 1 /\ p.connDevices + 1 = 1 /\ 1 - 1 = 0
        BY <1>5
      <3>3. Byte(p.connDeviceIdx + 1) = 1 /\ Byte(p.connDevices + 1) = 1 /\ Byte(1 - 1) = 0
        BY <3>2, ByteRange
      <3>4. n = [p EXCEPT !.is_connected[0] = TRUE, !.connDeviceIdx = 1, !.connDevices = 1]
        BY <3>3
      <3> HIDE DEF n
      <3>5. n.connDevices = 1
        BY <1>1, <3>4 DEF PerDevs
      <3>6. perDevs' = [n EXCEPT !.readDeviceIdx = 0, !.status = "READ_INIT"]
        BY <3>1, <3>3, <3>5
      <3>7. QED
        BY <1>1, <3>4, <3>6 DEF PerDevs
    <2>2. /\ q \in PerDevs /\ q.status = "READ_INIT"
          /\ q.connDevices = 1 /\ q.is_connected[0] = TRUE
          /\ q.device_found = p.device_found /\ q.is_disconnected = p.is_disconnected
          /\ q.bdaddr = p.bdaddr /\ q.connection_handle = p.connection_handle
      <3>1. 1 \in Bytes
        BY ByteAssumption DEF Bytes
      <3>2. QED
        BY <1>1, <1>6, <3>1, ZeroIsAByte, OneSlot DEF PerDevs
    <2> HIDE DEF q
    <2>3. Typed'
      BY <1>1, <1>2, <1>3, <2>1, <2>2, PassTyped DEF GattGains, Typed, TypeOK
    <2>4. LinkInv'
      <3>1. SlotKept
        BY <2>1, <2>2 DEF SlotKept
      <3>2. QED
        BY <1>1, <1>2, <1>3, <3>1, PassKeepsLinks DEF LinkInv, GapFree
    <2>5. NodeInv'
      <3>1. ~Connecting
        BY <1>1, <1>2, <1>4, <1>8 DEF NodeInv, ConnectingInPass
      <3>2. ~Connecting'
        BY <1>2, <3>1 DEF Connecting
      <3>3. QED
        BY <1>5, <1>6, <1>8, <2>1, <2>2, <3>2
           DEF NodeInv, Counted, Fresh, FoundBefore, ConnectingInPass, Chain
    <2>6. AwaitInv'
      BY <1>1, <1>2, <1>6, <2>1, <2>2
         DEF AwaitInv, FoundInScan, ScanAwaited, ConnectionAwaited, ProcedureAwaited, Waiting
    <2>7. QED
      BY <2>3, <2>4, <2>5, <2>6 DEF IInv
  <1>9. QED
    BY <1>7, <1>8

-----------------------------------------------------------------------------
(* The specification.                                                      *)

LEMMA StutterIInv ==
  ASSUME IInv, UNCHANGED vars
  PROVE  IInv'
  <1>1. /\ UNCHANGED <<perDevs, slaveDev, at, gap, links, gatt, events>>
    BY DEF vars, devVars, ctrlVars, radioVars, linkVars
  <1>2. Typed'
    BY <1>1 DEF IInv, Typed, TypeOK
  <1>3. LinkInv'
    BY <1>1, PassKeepsLinks DEF IInv, LinkInv, GapFree, SlotKept, ClientKept
  <1>4. NodeInv'
    BY <1>1 DEF IInv, NodeInv, Counted, Fresh, FoundBefore, ConnectingInPass, Connecting
  <1>5. AwaitInv'
    BY <1>1 DEF IInv, AwaitInv, FoundInScan, ScanAwaited, ConnectionAwaited,
                ProcedureAwaited, Connecting, Queued, QueuedOf
  <1>6. QED
    BY <1>2, <1>3, <1>4, <1>5 DEF IInv

LEMMA NextIInv == OneNode /\ IInv /\ [Next]_vars => IInv'
  <1> SUFFICES ASSUME OneNode, IInv, [Next]_vars PROVE IInv'
    OBVIOUS
  <1>1. CASE HandleEvent
    BY <1>1, EventIInv
  <1>2. CASE Connection_Process
    BY <1>2, ConnInitStep, ConnectSteps, ExploreSteps, ConnectionSteps, ReadyStep
       DEF Connection_Process
  <1>3. CASE Reading_Process
    BY <1>3, ReadingSteps, GattSteps DEF Reading_Process
  <1>4. CASE Write_Charac_Descriptor
    BY <1>4, GattSteps
  <1>5. CASE Air
    BY <1>5, AirIInv
  <1>6. CASE UNCHANGED vars
    BY <1>6, StutterIInv
  <1>7. QED
    BY <1>1, <1>2, <1>3, <1>4, <1>5, <1>6 DEF Next, Host

\* The invariant is kept by every handler, every block and everything that
\* happens on the air, whatever was queued, refused or lost before.
THEOREM Inductive ==
  ASSUME OneNode
  PROVE  Spec => []IInv
  <1>1. Init_Processes => IInv
    BY InitIInv
  <1>2. IInv /\ [Next]_vars => IInv'
    BY NextIInv
  <1>3. QED
    BY <1>1, <1>2, PTL DEF Spec

\* The fields keep the types of the source: no counter of the table wraps into
\* an index or a handle, and the pass stays inside its blocks.
THEOREM TypeCorrect ==
  ASSUME OneNode
  PROVE  Spec => []TypeOK
  <1>1. IInv => TypeOK
    BY DEF IInv, Typed
  <1>2. QED
    BY <1>1, Inductive, PTL

\* connDevices, counted up when a discovery ends and down when a link is lost,
\* is the number of nodes served, each of which is linked.
THEOREM NodesAreCounted ==
  ASSUME OneNode
  PROVE  Spec => []NodesCounted
  <1>1. IInv => NodesCounted
    <2> SUFFICES ASSUME IInv PROVE NodesCounted
      OBVIOUS
    <2>1. Counted
      BY DEF IInv, NodeInv
    <2>2. ConnectedSlots = IF perDevs.is_connected[0] THEN {0} ELSE {}
      BY OneSlot DEF ConnectedSlots
    <2>3. Cardinality({0}) = 1 /\ Cardinality({}) = 0
      BY FS_Singleton, FS_EmptySet
    <2>4. QED
      BY <2>1, <2>2, <2>3 DEF Counted, NodesCounted
  <1>2. QED
    BY <1>1, Inductive, PTL

\* Whatever happens between the moment a node is found and the end of its
\* discovery (a scan that is refused or starts again, a link that is lost, a
\* client that comes and goes), connDeviceIdx is its slot.
THEOREM IndexStaysInTable ==
  ASSUME OneNode
  PROVE  Spec => []IndexInTable
  <1>1. IInv => IndexInTable
    BY OneSlot DEF IInv, NodeInv, Fresh, IndexInTable
  <1>2. QED
    BY <1>1, Inductive, PTL

\* The handle of a slot in use is that of the link to the slot's node, or the
\* end of that link is queued: no other link ever gets the handle first.
THEOREM SlotsStayLinked ==
  ASSUME OneNode
  PROVE  Spec => []SlotsAreLinked
  <1>1. IInv => SlotsAreLinked
    BY OneSlot DEF IInv, LinkInv, SlotLinked, SlotsAreLinked, OneNode
  <1>2. QED
    BY <1>1, Inductive, PTL

\* The client the slave service believes in is linked, or the end of its link
\* is queued, and no event about it is taken for one about the node.
THEOREM ClientStaysLinked ==
  ASSUME OneNode
  PROVE  Spec => []ClientIsLinked
  <1>1. IInv => ClientIsLinked
    BY OneSlot DEF IInv, LinkInv, ClientLinked, SlotHolds, ClientIsLinked
  <1>2. QED
    BY <1>1, Inductive, PTL

\* The statuses that only an event can leave are never waited in with nothing
\* under way and nothing queued that would end them, although the callbacks
\* overwrite the status at any time.
THEOREM NothingIsAwaitedInVain ==
  ASSUME OneNode
  PROVE  Spec => []NothingAwaitedInVain
  <1>1. IInv => NothingAwaitedInVain
    <2> SUFFICES ASSUME IInv PROVE NothingAwaitedInVain
      OBVIOUS
    <2>1. AwaitInv /\ SlotLinked
      BY DEF IInv, LinkInv
    <2>2. \A h : QueuedOf("disconn", h) => Queued("disconn")
      BY DEF QueuedOf, Queued
    <2>3. QED
      BY <2>1, <2>2
         DEF AwaitInv, ScanAwaited, ConnectionAwaited, ProcedureAwaited, SlotLinked,
             NothingAwaitedInVain
  <1>2. QED
    BY <1>1, Inductive, PTL
=============================================================================
