---------------------------- MODULE BleController ----------------------------
(***************************************************************************)
(* The BlueNRG controller, the nodes and the client (a phone) as the BLE   *)
(* application sees them through the ACI commands it sends and the events  *)
(* it gets.  Not part of the repository: modelled from how the application *)
(* uses it.  Events reach the application in order (module HciTransport).  *)
(***************************************************************************)
EXTENDS Integers, SequencesExt

CONSTANTS
  Addrs,       \* the peripheral nodes, named by their addresses
  Clients,     \* the clients that may connect to the central node
  Offers,      \* [Addrs -> SUBSET Attrs]: services and characteristics of a node
  Handles,     \* the connection handles the controller gives
  ClientCmds,  \* what clients write to the Star service
  Losable,     \* the peers whose link may be lost
  Unreliable,  \* commands may be refused for no visible reason
  EventsMax    \* bound: events on their way to the application

ASSUME HandlesAssumption == Handles \subseteq Nat \ {0}
ASSUME PeersAssumption == /\ Addrs \cap Clients = {}
                          /\ {"none", "idle", "scan"} \cap (Addrs \cup Clients) = {}
ASSUME EventsMaxAssumption == EventsMax \in Nat
ASSUME UnreliableAssumption == Unreliable \in BOOLEAN
ASSUME LosableAssumption == Losable \subseteq Addrs \cup Clients

Services == {"hw", "sw", "cfgs"}
Streams == {"wup", "mic", "prx", "agm", "sfusion"}
Attrs == Services \cup Streams \cup {"ai", "cfg"}
CharsOf == [hw |-> Attrs \ (Services \cup {"sfusion", "cfg"}),
            sw |-> {"sfusion"}, cfgs |-> {"cfg"}]

ASSUME OffersAssumption == Offers \in [Addrs -> SUBSET Attrs]

None == "none"
Peers == Addrs \cup Clients

\* What the application understands of a write to the Star service: scanning on
\* (1) or off (2), a LED or a stream of a node, the two subscriptions.
Commands ==
  [cmd : {"scan", "data_notify"}, value : Nat]
  \cup [cmd : {"config_notify"}]
  \cup [cmd : {"led"}, node : Addrs]
  \cup [cmd : {"stream"}, node : Addrs, char : Streams \ {"wup"}, mode : {0, 1}]

ASSUME ClientCmdsAssumption == ClientCmds \subseteq Commands

VARIABLES
  gap,       \* GAP procedure: "idle", "scan", or the node being connected
  reported,  \* nodes reported by this scan (duplicates are filtered)
  adv,       \* the central node advertises itself
  links,     \* the peer behind each handle
  gatt,      \* the GATT procedure running on each link
  subs,      \* the notifications enabled on the peer of each link
  events     \* events not yet handled by the application

radioVars == <<gap, reported, adv>>
linkVars == <<links, gatt, subs>>
ctrlVars == <<radioVars, linkVars, events>>

CtrlInit ==
  /\ gap = "idle" /\ reported = {} /\ adv = FALSE
  /\ links = [h \in Handles |-> None]
  /\ gatt = [h \in Handles |-> None]
  /\ subs = [h \in Handles |-> {}]
  /\ events = <<>>

Linked == {links[h] : h \in Handles} \ {None}
FreeHandles == {h \in Handles : links[h] = None}

Post(es) == Len(events) + Len(es) <= EventsMax /\ events' = events \o es

-----------------------------------------------------------------------------
(* What happens on the air.                                                *)

\* A node that matches the filter of the application is heard.
Advertise(a) ==
  /\ gap = "scan" /\ a \notin Linked \cup reported
  /\ reported' = reported \cup {a}
  /\ Post(<<[type |-> "adv", addr |-> a]>>)
  /\ UNCHANGED <<gap, adv, linkVars>>

ScanEnds ==
  /\ gap = "scan"
  /\ gap' = "idle"
  /\ Post(<<[type |-> "scan_end"]>>)
  /\ UNCHANGED <<reported, adv, linkVars>>

\* A link gets the lowest free handle.
Link(peer, role) ==
  \E h \in FreeHandles :
    /\ \A g \in FreeHandles : h <= g
    /\ links' = [links EXCEPT ![h] = peer]
    /\ Post(<<[type |-> "conn", handle |-> h, role |-> role]>>)
    /\ UNCHANGED <<gatt, subs>>

NodeConnects ==
  /\ gap \in Addrs \ Linked
  /\ Link(gap, "master")
  /\ gap' = "idle"
  /\ UNCHANGED <<reported, adv>>

ClientConnects(c) ==
  /\ adv /\ c \notin Linked
  /\ Link(c, "slave")
  /\ adv' = FALSE
  /\ UNCHANGED <<gap, reported>>

LinkLost(h) ==
  /\ links[h] \in Losable
  /\ links' = [links EXCEPT ![h] = None]
  /\ gatt' = [gatt EXCEPT ![h] = None]
  /\ subs' = [subs EXCEPT ![h] = {}]
  /\ Post(<<[type |-> "disconn", handle |-> h]>>)
  /\ UNCHANGED radioVars

\* What a successful procedure finds on the peer.
Found(h) ==
  IF links[h] \notin Addrs THEN {}
  ELSE Offers[links[h]] \cap (IF gatt[h] = "services" THEN Services ELSE CharsOf[gatt[h]])

\* A procedure ends, with success or with an error.
ProcedureEnds(h) ==
  /\ gatt[h] # None
  /\ \/ gatt[h] \in Services \cup {"services"}
        /\ Post(<<[type |-> "found", attrs |-> Found(h), addr |-> links[h]],
                  [type |-> "proc_end", handle |-> h]>>)
     \/ Post(<<[type |-> "proc_end", handle |-> h]>>)
  /\ gatt' = [gatt EXCEPT ![h] = None]
  /\ UNCHANGED <<radioVars, links, subs>>

Notify(h, s) ==
  /\ s \in subs[h]
  /\ Post(<<[type |-> "notification", handle |-> h, char |-> s]>>)
  /\ UNCHANGED <<radioVars, linkVars>>

ClientWrites(h, c) ==
  /\ links[h] \in Clients
  /\ Post(<<[type |-> "modified", cmd |-> c]>>)
  /\ UNCHANGED <<radioVars, linkVars>>

Radio ==
  \/ \E a \in Addrs : Advertise(a)
  \/ ScanEnds \/ NodeConnects
  \/ \E c \in Clients : ClientConnects(c)
  \/ \E h \in Handles : LinkLost(h) \/ ProcedureEnds(h)
  \/ \E h \in Handles, s \in Streams : Notify(h, s)
  \/ \E h \in Handles, c \in ClientCmds : ClientWrites(h, c)

-----------------------------------------------------------------------------
(* Commands.  ok is what the command returns; a refused one changes nothing. *)

Returns(ok, possible) == ok \in BOOLEAN /\ (ok => possible) /\ (~ok => ~possible \/ Unreliable)

\* aci_gap_start_general_discovery_proc, after the advertising was stopped if
\* stopAdv: scanning and advertising exclude each other.
StartScan(ok, stopAdv) ==
  /\ Returns(ok, gap = "idle" /\ (stopAdv \/ ~adv))
  /\ adv' = (adv /\ ~stopAdv)
  /\ gap' = IF ok THEN "scan" ELSE gap
  /\ reported' = IF ok THEN {} ELSE reported

\* aci_gap_create_connection.
CreateConnection(ok, a) ==
  /\ Returns(ok, gap = "idle" /\ a \notin Linked)
  /\ gap' = IF ok THEN a ELSE gap
  /\ UNCHANGED <<reported, adv>>

\* A GATT procedure: one at a time on a link.
StartProcedure(ok, h, proc) ==
  /\ Returns(ok, h \in Handles /\ links[h] # None /\ gatt[h] = None)
  /\ gatt' = IF ok THEN [gatt EXCEPT ![h] = proc] ELSE gatt
=============================================================================
