---------------------------- MODULE MCBleMaster ----------------------------
(* Small instances of BleMaster for TLC. *)
EXTENDS BleMaster, TLC

CONSTANTS n1, n2, phone

OneSE1 == (n1 :> "SE1")
OneFL1 == (n1 :> "FL1")
TwoNodes == (n1 :> "FL1") @@ (n2 :> "ME1")

RecognitionOnly == (n1 :> {"hw", "ai"})
TwoOffers == (n1 :> {"hw", "prx"}) @@ (n2 :> {"hw", "agm"})
ProximityNode == (n1 :> {"hw", "cfgs", "cfg", "prx", "agm"})

NoCommands == {}
\* What the phone writes: scanning on and off, and a subscription to the data.
ScanCommands == {[cmd |-> "scan", value |-> v] : v \in {1, 2}}
                \cup {[cmd |-> "data_notify", value |-> 1]}

\* What it writes to switch the streams of the node.
Switch(chars, modes) ==
  {[cmd |-> "stream", node |-> n1, char |-> c, mode |-> m] : c \in chars, m \in modes}
Subscription == {[cmd |-> "data_notify", value |-> 1]}
BothCommands == ScanCommands \cup Switch({"prx", "agm"}, {0, 1})
=============================================================================
