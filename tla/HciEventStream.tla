--------------------------- MODULE HciEventStream ---------------------------
(***************************************************************************)
(* What the HCI transport promises the application about events, whatever  *)
(* buffers, interrupts and commands do underneath: they are passed to      *)
(* HCI_Event_CB one at a time and in the order in which the controller     *)
(* raised them.  An event may be withdrawn (it answered a command, it was  *)
(* malformed, or it was dropped for lack of buffers), but never overtakes  *)
(* another one and is never passed on twice.                               *)
(***************************************************************************)
EXTENDS Integers, SequencesExt

CONSTANTS
  Event,   \* what the controller can raise
  Nothing  \* not an event

VARIABLES
  stream,  \* events raised and neither delivered nor withdrawn, oldest first
  current  \* the event the application is working on

vars == <<stream, current>>

Init == stream = <<>> /\ current = Nothing

Raise ==
  /\ \E e \in Event : stream' = Append(stream, e)
  /\ UNCHANGED current

Deliver ==
  /\ current = Nothing /\ stream # <<>>
  /\ current' = Head(stream) /\ stream' = Tail(stream)

Consume ==
  /\ current # Nothing
  /\ current' = Nothing
  /\ UNCHANGED stream

Withdraw ==
  /\ \E i \in 1..Len(stream) : stream' = RemoveAt(stream, i)
  /\ UNCHANGED current

Next == Raise \/ Deliver \/ Consume \/ Withdraw

Spec == Init /\ [][Next]_vars
=============================================================================
