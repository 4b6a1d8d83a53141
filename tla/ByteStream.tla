----------------------------- MODULE ByteStream -----------------------------
(***************************************************************************)
(* What the UART side of the WiFi driver promises to its parser: the bytes *)
(* of the module, each once and in order, except that the parser may put   *)
(* back the last bytes it has taken and then sees them again.  A byte is   *)
(* its position in the stream.                                             *)
(***************************************************************************)
EXTENDS Naturals

VARIABLES
  sent,    \* bytes the module has sent
  taken,   \* bytes the parser has taken and not put back
  popped   \* the bytes the last Take gave it

vars == <<sent, taken, popped>>

Init == sent = 0 /\ taken = 0 /\ popped = <<>>

Arrive == sent' = sent + 1 /\ UNCHANGED <<taken, popped>>

Take ==
  \E n \in 1..(sent - taken) :
    /\ popped' = [i \in 1..n |-> taken + i]
    /\ taken' = taken + n
    /\ UNCHANGED sent

PutBack ==
  \E n \in 1..taken : taken' = taken - n /\ UNCHANGED <<sent, popped>>

Next == Arrive \/ Take \/ PutBack

Spec == Init /\ [][Next]_vars
=============================================================================
