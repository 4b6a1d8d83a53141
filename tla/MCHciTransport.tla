--------------------------- MODULE MCHciTransport ---------------------------
(***************************************************************************)
(* Small instances of HciTransport.  Opcodes and notices are model values; *)
(* permuting either set maps behaviours to behaviours.                     *)
(***************************************************************************)
EXTENDS HciTransport

Symmetry == Permutations(Opcodes) \cup Permutations(Notices)
=============================================================================
