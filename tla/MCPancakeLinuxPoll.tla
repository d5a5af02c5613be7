------------------------- MODULE MCPancakeLinuxPoll -------------------------
(***************************************************************************)
(* Model checking of PancakeLinuxPoll with one listening socket and a few  *)
(* clients, whose events come in batches of two.                           *)
(***************************************************************************)
EXTENDS PancakeLinuxPoll, TLC

Symmetry == Permutations(Socket \ (Listening \union Early))
=============================================================================
