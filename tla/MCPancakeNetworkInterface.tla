--------------------- MODULE MCPancakeNetworkInterface ---------------------
(***************************************************************************)
(* Model checking of PancakeNetworkInterface: domains and memory are       *)
(* interchangeable.                                                        *)
(***************************************************************************)
EXTENDS PancakeNetworkInterface

Symmetry == Permutations(Cell) \union Permutations(Domain)
=============================================================================
