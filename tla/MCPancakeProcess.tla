-------------------------- MODULE MCPancakeProcess --------------------------
(***************************************************************************)
(* Six modules in all of their orders (every one that another needs, and   *)
(* the network layer) and up to three workers.                             *)
(***************************************************************************)
EXTENDS PancakeProcess
=============================================================================
