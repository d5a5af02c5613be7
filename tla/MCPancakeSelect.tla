--------------------------- MODULE MCPancakeSelect ---------------------------
(***************************************************************************)
(* Model checking of PancakeSelect with a handful of descriptors.  The     *)
(* order of descriptors matters, so there is no symmetry.                  *)
(***************************************************************************)
EXTENDS PancakeSelect

(* The listening socket lies between descriptors that clients get, and one *)
(* of these may be free above the communication socket.                    *)
MCFDs == 1..4
MCListening == {3}
MCEarly == {1}
=============================================================================
