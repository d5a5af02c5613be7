---------------------- MODULE MCPancakeHTTPConnection ----------------------
(***************************************************************************)
(* Model checking of PancakeHTTPConnection with two clients and files of   *)
(* up to four blocks; no symmetry, as liveness is checked, too.            *)
(***************************************************************************)
EXTENDS PancakeHTTPConnection
=============================================================================
