------------------------ MODULE MCPancakeHTTPRewrite ------------------------
(***************************************************************************)
(* Model checking of PancakeHTTPRewrite: the operations of rulesets are    *)
(* those that make a difference to a request for HTTP 1.0 or 1.1.          *)
(***************************************************************************)
EXTENDS PancakeHTTPRewrite

MCOperations ==
  {Opcode("IF_EQUAL", "HTTPVersion", 10),
   Opcode("IF_NOT_EQUAL", "HTTPVersion", 11),
   Opcode("SET", "HTTPVersion", 11),
   Opcode("SET", "HTTPVersion", 10),
   Opcode("SET", "HTTPMethod", 2),
   Opcode("CALL", "ThrowException", 0)}
=============================================================================
