------------------------ MODULE MCPancakeHTTPFastCGI ------------------------
(***************************************************************************)
(* Model checking of PancakeHTTPFastCGI: clients are interchangeable, and  *)
(* so is the memory for connections.                                       *)
(***************************************************************************)
EXTENDS PancakeHTTPFastCGI

Kind(http10, head, body) == [http10 |-> http10, head |-> head, body |-> body]

Get == Kind(FALSE, FALSE, 0)
Post == Kind(FALSE, FALSE, 2)

Setup(keepAlive, multiplexes, kinds) ==
  [keepAlive |-> keepAlive, multiplexes |-> multiplexes, kinds |-> kinds]

(* All kinds of requests over connections of their own; one kind over      *)
(* connections that are kept, by servers that multiplex or do not.         *)
MCSetups ==
  {Setup(FALSE, FALSE, {Get, Post, Kind(TRUE, FALSE, 0), Kind(FALSE, TRUE, 0)}),
   Setup(TRUE, FALSE, {Get}), Setup(TRUE, TRUE, {Get})}
MCPost == {Setup(FALSE, FALSE, {Post})}
MCGet == {Setup(FALSE, FALSE, {Get})}
MCMultiplexes == {Setup(TRUE, TRUE, {Get})}

Symmetry == Permutations(Client) \union Permutations(Connection)
=============================================================================
