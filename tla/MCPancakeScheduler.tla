------------------------ MODULE MCPancakeScheduler -------------------------
(* A small scheduler for TLC.  Three owners and three instances make lists *)
(* of up to three events with equal and different times, so that an event  *)
(* can be inserted at the head, at the tail and in between; two of them    *)
(* recycle each other's instances.  No symmetry, as there is a liveness    *)
(* property.                                                               *)
EXTENDS PancakeScheduler

CONSTANTS e1, e2, e3, o1, o2, o3

MCEvent == {e1, e2, e3}
MCOwner == {o1, o2, o3}
MCTimeouts == {0, 2}
=============================================================================
