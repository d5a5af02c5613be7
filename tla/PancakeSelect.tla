--------------------------- MODULE PancakeSelect ---------------------------
(***************************************************************************)
(* The select server architecture (PancakeSelect.c): two sets of file      *)
(* descriptors and a table that leads from a descriptor to its socket, the *)
(* highest descriptor, which bounds what select looks at, and the scan of  *)
(* the reported descriptors from the highest one down, which counts the    *)
(* reports it has found so as to stop early.                               *)
(*                                                                         *)
(* A hangup is not reported; the scan finds it by peeking into a readable  *)
(* socket.  Handlers belong to other modules; those of FastCGI act on the  *)
(* sockets of others, too (relays).                                        *)
(***************************************************************************)
EXTENDS Integers, FiniteSets, FiniteSetsExt

CONSTANTS FDs,        \* the file descriptors (bound on their number)
          Listening,  \* those of the listening sockets
          Early,      \* those registered before the server runs: the
                      \* communication socket of a worker
          SetSize,    \* FD_SETSIZE
          NULL        \* the null pointer

ASSUME DescriptorAssumption ==
  /\ SetSize \in Nat /\ FDs \subseteq 1..SetSize-1
  /\ Listening \subseteq FDs /\ Early \subseteq FDs
  /\ Listening \intersect Early = {}
  /\ NULL \notin FDs

VARIABLES
  relays,         \* whether a module is there whose handlers act on sockets
                  \* of others; fixed
  open,           \* the descriptors in use
  new,            \* those of sockets that came in the scan at hand
  readSet,        \* PancakeSelectReadFDSet
  writeSet,       \* PancakeSelectWriteFDSet
  sockets,        \* the descriptors whose entry in PancakeSelectSockets is set
  maxFD,          \* PancakeSelectMaxFD
  readable,       \* the reported descriptors of the scan: to be read ...
  writable,       \* ... and to be written
  fd,             \* where the scan is
  numEvents,      \* the reports it still has to find
  currentSocket,  \* the socket at fd, or NULL
  pc

tables == <<readSet, writeSet, sockets, maxFD>>
scan == <<readable, writable, fd, numEvents>>
vars == <<relays, open, new, tables, scan, currentSocket, pc>>

TypeOK ==
  /\ relays \in BOOLEAN
  /\ {open, new, readSet, writeSet, sockets, readable, writable} \subseteq SUBSET FDs
  /\ maxFD \in 0..SetSize /\ fd \in 0..SetSize /\ numEvents \in 0..2 * Cardinality(FDs)
  /\ currentSocket \in FDs \union {NULL}
  /\ pc \in {"starting", "waiting", "scanning", "reading", "hangup", "looked",
             "writing", "timers"}

-----------------------------------------------------------------------------
(* Registration: what an operation makes of the sets, table and bound.     *)

Raised(f) == IF f > maxFD THEN f ELSE maxFD

(* PancakeSelectDetermineMaxFD looks at the table below the old bound.     *)
Determined(table) ==
  LET below == {i \in table : i < maxFD}
  IN  IF maxFD <= 1 THEN 0 ELSE IF below = {} THEN maxFD ELSE Max(below)

(* mutant: the bound stays when a descriptor above it is registered        *)
AddsBelow(f, evs) ==
  /\ readSet' = readSet \union {f}
  /\ writeSet' = IF "OUT" \in evs THEN writeSet \union {f} ELSE writeSet
  /\ sockets' = sockets \union {f}
  /\ maxFD' = maxFD

(* The three that add; one to write adds to the read set, too.             *)
Add(f, evs) ==
  /\ readSet' = readSet \union {f}
  /\ writeSet' = IF "OUT" \in evs THEN writeSet \union {f} ELSE writeSet
  /\ sockets' = sockets \union {f}
  /\ maxFD' = Raised(f)

AddReadSocket(f) == Add(f, {"IN"})
AddWriteSocket(f) == Add(f, {"OUT"})
AddReadWriteSocket(f) == Add(f, {"IN", "OUT"})

(* The three that set: reading is never disabled.                          *)
Set(f, evs) ==
  /\ readSet' = readSet \union {f}
  /\ writeSet' = IF "OUT" \in evs THEN writeSet \union {f} ELSE writeSet \ {f}
  /\ sockets' = sockets \union {f}
  /\ maxFD' = Raised(f)

SetReadSocket(f) == Set(f, {"IN"})
SetWriteSocket(f) == Set(f, {"OUT"})
SetSocket(f) == Set(f, {})

(* This one sets the bit it is to clear.                                   *)
RemoveReadSocket(f) ==
  /\ readSet' = readSet \union {f}
  /\ sockets' = sockets \union {f}
  /\ maxFD' = IF f = maxFD THEN Determined(sockets) ELSE maxFD
  /\ UNCHANGED writeSet

RemoveWriteSocket(f) ==
  /\ writeSet' = writeSet \ {f}
  /\ sockets' = IF f \in readSet THEN sockets ELSE sockets \ {f}
  /\ maxFD' = IF f = maxFD THEN Determined(sockets) ELSE maxFD
  /\ UNCHANGED readSet

(* mutant: the bits stay                                                   *)
KeepsBits(f) ==
  /\ sockets' = sockets \ {f}
  /\ maxFD' = IF f = maxFD THEN Determined(sockets) ELSE maxFD
  /\ UNCHANGED <<readSet, writeSet>>

(* The bits and the entry are cleared.                                     *)
RemoveSocket(f) ==
  /\ readSet' = readSet \ {f}
  /\ writeSet' = writeSet \ {f}
  /\ sockets' = sockets \ {f}
  /\ maxFD' = IF f = maxFD THEN Determined(sockets) ELSE maxFD

-----------------------------------------------------------------------------

Init ==
  /\ relays \in BOOLEAN
  /\ open = Listening \union Early
  /\ new = {} /\ readSet = {} /\ writeSet = {} /\ sockets = {}
  /\ readable = {} /\ writable = {}
  /\ maxFD = SetSize
  /\ fd = 0 /\ numEvents = 0
  /\ currentSocket = NULL
  /\ pc = "starting"

(* A worker registers its communication socket before it runs the server.  *)
RegisterEarly(f) ==
  /\ pc = "starting"
  /\ f \notin sockets
  /\ AddReadSocket(f)
  /\ UNCHANGED <<relays, open, new, scan, currentSocket, pc>>

(* The listening sockets are activated and the bound comes down to the     *)
(* highest entry.                                                          *)
RunServer ==
  /\ pc = "starting"
  /\ Early \subseteq sockets
  /\ readSet' = readSet \union Listening
  /\ sockets' = sockets \union Listening
  /\ maxFD' = Determined(sockets')
  /\ pc' = "waiting"
  /\ UNCHANGED <<relays, open, new, writeSet, scan, currentSocket>>

(* select reports some of the descriptors up to the bound.                 *)
Wait ==
  /\ pc = "waiting"
  /\ readable' \in SUBSET {f \in readSet : f <= maxFD}
  /\ writable' \in SUBSET {f \in writeSet : f <= maxFD}
  /\ numEvents' = Cardinality(readable') + Cardinality(writable')
  /\ fd' = maxFD
  /\ pc' = "scanning"
  /\ UNCHANGED <<relays, open, new, tables, currentSocket>>

(* mutant: a descriptor without an entry counts as a report                *)
VisitCounts ==
  /\ pc = "scanning" /\ numEvents # 0 /\ fd > 0
  /\ currentSocket' = IF fd \in sockets THEN fd ELSE NULL
  /\ \/ /\ fd \notin sockets
        /\ fd' = fd - 1 /\ numEvents' = numEvents - 1
        /\ UNCHANGED pc
     \/ /\ fd \in sockets \intersect readable
        /\ numEvents' = numEvents - 1
        /\ pc' \in {"reading", "hangup"}
        /\ UNCHANGED fd
     \/ /\ fd \in sockets \ readable
        /\ pc' = "looked"
        /\ UNCHANGED <<fd, numEvents>>
  /\ UNCHANGED <<relays, open, new, tables, readable, writable>>

(* The next descriptor.  What peeks as the end of the stream is a hangup.  *)
Visit ==
  /\ pc = "scanning" /\ numEvents # 0 /\ fd > 0
  /\ currentSocket' = IF fd \in sockets THEN fd ELSE NULL
  /\ \/ /\ fd \notin sockets
        /\ fd' = fd - 1
        /\ UNCHANGED <<numEvents, pc>>
     \/ /\ fd \in sockets \intersect readable
        /\ numEvents' = numEvents - 1
        /\ pc' \in {"reading", "hangup"}
        /\ UNCHANGED fd
     \/ /\ fd \in sockets \ readable
        /\ pc' = "looked"
        /\ UNCHANGED <<fd, numEvents>>
  /\ UNCHANGED <<relays, open, new, tables, readable, writable>>

(* mutant: the scan starts again                                           *)
ReturnRestarts ==
  /\ \/ pc = "reading" /\ pc' = "looked" /\ UNCHANGED fd
     \/ pc \in {"hangup", "writing"} /\ pc' = "scanning" /\ fd' = maxFD
  /\ UNCHANGED <<relays, open, new, tables, readable, writable, numEvents, currentSocket>>

(* The handler returned: onRead, onRemoteHangup or onWrite.                *)
Return ==
  /\ \/ pc = "reading" /\ pc' = "looked" /\ UNCHANGED fd
     \/ pc \in {"hangup", "writing"} /\ pc' = "scanning" /\ fd' = fd - 1
  /\ UNCHANGED <<relays, open, new, tables, readable, writable, numEvents, currentSocket>>

(* A report to be written counts, but a socket that is closed by now is    *)
(* not called.                                                             *)
LookAtWrite ==
  /\ pc = "looked"
  /\ numEvents' = IF fd \in writable THEN numEvents - 1 ELSE numEvents
  /\ IF fd \in writable /\ currentSocket # NULL
     THEN pc' = "writing" /\ UNCHANGED fd
     ELSE pc' = "scanning" /\ fd' = fd - 1
  /\ UNCHANGED <<relays, open, new, tables, readable, writable, currentSocket>>

EndScan ==
  /\ pc = "scanning" /\ (numEvents = 0 \/ fd = 0)
  /\ pc' = "timers"
  /\ new' = {} /\ readable' = {} /\ writable' = {} /\ numEvents' = 0 /\ fd' = 0
  /\ UNCHANGED <<relays, open, tables, currentSocket>>

EndTimers ==
  /\ pc = "timers"
  /\ pc' = "waiting"
  /\ UNCHANGED <<relays, open, new, tables, scan, currentSocket>>

-----------------------------------------------------------------------------
(* What handlers do.                                                       *)

Handling == pc \in {"reading", "hangup", "writing"}

(* The sockets that the handler at hand may act on.                        *)
Reach == IF relays THEN FDs ELSE {currentSocket}

Operation(f) ==
  /\ Handling
  /\ f \in open \ (Listening \union Early)
  /\ f \in Reach
  /\ \/ AddReadSocket(f) \/ AddWriteSocket(f) \/ AddReadWriteSocket(f)
     \/ SetReadSocket(f) \/ SetWriteSocket(f) \/ SetSocket(f)
     \/ relays /\ (RemoveReadSocket(f) \/ RemoveWriteSocket(f) \/ RemoveSocket(f))
  /\ UNCHANGED <<relays, open, new, scan, currentSocket, pc>>

(* A client is accepted and registered; its descriptor may be one that was *)
(* closed in this very scan.                                               *)
Accept(f) ==
  /\ pc = "reading" /\ fd \in Listening
  /\ f \notin open
  /\ open' = open \union {f}
  /\ new' = new \union {f}
  /\ AddReadSocket(f)
  /\ UNCHANGED <<relays, scan, currentSocket, pc>>

(* A handler that relays connects to the other server.                     *)
Connect(f) ==
  /\ Handling /\ relays
  /\ f \notin open
  /\ open' = open \union {f}
  /\ new' = new \union {f}
  /\ UNCHANGED <<relays, tables, scan, currentSocket, pc>>

(* mutant: onSocketClose keeps currentSocket                               *)
CloseUnnoticed(f) ==
  /\ open' = open \ {f}
  /\ new' = new \ {f}
  /\ RemoveSocket(f)
  /\ UNCHANGED currentSocket

(* PancakeNetworkClose calls onSocketClose.                                *)
OnSocketClose(f) ==
  /\ open' = open \ {f}
  /\ new' = new \ {f}
  /\ RemoveSocket(f)
  /\ currentSocket' = IF f = currentSocket THEN NULL ELSE currentSocket

CloseByHandler(f) ==
  /\ Handling
  /\ f \in open \ (Listening \union Early)
  /\ f \in Reach
  /\ OnSocketClose(f)
  /\ UNCHANGED <<relays, scan, pc>>

CloseByTimer(f) ==
  /\ pc = "timers"
  /\ f \in open \ (Listening \union Early)
  /\ OnSocketClose(f)
  /\ UNCHANGED <<relays, scan, pc>>

Next ==
  \/ \E f \in Early : RegisterEarly(f)
  \/ RunServer
  \/ Wait \/ Visit \/ LookAtWrite \/ Return \/ EndScan \/ EndTimers
  \/ \E f \in FDs :
       Operation(f) \/ Accept(f) \/ Connect(f) \/ CloseByHandler(f) \/ CloseByTimer(f)

Spec == Init /\ [][Next]_vars

-----------------------------------------------------------------------------
(* Properties.                                                             *)

(* What select watches has an entry in the table, and only sockets that    *)
(* there are have one: no report leads nowhere or to freed memory, and     *)
(* select does not fail over a closed descriptor, which would end the      *)
(* server.                                                                 *)
TableMatches ==
  /\ TypeOK
  /\ readSet \union writeSet \subseteq sockets /\ sockets \subseteq open

(* Once the server runs, the bound covers every registered descriptor,     *)
(* however it was raised and lowered, as select is deaf to those above it; *)
(* and the communication socket of a worker is among them, although it was *)
(* registered before the server ran (PancakeWorkers.c:40).  Handlers that  *)
(* relay call RemoveReadSocket, which lowers the bound and sets the bit.   *)
NobodyDeaf ==
  pc # "starting" =>
    /\ Early \subseteq readSet
    /\ ~relays => \A f \in readSet \union writeSet : f <= maxFD

(* "Make sure we don't execute further events on this socket"              *)
(* (PancakeSelect.c:178): the scan only ever calls handlers of a socket    *)
(* that is open, whoever closed sockets since select returned.             *)
NoFurtherEvents == currentSocket # NULL => currentSocket \in open

(* The early end of the scan skips nobody: at least as many reports are    *)
(* still to be found as there are at and below the cursor.                 *)
NobodySkipped ==
  LET ahead(S) == Cardinality({f \in S : f < fd \/ (f = fd /\ pc = "scanning")})
  IN  ahead(readable) + ahead(writable) <= numEvents

(* A socket that got the descriptor of one closed in the same scan does    *)
(* not receive the reports of the other, if handlers do not relay.         *)
NoForeignEvents ==
  ~relays /\ Handling /\ currentSocket # NULL => currentSocket \notin new
=============================================================================
