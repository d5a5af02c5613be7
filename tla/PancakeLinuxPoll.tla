-------------------------- MODULE PancakeLinuxPoll --------------------------
(***************************************************************************)
(* The epoll server architecture (PancakeLinuxPoll.c): it mirrors in the   *)
(* flags of a socket what the kernel watches it for, so as to save calls   *)
(* of epoll_ctl, takes a batch of events from the kernel and calls the     *)
(* handlers of their sockets, whose pointers the kernel hands back.        *)
(*                                                                         *)
(* Handlers belong to other modules.  One of the HTTP module acts on the   *)
(* socket it is called for, or on the client it accepts.  One of FastCGI   *)
(* also acts on the other end of what it relays (Relays).                  *)
(***************************************************************************)
EXTENDS Integers, Sequences

CONSTANTS Socket,     \* memory for sockets (bound on their number)
          Listening,  \* the listening sockets
          Early,      \* sockets registered before the server runs: the
                      \* communication socket of a worker
          MaxEvents,  \* size of a batch
          Relays,     \* whether handlers act on sockets of others
          NULL        \* the null pointer

ASSUME SocketAssumption ==
  /\ Listening \subseteq Socket /\ Early \subseteq Socket
  /\ Listening \intersect Early = {}
  /\ NULL \notin Socket
ASSUME BatchAssumption == MaxEvents \in Nat \ {0} /\ Relays \in BOOLEAN

VARIABLES
  open,           \* the sockets there are
  flags,          \* socket->flags
  epoll,          \* the events the kernel watches each socket for
  interest,       \* history: the events its owner asked for
  events,         \* the batch, without what is done
  sock,           \* the socket of the event at hand
  pending,        \* what that event still has to be looked at for
  currentSocket,  \* sock, or NULL once it is closed
  pc

loop == <<events, sock, pending, currentSocket, pc>>
vars == <<open, flags, epoll, interest, loop>>

TypeOK ==
  /\ open \in SUBSET Socket
  /\ flags \in [Socket -> SUBSET {"SOCKET", "IN", "OUT"}]
  /\ epoll \in [Socket -> SUBSET {"IN", "OUT", "RDHUP"}]
  /\ interest \in [Socket -> SUBSET {"IN", "OUT"}]
  /\ events \in Seq([sock : Socket, events : SUBSET {"IN", "OUT", "RDHUP", "HUP"}])
  /\ sock \in Socket \union {NULL}
  /\ pending \in SUBSET {"IN", "OUT", "RDHUP", "HUP"}
  /\ currentSocket \in Socket \union {NULL}
  /\ pc \in {"registering", "waiting", "dispatching", "handling", "timers"}

-----------------------------------------------------------------------------
(* Registration.  epoll_ctl fails, and nobody looks, when the instance     *)
(* does not exist yet, when a socket to be added is known and when one to  *)
(* be modified is not.                                                     *)

Watched(s) == epoll[s] # {}

Added(s, evs) ==
  IF pc = "registering" \/ Watched(s) THEN epoll[s] ELSE evs \union {"RDHUP"}

Modified(s, evs) == IF Watched(s) THEN evs \union {"RDHUP"} ELSE {}

(* What an operation makes of a socket.                                    *)
Becomes(s, newFlags, newEpoll, newInterest) ==
  /\ flags' = [flags EXCEPT ![s] = newFlags]
  /\ epoll' = [epoll EXCEPT ![s] = newEpoll]
  /\ interest' = [interest EXCEPT ![s] = newInterest]

(* mutants: the events of epoll are put into the flags; the kernel is only *)
(* told of the new event                                                   *)
AddsEvents(s, evs) ==
  Becomes(s, flags[s] \union evs \union {"SOCKET", "RDHUP"},
          IF "SOCKET" \notin flags[s] THEN Added(s, evs)
          ELSE IF evs \subseteq flags[s] THEN epoll[s] ELSE Modified(s, evs),
          interest[s] \union evs)
AddReplaces(s, evs) ==
  Becomes(s, flags[s] \union evs \union {"SOCKET"},
          IF "SOCKET" \notin flags[s] THEN Added(s, evs)
          ELSE IF evs \subseteq flags[s] THEN epoll[s] ELSE Modified(s, evs),
          interest[s] \union evs)

(* The three operations that add: to what is known of the socket.          *)
Add(s, evs) ==
  Becomes(s, flags[s] \union evs \union {"SOCKET"},
          IF "SOCKET" \notin flags[s] THEN Added(s, evs)
          ELSE IF evs \subseteq flags[s] THEN epoll[s]
          ELSE Modified(s, evs \union (flags[s] \intersect {"IN", "OUT"})),
          interest[s] \union evs)

AddReadSocket(s) == Add(s, {"IN"})
AddWriteSocket(s) == Add(s, {"OUT"})
AddReadWriteSocket(s) == Add(s, {"IN", "OUT"})

(* The two that remove one event: only one that is flagged.                *)
Remove(s, ev) ==
  Becomes(s, flags[s] \ {ev},
          IF ev \in flags[s] THEN Modified(s, (flags[s] \intersect {"IN", "OUT"}) \ {ev})
          ELSE epoll[s],
          interest[s] \ {ev})

RemoveReadSocket(s) == Remove(s, "IN")
RemoveWriteSocket(s) == Remove(s, "OUT")

(* The flags of the events stay behind.                                    *)
RemoveSocket(s) ==
  Becomes(s, flags[s] \ {"SOCKET"}, IF "SOCKET" \in flags[s] THEN {} ELSE epoll[s], {})

(* mutant: an event that was watched before keeps its flag                 *)
SetKeepsFlags(s, evs) ==
  Becomes(s, flags[s] \union evs \union {"SOCKET"},
          IF "SOCKET" \in flags[s] THEN Modified(s, evs) ELSE Added(s, evs), evs)

(* The three that set: a socket that was not known keeps its other flags.  *)
Set(s, evs) ==
  Becomes(s,
          IF "SOCKET" \in flags[s] THEN evs \union {"SOCKET"}
          ELSE flags[s] \union evs \union {"SOCKET"},
          IF "SOCKET" \in flags[s] THEN Modified(s, evs) ELSE Added(s, evs),
          evs)

SetReadSocket(s) == Set(s, {"IN"})
SetWriteSocket(s) == Set(s, {"OUT"})
SetSocket(s) == Set(s, {})

-----------------------------------------------------------------------------

Init ==
  /\ open = Listening \union Early
  /\ flags = [s \in Socket |-> {}]
  /\ epoll = [s \in Socket |-> {}]
  /\ interest = [s \in Socket |-> {}]
  /\ events = <<>>
  /\ sock = NULL
  /\ pending = {}
  /\ currentSocket = NULL
  /\ pc = "registering"

(* A worker registers its communication socket before it runs the server.  *)
RegisterEarly(s) ==
  /\ pc = "registering"
  /\ flags[s] = {}
  /\ AddReadSocket(s)
  /\ UNCHANGED <<open, loop>>

(* The instance is created, the listening sockets are activated.           *)
RunServer ==
  /\ pc = "registering"
  /\ \A s \in Early : flags[s] # {}
  /\ flags' = [s \in Socket |-> IF s \in Listening THEN {"SOCKET", "IN"} ELSE flags[s]]
  /\ epoll' = [s \in Socket |-> IF s \in Listening THEN {"IN", "RDHUP"} ELSE epoll[s]]
  /\ interest' = [s \in Socket |-> IF s \in Listening THEN {"IN"} ELSE interest[s]]
  /\ pc' = "waiting"
  /\ UNCHANGED <<open, events, sock, pending, currentSocket>>

(* What the kernel can report of a socket: what it watches it for, or that *)
(* the connection is gone ("HUP", which an error is treated like).         *)
Reports(s) ==
  IF s \in Listening \union Early THEN {epoll[s] \intersect {"IN"}} \ {{}}
  ELSE (SUBSET epoll[s] \ {{}}) \union {{"HUP"}}

(* epoll_wait fills a batch with the events of some watched sockets.       *)
Wait ==
  /\ pc = "waiting"
  /\ \E n \in 0..MaxEvents :
     \E socks \in [1..n -> {s \in Socket : Watched(s)}] :
       /\ \A i, j \in 1..n : socks[i] = socks[j] => i = j
       /\ events' \in {[i \in 1..n |-> [sock |-> socks[i], events |-> r[i]]] :
                         r \in [1..n -> SUBSET {"IN", "OUT", "RDHUP", "HUP"}]}
       /\ \A i \in 1..n : events'[i].events \in Reports(socks[i])
  /\ pc' = "dispatching"
  /\ UNCHANGED <<open, flags, epoll, interest, sock, pending, currentSocket>>

NextEvent ==
  /\ pc = "dispatching" /\ pending = {} /\ events # <<>>
  /\ events' = Tail(events)
  /\ sock' = Head(events).sock
  /\ pending' = Head(events).events
  /\ currentSocket' = IF "HUP" \in Head(events).events THEN currentSocket
                      ELSE Head(events).sock
  /\ UNCHANGED <<open, flags, epoll, interest, pc>>

(* onRead, then onWrite, then onRemoteHangup.                              *)
Call ==
  /\ pc = "dispatching"
  /\ \/ "IN" \in pending /\ pending' = pending \ {"IN"}
     \/ "IN" \notin pending /\ "OUT" \in pending /\ pending' = pending \ {"OUT"}
     \/ pending \in {{"RDHUP"}, {"HUP"}} /\ pending' = {}
  /\ pc' = "handling"
  /\ UNCHANGED <<open, flags, epoll, interest, events, sock, currentSocket>>

(* mutant: currentSocket is not looked at                                  *)
ReturnGoesOn ==
  /\ pc = "handling"
  /\ pc' = "dispatching"
  /\ UNCHANGED <<open, flags, epoll, interest, events, sock, pending, currentSocket>>

(* Once the socket was closed, nothing more of its event is looked at.     *)
Return ==
  /\ pc = "handling"
  /\ pc' = "dispatching"
  /\ pending' = IF currentSocket = NULL THEN {} ELSE pending
  /\ UNCHANGED <<open, flags, epoll, interest, events, sock, currentSocket>>

-----------------------------------------------------------------------------
(* What handlers do.                                                       *)

(* A socket that was removed is only closed (PancakeHTTPFastCGI.c:714,757).*)
Usable(s) == "SOCKET" \in flags[s] \/ flags[s] = {}

(* The sockets that the handler at hand may act on.                        *)
Reach == IF Relays THEN Socket ELSE {sock}

Operation(s) ==
  /\ pc = "handling"
  /\ s \in open \ (Listening \union Early)
  /\ s \in Reach
  /\ Usable(s)
  /\ \/ AddReadSocket(s) \/ AddWriteSocket(s) \/ AddReadWriteSocket(s)
     \/ RemoveReadSocket(s) \/ RemoveWriteSocket(s) \/ RemoveSocket(s)
     \/ SetReadSocket(s) \/ SetWriteSocket(s) \/ SetSocket(s)
  /\ UNCHANGED <<open, loop>>

(* The handler of a listening socket accepts a client and registers it.    *)
Accept(s) ==
  /\ pc = "handling"
  /\ sock \in Listening
  /\ s \notin open
  /\ open' = open \union {s}
  /\ Becomes(s, {"SOCKET", "IN"}, {"IN", "RDHUP"}, {"IN"})
  /\ UNCHANGED loop

(* A handler connects to a server it relays to.                            *)
Connect(s) ==
  /\ pc = "handling"
  /\ s \notin open
  /\ open' = open \union {s}
  /\ Becomes(s, {}, {}, {})
  /\ UNCHANGED loop

(* mutant: onSocketClose does nothing                                      *)
CloseUnnoticed(s) ==
  /\ open' = open \ {s}
  /\ Becomes(s, {}, {}, {})
  /\ UNCHANGED currentSocket

(* PancakeNetworkClose calls onSocketClose; the kernel forgets the socket. *)
OnSocketClose(s) ==
  /\ open' = open \ {s}
  /\ Becomes(s, {}, {}, {})
  /\ currentSocket' = IF s = currentSocket THEN NULL ELSE currentSocket

CloseByHandler(s) ==
  /\ pc = "handling"
  /\ s \in open \ (Listening \union Early)
  /\ s \in Reach
  /\ OnSocketClose(s)
  /\ UNCHANGED <<events, sock, pending, pc>>

(* The batch is done: the scheduler runs, and its callbacks close sockets. *)
EndBatch ==
  /\ pc = "dispatching" /\ pending = {} /\ events = <<>>
  /\ pc' = "timers"
  /\ UNCHANGED <<open, flags, epoll, interest, events, sock, pending, currentSocket>>

CloseByTimer(s) ==
  /\ pc = "timers"
  /\ s \in open \ (Listening \union Early)
  /\ OnSocketClose(s)
  /\ UNCHANGED <<events, sock, pending, pc>>

EndTimers ==
  /\ pc = "timers"
  /\ pc' = "waiting"
  /\ UNCHANGED <<open, flags, epoll, interest, events, sock, pending, currentSocket>>

Next ==
  \/ \E s \in Early : RegisterEarly(s)
  \/ RunServer
  \/ Wait \/ NextEvent \/ Call \/ Return \/ EndBatch \/ EndTimers
  \/ \E s \in Socket :
       Operation(s) \/ Accept(s) \/ Connect(s) \/ CloseByHandler(s) \/ CloseByTimer(s)

Spec == Init /\ [][Next]_vars

-----------------------------------------------------------------------------
(* Properties.                                                             *)

(* The flags of a socket say what the kernel watches it for, so that the   *)
(* calls of epoll_ctl they save are ones that would have changed nothing.  *)
FlagsMatch ==
  \A s \in open \ Early :
    epoll[s] = IF "SOCKET" \in flags[s] THEN (flags[s] \ {"SOCKET"}) \union {"RDHUP"}
               ELSE {}

(* While the server runs, the kernel watches every socket for exactly what *)
(* the sequence of operations on it asked for.                             *)
InterestKept ==
  pc # "registering" =>
    \A s \in open \ Early : epoll[s] \intersect {"IN", "OUT"} = interest[s]

(* "Register communication socket" (PancakeWorkers.c:40): once its server  *)
(* runs, a worker hears what the master writes to this socket.  It does    *)
(* not: as Early sockets are registered before the epoll instance exists,  *)
(* this is false in every state in which a server with one runs.           *)
MasterHeard ==
  pc # "registering" => \A s \in Early : "IN" \in epoll[s]

(* "Make sure we don't execute further events on this socket"              *)
(* (PancakeLinuxPoll.c:260): once a socket is closed and freed, nothing    *)
(* that is still to be handled leads to its memory.                        *)
NoFurtherEvents ==
  /\ \A i \in DOMAIN events : events[i].sock \in open
  /\ pc = "dispatching" /\ pending # {} => sock \in open

(* The events that are still to be handled, in the terms of the promise.   *)
EventName(ev) ==
  IF ev = "IN" THEN "in" ELSE IF ev = "OUT" THEN "out" ELSE "hangup"

Unhandled ==
  (IF pc = "handling" /\ currentSocket = NULL THEN {}
   ELSE {[sock |-> sock, event |-> EventName(ev)] : ev \in pending})
    \union UNION {{[sock |-> events[i].sock, event |-> EventName(ev)] :
                     ev \in events[i].events} : i \in DOMAIN events}

Architecture ==
  INSTANCE ServerArchitecture WITH
    Listening <- Listening \union Early,
    interest <- [s \in Socket |-> {EventName(ev) : ev \in interest[s]}],
    ready <- Unhandled

(* epoll, its flags and currentSocket keep the promise of an architecture. *)
ImplementsArchitecture == Architecture!Spec
=============================================================================
