------------------------- MODULE ServerArchitecture -------------------------
(***************************************************************************)
(* What a server architecture promises to the handlers it calls.  They     *)
(* say which events of a socket interest them; from time to time events    *)
(* are reported, which are of interest when they are reported, or hangups; *)
(* each is handled at most once, and none of a socket that was closed in   *)
(* the meantime.                                                           *)
(***************************************************************************)
CONSTANTS Socket,    \* memory for sockets
          Listening  \* those there are from the start, to be read

VARIABLES open,      \* the sockets there are
          interest,  \* for every socket the events its owner asked for
          ready      \* the events that were reported and are not yet handled

vars == <<open, interest, ready>>

Event == {"in", "out", "hangup"}
Reports == [sock : Socket, event : Event]

TypeOK ==
  /\ open \in SUBSET Socket
  /\ interest \in [Socket -> SUBSET {"in", "out"}]
  /\ ready \in SUBSET Reports

Init ==
  /\ open = Listening
  /\ interest = [s \in Socket |-> {}]
  /\ ready = {}

(* A new socket, with what it is interested in at once.                    *)
Open(s) ==
  /\ s \notin open
  /\ open' = open \union {s}
  /\ \E events \in SUBSET {"in", "out"} :
       interest' = [interest EXCEPT ![s] = events]
  /\ UNCHANGED ready

Ask(s) ==
  /\ s \in open
  /\ \E events \in SUBSET {"in", "out"} :
       interest' = [interest EXCEPT ![s] = events]
  /\ UNCHANGED <<open, ready>>

(* When the server starts these sockets ask to be read.                   *)
Start ==
  /\ ready = {}
  /\ interest' = [s \in Socket |-> IF s \in Listening THEN {"in"} ELSE interest[s]]
  /\ UNCHANGED <<open, ready>>

Close(s) ==
  /\ s \in open
  /\ open' = open \ {s}
  /\ interest' = [interest EXCEPT ![s] = {}]
  /\ ready' = {r \in ready : r.sock # s}

Report ==
  /\ ready = {}
  /\ \E R \in SUBSET {r \in Reports : /\ r.sock \in open
                                      /\ r.event \in interest[r.sock] \union {"hangup"}} :
       ready' = R
  /\ UNCHANGED <<open, interest>>

Handle(r) ==
  /\ r \in ready
  /\ ready' = ready \ {r}
  /\ UNCHANGED <<open, interest>>

Next ==
  \/ \E s \in Socket : Open(s) \/ Ask(s) \/ Close(s)
  \/ Start
  \/ Report
  \/ \E r \in ready : Handle(r)

Spec == Init /\ [][Next]_vars
=============================================================================
