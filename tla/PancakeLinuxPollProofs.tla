----------------------- MODULE PancakeLinuxPollProofs -----------------------
(***************************************************************************)
(* Proofs about PancakeLinuxPoll: for any number of sockets and any size   *)
(* of a batch, the flags agree with the kernel, whatever handlers do; and  *)
(* if handlers keep to their own socket, no event of a closed socket is    *)
(* handled and the architecture keeps the promise of ServerArchitecture.   *)
(***************************************************************************)
EXTENDS PancakeLinuxPoll, SequenceTheorems, TLAPS

Flags == SUBSET {"SOCKET", "IN", "OUT"}
Watch == SUBSET {"IN", "OUT", "RDHUP"}
Asked == SUBSET {"IN", "OUT"}

(* What FlagsMatch and InterestKept say of one socket.                     *)
Matches(f, e, i) ==
  /\ e = IF "SOCKET" \in f THEN (f \ {"SOCKET"}) \union {"RDHUP"} ELSE {}
  /\ e \intersect {"IN", "OUT"} = i

(* The registration of sockets.  Those that are closed are forgotten;      *)
(* those that came too early are not watched, but were asked to be.        *)
Registered ==
  /\ \A s \in open \ Early : Matches(flags[s], epoll[s], interest[s])
  /\ \A s \in Socket \ open : flags[s] = {} /\ epoll[s] = {} /\ interest[s] = {}
  /\ \A s \in Early : /\ s \in open /\ epoll[s] = {}
                      /\ flags[s] = {} => interest[s] = {}
                      /\ flags[s] # {} => interest[s] = {"IN"}
                      /\ pc # "registering" => flags[s] # {}
  /\ pc = "registering" => open = Listening \union Early

IInv == TypeOK /\ Registered

-----------------------------------------------------------------------------
(* The nine operations, on what is known of a socket.                      *)

(* An operation leaves a socket that matches.                              *)
LEMMA OperationKeeps ==
  ASSUME IInv, NEW s \in open \ Early, pc # "registering", Usable(s),
         \/ AddReadSocket(s) \/ AddWriteSocket(s) \/ AddReadWriteSocket(s)
         \/ RemoveReadSocket(s) \/ RemoveWriteSocket(s) \/ RemoveSocket(s)
         \/ SetReadSocket(s) \/ SetWriteSocket(s) \/ SetSocket(s)
  PROVE  \E f \in Flags, e \in Watch, i \in Asked :
           Becomes(s, f, e, i) /\ Matches(f, e, i)
<1>1. flags[s] \in Flags /\ epoll[s] \in Watch /\ interest[s] \in Asked
  BY DEF IInv, TypeOK, Flags, Watch, Asked
<1>2. Matches(flags[s], epoll[s], interest[s])
  BY DEF IInv, Registered
<1>3. Watched(s) <=> "SOCKET" \in flags[s]
  BY <1>2 DEF Matches, Watched
<1>4. "SOCKET" \notin flags[s] => flags[s] = {} /\ epoll[s] = {} /\ interest[s] = {}
  BY <1>2 DEF Usable, Matches
<1>5. ASSUME NEW evs \in Asked, Add(s, evs)
      PROVE  \E f \in Flags, e \in Watch, i \in Asked :
               Becomes(s, f, e, i) /\ Matches(f, e, i)
  <2>1. CASE "SOCKET" \notin flags[s]
    <3>1. Becomes(s, evs \union {"SOCKET"}, evs \union {"RDHUP"}, evs)
      BY <1>3, <1>4, <1>5, <2>1 DEF Add, Added
    <3>2. Matches(evs \union {"SOCKET"}, evs \union {"RDHUP"}, evs)
      BY DEF Matches, Asked
    <3> QED BY <3>1, <3>2 DEF Flags, Watch, Asked
  <2>2. CASE "SOCKET" \in flags[s]
    <3> DEFINE f == flags[s] \union evs
               e == (f \ {"SOCKET"}) \union {"RDHUP"}
               i == interest[s] \union evs
    <3>1. CASE evs \subseteq flags[s]
      <4>1. Becomes(s, flags[s], epoll[s], interest[s])
        <5>1. flags[s] \union evs \union {"SOCKET"} = flags[s]
          BY <2>2, <3>1
        <5>2. interest[s] \union evs = interest[s]
          BY <1>1, <1>2, <2>2, <3>1 DEF Matches, Asked, Flags
        <5> QED BY <1>5, <2>2, <3>1, <5>1, <5>2 DEF Add
      <4> QED BY <1>1, <1>2, <4>1
    <3>2. CASE ~(evs \subseteq flags[s])
      <4>1. Becomes(s, f, e, i)
        <5>1. flags[s] \union evs \union {"SOCKET"} = f
          BY <2>2
        <5>2. (evs \union (flags[s] \intersect {"IN", "OUT"})) \union {"RDHUP"} = e
          BY <1>1 DEF Asked, Flags
        <5> QED BY <1>3, <1>5, <2>2, <3>2, <5>1, <5>2 DEF Add, Modified
      <4>2. Matches(f, e, i)
        BY <1>1, <1>2, <2>2 DEF Matches, Asked, Flags
      <4>3. f \in Flags /\ e \in Watch /\ i \in Asked
        BY <1>1 DEF Flags, Watch, Asked
      <4> QED BY <4>1, <4>2, <4>3
    <3> QED BY <3>1, <3>2
  <2> QED BY <2>1, <2>2
<1>6. ASSUME NEW ev \in {"IN", "OUT"}, Remove(s, ev)
      PROVE  \E f \in Flags, e \in Watch, i \in Asked :
               Becomes(s, f, e, i) /\ Matches(f, e, i)
  <2> DEFINE f == flags[s] \ {ev}
             e == epoll[s] \ {ev}
             i == interest[s] \ {ev}
  <2>1. Becomes(s, f, e, i)
    <3>1. CASE ev \in flags[s]
      <4>1. "SOCKET" \in flags[s]
        BY <1>4, <3>1
      <4>2. ((flags[s] \intersect {"IN", "OUT"}) \ {ev}) \union {"RDHUP"} = e
        BY <1>1, <1>2, <4>1 DEF Matches, Flags
      <4> QED BY <1>3, <1>6, <3>1, <4>1, <4>2 DEF Remove, Modified
    <3>2. CASE ev \notin flags[s]
      <4>1. epoll[s] = e
        BY <1>2, <3>2 DEF Matches
      <4> QED BY <1>6, <3>2, <4>1 DEF Remove
    <3> QED BY <3>1, <3>2
  <2>2. Matches(f, e, i)
    BY <1>1, <1>2 DEF Matches, Flags, Asked
  <2>3. f \in Flags /\ e \in Watch /\ i \in Asked
    BY <1>1 DEF Flags, Watch, Asked
  <2> QED BY <2>1, <2>2, <2>3
<1>7. ASSUME RemoveSocket(s)
      PROVE  \E f \in Flags, e \in Watch, i \in Asked :
               Becomes(s, f, e, i) /\ Matches(f, e, i)
  <2>1. Becomes(s, flags[s] \ {"SOCKET"}, {}, {})
    BY <1>4, <1>7 DEF RemoveSocket
  <2>2. Matches(flags[s] \ {"SOCKET"}, {}, {})
    BY DEF Matches
  <2> QED BY <1>1, <2>1, <2>2 DEF Flags, Watch, Asked
<1>8. ASSUME NEW evs \in Asked, Set(s, evs)
      PROVE  \E f \in Flags, e \in Watch, i \in Asked :
               Becomes(s, f, e, i) /\ Matches(f, e, i)
  <2>1. Becomes(s, evs \union {"SOCKET"}, evs \union {"RDHUP"}, evs)
    <3>1. CASE "SOCKET" \in flags[s]
      BY <1>3, <1>8, <3>1 DEF Set, Modified
    <3>2. CASE "SOCKET" \notin flags[s]
      BY <1>3, <1>4, <1>8, <3>2 DEF Set, Added
    <3> QED BY <3>1, <3>2
  <2>2. Matches(evs \union {"SOCKET"}, evs \union {"RDHUP"}, evs)
    BY DEF Matches, Asked
  <2> QED BY <2>1, <2>2 DEF Flags, Watch, Asked
<1>9. {"IN"} \in Asked /\ {"OUT"} \in Asked /\ {"IN", "OUT"} \in Asked /\ {} \in Asked
  BY DEF Asked
<1> QED BY <1>5, <1>6, <1>7, <1>8, <1>9
        DEF AddReadSocket, AddWriteSocket, AddReadWriteSocket, RemoveReadSocket,
            RemoveWriteSocket, SetReadSocket, SetWriteSocket, SetSocket

(* A socket that changes and matches afterwards disturbs no other one.     *)
LEMMA BecomesKeeps ==
  ASSUME TypeOK, NEW s \in Socket, NEW f \in Flags, NEW e \in Watch, NEW i \in Asked,
         Becomes(s, f, e, i)
  PROVE  /\ flags' \in [Socket -> Flags] /\ epoll' \in [Socket -> Watch]
         /\ interest' \in [Socket -> Asked]
         /\ flags'[s] = f /\ epoll'[s] = e /\ interest'[s] = i
         /\ \A t \in Socket \ {s} :
              flags'[t] = flags[t] /\ epoll'[t] = epoll[t] /\ interest'[t] = interest[t]
BY DEF Becomes, TypeOK, Flags, Watch, Asked

(* A step that changes one socket, which then matches or is forgotten.     *)
LEMMA ChangeKeeps ==
  ASSUME IInv, NEW s \in Socket \ Early,
         NEW f \in Flags, NEW e \in Watch, NEW i \in Asked,
         pc # "registering", pc' # "registering", Becomes(s, f, e, i),
         open' \in SUBSET Socket, open' \ {s} = open \ {s},
         IF s \in open' THEN Matches(f, e, i) ELSE f = {} /\ e = {} /\ i = {}
  PROVE  Registered'
<1>1. /\ flags'[s] = f /\ epoll'[s] = e /\ interest'[s] = i
      /\ \A t \in Socket \ {s} :
           flags'[t] = flags[t] /\ epoll'[t] = epoll[t] /\ interest'[t] = interest[t]
  BY BecomesKeeps DEF IInv
<1>2. \A t \in Socket \ {s} : t \in open' <=> t \in open
  OBVIOUS
<1>3. ASSUME NEW t \in open' \ Early PROVE Matches(flags'[t], epoll'[t], interest'[t])
  BY <1>1, <1>2, <1>3 DEF IInv, Registered
<1>4. ASSUME NEW t \in Socket \ open'
      PROVE  flags'[t] = {} /\ epoll'[t] = {} /\ interest'[t] = {}
  BY <1>1, <1>2, <1>4 DEF IInv, Registered
<1>5. ASSUME NEW t \in Early
      PROVE  /\ t \in open' /\ epoll'[t] = {}
             /\ flags'[t] = {} => interest'[t] = {}
             /\ flags'[t] # {} => interest'[t] = {"IN"}
             /\ pc' # "registering" => flags'[t] # {}
  BY <1>1, <1>2, <1>5, SocketAssumption DEF IInv, Registered
<1> QED BY <1>3, <1>4, <1>5 DEF Registered, Matches

-----------------------------------------------------------------------------
(* The steps.                                                              *)

Event == [sock : Socket, events : SUBSET {"IN", "OUT", "RDHUP", "HUP"}]

(* The batch that epoll_wait fills.                                        *)
LEMMA WaitFills ==
  ASSUME Wait
  PROVE  \E n \in 0..MaxEvents :
           /\ events' \in [1..n -> Event] /\ n \in Nat
           /\ \A i \in 1..n : /\ events'[i].sock \in Socket
                            /\ Watched(events'[i].sock)
                            /\ events'[i].events \in Reports(events'[i].sock)
           /\ \A i, j \in 1..n : events'[i].sock = events'[j].sock => i = j
<1>0. PICK n \in 0..MaxEvents : \E socks \in [1..n -> {s \in Socket : Watched(s)}] :
        /\ \A i, j \in 1..n : socks[i] = socks[j] => i = j
        /\ events' \in {[i \in 1..n |-> [sock |-> socks[i], events |-> r[i]]] :
                         r \in [1..n -> SUBSET {"IN", "OUT", "RDHUP", "HUP"}]}
        /\ \A i \in 1..n : events'[i].events \in Reports(socks[i])
  BY DEF Wait
<1>1. PICK socks \in [1..n -> {s \in Socket : Watched(s)}] :
        /\ \A i, j \in 1..n : socks[i] = socks[j] => i = j
        /\ events' \in {[i \in 1..n |-> [sock |-> socks[i], events |-> r[i]]] :
                         r \in [1..n -> SUBSET {"IN", "OUT", "RDHUP", "HUP"}]}
        /\ \A i \in 1..n : events'[i].events \in Reports(socks[i])
  BY <1>0
<1>2. PICK r \in [1..n -> SUBSET {"IN", "OUT", "RDHUP", "HUP"}] :
        events' = [i \in 1..n |-> [sock |-> socks[i], events |-> r[i]]]
  BY <1>1
<1>3. \A i \in 1..n : /\ socks[i] \in Socket /\ Watched(socks[i])
                      /\ r[i] \in SUBSET {"IN", "OUT", "RDHUP", "HUP"}
  OBVIOUS
<1>4. events' \in [1..n -> Event]
  BY <1>2, <1>3 DEF Event
<1>5. \A i \in 1..n : events'[i].sock = socks[i]
  BY <1>2
<1> QED BY <1>1, <1>3, <1>4, <1>5, BatchAssumption, SMTT(30)

LEMMA InitIInv == Init => IInv
<1> SUFFICES ASSUME Init PROVE IInv
  OBVIOUS
<1>1. TypeOK
  BY SocketAssumption, EmptySeq DEF Init, TypeOK
<1>2. Registered
  BY SocketAssumption DEF Init, Registered, Matches
<1> QED BY <1>1, <1>2 DEF IInv

LEMMA StepTypeOK == IInv /\ [Next]_vars => TypeOK'
<1> SUFFICES ASSUME IInv, [Next]_vars PROVE TypeOK'
  OBVIOUS
<1>0. TypeOK
  BY DEF IInv
<1> DEFINE Registration == /\ open' \in SUBSET Socket /\ flags' \in [Socket -> Flags]
                           /\ epoll' \in [Socket -> Watch] /\ interest' \in [Socket -> Asked]
           Loop == /\ events' \in Seq(Event) /\ sock' \in Socket \union {NULL}
                   /\ pending' \in SUBSET {"IN", "OUT", "RDHUP", "HUP"}
                   /\ currentSocket' \in Socket \union {NULL}
                   /\ pc' \in {"registering", "waiting", "dispatching", "handling", "timers"}
<1>1. SUFFICES Registration /\ Loop
  BY <1>1 DEF TypeOK, Flags, Watch, Asked, Event
<1>2. ASSUME UNCHANGED <<open, flags, epoll, interest>> PROVE Registration
  BY <1>0, <1>2 DEF TypeOK, Flags, Watch, Asked
<1>3. ASSUME UNCHANGED loop PROVE Loop
  BY <1>0, <1>3 DEF TypeOK, loop, Event
<1>4. ASSUME NEW s \in Socket, NEW f \in Flags, NEW e \in Watch, NEW i \in Asked,
             Becomes(s, f, e, i), open' \in SUBSET Socket
      PROVE  Registration
  BY <1>0, <1>4, BecomesKeeps
<1>5. CASE \E s \in Early : RegisterEarly(s)
  <2>1. PICK s \in Early : RegisterEarly(s)
    BY <1>5
  <2>2. Becomes(s, {"IN", "SOCKET"}, {}, {"IN"})
    BY <2>1 DEF RegisterEarly, AddReadSocket, Add, Added, IInv, Registered
  <2>3. s \in Socket /\ open' \in SUBSET Socket /\ UNCHANGED loop
    BY <1>0, <2>1, SocketAssumption DEF RegisterEarly, TypeOK
  <2> QED BY <1>3, <1>4, <2>2, <2>3 DEF Flags, Watch, Asked
<1>6. CASE RunServer
  BY <1>0, <1>6 DEF RunServer, TypeOK, Flags, Watch, Asked, Event
<1>7. CASE Wait
  <2>1. PICK n \in 0..MaxEvents : n \in Nat /\ events' \in [1..n -> Event]
    BY <1>7, WaitFills
  <2>2. events' \in Seq(Event)
    BY <2>1
  <2> QED BY <1>0, <1>2, <1>7, <2>2 DEF Wait, TypeOK
<1>8. CASE NextEvent
  <2>1. events \in Seq(Event) /\ events # <<>>
    BY <1>0, <1>8 DEF NextEvent, TypeOK, Event
  <2>2. Head(events) \in Event /\ Tail(events) \in Seq(Event)
    BY <2>1, HeadTailProperties
  <2> QED BY <1>0, <1>2, <1>8, <2>2 DEF NextEvent, TypeOK, Event
<1>9. CASE Call \/ Return \/ EndBatch \/ EndTimers
  BY <1>0, <1>2, <1>9 DEF Call, Return, EndBatch, EndTimers, TypeOK, Event
<1>10. CASE \E s \in Socket : Operation(s)
  <2>1. PICK s \in Socket : Operation(s)
    BY <1>10
  <2>2. s \in open \ Early /\ pc # "registering" /\ Usable(s)
        /\ open' \in SUBSET Socket /\ UNCHANGED loop
    BY <1>0, <2>1 DEF Operation, TypeOK
  <2>3. PICK f \in Flags, e \in Watch, i \in Asked : Becomes(s, f, e, i)
    BY <2>1, <2>2, OperationKeeps DEF Operation
  <2> QED BY <1>3, <1>4, <2>2, <2>3
<1>11. CASE \E s \in Socket : Accept(s) \/ Connect(s)
  <2>1. PICK s \in Socket : Accept(s) \/ Connect(s)
    BY <1>11
  <2>2. open' \in SUBSET Socket /\ UNCHANGED loop
    BY <1>0, <2>1 DEF Accept, Connect, TypeOK
  <2>3. Becomes(s, {"SOCKET", "IN"}, {"IN", "RDHUP"}, {"IN"}) \/ Becomes(s, {}, {}, {})
    BY <2>1 DEF Accept, Connect
  <2> QED BY <1>3, <1>4, <2>2, <2>3 DEF Flags, Watch, Asked
<1>12. CASE \E s \in Socket : CloseByHandler(s) \/ CloseByTimer(s)
  <2>1. PICK s \in Socket : CloseByHandler(s) \/ CloseByTimer(s)
    BY <1>12
  <2>2. OnSocketClose(s) /\ UNCHANGED <<events, sock, pending, pc>>
    BY <2>1 DEF CloseByHandler, CloseByTimer
  <2>3. open' \in SUBSET Socket /\ Becomes(s, {}, {}, {}) /\ Loop
    BY <1>0, <2>2 DEF OnSocketClose, TypeOK, Event
  <2> QED BY <1>4, <2>3 DEF Flags, Watch, Asked
<1>13. CASE UNCHANGED vars
  BY <1>2, <1>3, <1>13 DEF vars
<1> QED BY <1>5, <1>6, <1>7, <1>8, <1>9, <1>10, <1>11, <1>12, <1>13 DEF Next

LEMMA StepRegistered == IInv /\ [Next]_vars => Registered'
<1> SUFFICES ASSUME IInv, [Next]_vars PROVE Registered'
  OBVIOUS
<1>0. TypeOK /\ Registered
  BY DEF IInv
<1>1. ASSUME UNCHANGED <<open, flags, epoll, interest>>, pc # "registering",
             pc' # "registering"
      PROVE  Registered'
  BY <1>0, <1>1 DEF Registered, Matches
<1>2. CASE \E s \in Early : RegisterEarly(s)
  <2>1. PICK s \in Early : RegisterEarly(s)
    BY <1>2
  <2>2. Becomes(s, {"IN", "SOCKET"}, {}, {"IN"})
    BY <1>0, <2>1 DEF RegisterEarly, AddReadSocket, Add, Added, Registered
  <2>3. s \in Socket /\ pc' = pc /\ pc = "registering" /\ open' = open
    BY <2>1, SocketAssumption DEF RegisterEarly, loop
  <2>4. /\ flags'[s] = {"IN", "SOCKET"} /\ epoll'[s] = {} /\ interest'[s] = {"IN"}
        /\ \A t \in Socket \ {s} :
             flags'[t] = flags[t] /\ epoll'[t] = epoll[t] /\ interest'[t] = interest[t]
    <3>1. {"IN", "SOCKET"} \in Flags /\ {} \in Watch /\ {"IN"} \in Asked
      BY DEF Flags, Watch, Asked
    <3> QED BY <1>0, <2>2, <2>3, <3>1, BecomesKeeps
  <2>5. \A t \in open \ Early : t \in Socket \ {s}
    BY <1>0 DEF TypeOK
  <2>6. \A t \in Socket \ open : t # s
    BY <1>0 DEF Registered
  <2> QED BY <1>0, <2>3, <2>4, <2>5, <2>6, SocketAssumption DEF Registered, Matches
<1>3. CASE RunServer
  <2>1. open' = open /\ open = Listening \union Early /\ pc' = "waiting"
    BY <1>0, <1>3 DEF RunServer, Registered
  <2>2. \A s \in Listening :
          flags'[s] = {"SOCKET", "IN"} /\ epoll'[s] = {"IN", "RDHUP"} /\ interest'[s] = {"IN"}
    BY <1>3, SocketAssumption DEF RunServer
  <2>3. \A s \in Socket \ Listening :
          flags'[s] = flags[s] /\ epoll'[s] = epoll[s] /\ interest'[s] = interest[s]
    BY <1>3 DEF RunServer
  <2>4. \A s \in Early : s \in Socket \ Listening /\ flags[s] # {}
    BY <1>3, SocketAssumption DEF RunServer
  <2>5. \A s \in open' \ Early : Matches(flags'[s], epoll'[s], interest'[s])
    BY <2>1, <2>2 DEF Matches
  <2> QED BY <1>0, <2>1, <2>3, <2>4, <2>5 DEF Registered, Matches
<1>4. CASE Wait \/ NextEvent \/ Call \/ Return \/ EndBatch \/ EndTimers
  BY <1>1, <1>4 DEF Wait, NextEvent, Call, Return, EndBatch, EndTimers
<1>5. CASE \E s \in Socket : Operation(s)
  <2>1. PICK s \in Socket : Operation(s)
    BY <1>5
  <2>2. /\ s \in open \ Early /\ pc # "registering" /\ pc' # "registering"
        /\ Usable(s) /\ open' = open
    BY <2>1 DEF Operation, loop
  <2>3. PICK f \in Flags, e \in Watch, i \in Asked : Becomes(s, f, e, i) /\ Matches(f, e, i)
    BY <2>1, <2>2, OperationKeeps DEF Operation
  <2> QED BY <1>0, <2>2, <2>3, ChangeKeeps DEF TypeOK
<1>6. CASE \E s \in Socket : Accept(s) \/ Connect(s)
  <2>1. PICK s \in Socket : Accept(s) \/ Connect(s)
    BY <1>6
  <2>2. /\ s \notin open /\ s \notin Early /\ pc # "registering" /\ pc' # "registering"
        /\ open' = open \union {s} /\ open' \in SUBSET Socket
    BY <1>0, <2>1 DEF Accept, Connect, loop, TypeOK, Registered
  <2>3. \/ Becomes(s, {"SOCKET", "IN"}, {"IN", "RDHUP"}, {"IN"})
        \/ Becomes(s, {}, {}, {})
    BY <2>1 DEF Accept, Connect
  <2>4. Matches({"SOCKET", "IN"}, {"IN", "RDHUP"}, {"IN"}) /\ Matches({}, {}, {})
    BY DEF Matches
  <2>5. open' \ {s} = open \ {s} /\ s \in open'
    BY <2>2
  <2> QED BY <2>2, <2>3, <2>4, <2>5, ChangeKeeps DEF Flags, Watch, Asked
<1>7. CASE \E s \in Socket : CloseByHandler(s) \/ CloseByTimer(s)
  <2>1. PICK s \in Socket : CloseByHandler(s) \/ CloseByTimer(s)
    BY <1>7
  <2>2. /\ s \notin Early /\ pc # "registering" /\ pc' # "registering"
        /\ Becomes(s, {}, {}, {}) /\ open' = open \ {s} /\ open' \in SUBSET Socket
    BY <1>0, <2>1 DEF CloseByHandler, CloseByTimer, OnSocketClose, TypeOK
  <2>3. open' \ {s} = open \ {s} /\ s \notin open'
    BY <2>2
  <2> QED BY <2>2, <2>3, ChangeKeeps DEF Flags, Watch, Asked
<1>8. CASE UNCHANGED vars
  BY <1>0, <1>8 DEF vars, loop, Registered, Matches
<1> QED BY <1>2, <1>3, <1>4, <1>5, <1>6, <1>7, <1>8 DEF Next

LEMMA Invariance == Spec => []IInv
<1>1. IInv /\ [Next]_vars => IInv'
  BY StepTypeOK, StepRegistered DEF IInv
<1> QED BY <1>1, InitIInv, PTL DEF Spec

(* The variables of the architecture keep their types.                     *)
THEOREM TypeCorrect == Spec => []TypeOK
BY Invariance, PTL DEF IInv

(* Whatever handlers do, to their own sockets or to those of others, the   *)
(* flags that save calls of epoll_ctl say what the kernel watches, and     *)
(* that is what the operations asked for.                                  *)
THEOREM FlagsCorrect == Spec => [](FlagsMatch /\ InterestKept)
<1>1. IInv => FlagsMatch /\ InterestKept
  BY DEF IInv, Registered, Matches, FlagsMatch, InterestKept
<1> QED BY <1>1, Invariance, PTL

(* In particular no operation loses interest another one asked for, or     *)
(* keeps what was taken back (InterestKept).                               *)
THEOREM InterestCorrect == Spec => []InterestKept
BY FlagsCorrect, PTL

-----------------------------------------------------------------------------
(* Handlers that keep to their own socket.                                 *)

OneHangup(evs) == evs = {"HUP"} \/ "HUP" \notin evs

(* The batch names every socket once, all of them open, and not the one    *)
(* whose event is at hand; that one is currentSocket until it is closed.   *)
BatchInv ==
  /\ pc \in {"registering", "waiting", "timers"} => events = <<>> /\ pending = {}
  /\ \A i, j \in DOMAIN events : events[i].sock = events[j].sock => i = j
  /\ \A i \in DOMAIN events : events[i].sock \in open /\ OneHangup(events[i].events)
  /\ OneHangup(pending)
  /\ pending # {} \/ pc = "handling" => \A i \in DOMAIN events : events[i].sock # sock
  /\ pending # {} =>
       \/ /\ sock \in open
          /\ currentSocket = sock \/ (pc = "dispatching" /\ pending = {"HUP"})
       \/ pc = "handling" /\ currentSocket = NULL

LEMMA InitBatchInv == Init => BatchInv
BY EmptySeq DEF Init, BatchInv, OneHangup

(* What is left of a batch once its head is taken.                         *)
LEMMA TailFacts ==
  ASSUME NEW S, NEW s \in Seq(S), s # <<>>
  PROVE  /\ 1 \in DOMAIN s /\ Head(s) = s[1]
         /\ \A i \in DOMAIN Tail(s) :
              /\ i + 1 \in DOMAIN s /\ Tail(s)[i] = s[i + 1]
              /\ i \in Nat /\ i >= 1
         /\ \A i \in DOMAIN s : i = 1 \/ (i - 1 \in DOMAIN Tail(s) /\ Tail(s)[i - 1] = s[i])
<1>1. /\ Len(s) \in Nat /\ Len(s) >= 1 /\ DOMAIN s = 1..Len(s)
      /\ Len(Tail(s)) = Len(s) - 1 /\ Tail(s) \in Seq(S) /\ Head(s) = s[1]
  BY HeadTailProperties, EmptySeq, LenProperties
<1>2. DOMAIN Tail(s) = 1..(Len(s) - 1)
  BY <1>1, LenProperties
<1>3. \A i \in 1..(Len(s) - 1) : Tail(s)[i] = s[i + 1]
  BY HeadTailProperties, <1>1
<1> QED BY <1>1, <1>2, <1>3

LEMMA StepBatchInv ==
  ASSUME ~Relays, IInv, BatchInv, [Next]_vars
  PROVE  BatchInv'
<1>0. TypeOK /\ Registered /\ (events \in Seq(Event))
  BY DEF IInv, TypeOK, Event
<1>1. ASSUME UNCHANGED loop, open \subseteq open' PROVE BatchInv'
  BY <1>1 DEF BatchInv, loop, OneHangup
<1>2. CASE \E s \in Early : RegisterEarly(s)
  BY <1>1, <1>2 DEF RegisterEarly
<1>3. CASE RunServer
  BY <1>3 DEF RunServer, BatchInv, OneHangup
<1>4. CASE Wait
  <2>1. PICK n \in 0..MaxEvents :
          /\ events' \in [1..n -> Event]
          /\ \A i \in 1..n : /\ events'[i].sock \in Socket
                           /\ Watched(events'[i].sock)
                           /\ events'[i].events \in Reports(events'[i].sock)
          /\ \A i, j \in 1..n : events'[i].sock = events'[j].sock => i = j
    BY <1>4, WaitFills
  <2>2. DOMAIN events' = 1..n
    BY <2>1
  <2>3. \A s \in Socket : Watched(s) => s \in open
    BY <1>0 DEF Registered, Watched
  <2>4. \A s \in Socket : \A evs \in Reports(s) : OneHangup(evs)
    BY <1>0 DEF TypeOK, Reports, OneHangup
  <2>5. /\ pc' = "dispatching" /\ open' = open /\ sock' = sock
        /\ pending' = {} /\ pending = {}
    BY <1>4 DEF Wait, BatchInv
  <2> QED BY <2>1, <2>2, <2>3, <2>4, <2>5 DEF BatchInv, OneHangup
<1>5. CASE NextEvent
  <2>1. /\ events' = Tail(events) /\ sock' = Head(events).sock
        /\ pending' = Head(events).events /\ events # <<>> /\ open' = open
        /\ pc = "dispatching" /\ pc' = pc
        /\ currentSocket' = IF "HUP" \in Head(events).events THEN currentSocket
                            ELSE Head(events).sock
    BY <1>5 DEF NextEvent
  <2>2. /\ 1 \in DOMAIN events /\ Head(events) = events[1]
        /\ \A i \in DOMAIN events' :
             i + 1 \in DOMAIN events /\ events'[i] = events[i + 1] /\ i \in Nat /\ i >= 1
    BY <1>0, <2>1, TailFacts
  <2>3. \A i \in DOMAIN events' : events'[i].sock # sock'
    BY <2>1, <2>2 DEF BatchInv
  <2>4. \A i, j \in DOMAIN events' : events'[i].sock = events'[j].sock => i = j
    BY <2>2 DEF BatchInv
  <2>5. \A i \in DOMAIN events' : events'[i].sock \in open /\ OneHangup(events'[i].events)
    BY <2>2 DEF BatchInv
  <2>6. sock' \in open /\ OneHangup(pending')
    BY <2>1, <2>2 DEF BatchInv
  <2>7. currentSocket' = sock' \/ pending' = {"HUP"}
    BY <2>1, <2>6 DEF OneHangup
  <2> QED BY <2>1, <2>3, <2>4, <2>5, <2>6, <2>7 DEF BatchInv, OneHangup
<1>6. CASE Call
  <2>1. /\ pc' = "handling" /\ open' = open /\ events' = events /\ sock' = sock
        /\ currentSocket' = currentSocket /\ pc = "dispatching" /\ pending # {}
    BY <1>6 DEF Call
  <2>2. OneHangup(pending') /\ (pending' # {} => pending # {"HUP"})
    BY <1>6 DEF Call, BatchInv, OneHangup
  <2> QED BY <2>1, <2>2 DEF BatchInv, OneHangup
<1>7. CASE Return
  BY <1>7 DEF Return, BatchInv, OneHangup
<1>8. CASE EndBatch \/ EndTimers
  BY <1>8 DEF EndBatch, EndTimers, BatchInv, OneHangup
<1>9. CASE \E s \in Socket : Operation(s)
  BY <1>1, <1>9 DEF Operation
<1>10. CASE \E s \in Socket : Accept(s) \/ Connect(s)
  BY <1>1, <1>10 DEF Accept, Connect
<1>11. CASE \E s \in Socket : CloseByHandler(s)
  <2>1. PICK s \in Socket : CloseByHandler(s)
    BY <1>11
  <2>2. /\ s = sock /\ pc = "handling" /\ open' = open \ {s}
        /\ currentSocket' = IF s = currentSocket THEN NULL ELSE currentSocket
        /\ UNCHANGED <<events, sock, pending, pc>>
    BY <2>1 DEF CloseByHandler, OnSocketClose, Reach
  <2> QED BY <2>2 DEF BatchInv, OneHangup
<1>12. CASE \E s \in Socket : CloseByTimer(s)
  <2>1. pc = "timers" /\ UNCHANGED <<events, sock, pending, pc>>
    BY <1>12 DEF CloseByTimer
  <2> QED BY <2>1, EmptySeq DEF BatchInv, OneHangup
<1>13. CASE UNCHANGED vars
  BY <1>1, <1>13 DEF vars
<1> QED BY <1>2, <1>3, <1>4, <1>5, <1>6, <1>7, <1>8, <1>9, <1>10, <1>11, <1>12, <1>13 DEF Next

LEMMA BatchInvariance ==
  ASSUME ~Relays
  PROVE  Spec => [](IInv /\ BatchInv)
<1>1. IInv /\ BatchInv /\ [Next]_vars => BatchInv'
  BY StepBatchInv
<1> QED BY <1>1, InitBatchInv, Invariance, PTL DEF Spec

(* As long as handlers act on their own socket only, nothing that is still *)
(* to be handled leads to a socket that was closed.                        *)
THEOREM ClosedIsSilent ==
  ASSUME ~Relays
  PROVE  Spec => []NoFurtherEvents
<1>1. BatchInv => NoFurtherEvents
  BY DEF BatchInv, NoFurtherEvents
<1> QED BY <1>1, BatchInvariance, PTL
-----------------------------------------------------------------------------
(* The architecture implements its promise.                                *)

(* The events of the batch, and those left of the event at hand.           *)
Reported(s, evs) == {[sock |-> s, event |-> EventName(ev)] : ev \in evs}
Queue == UNION {Reported(events[i].sock, events[i].events) : i \in DOMAIN events}
AtHand == IF pc = "handling" /\ currentSocket = NULL THEN {} ELSE Reported(sock, pending)

AskedFor == [s \in Socket |-> {EventName(ev) : ev \in interest[s]}]

LEMMA UnhandledIs == Unhandled = AtHand \union Queue
BY DEF Unhandled, AtHand, Queue, Reported

(* A step that changes what one socket asked for.                          *)
LEMMA AskedChanges ==
  ASSUME IInv, NEW s \in Socket, NEW f \in Flags, NEW e \in Watch, NEW i \in Asked,
         Becomes(s, f, e, i)
  PROVE  \E evs \in SUBSET {"in", "out"} : AskedFor' = [AskedFor EXCEPT ![s] = evs]
<1>1. {EventName(ev) : ev \in i} \in SUBSET {"in", "out"}
  BY DEF Asked, EventName
<1>2. interest' = [interest EXCEPT ![s] = i]
  BY DEF Becomes
<1>3. AskedFor' = [AskedFor EXCEPT ![s] = {EventName(ev) : ev \in i}]
  BY <1>2 DEF AskedFor, IInv, TypeOK
<1> QED BY <1>1, <1>3

LEMMA SameQueue ==
  ASSUME UNCHANGED <<events, sock, pending, currentSocket, pc>>
  PROVE  Unhandled' = Unhandled
BY DEF Unhandled

LEMMA NothingUnhandled ==
  /\ events = <<>> /\ pending = {} => Unhandled = {}
  /\ (events = <<>> /\ pending = {})' => Unhandled' = {}
<1>1. ASSUME events = <<>>, pending = {} PROVE Unhandled = {}
  <2>1. DOMAIN events = {}
    BY <1>1, EmptySeq
  <2> QED BY <1>1, <2>1 DEF Unhandled
<1>2. ASSUME events' = <<>>, pending' = {} PROVE Unhandled' = {}
  <2>1. DOMAIN events' = {}
    BY <1>2, EmptySeq
  <2> QED BY <1>2, <2>1 DEF Unhandled
<1> QED BY <1>1, <1>2

(* A batch is reported, of what the sockets in it asked for.               *)
LEMMA WaitReports ==
  ASSUME IInv, BatchInv, Wait
  PROVE  Architecture!Report
<1> DEFINE Fitting == {r \in Architecture!Reports :
                         /\ r.sock \in open
                         /\ r.event \in AskedFor[r.sock] \union {"hangup"}}
<1>0. TypeOK /\ Registered
  BY DEF IInv
<1>1. PICK n \in 0..MaxEvents :
        /\ events' \in [1..n -> Event]
        /\ \A i \in 1..n : /\ events'[i].sock \in Socket
                         /\ Watched(events'[i].sock)
                         /\ events'[i].events \in Reports(events'[i].sock)
  BY WaitFills
<1>2. Unhandled = {} /\ pending' = {}
  BY NothingUnhandled DEF Wait, BatchInv
<1>3. ASSUME NEW r \in Queue' PROVE r \in Fitting
  <2>a. PICK i \in 1..n : \E ev \in events'[i].events :
          r = [sock |-> events'[i].sock, event |-> EventName(ev)]
    BY <1>1 DEF Queue, Reported
  <2>1. PICK ev \in events'[i].events :
          r = [sock |-> events'[i].sock, event |-> EventName(ev)]
    BY <2>a
  <2> DEFINE s == events'[i].sock
  <2>2. s \in Socket /\ s \in open /\ ev \in epoll[s] \union {"HUP"}
    BY <1>0, <1>1, <2>1 DEF Registered, Watched, Reports
  <2>3. ev \in {"IN", "OUT"} => ev \in interest[s]
    <3>1. s \notin Early /\ Matches(flags[s], epoll[s], interest[s])
      BY <1>0, <1>1, <2>2 DEF Registered, Watched
    <3>2. epoll[s] \intersect {"IN", "OUT"} = interest[s]
      BY <3>1 DEF Matches
    <3> QED BY <2>2, <3>2
  <2>4. EventName(ev) \in {"in", "out", "hangup"}
    BY DEF EventName
  <2>5. AskedFor[s] = {EventName(x) : x \in interest[s]}
    BY <2>2 DEF AskedFor
  <2>6. EventName(ev) \in AskedFor[s] \union {"hangup"}
    <3>1. CASE ev \in {"IN", "OUT"}
      BY <2>3, <2>5, <3>1
    <3>2. CASE ev \notin {"IN", "OUT"}
      BY <3>2 DEF EventName
    <3> QED BY <3>1, <3>2
  <2> HIDE DEF s
  <2> QED BY <2>1, <2>2, <2>4, <2>6 DEF s, Architecture!Reports, Architecture!Event
<1>4. Unhandled' = Queue'
  BY <1>2 DEF Unhandled, Queue, Reported
<1>5. Unhandled' \in SUBSET Fitting
  BY <1>3, <1>4
<1>6. UNCHANGED <<open, interest>>
  BY DEF Wait
<1> QED BY <1>2, <1>5, <1>6 DEF Architecture!Report, AskedFor

(* Taking an event from the batch handles nothing yet.                     *)
LEMMA NextEventStutters ==
  ASSUME IInv, BatchInv, NextEvent
  PROVE  Unhandled' = Unhandled
<1>1. /\ events \in Seq(Event) /\ events # <<>> /\ events' = Tail(events)
      /\ sock' = Head(events).sock /\ pending' = Head(events).events
      /\ pc = "dispatching" /\ pc' = pc /\ pending = {}
  BY DEF NextEvent, IInv, TypeOK, Event
<1>2. /\ 1 \in DOMAIN events /\ Head(events) = events[1]
      /\ \A i \in DOMAIN events' : i + 1 \in DOMAIN events /\ events'[i] = events[i + 1]
      /\ \A i \in DOMAIN events :
           i = 1 \/ (i - 1 \in DOMAIN events' /\ events'[i - 1] = events[i])
  BY <1>1, TailFacts
<1>3. Unhandled = Queue
  BY <1>1 DEF Unhandled, Queue, Reported
<1>4. Unhandled' = Reported(events[1].sock, events[1].events) \union Queue'
  BY <1>1, <1>2 DEF Unhandled, Queue, Reported
<1>5. Queue \subseteq Reported(events[1].sock, events[1].events) \union Queue'
  BY <1>2 DEF Queue
<1>6. Reported(events[1].sock, events[1].events) \union Queue' \subseteq Queue
  BY <1>2 DEF Queue
<1> QED BY <1>3, <1>4, <1>5, <1>6

(* The call of a handler takes one event, which is nowhere else.           *)
LEMMA CallHandles ==
  ASSUME IInv, BatchInv, Call
  PROVE  \E r \in Unhandled : Architecture!Handle(r)
<1>1. /\ pc = "dispatching" /\ pc' = "handling" /\ pending # {}
      /\ UNCHANGED <<open, interest, events, sock, currentSocket>>
  BY DEF Call
<1>2. PICK ev \in pending :
        /\ pending' = pending \ {ev}
        /\ \A x \in pending' : EventName(x) # EventName(ev)
        /\ pending # {"HUP"} \/ pending' = {}
  <2>1. CASE "IN" \in pending
    BY <2>1 DEF Call, EventName, BatchInv, OneHangup
  <2>2. CASE "IN" \notin pending /\ "OUT" \in pending
    BY <2>2 DEF Call, EventName, BatchInv, OneHangup
  <2>3. CASE pending \in {{"RDHUP"}, {"HUP"}}
    BY <2>3 DEF Call, EventName
  <2> QED BY <2>1, <2>2, <2>3 DEF Call
<1> DEFINE r == [sock |-> sock, event |-> EventName(ev)]
<1>3. currentSocket = NULL => pending' = {}
  BY <1>1, <1>2, SocketAssumption DEF BatchInv, IInv, TypeOK
<1>4. Reported(sock, pending') = Reported(sock, pending) \ {r}
  BY <1>2 DEF Reported
<1>5. r \notin Queue
  <2>1. \A q \in Queue : q.sock # sock
    BY <1>1 DEF BatchInv, Queue, Reported
  <2> QED BY <2>1
<1>6. Unhandled = Reported(sock, pending) \union Queue
  BY <1>1 DEF Unhandled, Queue, Reported
<1>7. Unhandled' = Reported(sock, pending') \union Queue
  <2>1. AtHand' = Reported(sock, pending')
    BY <1>1, <1>3 DEF AtHand, Reported
  <2>2. Queue' = Queue
    BY <1>1 DEF Queue, Reported
  <2>3. Unhandled' = AtHand' \union Queue'
    BY DEF Unhandled, AtHand, Queue, Reported
  <2> QED BY <2>1, <2>2, <2>3
<1>8. r \in Reported(sock, pending)
  BY <1>2 DEF Reported
<1>9. r \in Unhandled /\ Unhandled' = Unhandled \ {r}
  BY <1>4, <1>5, <1>6, <1>7, <1>8
<1> HIDE DEF r
<1> QED BY <1>1, <1>9 DEF Architecture!Handle

(* A handler closes its socket, whose remaining events are dropped.        *)
LEMMA CloseDrops ==
  ASSUME ~Relays, IInv, BatchInv, NEW s \in Socket, CloseByHandler(s)
  PROVE  Unhandled' = {r \in Unhandled : r.sock # s}
<1>1. /\ s = sock /\ pc = "handling" /\ pc' = pc
      /\ currentSocket' = IF s = currentSocket THEN NULL ELSE currentSocket
      /\ UNCHANGED <<events, sock, pending>>
  BY DEF CloseByHandler, OnSocketClose, Reach
<1>2. \A r \in AtHand : r.sock = s
  BY <1>1 DEF AtHand, Reported
<1>3. \A r \in Queue : r.sock # s
  BY <1>1 DEF BatchInv, Queue, Reported
<1>4. AtHand' = {}
  <2>1. pending = {} \/ currentSocket' = NULL
    BY <1>1 DEF BatchInv
  <2> QED BY <1>1, <2>1 DEF AtHand, Reported
<1>5. Queue' = Queue
  BY <1>1 DEF Queue, Reported
<1>6. Unhandled' = AtHand' \union Queue'
  BY DEF Unhandled, AtHand, Queue, Reported
<1> QED BY <1>2, <1>3, <1>4, <1>5, <1>6, UnhandledIs

LEMMA StepArchitecture ==
  ASSUME ~Relays, IInv, BatchInv, IInv', BatchInv', [Next]_vars
  PROVE  [Architecture!Next]_(Architecture!vars)
<1> DEFINE A == AskedFor
           R == Unhandled
<1>0. TypeOK /\ Registered
  BY DEF IInv
<1>a. SUFFICES Architecture!Next \/ (open' = open /\ A' = A /\ R' = R)
  BY DEF Architecture!vars, AskedFor
<1>b. ASSUME interest' = interest PROVE A' = A
  BY <1>b DEF AskedFor
<1>c. ASSUME NEW s \in open, NEW f \in Flags, NEW e \in Watch, NEW i \in Asked,
             Becomes(s, f, e, i), open' = open, R' = R
      PROVE  Architecture!Next
  <2>1. s \in Socket
    BY <1>0 DEF TypeOK
  <2>2. PICK evs \in SUBSET {"in", "out"} : A' = [A EXCEPT ![s] = evs]
    BY <1>c, <2>1, AskedChanges
  <2>3. Architecture!Ask(s)
    BY <1>c, <2>2 DEF Architecture!Ask, AskedFor
  <2> QED BY <2>1, <2>3 DEF Architecture!Next
<1>d. ASSUME NEW s \in open, OnSocketClose(s), R' = {r \in R : r.sock # s}
      PROVE  Architecture!Next
  <2>1. s \in Socket
    BY <1>0 DEF TypeOK
  <2>2. A' = [A EXCEPT ![s] = {}]
    BY <1>0, <1>d, <2>1 DEF OnSocketClose, Becomes, AskedFor, TypeOK
  <2>3. Architecture!Close(s)
    BY <1>d, <2>2 DEF OnSocketClose, Architecture!Close, AskedFor
  <2> QED BY <2>1, <2>3 DEF Architecture!Next
<1>1. CASE \E s \in Early : RegisterEarly(s)
  <2>1. PICK s \in Early : RegisterEarly(s)
    BY <1>1
  <2>2. Becomes(s, {"IN", "SOCKET"}, {}, {"IN"}) /\ s \in open
    BY <1>0, <2>1 DEF RegisterEarly, AddReadSocket, Add, Added, Registered
  <2>3. open' = open /\ R' = R
    BY <2>1, SameQueue DEF RegisterEarly, loop
  <2> QED BY <1>c, <2>2, <2>3 DEF Flags, Watch, Asked
<1>2. CASE RunServer
  <2>1. R = {} /\ R' = {} /\ open' = open
    BY <1>2, NothingUnhandled DEF RunServer, BatchInv
  <2>2. \A s \in Socket :
          interest'[s] = IF s \in Listening \union Early THEN {"IN"} ELSE interest[s]
    BY <1>0, <1>2 DEF RunServer, Registered
  <2>3. \A s \in Socket :
          A'[s] = IF s \in Listening \union Early THEN {"in"} ELSE A[s]
    BY <2>2 DEF AskedFor, EventName
  <2>4. A' = [s \in Socket |-> IF s \in Listening \union Early THEN {"in"} ELSE A[s]]
    BY <2>3 DEF AskedFor
  <2> QED BY <2>1, <2>4 DEF Architecture!Start, Architecture!Next, AskedFor
<1>3. CASE Wait
  BY <1>3, WaitReports DEF Architecture!Next
<1>4. CASE NextEvent
  BY <1>b, <1>4, NextEventStutters DEF NextEvent
<1>5. CASE Call
  BY <1>5, CallHandles DEF Architecture!Next
<1>6. CASE Return
  <2>1. AtHand' = AtHand
    BY <1>6 DEF Return, AtHand, Reported
  <2>2. Queue' = Queue
    BY <1>6 DEF Return, Queue, Reported
  <2>3. R' = AtHand' \union Queue' /\ R = AtHand \union Queue
    BY DEF Unhandled, AtHand, Queue, Reported
  <2> QED BY <1>b, <1>6, <2>1, <2>2, <2>3 DEF Return
<1>7. CASE EndBatch \/ EndTimers
  BY <1>b, <1>7, NothingUnhandled DEF EndBatch, EndTimers, BatchInv
<1>8. CASE \E s \in Socket : Operation(s)
  <2>1. PICK s \in Socket : Operation(s)
    BY <1>8
  <2>2. s \in open \ Early /\ pc # "registering" /\ Usable(s) /\ open' = open /\ R' = R
    BY <2>1, SameQueue DEF Operation, loop
  <2>3. PICK f \in Flags, e \in Watch, i \in Asked : Becomes(s, f, e, i)
    BY <2>1, <2>2, OperationKeeps DEF Operation
  <2> QED BY <1>c, <2>2, <2>3
<1>9. CASE \E s \in Socket : Accept(s) \/ Connect(s)
  <2>1. PICK s \in Socket : Accept(s) \/ Connect(s)
    BY <1>9
  <2>2. s \notin open /\ open' = open \union {s} /\ R' = R
    BY <2>1, SameQueue DEF Accept, Connect, loop
  <2>3. \/ Becomes(s, {"SOCKET", "IN"}, {"IN", "RDHUP"}, {"IN"})
        \/ Becomes(s, {}, {}, {})
    BY <2>1 DEF Accept, Connect
  <2>4. PICK evs \in SUBSET {"in", "out"} : A' = [A EXCEPT ![s] = evs]
    BY <2>3, AskedChanges DEF Flags, Watch, Asked
  <2>5. Architecture!Open(s)
    BY <2>2, <2>4 DEF Architecture!Open, AskedFor
  <2> QED BY <2>5 DEF Architecture!Next
<1>10. CASE \E s \in Socket : CloseByHandler(s)
  <2>1. PICK s \in Socket : CloseByHandler(s)
    BY <1>10
  <2> QED BY <1>d, <2>1, CloseDrops DEF CloseByHandler
<1>11. CASE \E s \in Socket : CloseByTimer(s)
  <2>1. PICK s \in Socket : CloseByTimer(s)
    BY <1>11
  <2>2. R = {} /\ R' = {}
    BY <2>1, NothingUnhandled DEF CloseByTimer, BatchInv
  <2> QED BY <1>d, <2>1, <2>2 DEF CloseByTimer
<1>12. CASE UNCHANGED vars
  BY <1>b, <1>12, SameQueue DEF vars, loop
<1> QED BY <1>1, <1>2, <1>3, <1>4, <1>5, <1>6, <1>7, <1>8, <1>9, <1>10, <1>11, <1>12
        DEF Next

(* epoll, the flags, the batch and currentSocket do what a set of reported *)
(* events that knows what is closed would do.                              *)
THEOREM LinuxPollImplementsArchitecture ==
  ASSUME ~Relays
  PROVE  Spec => ImplementsArchitecture
<1>1. Init => Architecture!Init
  <2> SUFFICES ASSUME Init PROVE Architecture!Init
    OBVIOUS
  <2>1. Unhandled = {}
    BY NothingUnhandled DEF Init
  <2>2. AskedFor = [s \in Socket |-> {}]
    BY DEF Init, AskedFor
  <2> QED BY <2>1, <2>2 DEF Init, AskedFor, Architecture!Init
<1>2. IInv /\ BatchInv /\ IInv' /\ BatchInv' /\ [Next]_vars
        => [Architecture!Next]_(Architecture!vars)
  BY StepArchitecture
<1> QED BY <1>1, <1>2, BatchInvariance, PTL
        DEF Spec, ImplementsArchitecture, Architecture!Spec

=============================================================================
