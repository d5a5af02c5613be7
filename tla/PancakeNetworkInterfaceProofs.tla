-------------------- MODULE PancakeNetworkInterfaceProofs --------------------
(***************************************************************************)
(* Proofs about PancakeNetworkInterface: for files of any length, in any   *)
(* order, with any number of interfaces and contexts, what is said is what *)
(* listens, the pointers to sockets are right although the TLS layer moves *)
(* sockets, and a client gets the context and the protocol that are meant. *)
(*                                                                         *)
(* Elements change the interface that was begun last and nothing of those  *)
(* before it.  So what is invariant is stated of one interface, and a step *)
(* is shown to keep it of the last one and to leave the others alone.      *)
(***************************************************************************)
EXTENDS PancakeNetworkInterface, FiniteSetTheorems, SequenceTheorems, TLAPS

-----------------------------------------------------------------------------
(* The inductive invariant.                                                *)

Descriptor == [bound : 0..1, backlog : Nat, watched : BOOLEAN]

TypesCorrect ==
  /\ phase \in {"load", "loaded", "listening", "running", "unloaded", "failed"}
  /\ elements \in 0..MaxElements
  /\ place \in Places
  /\ said \in Seq(Said)
  /\ hook \in Seq(Cell) /\ Len(hook) = Len(said)
  /\ kernel \in Seq(Descriptor) /\ Len(kernel) = Len(said)
  /\ memory \in [Cell -> Socket \union {NULL}]
  /\ listenSockets \in Seq(Cell)
  /\ contexts \in Seq(Context)

(* What the place in the file says of the interface that is read.          *)
PlaceCorrect ==
  /\ place # "interface" => said # <<>>
  /\ said # <<>> =>
       /\ place = "interface" => ~said[This].group
       /\ place \in {"group", "contexts"} => said[This].group
       /\ place = "group" => said[This].contexts = <<>>
       /\ place = "contexts" => said[This].contexts # <<>>

(* A socket has one interface, and an interface has a socket until the     *)
(* server is unloaded.                                                     *)
HooksCorrect ==
  /\ \A i, j \in 1..Len(said) : hook[i] = hook[j] => i = j
  /\ phase # "unloaded" => \A i \in 1..Len(said) : memory[hook[i]] # NULL

(* What is in memory of an interface is what the file says of it.          *)
SocketCorrect(i) ==
  LET sock == memory[hook[i]]
  IN /\ sock.family = said[i].family
     /\ sock.address = said[i].address
     /\ (sock.port <=> said[i].port)
     /\ (sock.tls <=> said[i].group)
     /\ phase \in {"load", "loaded"} => sock.backlog = said[i].backlog
     /\ sock.fd \in {0, i}
     /\ said[i].family # NULL => sock.fd = i
     /\ said[i].family = NULL => said[i].address = "none" /\ ~said[i].port

SocketsCorrect ==
  phase # "unloaded" => \A i \in 1..Len(said) : SocketCorrect(i)

(* An interface is bound from the time its address is complete.            *)
BoundCorrect(i) ==
  /\ kernel[i].bound = 1 => phase # "unloaded" /\ said[i].family # NULL
  /\ phase # "unloaded" /\ ~Doubtful(said[i]) =>
       (kernel[i].bound = 1 <=> Full(said[i]))
  /\ (kernel[i].watched <=> (phase = "running" /\ kernel[i].bound = 1))
  /\ phase \in {"listening", "running"} /\ kernel[i].bound = 1 =>
       kernel[i].backlog = said[i].backlog

KernelCorrect == \A i \in 1..Len(said) : BoundCorrect(i)

(* There is one pointer to each socket that is bound, and no other.        *)
PointersCorrect ==
  /\ \A k \in 1..Len(listenSockets) :
       \E i \in 1..Len(said) : kernel[i].bound = 1 /\ listenSockets[k] = hook[i]
  /\ \A k, l \in 1..Len(listenSockets) : listenSockets[k] = listenSockets[l] => k = l
  /\ \A i \in 1..Len(said) : kernel[i].bound = 1 =>
       \E k \in 1..Len(listenSockets) : listenSockets[k] = hook[i]

(* The tables of any extended socket hold contexts that exist.             *)
CellsCorrect ==
  \A x \in Cell : memory[x] # NULL /\ memory[x].tls =>
    /\ memory[x].default \in 0..Len(contexts)
    /\ \A d \in Domain : memory[x].domains[d] \in 0..Len(contexts)

(* Each context that the file says of an interface exists once.            *)
OriginsCorrect ==
  /\ \A b, c \in 1..Len(contexts) : contexts[b].of = contexts[c].of => b = c
  /\ \A c \in 1..Len(contexts) :
       \E i \in 1..Len(said) : \E k \in 1..Len(said[i].contexts) :
         contexts[c].of = <<i, k>>

(* The contexts in the tables of a socket are those the file says of its   *)
(* interface, and have its protocol.                                       *)
DefaultCorrect(i) ==
  LET default == memory[hook[i]].default
  IN /\ (default = 0 <=> said[i].contexts = <<>>)
     /\ default # 0 =>
          /\ contexts[default].of = <<i, 1>>
          /\ contexts[default].protocol = said[i].protocol
          /\ contexts[default].names =
               IF Len(said[i].contexts) > 1 THEN hook[i] ELSE NULL

DomainsCorrect(i) ==
  \A d \in Domain : memory[hook[i]].domains[d] # 0 =>
    /\ contexts[memory[hook[i]].domains[d]].protocol = said[i].protocol
    /\ \E k \in 1..Len(said[i].contexts) :
         /\ contexts[memory[hook[i]].domains[d]].of = <<i, k>>
         /\ said[i].contexts[k] = d

NamesCorrect(i) ==
  /\ \A k \in 1..Len(said[i].contexts) : said[i].contexts[k] # NULL =>
       memory[hook[i]].domains[said[i].contexts[k]] # 0
  /\ \A k, l \in 1..Len(said[i].contexts) :
       said[i].contexts[k] = said[i].contexts[l] /\ said[i].contexts[k] # NULL => k = l

TableCorrect(i) == DefaultCorrect(i) /\ DomainsCorrect(i) /\ NamesCorrect(i)

Groupless(i) == said[i].contexts = <<>>

TablesCorrect ==
  phase # "unloaded" =>
    \A i \in 1..Len(said) :
      IF said[i].group THEN TableCorrect(i) ELSE Groupless(i)

(* The context that is being read is the last one, and has the protocol.   *)
LatestCorrect ==
  place = "contexts" =>
    /\ contexts # <<>>
    /\ contexts[Len(contexts)].of = <<This, Len(said[This].contexts)>>
    /\ contexts[Len(contexts)].protocol = said[This].protocol

SessionCorrect ==
  /\ phase # "running" => session = NULL
  /\ NegotiatedAsSaid

InterfacesCorrect ==
  /\ TypesCorrect
  /\ PlaceCorrect
  /\ HooksCorrect
  /\ SocketsCorrect
  /\ KernelCorrect
  /\ PointersCorrect

ServersCorrect ==
  /\ CellsCorrect
  /\ OriginsCorrect
  /\ TablesCorrect
  /\ LatestCorrect

-----------------------------------------------------------------------------
(* Steps that read an element.                                             *)

(* An element changes what is said of the interface that is read to r, and *)
(* its socket to s.                                                        *)
Renews(r, s) ==
  /\ said # <<>>
  /\ said' = [said EXCEPT ![This] = r]
  /\ memory' = [memory EXCEPT ![ThisCell] = s]
  /\ hook' = hook

(* The interface that is read exists, and so does its socket.              *)
LEMMA ThisExists ==
  ASSUME TypesCorrect, said # <<>>
  PROVE  /\ Len(said) \in Nat /\ Len(said) >= 1
         /\ This \in 1..Len(said) /\ ThisCell \in Cell /\ said[This] \in Said
<1>1. Len(said) \in Nat \ {0}
  BY EmptySeq DEF TypesCorrect
<1>2. This \in 1..Len(said) /\ This \in 1..Len(hook)
  BY <1>1 DEF This, TypesCorrect
<1>3. hook[This] \in Cell
  BY <1>2, ElementOfSeq DEF TypesCorrect
<1>4. said[This] \in Said
  BY <1>2, ElementOfSeq DEF TypesCorrect
<1> QED BY <1>1, <1>2, <1>3, <1>4 DEF ThisCell

(* What a step that renews leaves alone.                                   *)
LEMMA RenewsFacts ==
  ASSUME TypesCorrect, NEW r \in Said, NEW s \in Socket, Renews(r, s)
  PROVE  /\ said' \in Seq(Said) /\ Len(said') = Len(said) /\ said' # <<>>
         /\ said'[This] = r
         /\ \A i \in 1..Len(said) : i # This => said'[i] = said[i]
         /\ memory' \in [Cell -> Socket \union {NULL}]
         /\ memory'[ThisCell] = s
         /\ \A x \in Cell : x # ThisCell => memory'[x] = memory[x]
         /\ This' = This /\ ThisCell' = ThisCell
<1>1. said # <<>>
  BY DEF Renews
<1>2. This \in 1..Len(said) /\ ThisCell \in Cell
  BY <1>1, ThisExists
<1>3. said' = [said EXCEPT ![This] = r]
  BY DEF Renews
<1>4. said \in Seq(Said)
  BY DEF TypesCorrect
<1>5. /\ said' \in Seq(Said) /\ Len(said') = Len(said)
      /\ \A i \in 1..Len(said) : said'[i] = IF i = This THEN r ELSE said[i]
  BY <1>2, <1>3, <1>4, ExceptSeq
<1>6. /\ memory' \in [Cell -> Socket \union {NULL}]
      /\ memory'[ThisCell] = s
      /\ \A x \in Cell : x # ThisCell => memory'[x] = memory[x]
  BY <1>2 DEF Renews, TypesCorrect
<1>7. This' = This /\ ThisCell' = ThisCell
  BY <1>5 DEF Renews, This, ThisCell
<1>8. said' # <<>>
  <2>1. Len(said') >= 1
    BY <1>1, <1>5, ThisExists
  <2>2. Len(<<>>) = 0
    BY EmptySeq
  <2> QED BY <2>1, <2>2
<1> QED BY <1>2, <1>5, <1>6, <1>7, <1>8

(* The elements of an interface, as steps that renew it.                   *)
LEMMA NetworkRenews ==
  ASSUME TypesCorrect, HooksCorrect, NEW f \in Families, Network(f)
  PROVE  \E r \in Said, s \in Socket :
           /\ Renews(r, s)
           /\ r.family = f /\ r.address = said[This].address
           /\ (r.port <=> said[This].port)
           /\ (r.portFirst <=> said[This].portFirst)
           /\ r.backlog = said[This].backlog
           /\ r.protocol = said[This].protocol
           /\ (r.group <=> said[This].group)
           /\ r.contexts = said[This].contexts
           /\ s.fd = This /\ s.family = f /\ s.address = Sock.address
           /\ (s.port <=> Sock.port) /\ s.backlog = Sock.backlog
           /\ (s.tls <=> Sock.tls) /\ s.default = Sock.default
           /\ s.domains = Sock.domains
<1>1. said # <<>> /\ phase = "load"
  BY DEF Network, MayReadHere, MayRead
<1>2. This \in 1..Len(said) /\ This \in Nat /\ ThisCell \in Cell /\ said[This] \in Said
  BY <1>1, ThisExists
<1>3. Sock \in Socket
  BY <1>1, <1>2 DEF HooksCorrect, TypesCorrect, Sock, ThisCell
<1> DEFINE r == [said[This] EXCEPT !.family = f]
           s == [Sock EXCEPT !.family = f, !.fd = This]
<1>4. r \in Said
  BY <1>2 DEF Said, Address
<1>5. s \in Socket
  BY <1>2, <1>3 DEF Socket, Address
<1>6. Renews(r, s)
  <2>1. said' = [said EXCEPT ![This] = r]
    BY <1>2 DEF Network, Note, Said
  <2>2. memory' = [memory EXCEPT ![ThisCell] = s]
    BY <1>2, <1>3 DEF Network, Sock, TypesCorrect
  <2> QED BY <1>1, <2>1, <2>2 DEF Renews, Network
<1>7. /\ r.family = f /\ r.address = said[This].address
      /\ (r.port <=> said[This].port)
      /\ (r.portFirst <=> said[This].portFirst)
      /\ r.backlog = said[This].backlog /\ r.protocol = said[This].protocol
      /\ (r.group <=> said[This].group) /\ r.contexts = said[This].contexts
  BY <1>2 DEF Said
<1>8. /\ s.fd = This /\ s.family = f /\ s.address = Sock.address
      /\ (s.port <=> Sock.port) /\ s.backlog = Sock.backlog
      /\ (s.tls <=> Sock.tls) /\ s.default = Sock.default
      /\ s.domains = Sock.domains
  BY <1>3 DEF Socket
<1> HIDE DEF r, s
<1> QED BY <1>4, <1>5, <1>6, <1>7, <1>8

(* An address renews the record and the socket, and touches only them.     *)
LEMMA TheAddressRenews ==
  ASSUME TypesCorrect, HooksCorrect, NEW a \in {"any", "given"}, TheAddress(a)
  PROVE  \E r \in Said, s \in Socket :
           /\ Renews(r, s)
           /\ r.family = said[This].family /\ r.address = a
           /\ (r.port <=> said[This].port)
           /\ (r.portFirst <=> said[This].portFirst)
           /\ r.backlog = said[This].backlog
           /\ r.protocol = said[This].protocol
           /\ (r.group <=> said[This].group)
           /\ r.contexts = said[This].contexts
           /\ s.fd = Sock.fd /\ s.family = Sock.family /\ s.address = a
           /\ (s.port <=> Sock.port) /\ s.backlog = Sock.backlog
           /\ (s.tls <=> Sock.tls) /\ s.default = Sock.default
           /\ s.domains = Sock.domains
<1>1. said # <<>> /\ phase = "load"
  BY DEF TheAddress, MayReadHere, MayRead
<1>2. This \in 1..Len(said) /\ This \in Nat /\ ThisCell \in Cell /\ said[This] \in Said
  BY <1>1, ThisExists
<1>3. Sock \in Socket
  BY <1>1, <1>2 DEF HooksCorrect, TypesCorrect, Sock, ThisCell
<1> DEFINE r == [said[This] EXCEPT !.address = a]
           s == [Sock EXCEPT !.address = a]
<1>4. r \in Said
  BY <1>2 DEF Said, Address
<1>5. s \in Socket
  BY <1>2, <1>3 DEF Socket, Address
<1>6. Renews(r, s)
  <2>1. said' = [said EXCEPT ![This] = r]
    BY <1>2 DEF TheAddress, Note, Said
  <2>2. memory' = [memory EXCEPT ![ThisCell] = s]
    BY <1>2, <1>3 DEF TheAddress, Sock, TypesCorrect
  <2> QED BY <1>1, <2>1, <2>2 DEF Renews, TheAddress
<1>7. /\ r.family = said[This].family /\ r.address = a
      /\ (r.port <=> said[This].port)
      /\ (r.portFirst <=> said[This].portFirst)
      /\ r.backlog = said[This].backlog /\ r.protocol = said[This].protocol
      /\ (r.group <=> said[This].group) /\ r.contexts = said[This].contexts
  BY <1>2 DEF Said
<1>8. /\ s.fd = Sock.fd /\ s.family = Sock.family /\ s.address = a
      /\ (s.port <=> Sock.port) /\ s.backlog = Sock.backlog
      /\ (s.tls <=> Sock.tls) /\ s.default = Sock.default
      /\ s.domains = Sock.domains
  BY <1>3 DEF Socket
<1> HIDE DEF r, s
<1> QED BY <1>4, <1>5, <1>6, <1>7, <1>8

(* So does a port; it remembers whether it came before the address.        *)
LEMMA PortRenews ==
  ASSUME TypesCorrect, HooksCorrect, Port
  PROVE  \E r \in Said, s \in Socket :
           /\ Renews(r, s)
           /\ r.family = said[This].family /\ r.address = said[This].address
           /\ r.port /\ (r.portFirst <=> said[This].address = "none")
           /\ r.backlog = said[This].backlog
           /\ r.protocol = said[This].protocol
           /\ (r.group <=> said[This].group)
           /\ r.contexts = said[This].contexts
           /\ s.fd = Sock.fd /\ s.family = Sock.family
           /\ s.address = Sock.address /\ s.port /\ s.backlog = Sock.backlog
           /\ (s.tls <=> Sock.tls) /\ s.default = Sock.default
           /\ s.domains = Sock.domains
<1>1. said # <<>> /\ phase = "load"
  BY DEF Port, MayReadHere, MayRead
<1>2. This \in 1..Len(said) /\ This \in Nat /\ ThisCell \in Cell /\ said[This] \in Said
  BY <1>1, ThisExists
<1>3. Sock \in Socket
  BY <1>1, <1>2 DEF HooksCorrect, TypesCorrect, Sock, ThisCell
<1> DEFINE r == [said[This] EXCEPT !.port = TRUE,
                              !.portFirst = said[This].address = "none"]
           s == [Sock EXCEPT !.port = TRUE]
<1>4. r \in Said
  BY <1>2 DEF Said, Address
<1>5. s \in Socket
  BY <1>2, <1>3 DEF Socket, Address
<1>6. Renews(r, s)
  <2>1. said' = [said EXCEPT ![This] = r]
    BY <1>2 DEF Port, Note, Said
  <2>2. memory' = [memory EXCEPT ![ThisCell] = s]
    BY <1>2, <1>3 DEF Port, Sock, TypesCorrect
  <2> QED BY <1>1, <2>1, <2>2 DEF Renews, Port
<1>7. /\ r.family = said[This].family /\ r.address = said[This].address
      /\ r.port /\ (r.portFirst <=> said[This].address = "none")
      /\ r.backlog = said[This].backlog /\ r.protocol = said[This].protocol
      /\ (r.group <=> said[This].group) /\ r.contexts = said[This].contexts
  BY <1>2 DEF Said
<1>8. /\ s.fd = Sock.fd /\ s.family = Sock.family /\ s.address = Sock.address
      /\ s.port /\ s.backlog = Sock.backlog /\ (s.tls <=> Sock.tls)
      /\ s.default = Sock.default /\ s.domains = Sock.domains
  BY <1>3 DEF Socket
<1> HIDE DEF r, s
<1> QED BY <1>4, <1>5, <1>6, <1>7, <1>8

(* So does a backlog.                                                      *)
LEMMA BacklogRenews ==
  ASSUME TypesCorrect, HooksCorrect, NEW n \in Nat, Backlog(n)
  PROVE  \E r \in Said, s \in Socket :
           /\ Renews(r, s)
           /\ r.family = said[This].family /\ r.address = said[This].address
           /\ (r.port <=> said[This].port)
           /\ (r.portFirst <=> said[This].portFirst) /\ r.backlog = n
           /\ r.protocol = said[This].protocol
           /\ (r.group <=> said[This].group)
           /\ r.contexts = said[This].contexts
           /\ s.fd = Sock.fd /\ s.family = Sock.family
           /\ s.address = Sock.address /\ (s.port <=> Sock.port)
           /\ s.backlog = n /\ (s.tls <=> Sock.tls)
           /\ s.default = Sock.default /\ s.domains = Sock.domains
<1>1. said # <<>> /\ phase = "load"
  BY DEF Backlog, MayReadHere, MayRead
<1>2. This \in 1..Len(said) /\ This \in Nat /\ ThisCell \in Cell /\ said[This] \in Said
  BY <1>1, ThisExists
<1>3. Sock \in Socket
  BY <1>1, <1>2 DEF HooksCorrect, TypesCorrect, Sock, ThisCell
<1> DEFINE r == [said[This] EXCEPT !.backlog = n]
           s == [Sock EXCEPT !.backlog = n]
<1>4. r \in Said
  BY <1>2 DEF Said, Address
<1>5. s \in Socket
  BY <1>2, <1>3 DEF Socket, Address
<1>6. Renews(r, s)
  <2>1. said' = [said EXCEPT ![This] = r]
    BY <1>2 DEF Backlog, Note, Said
  <2>2. memory' = [memory EXCEPT ![ThisCell] = s]
    BY <1>2, <1>3 DEF Backlog, Sock, TypesCorrect
  <2> QED BY <1>1, <2>1, <2>2 DEF Renews, Backlog
<1>7. /\ r.family = said[This].family /\ r.address = said[This].address
      /\ (r.port <=> said[This].port)
      /\ (r.portFirst <=> said[This].portFirst) /\ r.backlog = n
      /\ r.protocol = said[This].protocol /\ (r.group <=> said[This].group)
      /\ r.contexts = said[This].contexts
  BY <1>2 DEF Said
<1>8. /\ s.fd = Sock.fd /\ s.family = Sock.family /\ s.address = Sock.address
      /\ (s.port <=> Sock.port) /\ s.backlog = n /\ (s.tls <=> Sock.tls)
      /\ s.default = Sock.default /\ s.domains = Sock.domains
  BY <1>3 DEF Socket
<1> HIDE DEF r, s
<1> QED BY <1>4, <1>5, <1>6, <1>7, <1>8

(* So does the name of the layer.                                          *)
LEMMA LayerRenews ==
  ASSUME TypesCorrect, HooksCorrect, Layer
  PROVE  \E r \in Said, s \in Socket :
           /\ Renews(r, s)
           /\ r.family = said[This].family /\ r.address = said[This].address
           /\ (r.port <=> said[This].port)
           /\ (r.portFirst <=> said[This].portFirst)
           /\ r.backlog = said[This].backlog
           /\ r.protocol = said[This].protocol
           /\ (r.group <=> said[This].group)
           /\ r.contexts = said[This].contexts
           /\ s.fd = Sock.fd /\ s.family = Sock.family
           /\ s.address = Sock.address /\ (s.port <=> Sock.port)
           /\ s.backlog = Sock.backlog /\ (s.tls <=> Sock.tls)
           /\ s.default = Sock.default /\ s.domains = Sock.domains
<1>1. said # <<>> /\ phase = "load"
  BY DEF Layer, MayReadHere, MayRead
<1>2. This \in 1..Len(said) /\ This \in Nat /\ ThisCell \in Cell /\ said[This] \in Said
  BY <1>1, ThisExists
<1>3. Sock \in Socket
  BY <1>1, <1>2 DEF HooksCorrect, TypesCorrect, Sock, ThisCell
<1> DEFINE r == [said[This] EXCEPT !.layer = TRUE]
           s == [Sock EXCEPT !.layer = TRUE]
<1>4. r \in Said
  BY <1>2 DEF Said, Address
<1>5. s \in Socket
  BY <1>2, <1>3 DEF Socket, Address
<1>6. Renews(r, s)
  <2>1. said' = [said EXCEPT ![This] = r]
    BY <1>2 DEF Layer, Note, Said
  <2>2. memory' = [memory EXCEPT ![ThisCell] = s]
    BY <1>2, <1>3 DEF Layer, Sock, TypesCorrect
  <2> QED BY <1>1, <2>1, <2>2 DEF Renews, Layer
<1>7. /\ r.family = said[This].family /\ r.address = said[This].address
      /\ (r.port <=> said[This].port)
      /\ (r.portFirst <=> said[This].portFirst)
      /\ r.backlog = said[This].backlog /\ r.protocol = said[This].protocol
      /\ (r.group <=> said[This].group) /\ r.contexts = said[This].contexts
  BY <1>2 DEF Said
<1>8. /\ s.fd = Sock.fd /\ s.family = Sock.family /\ s.address = Sock.address
      /\ (s.port <=> Sock.port) /\ s.backlog = Sock.backlog
      /\ (s.tls <=> Sock.tls) /\ s.default = Sock.default
      /\ s.domains = Sock.domains
  BY <1>3 DEF Socket
<1> HIDE DEF r, s
<1> QED BY <1>4, <1>5, <1>6, <1>7, <1>8

(* The elements of the group of the layer, as steps that renew it.  They   *)
(* leave alone what is said of the address.                                *)
SameAddress(r, s) ==
  /\ r.family = said[This].family /\ r.address = said[This].address
  /\ (r.port <=> said[This].port) /\ (r.portFirst <=> said[This].portFirst)
  /\ r.backlog = said[This].backlog /\ (r.group <=> said[This].group)
  /\ s.fd = Sock.fd /\ s.family = Sock.family /\ s.address = Sock.address
  /\ (s.port <=> Sock.port) /\ s.backlog = Sock.backlog /\ (s.tls <=> Sock.tls)

(* What is read in the group of the layer.                                 *)
LEMMA InGroup ==
  ASSUME TypesCorrect, HooksCorrect, PlaceCorrect, MayRead({"group", "contexts"})
  PROVE  /\ said # <<>> /\ phase = "load"
         /\ This \in 1..Len(said) /\ This \in Nat /\ ThisCell \in Cell
         /\ said[This] \in Said /\ said[This].group
         /\ Sock \in Socket /\ said[This].contexts \in Seq(Domain \union {NULL})
<1>1. said # <<>> /\ phase = "load" /\ said[This].group
  BY DEF MayRead, PlaceCorrect
<1>2. This \in 1..Len(said) /\ This \in Nat /\ ThisCell \in Cell /\ said[This] \in Said
  BY <1>1, ThisExists
<1>3. Sock \in Socket
  BY <1>1, <1>2 DEF HooksCorrect, TypesCorrect, Sock, ThisCell
<1> QED BY <1>1, <1>2, <1>3 DEF Said

(* A protocol changes no table of the socket.                              *)
LEMMA ApplicationProtocolRenews ==
  ASSUME TypesCorrect, HooksCorrect, PlaceCorrect,
         NEW p \in Protocol, ApplicationProtocol(p)
  PROVE  \E r \in Said, s \in Socket :
           /\ Renews(r, s) /\ SameAddress(r, s)
           /\ r.protocol = p /\ r.contexts = said[This].contexts
           /\ s.default = Sock.default /\ s.domains = Sock.domains
<1>1. MayRead({"group", "contexts"})
  BY DEF ApplicationProtocol
<1>2. /\ said # <<>> /\ This \in 1..Len(said) /\ ThisCell \in Cell
      /\ said[This] \in Said /\ Sock \in Socket
  BY <1>1, InGroup
<1> DEFINE r == [said[This] EXCEPT !.protocol = p]
<1>3. r \in Said
  BY <1>2 DEF Said
<1>4. Renews(r, Sock)
  <2>1. said' = [said EXCEPT ![This] = r]
    BY <1>2 DEF ApplicationProtocol, Note, Said
  <2>2. memory' = [memory EXCEPT ![ThisCell] = Sock]
    BY <1>2 DEF ApplicationProtocol, Sock, TypesCorrect
  <2> QED BY <1>2, <2>1, <2>2 DEF Renews, ApplicationProtocol
<1>5. /\ SameAddress(r, Sock)
      /\ r.protocol = p /\ r.contexts = said[This].contexts
  BY <1>2 DEF Said, SameAddress
<1> HIDE DEF r
<1> QED BY <1>2, <1>3, <1>4, <1>5

(* A context without a name is the default if it is the first.             *)
LEMMA ServerContextRenews ==
  ASSUME TypesCorrect, HooksCorrect, PlaceCorrect, ServerContext
  PROVE  \E r \in Said, s \in Socket :
           /\ Renews(r, s) /\ SameAddress(r, s)
           /\ r.protocol = said[This].protocol
           /\ r.contexts = Append(said[This].contexts, NULL)
           /\ s.default = IF Sock.default = 0 THEN Len(contexts) + 1 ELSE Sock.default
           /\ s.domains = Sock.domains
<1>1. MayRead({"group", "contexts"})
  BY DEF ServerContext
<1>2. /\ said # <<>> /\ This \in 1..Len(said) /\ ThisCell \in Cell
      /\ said[This] \in Said /\ Sock \in Socket
      /\ said[This].contexts \in Seq(Domain \union {NULL})
  BY <1>1, InGroup
<1> DEFINE own == Append(said[This].contexts, NULL)
           default == IF Sock.default = 0 THEN Len(contexts) + 1 ELSE Sock.default
<1>3. own \in Seq(Domain \union {NULL})
  BY <1>2, AppendProperties
<1>4. default \in Nat
  <2>1. Len(contexts) \in Nat
    BY LenProperties DEF TypesCorrect
  <2>2. Sock.default \in Nat
    BY <1>2 DEF Socket
  <2> QED BY <2>1, <2>2
<1>5. said' = [said EXCEPT ![This] = [said[This] EXCEPT !.contexts = own]]
  BY <1>2 DEF ServerContext, Note, Said
<1>6. memory' = [memory EXCEPT ![ThisCell] = [Sock EXCEPT !.default = default]]
  <2>1. CASE Sock.default = 0
    BY <1>2, <2>1 DEF ServerContext, Sock, TypesCorrect
  <2>2. CASE Sock.default # 0
    <3>1. memory' = memory /\ default = Sock.default
      BY <2>2 DEF ServerContext
    <3>2. [Sock EXCEPT !.default = default] = Sock
      BY <1>2, <3>1 DEF Socket
    <3>3. memory = [memory EXCEPT ![ThisCell] = Sock]
      BY <1>2 DEF Sock, TypesCorrect
    <3> QED BY <3>1, <3>2, <3>3
  <2> QED BY <2>1, <2>2
<1> HIDE DEF own, default
<1> DEFINE r == [said[This] EXCEPT !.contexts = own]
           s == [Sock EXCEPT !.default = default]
<1>7. r \in Said /\ s \in Socket
  <2>1. r \in Said
    BY <1>2, <1>3 DEF Said
  <2>2. s \in Socket
    BY <1>2, <1>4 DEF Socket
  <2> QED BY <2>1, <2>2
<1>8. r.protocol = said[This].protocol /\ r.contexts = own
      /\ s.default = default /\ s.domains = Sock.domains
  <2>1. r.protocol = said[This].protocol /\ r.contexts = own
    BY <1>2 DEF Said
  <2>2. s.default = default /\ s.domains = Sock.domains
    BY <1>2 DEF Socket
  <2> QED BY <2>1, <2>2
<1>9. SameAddress(r, s)
  <2>1. /\ r.family = said[This].family /\ r.address = said[This].address
        /\ (r.port <=> said[This].port) /\ (r.portFirst <=> said[This].portFirst)
        /\ r.backlog = said[This].backlog /\ (r.group <=> said[This].group)
    BY <1>2 DEF Said
  <2>2. /\ s.fd = Sock.fd /\ s.family = Sock.family /\ s.address = Sock.address
        /\ (s.port <=> Sock.port) /\ s.backlog = Sock.backlog /\ (s.tls <=> Sock.tls)
    BY <1>2 DEF Socket
  <2> HIDE DEF r, s
  <2> QED BY <2>1, <2>2 DEF SameAddress
<1>10. Renews(r, s)
  BY <1>2, <1>5, <1>6 DEF Renews, ServerContext
<1> HIDE DEF r, s
<1> QED BY <1>7, <1>8, <1>9, <1>10 DEF own, default

(* A name leads to the context that was read last.                         *)
LEMMA DomainsRenews ==
  ASSUME TypesCorrect, HooksCorrect, PlaceCorrect, NEW d \in Domain, Domains(d)
  PROVE  /\ ThisContext \in 1..Len(said[This].contexts)
         /\ \E r \in Said, s \in Socket :
              /\ Renews(r, s) /\ SameAddress(r, s)
              /\ r.protocol = said[This].protocol
              /\ r.contexts = [said[This].contexts EXCEPT ![ThisContext] = d]
              /\ s.default = Sock.default
              /\ s.domains = [Sock.domains EXCEPT ![d] = Len(contexts)]
<1>1. MayRead({"group", "contexts"}) /\ place = "contexts"
  BY DEF Domains, MayRead
<1>2. /\ said # <<>> /\ This \in 1..Len(said) /\ ThisCell \in Cell
      /\ said[This] \in Said /\ Sock \in Socket
      /\ said[This].contexts \in Seq(Domain \union {NULL})
  BY <1>1, InGroup
<1>3. said[This].contexts # <<>>
  BY <1>1, <1>2 DEF PlaceCorrect
<1>4. ThisContext \in 1..Len(said[This].contexts)
  <2>1. Len(said[This].contexts) \in Nat \ {0}
    BY <1>2, <1>3, EmptySeq
  <2> QED BY <2>1 DEF ThisContext
<1> DEFINE own == [said[This].contexts EXCEPT ![ThisContext] = d]
           domains == [Sock.domains EXCEPT ![d] = Len(contexts)]
<1>5. own \in Seq(Domain \union {NULL})
  BY <1>2, <1>4, ExceptSeq
<1>6. domains \in [Domain -> Nat]
  <2>1. Len(contexts) \in Nat
    BY LenProperties DEF TypesCorrect
  <2>2. Sock.domains \in [Domain -> Nat]
    BY <1>2 DEF Socket
  <2> QED BY <2>1, <2>2
<1>7. said' = [said EXCEPT ![This] = [said[This] EXCEPT !.contexts = own]]
  BY <1>2 DEF Domains, Note, Said
<1>8. memory' = [memory EXCEPT ![ThisCell] = [Sock EXCEPT !.domains = domains]]
  BY <1>2 DEF Domains, Sock, TypesCorrect
<1> HIDE DEF own, domains
<1> DEFINE r == [said[This] EXCEPT !.contexts = own]
           s == [Sock EXCEPT !.domains = domains]
<1>9. r \in Said /\ s \in Socket
  <2>1. r \in Said
    BY <1>2, <1>5 DEF Said
  <2>2. s \in Socket
    BY <1>2, <1>6 DEF Socket
  <2> QED BY <2>1, <2>2
<1>10. r.protocol = said[This].protocol /\ r.contexts = own
       /\ s.default = Sock.default /\ s.domains = domains
  <2>1. r.protocol = said[This].protocol /\ r.contexts = own
    BY <1>2 DEF Said
  <2>2. s.default = Sock.default /\ s.domains = domains
    BY <1>2 DEF Socket
  <2> QED BY <2>1, <2>2
<1>11. SameAddress(r, s)
  <2>1. /\ r.family = said[This].family /\ r.address = said[This].address
        /\ (r.port <=> said[This].port) /\ (r.portFirst <=> said[This].portFirst)
        /\ r.backlog = said[This].backlog /\ (r.group <=> said[This].group)
    BY <1>2 DEF Said
  <2>2. /\ s.fd = Sock.fd /\ s.family = Sock.family /\ s.address = Sock.address
        /\ (s.port <=> Sock.port) /\ s.backlog = Sock.backlog /\ (s.tls <=> Sock.tls)
    BY <1>2 DEF Socket
  <2> HIDE DEF r, s
  <2> QED BY <2>1, <2>2 DEF SameAddress
<1>12. Renews(r, s)
  BY <1>2, <1>7, <1>8 DEF Renews, Domains
<1> HIDE DEF r, s
<1> QED BY <1>4, <1>9, <1>10, <1>11, <1>12 DEF own, domains

-----------------------------------------------------------------------------
(* What a step that renews keeps of sockets, the kernel and the pointers.  *)

(* Other interfaces have other sockets.                                    *)
LEMMA OtherCells ==
  ASSUME TypesCorrect, HooksCorrect, said # <<>>,
         NEW i \in 1..Len(said), i # This
  PROVE  hook[i] \in Cell /\ hook[i] # ThisCell
<1>1. This \in 1..Len(said)
  BY ThisExists
<1>2. i \in 1..Len(hook)
  BY DEF TypesCorrect
<1>3. hook[i] \in Cell
  BY <1>2, ElementOfSeq DEF TypesCorrect
<1>4. hook[i] # hook[This]
  BY <1>1 DEF HooksCorrect
<1> QED BY <1>3, <1>4 DEF ThisCell

(* Who only renews a socket leaves it where the hook points to.            *)
LEMMA RenewsHooks ==
  ASSUME TypesCorrect, HooksCorrect, NEW r \in Said, NEW s \in Socket, Renews(r, s),
         phase # "unloaded"
  PROVE  HooksCorrect'
<1>1. /\ Len(said') = Len(said) /\ memory'[ThisCell] = s
      /\ \A x \in Cell : x # ThisCell => memory'[x] = memory[x]
  BY RenewsFacts
<1>2. said # <<>> /\ hook' = hook
  BY DEF Renews
<1>3. ASSUME NEW i \in 1..Len(said) PROVE memory'[hook[i]] # NULL
  <2>1. CASE i = This
    BY <1>1, <2>1, SocketAssumption DEF ThisCell
  <2>2. CASE i # This
    <3>1. hook[i] \in Cell /\ hook[i] # ThisCell
      BY <1>2, <2>2, OtherCells
    <3> QED BY <1>1, <3>1 DEF HooksCorrect
  <2> QED BY <2>1, <2>2
<1> QED BY <1>1, <1>2, <1>3 DEF HooksCorrect

(* Sockets agree with what is said when the new one does.                  *)
LEMMA RenewsSockets ==
  ASSUME TypesCorrect, HooksCorrect, SocketsCorrect,
         NEW r \in Said, NEW s \in Socket, Renews(r, s),
         phase = "load", phase' = "load",
         s.family = r.family, s.address = r.address, (s.port <=> r.port),
         (s.tls <=> r.group), s.backlog = r.backlog, s.fd \in {0, This},
         (r.family # NULL => s.fd = This),
         (r.family = NULL => (r.address = "none" /\ ~r.port))
  PROVE  SocketsCorrect'
<1>1. /\ Len(said') = Len(said) /\ said'[This] = r /\ memory'[ThisCell] = s
      /\ \A i \in 1..Len(said) : i # This => said'[i] = said[i]
      /\ \A x \in Cell : x # ThisCell => memory'[x] = memory[x]
  BY RenewsFacts
<1>2. said # <<>> /\ hook' = hook
  BY DEF Renews
<1>3. ASSUME NEW i \in 1..Len(said) PROVE SocketCorrect(i)'
  <2>1. CASE i = This
    <3>1. said'[i] = r /\ memory'[hook'[i]] = s
      BY <1>1, <1>2, <2>1 DEF ThisCell
    <3> QED BY <2>1, <3>1 DEF SocketCorrect
  <2>2. CASE i # This
    <3>1. hook[i] \in Cell /\ hook[i] # ThisCell
      BY <1>2, <2>2, OtherCells
    <3>2. said'[i] = said[i] /\ memory'[hook'[i]] = memory[hook[i]]
      BY <1>1, <1>2, <2>2, <3>1
    <3>3. SocketCorrect(i)
      BY DEF SocketsCorrect
    <3> QED BY <3>2, <3>3 DEF SocketCorrect
  <2> QED BY <2>1, <2>2
<1> QED BY <1>1, <1>3 DEF SocketsCorrect

(* The kernel agrees with what is said, when the step does not bind.       *)
LEMMA RenewsUnbound ==
  ASSUME TypesCorrect, KernelCorrect, PointersCorrect,
         NEW r \in Said, NEW s \in Socket, Renews(r, s),
         phase = "load", phase' = "load",
         kernel' = kernel, listenSockets' = listenSockets,
         (kernel[This].bound = 1 => r.family # NULL),
         (~Doubtful(r) => (kernel[This].bound = 1 <=> Full(r)))
  PROVE  KernelCorrect' /\ PointersCorrect'
<1>1. /\ Len(said') = Len(said) /\ said'[This] = r
      /\ \A i \in 1..Len(said) : i # This => said'[i] = said[i]
  BY RenewsFacts
<1>2. said # <<>> /\ hook' = hook
  BY DEF Renews
<1>3. ASSUME NEW i \in 1..Len(said) PROVE BoundCorrect(i)'
  <2>1. BoundCorrect(i)
    BY DEF KernelCorrect
  <2>2. CASE i = This
    <3>1. said'[i] = r
      BY <1>1, <2>2
    <3> QED BY <2>1, <2>2, <3>1 DEF BoundCorrect
  <2>3. CASE i # This
    <3>1. said'[i] = said[i]
      BY <1>1, <2>3
    <3> QED BY <2>1, <3>1 DEF BoundCorrect
  <2> QED BY <2>2, <2>3
<1>4. KernelCorrect'
  BY <1>1, <1>3 DEF KernelCorrect
<1>5. PointersCorrect'
  BY <1>1, <1>2 DEF PointersCorrect
<1> QED BY <1>4, <1>5

(* The same when the step binds, and there is a new pointer.               *)
LEMMA RenewsBound ==
  ASSUME TypesCorrect, HooksCorrect, KernelCorrect, PointersCorrect,
         NEW r \in Said, NEW s \in Socket, Renews(r, s),
         phase = "load", phase' = "load", TryBind,
         r.family # NULL, (~Doubtful(r) => Full(r))
  PROVE  /\ KernelCorrect' /\ PointersCorrect'
         /\ kernel' \in Seq(Descriptor) /\ Len(kernel') = Len(kernel)
         /\ listenSockets' \in Seq(Cell)
<1>1. /\ Len(said') = Len(said) /\ said'[This] = r
      /\ \A i \in 1..Len(said) : i # This => said'[i] = said[i]
  BY RenewsFacts
<1>2. said # <<>> /\ hook' = hook
  BY DEF Renews
<1>3. This \in 1..Len(said) /\ ThisCell \in Cell
  BY <1>2, ThisExists
<1>4. This \in 1..Len(kernel) /\ kernel[This] \in Descriptor
  BY <1>3, ElementOfSeq DEF TypesCorrect
<1>5. kernel[This].bound = 0
  BY DEF TryBind, CanBind
<1> DEFINE new == [kernel[This] EXCEPT !.bound = 1]
<1>6. new \in Descriptor /\ new.bound = 1 /\ (new.watched <=> kernel[This].watched)
  BY <1>4 DEF Descriptor
<1>7. kernel' = [kernel EXCEPT ![This] = new]
  BY <1>4 DEF TryBind, Descriptor
<1> HIDE DEF new
<1>8. /\ kernel' \in Seq(Descriptor) /\ Len(kernel') = Len(kernel)
      /\ \A i \in 1..Len(kernel) :
           kernel'[i] = IF i = This THEN new ELSE kernel[i]
  BY <1>4, <1>6, <1>7, ExceptSeq DEF TypesCorrect
<1>9. \A i \in 1..Len(said) : kernel'[i] = IF i = This THEN new ELSE kernel[i]
  BY <1>8 DEF TypesCorrect
<1>10. ASSUME NEW i \in 1..Len(said) PROVE BoundCorrect(i)'
  <2>1. BoundCorrect(i)
    BY DEF KernelCorrect
  <2>2. CASE i = This
    <3>1. said'[i] = r /\ kernel'[i] = new
      BY <1>1, <1>9, <2>2
    <3>2. ~kernel[This].watched
      BY <2>1, <2>2 DEF BoundCorrect
    <3> QED BY <1>6, <3>1, <3>2 DEF BoundCorrect
  <2>3. CASE i # This
    <3>1. said'[i] = said[i] /\ kernel'[i] = kernel[i]
      BY <1>1, <1>9, <2>3
    <3> QED BY <2>1, <3>1 DEF BoundCorrect
  <2> QED BY <2>2, <2>3
<1>11. KernelCorrect'
  BY <1>1, <1>10 DEF KernelCorrect
<1>12. /\ listenSockets' \in Seq(Cell) /\ Len(listenSockets') = Len(listenSockets) + 1
       /\ \A k \in 1..Len(listenSockets) : listenSockets'[k] = listenSockets[k]
       /\ listenSockets'[Len(listenSockets) + 1] = ThisCell
  <2>1. listenSockets' = Append(listenSockets, ThisCell)
    BY DEF TryBind
  <2> QED BY <1>3, <2>1, AppendProperties DEF TypesCorrect
<1>13. Len(listenSockets) \in Nat
  BY LenProperties DEF TypesCorrect
<1>14. \A k \in 1..Len(listenSockets) : listenSockets[k] # ThisCell
  <2> SUFFICES ASSUME NEW k \in 1..Len(listenSockets), listenSockets[k] = ThisCell
               PROVE  FALSE
    OBVIOUS
  <2>1. PICK i \in 1..Len(said) : kernel[i].bound = 1 /\ listenSockets[k] = hook[i]
    BY DEF PointersCorrect
  <2>2. i = This
    BY <1>3, <2>1 DEF HooksCorrect, ThisCell
  <2> QED BY <1>5, <2>1, <2>2
<1>15. ASSUME NEW k \in 1..Len(listenSockets')
       PROVE  \E i \in 1..Len(said') : kernel'[i].bound = 1 /\ listenSockets'[k] = hook'[i]
  <2>1. CASE k = Len(listenSockets) + 1
    BY <1>1, <1>2, <1>3, <1>6, <1>9, <1>12, <2>1 DEF ThisCell
  <2>2. CASE k # Len(listenSockets) + 1
    <3>1. k \in 1..Len(listenSockets)
      BY <1>12, <1>13, <2>2
    <3>2. PICK i \in 1..Len(said) : kernel[i].bound = 1 /\ listenSockets[k] = hook[i]
      BY <3>1 DEF PointersCorrect
    <3>3. i # This
      BY <1>5, <3>2
    <3> QED BY <1>1, <1>2, <1>9, <1>12, <3>1, <3>2, <3>3
  <2> QED BY <2>1, <2>2
<1>16. ASSUME NEW k \in 1..Len(listenSockets'), NEW l \in 1..Len(listenSockets'),
              listenSockets'[k] = listenSockets'[l]
       PROVE  k = l
  <2>1. (k \in 1..Len(listenSockets) \/ k = Len(listenSockets) + 1)
        /\ (l \in 1..Len(listenSockets) \/ l = Len(listenSockets) + 1)
    BY <1>12, <1>13
  <2>2. CASE k \in 1..Len(listenSockets) /\ l \in 1..Len(listenSockets)
    <3>1. listenSockets[k] = listenSockets[l]
      BY <1>12, <1>16, <2>2
    <3> QED BY <2>2, <3>1 DEF PointersCorrect
  <2>3. CASE k \in 1..Len(listenSockets) /\ l = Len(listenSockets) + 1
    BY <1>12, <1>14, <1>16, <2>3
  <2>4. CASE k = Len(listenSockets) + 1 /\ l \in 1..Len(listenSockets)
    BY <1>12, <1>14, <1>16, <2>4
  <2> QED BY <2>1, <2>2, <2>3, <2>4
<1>17. ASSUME NEW i \in 1..Len(said'), kernel'[i].bound = 1
       PROVE  \E k \in 1..Len(listenSockets') : listenSockets'[k] = hook'[i]
  <2>1. CASE i = This
    <3>1. Len(listenSockets) + 1 \in 1..Len(listenSockets')
      BY <1>12, <1>13
    <3> QED BY <1>2, <1>12, <2>1, <3>1 DEF ThisCell
  <2>2. CASE i # This
    <3>1. i \in 1..Len(said) /\ kernel[i].bound = 1
      BY <1>1, <1>9, <1>17, <2>2
    <3>2. PICK k \in 1..Len(listenSockets) : listenSockets[k] = hook[i]
      BY <3>1 DEF PointersCorrect
    <3>3. k \in 1..Len(listenSockets')
      BY <1>12, <1>13
    <3> QED BY <1>2, <1>12, <3>2, <3>3
  <2> QED BY <2>1, <2>2
<1>18. PointersCorrect'
  BY <1>15, <1>16, <1>17 DEF PointersCorrect
<1> QED BY <1>8, <1>11, <1>12, <1>18

-----------------------------------------------------------------------------
(* Each element keeps what is invariant of interfaces.                     *)

(* What reading any element does to the place in the file.                 *)
LEMMA ReadFacts ==
  ASSUME TypesCorrect, elements < MaxElements, phase = "load", NEW now, Read(now)
  PROVE  /\ phase' = "load" /\ place' = now /\ session' = session
         /\ elements' \in 0..MaxElements
BY InterfaceAssumption DEF Read, TypesCorrect

(* The socket of the interface that is read is as the file says.           *)
LEMMA SockSaid ==
  ASSUME InterfacesCorrect, phase = "load", said # <<>>
  PROVE  /\ This \in 1..Len(said) /\ ThisCell \in Cell
         /\ said[This] \in Said /\ Sock \in Socket
         /\ Sock.family = said[This].family /\ Sock.address = said[This].address
         /\ (Sock.port <=> said[This].port) /\ (Sock.tls <=> said[This].group)
         /\ Sock.backlog = said[This].backlog /\ Sock.fd \in {0, This}
         /\ (said[This].family # NULL => Sock.fd = This)
         /\ (said[This].family = NULL =>
              (said[This].address = "none" /\ ~said[This].port))
         /\ (kernel[This].bound = 1 => said[This].family # NULL)
         /\ (~Doubtful(said[This]) => (kernel[This].bound = 1 <=> Full(said[This])))
<1>0. TypesCorrect /\ HooksCorrect /\ SocketsCorrect /\ KernelCorrect
  BY DEF InterfacesCorrect
<1>1. This \in 1..Len(said) /\ ThisCell \in Cell /\ said[This] \in Said
  BY <1>0, ThisExists
<1>2. Sock \in Socket
  BY <1>0, <1>1 DEF HooksCorrect, TypesCorrect, Sock, ThisCell
<1>3. SocketCorrect(This) /\ BoundCorrect(This)
  BY <1>0, <1>1 DEF SocketsCorrect, KernelCorrect
<1>4. Sock = memory[hook[This]]
  BY DEF Sock, ThisCell
<1>5. /\ Sock.family = said[This].family /\ Sock.address = said[This].address
      /\ (Sock.port <=> said[This].port) /\ (Sock.tls <=> said[This].group)
      /\ Sock.backlog = said[This].backlog /\ Sock.fd \in {0, This}
      /\ (said[This].family # NULL => Sock.fd = This)
      /\ (said[This].family = NULL =>
           (said[This].address = "none" /\ ~said[This].port))
  BY <1>3, <1>4 DEF SocketCorrect
<1>6. /\ (kernel[This].bound = 1 => said[This].family # NULL)
      /\ (~Doubtful(said[This]) => (kernel[This].bound = 1 <=> Full(said[This])))
  BY <1>3 DEF BoundCorrect
<1> QED BY <1>1, <1>2, <1>5, <1>6

(* An element of the interface.                                            *)
LEMMA ElementKeeps ==
  ASSUME InterfacesCorrect, MayReadHere, InterfaceRead,
         NEW r \in Said, NEW s \in Socket, Renews(r, s), contexts' = contexts,
         s.family = r.family, s.address = r.address, (s.port <=> r.port),
         (s.tls <=> r.group), s.backlog = r.backlog, s.fd \in {0, This},
         (r.family # NULL => s.fd = This),
         (r.family = NULL => (r.address = "none" /\ ~r.port)),
         (r.group <=> said[This].group), r.contexts = said[This].contexts,
         \/ /\ kernel' = kernel /\ listenSockets' = listenSockets
            /\ (kernel[This].bound = 1 => r.family # NULL)
            /\ (~Doubtful(r) => (kernel[This].bound = 1 <=> Full(r)))
         \/ TryBind /\ r.family # NULL /\ (~Doubtful(r) => Full(r))
  PROVE  InterfacesCorrect'
<1>0. /\ TypesCorrect /\ PlaceCorrect /\ HooksCorrect
      /\ SocketsCorrect /\ KernelCorrect /\ PointersCorrect
  BY DEF InterfacesCorrect
<1>1. phase = "load" /\ elements < MaxElements /\ said # <<>> /\ hook' = hook
  BY DEF MayReadHere, MayRead, Renews
<1>2. /\ phase' = "load" /\ place' = OfInterface /\ elements' \in 0..MaxElements
  BY <1>0, <1>1, ReadFacts DEF InterfaceRead
<1>3. /\ said' \in Seq(Said) /\ Len(said') = Len(said) /\ said'[This] = r
      /\ said' # <<>> /\ memory' \in [Cell -> Socket \union {NULL}]
      /\ This' = This
  BY <1>0, RenewsFacts
<1>4. /\ KernelCorrect' /\ PointersCorrect'
      /\ kernel' \in Seq(Descriptor) /\ Len(kernel') = Len(kernel)
      /\ listenSockets' \in Seq(Cell)
  <2>1. CASE TryBind /\ r.family # NULL /\ (~Doubtful(r) => Full(r))
    BY <1>0, <1>1, <1>2, <2>1, RenewsBound
  <2>2. CASE /\ kernel' = kernel /\ listenSockets' = listenSockets
             /\ (kernel[This].bound = 1 => r.family # NULL)
             /\ (~Doubtful(r) => (kernel[This].bound = 1 <=> Full(r)))
    <3>1. KernelCorrect' /\ PointersCorrect'
      BY <1>0, <1>1, <1>2, <2>2, RenewsUnbound
    <3> QED BY <1>0, <2>2, <3>1 DEF TypesCorrect
  <2> QED BY <2>1, <2>2
<1>5. TypesCorrect'
  <2>1. OfInterface \in Places
    BY DEF OfInterface, Places
  <2> QED BY <1>0, <1>1, <1>2, <1>3, <1>4, <2>1 DEF TypesCorrect
<1>6. PlaceCorrect'
  <2>1. said' # <<>>
    BY <1>3
  <2>2. said'[This'] = r
    BY <1>3
  <2>3. place' \in {"interface", "interface again"}
        /\ (place' = "interface" => place = "interface")
    BY <1>2 DEF OfInterface
  <2>4. place' = "interface" => ~r.group
    BY <1>0, <1>1, <2>3 DEF PlaceCorrect
  <2> QED BY <2>1, <2>2, <2>3, <2>4 DEF PlaceCorrect
<1>7. HooksCorrect'
  BY <1>0, <1>1, RenewsHooks
<1>8. SocketsCorrect'
  BY <1>0, <1>1, <1>2, RenewsSockets
<1> QED BY <1>4, <1>5, <1>6, <1>7, <1>8 DEF InterfacesCorrect

(* An element of the group of the layer.                                   *)
LEMMA GroupElementKeeps ==
  ASSUME InterfacesCorrect, MayRead({"group", "contexts"}),
         NEW now \in {"group", "group again", "contexts"}, Read(now),
         NEW r \in Said, NEW s \in Socket, Renews(r, s), SameAddress(r, s),
         contexts' \in Seq(Context),
         kernel' = kernel, listenSockets' = listenSockets,
         (now = "group" => r.contexts = <<>>),
         (now = "contexts" => r.contexts # <<>>)
  PROVE  InterfacesCorrect'
<1>0. /\ TypesCorrect /\ PlaceCorrect /\ HooksCorrect
      /\ SocketsCorrect /\ KernelCorrect /\ PointersCorrect
  BY DEF InterfacesCorrect
<1>1. /\ phase = "load" /\ elements < MaxElements /\ said # <<>> /\ hook' = hook
      /\ said[This].group
  BY <1>0, InGroup DEF MayRead, Renews
<1>2. /\ phase' = "load" /\ place' = now /\ elements' \in 0..MaxElements
  BY <1>0, <1>1, ReadFacts
<1>3. /\ said' \in Seq(Said) /\ Len(said') = Len(said) /\ said'[This] = r
      /\ said' # <<>> /\ memory' \in [Cell -> Socket \union {NULL}]
      /\ This' = This
  BY <1>0, RenewsFacts
<1>4. /\ r.family = said[This].family /\ r.address = said[This].address
      /\ (r.port <=> said[This].port) /\ (r.portFirst <=> said[This].portFirst)
      /\ r.backlog = said[This].backlog /\ (r.group <=> said[This].group)
      /\ s.fd = Sock.fd /\ s.family = Sock.family /\ s.address = Sock.address
      /\ (s.port <=> Sock.port) /\ s.backlog = Sock.backlog /\ (s.tls <=> Sock.tls)
  BY DEF SameAddress
<1>5. /\ Sock.family = said[This].family /\ Sock.address = said[This].address
      /\ (Sock.port <=> said[This].port) /\ (Sock.tls <=> said[This].group)
      /\ Sock.backlog = said[This].backlog /\ Sock.fd \in {0, This}
      /\ (said[This].family # NULL => Sock.fd = This)
      /\ (said[This].family = NULL =>
           (said[This].address = "none" /\ ~said[This].port))
      /\ (kernel[This].bound = 1 => said[This].family # NULL)
      /\ (~Doubtful(said[This]) => (kernel[This].bound = 1 <=> Full(said[This])))
  BY <1>1, SockSaid
<1>6. (~Doubtful(r) => (kernel[This].bound = 1 <=> Full(r)))
  <2>1. (Doubtful(r) <=> Doubtful(said[This])) /\ (Full(r) <=> Full(said[This]))
    BY <1>4 DEF Doubtful, Full
  <2> QED BY <1>5, <2>1
<1>7. KernelCorrect' /\ PointersCorrect'
  <2>1. kernel[This].bound = 1 => r.family # NULL
    BY <1>4, <1>5
  <2> QED BY <1>0, <1>1, <1>2, <1>6, <2>1, RenewsUnbound
<1>8. TypesCorrect'
  BY <1>0, <1>1, <1>2, <1>3 DEF TypesCorrect, Places
<1>9. PlaceCorrect'
  <2>1. said' # <<>>
    BY <1>3
  <2>2. said'[This'] = r /\ r.group
    BY <1>1, <1>3, <1>4
  <2> QED BY <1>2, <2>1, <2>2 DEF PlaceCorrect
<1>10. HooksCorrect'
  BY <1>0, <1>1, RenewsHooks
<1>11. SocketsCorrect'
  <2>1. /\ s.family = r.family /\ s.address = r.address /\ (s.port <=> r.port)
        /\ (s.tls <=> r.group) /\ s.backlog = r.backlog /\ s.fd \in {0, This}
        /\ (r.family # NULL => s.fd = This)
        /\ (r.family = NULL => (r.address = "none" /\ ~r.port))
    BY <1>4, <1>5
  <2> QED BY <1>0, <1>1, <1>2, <2>1, RenewsSockets
<1> QED BY <1>7, <1>8, <1>9, <1>10, <1>11 DEF InterfacesCorrect

(* The family comes first; nothing is bound before.                        *)
LEMMA NetworkKeeps ==
  ASSUME InterfacesCorrect, NEW f \in Families, Network(f)
  PROVE  InterfacesCorrect'
<1>0. TypesCorrect /\ HooksCorrect
  BY DEF InterfacesCorrect
<1>1. /\ MayReadHere /\ InterfaceRead /\ phase = "load" /\ said # <<>>
      /\ said[This].family = NULL /\ f # NULL
      /\ kernel' = kernel /\ listenSockets' = listenSockets /\ contexts' = contexts
  BY InterfaceAssumption DEF Network, MayReadHere, MayRead
<1>2. PICK r \in Said, s \in Socket :
        /\ Renews(r, s)
        /\ r.family = f /\ r.address = said[This].address
        /\ (r.port <=> said[This].port) /\ (r.portFirst <=> said[This].portFirst)
        /\ r.backlog = said[This].backlog
        /\ (r.group <=> said[This].group) /\ r.contexts = said[This].contexts
        /\ s.fd = This /\ s.family = f /\ s.address = Sock.address
        /\ (s.port <=> Sock.port) /\ s.backlog = Sock.backlog
        /\ (s.tls <=> Sock.tls)
  BY <1>0, NetworkRenews
<1>3. /\ Sock.address = said[This].address /\ (Sock.port <=> said[This].port)
      /\ (Sock.tls <=> said[This].group) /\ Sock.backlog = said[This].backlog
      /\ said[This].address = "none" /\ ~said[This].port /\ kernel[This].bound # 1
  BY <1>1, SockSaid
<1>4. ~Full(r)
  BY <1>2, <1>3 DEF Full
<1>5. /\ s.family = r.family /\ s.address = r.address /\ (s.port <=> r.port)
      /\ (s.tls <=> r.group) /\ s.backlog = r.backlog /\ s.fd = This
      /\ r.family # NULL
  BY <1>1, <1>2, <1>3
<1> QED BY <1>1, <1>2, <1>3, <1>4, <1>5, ElementKeeps

(* An address completes the interface if the port is there.                *)
LEMMA TheAddressKeeps ==
  ASSUME InterfacesCorrect, NEW a \in {"any", "given"}, TheAddress(a)
  PROVE  InterfacesCorrect'
<1>0. TypesCorrect /\ HooksCorrect
  BY DEF InterfacesCorrect
<1>1. /\ MayReadHere /\ InterfaceRead /\ phase = "load" /\ said # <<>>
      /\ said[This].address = "none" /\ Sock.family # NULL /\ contexts' = contexts
  BY DEF TheAddress, MayReadHere, MayRead
<1>2. PICK r \in Said, s \in Socket :
        /\ Renews(r, s)
        /\ r.family = said[This].family /\ r.address = a
        /\ (r.port <=> said[This].port) /\ (r.portFirst <=> said[This].portFirst)
        /\ r.backlog = said[This].backlog
        /\ (r.group <=> said[This].group) /\ r.contexts = said[This].contexts
        /\ s.fd = Sock.fd /\ s.family = Sock.family /\ s.address = a
        /\ (s.port <=> Sock.port) /\ s.backlog = Sock.backlog
        /\ (s.tls <=> Sock.tls)
  BY <1>0, TheAddressRenews
<1>3. /\ Sock.family = said[This].family /\ (Sock.port <=> said[This].port)
      /\ (Sock.tls <=> said[This].group) /\ Sock.backlog = said[This].backlog
      /\ Sock.fd \in {0, This} /\ (said[This].family # NULL => Sock.fd = This)
      /\ (~Doubtful(said[This]) => (kernel[This].bound = 1 <=> Full(said[This])))
  BY <1>1, SockSaid
<1>4. /\ s.family = r.family /\ s.address = r.address /\ (s.port <=> r.port)
      /\ (s.tls <=> r.group) /\ s.backlog = r.backlog /\ s.fd \in {0, This}
      /\ s.fd = This /\ r.family # NULL
  BY <1>1, <1>2, <1>3
<1>5. CASE BindsOnAddress(Sock)
  <2>1. TryBind
    BY <1>5 DEF TheAddress
  <2>2. ~Doubtful(r) => Full(r)
    BY <1>1, <1>2, <1>3, <1>5 DEF Full, Doubtful, BindsOnAddress
  <2> QED BY <1>1, <1>2, <1>4, <2>1, <2>2, ElementKeeps
<1>6. CASE ~BindsOnAddress(Sock)
  <2>1. kernel' = kernel /\ listenSockets' = listenSockets
    BY <1>6 DEF TheAddress
  <2>2. ~Doubtful(r) => (kernel[This].bound = 1 <=> Full(r))
    <3>1. ~Full(r) /\ ~Full(said[This])
      BY <1>1, <1>2, <1>3, <1>6 DEF Full, BindsOnAddress
    <3>2. ~Doubtful(r) => ~Doubtful(said[This])
      BY <1>1, <1>2 DEF Doubtful
    <3> QED BY <1>3, <3>1, <3>2
  <2> QED BY <1>1, <1>2, <1>4, <2>1, <2>2, ElementKeeps
<1> QED BY <1>5, <1>6

(* A port completes the interface if the address is there.                 *)
LEMMA PortKeeps ==
  ASSUME InterfacesCorrect, Port
  PROVE  InterfacesCorrect'
<1>0. TypesCorrect /\ HooksCorrect
  BY DEF InterfacesCorrect
<1>1. /\ MayReadHere /\ InterfaceRead /\ phase = "load" /\ said # <<>>
      /\ ~said[This].port /\ Sock.family # NULL /\ Sock.family # "unix"
      /\ contexts' = contexts
  BY DEF Port, MayReadHere, MayRead
<1>2. PICK r \in Said, s \in Socket :
        /\ Renews(r, s)
        /\ r.family = said[This].family /\ r.address = said[This].address
        /\ r.port /\ (r.portFirst <=> said[This].address = "none")
        /\ r.backlog = said[This].backlog
        /\ (r.group <=> said[This].group) /\ r.contexts = said[This].contexts
        /\ s.fd = Sock.fd /\ s.family = Sock.family /\ s.address = Sock.address
        /\ s.port /\ s.backlog = Sock.backlog
        /\ (s.tls <=> Sock.tls)
  BY <1>0, PortRenews
<1>3. /\ Sock.family = said[This].family /\ Sock.address = said[This].address
      /\ (Sock.tls <=> said[This].group) /\ Sock.backlog = said[This].backlog
      /\ Sock.fd \in {0, This} /\ (said[This].family # NULL => Sock.fd = This)
      /\ (~Doubtful(said[This]) => (kernel[This].bound = 1 <=> Full(said[This])))
      /\ said[This] \in Said
  BY <1>1, SockSaid
<1>4. /\ s.family = r.family /\ s.address = r.address /\ (s.port <=> r.port)
      /\ (s.tls <=> r.group) /\ s.backlog = r.backlog /\ s.fd \in {0, This}
      /\ s.fd = This /\ r.family # NULL
  BY <1>1, <1>2, <1>3
<1>5. said[This].address \in {"none", "any", "given"}
  BY <1>3 DEF Said, Address
<1>6. CASE BindsOnPort(Sock)
  <2>1. TryBind
    BY <1>6 DEF Port
  <2>2. ~Doubtful(r) => Full(r)
    BY <1>1, <1>2, <1>3, <1>5, <1>6 DEF Full, Doubtful, BindsOnPort
  <2> QED BY <1>1, <1>2, <1>4, <2>1, <2>2, ElementKeeps
<1>7. CASE ~BindsOnPort(Sock)
  <2>1. kernel' = kernel /\ listenSockets' = listenSockets
    BY <1>7 DEF Port
  <2>2. ~Doubtful(r) => (kernel[This].bound = 1 <=> Full(r))
    <3>1. ~Full(r) /\ ~Full(said[This])
      BY <1>1, <1>2, <1>3, <1>7 DEF Full, BindsOnPort
    <3>2. ~Doubtful(r) => ~Doubtful(said[This])
      BY <1>1, <1>2, <1>3, <1>7 DEF Doubtful, BindsOnPort
    <3> QED BY <1>3, <3>1, <3>2
  <2> QED BY <1>1, <1>2, <1>4, <2>1, <2>2, ElementKeeps
<1> QED BY <1>6, <1>7

(* A backlog is said of the interface and kept in its socket.              *)
LEMMA BacklogKeeps ==
  ASSUME InterfacesCorrect, NEW n \in Nat, Backlog(n)
  PROVE  InterfacesCorrect'
<1>0. TypesCorrect /\ HooksCorrect
  BY DEF InterfacesCorrect
<1>1. /\ MayReadHere /\ InterfaceRead /\ phase = "load" /\ said # <<>>
      /\ kernel' = kernel /\ listenSockets' = listenSockets /\ contexts' = contexts
  BY DEF Backlog, MayReadHere, MayRead
<1>2. PICK r \in Said, s \in Socket :
        /\ Renews(r, s)
        /\ r.family = said[This].family /\ r.address = said[This].address
        /\ (r.port <=> said[This].port) /\ (r.portFirst <=> said[This].portFirst)
        /\ r.backlog = n
        /\ (r.group <=> said[This].group) /\ r.contexts = said[This].contexts
        /\ s.fd = Sock.fd /\ s.family = Sock.family /\ s.address = Sock.address
        /\ (s.port <=> Sock.port) /\ s.backlog = n /\ (s.tls <=> Sock.tls)
  BY <1>0, BacklogRenews
<1>3. /\ Sock.family = said[This].family /\ Sock.address = said[This].address
      /\ (Sock.port <=> said[This].port) /\ (Sock.tls <=> said[This].group)
      /\ Sock.fd \in {0, This} /\ (said[This].family # NULL => Sock.fd = This)
      /\ (said[This].family = NULL =>
           (said[This].address = "none" /\ ~said[This].port))
      /\ (kernel[This].bound = 1 => said[This].family # NULL)
      /\ (~Doubtful(said[This]) => (kernel[This].bound = 1 <=> Full(said[This])))
  BY <1>1, SockSaid
<1>4. /\ s.family = r.family /\ s.address = r.address /\ (s.port <=> r.port)
      /\ (s.tls <=> r.group) /\ s.backlog = r.backlog /\ s.fd \in {0, This}
      /\ (r.family # NULL => s.fd = This)
      /\ (r.family = NULL => (r.address = "none" /\ ~r.port))
      /\ (kernel[This].bound = 1 => r.family # NULL)
  BY <1>2, <1>3
<1>5. ~Doubtful(r) => (kernel[This].bound = 1 <=> Full(r))
  <2>1. (Doubtful(r) <=> Doubtful(said[This])) /\ (Full(r) <=> Full(said[This]))
    BY <1>2 DEF Doubtful, Full
  <2> QED BY <1>3, <2>1
<1> QED BY <1>1, <1>2, <1>4, <1>5, ElementKeeps

(* The name of the layer is not its group.                                 *)
LEMMA LayerKeeps ==
  ASSUME InterfacesCorrect, Layer
  PROVE  InterfacesCorrect'
<1>0. TypesCorrect /\ HooksCorrect
  BY DEF InterfacesCorrect
<1>1. /\ MayReadHere /\ InterfaceRead /\ phase = "load" /\ said # <<>>
      /\ kernel' = kernel /\ listenSockets' = listenSockets /\ contexts' = contexts
  BY DEF Layer, MayReadHere, MayRead
<1>2. PICK r \in Said, s \in Socket :
        /\ Renews(r, s)
        /\ r.family = said[This].family /\ r.address = said[This].address
        /\ (r.port <=> said[This].port) /\ (r.portFirst <=> said[This].portFirst)
        /\ r.backlog = said[This].backlog
        /\ (r.group <=> said[This].group) /\ r.contexts = said[This].contexts
        /\ s.fd = Sock.fd /\ s.family = Sock.family /\ s.address = Sock.address
        /\ (s.port <=> Sock.port) /\ s.backlog = Sock.backlog /\ (s.tls <=> Sock.tls)
  BY <1>0, LayerRenews
<1>3. /\ Sock.family = said[This].family /\ Sock.address = said[This].address
      /\ (Sock.port <=> said[This].port) /\ (Sock.tls <=> said[This].group)
      /\ Sock.backlog = said[This].backlog
      /\ Sock.fd \in {0, This} /\ (said[This].family # NULL => Sock.fd = This)
      /\ (said[This].family = NULL =>
           (said[This].address = "none" /\ ~said[This].port))
      /\ (kernel[This].bound = 1 => said[This].family # NULL)
      /\ (~Doubtful(said[This]) => (kernel[This].bound = 1 <=> Full(said[This])))
  BY <1>1, SockSaid
<1>4. /\ s.family = r.family /\ s.address = r.address /\ (s.port <=> r.port)
      /\ (s.tls <=> r.group) /\ s.backlog = r.backlog /\ s.fd \in {0, This}
      /\ (r.family # NULL => s.fd = This)
      /\ (r.family = NULL => (r.address = "none" /\ ~r.port))
      /\ (kernel[This].bound = 1 => r.family # NULL)
  BY <1>2, <1>3
<1>5. ~Doubtful(r) => (kernel[This].bound = 1 <=> Full(r))
  <2>1. (Doubtful(r) <=> Doubtful(said[This])) /\ (Full(r) <=> Full(said[This]))
    BY <1>2 DEF Doubtful, Full
  <2> QED BY <1>3, <2>1
<1> QED BY <1>1, <1>2, <1>4, <1>5, ElementKeeps

-----------------------------------------------------------------------------
(* What the elements of the group do to the contexts of OpenSSL.           *)

(* A sequence is as long as its domain says.                               *)
LEMMA SameLength ==
  ASSUME NEW m \in Nat, NEW n \in Nat, 1..m = 1..n
  PROVE  m = n
<1>1. m >= 1 => m \in 1..n
  OBVIOUS
<1>2. n >= 1 => n \in 1..m
  OBVIOUS
<1> QED BY <1>1, <1>2

(* A protocol is given to the contexts of the socket, and to no other.     *)
LEMMA ProtocolContexts ==
  ASSUME TypesCorrect, NEW p \in Protocol, ApplicationProtocol(p)
  PROVE  /\ contexts' \in Seq(Context) /\ Len(contexts') = Len(contexts)
         /\ \A c \in 1..Len(contexts) :
              /\ contexts'[c].of = contexts[c].of
              /\ contexts'[c].names = contexts[c].names
              /\ contexts'[c].protocol =
                   IF Sock.default # 0 /\ c \in Configured(Sock)
                   THEN p ELSE contexts[c].protocol
<1>1. contexts \in Seq(Context) /\ Len(contexts) \in Nat
      /\ DOMAIN contexts = 1..Len(contexts)
  BY LenProperties DEF TypesCorrect
<1> DEFINE new(c) == IF Sock.default # 0 /\ c \in Configured(Sock)
                     THEN [contexts[c] EXCEPT !.protocol = p] ELSE contexts[c]
<1>2. ASSUME NEW c \in 1..Len(contexts)
      PROVE  /\ new(c) \in Context /\ new(c).of = contexts[c].of
             /\ new(c).names = contexts[c].names
             /\ new(c).protocol = IF Sock.default # 0 /\ c \in Configured(Sock)
                                  THEN p ELSE contexts[c].protocol
  <2>1. contexts[c] \in Context
    BY <1>1, ElementOfSeq
  <2>2. CASE Sock.default # 0 /\ c \in Configured(Sock)
    BY <2>1, <2>2 DEF Context
  <2>3. CASE ~(Sock.default # 0 /\ c \in Configured(Sock))
    BY <2>1, <2>3 DEF Context
  <2> QED BY <2>2, <2>3
<1>3. contexts' = [c \in 1..Len(contexts) |-> new(c)]
  BY <1>1 DEF ApplicationProtocol
<1> HIDE DEF new
<1>4. contexts' \in [1..Len(contexts) -> Context]
  BY <1>2, <1>3
<1>5. contexts' \in Seq(Context)
  BY <1>1, <1>4, SeqDef
<1>6. Len(contexts') = Len(contexts)
  <2>1. DOMAIN contexts' = 1..Len(contexts') /\ Len(contexts') \in Nat
    BY <1>5, LenProperties
  <2>2. DOMAIN contexts' = 1..Len(contexts)
    BY <1>4
  <2>3. Len(contexts') \in Nat /\ 1..Len(contexts') = 1..Len(contexts)
    BY <2>1, <2>2
  <2> HIDE DEF new
  <2> QED BY <1>1, <2>3, SameLength
<1> QED BY <1>2, <1>3, <1>5, <1>6

(* A context is appended; it may give the default a table of names.        *)
LEMMA ServerContextContexts ==
  ASSUME TypesCorrect, HooksCorrect, PlaceCorrect, ServerContext,
         Sock.default \in 0..Len(contexts)
  PROVE  /\ contexts' \in Seq(Context) /\ Len(contexts') = Len(contexts) + 1
         /\ \A c \in 1..Len(contexts) :
              /\ contexts'[c].of = contexts[c].of
              /\ contexts'[c].protocol = contexts[c].protocol
              /\ contexts'[c].names =
                   IF c = Sock.default THEN ThisCell ELSE contexts[c].names
         /\ contexts'[Len(contexts) + 1].of = <<This, Len(said[This].contexts) + 1>>
         /\ contexts'[Len(contexts) + 1].protocol = said[This].protocol
         /\ contexts'[Len(contexts) + 1].names = NULL
<1>1. contexts \in Seq(Context) /\ Len(contexts) \in Nat
  BY LenProperties DEF TypesCorrect
<1>2. /\ said # <<>> /\ This \in Nat /\ ThisCell \in Cell /\ said[This] \in Said
      /\ said[This].contexts \in Seq(Domain \union {NULL})
  <2>1. MayRead({"group", "contexts"})
    BY DEF ServerContext
  <2> QED BY <2>1, InGroup
<1> DEFINE new == [protocol |-> said[This].protocol, names |-> NULL,
                   of |-> <<This, Len(said[This].contexts) + 1>>]
           told == IF Sock.default = 0 THEN contexts
                   ELSE [contexts EXCEPT ![Sock.default] =
                           [contexts[Sock.default] EXCEPT !.names = ThisCell]]
<1>3. new \in Context /\ new.protocol = said[This].protocol /\ new.names = NULL
      /\ new.of = <<This, Len(said[This].contexts) + 1>>
  <2>1. Len(said[This].contexts) + 1 \in Nat
    BY <1>2, LenProperties
  <2>2. said[This].protocol \in Protocol \union {NULL}
    BY <1>2 DEF Said
  <2> QED BY <1>2, <2>1, <2>2 DEF Context
<1>4. /\ told \in Seq(Context) /\ Len(told) = Len(contexts)
      /\ \A c \in 1..Len(contexts) :
           /\ told[c].of = contexts[c].of /\ told[c].protocol = contexts[c].protocol
           /\ told[c].names = IF c = Sock.default THEN ThisCell ELSE contexts[c].names
  <2>1. CASE Sock.default = 0
    BY <1>1, <2>1
  <2>2. CASE Sock.default # 0
    <3> DEFINE e == [contexts[Sock.default] EXCEPT !.names = ThisCell]
    <3>1. Sock.default \in 1..Len(contexts)
      BY <1>1, <2>2
    <3>2. contexts[Sock.default] \in Context
      BY <1>1, <3>1, ElementOfSeq
    <3>3. /\ e \in Context /\ e.names = ThisCell
          /\ e.of = contexts[Sock.default].of
          /\ e.protocol = contexts[Sock.default].protocol
      BY <1>2, <3>2 DEF Context
    <3>4. told = [contexts EXCEPT ![Sock.default] = e]
      BY <2>2
    <3> HIDE DEF e, told
    <3>5. /\ told \in Seq(Context) /\ Len(told) = Len(contexts)
          /\ \A c \in 1..Len(contexts) :
               told[c] = IF c = Sock.default THEN e ELSE contexts[c]
      BY <1>1, <3>1, <3>3, <3>4, ExceptSeq
    <3> QED BY <3>3, <3>5
  <2> QED BY <2>1, <2>2
<1>5. contexts' = Append(told, new)
  <2>1. CASE Sock.default = 0
    BY <2>1 DEF ServerContext
  <2>2. CASE Sock.default # 0
    <3>1. Sock.default \in DOMAIN contexts
      BY <1>1, <2>2, LenProperties
    <3>2. [contexts EXCEPT ![Sock.default].names = ThisCell] = told
      BY <2>2, <3>1
    <3>3. contexts' = Append([contexts EXCEPT ![Sock.default].names = ThisCell], new)
      BY <2>2 DEF ServerContext
    <3> QED BY <3>2, <3>3
  <2> QED BY <2>1, <2>2
<1> HIDE DEF new, told
<1>6. /\ contexts' \in Seq(Context) /\ Len(contexts') = Len(contexts) + 1
      /\ \A c \in 1..Len(contexts) : contexts'[c] = told[c]
      /\ contexts'[Len(contexts) + 1] = new
  BY <1>3, <1>4, <1>5, AppendProperties
<1> QED BY <1>3, <1>4, <1>6

(* What is in memory of the layer while its group is read.                 *)
LEMMA SockServer ==
  ASSUME InterfacesCorrect, ServersCorrect, MayRead({"group", "contexts"})
  PROVE  /\ Sock.default \in 0..Len(contexts)
         /\ \A d \in Domain : Sock.domains[d] \in 0..Len(contexts)
         /\ said[This].group /\ Sock.tls /\ TableCorrect(This)
<1>0. /\ TypesCorrect /\ PlaceCorrect /\ HooksCorrect /\ SocketsCorrect
      /\ CellsCorrect /\ TablesCorrect
  BY DEF InterfacesCorrect, ServersCorrect
<1>1. /\ said # <<>> /\ phase = "load" /\ This \in 1..Len(said) /\ ThisCell \in Cell
      /\ said[This].group /\ Sock \in Socket
  BY <1>0, InGroup
<1>2. Sock.tls
  BY <1>1, SockSaid
<1>3. memory[ThisCell] = Sock /\ Sock # NULL
  BY <1>1, SocketAssumption DEF Sock
<1>4. TableCorrect(This)
  BY <1>0, <1>1 DEF TablesCorrect
<1> QED BY <1>0, <1>1, <1>2, <1>3, <1>4 DEF CellsCorrect

(* A protocol keeps addresses, hooks and pointers.                         *)
LEMMA ApplicationProtocolKeeps ==
  ASSUME InterfacesCorrect, NEW p \in Protocol, ApplicationProtocol(p)
  PROVE  InterfacesCorrect'
<1>0. TypesCorrect /\ HooksCorrect /\ PlaceCorrect
  BY DEF InterfacesCorrect
<1> DEFINE now == IF place = "group" THEN "group" ELSE "group again"
<1>1. /\ MayRead({"group", "contexts"}) /\ Read(now)
      /\ kernel' = kernel /\ listenSockets' = listenSockets
  BY DEF ApplicationProtocol
<1>2. PICK r \in Said, s \in Socket :
        Renews(r, s) /\ SameAddress(r, s) /\ r.contexts = said[This].contexts
  BY <1>0, ApplicationProtocolRenews
<1>3. contexts' \in Seq(Context)
  BY <1>0, ProtocolContexts
<1>4. now \in {"group", "group again", "contexts"} /\ now # "contexts"
      /\ (now = "group" => place = "group")
  OBVIOUS
<1> HIDE DEF now
<1>5. now = "group" => r.contexts = <<>>
  <2>1. said # <<>>
    BY <1>0, <1>1, InGroup
  <2> QED BY <1>0, <1>2, <1>4, <2>1 DEF PlaceCorrect
<1> QED BY <1>1, <1>2, <1>3, <1>4, <1>5, GroupElementKeeps

(* So does a context.                                                      *)
LEMMA ServerContextKeeps ==
  ASSUME InterfacesCorrect, ServersCorrect, ServerContext
  PROVE  InterfacesCorrect'
<1>0. TypesCorrect /\ HooksCorrect /\ PlaceCorrect
  BY DEF InterfacesCorrect
<1>1. /\ MayRead({"group", "contexts"}) /\ Read("contexts")
      /\ kernel' = kernel /\ listenSockets' = listenSockets
  BY DEF ServerContext
<1>2. PICK r \in Said, s \in Socket :
        Renews(r, s) /\ SameAddress(r, s)
        /\ r.contexts = Append(said[This].contexts, NULL)
  BY <1>0, ServerContextRenews
<1>3. contexts' \in Seq(Context)
  <2>1. Sock.default \in 0..Len(contexts)
    BY <1>1, SockServer
  <2> QED BY <1>0, <2>1, ServerContextContexts
<1>4. r.contexts # <<>>
  <2>1. said[This].contexts \in Seq(Domain \union {NULL})
    BY <1>0, <1>1, InGroup
  <2> QED BY <1>2, <2>1, AppendProperties
<1> QED BY <1>1, <1>2, <1>3, <1>4, GroupElementKeeps

(* So do its names.                                                        *)
LEMMA DomainsKeeps ==
  ASSUME InterfacesCorrect, NEW d \in Domain, Domains(d)
  PROVE  InterfacesCorrect'
<1>0. TypesCorrect /\ HooksCorrect /\ PlaceCorrect
  BY DEF InterfacesCorrect
<1>1. /\ MayRead({"group", "contexts"}) /\ Read("contexts")
      /\ kernel' = kernel /\ listenSockets' = listenSockets /\ contexts' = contexts
  BY DEF Domains, MayRead
<1>2. ThisContext \in 1..Len(said[This].contexts)
  BY <1>0, DomainsRenews
<1>3. PICK r \in Said, s \in Socket :
        Renews(r, s) /\ SameAddress(r, s)
        /\ r.contexts = [said[This].contexts EXCEPT ![ThisContext] = d]
  BY <1>0, DomainsRenews
<1>4. contexts' \in Seq(Context)
  BY <1>0, <1>1 DEF TypesCorrect
<1>5. r.contexts # <<>>
  <2>1. said[This].contexts \in Seq(Domain \union {NULL})
    BY <1>0, <1>1, InGroup
  <2>2. Len(r.contexts) = Len(said[This].contexts)
    BY <1>2, <1>3, <2>1, ExceptSeq
  <2>3. Len(r.contexts) >= 1 /\ Len(<<>>) = 0
    BY <1>2, <2>1, <2>2, LenProperties, EmptySeq
  <2> QED BY <2>3
<1> QED BY <1>1, <1>3, <1>4, <1>5, GroupElementKeeps

-----------------------------------------------------------------------------
(* An interface begins.                                                    *)

BeginsAt(x) ==
  /\ memory[x] = NULL
  /\ \A i \in 1..Len(said) : hook[i] # x
  /\ said' \in Seq(Said) /\ Len(said') = Len(said) + 1
  /\ \A i \in 1..Len(said) : said'[i] = said[i]
  /\ hook' \in Seq(Cell) /\ Len(hook') = Len(said) + 1
  /\ \A i \in 1..Len(said) : hook'[i] = hook[i]
  /\ hook'[Len(said) + 1] = x
  /\ kernel' \in Seq(Descriptor) /\ Len(kernel') = Len(said) + 1
  /\ \A i \in 1..Len(said) : kernel'[i] = kernel[i]
  /\ kernel'[Len(said) + 1].bound = 0 /\ ~kernel'[Len(said) + 1].watched
  /\ memory' \in [Cell -> Socket \union {NULL}] /\ memory'[x] \in Socket
  /\ \A y \in Cell : y # x => memory'[y] = memory[y]

Blank(r, s) ==
  /\ r.family = NULL /\ r.address = "none" /\ ~r.port /\ ~r.group
  /\ r.backlog = 1 /\ r.contexts = <<>>
  /\ s.family = NULL /\ s.address = "none" /\ ~s.port /\ ~s.tls
  /\ s.backlog = 1 /\ s.fd = 0

(* A new interface has a cell that was free and nothing is said of it.     *)
LEMMA InterfaceBegins ==
  ASSUME TypesCorrect, HooksCorrect, Interface
  PROVE  \E x \in Cell : BeginsAt(x) /\ Blank(said'[Len(said) + 1], memory'[x])
<1>1. phase = "load"
  BY DEF Interface, MayRead
<1> DEFINE s == [fd |-> 0, family |-> NULL, address |-> "none", port |-> FALSE,
                 backlog |-> 1, layer |-> FALSE, tls |-> FALSE, default |-> Garbage,
                 domains |-> NoDomains]
           none == <<>>
           r == [family |-> NULL, address |-> "none", port |-> FALSE, backlog |-> 1,
                 layer |-> FALSE, protocol |-> NULL, group |-> FALSE,
                 contexts |-> none, portFirst |-> FALSE]
           k == [bound |-> 0, backlog |-> 0, watched |-> FALSE]
<1>2. PICK x \in Cell : /\ memory[x] = NULL
                        /\ memory' = [memory EXCEPT ![x] = s]
                        /\ hook' = Append(hook, x)
  BY DEF Interface
<1>3. said' = Append(said, r) /\ kernel' = Append(kernel, k)
  BY DEF Interface
<1>4. s \in Socket
  <2>1. Garbage \in Nat
    BY InterfaceAssumption DEF Garbage
  <2>2. NoDomains \in [Domain -> Nat]
    BY DEF NoDomains
  <2> QED BY <2>1, <2>2 DEF Socket, Address
<1>5. r \in Said
  <2>1. none \in Seq(Domain \union {NULL})
    BY EmptySeq
  <2> HIDE DEF none
  <2> QED BY <2>1 DEF Said, Address
<1>6. k \in Descriptor /\ k.bound = 0 /\ ~k.watched
  BY DEF Descriptor
<1>7. Blank(r, s)
  BY DEF Blank
<1> HIDE DEF r, s, k
<1>8. Len(said) \in Nat /\ said \in Seq(Said) /\ hook \in Seq(Cell) /\ Len(hook) = Len(said)
      /\ kernel \in Seq(Descriptor) /\ Len(kernel) = Len(said)
  BY LenProperties DEF TypesCorrect
<1>9. /\ said' \in Seq(Said) /\ Len(said') = Len(said) + 1
      /\ \A i \in 1..Len(said) : said'[i] = said[i]
      /\ said'[Len(said) + 1] = r
  BY <1>3, <1>5, <1>8, AppendProperties
<1>10. /\ hook' \in Seq(Cell) /\ Len(hook') = Len(said) + 1
       /\ \A i \in 1..Len(said) : hook'[i] = hook[i]
       /\ hook'[Len(said) + 1] = x
  <2>1. /\ hook' \in Seq(Cell) /\ Len(hook') = Len(hook) + 1
        /\ \A i \in 1..Len(hook) : hook'[i] = hook[i]
        /\ hook'[Len(hook) + 1] = x
    BY <1>2, <1>8, AppendProperties
  <2> QED BY <1>8, <2>1
<1>11. /\ kernel' \in Seq(Descriptor) /\ Len(kernel') = Len(said) + 1
       /\ \A i \in 1..Len(said) : kernel'[i] = kernel[i]
       /\ kernel'[Len(said) + 1] = k
  <2>1. /\ kernel' \in Seq(Descriptor) /\ Len(kernel') = Len(kernel) + 1
        /\ \A i \in 1..Len(kernel) : kernel'[i] = kernel[i]
        /\ kernel'[Len(kernel) + 1] = k
    BY <1>3, <1>6, <1>8, AppendProperties
  <2> QED BY <1>8, <2>1
<1>12. /\ memory' \in [Cell -> Socket \union {NULL}] /\ memory'[x] = s
       /\ \A y \in Cell : y # x => memory'[y] = memory[y]
  BY <1>2, <1>4 DEF TypesCorrect
<1>13. \A i \in 1..Len(said) : hook[i] # x
  BY <1>1, <1>2 DEF HooksCorrect
<1>14. BeginsAt(x)
  BY <1>2, <1>4, <1>6, <1>9, <1>10, <1>11, <1>12, <1>13 DEF BeginsAt
<1> QED BY <1>7, <1>9, <1>12, <1>14

(* A new interface leaves the others as they are.                          *)
LEMMA InterfaceKeeps ==
  ASSUME InterfacesCorrect, Interface
  PROVE  InterfacesCorrect'
<1>0. /\ TypesCorrect /\ PlaceCorrect /\ HooksCorrect
      /\ SocketsCorrect /\ KernelCorrect /\ PointersCorrect
  BY DEF InterfacesCorrect
<1>1. /\ phase = "load" /\ elements < MaxElements /\ Read("interface")
      /\ listenSockets' = listenSockets /\ contexts' = contexts
  BY DEF Interface, MayRead
<1>2. phase' = "load" /\ place' = "interface" /\ elements' \in 0..MaxElements
  BY <1>0, <1>1, ReadFacts
<1>3. PICK x \in Cell : BeginsAt(x) /\ Blank(said'[Len(said) + 1], memory'[x])
  BY <1>0, InterfaceBegins
<1> DEFINE n == Len(said)
<1>4. n \in Nat /\ Len(said') = n + 1
  BY <1>0, <1>3, LenProperties DEF TypesCorrect, BeginsAt
<1>5. \A i \in 1..n + 1 : i \in 1..n \/ i = n + 1
  BY <1>4
<1>6. \A i \in 1..n : hook[i] \in Cell
  BY <1>0, ElementOfSeq DEF TypesCorrect
<1>7. \A i \in 1..n : memory'[hook'[i]] = memory[hook[i]]
  BY <1>3, <1>6 DEF BeginsAt
<1>8. TypesCorrect'
  BY <1>0, <1>1, <1>2, <1>3 DEF TypesCorrect, BeginsAt, Places
<1>9. PlaceCorrect'
  <2>1. This' = n + 1
    BY <1>4 DEF This
  <2>2. ~said'[n + 1].group
    BY <1>3 DEF Blank
  <2> QED BY <1>2, <2>1, <2>2 DEF PlaceCorrect
<1>10. HooksCorrect'
  <2>1. ASSUME NEW i \in 1..n + 1, NEW j \in 1..n + 1, hook'[i] = hook'[j]
        PROVE  i = j
    <3>1. CASE i \in 1..n /\ j \in 1..n
      <4>1. hook[i] = hook[j]
        BY <1>3, <2>1, <3>1 DEF BeginsAt
      <4> QED BY <1>0, <3>1, <4>1 DEF HooksCorrect
    <3>2. CASE i = n + 1 /\ j \in 1..n
      BY <1>3, <2>1, <3>2 DEF BeginsAt
    <3>3. CASE i \in 1..n /\ j = n + 1
      BY <1>3, <2>1, <3>3 DEF BeginsAt
    <3> QED BY <1>5, <3>1, <3>2, <3>3
  <2>2. ASSUME NEW i \in 1..n + 1 PROVE memory'[hook'[i]] # NULL
    <3>1. CASE i \in 1..n
      BY <1>0, <1>1, <1>7, <3>1 DEF HooksCorrect
    <3>2. CASE i = n + 1
      BY <1>3, <3>2, SocketAssumption DEF BeginsAt
    <3> QED BY <1>5, <3>1, <3>2
  <2> QED BY <1>4, <2>1, <2>2 DEF HooksCorrect
<1>11. ASSUME NEW i \in 1..n + 1 PROVE SocketCorrect(i)'
  <2>1. CASE i \in 1..n
    <3>1. SocketCorrect(i)
      BY <1>0, <1>1, <2>1 DEF SocketsCorrect
    <3>2. said'[i] = said[i] /\ memory'[hook'[i]] = memory[hook[i]]
      BY <1>3, <1>7, <2>1 DEF BeginsAt
    <3> QED BY <1>1, <1>2, <3>1, <3>2 DEF SocketCorrect
  <2>2. CASE i = n + 1
    <3>1. Blank(said'[i], memory'[hook'[i]])
      BY <1>3, <2>2 DEF BeginsAt
    <3> QED BY <3>1 DEF SocketCorrect, Blank
  <2> QED BY <1>5, <2>1, <2>2
<1>12. SocketsCorrect'
  BY <1>4, <1>11 DEF SocketsCorrect
<1>13. ASSUME NEW i \in 1..n + 1 PROVE BoundCorrect(i)'
  <2>1. CASE i \in 1..n
    <3>1. BoundCorrect(i)
      BY <1>0, <2>1 DEF KernelCorrect
    <3>2. said'[i] = said[i] /\ kernel'[i] = kernel[i]
      BY <1>3, <2>1 DEF BeginsAt
    <3> QED BY <1>1, <1>2, <3>1, <3>2 DEF BoundCorrect
  <2>2. CASE i = n + 1
    <3>1. /\ said'[i].address = "none" /\ ~said'[i].port
          /\ kernel'[i].bound = 0 /\ ~kernel'[i].watched
      BY <1>3, <2>2 DEF BeginsAt, Blank
    <3>2. ~Full(said'[i])
      BY <3>1 DEF Full
    <3> QED BY <3>1, <3>2 DEF BoundCorrect
  <2> QED BY <1>5, <2>1, <2>2
<1>14. KernelCorrect'
  BY <1>4, <1>13 DEF KernelCorrect
<1>15. ASSUME NEW k \in 1..Len(listenSockets)
       PROVE  \E i \in 1..n + 1 : kernel'[i].bound = 1 /\ listenSockets[k] = hook'[i]
  <2>1. PICK i \in 1..n : kernel[i].bound = 1 /\ listenSockets[k] = hook[i]
    BY <1>0 DEF PointersCorrect
  <2>2. i \in 1..n + 1
    BY <1>4
  <2> QED BY <1>3, <2>1, <2>2 DEF BeginsAt
<1>16. ASSUME NEW i \in 1..n + 1, kernel'[i].bound = 1
       PROVE  \E k \in 1..Len(listenSockets) : listenSockets[k] = hook'[i]
  <2>1. i \in 1..n
    BY <1>3, <1>5, <1>16 DEF BeginsAt
  <2>2. kernel[i].bound = 1 /\ hook'[i] = hook[i]
    BY <1>3, <1>16, <2>1 DEF BeginsAt
  <2> QED BY <1>0, <2>1, <2>2 DEF PointersCorrect
<1>17. PointersCorrect'
  <2>1. \A k, l \in 1..Len(listenSockets) : listenSockets[k] = listenSockets[l] => k = l
    BY <1>0 DEF PointersCorrect
  <2>2. Len(said') = n + 1 /\ listenSockets' = listenSockets
    BY <1>1, <1>3, <1>4 DEF BeginsAt
  <2> HIDE DEF n
  <2> QED BY <1>15, <1>16, <2>1, <2>2 DEF PointersCorrect
<1> QED BY <1>8, <1>9, <1>10, <1>12, <1>14, <1>17 DEF InterfacesCorrect

-----------------------------------------------------------------------------
(* The layer reallocates the socket.                                       *)

Moves(x) ==
  /\ x # ThisCell => memory[x] = NULL
  /\ said' \in Seq(Said) /\ Len(said') = Len(said) /\ said' # <<>>
  /\ \A i \in 1..Len(said) : i # This => said'[i] = said[i]
  /\ hook' \in Seq(Cell) /\ Len(hook') = Len(said)
  /\ \A i \in 1..Len(said) : hook'[i] = IF i = This THEN x ELSE hook[i]
  /\ \A i \in 1..Len(said) : i # This => hook[i] # x
  /\ memory' \in [Cell -> Socket \union {NULL}]
  /\ memory'[x] \in Socket
  /\ \A y \in Cell : y # x => memory'[y] = IF y = ThisCell THEN NULL ELSE memory[y]
  /\ listenSockets' \in Seq(Cell) /\ Len(listenSockets') = Len(listenSockets)
  /\ \A k \in 1..Len(listenSockets) :
       listenSockets'[k] =
         IF listenSockets[k] = ThisCell THEN x ELSE listenSockets[k]

Extended(r, s) ==
  /\ r.family = said[This].family /\ r.address = said[This].address
  /\ (r.port <=> said[This].port) /\ (r.portFirst <=> said[This].portFirst)
  /\ r.backlog = said[This].backlog
  /\ r.group /\ r.contexts = said[This].contexts
  /\ s.fd = Sock.fd /\ s.family = Sock.family /\ s.address = Sock.address
  /\ (s.port <=> Sock.port) /\ s.backlog = Sock.backlog
  /\ s.tls /\ s.default = 0 /\ \A d \in Domain : s.domains[d] = 0

(* The group of the layer moves the socket to its own cell or a free one.  *)
LEMMA ServerConfigurationMoves ==
  ASSUME TypesCorrect, HooksCorrect, ServerConfiguration
  PROVE  \E x \in Cell : Moves(x) /\ Extended(said'[This], memory'[x])
<1>1. phase = "load" /\ said # <<>>
  BY DEF ServerConfiguration, MayRead
<1>2. This \in 1..Len(said) /\ This \in Nat /\ ThisCell \in Cell /\ said[This] \in Said
  BY <1>1, ThisExists
<1>3. Sock \in Socket /\ memory[ThisCell] = Sock
  BY <1>1, <1>2 DEF HooksCorrect, TypesCorrect, Sock, ThisCell
<1> DEFINE s == ServerSocket(Sock)
           r == [said[This] EXCEPT !.group = TRUE]
<1>4. PICK x \in Cell :
        /\ x # ThisCell => memory[x] = NULL
        /\ memory' = [y \in Cell |-> IF y = x THEN s
                                     ELSE IF y = ThisCell THEN NULL ELSE memory[y]]
        /\ listenSockets' = ReplaceListenSocket(ThisCell, x)
        /\ hook' = [hook EXCEPT ![This] = x]
  BY DEF ServerConfiguration
<1>5. said' = [said EXCEPT ![This] = r]
  BY <1>2 DEF ServerConfiguration, Note, Said
<1>6. r \in Said
  BY <1>2 DEF Said
<1>7. s \in Socket
  <2>1. NoDomains \in [Domain -> Nat]
    BY DEF NoDomains
  <2> QED BY <1>3, <2>1 DEF ServerSocket, Socket
<1>8. Extended(r, s)
  <2>1. /\ r.family = said[This].family /\ r.address = said[This].address
        /\ (r.port <=> said[This].port) /\ (r.portFirst <=> said[This].portFirst)
        /\ r.backlog = said[This].backlog
        /\ r.group /\ r.contexts = said[This].contexts
    BY <1>2 DEF Said
  <2>2. /\ s.fd = Sock.fd /\ s.family = Sock.family /\ s.address = Sock.address
        /\ (s.port <=> Sock.port) /\ s.backlog = Sock.backlog
        /\ s.tls /\ s.default = 0 /\ s.domains = NoDomains
    BY <1>3 DEF Socket, ServerSocket
  <2>3. \A d \in Domain : s.domains[d] = 0
    BY <2>2 DEF NoDomains
  <2> HIDE DEF r, s
  <2> QED BY <2>1, <2>2, <2>3 DEF Extended
<1> HIDE DEF r, s
<1>9. /\ said' \in Seq(Said) /\ Len(said') = Len(said) /\ said'[This] = r
      /\ \A i \in 1..Len(said) : i # This => said'[i] = said[i]
  BY <1>2, <1>5, <1>6, ExceptSeq DEF TypesCorrect
<1>10. said' # <<>>
  <2>1. Len(said') >= 1
    BY <1>1, <1>9, ThisExists
  <2>2. Len(<<>>) = 0
    BY EmptySeq
  <2> QED BY <2>1, <2>2
<1>11. /\ hook' \in Seq(Cell) /\ Len(hook') = Len(said)
       /\ \A i \in 1..Len(said) : hook'[i] = IF i = This THEN x ELSE hook[i]
  <2>1. hook \in Seq(Cell) /\ Len(hook) = Len(said) /\ This \in 1..Len(hook)
    BY <1>2 DEF TypesCorrect
  <2>2. /\ hook' \in Seq(Cell) /\ Len(hook') = Len(hook)
        /\ \A i \in 1..Len(hook) : hook'[i] = IF i = This THEN x ELSE hook[i]
    BY <1>4, <2>1, ExceptSeq
  <2> QED BY <2>1, <2>2
<1>12. ASSUME NEW i \in 1..Len(said), i # This PROVE hook[i] # x
  <2>1. hook[i] # ThisCell
    BY <1>1, <1>12, OtherCells
  <2>2. memory[hook[i]] # NULL
    BY <1>1 DEF HooksCorrect
  <2> QED BY <1>4, <2>1, <2>2
<1>13. /\ memory' \in [Cell -> Socket \union {NULL}] /\ memory'[x] = s
       /\ \A y \in Cell : y # x => memory'[y] = IF y = ThisCell THEN NULL ELSE memory[y]
  BY <1>4, <1>7 DEF TypesCorrect
<1>14. /\ listenSockets' \in Seq(Cell) /\ Len(listenSockets') = Len(listenSockets)
       /\ \A k \in 1..Len(listenSockets) :
            listenSockets'[k] =
              IF listenSockets[k] = ThisCell THEN x ELSE listenSockets[k]
  <2>1. /\ listenSockets \in Seq(Cell) /\ Len(listenSockets) \in Nat
        /\ DOMAIN listenSockets = 1..Len(listenSockets)
        /\ \A k \in 1..Len(listenSockets) : listenSockets[k] \in Cell
    BY LenProperties, ElementOfSeq DEF TypesCorrect
  <2>2. listenSockets' = [k \in 1..Len(listenSockets) |->
                            IF listenSockets[k] = ThisCell THEN x ELSE listenSockets[k]]
    BY <1>4, <2>1 DEF ReplaceListenSocket
  <2>3. listenSockets' \in [1..Len(listenSockets) -> Cell]
    BY <2>1, <2>2
  <2>4. listenSockets' \in Seq(Cell)
    BY <2>1, <2>3, SeqDef
  <2>5. Len(listenSockets') \in Nat /\ 1..Len(listenSockets') = 1..Len(listenSockets)
    BY <2>3, <2>4, LenProperties
  <2>6. Len(listenSockets') = Len(listenSockets)
    BY <2>1, <2>5, SameLength
  <2> QED BY <2>2, <2>4, <2>6
<1>15. Moves(x)
  BY <1>4, <1>7, <1>9, <1>10, <1>11, <1>12, <1>13, <1>14 DEF Moves
<1> QED BY <1>8, <1>9, <1>13, <1>15

(* The hook and the pointer to the socket follow when it moves.            *)
LEMMA ServerConfigurationKeeps ==
  ASSUME InterfacesCorrect, ServerConfiguration, Groupless(This)
  PROVE  InterfacesCorrect'
<1>0. /\ TypesCorrect /\ PlaceCorrect /\ HooksCorrect
      /\ SocketsCorrect /\ KernelCorrect /\ PointersCorrect
  BY DEF InterfacesCorrect
<1>1. /\ phase = "load" /\ elements < MaxElements /\ said # <<>> /\ Read("group")
      /\ kernel' = kernel /\ contexts' = contexts
  BY DEF ServerConfiguration, MayRead
<1>2. phase' = "load" /\ place' = "group" /\ elements' \in 0..MaxElements
  BY <1>0, <1>1, ReadFacts
<1>3. PICK x \in Cell : Moves(x) /\ Extended(said'[This], memory'[x])
  BY <1>0, ServerConfigurationMoves
<1>4. /\ Len(said') = Len(said) /\ This' = This /\ This \in 1..Len(said)
      /\ ThisCell \in Cell
  BY <1>0, <1>1, <1>3, ThisExists DEF Moves, This
<1>5. ASSUME NEW i \in 1..Len(said), i # This
      PROVE  /\ said'[i] = said[i] /\ hook'[i] = hook[i]
             /\ hook[i] \in Cell /\ hook[i] # x /\ hook[i] # ThisCell
             /\ memory'[hook'[i]] = memory[hook[i]]
  <2>1. hook[i] \in Cell /\ hook[i] # ThisCell
    BY <1>0, <1>1, <1>5, OtherCells
  <2> QED BY <1>3, <1>5, <2>1 DEF Moves
<1>6. hook'[This] = x
  BY <1>3, <1>4 DEF Moves
<1>7. /\ Sock.family = said[This].family /\ Sock.address = said[This].address
      /\ (Sock.port <=> said[This].port)
      /\ Sock.backlog = said[This].backlog /\ Sock.fd \in {0, This}
      /\ (said[This].family # NULL => Sock.fd = This)
      /\ (said[This].family = NULL =>
           (said[This].address = "none" /\ ~said[This].port))
  BY <1>1, SockSaid
<1>8. TypesCorrect'
  BY <1>0, <1>1, <1>2, <1>3 DEF TypesCorrect, Moves, Places
<1>9. PlaceCorrect'
  <2>1. said'[This'].group /\ said'[This'].contexts = <<>> /\ said' # <<>>
    BY <1>3, <1>4 DEF Extended, Groupless, Moves
  <2> QED BY <1>2, <2>1 DEF PlaceCorrect
<1>10. HooksCorrect'
  <2>1. ASSUME NEW i \in 1..Len(said), NEW j \in 1..Len(said), hook'[i] = hook'[j]
        PROVE  i = j
    <3>1. CASE i # This /\ j # This
      BY <1>0, <1>5, <2>1, <3>1 DEF HooksCorrect
    <3>2. CASE i = This /\ j # This
      BY <1>5, <1>6, <2>1, <3>2
    <3>3. CASE i # This /\ j = This
      BY <1>5, <1>6, <2>1, <3>3
    <3> QED BY <3>1, <3>2, <3>3
  <2>2. ASSUME NEW i \in 1..Len(said) PROVE memory'[hook'[i]] # NULL
    <3>1. CASE i # This
      BY <1>0, <1>1, <1>5, <3>1 DEF HooksCorrect
    <3>2. CASE i = This
      BY <1>3, <1>6, <3>2, SocketAssumption DEF Moves
    <3> QED BY <3>1, <3>2
  <2> QED BY <1>4, <2>1, <2>2 DEF HooksCorrect
<1>11. ASSUME NEW i \in 1..Len(said) PROVE SocketCorrect(i)'
  <2>1. CASE i # This
    <3>1. SocketCorrect(i)
      BY <1>0, <1>1 DEF SocketsCorrect
    <3>2. said'[i] = said[i] /\ memory'[hook'[i]] = memory[hook[i]]
      BY <1>5, <2>1
    <3> QED BY <1>1, <1>2, <3>1, <3>2 DEF SocketCorrect
  <2>2. CASE i = This
    <3>1. Extended(said'[i], memory'[hook'[i]])
      BY <1>3, <1>6, <2>2
    <3> QED BY <1>7, <2>2, <3>1 DEF SocketCorrect, Extended
  <2> QED BY <2>1, <2>2
<1>12. SocketsCorrect'
  BY <1>4, <1>11 DEF SocketsCorrect
<1>13. ASSUME NEW i \in 1..Len(said) PROVE BoundCorrect(i)'
  <2>1. BoundCorrect(i)
    BY <1>0 DEF KernelCorrect
  <2>2. /\ said'[i].family = said[i].family
        /\ (Doubtful(said'[i]) <=> Doubtful(said[i]))
        /\ (Full(said'[i]) <=> Full(said[i]))
    <3>1. CASE i # This
      BY <1>5, <3>1
    <3>2. CASE i = This
      BY <1>3, <3>2 DEF Extended, Doubtful, Full
    <3> QED BY <3>1, <3>2
  <2> QED BY <1>1, <1>2, <2>1, <2>2 DEF BoundCorrect
<1>14. KernelCorrect'
  BY <1>4, <1>13 DEF KernelCorrect
<1>15. ASSUME NEW k \in 1..Len(listenSockets), NEW i \in 1..Len(said),
              listenSockets[k] = hook[i]
       PROVE  listenSockets'[k] = hook'[i]
  <2>1. CASE i # This
    BY <1>3, <1>5, <1>15, <2>1 DEF Moves
  <2>2. CASE i = This
    BY <1>3, <1>6, <1>15, <2>2 DEF Moves, ThisCell
  <2> QED BY <2>1, <2>2
<1>16. ASSUME NEW k \in 1..Len(listenSockets)
       PROVE  \E i \in 1..Len(said) : kernel[i].bound = 1 /\ listenSockets[k] = hook[i]
                                      /\ listenSockets'[k] = hook'[i]
  BY <1>0, <1>15 DEF PointersCorrect
<1>17. ASSUME NEW k \in 1..Len(listenSockets), NEW l \in 1..Len(listenSockets),
              listenSockets'[k] = listenSockets'[l]
       PROVE  k = l
  <2>1. PICK i \in 1..Len(said) : listenSockets[k] = hook[i] /\ listenSockets'[k] = hook'[i]
    BY <1>16
  <2>2. PICK j \in 1..Len(said) : listenSockets[l] = hook[j] /\ listenSockets'[l] = hook'[j]
    BY <1>16
  <2>3. i = j
    BY <1>4, <1>10, <1>17, <2>1, <2>2 DEF HooksCorrect
  <2>4. listenSockets[k] = listenSockets[l]
    BY <2>1, <2>2, <2>3
  <2> QED BY <1>0, <2>4 DEF PointersCorrect
<1>18. ASSUME NEW i \in 1..Len(said), kernel[i].bound = 1
       PROVE  \E k \in 1..Len(listenSockets) : listenSockets'[k] = hook'[i]
  <2>1. PICK k \in 1..Len(listenSockets) : listenSockets[k] = hook[i]
    BY <1>0, <1>18 DEF PointersCorrect
  <2> QED BY <1>15, <2>1
<1>19. PointersCorrect'
  <2>1. Len(listenSockets') = Len(listenSockets)
    BY <1>3 DEF Moves
  <2> QED BY <1>1, <1>4, <1>16, <1>17, <1>18, <2>1 DEF PointersCorrect
<1> QED BY <1>8, <1>9, <1>10, <1>12, <1>14, <1>19 DEF InterfacesCorrect

-----------------------------------------------------------------------------
(* From the end of the file to the end of the server.                      *)

(* Nothing but the phase changes.                                          *)
LEMMA PhaseKeeps ==
  ASSUME InterfacesCorrect, phase \in {"load", "loaded"}, phase' \in {"loaded", "failed"},
         UNCHANGED <<reading, hook, memory, listenSockets, kernel, contexts>>
  PROVE  InterfacesCorrect'
<1>0. /\ TypesCorrect /\ PlaceCorrect /\ HooksCorrect
      /\ SocketsCorrect /\ KernelCorrect /\ PointersCorrect
  BY DEF InterfacesCorrect
<1>1. /\ elements' = elements /\ place' = place /\ said' = said /\ hook' = hook
      /\ memory' = memory /\ listenSockets' = listenSockets /\ kernel' = kernel
      /\ contexts' = contexts
  BY DEF reading
<1>2. TypesCorrect'
  BY <1>0, <1>1 DEF TypesCorrect
<1>3. PlaceCorrect'
  BY <1>0, <1>1 DEF PlaceCorrect, This
<1>4. HooksCorrect'
  BY <1>0, <1>1 DEF HooksCorrect
<1>5. SocketsCorrect'
  BY <1>0, <1>1 DEF SocketsCorrect, SocketCorrect
<1>6. KernelCorrect'
  <2> SUFFICES ASSUME NEW i \in 1..Len(said) PROVE BoundCorrect(i)'
    BY <1>1 DEF KernelCorrect
  <2>1. BoundCorrect(i)
    BY <1>0 DEF KernelCorrect
  <2> QED BY <1>1, <2>1 DEF BoundCorrect
<1>7. PointersCorrect'
  BY <1>0, <1>1 DEF PointersCorrect
<1> QED BY <1>2, <1>3, <1>4, <1>5, <1>6, <1>7 DEF InterfacesCorrect

(* The sockets that are pointed to are those that are bound.               *)
LEMMA PointedBound ==
  ASSUME InterfacesCorrect, phase # "unloaded", NEW i \in 1..Len(said)
  PROVE  /\ kernel[i].bound = 1 => hook[i] \in Pointed /\ memory[hook[i]].fd = i
         /\ \A x \in Pointed : memory[x].fd = i => x = hook[i] /\ kernel[i].bound = 1
<1>0. /\ TypesCorrect /\ SocketsCorrect /\ KernelCorrect /\ PointersCorrect
  BY DEF InterfacesCorrect
<1>1. Pointed = {listenSockets[k] : k \in 1..Len(listenSockets)}
  BY <1>0, LenProperties DEF Pointed, Range, TypesCorrect
<1>2. \A j \in 1..Len(said) : kernel[j].bound = 1 => memory[hook[j]].fd = j
  BY <1>0 DEF SocketsCorrect, SocketCorrect, KernelCorrect, BoundCorrect
<1>3. ASSUME kernel[i].bound = 1 PROVE hook[i] \in Pointed /\ memory[hook[i]].fd = i
  BY <1>0, <1>1, <1>2, <1>3 DEF PointersCorrect
<1>4. ASSUME NEW x \in Pointed, memory[x].fd = i
      PROVE  x = hook[i] /\ kernel[i].bound = 1
  <2>1. PICK j \in 1..Len(said) : kernel[j].bound = 1 /\ x = hook[j]
    BY <1>0, <1>1 DEF PointersCorrect
  <2>2. j = i
    BY <1>2, <1>4, <2>1
  <2> QED BY <2>1, <2>2
<1> QED BY <1>3, <1>4

(* If nothing else is bound than before, the pointers match as before.     *)
LEMMA PointersRemain ==
  ASSUME PointersCorrect, said' = said, hook' = hook, listenSockets' = listenSockets,
         \A i \in 1..Len(said) : kernel'[i].bound = kernel[i].bound
  PROVE  PointersCorrect'
<1>1. \A k \in 1..Len(listenSockets) :
        \E i \in 1..Len(said) : kernel'[i].bound = 1 /\ listenSockets[k] = hook[i]
  <2> TAKE k \in 1..Len(listenSockets)
  <2>1. PICK i \in 1..Len(said) : kernel[i].bound = 1 /\ listenSockets[k] = hook[i]
    BY DEF PointersCorrect
  <2>2. kernel'[i].bound = 1 /\ listenSockets[k] = hook[i]
    BY <2>1
  <2> QED BY <2>2
<1>2. \A i \in 1..Len(said) : kernel'[i].bound = 1 =>
        \E k \in 1..Len(listenSockets) : listenSockets[k] = hook[i]
  BY DEF PointersCorrect
<1>3. \A k, l \in 1..Len(listenSockets) : listenSockets[k] = listenSockets[l] => k = l
  BY DEF PointersCorrect
<1>4. /\ \A k \in 1..Len(listenSockets') :
           \E i \in 1..Len(said') : kernel'[i].bound = 1 /\ listenSockets'[k] = hook'[i]
      /\ \A k, l \in 1..Len(listenSockets') :
           listenSockets'[k] = listenSockets'[l] => k = l
      /\ \A i \in 1..Len(said') : kernel'[i].bound = 1 =>
           \E k \in 1..Len(listenSockets') : listenSockets'[k] = hook'[i]
  BY <1>1, <1>2, <1>3
<1> QED BY <1>4 DEF PointersCorrect

(* What steps of the running server do to the kernel.                      *)
LEMMA RunningKeeps ==
  ASSUME InterfacesCorrect, phase \in {"loaded", "listening", "running"},
         phase' \in {"listening", "running"},
         UNCHANGED <<reading, hook, listenSockets, contexts>>,
         memory' \in [Cell -> Socket \union {NULL}],
         \A i \in 1..Len(said) :
           /\ memory'[hook[i]] # NULL
           /\ memory'[hook[i]].family = memory[hook[i]].family
           /\ memory'[hook[i]].address = memory[hook[i]].address
           /\ (memory'[hook[i]].port <=> memory[hook[i]].port)
           /\ (memory'[hook[i]].tls <=> memory[hook[i]].tls)
           /\ memory'[hook[i]].fd = memory[hook[i]].fd,
         kernel' \in Seq(Descriptor), Len(kernel') = Len(kernel),
         \A i \in 1..Len(said) :
           /\ kernel'[i].bound = kernel[i].bound
           /\ (kernel'[i].watched <=> (phase' = "running" /\ kernel[i].bound = 1))
           /\ (kernel[i].bound = 1 => kernel'[i].backlog = said[i].backlog)
  PROVE  InterfacesCorrect'
<1>0. /\ TypesCorrect /\ PlaceCorrect /\ HooksCorrect
      /\ SocketsCorrect /\ KernelCorrect /\ PointersCorrect
  BY DEF InterfacesCorrect
<1>1. /\ elements' = elements /\ place' = place /\ said' = said /\ hook' = hook
      /\ listenSockets' = listenSockets /\ contexts' = contexts
  BY DEF reading
<1>2. TypesCorrect'
  BY <1>0, <1>1 DEF TypesCorrect
<1>3. PlaceCorrect'
  BY <1>0, <1>1 DEF PlaceCorrect, This
<1>4. HooksCorrect'
  BY <1>0, <1>1 DEF HooksCorrect
<1>5. SocketsCorrect'
  <2> SUFFICES ASSUME NEW i \in 1..Len(said) PROVE SocketCorrect(i)'
    BY <1>1 DEF SocketsCorrect
  <2>1. SocketCorrect(i)
    BY <1>0 DEF SocketsCorrect
  <2> QED BY <1>1, <2>1 DEF SocketCorrect
<1>6. KernelCorrect'
  <2> SUFFICES ASSUME NEW i \in 1..Len(said) PROVE BoundCorrect(i)'
    BY <1>1 DEF KernelCorrect
  <2>1. BoundCorrect(i)
    BY <1>0 DEF KernelCorrect
  <2> QED BY <1>1, <2>1 DEF BoundCorrect
<1>7. PointersCorrect'
  BY <1>0, <1>1, PointersRemain
<1> QED BY <1>2, <1>3, <1>4, <1>5, <1>6, <1>7 DEF InterfacesCorrect

(* A function over the descriptors is the sequence of what becomes of them. *)
LEMMA KernelMapped ==
  ASSUME TypesCorrect, NEW f, kernel' = [i \in DOMAIN kernel |-> f[i]],
         \A i \in 1..Len(said) : f[i] \in Descriptor
  PROVE  /\ kernel' \in Seq(Descriptor) /\ Len(kernel') = Len(kernel)
         /\ \A i \in 1..Len(said) : kernel'[i] = f[i]
<1>1. Len(kernel) \in Nat /\ DOMAIN kernel = 1..Len(kernel) /\ Len(kernel) = Len(said)
  BY LenProperties DEF TypesCorrect
<1>2. kernel' \in [1..Len(kernel) -> Descriptor]
  BY <1>1
<1>3. kernel' \in Seq(Descriptor)
  BY <1>1, <1>2, SeqDef
<1>4. Len(kernel') \in Nat /\ 1..Len(kernel') = 1..Len(kernel)
  BY <1>2, <1>3, LenProperties
<1>5. Len(kernel') = Len(kernel)
  BY <1>1, <1>4, SameLength
<1> QED BY <1>1, <1>3, <1>5

(* The backlog of the file becomes that of the descriptor.                 *)
LEMMA ActivateKeeps ==
  ASSUME InterfacesCorrect, Activate
  PROVE  InterfacesCorrect'
<1>0. /\ TypesCorrect /\ HooksCorrect /\ SocketsCorrect /\ KernelCorrect
  BY DEF InterfacesCorrect
<1>1. /\ phase = "loaded" /\ phase' = "listening"
      /\ UNCHANGED <<reading, hook, listenSockets, contexts>>
      /\ \A x \in Pointed : memory[x] # NULL
  BY DEF Activate, Keep
<1>2. \A i \in 1..Len(said) : kernel[i] \in Descriptor /\ hook[i] \in Cell
  BY <1>0, ElementOfSeq DEF TypesCorrect
<1>3. ASSUME NEW x \in Cell
      PROVE  /\ memory'[x] \in Socket \union {NULL}
             /\ memory[x] # NULL =>
                  /\ memory'[x] # NULL
                  /\ memory'[x].family = memory[x].family
                  /\ memory'[x].address = memory[x].address
                  /\ (memory'[x].port <=> memory[x].port)
                  /\ (memory'[x].tls <=> memory[x].tls)
                  /\ memory'[x].fd = memory[x].fd
  <2>1. memory[x] \in Socket \union {NULL}
    BY <1>0 DEF TypesCorrect
  <2>2. memory'[x] = IF x \in Pointed THEN [memory[x] EXCEPT !.backlog = 0] ELSE memory[x]
    BY DEF Activate
  <2>3. CASE x \in Pointed
    <3>1. memory[x] \in Socket
      BY <1>1, <2>1, <2>3
    <3> DEFINE s == [memory[x] EXCEPT !.backlog = 0]
    <3>2. /\ s \in Socket
          /\ s.family = memory[x].family /\ s.address = memory[x].address
          /\ (s.port <=> memory[x].port) /\ (s.tls <=> memory[x].tls)
          /\ s.fd = memory[x].fd
      BY <3>1 DEF Socket
    <3> HIDE DEF s
    <3>3. memory'[x] = s
      BY <2>2, <2>3 DEF s
    <3> QED BY <3>2, <3>3, SocketAssumption
  <2>4. CASE x \notin Pointed
    BY <2>1, <2>2, <2>4
  <2> QED BY <2>3, <2>4
<1>4. memory' \in [Cell -> Socket \union {NULL}]
  BY <1>3 DEF Activate
<1> DEFINE f == [i \in DOMAIN kernel |->
                   IF \E x \in Pointed : memory[x].fd = i
                   THEN [kernel[i] EXCEPT !.backlog =
                           memory[CHOOSE x \in Pointed : memory[x].fd = i].backlog]
                   ELSE kernel[i]]
<1>5. ASSUME NEW i \in 1..Len(said)
      PROVE  /\ f[i] \in Descriptor /\ f[i].bound = kernel[i].bound
             /\ (f[i].watched <=> kernel[i].watched)
             /\ kernel[i].bound = 1 => f[i].backlog = said[i].backlog
  <2>1. i \in DOMAIN kernel
    BY <1>0, LenProperties DEF TypesCorrect
  <2>2. CASE kernel[i].bound = 1
    <3>1. hook[i] \in Pointed /\ memory[hook[i]].fd = i
      BY <1>1, <2>2, PointedBound
    <3>2. (CHOOSE x \in Pointed : memory[x].fd = i) = hook[i]
      BY <1>1, <3>1, PointedBound
    <3>3. memory[hook[i]].backlog = said[i].backlog
      BY <1>0, <1>1 DEF SocketsCorrect, SocketCorrect
    <3>4. said[i].backlog \in Nat
      <4>1. said[i] \in Said
        BY <1>0, ElementOfSeq DEF TypesCorrect
      <4> QED BY <4>1 DEF Said
    <3>5. f[i] = [kernel[i] EXCEPT !.backlog = said[i].backlog]
      BY <2>1, <3>1, <3>2, <3>3
    <3> HIDE DEF f
    <3> QED BY <1>2, <3>4, <3>5 DEF Descriptor
  <2>3. CASE kernel[i].bound # 1
    <3>1. ~\E x \in Pointed : memory[x].fd = i
      BY <1>1, <2>3, PointedBound
    <3>2. f[i] = kernel[i]
      BY <2>1, <3>1
    <3> HIDE DEF f
    <3> QED BY <1>2, <2>3, <3>2
  <2> QED BY <2>2, <2>3
<1>6. kernel' = [i \in DOMAIN kernel |-> f[i]]
  BY DEF Activate
<1> HIDE DEF f
<1>7. /\ kernel' \in Seq(Descriptor) /\ Len(kernel') = Len(kernel)
      /\ \A i \in 1..Len(said) : kernel'[i] = f[i]
  BY <1>0, <1>5, <1>6, KernelMapped
<1>8. \A i \in 1..Len(said) : ~kernel[i].watched
  BY <1>0, <1>1 DEF KernelCorrect, BoundCorrect
<1>9. \A i \in 1..Len(said) :
        /\ kernel'[i].bound = kernel[i].bound
        /\ (kernel'[i].watched <=> (phase' = "running" /\ kernel[i].bound = 1))
        /\ (kernel[i].bound = 1 => kernel'[i].backlog = said[i].backlog)
  BY <1>1, <1>5, <1>7, <1>8
<1>10. \A i \in 1..Len(said) : memory[hook[i]] # NULL
  BY <1>0, <1>1 DEF HooksCorrect
<1>11. \A i \in 1..Len(said) :
         /\ memory'[hook[i]] # NULL
         /\ memory'[hook[i]].family = memory[hook[i]].family
         /\ memory'[hook[i]].address = memory[hook[i]].address
         /\ (memory'[hook[i]].port <=> memory[hook[i]].port)
         /\ (memory'[hook[i]].tls <=> memory[hook[i]].tls)
         /\ memory'[hook[i]].fd = memory[hook[i]].fd
  BY <1>2, <1>3, <1>10
<1> QED BY <1>1, <1>4, <1>7, <1>9, <1>11, RunningKeeps

(* The pointers that are watched are all that is bound.                    *)
LEMMA ActivateListenSocketsKeeps ==
  ASSUME InterfacesCorrect, ActivateListenSockets
  PROVE  InterfacesCorrect'
<1>0. /\ TypesCorrect /\ HooksCorrect /\ KernelCorrect
  BY DEF InterfacesCorrect
<1>1. /\ phase = "listening" /\ phase' = "running" /\ memory' = memory
      /\ UNCHANGED <<reading, hook, listenSockets, contexts>>
  BY DEF ActivateListenSockets, Keep
<1>2. \A i \in 1..Len(said) : kernel[i] \in Descriptor
  BY <1>0, ElementOfSeq DEF TypesCorrect
<1> DEFINE f == [i \in DOMAIN kernel |->
                   [kernel[i] EXCEPT !.watched =
                      @ \/ \E x \in Pointed : memory[x].fd = i]]
<1>3. ASSUME NEW i \in 1..Len(said)
      PROVE  /\ f[i] \in Descriptor /\ f[i].bound = kernel[i].bound
             /\ f[i].backlog = kernel[i].backlog
             /\ (f[i].watched <=> kernel[i].bound = 1)
  <2> DEFINE b == (kernel[i].watched \/ \E x \in Pointed : memory[x].fd = i)
  <2>1. i \in DOMAIN kernel
    BY <1>0, LenProperties DEF TypesCorrect
  <2>2. f[i] = [kernel[i] EXCEPT !.watched = b]
    BY <2>1
  <2>3. b \in BOOLEAN
    OBVIOUS
  <2>4. b <=> kernel[i].bound = 1
    <3>1. ~kernel[i].watched
      BY <1>0, <1>1 DEF KernelCorrect, BoundCorrect
    <3>2. (\E x \in Pointed : memory[x].fd = i) <=> kernel[i].bound = 1
      BY <1>1, PointedBound
    <3> QED BY <3>1, <3>2
  <2> HIDE DEF b, f
  <2> QED BY <1>2, <2>2, <2>3, <2>4 DEF Descriptor
<1>4. kernel' = [i \in DOMAIN kernel |-> f[i]]
  BY DEF ActivateListenSockets
<1> HIDE DEF f
<1>5. /\ kernel' \in Seq(Descriptor) /\ Len(kernel') = Len(kernel)
      /\ \A i \in 1..Len(said) : kernel'[i] = f[i]
  BY <1>0, <1>3, <1>4, KernelMapped
<1>6. \A i \in 1..Len(said) : kernel[i].bound = 1 => kernel[i].backlog = said[i].backlog
  BY <1>0, <1>1 DEF KernelCorrect, BoundCorrect
<1>7. \A i \in 1..Len(said) : memory[hook[i]] # NULL
  BY <1>0, <1>1 DEF HooksCorrect
<1>8. memory' \in [Cell -> Socket \union {NULL}]
  BY <1>0, <1>1 DEF TypesCorrect
<1> QED BY <1>1, <1>3, <1>5, <1>6, <1>7, <1>8, RunningKeeps

(* A client changes nothing of the interfaces.                             *)
LEMMA AcceptConnectionKeeps ==
  ASSUME InterfacesCorrect, NEW i, NEW name, AcceptConnection(i, name)
  PROVE  InterfacesCorrect'
<1>0. /\ TypesCorrect /\ HooksCorrect /\ KernelCorrect
  BY DEF InterfacesCorrect
<1>1. /\ phase = "running" /\ phase' = "running" /\ memory' = memory /\ kernel' = kernel
      /\ UNCHANGED <<reading, hook, listenSockets, contexts>>
  BY DEF AcceptConnection, Keep
<1>2. \A j \in 1..Len(said) :
        /\ (kernel[j].watched <=> kernel[j].bound = 1)
        /\ (kernel[j].bound = 1 => kernel[j].backlog = said[j].backlog)
        /\ memory[hook[j]] # NULL
  BY <1>0, <1>1 DEF KernelCorrect, BoundCorrect, HooksCorrect
<1>3. memory' \in [Cell -> Socket \union {NULL}] /\ kernel' \in Seq(Descriptor)
  BY <1>0, <1>1 DEF TypesCorrect
<1> QED BY <1>1, <1>2, <1>3, RunningKeeps

(* Nothing is bound after unloading.                                       *)
LEMMA UnloadKeeps ==
  ASSUME InterfacesCorrect, Unload
  PROVE  InterfacesCorrect'
<1>0. /\ TypesCorrect /\ PlaceCorrect /\ HooksCorrect
  BY DEF InterfacesCorrect
<1>1. /\ phase' = "unloaded" /\ listenSockets' = <<>>
      /\ elements' = elements /\ place' = place /\ said' = said /\ hook' = hook
      /\ contexts' = contexts
  BY DEF Unload, reading
<1> DEFINE f == [i \in DOMAIN kernel |-> [bound |-> 0, backlog |-> 0, watched |-> FALSE]]
<1>2. \A i \in 1..Len(said) : f[i] \in Descriptor /\ f[i].bound = 0 /\ ~f[i].watched
  <2> TAKE i \in 1..Len(said)
  <2>1. i \in DOMAIN kernel
    BY <1>0, LenProperties DEF TypesCorrect
  <2> QED BY <2>1 DEF Descriptor
<1>3. kernel' = [i \in DOMAIN kernel |-> f[i]]
  BY DEF Unload
<1> HIDE DEF f
<1>4. /\ kernel' \in Seq(Descriptor) /\ Len(kernel') = Len(kernel)
      /\ \A i \in 1..Len(said) : kernel'[i] = f[i]
  BY <1>0, <1>2, <1>3, KernelMapped
<1>5. TypesCorrect'
  <2>1. memory' \in [Cell -> Socket \union {NULL}]
    BY <1>0 DEF Unload, TypesCorrect
  <2>2. listenSockets' \in Seq(Cell)
    BY <1>1, EmptySeq
  <2> QED BY <1>0, <1>1, <1>4, <2>1, <2>2 DEF TypesCorrect
<1>6. PlaceCorrect'
  BY <1>0, <1>1 DEF PlaceCorrect, This
<1>7. HooksCorrect' /\ SocketsCorrect'
  BY <1>0, <1>1 DEF HooksCorrect, SocketsCorrect
<1>8. KernelCorrect'
  BY <1>1, <1>2, <1>4 DEF KernelCorrect, BoundCorrect
<1>9. PointersCorrect'
  <2>1. Len(listenSockets') = 0
    BY <1>1, EmptySeq
  <2>2. \A i \in 1..Len(said') : kernel'[i].bound # 1
    BY <1>1, <1>2, <1>4
  <2>3. \A k \in 1..Len(listenSockets') : FALSE
    BY <2>1
  <2>4. /\ \A k \in 1..Len(listenSockets') : \E i \in 1..Len(said') :
             kernel'[i].bound = 1 /\ listenSockets'[k] = hook'[i]
        /\ \A k, l \in 1..Len(listenSockets') :
             listenSockets'[k] = listenSockets'[l] => k = l
    BY <2>3
  <2>5. \A i \in 1..Len(said') : kernel'[i].bound = 1 =>
          \E k \in 1..Len(listenSockets') : listenSockets'[k] = hook'[i]
    BY <2>2
  <2> QED BY <2>4, <2>5 DEF PointersCorrect
<1> QED BY <1>5, <1>6, <1>7, <1>8, <1>9 DEF InterfacesCorrect

-----------------------------------------------------------------------------
(* What steps keep of the contexts of the layer.                           *)

(* The socket of an interface that has the group holds contexts that exist. *)
LEMMA TableTyped ==
  ASSUME TypesCorrect, HooksCorrect, SocketsCorrect, CellsCorrect, phase # "unloaded",
         NEW i \in 1..Len(said), said[i].group
  PROVE  /\ hook[i] \in Cell /\ memory[hook[i]] \in Socket
         /\ memory[hook[i]].default \in 0..Len(contexts)
         /\ \A d \in Domain : memory[hook[i]].domains[d] \in 0..Len(contexts)
<1>1. hook[i] \in Cell
  BY ElementOfSeq DEF TypesCorrect
<1>2. memory[hook[i]] # NULL /\ memory[hook[i]].tls
  BY DEF HooksCorrect, SocketsCorrect, SocketCorrect
<1>3. memory[hook[i]] \in Socket
  BY <1>1, <1>2 DEF TypesCorrect
<1> QED BY <1>1, <1>2, <1>3 DEF CellsCorrect

(* The step leaves the contexts of interface i as they are.                *)
KeepsContexts(i) ==
  \A c \in 1..Len(contexts), k \in Nat : contexts[c].of = <<i, k>> =>
    /\ contexts'[c].of = contexts[c].of
    /\ contexts'[c].protocol = contexts[c].protocol
    /\ contexts'[c].names = contexts[c].names

(* A table stays right while the socket and the contexts of its interface  *)
(* stay as they are.                                                       *)
LEMMA TableSame ==
  ASSUME NEW i \in 1..Len(said), TableCorrect(i),
         memory[hook[i]].default \in 0..Len(contexts),
         \A d \in Domain : memory[hook[i]].domains[d] \in 0..Len(contexts),
         hook'[i] = hook[i],
         said'[i].contexts = said[i].contexts, said'[i].protocol = said[i].protocol,
         memory'[hook[i]].default = memory[hook[i]].default,
         memory'[hook[i]].domains = memory[hook[i]].domains,
         KeepsContexts(i),
         Len(contexts) \in Nat, Len(said[i].contexts) \in Nat
  PROVE  TableCorrect(i)'
<1> DEFINE default == memory[hook[i]].default
           domains == memory[hook[i]].domains
           own == said[i].contexts
<1>1. /\ default \in 0..Len(contexts)
      /\ \A d \in Domain : domains[d] \in 0..Len(contexts)
      /\ memory'[hook'[i]].default = default
      /\ memory'[hook'[i]].domains = domains
      /\ said'[i].contexts = own /\ Len(own) \in Nat
  OBVIOUS
<1>2. DefaultCorrect(i)'
  <2>1. /\ (default = 0 <=> own = <<>>)
        /\ default # 0 =>
             /\ contexts[default].of = <<i, 1>>
             /\ contexts[default].protocol = said[i].protocol
             /\ contexts[default].names = IF Len(own) > 1 THEN hook[i] ELSE NULL
    BY DEF TableCorrect, DefaultCorrect
  <2> HIDE DEF default, own
  <2>2. ASSUME default # 0
        PROVE  /\ contexts'[default].of = <<i, 1>>
               /\ contexts'[default].protocol = said'[i].protocol
               /\ contexts'[default].names = IF Len(own) > 1 THEN hook'[i] ELSE NULL
    <3>1. default \in 1..Len(contexts)
      BY <1>1, <2>2
    <3> QED BY <2>1, <2>2, <3>1 DEF KeepsContexts
  <2> QED BY <1>1, <2>1, <2>2 DEF DefaultCorrect
<1>3. DomainsCorrect(i)'
  <2> SUFFICES ASSUME NEW d \in Domain, memory'[hook'[i]].domains[d] # 0
               PROVE  /\ contexts'[memory'[hook'[i]].domains[d]].protocol
                           = said'[i].protocol
                      /\ \E k \in 1..Len(said'[i].contexts) :
                           /\ contexts'[memory'[hook'[i]].domains[d]].of = <<i, k>>
                           /\ said'[i].contexts[k] = d
    BY DEF DomainsCorrect
  <2>0. domains[d] # 0
    BY <1>1
  <2>1. /\ contexts[domains[d]].protocol = said[i].protocol
        /\ \E k \in 1..Len(own) : contexts[domains[d]].of = <<i, k>> /\ own[k] = d
    BY <2>0 DEF TableCorrect, DomainsCorrect
  <2> HIDE DEF domains, own
  <2>2. PICK k \in 1..Len(own) : contexts[domains[d]].of = <<i, k>> /\ own[k] = d
    BY <2>1
  <2>3. domains[d] \in 1..Len(contexts) /\ k \in Nat
    BY <1>1, <2>0
  <2>4. contexts'[domains[d]].protocol = said'[i].protocol
        /\ contexts'[domains[d]].of = <<i, k>>
    BY <2>1, <2>2, <2>3 DEF KeepsContexts
  <2> QED BY <1>1, <2>2, <2>4
<1>4. NamesCorrect(i)'
  BY <1>1 DEF TableCorrect, NamesCorrect
<1> QED BY <1>2, <1>3, <1>4 DEF TableCorrect

(* What is right of an interface stays right while it stays as it is.      *)
LEMMA InterfaceSame ==
  ASSUME InterfacesCorrect, ServersCorrect, phase # "unloaded",
         NEW i \in 1..Len(said), said'[i] = said[i], hook'[i] = hook[i],
         memory'[hook[i]] = memory[hook[i]], KeepsContexts(i)
  PROVE  IF said'[i].group THEN TableCorrect(i)' ELSE Groupless(i)'
<1>0. TypesCorrect /\ HooksCorrect /\ SocketsCorrect /\ CellsCorrect /\ TablesCorrect
  BY DEF InterfacesCorrect, ServersCorrect
<1>1. CASE said[i].group
  <2>1. TableCorrect(i)
    BY <1>0, <1>1 DEF TablesCorrect
  <2>2. /\ memory[hook[i]].default \in 0..Len(contexts)
        /\ \A d \in Domain : memory[hook[i]].domains[d] \in 0..Len(contexts)
    BY <1>0, <1>1, TableTyped
  <2>3. Len(contexts) \in Nat /\ Len(said[i].contexts) \in Nat
    <3>1. said[i] \in Said
      BY <1>0, ElementOfSeq DEF TypesCorrect
    <3>2. said[i].contexts \in Seq(Domain \union {NULL})
      BY <3>1 DEF Said
    <3> QED BY <1>0, <3>2, LenProperties DEF TypesCorrect
  <2>4. /\ said'[i].contexts = said[i].contexts /\ said'[i].protocol = said[i].protocol
        /\ memory'[hook[i]].default = memory[hook[i]].default
        /\ memory'[hook[i]].domains = memory[hook[i]].domains
    OBVIOUS
  <2>5. TableCorrect(i)'
    BY <2>1, <2>2, <2>3, <2>4, TableSame
  <2> QED BY <1>1, <2>5
<1>2. CASE ~said[i].group
  <2>1. Groupless(i)
    BY <1>0, <1>2 DEF TablesCorrect
  <2> QED BY <1>2, <2>1 DEF Groupless
<1> QED BY <1>1, <1>2

(* A step that renews keeps the tables, when it is right about the one of  *)
(* the interface that is read.                                             *)
LEMMA RenewsTables ==
  ASSUME InterfacesCorrect, ServersCorrect, phase = "load",
         NEW r \in Said, NEW s \in Socket, Renews(r, s),
         \A i \in 1..Len(said) : i # This => KeepsContexts(i),
         \A i \in 1..Len(said) : i = This =>
           IF r.group THEN TableCorrect(i)' ELSE Groupless(i)'
  PROVE  TablesCorrect'
<1>0. /\ TypesCorrect /\ HooksCorrect /\ SocketsCorrect /\ CellsCorrect /\ TablesCorrect
  BY DEF InterfacesCorrect, ServersCorrect
<1>1. /\ Len(said') = Len(said) /\ said'[This] = r
      /\ \A i \in 1..Len(said) : i # This => said'[i] = said[i]
      /\ \A x \in Cell : x # ThisCell => memory'[x] = memory[x]
  BY <1>0, RenewsFacts
<1>2. said # <<>> /\ hook' = hook
  BY DEF Renews
<1>3. ASSUME NEW i \in 1..Len(said), i # This
      PROVE  IF said'[i].group THEN TableCorrect(i)' ELSE Groupless(i)'
  <2>1. hook[i] \in Cell /\ hook[i] # ThisCell
    BY <1>0, <1>2, <1>3, OtherCells
  <2>2. said'[i] = said[i] /\ memory'[hook[i]] = memory[hook[i]] /\ hook'[i] = hook[i]
    BY <1>1, <1>2, <1>3, <2>1
  <2>3. KeepsContexts(i)
    BY <1>3
  <2> QED BY <2>2, <2>3, InterfaceSame
<1>4. ASSUME NEW i \in 1..Len(said), i = This
      PROVE  IF said'[i].group THEN TableCorrect(i)' ELSE Groupless(i)'
  <2>1. said'[i] = r
    BY <1>1, <1>4
  <2>2. IF r.group THEN TableCorrect(i)' ELSE Groupless(i)'
    BY <1>4
  <2> QED BY <2>1, <2>2
<1> QED BY <1>1, <1>3, <1>4 DEF TablesCorrect

(* Tables hold contexts that exist, when the new one does.                 *)
LEMMA RenewsCells ==
  ASSUME TypesCorrect, CellsCorrect,
         NEW r \in Said, NEW s \in Socket, Renews(r, s),
         Len(contexts) \in Nat, Len(contexts') \in Nat, Len(contexts') >= Len(contexts),
         s.default \in 0..Len(contexts') \/ ~s.tls,
         \A d \in Domain : s.domains[d] \in 0..Len(contexts') \/ ~s.tls
  PROVE  CellsCorrect'
<1>1. /\ memory'[ThisCell] = s
      /\ \A x \in Cell : x # ThisCell => memory'[x] = memory[x]
  BY RenewsFacts
<1>2. ASSUME NEW x \in Cell, memory'[x] # NULL, memory'[x].tls
      PROVE  /\ memory'[x].default \in 0..Len(contexts')
             /\ \A d \in Domain : memory'[x].domains[d] \in 0..Len(contexts')
  <2>1. CASE x = ThisCell
    BY <1>1, <1>2, <2>1
  <2>2. CASE x # ThisCell
    <3>1. /\ memory[x].default \in 0..Len(contexts)
          /\ \A d \in Domain : memory[x].domains[d] \in 0..Len(contexts)
      BY <1>1, <1>2, <2>2 DEF CellsCorrect
    <3> QED BY <1>1, <2>2, <3>1
  <2> QED BY <2>1, <2>2
<1> QED BY <1>2 DEF CellsCorrect

(* Contexts are of the same interfaces while as many are said.             *)
LEMMA SameOrigins ==
  ASSUME OriginsCorrect, contexts' = contexts, Len(said') = Len(said),
         \A i \in 1..Len(said) : said'[i].contexts = said[i].contexts
  PROVE  OriginsCorrect'
<1>1. ASSUME NEW c \in 1..Len(contexts')
      PROVE  \E i \in 1..Len(said') : \E k \in 1..Len(said'[i].contexts) :
               contexts'[c].of = <<i, k>>
  <2>1. PICK i \in 1..Len(said) : \E k \in 1..Len(said[i].contexts) :
          contexts[c].of = <<i, k>>
    BY DEF OriginsCorrect
  <2> QED BY <2>1
<1>2. \A b, c \in 1..Len(contexts') : contexts'[b].of = contexts'[c].of => b = c
  BY DEF OriginsCorrect
<1> QED BY <1>1, <1>2 DEF OriginsCorrect

(* An element of the interface leaves the contexts alone.                  *)
LEMMA ElementServers ==
  ASSUME InterfacesCorrect, ServersCorrect, MayReadHere, InterfaceRead,
         NEW r \in Said, NEW s \in Socket, Renews(r, s), contexts' = contexts,
         (r.group <=> said[This].group), r.contexts = said[This].contexts,
         r.protocol = said[This].protocol, (s.tls <=> Sock.tls),
         s.default = Sock.default, s.domains = Sock.domains
  PROVE  ServersCorrect'
<1>0. /\ TypesCorrect /\ HooksCorrect /\ SocketsCorrect
      /\ CellsCorrect /\ OriginsCorrect /\ TablesCorrect
  BY DEF InterfacesCorrect, ServersCorrect
<1>1. phase = "load" /\ said # <<>> /\ elements < MaxElements /\ hook' = hook
  BY DEF MayReadHere, MayRead, Renews
<1>2. /\ Len(said') = Len(said) /\ said'[This] = r /\ memory'[ThisCell] = s
      /\ \A i \in 1..Len(said) : i # This => said'[i] = said[i]
  BY <1>0, RenewsFacts
<1>3. This \in 1..Len(said) /\ ThisCell \in Cell /\ said[This] \in Said
  BY <1>0, <1>1, ThisExists
<1>4. Sock = memory[ThisCell] /\ Sock = memory[hook[This]] /\ Sock # NULL
  BY <1>0, <1>1, <1>3 DEF HooksCorrect, Sock, ThisCell
<1>5. Len(contexts) \in Nat /\ Len(said[This].contexts) \in Nat
  <2>1. said[This].contexts \in Seq(Domain \union {NULL})
    BY <1>3 DEF Said
  <2> QED BY <1>0, <2>1, LenProperties DEF TypesCorrect
<1>6. CellsCorrect'
  <2>1. \/ ~s.tls
        \/ /\ s.default \in 0..Len(contexts)
           /\ \A d \in Domain : s.domains[d] \in 0..Len(contexts)
    BY <1>0, <1>3, <1>4 DEF CellsCorrect
  <2>2. (s.default \in 0..Len(contexts) \/ ~s.tls)
        /\ \A d \in Domain : s.domains[d] \in 0..Len(contexts) \/ ~s.tls
    BY <2>1
  <2> QED BY <1>0, <1>5, <2>2, RenewsCells
<1>7. OriginsCorrect'
  <2>1. \A i \in 1..Len(said) : said'[i].contexts = said[i].contexts
    BY <1>2
  <2> QED BY <1>0, <1>2, <2>1, SameOrigins
<1>8. TablesCorrect'
  <2>1. ASSUME NEW i \in 1..Len(said), i = This
        PROVE  IF r.group THEN TableCorrect(i)' ELSE Groupless(i)'
    <3>1. said'[i].contexts = said[i].contexts /\ said'[i].protocol = said[i].protocol
      BY <1>2, <2>1
    <3>2. CASE r.group
      <4>1. TableCorrect(i)
        BY <1>0, <1>1, <2>1, <3>2 DEF TablesCorrect
      <4>2. /\ memory[hook[i]].default \in 0..Len(contexts)
            /\ \A d \in Domain : memory[hook[i]].domains[d] \in 0..Len(contexts)
        BY <1>0, <1>1, <2>1, <3>2, TableTyped
      <4>3. /\ memory'[hook[i]].default = memory[hook[i]].default
            /\ memory'[hook[i]].domains = memory[hook[i]].domains
        BY <1>2, <1>4, <2>1 DEF ThisCell
      <4>4. Len(said[i].contexts) \in Nat /\ KeepsContexts(i)
        BY <1>5, <2>1 DEF KeepsContexts
      <4>5. TableCorrect(i)'
        BY <1>1, <1>5, <3>1, <4>1, <4>2, <4>3, <4>4, TableSame
      <4> QED BY <3>2, <4>5
    <3>3. CASE ~r.group
      BY <1>0, <1>1, <2>1, <3>1, <3>3 DEF TablesCorrect, Groupless
    <3> QED BY <3>2, <3>3
  <2>2. \A i \in 1..Len(said) : KeepsContexts(i)
    BY DEF KeepsContexts
  <2> QED BY <1>1, <2>1, <2>2, RenewsTables
<1>9. LatestCorrect'
  <2>1. place' # "contexts"
    BY DEF InterfaceRead, OfInterface, Read
  <2> QED BY <2>1 DEF LatestCorrect
<1> QED BY <1>6, <1>7, <1>8, <1>9 DEF ServersCorrect

(* The elements of addresses keep the tables of the contexts.              *)
LEMMA NetworkServers ==
  ASSUME InterfacesCorrect, ServersCorrect, NEW f \in Families, Network(f)
  PROVE  ServersCorrect'
<1>1. MayReadHere /\ InterfaceRead /\ contexts' = contexts
  BY DEF Network
<1> QED BY <1>1, NetworkRenews, ElementServers DEF InterfacesCorrect

(* The same for an address.                                                *)
LEMMA TheAddressServers ==
  ASSUME InterfacesCorrect, ServersCorrect, NEW a \in {"any", "given"}, TheAddress(a)
  PROVE  ServersCorrect'
<1>1. MayReadHere /\ InterfaceRead /\ contexts' = contexts
  BY DEF TheAddress
<1> QED BY <1>1, TheAddressRenews, ElementServers DEF InterfacesCorrect

(* The same for a port.                                                    *)
LEMMA PortServers ==
  ASSUME InterfacesCorrect, ServersCorrect, Port
  PROVE  ServersCorrect'
<1>1. MayReadHere /\ InterfaceRead /\ contexts' = contexts
  BY DEF Port
<1> QED BY <1>1, PortRenews, ElementServers DEF InterfacesCorrect

(* The same for a backlog.                                                 *)
LEMMA BacklogServers ==
  ASSUME InterfacesCorrect, ServersCorrect, NEW n \in Nat, Backlog(n)
  PROVE  ServersCorrect'
<1>1. MayReadHere /\ InterfaceRead /\ contexts' = contexts
  BY DEF Backlog
<1> QED BY <1>1, BacklogRenews, ElementServers DEF InterfacesCorrect

(* The same for the name of the layer.                                     *)
LEMMA LayerServers ==
  ASSUME InterfacesCorrect, ServersCorrect, Layer
  PROVE  ServersCorrect'
<1>1. MayReadHere /\ InterfaceRead /\ contexts' = contexts
  BY DEF Layer
<1> QED BY <1>1, LayerRenews, ElementServers DEF InterfacesCorrect

(* A new interface has no contexts.                                        *)
LEMMA InterfaceServers ==
  ASSUME InterfacesCorrect, ServersCorrect, Interface
  PROVE  ServersCorrect'
<1>0. /\ TypesCorrect /\ HooksCorrect /\ SocketsCorrect
      /\ CellsCorrect /\ OriginsCorrect /\ TablesCorrect
  BY DEF InterfacesCorrect, ServersCorrect
<1>1. /\ phase = "load" /\ contexts' = contexts /\ place' = "interface"
  BY DEF Interface, MayRead, Read
<1>2. PICK x \in Cell : BeginsAt(x) /\ Blank(said'[Len(said) + 1], memory'[x])
  BY <1>0, InterfaceBegins
<1> DEFINE n == Len(said)
<1>3. n \in Nat /\ Len(said') = n + 1 /\ Len(contexts) \in Nat
  BY <1>0, <1>2, LenProperties DEF TypesCorrect, BeginsAt
<1>4. CellsCorrect'
  BY <1>0, <1>1, <1>2 DEF CellsCorrect, BeginsAt, Blank
<1>5. OriginsCorrect'
  <2>1. ASSUME NEW c \in 1..Len(contexts')
        PROVE  \E i \in 1..Len(said') : \E k \in 1..Len(said'[i].contexts) :
                 contexts'[c].of = <<i, k>>
    <3>1. PICK i \in 1..n : \E k \in 1..Len(said[i].contexts) : contexts[c].of = <<i, k>>
      BY <1>0, <1>1 DEF OriginsCorrect
    <3>2. said'[i] = said[i] /\ i \in 1..Len(said')
      BY <1>2, <1>3 DEF BeginsAt
    <3> QED BY <1>1, <3>1, <3>2
  <2>2. \A b, c \in 1..Len(contexts') : contexts'[b].of = contexts'[c].of => b = c
    BY <1>0, <1>1 DEF OriginsCorrect
  <2> QED BY <2>1, <2>2 DEF OriginsCorrect
<1>6. ASSUME NEW i \in 1..Len(said')
      PROVE  IF said'[i].group THEN TableCorrect(i)' ELSE Groupless(i)'
  <2>1. i \in 1..n \/ i = n + 1
    BY <1>3
  <2>2. CASE i = n + 1
    <3>1. ~said'[i].group /\ said'[i].contexts = <<>>
      BY <1>2, <2>2 DEF Blank
    <3> QED BY <3>1 DEF Groupless
  <2>3. CASE i \in 1..n
    <3>1. hook[i] \in Cell /\ hook[i] # x
      BY <1>0, <1>2, <2>3, ElementOfSeq DEF TypesCorrect, BeginsAt
    <3>2. said'[i] = said[i] /\ hook'[i] = hook[i] /\ memory'[hook[i]] = memory[hook[i]]
      BY <1>2, <2>3, <3>1 DEF BeginsAt
    <3>3. KeepsContexts(i)
      BY <1>1 DEF KeepsContexts
    <3> QED BY <1>1, <2>3, <3>2, <3>3, InterfaceSame
  <2> QED BY <2>1, <2>2, <2>3
<1>7. TablesCorrect'
  BY <1>6 DEF TablesCorrect
<1>8. LatestCorrect'
  BY <1>1 DEF LatestCorrect
<1> QED BY <1>4, <1>5, <1>7, <1>8 DEF ServersCorrect

(* The socket that the layer reallocates has no contexts yet.              *)
LEMMA ServerConfigurationServers ==
  ASSUME InterfacesCorrect, ServersCorrect, ServerConfiguration
  PROVE  ServersCorrect' /\ Groupless(This)
<1>0. /\ TypesCorrect /\ PlaceCorrect /\ HooksCorrect /\ SocketsCorrect
      /\ CellsCorrect /\ OriginsCorrect /\ TablesCorrect
  BY DEF InterfacesCorrect, ServersCorrect
<1>1. /\ phase = "load" /\ contexts' = contexts /\ place' = "group"
      /\ said # <<>> /\ place = "interface"
  BY DEF ServerConfiguration, MayRead, Read
<1>2. PICK x \in Cell : Moves(x) /\ Extended(said'[This], memory'[x])
  BY <1>0, ServerConfigurationMoves
<1>3. /\ This \in 1..Len(said) /\ ThisCell \in Cell /\ Len(said') = Len(said)
      /\ Len(contexts) \in Nat
  BY <1>0, <1>1, <1>2, ThisExists, LenProperties DEF Moves, TypesCorrect
<1>4. Groupless(This)
  <2>1. ~said[This].group
    BY <1>0, <1>1 DEF PlaceCorrect
  <2> QED BY <1>0, <1>1, <1>3, <2>1 DEF TablesCorrect
<1>5. ASSUME NEW y \in Cell, memory'[y] # NULL, memory'[y].tls
      PROVE  /\ memory'[y].default \in 0..Len(contexts)
             /\ \A d \in Domain : memory'[y].domains[d] \in 0..Len(contexts)
  <2>1. CASE y = x
    BY <1>2, <1>3, <2>1 DEF Extended
  <2>2. CASE y # x
    <3>1. memory'[y] = memory[y]
      BY <1>2, <1>5, <2>2 DEF Moves
    <3> QED BY <1>0, <1>5, <3>1 DEF CellsCorrect
  <2> QED BY <2>1, <2>2
<1>6. CellsCorrect'
  BY <1>1, <1>5 DEF CellsCorrect
<1>7. \A i \in 1..Len(said) : said'[i].contexts = said[i].contexts
  <2> TAKE i \in 1..Len(said)
  <2>1. CASE i = This
    BY <1>2, <2>1 DEF Extended
  <2>2. CASE i # This
    BY <1>2, <2>2 DEF Moves
  <2> QED BY <2>1, <2>2
<1>8. OriginsCorrect'
  BY <1>0, <1>1, <1>3, <1>7, SameOrigins
<1>9. ASSUME NEW i \in 1..Len(said)
      PROVE  IF said'[i].group THEN TableCorrect(i)' ELSE Groupless(i)'
  <2>1. CASE i = This
    <3>1. /\ said'[i].contexts = <<>> /\ said'[i].group
          /\ memory'[hook'[i]].default = 0
          /\ \A d \in Domain : memory'[hook'[i]].domains[d] = 0
      BY <1>2, <1>4, <1>7, <2>1 DEF Groupless, Extended, Moves
    <3>2. 1..Len(said'[i].contexts) = {}
      BY <3>1, EmptySeq
    <3>3. DefaultCorrect(i)' /\ DomainsCorrect(i)'
      BY <3>1 DEF DefaultCorrect, DomainsCorrect
    <3>4. NamesCorrect(i)'
      BY <3>2 DEF NamesCorrect
    <3> QED BY <3>1, <3>3, <3>4 DEF TableCorrect
  <2>2. CASE i # This
    <3>1. hook[i] \in Cell /\ hook[i] # ThisCell
      BY <1>0, <1>1, <2>2, OtherCells
    <3>2. said'[i] = said[i] /\ hook'[i] = hook[i] /\ memory'[hook[i]] = memory[hook[i]]
      BY <1>2, <2>2, <3>1 DEF Moves
    <3>3. KeepsContexts(i)
      BY <1>1 DEF KeepsContexts
    <3> QED BY <1>1, <3>2, <3>3, InterfaceSame
  <2> QED BY <2>1, <2>2
<1>10. TablesCorrect'
  BY <1>3, <1>9 DEF TablesCorrect
<1>11. LatestCorrect'
  BY <1>1 DEF LatestCorrect
<1> QED BY <1>4, <1>6, <1>8, <1>10, <1>11 DEF ServersCorrect

(* Each context is of an interface and is none of another's.               *)
LEMMA OwnContexts ==
  ASSUME InterfacesCorrect, ServersCorrect, MayRead({"group", "contexts"})
  PROVE  /\ Sock.default # 0 => contexts[Sock.default].of = <<This, 1>>
         /\ \A d \in Domain : Sock.domains[d] # 0 =>
              /\ Sock.default # 0
              /\ \E k \in Nat : contexts[Sock.domains[d]].of = <<This, k>>
         /\ (Sock.default = 0 <=> said[This].contexts = <<>>)
         /\ Len(said[This].contexts) \in Nat
<1>0. /\ TypesCorrect /\ PlaceCorrect /\ HooksCorrect
  BY DEF InterfacesCorrect
<1>1. TableCorrect(This)
  BY SockServer
<1>2. Sock = memory[hook[This]]
  BY DEF Sock, ThisCell
<1>3. Len(said[This].contexts) \in Nat
  BY <1>0, InGroup, LenProperties
<1>4. /\ (Sock.default = 0 <=> said[This].contexts = <<>>)
      /\ Sock.default # 0 => contexts[Sock.default].of = <<This, 1>>
  BY <1>1, <1>2 DEF TableCorrect, DefaultCorrect
<1>5. ASSUME NEW d \in Domain, Sock.domains[d] # 0
      PROVE  /\ Sock.default # 0
             /\ \E k \in Nat : contexts[Sock.domains[d]].of = <<This, k>>
  <2>1. PICK k \in 1..Len(said[This].contexts) :
          contexts[Sock.domains[d]].of = <<This, k>>
    BY <1>1, <1>2, <1>5 DEF TableCorrect, DomainsCorrect
  <2>2. said[This].contexts # <<>>
    <3>1. Len(said[This].contexts) >= 1 /\ Len(<<>>) = 0
      BY <1>3, <2>1, EmptySeq
    <3> QED BY <3>1
  <2> QED BY <1>3, <1>4, <2>1, <2>2
<1> QED BY <1>3, <1>4, <1>5

(* A protocol reaches each context that the tables of its socket hold.     *)
LEMMA ApplicationProtocolServers ==
  ASSUME InterfacesCorrect, ServersCorrect, NEW p \in Protocol, ApplicationProtocol(p)
  PROVE  ServersCorrect'
<1>0. /\ TypesCorrect /\ PlaceCorrect /\ HooksCorrect /\ SocketsCorrect
      /\ CellsCorrect /\ OriginsCorrect /\ TablesCorrect
  BY DEF InterfacesCorrect, ServersCorrect
<1>1. MayRead({"group", "contexts"}) /\ place' # "contexts"
  BY DEF ApplicationProtocol, Read
<1>2. PICK r \in Said, s \in Socket :
        /\ Renews(r, s) /\ SameAddress(r, s)
        /\ r.protocol = p /\ r.contexts = said[This].contexts
        /\ s.default = Sock.default /\ s.domains = Sock.domains
  BY <1>0, ApplicationProtocolRenews
<1>3. /\ Len(contexts') = Len(contexts)
      /\ \A c \in 1..Len(contexts) :
           /\ contexts'[c].of = contexts[c].of
           /\ contexts'[c].names = contexts[c].names
           /\ contexts'[c].protocol = IF Sock.default # 0 /\ c \in Configured(Sock)
                                      THEN p ELSE contexts[c].protocol
  BY <1>0, ProtocolContexts
<1>4. /\ Sock.default \in 0..Len(contexts)
      /\ \A d \in Domain : Sock.domains[d] \in 0..Len(contexts)
      /\ TableCorrect(This) /\ said[This].group
  BY <1>1, SockServer
<1>5. /\ Sock.default # 0 => contexts[Sock.default].of = <<This, 1>>
      /\ \A d \in Domain : Sock.domains[d] # 0 =>
           /\ Sock.default # 0
           /\ \E k \in Nat : contexts[Sock.domains[d]].of = <<This, k>>
      /\ (Sock.default = 0 <=> said[This].contexts = <<>>)
  BY <1>1, OwnContexts
<1>6. /\ phase = "load" /\ said # <<>> /\ This \in 1..Len(said) /\ ThisCell \in Cell
      /\ Sock \in Socket /\ Len(contexts) \in Nat
  BY <1>0, <1>1, InGroup, LenProperties DEF TypesCorrect
<1>7. /\ Len(said') = Len(said) /\ said'[This] = r /\ memory'[ThisCell] = s
      /\ \A i \in 1..Len(said) : i # This => said'[i] = said[i]
      /\ hook' = hook
  BY <1>0, <1>2, RenewsFacts DEF Renews
<1>8. Configured(Sock) = {Sock.default} \union {Sock.domains[d] : d \in Domain}
  BY <1>6 DEF Configured, Range, Socket
<1>9. ASSUME NEW i \in 1..Len(said), i # This PROVE KeepsContexts(i)
  <2> SUFFICES ASSUME NEW c \in 1..Len(contexts), NEW k \in Nat,
                      contexts[c].of = <<i, k>>
               PROVE  c \notin Configured(Sock)
    BY <1>3 DEF KeepsContexts
  <2>1. c # Sock.default
    BY <1>5, <1>9
  <2>2. \A d \in Domain : c # Sock.domains[d]
    BY <1>5, <1>9
  <2> QED BY <1>8, <2>1, <2>2
<1>10. CellsCorrect'
  BY <1>0, <1>2, <1>3, <1>4, <1>6, RenewsCells
<1>11. OriginsCorrect'
  <2>1. \A i \in 1..Len(said) : said'[i].contexts = said[i].contexts
    BY <1>2, <1>7
  <2>2. ASSUME NEW c \in 1..Len(contexts')
        PROVE  \E i \in 1..Len(said') : \E k \in 1..Len(said'[i].contexts) :
                 contexts'[c].of = <<i, k>>
    <3>1. PICK i \in 1..Len(said) : \E k \in 1..Len(said[i].contexts) :
            contexts[c].of = <<i, k>>
      BY <1>0, <1>3 DEF OriginsCorrect
    <3> QED BY <1>3, <1>7, <2>1, <3>1
  <2>3. \A b, c \in 1..Len(contexts') : contexts'[b].of = contexts'[c].of => b = c
    BY <1>0, <1>3 DEF OriginsCorrect
  <2> QED BY <2>2, <2>3 DEF OriginsCorrect
<1>12. ASSUME NEW i \in 1..Len(said), i = This PROVE TableCorrect(i)'
  <2>1. /\ said'[i].contexts = said[i].contexts /\ said'[i].protocol = p
        /\ memory[hook[i]] = Sock /\ hook'[i] = hook[i]
        /\ memory'[hook'[i]].default = Sock.default
        /\ memory'[hook'[i]].domains = Sock.domains
    BY <1>2, <1>7, <1>12 DEF ThisCell, Sock
  <2>2. DefaultCorrect(i)'
    <3>1. /\ (Sock.default = 0 <=> said[i].contexts = <<>>)
          /\ Sock.default # 0 =>
               /\ contexts[Sock.default].of = <<i, 1>>
               /\ contexts[Sock.default].names =
                    IF Len(said[i].contexts) > 1 THEN hook[i] ELSE NULL
      BY <1>4, <1>12, <2>1 DEF TableCorrect, DefaultCorrect
    <3>2. Sock.default # 0 =>
            /\ contexts'[Sock.default].of = contexts[Sock.default].of
            /\ contexts'[Sock.default].names = contexts[Sock.default].names
            /\ contexts'[Sock.default].protocol = p
      <4> SUFFICES ASSUME Sock.default # 0
                   PROVE  /\ contexts'[Sock.default].of = contexts[Sock.default].of
                          /\ contexts'[Sock.default].names = contexts[Sock.default].names
                          /\ contexts'[Sock.default].protocol = p
        OBVIOUS
      <4>1. Sock.default \in 1..Len(contexts)
        BY <1>4, <1>6
      <4>2. Sock.default \in Configured(Sock)
        BY <1>8
      <4> QED BY <1>3, <4>1, <4>2
    <3> QED BY <2>1, <3>1, <3>2 DEF DefaultCorrect
  <2>3. DomainsCorrect(i)'
    <3> SUFFICES ASSUME NEW d \in Domain, Sock.domains[d] # 0
                 PROVE  /\ contexts'[Sock.domains[d]].protocol = p
                        /\ \E k \in 1..Len(said[i].contexts) :
                             /\ contexts'[Sock.domains[d]].of = <<i, k>>
                             /\ said[i].contexts[k] = d
      BY <2>1 DEF DomainsCorrect
    <3>1. Sock.domains[d] \in 1..Len(contexts)
      BY <1>4, <1>6
    <3>2. Sock.domains[d] \in Configured(Sock) /\ Sock.default # 0
      BY <1>5, <1>8
    <3>3. PICK k \in 1..Len(said[i].contexts) :
            contexts[Sock.domains[d]].of = <<i, k>> /\ said[i].contexts[k] = d
      BY <1>4, <1>12, <2>1 DEF TableCorrect, DomainsCorrect
    <3> QED BY <1>3, <3>1, <3>2, <3>3
  <2>4. NamesCorrect(i)'
    BY <1>4, <1>12, <2>1 DEF TableCorrect, NamesCorrect
  <2> QED BY <2>2, <2>3, <2>4 DEF TableCorrect
<1>13. TablesCorrect'
  <2>1. r.group
    BY <1>2, <1>4 DEF SameAddress
  <2> QED BY <1>2, <1>6, <1>9, <1>12, <2>1, RenewsTables
<1>14. LatestCorrect'
  BY <1>1 DEF LatestCorrect
<1> QED BY <1>10, <1>11, <1>13, <1>14 DEF ServersCorrect

(* A new context is the latest of its interface, and has no domain yet.    *)
LEMMA ServerContextServers ==
  ASSUME InterfacesCorrect, ServersCorrect, ServerContext
  PROVE  ServersCorrect'
<1>0. /\ TypesCorrect /\ PlaceCorrect /\ HooksCorrect /\ SocketsCorrect
      /\ CellsCorrect /\ OriginsCorrect /\ TablesCorrect
  BY DEF InterfacesCorrect, ServersCorrect
<1>1. MayRead({"group", "contexts"}) /\ place' = "contexts"
  BY DEF ServerContext, Read
<1> DEFINE own == said[This].contexts
           n == Len(contexts)
<1>2. PICK r \in Said, s \in Socket :
        /\ Renews(r, s) /\ SameAddress(r, s)
        /\ r.protocol = said[This].protocol /\ r.contexts = Append(own, NULL)
        /\ s.default = IF Sock.default = 0 THEN n + 1 ELSE Sock.default
        /\ s.domains = Sock.domains
  BY <1>0, ServerContextRenews
<1>3. /\ Sock.default \in 0..n /\ \A d \in Domain : Sock.domains[d] \in 0..n
      /\ TableCorrect(This) /\ said[This].group
  BY <1>1, SockServer
<1>4. /\ Len(contexts') = n + 1
      /\ \A c \in 1..n :
           /\ contexts'[c].of = contexts[c].of
           /\ contexts'[c].protocol = contexts[c].protocol
           /\ contexts'[c].names =
                IF c = Sock.default THEN ThisCell ELSE contexts[c].names
      /\ contexts'[n + 1].of = <<This, Len(own) + 1>>
      /\ contexts'[n + 1].protocol = said[This].protocol
      /\ contexts'[n + 1].names = NULL
  BY <1>0, <1>3, ServerContextContexts
<1>5. /\ Sock.default # 0 => contexts[Sock.default].of = <<This, 1>>
      /\ \A d \in Domain : Sock.domains[d] # 0 => Sock.default # 0
      /\ (Sock.default = 0 <=> own = <<>>)
      /\ Len(own) \in Nat
  BY <1>1, OwnContexts
<1>6. /\ phase = "load" /\ said # <<>> /\ This \in 1..Len(said) /\ ThisCell \in Cell
      /\ Sock \in Socket /\ n \in Nat /\ own \in Seq(Domain \union {NULL})
  BY <1>0, <1>1, InGroup, LenProperties DEF TypesCorrect
<1>7. /\ Len(said') = Len(said) /\ said'[This] = r /\ memory'[ThisCell] = s
      /\ \A i \in 1..Len(said) : i # This => said'[i] = said[i]
      /\ hook' = hook /\ This' = This
  BY <1>0, <1>2, RenewsFacts DEF Renews
<1>8. /\ Len(r.contexts) = Len(own) + 1
      /\ \A k \in 1..Len(own) : r.contexts[k] = own[k]
      /\ r.contexts[Len(own) + 1] = NULL
      /\ r.contexts # <<>>
  <2> HIDE DEF own, n
  <2> DEFINE longer == Append(own, NULL)
  <2>1. /\ Len(longer) = Len(own) + 1
        /\ \A k \in 1..Len(own) : longer[k] = own[k]
        /\ longer[Len(own) + 1] = NULL
        /\ longer # <<>>
    BY <1>6, AppendProperties
  <2> HIDE DEF longer
  <2>2. r.contexts = longer
    BY <1>2 DEF longer
  <2> QED BY <2>1, <2>2
<1> HIDE DEF own, n
<1>9. ASSUME NEW i \in 1..Len(said), i # This PROVE KeepsContexts(i)
  <2> SUFFICES ASSUME NEW c \in 1..n, NEW k \in Nat, contexts[c].of = <<i, k>>
               PROVE  c # Sock.default
    BY <1>4 DEF KeepsContexts, n
  <2>1. c = Sock.default => contexts[c].of = <<This, 1>>
    BY <1>5, <1>6
  <2> QED BY <1>9, <2>1
<1>10. CellsCorrect'
  <2>1. s.default \in 0..n + 1
    BY <1>2, <1>3, <1>6
  <2>2. \A d \in Domain : s.domains[d] \in 0..n + 1
    BY <1>2, <1>3, <1>6
  <2> QED BY <1>0, <1>2, <1>4, <1>6, <2>1, <2>2, RenewsCells DEF n
<1>11. OriginsCorrect'
  <2>1. ASSUME NEW c \in 1..n
        PROVE  \E i \in 1..Len(said) : \E k \in 1..Len(said[i].contexts) :
                 contexts[c].of = <<i, k>>
    BY <1>0 DEF OriginsCorrect, n
  <2>2. ASSUME NEW c \in 1..n PROVE contexts[c].of # <<This, Len(own) + 1>>
    <3>1. PICK i \in 1..Len(said) : \E k \in 1..Len(said[i].contexts) :
            contexts[c].of = <<i, k>>
      BY <2>1
    <3>2. PICK k \in 1..Len(said[i].contexts) : contexts[c].of = <<i, k>>
      BY <3>1
    <3>3. i = This => k # Len(own) + 1
      BY <1>5, <3>2 DEF own
    <3> QED BY <3>2, <3>3
  <2>3. \A c \in 1..n + 1 : c \in 1..n \/ c = n + 1
    BY <1>6
  <2>4. ASSUME NEW c \in 1..Len(contexts')
        PROVE  \E i \in 1..Len(said') : \E k \in 1..Len(said'[i].contexts) :
                 contexts'[c].of = <<i, k>>
    <3>1. CASE c = n + 1
      <4>1. Len(own) + 1 \in 1..Len(said'[This].contexts)
        BY <1>5, <1>7, <1>8
      <4> QED BY <1>4, <1>6, <1>7, <3>1, <4>1
    <3>2. CASE c \in 1..n
      <4>1. PICK i \in 1..Len(said) : \E k \in 1..Len(said[i].contexts) :
              contexts[c].of = <<i, k>>
        BY <2>1, <3>2
      <4>2. PICK k \in 1..Len(said[i].contexts) : contexts[c].of = <<i, k>>
        BY <4>1
      <4>3. k \in 1..Len(said'[i].contexts)
        <5>1. CASE i = This
          BY <1>5, <1>7, <1>8, <5>1 DEF own
        <5>2. CASE i # This
          BY <1>7, <5>2
        <5> QED BY <5>1, <5>2
      <4> QED BY <1>4, <1>7, <3>2, <4>2, <4>3
    <3> QED BY <1>4, <2>3, <3>1, <3>2
  <2>5. ASSUME NEW b \in 1..n + 1, NEW c \in 1..n + 1, contexts'[b].of = contexts'[c].of
        PROVE  b = c
    <3>1. CASE b \in 1..n /\ c \in 1..n
      BY <1>0, <1>4, <2>5, <3>1 DEF OriginsCorrect, n
    <3>2. CASE b \in 1..n /\ c = n + 1
      BY <1>4, <2>2, <2>5, <3>2
    <3>3. CASE b = n + 1 /\ c \in 1..n
      BY <1>4, <2>2, <2>5, <3>3
    <3> QED BY <2>3, <3>1, <3>2, <3>3
  <2>6. \A b, c \in 1..Len(contexts') : contexts'[b].of = contexts'[c].of => b = c
    BY <1>4, <2>5
  <2> QED BY <2>4, <2>6 DEF OriginsCorrect
<1>12. ASSUME NEW i \in 1..Len(said), i = This PROVE TableCorrect(i)'
  <2>1. /\ said'[i] = r /\ said[i].contexts = own
        /\ memory[hook[i]] = Sock /\ hook'[i] = hook[i] /\ hook[i] = ThisCell
        /\ memory'[hook'[i]] = s
    BY <1>7, <1>12 DEF ThisCell, Sock, own
  <2>2. DefaultCorrect(i)'
    <3>1. CASE Sock.default = 0
      <4>1. own = <<>> /\ Len(own) = 0 /\ s.default = n + 1 /\ n + 1 # 0
        BY <1>2, <1>5, <1>6, <3>1, EmptySeq
      <4>2. Len(r.contexts) = 1
        BY <1>8, <4>1
      <4>3. /\ contexts'[s.default].of = <<i, 1>>
            /\ contexts'[s.default].protocol = r.protocol
            /\ contexts'[s.default].names = NULL
        BY <1>2, <1>4, <1>12, <4>1
      <4>4. s.default # 0 /\ ~(Len(r.contexts) > 1)
        BY <4>1, <4>2
      <4> QED BY <1>8, <2>1, <4>3, <4>4 DEF DefaultCorrect
    <3>2. CASE Sock.default # 0
      <4>1. Sock.default \in 1..n /\ s.default = Sock.default
        BY <1>2, <1>3, <1>6, <3>2
      <4>2. Len(own) >= 1
        BY <1>5, <1>6, <3>2, EmptySeq
      <4>3. Len(r.contexts) > 1
        BY <1>5, <1>8, <4>2
      <4>4. contexts[Sock.default].protocol = said[i].protocol
        BY <1>3, <1>12, <2>1, <3>2 DEF TableCorrect, DefaultCorrect
      <4>5. /\ contexts'[s.default].of = <<i, 1>>
            /\ contexts'[s.default].protocol = r.protocol
            /\ contexts'[s.default].names = hook'[i]
        BY <1>2, <1>4, <1>5, <1>12, <2>1, <3>2, <4>1, <4>4
      <4> QED BY <1>8, <2>1, <3>2, <4>1, <4>3, <4>5 DEF DefaultCorrect
    <3> QED BY <3>1, <3>2
  <2>3. DomainsCorrect(i)'
    <3> SUFFICES ASSUME NEW d \in Domain, memory'[hook'[i]].domains[d] # 0
                 PROVE  /\ contexts'[memory'[hook'[i]].domains[d]].protocol
                             = said'[i].protocol
                        /\ \E k \in 1..Len(said'[i].contexts) :
                             /\ contexts'[memory'[hook'[i]].domains[d]].of = <<i, k>>
                             /\ said'[i].contexts[k] = d
      BY DEF DomainsCorrect
    <3>1. memory'[hook'[i]].domains = Sock.domains /\ said'[i] = r
      BY <1>2, <2>1
    <3>2. Sock.domains[d] # 0
      BY <3>1
    <3>3. Sock.domains[d] \in 1..n
      BY <1>3, <1>6, <3>2
    <3>4. contexts[Sock.domains[d]].protocol = said[i].protocol
      BY <1>3, <1>12, <2>1, <3>2 DEF TableCorrect, DomainsCorrect
    <3>5. PICK k \in 1..Len(own) :
            contexts[Sock.domains[d]].of = <<i, k>> /\ own[k] = d
      BY <1>3, <1>12, <2>1, <3>2 DEF TableCorrect, DomainsCorrect
    <3>6. k \in 1..Len(r.contexts)
      BY <1>5, <1>8
    <3>7. /\ contexts'[Sock.domains[d]].protocol = r.protocol
          /\ contexts'[Sock.domains[d]].of = <<i, k>> /\ r.contexts[k] = d
      BY <1>2, <1>4, <1>8, <1>12, <3>3, <3>4, <3>5, <3>6
    <3> QED BY <3>6, <3>1, <3>7
  <2>4. NamesCorrect(i)'
    <3>1. \A k \in 1..Len(r.contexts) : k \in 1..Len(own) \/ k = Len(own) + 1
      BY <1>5, <1>8
    <3>2. /\ \A k \in 1..Len(own) : own[k] # NULL => Sock.domains[own[k]] # 0
          /\ \A k, l \in 1..Len(own) : own[k] = own[l] /\ own[k] # NULL => k = l
      BY <1>3, <1>12, <2>1 DEF TableCorrect, NamesCorrect
    <3>3. ASSUME NEW k \in 1..Len(r.contexts), r.contexts[k] # NULL
          PROVE  k \in 1..Len(own) /\ r.contexts[k] = own[k]
      BY <1>8, <3>1, <3>3
    <3>4. \A k \in 1..Len(r.contexts) : r.contexts[k] # NULL =>
            s.domains[r.contexts[k]] # 0
      BY <1>2, <3>2, <3>3
    <3>5. ASSUME NEW k \in 1..Len(r.contexts), NEW l \in 1..Len(r.contexts),
                 r.contexts[k] = r.contexts[l], r.contexts[k] # NULL
          PROVE  k = l
      <4>1. k \in 1..Len(own) /\ r.contexts[k] = own[k]
        BY <3>3, <3>5
      <4>2. l \in 1..Len(own) /\ r.contexts[l] = own[l]
        BY <3>3, <3>5
      <4> QED BY <3>2, <3>5, <4>1, <4>2
    <3> QED BY <2>1, <3>4, <3>5 DEF NamesCorrect
  <2> QED BY <2>2, <2>3, <2>4 DEF TableCorrect
<1>13. TablesCorrect'
  <2>1. r.group
    BY <1>2, <1>3 DEF SameAddress
  <2> QED BY <1>2, <1>6, <1>9, <1>12, <2>1, RenewsTables
<1>14. LatestCorrect'
  <2>1. contexts' # <<>>
    <3>1. Len(contexts') >= 1 /\ Len(<<>>) = 0
      BY <1>4, <1>6, EmptySeq
    <3> QED BY <3>1
  <2> QED BY <1>2, <1>4, <1>7, <1>8, <2>1 DEF LatestCorrect
<1> QED BY <1>10, <1>11, <1>13, <1>14 DEF ServersCorrect

(* The domain of the latest context leads to it.                           *)
LEMMA DomainsServers ==
  ASSUME InterfacesCorrect, ServersCorrect, NEW d \in Domain, Domains(d)
  PROVE  ServersCorrect'
<1>0. /\ TypesCorrect /\ PlaceCorrect /\ HooksCorrect /\ SocketsCorrect
      /\ CellsCorrect /\ OriginsCorrect /\ TablesCorrect /\ LatestCorrect
  BY DEF InterfacesCorrect, ServersCorrect
<1>1. /\ MayRead({"group", "contexts"}) /\ place = "contexts" /\ place' = "contexts"
      /\ contexts' = contexts
      /\ said[This].contexts[ThisContext] = NULL /\ Sock.domains[d] = 0
  BY DEF Domains, MayRead, Read
<1> DEFINE own == said[This].contexts
           n == Len(contexts)
<1>2. ThisContext \in 1..Len(own) /\ ThisContext = Len(own)
  BY <1>0, DomainsRenews DEF ThisContext
<1>3. PICK r \in Said, s \in Socket :
        /\ Renews(r, s) /\ SameAddress(r, s)
        /\ r.protocol = said[This].protocol
        /\ r.contexts = [own EXCEPT ![ThisContext] = d]
        /\ s.default = Sock.default
        /\ s.domains = [Sock.domains EXCEPT ![d] = n]
  BY <1>0, DomainsRenews
<1>4. /\ Sock.default \in 0..n /\ \A e \in Domain : Sock.domains[e] \in 0..n
      /\ TableCorrect(This) /\ said[This].group
  BY <1>1, SockServer
<1>5. /\ phase = "load" /\ said # <<>> /\ This \in 1..Len(said) /\ ThisCell \in Cell
      /\ Sock \in Socket /\ n \in Nat /\ own \in Seq(Domain \union {NULL})
      /\ Len(own) \in Nat
  BY <1>0, <1>1, InGroup, LenProperties DEF TypesCorrect
<1>6. /\ Len(said') = Len(said) /\ said'[This] = r /\ memory'[ThisCell] = s
      /\ \A i \in 1..Len(said) : i # This => said'[i] = said[i]
      /\ hook' = hook /\ This' = This
  BY <1>0, <1>3, RenewsFacts DEF Renews
<1>7. n \in 1..n /\ contexts # <<>>
  <2>1. contexts # <<>>
    BY <1>0, <1>1 DEF LatestCorrect
  <2>2. n \in Nat \ {0}
    BY <1>0, <2>1, EmptySeq DEF TypesCorrect
  <2> QED BY <2>1, <2>2
<1>8. /\ contexts[n].of = <<This, Len(own)>>
      /\ contexts[n].protocol = said[This].protocol
  BY <1>0, <1>1 DEF LatestCorrect
<1> HIDE DEF own, n
<1>9. /\ Len(r.contexts) = Len(own)
      /\ \A k \in 1..Len(own) : r.contexts[k] = IF k = ThisContext THEN d ELSE own[k]
      /\ (r.contexts = <<>> <=> own = <<>>)
  <2> DEFINE named == [own EXCEPT ![ThisContext] = d]
  <2>1. /\ named \in Seq(Domain \union {NULL}) /\ Len(named) = Len(own)
        /\ \A k \in 1..Len(own) : named[k] = IF k = ThisContext THEN d ELSE own[k]
    BY <1>2, <1>5, ExceptSeq
  <2>2. r.contexts = named
    BY <1>3
  <2> HIDE DEF named
  <2>3. named # <<>> /\ own # <<>>
    <3>1. Len(named) >= 1 /\ Len(own) >= 1 /\ Len(<<>>) = 0
      BY <1>2, <1>5, <2>1, EmptySeq
    <3> QED BY <3>1
  <2> QED BY <2>1, <2>2, <2>3
<1>10. \A e \in Domain : s.domains[e] = IF e = d THEN n ELSE Sock.domains[e]
  BY <1>3, <1>5 DEF Socket
<1>11. CellsCorrect'
  <2>1. \A e \in Domain : s.domains[e] \in 0..n
    BY <1>4, <1>5, <1>10
  <2>2. Len(contexts') = n /\ Len(contexts) = n
    BY <1>1 DEF n
  <2>3. /\ Len(contexts) \in Nat /\ Len(contexts') \in Nat
        /\ Len(contexts') >= Len(contexts)
        /\ s.default \in 0..Len(contexts')
        /\ \A e \in Domain : s.domains[e] \in 0..Len(contexts')
    BY <1>3, <1>4, <1>5, <2>1, <2>2
  <2> QED BY <1>0, <1>3, <2>3, RenewsCells
<1>12. OriginsCorrect'
  <2>1. \A i \in 1..Len(said) : Len(said'[i].contexts) = Len(said[i].contexts)
    BY <1>6, <1>9 DEF own
  <2>2. ASSUME NEW c \in 1..Len(contexts')
        PROVE  \E i \in 1..Len(said') : \E k \in 1..Len(said'[i].contexts) :
                 contexts'[c].of = <<i, k>>
    <3>1. PICK i \in 1..Len(said) : \E k \in 1..Len(said[i].contexts) :
            contexts[c].of = <<i, k>>
      BY <1>0, <1>1 DEF OriginsCorrect
    <3> QED BY <1>1, <1>6, <2>1, <3>1
  <2>3. \A b, c \in 1..Len(contexts') : contexts'[b].of = contexts'[c].of => b = c
    BY <1>0, <1>1 DEF OriginsCorrect
  <2> QED BY <2>2, <2>3 DEF OriginsCorrect
<1>13. ASSUME NEW i \in 1..Len(said), i = This PROVE TableCorrect(i)'
  <2>1. /\ said'[i] = r /\ said[i].contexts = own
        /\ memory[hook[i]] = Sock /\ hook'[i] = hook[i]
        /\ memory'[hook'[i]] = s
    BY <1>6, <1>13 DEF ThisCell, Sock, own
  <2>2. DefaultCorrect(i)'
    <3>1. /\ (Sock.default = 0 <=> own = <<>>)
          /\ Sock.default # 0 =>
               /\ contexts[Sock.default].of = <<i, 1>>
               /\ contexts[Sock.default].protocol = said[i].protocol
               /\ contexts[Sock.default].names =
                    IF Len(own) > 1 THEN hook[i] ELSE NULL
      BY <1>4, <1>13, <2>1 DEF TableCorrect, DefaultCorrect
    <3>2. said[i].protocol = r.protocol
      BY <1>3, <1>13
    <3> QED BY <1>1, <1>3, <1>9, <2>1, <3>1, <3>2 DEF DefaultCorrect
  <2>3. DomainsCorrect(i)'
    <3> SUFFICES ASSUME NEW e \in Domain, s.domains[e] # 0
                 PROVE  /\ contexts[s.domains[e]].protocol = r.protocol
                        /\ \E k \in 1..Len(r.contexts) :
                             /\ contexts[s.domains[e]].of = <<i, k>>
                             /\ r.contexts[k] = e
      BY <1>1, <2>1 DEF DomainsCorrect
    <3>1. CASE e = d
      <4>1. r.contexts[ThisContext] = d /\ ThisContext \in 1..Len(r.contexts)
        BY <1>2, <1>9
      <4> QED BY <1>2, <1>3, <1>8, <1>10, <1>13, <3>1, <4>1
    <3>2. CASE e # d
      <4>1. s.domains[e] = Sock.domains[e]
        BY <1>10, <3>2
      <4>2. contexts[Sock.domains[e]].protocol = said[i].protocol
        BY <1>4, <1>13, <2>1, <4>1 DEF TableCorrect, DomainsCorrect
      <4>3. PICK k \in 1..Len(own) :
              contexts[Sock.domains[e]].of = <<i, k>> /\ own[k] = e
        BY <1>4, <1>13, <2>1, <4>1 DEF TableCorrect, DomainsCorrect
      <4>4. k # ThisContext
        BY <1>1, <4>3, InterfaceAssumption DEF own
      <4> QED BY <1>3, <1>9, <1>13, <4>1, <4>2, <4>3, <4>4
    <3> QED BY <3>1, <3>2
  <2>4. NamesCorrect(i)'
    <3>1. /\ \A k \in 1..Len(own) : own[k] # NULL => Sock.domains[own[k]] # 0
          /\ \A k, l \in 1..Len(own) : own[k] = own[l] /\ own[k] # NULL => k = l
      BY <1>4, <1>13, <2>1 DEF TableCorrect, NamesCorrect
    <3>2. \A k \in 1..Len(own) : own[k] # d
      BY <1>1, <3>1, InterfaceAssumption
    <3>3. ASSUME NEW k \in 1..Len(own), r.contexts[k] # NULL
          PROVE  s.domains[r.contexts[k]] # 0
      <4>1. CASE k = ThisContext
        BY <1>5, <1>7, <1>9, <1>10, <4>1
      <4>2. CASE k # ThisContext
        <5>1. r.contexts[k] = own[k] /\ own[k] \in Domain
          BY <1>5, <1>9, <3>3, <4>2, ElementOfSeq
        <5> QED BY <1>10, <3>1, <3>2, <3>3, <5>1
      <4> QED BY <4>1, <4>2
    <3>4. ASSUME NEW k \in 1..Len(own), NEW l \in 1..Len(own),
                 r.contexts[k] = r.contexts[l], r.contexts[k] # NULL
          PROVE  k = l
      <4>1. CASE k = ThisContext \/ l = ThisContext
        BY <1>9, <3>2, <3>4, <4>1
      <4>2. CASE k # ThisContext /\ l # ThisContext
        BY <1>9, <3>1, <3>4, <4>2
      <4> QED BY <4>1, <4>2
    <3> QED BY <1>9, <2>1, <3>3, <3>4 DEF NamesCorrect
  <2> QED BY <2>2, <2>3, <2>4 DEF TableCorrect
<1>14. TablesCorrect'
  <2>1. r.group
    BY <1>3, <1>4 DEF SameAddress
  <2>2. \A i \in 1..Len(said) : i # This => KeepsContexts(i)
    BY <1>1 DEF KeepsContexts
  <2> QED BY <1>3, <1>5, <1>13, <2>1, <2>2, RenewsTables
<1>15. LatestCorrect'
  BY <1>1, <1>3, <1>6, <1>7, <1>8, <1>9 DEF LatestCorrect, n
<1> QED BY <1>11, <1>12, <1>14, <1>15 DEF ServersCorrect

(* After the file, tables stay as they are.                                *)
LEMMA LaterServers ==
  ASSUME InterfacesCorrect, ServersCorrect, phase # "unloaded",
         UNCHANGED <<reading, hook, contexts>>,
         \A x \in Cell : memory'[x] # NULL =>
           /\ memory[x] # NULL
           /\ (memory'[x].tls <=> memory[x].tls)
           /\ memory'[x].default = memory[x].default
           /\ memory'[x].domains = memory[x].domains,
         phase' # "unloaded" => \A i \in 1..Len(said) : memory'[hook[i]] # NULL
  PROVE  ServersCorrect'
<1>0. /\ TypesCorrect /\ HooksCorrect /\ SocketsCorrect
      /\ CellsCorrect /\ OriginsCorrect /\ TablesCorrect /\ LatestCorrect
  BY DEF InterfacesCorrect, ServersCorrect
<1>1. said' = said /\ place' = place /\ hook' = hook /\ contexts' = contexts
  BY DEF reading
<1>2. CellsCorrect'
  <2> SUFFICES ASSUME NEW x \in Cell, memory'[x] # NULL, memory'[x].tls
               PROVE  /\ memory'[x].default \in 0..Len(contexts)
                      /\ \A d \in Domain : memory'[x].domains[d] \in 0..Len(contexts)
    BY <1>1 DEF CellsCorrect
  <2>1. /\ memory[x] # NULL /\ memory[x].tls
        /\ memory'[x].default = memory[x].default
        /\ memory'[x].domains = memory[x].domains
    OBVIOUS
  <2> QED BY <1>0, <2>1 DEF CellsCorrect
<1>3. OriginsCorrect'
  BY <1>0, <1>1 DEF OriginsCorrect
<1>4. TablesCorrect'
  <2> SUFFICES ASSUME phase' # "unloaded", NEW i \in 1..Len(said)
               PROVE  IF said[i].group THEN TableCorrect(i)' ELSE Groupless(i)'
    BY <1>1 DEF TablesCorrect
  <2>1. CASE said[i].group
    <3>1. TableCorrect(i)
      BY <1>0, <2>1 DEF TablesCorrect
    <3>2. /\ memory[hook[i]].default \in 0..Len(contexts) /\ hook[i] \in Cell
          /\ \A d \in Domain : memory[hook[i]].domains[d] \in 0..Len(contexts)
      BY <1>0, <2>1, TableTyped
    <3>3. /\ memory'[hook[i]].default = memory[hook[i]].default
          /\ memory'[hook[i]].domains = memory[hook[i]].domains
      BY <3>2
    <3>4. Len(contexts) \in Nat /\ Len(said[i].contexts) \in Nat
      <4>1. said[i] \in Said
        BY <1>0, ElementOfSeq DEF TypesCorrect
      <4>2. said[i].contexts \in Seq(Domain \union {NULL})
        BY <4>1 DEF Said
      <4> QED BY <1>0, <4>2, LenProperties DEF TypesCorrect
    <3>5. KeepsContexts(i) /\ said'[i].contexts = said[i].contexts
          /\ said'[i].protocol = said[i].protocol /\ hook'[i] = hook[i]
      BY <1>1 DEF KeepsContexts
    <3>6. TableCorrect(i)'
      BY <3>1, <3>2, <3>3, <3>4, <3>5, TableSame
    <3> QED BY <2>1, <3>6
  <2>2. CASE ~said[i].group
    BY <1>0, <1>1, <2>2 DEF TablesCorrect, Groupless
  <2> QED BY <2>1, <2>2
<1>5. LatestCorrect'
  BY <1>0, <1>1 DEF LatestCorrect, This
<1> QED BY <1>2, <1>3, <1>4, <1>5 DEF ServersCorrect

(* Starting and serving keep the tables.                                   *)
LEMMA PhaseServers ==
  ASSUME InterfacesCorrect, ServersCorrect, phase # "unloaded",
         UNCHANGED <<reading, hook, memory, contexts>>
  PROVE  ServersCorrect'
<1>1. memory' = memory /\ UNCHANGED <<reading, hook, contexts>>
  OBVIOUS
<1>2. \A i \in 1..Len(said) : memory[hook[i]] # NULL
  BY DEF InterfacesCorrect, HooksCorrect
<1> QED BY <1>1, <1>2, LaterServers

(* What is written to a socket in activation is not in its tables.         *)
LEMMA ActivateServers ==
  ASSUME InterfacesCorrect, ServersCorrect, Activate
  PROVE  ServersCorrect'
<1>0. TypesCorrect /\ HooksCorrect
  BY DEF InterfacesCorrect
<1>1. /\ phase = "loaded" /\ UNCHANGED <<reading, hook, contexts>>
      /\ \A x \in Pointed : memory[x] # NULL
  BY DEF Activate, Keep
<1>2. ASSUME NEW x \in Cell
      PROVE  /\ memory'[x] # NULL <=> memory[x] # NULL
             /\ memory'[x] # NULL =>
                  /\ (memory'[x].tls <=> memory[x].tls)
                  /\ memory'[x].default = memory[x].default
                  /\ memory'[x].domains = memory[x].domains
  <2>1. memory'[x] = IF x \in Pointed THEN [memory[x] EXCEPT !.backlog = 0] ELSE memory[x]
    BY DEF Activate
  <2>2. CASE x \in Pointed
    <3>1. memory[x] \in Socket
      BY <1>0, <1>1, <2>2 DEF TypesCorrect
    <3> DEFINE s == [memory[x] EXCEPT !.backlog = 0]
    <3>2. /\ s \in Socket /\ (s.tls <=> memory[x].tls)
          /\ s.default = memory[x].default /\ s.domains = memory[x].domains
      BY <3>1 DEF Socket
    <3> HIDE DEF s
    <3>3. memory'[x] = s
      BY <2>1, <2>2 DEF s
    <3> QED BY <3>1, <3>2, <3>3, SocketAssumption
  <2>3. CASE x \notin Pointed
    BY <2>1, <2>3
  <2> QED BY <2>2, <2>3
<1>3. \A i \in 1..Len(said) : memory'[hook[i]] # NULL
  <2>1. \A i \in 1..Len(said) : hook[i] \in Cell /\ memory[hook[i]] # NULL
    BY <1>0, <1>1, ElementOfSeq DEF TypesCorrect, HooksCorrect
  <2> QED BY <1>2, <2>1
<1> QED BY <1>1, <1>2, <1>3, LaterServers

(* Sockets that remain in memory keep their tables.                        *)
LEMMA UnloadServers ==
  ASSUME InterfacesCorrect, ServersCorrect, Unload
  PROVE  ServersCorrect'
<1>1. /\ phase # "unloaded" /\ phase' = "unloaded"
      /\ UNCHANGED <<reading, hook, contexts>>
  BY DEF Unload
<1>2. \A x \in Cell : memory'[x] # NULL => memory'[x] = memory[x]
  BY DEF Unload
<1> QED BY <1>1, <1>2, LaterServers

-----------------------------------------------------------------------------
(* A client gets what is meant.                                            *)

(* The context of an interface is found by its number.                     *)
LEMMA FoundByNumber ==
  ASSUME ServersCorrect, NEW c \in 1..Len(contexts), NEW i, NEW k,
         contexts[c].of = <<i, k>>, DOMAIN contexts = 1..Len(contexts)
  PROVE  (CHOOSE b \in DOMAIN contexts : contexts[b].of = <<i, k>>) = c
<1>1. \A b \in 1..Len(contexts) : contexts[b].of = <<i, k>> => b = c
  BY DEF ServersCorrect, OriginsCorrect
<1> QED BY <1>1

(* The callback for names finds the context that is meant.                 *)
LEMMA AcceptMeant ==
  ASSUME InterfacesCorrect, ServersCorrect, phase = "running",
         NEW i \in 1..Len(said), said[i].group, memory[hook[i]].default # 0,
         NEW name \in Domain \union {NULL}
  PROVE  LET context == ServerNameIndication(memory[hook[i]], name)
         IN /\ context = MeantContext(i, name)
            /\ contexts[context].protocol = said[i].protocol
<1>0. /\ TypesCorrect /\ HooksCorrect /\ SocketsCorrect
      /\ CellsCorrect /\ OriginsCorrect /\ TablesCorrect
  BY DEF InterfacesCorrect, ServersCorrect
<1> DEFINE sock == memory[hook[i]]
           own == said[i].contexts
           first == sock.default
           numbers == {k \in DOMAIN own : name # NULL /\ own[k] = name}
<1>1. /\ first \in 1..Len(contexts) /\ hook[i] \in Cell
      /\ \A d \in Domain : sock.domains[d] \in 0..Len(contexts)
      /\ Len(contexts) \in Nat /\ DOMAIN contexts = 1..Len(contexts)
  <2>1. /\ hook[i] \in Cell /\ first \in 0..Len(contexts) /\ first # 0
        /\ \A d \in Domain : sock.domains[d] \in 0..Len(contexts)
    BY <1>0, TableTyped
  <2>2. Len(contexts) \in Nat /\ DOMAIN contexts = 1..Len(contexts)
    BY <1>0, LenProperties DEF TypesCorrect
  <2> QED BY <2>1, <2>2
<1>2. Len(own) \in Nat /\ DOMAIN own = 1..Len(own)
  <2>1. said[i] \in Said
    BY <1>0, ElementOfSeq DEF TypesCorrect
  <2>2. own \in Seq(Domain \union {NULL})
    BY <2>1 DEF Said
  <2> QED BY <2>2, LenProperties
<1>3. TableCorrect(i)
  BY <1>0 DEF TablesCorrect
<1>4. /\ contexts[first].of = <<i, 1>> /\ contexts[first].protocol = said[i].protocol
      /\ contexts[first].names = IF Len(own) > 1 THEN hook[i] ELSE NULL
  BY <1>3 DEF TableCorrect, DefaultCorrect
<1>5. /\ \A d \in Domain : sock.domains[d] # 0 =>
           /\ contexts[sock.domains[d]].protocol = said[i].protocol
           /\ \E k \in 1..Len(own) :
                contexts[sock.domains[d]].of = <<i, k>> /\ own[k] = d
      /\ \A k \in 1..Len(own) : own[k] # NULL => sock.domains[own[k]] # 0
      /\ \A k, l \in 1..Len(own) : own[k] = own[l] /\ own[k] # NULL => k = l
  BY <1>3 DEF TableCorrect, DomainsCorrect, NamesCorrect
<1>6. hook[i] # NULL
  BY <1>1, InterfaceAssumption
<1>7. MeantContext(i, name) =
        CHOOSE c \in DOMAIN contexts :
          contexts[c].of = <<i, IF numbers = {} THEN 1 ELSE CHOOSE k \in numbers : TRUE>>
  BY DEF MeantContext
<1>8. ServerNameIndication(sock, name) =
        IF contexts[first].names # NULL /\ name # NULL
        THEN IF memory[contexts[first].names].domains[name] # 0
             THEN memory[contexts[first].names].domains[name] ELSE first
        ELSE first
  BY DEF ServerNameIndication
<1>9. CASE numbers = {}
  <2>1. MeantContext(i, name) = CHOOSE c \in DOMAIN contexts : contexts[c].of = <<i, 1>>
    BY <1>7, <1>9
  <2>2. MeantContext(i, name) = first
    BY <1>1, <1>4, <2>1, FoundByNumber
  <2>3. name # NULL => sock.domains[name] = 0
    BY <1>2, <1>5, <1>9
  <2>4. ServerNameIndication(sock, name) = first
    BY <1>4, <1>6, <1>8, <2>3
  <2> QED BY <1>4, <2>4, <2>2
<1>10. CASE numbers # {}
  <2> DEFINE number == CHOOSE k \in numbers : TRUE
  <2>1. number \in numbers
    BY <1>10
  <2>2. name \in Domain /\ name # NULL /\ number \in 1..Len(own) /\ own[number] = name
    BY <1>2, <2>1
  <2> HIDE DEF number
  <2>3. sock.domains[name] # 0 /\ sock.domains[name] \in 1..Len(contexts)
    <3>1. sock.domains[own[number]] # 0
      BY <1>5, <2>2
    <3>2. sock.domains[name] # 0 /\ sock.domains[name] \in 0..Len(contexts)
      BY <1>1, <2>2, <3>1
    <3> HIDE DEF sock
    <3> QED BY <1>1, <3>2
  <2>4. PICK k \in 1..Len(own) : contexts[sock.domains[name]].of = <<i, k>> /\ own[k] = name
    BY <1>5, <2>2, <2>3
  <2>5. k = number
    BY <1>5, <2>2, <2>4
  <2>6. MeantContext(i, name) = sock.domains[name]
    <3>1. MeantContext(i, name) =
            CHOOSE c \in DOMAIN contexts : contexts[c].of = <<i, number>>
      BY <1>7, <1>10 DEF number
    <3> HIDE DEF sock
    <3> QED BY <1>1, <2>3, <2>4, <2>5, <3>1, FoundByNumber
  <2>7. ServerNameIndication(sock, name) = sock.domains[name]
    <3>1. CASE contexts[first].names # NULL
      <4>1. contexts[first].names = hook[i]
        BY <1>4, <3>1
      <4> QED BY <1>8, <2>2, <2>3, <3>1, <4>1
    <3>2. CASE contexts[first].names = NULL
      <4>1. Len(own) <= 1
        BY <1>2, <1>4, <1>6, <3>2
      <4>2. number = 1
        BY <1>2, <2>2, <4>1
      <4>3. contexts[sock.domains[name]].of = contexts[first].of
        BY <1>4, <2>4, <2>5, <4>2
      <4>4. sock.domains[name] = first
        BY <1>0, <1>1, <2>3, <4>3 DEF OriginsCorrect
      <4> QED BY <1>8, <3>2, <4>4
    <3> QED BY <3>1, <3>2
  <2> QED BY <1>5, <2>2, <2>3, <2>6, <2>7
<1> QED BY <1>9, <1>10

(* A session has what is meant for the name that was asked for.            *)
LEMMA AcceptNegotiates ==
  ASSUME InterfacesCorrect, ServersCorrect,
         NEW i \in DOMAIN said, NEW name \in Domain \union {NULL},
         AcceptConnection(i, name)
  PROVE  SessionCorrect'
<1>0. /\ TypesCorrect /\ SocketsCorrect
  BY DEF InterfacesCorrect
<1>1. i \in 1..Len(said)
  BY <1>0, LenProperties DEF TypesCorrect
<1>2. /\ phase = "running" /\ phase' = "running" /\ said' = said /\ contexts' = contexts
      /\ memory[hook[i]].tls /\ memory[hook[i]].default # 0
  BY DEF AcceptConnection, Keep, reading
<1>3. said[i].group
  BY <1>0, <1>1, <1>2 DEF SocketsCorrect, SocketCorrect
<1> DEFINE context == ServerNameIndication(memory[hook[i]], name)
<1>4. context = MeantContext(i, name) /\ contexts[context].protocol = said[i].protocol
  BY <1>1, <1>2, <1>3, AcceptMeant
<1>5. /\ session'.interface = i /\ session'.name = name
      /\ session'.context = context /\ session'.protocol = contexts[context].protocol
  BY DEF AcceptConnection
<1> HIDE DEF context
<1>6. MeantContext(i, name)' = MeantContext(i, name)
  BY <1>2 DEF MeantContext
<1>7. NegotiatedAsSaid'
  BY <1>2, <1>4, <1>5, <1>6 DEF NegotiatedAsSaid, MeantContext
<1> QED BY <1>2, <1>7 DEF SessionCorrect

-----------------------------------------------------------------------------
(* The invariant is inductive.                                             *)

InterfaceInv == InterfacesCorrect /\ ServersCorrect /\ SessionCorrect

(* There is nothing before the file is read.                               *)
LEMMA InterfaceInit == Init => InterfaceInv
<1> SUFFICES ASSUME Init PROVE InterfaceInv
  OBVIOUS
<1>1. Len(said) = 0 /\ Len(hook) = 0 /\ Len(kernel) = 0 /\ Len(listenSockets) = 0
      /\ Len(contexts) = 0
  BY EmptySeq DEF Init
<1>2. TypesCorrect
  <2>1. /\ said \in Seq(Said) /\ hook \in Seq(Cell) /\ kernel \in Seq(Descriptor)
        /\ listenSockets \in Seq(Cell) /\ contexts \in Seq(Context)
    BY EmptySeq DEF Init
  <2>2. elements \in 0..MaxElements
    BY InterfaceAssumption DEF Init
  <2> QED BY <1>1, <2>1, <2>2 DEF Init, TypesCorrect, Places
<1>3. PlaceCorrect /\ LatestCorrect
  BY DEF Init, PlaceCorrect, LatestCorrect
<1>4. HooksCorrect /\ SocketsCorrect /\ KernelCorrect /\ PointersCorrect
  BY <1>1 DEF HooksCorrect, SocketsCorrect, KernelCorrect, PointersCorrect
<1>5. CellsCorrect
  BY DEF Init, CellsCorrect
<1>6. OriginsCorrect /\ TablesCorrect
  BY <1>1 DEF OriginsCorrect, TablesCorrect
<1>7. SessionCorrect
  BY DEF Init, SessionCorrect, NegotiatedAsSaid
<1> QED BY <1>2, <1>3, <1>4, <1>5, <1>6, <1>7
        DEF InterfaceInv, InterfacesCorrect, ServersCorrect

(* While files are read there are no clients.                              *)
LEMMA NoSession ==
  ASSUME phase' # "running", session' = NULL
  PROVE  SessionCorrect'
BY DEF SessionCorrect, NegotiatedAsSaid

(* Reading may fail at any element, and so may activation.                 *)
LEMMA FailKeeps ==
  ASSUME InterfaceInv, phase \in {"load", "loaded"}, Fail
  PROVE  InterfaceInv'
<1>0. InterfacesCorrect /\ ServersCorrect /\ SessionCorrect
  BY DEF InterfaceInv
<1>1. /\ phase' = "failed" /\ session' = session
      /\ UNCHANGED <<reading, hook, memory, listenSockets, kernel, contexts>>
  BY DEF Fail
<1>2. InterfacesCorrect'
  BY <1>0, <1>1, PhaseKeeps
<1>3. ServersCorrect'
  BY <1>0, <1>1, PhaseServers
<1>4. SessionCorrect'
  BY <1>0, <1>1, NoSession DEF SessionCorrect
<1> QED BY <1>2, <1>3, <1>4 DEF InterfaceInv

(* Steps that read an element.                                             *)
LEMMA ReadSession ==
  ASSUME SessionCorrect, phase = "load", NEW now, Read(now)
  PROVE  SessionCorrect'
BY NoSession DEF Read, SessionCorrect

(* Every element of the file keeps the invariant.                          *)
LEMMA LoadKeeps ==
  ASSUME InterfaceInv, Load
  PROVE  InterfaceInv'
<1>0. InterfacesCorrect /\ ServersCorrect /\ SessionCorrect
  BY DEF InterfaceInv
<1>1. CASE Interface
  <2>1. SessionCorrect'
    BY <1>0, <1>1, ReadSession DEF Interface, MayRead
  <2> QED BY <1>0, <1>1, <2>1, InterfaceKeeps, InterfaceServers DEF InterfaceInv
<1>2. CASE \E f \in Families : Network(f)
  <2>1. PICK f \in Families : Network(f)
    BY <1>2
  <2>2. SessionCorrect'
    BY <1>0, <2>1, ReadSession DEF Network, MayReadHere, MayRead, InterfaceRead
  <2> QED BY <1>0, <2>1, <2>2, NetworkKeeps, NetworkServers DEF InterfaceInv
<1>3. CASE \E a \in {"any", "given"} : TheAddress(a)
  <2>1. PICK a \in {"any", "given"} : TheAddress(a)
    BY <1>3
  <2>2. SessionCorrect'
    BY <1>0, <2>1, ReadSession DEF TheAddress, MayReadHere, MayRead, InterfaceRead
  <2> QED BY <1>0, <2>1, <2>2, TheAddressKeeps, TheAddressServers DEF InterfaceInv
<1>4. CASE AddressRefused
  BY <1>4, FailKeeps DEF AddressRefused, MayReadHere, MayRead
<1>5. CASE Port
  <2>1. SessionCorrect'
    BY <1>0, <1>5, ReadSession DEF Port, MayReadHere, MayRead, InterfaceRead
  <2> QED BY <1>0, <1>5, <2>1, PortKeeps, PortServers DEF InterfaceInv
<1>6. CASE PortRefused
  BY <1>6, FailKeeps DEF PortRefused, MayReadHere, MayRead
<1>7. CASE Backlog(5)
  <2>1. SessionCorrect'
    BY <1>0, <1>7, ReadSession DEF Backlog, MayReadHere, MayRead, InterfaceRead
  <2> QED BY <1>0, <1>7, <2>1, BacklogKeeps, BacklogServers DEF InterfaceInv
<1>8. CASE Layer
  <2>1. SessionCorrect'
    BY <1>0, <1>8, ReadSession DEF Layer, MayReadHere, MayRead, InterfaceRead
  <2> QED BY <1>0, <1>8, <2>1, LayerKeeps, LayerServers DEF InterfaceInv
<1>9. CASE ServerConfiguration
  <2>1. SessionCorrect'
    BY <1>0, <1>9, ReadSession DEF ServerConfiguration, MayRead
  <2>2. ServersCorrect' /\ Groupless(This)
    BY <1>0, <1>9, ServerConfigurationServers
  <2>3. InterfacesCorrect'
    BY <1>0, <1>9, <2>2, ServerConfigurationKeeps
  <2> QED BY <2>1, <2>2, <2>3 DEF InterfaceInv
<1>10. CASE \E p \in Protocol : ApplicationProtocol(p)
  <2>1. PICK p \in Protocol : ApplicationProtocol(p)
    BY <1>10
  <2>2. SessionCorrect'
    BY <1>0, <2>1, ReadSession DEF ApplicationProtocol, MayRead
  <2> QED BY <1>0, <2>1, <2>2, ApplicationProtocolKeeps, ApplicationProtocolServers
          DEF InterfaceInv
<1>11. CASE ServerContext
  <2>1. SessionCorrect'
    BY <1>0, <1>11, ReadSession DEF ServerContext, MayRead
  <2> QED BY <1>0, <1>11, <2>1, ServerContextKeeps, ServerContextServers DEF InterfaceInv
<1>12. CASE \E d \in Domain : Domains(d) \/ SecondDomain(d)
  <2>1. PICK d \in Domain : Domains(d) \/ SecondDomain(d)
    BY <1>12
  <2>2. CASE Domains(d)
    <3>1. SessionCorrect'
      BY <1>0, <2>2, ReadSession DEF Domains, MayRead
    <3> QED BY <1>0, <2>2, <3>1, DomainsKeeps, DomainsServers DEF InterfaceInv
  <2>3. CASE SecondDomain(d)
    BY <2>3, FailKeeps DEF SecondDomain, MayRead
  <2> QED BY <2>1, <2>2, <2>3
<1>13. CASE EndOfFile
  <2>1. /\ phase = "load" /\ phase' = "loaded" /\ session' = session
        /\ UNCHANGED <<reading, hook, memory, listenSockets, kernel, contexts>>
    BY <1>13 DEF EndOfFile, Keep
  <2>2. SessionCorrect'
    BY <1>0, <2>1, NoSession DEF SessionCorrect
  <2> QED BY <1>0, <2>1, <2>2, PhaseKeeps, PhaseServers DEF InterfaceInv
<1> QED BY <1>1, <1>2, <1>3, <1>4, <1>5, <1>6, <1>7, <1>8, <1>9, <1>10, <1>11,
           <1>12, <1>13 DEF Load

(* So does every step.                                                     *)
LEMMA InterfaceStep ==
  ASSUME InterfaceInv, [Next]_vars
  PROVE  InterfaceInv'
<1>0. InterfacesCorrect /\ ServersCorrect /\ SessionCorrect
  BY DEF InterfaceInv
<1>1. CASE Load
  BY <1>1, LoadKeeps
<1>2. CASE Activate
  <2>1. SessionCorrect'
    BY <1>0, <1>2, NoSession DEF Activate, SessionCorrect
  <2> QED BY <1>0, <1>2, <2>1, ActivateKeeps, ActivateServers DEF InterfaceInv
<1>3. CASE NoInterface
  BY <1>3, FailKeeps DEF NoInterface
<1>4. CASE ActivateListenSockets
  <2>1. /\ phase = "listening" /\ session' = session
        /\ UNCHANGED <<reading, hook, memory, contexts>>
    BY <1>4 DEF ActivateListenSockets, Keep
  <2>2. SessionCorrect'
    BY <1>0, <2>1 DEF SessionCorrect, NegotiatedAsSaid
  <2> QED BY <1>0, <1>4, <2>1, <2>2, ActivateListenSocketsKeeps, PhaseServers
          DEF InterfaceInv
<1>5. CASE \E i \in DOMAIN said, name \in Domain \union {NULL} : AcceptConnection(i, name)
  <2>1. PICK i \in DOMAIN said, name \in Domain \union {NULL} : AcceptConnection(i, name)
    BY <1>5
  <2>2. phase = "running" /\ UNCHANGED <<reading, hook, memory, contexts>>
    BY <2>1 DEF AcceptConnection, Keep
  <2>3. SessionCorrect'
    BY <1>0, <2>1, AcceptNegotiates
  <2> QED BY <1>0, <2>1, <2>2, <2>3, AcceptConnectionKeeps, PhaseServers
          DEF InterfaceInv
<1>6. CASE Unload
  <2>1. SessionCorrect'
    BY <1>6, NoSession DEF Unload
  <2> QED BY <1>0, <1>6, <2>1, UnloadKeeps, UnloadServers DEF InterfaceInv
<1>7. CASE UNCHANGED vars
  <2>1. /\ phase' = phase /\ elements' = elements /\ place' = place /\ said' = said
        /\ hook' = hook /\ memory' = memory /\ listenSockets' = listenSockets
        /\ kernel' = kernel /\ contexts' = contexts /\ session' = session
    BY <1>7 DEF vars, reading
  <2>2. /\ TypesCorrect /\ PlaceCorrect /\ HooksCorrect /\ SocketsCorrect
        /\ KernelCorrect /\ PointersCorrect
        /\ CellsCorrect /\ OriginsCorrect /\ TablesCorrect /\ LatestCorrect
    BY <1>0 DEF InterfacesCorrect, ServersCorrect
  <2>3. InterfacesCorrect'
    <3>1. TypesCorrect'
      BY <2>1, <2>2 DEF TypesCorrect
    <3>2. PlaceCorrect'
      BY <2>1, <2>2 DEF PlaceCorrect, This
    <3>3. HooksCorrect'
      BY <2>1, <2>2 DEF HooksCorrect
    <3>4. SocketsCorrect'
      BY <2>1, <2>2 DEF SocketsCorrect, SocketCorrect
    <3>5. KernelCorrect'
      BY <2>1, <2>2 DEF KernelCorrect, BoundCorrect
    <3>6. PointersCorrect'
      BY <2>1, <2>2 DEF PointersCorrect
    <3> QED BY <3>1, <3>2, <3>3, <3>4, <3>5, <3>6 DEF InterfacesCorrect
  <2>5. ServersCorrect'
    <3>1. CellsCorrect'
      BY <2>1, <2>2 DEF CellsCorrect
    <3>2. OriginsCorrect'
      BY <2>1, <2>2 DEF OriginsCorrect
    <3>3. TablesCorrect'
      <4>1. \A i : /\ DefaultCorrect(i)' <=> DefaultCorrect(i)
                   /\ Groupless(i)' <=> Groupless(i)
        BY <2>1 DEF DefaultCorrect, Groupless
      <4>2. \A i : DomainsCorrect(i)' <=> DomainsCorrect(i)
        BY <2>1 DEF DomainsCorrect
      <4>3. \A i : NamesCorrect(i)' <=> NamesCorrect(i)
        BY <2>1 DEF NamesCorrect
      <4>4. \A i : TableCorrect(i)' <=> TableCorrect(i)
        BY <4>1, <4>2, <4>3 DEF TableCorrect
      <4> QED BY <2>1, <2>2, <4>1, <4>4 DEF TablesCorrect
    <3>4. LatestCorrect'
      BY <2>1, <2>2 DEF LatestCorrect, This
    <3> QED BY <3>1, <3>2, <3>3, <3>4 DEF ServersCorrect
  <2>4. SessionCorrect'
    BY <1>0, <2>1 DEF SessionCorrect, NegotiatedAsSaid, MeantContext
  <2> QED BY <2>3, <2>4, <2>5 DEF InterfaceInv
<1> QED BY <1>1, <1>2, <1>3, <1>4, <1>5, <1>6, <1>7 DEF Next

(* Each file leads to interfaces that are as it says.                      *)
THEOREM InterfaceInductive == Spec => []InterfaceInv
BY InterfaceInit, InterfaceStep, PTL DEF Spec

-----------------------------------------------------------------------------
(* The properties.                                                         *)

(* Interfaces whose address is complete listen, are watched and have the   *)
(* backlog of the file, whatever the order of its elements; no other does. *)
THEOREM ListensCorrect == Spec => []ListensAsSaid
<1>1. InterfaceInv => ListensAsSaid
  <2> SUFFICES ASSUME InterfaceInv, phase = "running",
                      NEW i \in DOMAIN said, ~Doubtful(said[i])
               PROVE  /\ kernel[i].watched = Full(said[i])
                      /\ Full(said[i]) => kernel[i].bound = 1
                                          /\ kernel[i].backlog = said[i].backlog
    BY DEF ListensAsSaid
  <2>1. TypesCorrect /\ KernelCorrect
    BY DEF InterfaceInv, InterfacesCorrect
  <2>2. i \in 1..Len(said) /\ i \in 1..Len(kernel)
    BY <2>1, LenProperties DEF TypesCorrect
  <2>3. BoundCorrect(i)
    BY <2>1, <2>2 DEF KernelCorrect
  <2>4. (kernel[i].watched <=> Full(said[i])) /\ (kernel[i].bound = 1 <=> Full(said[i]))
    BY <2>3 DEF BoundCorrect
  <2>5. kernel[i].watched \in BOOLEAN /\ Full(said[i]) \in BOOLEAN
    <3>1. kernel[i] \in Descriptor
      BY <2>1, <2>2, ElementOfSeq DEF TypesCorrect
    <3>2. said[i] \in Said
      BY <2>1, <2>2, ElementOfSeq DEF TypesCorrect
    <3>3. said[i].port \in BOOLEAN
      BY <3>2 DEF Said
    <3> QED BY <3>1, <3>3 DEF Descriptor, Full
  <2>6. kernel[i].bound = 1 => kernel[i].backlog = said[i].backlog
    BY <2>3 DEF BoundCorrect
  <2> HIDE DEF Full
  <2>7. kernel[i].watched = Full(said[i])
    BY <2>4, <2>5
  <2> QED BY <2>4, <2>6, <2>7
<1> QED BY <1>1, InterfaceInductive, PTL

(* Each pointer of the network module is to the socket of an interface     *)
(* that is bound, and each of those has one, wherever the TLS layer moved  *)
(* it; the state has its type.                                             *)
THEOREM PointersAlwaysValid == Spec => []PointersValid
<1>1. InterfaceInv => PointersValid
  <2> SUFFICES ASSUME InterfaceInv PROVE PointersValid
    OBVIOUS
  <2>0. /\ TypesCorrect /\ HooksCorrect /\ SocketsCorrect /\ KernelCorrect
        /\ PointersCorrect /\ CellsCorrect
    BY DEF InterfaceInv, InterfacesCorrect, ServersCorrect
  <2>1. /\ DOMAIN said = 1..Len(said) /\ DOMAIN hook = 1..Len(said)
        /\ DOMAIN kernel = 1..Len(said) /\ DOMAIN listenSockets = 1..Len(listenSockets)
        /\ DOMAIN contexts = 1..Len(contexts)
    BY <2>0, LenProperties DEF TypesCorrect
  <2>2. TypeOK
    <3>1. \A i \in DOMAIN hook : hook[i] \in Cell
      BY <2>0, <2>1, ElementOfSeq DEF TypesCorrect
    <3>2. Range(listenSockets) \subseteq Cell
      BY <2>0, <2>1, ElementOfSeq DEF Range, TypesCorrect
    <3>3. \A i \in DOMAIN kernel :
            kernel[i] \in [bound : 0..1, backlog : Nat, watched : BOOLEAN]
      BY <2>0, <2>1, ElementOfSeq DEF TypesCorrect, Descriptor
    <3>4. \A c \in DOMAIN contexts : contexts[c] \in Context
      BY <2>0, <2>1, ElementOfSeq DEF TypesCorrect
    <3>5. ASSUME NEW x \in Cell, memory[x] # NULL, memory[x].tls
          PROVE  {memory[x].default} \union Range(memory[x].domains)
                   \subseteq 0..Len(contexts)
      <4>1. memory[x] \in Socket
        BY <2>0, <3>5 DEF TypesCorrect
      <4>2. DOMAIN memory[x].domains = Domain
        BY <4>1 DEF Socket
      <4>3. /\ memory[x].default \in 0..Len(contexts)
            /\ \A d \in Domain : memory[x].domains[d] \in 0..Len(contexts)
        BY <2>0, <3>5 DEF CellsCorrect
      <4> QED BY <4>2, <4>3 DEF Range
    <3> QED BY <2>0, <3>1, <3>2, <3>3, <3>4, <3>5 DEF TypeOK, TypesCorrect
  <2>3. ASSUME NEW k \in DOMAIN listenSockets
        PROVE  \E i \in DOMAIN said :
                 /\ kernel[i].bound = 1
                 /\ listenSockets[k] = hook[i]
                 /\ memory[hook[i]] # NULL /\ memory[hook[i]].fd = i
    <3>1. PICK i \in 1..Len(said) : kernel[i].bound = 1 /\ listenSockets[k] = hook[i]
      BY <2>0, <2>1 DEF PointersCorrect
    <3>2. phase # "unloaded" /\ said[i].family # NULL
      BY <2>0, <3>1 DEF KernelCorrect, BoundCorrect
    <3>3. memory[hook[i]] # NULL /\ memory[hook[i]].fd = i
      BY <2>0, <3>1, <3>2 DEF HooksCorrect, SocketsCorrect, SocketCorrect
    <3> QED BY <2>1, <3>1, <3>3
  <2>4. ASSUME NEW i \in DOMAIN said
        PROVE  kernel[i].bound =
                 Cardinality({k \in DOMAIN listenSockets : listenSockets[k] = hook[i]})
    <3> DEFINE to == {k \in DOMAIN listenSockets : listenSockets[k] = hook[i]}
    <3>1. CASE kernel[i].bound = 1
      <4>1. PICK k \in 1..Len(listenSockets) : listenSockets[k] = hook[i]
        BY <2>0, <2>1, <3>1 DEF PointersCorrect
      <4>2. to = {k}
        BY <2>0, <2>1, <4>1 DEF PointersCorrect
      <4> HIDE DEF to
      <4> QED BY <3>1, <4>2, FS_Singleton DEF to
    <3>2. CASE kernel[i].bound # 1
      <4>1. kernel[i].bound = 0
        <5>1. kernel[i] \in Descriptor
          BY <2>0, <2>1, ElementOfSeq DEF TypesCorrect
        <5> QED BY <3>2, <5>1 DEF Descriptor
      <4>2. to = {}
        <5> SUFFICES ASSUME NEW k \in to PROVE FALSE
          OBVIOUS
        <5>1. PICK j \in 1..Len(said) : kernel[j].bound = 1 /\ listenSockets[k] = hook[j]
          BY <2>0, <2>1 DEF PointersCorrect
        <5>2. j = i
          BY <2>0, <2>1, <5>1 DEF HooksCorrect
        <5> QED BY <3>2, <5>1, <5>2
      <4> QED BY <4>1, <4>2, FS_EmptySet
    <3> QED BY <3>1, <3>2
  <2> QED BY <2>2, <2>3, <2>4 DEF PointersValid
<1> QED BY <1>1, InterfaceInductive, PTL

(* The name a client asks for leads to the context that has it, or to the  *)
(* first of the interface, and to the protocol that the interface has.     *)
THEOREM NegotiatesCorrect == Spec => []NegotiatedAsSaid
<1>1. InterfaceInv => NegotiatedAsSaid
  BY DEF InterfaceInv, SessionCorrect
<1> QED BY <1>1, InterfaceInductive, PTL
=============================================================================
