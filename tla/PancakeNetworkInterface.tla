---------------------- MODULE PancakeNetworkInterface ----------------------
(***************************************************************************)
(* The interfaces a server listens on: how the elements of a configuration *)
(* file, in whatever order they come, become sockets that are bound,       *)
(* listen and are watched (PancakeNetwork.c), and what the TLS layer makes *)
(* of them (OpenSSL/PancakeOpenSSL.c): it reallocates the socket of an     *)
(* interface, and the name a client asks for decides which of the contexts *)
(* of the interface it talks to.                                           *)
(*                                                                         *)
(* An element of the file is an action.  "said" keeps what the file says   *)
(* of each interface, for the properties; the program knows only what is   *)
(* in memory.  Memory is cells, since what matters of a socket is where it *)
(* is.  Addresses of different interfaces are different.  The certificate, *)
(* the key and the parameters of a context are not here.                   *)
(***************************************************************************)
EXTENDS Naturals, FiniteSets, SequencesExt

CONSTANTS Cell,         \* memory for sockets (bound on the interfaces)
          Domain,       \* the names that contexts are for
          Protocol,     \* the application protocols modules registered
          Families,     \* the families of addresses in the file
          MaxElements,  \* bound on the elements of a file
          MaxContexts,  \* bound on the contexts of an interface
          NULL

ASSUME InterfaceAssumption ==
  /\ Families \subseteq {"ip4", "ip6", "unix"}
  /\ MaxElements \in Nat /\ MaxContexts \in Nat
  /\ NULL \notin Cell \union Domain \union Protocol \union Families

VARIABLES
  phase,          \* "load", "loaded", "listening", "running", "unloaded", "failed"
  elements,       \* how many elements were read
  place,          \* where in the current interface reading is
  said,           \* what the file says of each interface
  hook,           \* setting->hook of each interface: its cell
  memory,         \* the sockets
  listenSockets,  \* pointers to those that are bound
  kernel,         \* what the kernel has made of each descriptor
  contexts,       \* the contexts of OpenSSL, of all interfaces
  session         \* what was last agreed upon with a client

reading == <<elements, place, said>>
vars == <<phase, reading, hook, memory, listenSockets, kernel, contexts, session>>

Address == {"none", "any", "given"}

(* "backlog" is sock->data; the fields of the TLS layer are there only     *)
(* when "tls" is; "domains" is the table of contexts by domain.            *)
Socket ==
  [fd : Nat, family : Families \union {NULL}, address : Address, port : BOOLEAN,
   backlog : Nat, layer : BOOLEAN, tls : BOOLEAN, default : Nat,
   domains : [Domain -> Nat]]

Said ==
  [family : Families \union {NULL}, address : Address, port : BOOLEAN,
   backlog : Nat, layer : BOOLEAN, protocol : Protocol \union {NULL},
   group : BOOLEAN, contexts : Seq(Domain \union {NULL}), portFirst : BOOLEAN]

\* A pointer to a socket is not NULL.
ASSUME SocketAssumption == NULL \notin Socket

\* "names" is the callback for server names, with the socket it is for.  "of"
\* is for the properties: the interface, and which of its contexts it is.
Context ==
  [protocol : Protocol \union {NULL}, names : Cell \union {NULL}, of : Nat \X Nat]

\* Zero in a table or a field is NULL; beyond a socket is anything else.
Garbage == MaxElements + 1
NoDomains == [d \in Domain |-> 0]

Places == {"interface", "group", "contexts", "group again", "interface again"}

TypeOK ==
  /\ phase \in {"load", "loaded", "listening", "running", "unloaded", "failed"}
  /\ elements \in 0..MaxElements
  /\ place \in Places
  /\ said \in Seq(Said) /\ Len(hook) = Len(said) /\ Len(kernel) = Len(said)
  /\ \A i \in DOMAIN hook : hook[i] \in Cell
  /\ memory \in [Cell -> Socket \union {NULL}]
  /\ Range(listenSockets) \subseteq Cell
  /\ \A i \in DOMAIN kernel :
       kernel[i] \in [bound : 0..1, backlog : Nat, watched : BOOLEAN]
  /\ \A c \in DOMAIN contexts : contexts[c] \in Context
  /\ \A x \in Cell : memory[x] # NULL /\ memory[x].tls =>
       {memory[x].default} \union Range(memory[x].domains) \subseteq 0..Len(contexts)

-----------------------------------------------------------------------------
(* Reading.                                                                *)

This == Len(said)
ThisCell == hook[This]
Sock == memory[ThisCell]

MayRead(places) ==
  /\ phase = "load"
  /\ elements < MaxElements
  /\ place \in places

Read(now) ==
  /\ elements' = elements + 1
  /\ place' = now
  /\ UNCHANGED <<phase, session>>

Fail ==
  /\ phase' = "failed"
  /\ UNCHANGED <<reading, hook, memory, listenSockets, kernel, contexts, session>>

Note(field, value) == said' = [said EXCEPT ![This] = [@ EXCEPT ![field] = value]]

\* An element of the interface itself, which comes before, or after, the
\* group of the layer.
OfInterface == IF place = "interface" THEN "interface" ELSE "interface again"
MayReadHere == MayRead(Places) /\ said # <<>>
InterfaceRead == Read(OfInterface)

Interface ==
  /\ MayRead(Places)
  /\ \E x \in Cell :
       /\ memory[x] = NULL
       /\ memory' = [memory EXCEPT ![x] =
            [fd |-> 0, family |-> NULL, address |-> "none", port |-> FALSE,
             backlog |-> 1, layer |-> FALSE, tls |-> FALSE, default |-> Garbage,
             domains |-> NoDomains]]
       /\ hook' = Append(hook, x)
  /\ said' = Append(said,
       [family |-> NULL, address |-> "none", port |-> FALSE, backlog |-> 1,
        layer |-> FALSE, protocol |-> NULL, group |-> FALSE, contexts |-> <<>>,
        portFirst |-> FALSE])
  /\ kernel' = Append(kernel, [bound |-> 0, backlog |-> 0, watched |-> FALSE])
  /\ Read("interface")
  /\ UNCHANGED <<listenSockets, contexts>>

Network(f) ==
  /\ MayReadHere
  /\ said[This].family = NULL
  /\ memory' = [memory EXCEPT ![ThisCell].family = f, ![ThisCell].fd = This]
  /\ Note("family", f)
  /\ InterfaceRead
  /\ UNCHANGED <<hook, listenSockets, kernel, contexts>>

(* TryBind.  The kernel binds a descriptor once.                           *)
CanBind == kernel[This].bound = 0

TryBind ==
  /\ CanBind
  /\ kernel' = [kernel EXCEPT ![This].bound = 1]
  /\ listenSockets' = Append(listenSockets, ThisCell)

\* Whether the element at hand completes the address.  The address of a
\* socket for IP 6 is never NULL to the code, whatever is in it.
BindsOnPortOnly(sock) == sock.family = "unix"  \* A bug: the port is thought to come last
BindsOnAddress(sock) == sock.family = "unix" \/ sock.port
BindsOnPort(sock) == sock.family = "ip6" \/ sock.address = "given"

TheAddress(a) ==
  /\ MayReadHere
  /\ said[This].address = "none"
  /\ Sock.family # NULL
  /\ IF BindsOnAddress(Sock) THEN TryBind ELSE UNCHANGED <<kernel, listenSockets>>
  /\ memory' = [memory EXCEPT ![ThisCell].address = a]
  /\ Note("address", a)
  /\ InterfaceRead
  /\ UNCHANGED <<hook, contexts>>

Port ==
  /\ MayReadHere
  /\ ~said[This].port
  /\ Sock.family \notin {NULL, "unix"}
  /\ IF BindsOnPort(Sock) THEN TryBind ELSE UNCHANGED <<kernel, listenSockets>>
  /\ memory' = [memory EXCEPT ![ThisCell].port = TRUE]
  /\ said' = [said EXCEPT ![This].port = TRUE,
                          ![This].portFirst = said[This].address = "none"]
  /\ InterfaceRead
  /\ UNCHANGED <<hook, contexts>>

\* The family is not known yet, a path has no port, or bind fails: because
\* the descriptor is bound already, or for reasons of its own.
AddressRefused ==
  /\ MayReadHere
  /\ said[This].address = "none"
  /\ Sock.family # NULL => BindsOnAddress(Sock)
  /\ Fail

PortRefused ==
  /\ MayReadHere
  /\ ~said[This].port
  /\ Sock.family \in Families => Sock.family = "unix" \/ BindsOnPort(Sock)
  /\ Fail

Backlog(n) ==
  /\ MayReadHere
  /\ said[This].backlog = 1
  /\ memory' = [memory EXCEPT ![ThisCell].backlog = n]
  /\ Note("backlog", n)
  /\ InterfaceRead
  /\ UNCHANGED <<hook, listenSockets, kernel, contexts>>

Layer ==
  /\ MayReadHere
  /\ ~said[This].layer
  /\ memory' = [memory EXCEPT ![ThisCell].layer = TRUE]
  /\ Note("layer", TRUE)
  /\ InterfaceRead
  /\ UNCHANGED <<hook, listenSockets, kernel, contexts>>

-----------------------------------------------------------------------------
(* The group of the TLS layer.                                             *)

NotReplaced(old, new) == listenSockets  \* A bug: the pointers stay
ReplaceListenSocket(old, new) ==
  [i \in DOMAIN listenSockets |->
     IF listenSockets[i] = old THEN new ELSE listenSockets[i]]

ServerSocket(sock) == [sock EXCEPT !.tls = TRUE, !.default = 0, !.domains = NoDomains]

\* The socket is reallocated, to hold what the layer keeps; it may move.
ServerConfiguration ==
  /\ MayRead({"interface"}) /\ said # <<>>
  /\ \E x \in Cell :
       /\ x # ThisCell => memory[x] = NULL
       /\ memory' = [y \in Cell |->
            IF y = x THEN ServerSocket(Sock)
            ELSE IF y = ThisCell THEN NULL ELSE memory[y]]
       /\ listenSockets' = ReplaceListenSocket(ThisCell, x)
       /\ hook' = [hook EXCEPT ![This] = x]
  /\ Note("group", TRUE)
  /\ Read("group")
  /\ UNCHANGED <<kernel, contexts>>

\* The contexts that are configured already get the protocol: the default
\* one and those with a domain.
DefaultOnly(sock) == {sock.default}  \* A bug: the table is not looked at
Configured(sock) == {sock.default} \union Range(sock.domains)

ApplicationProtocol(p) ==
  /\ MayRead({"group", "contexts"})
  /\ said[This].protocol = NULL
  /\ contexts' = [c \in DOMAIN contexts |->
       IF Sock.default # 0 /\ c \in Configured(Sock)
       THEN [contexts[c] EXCEPT !.protocol = p] ELSE contexts[c]]
  /\ Note("protocol", p)
  /\ Read(IF place = "group" THEN "group" ELSE "group again")
  /\ UNCHANGED <<hook, memory, listenSockets, kernel>>

\* The first context is the default one, and looks at the names when there
\* is another.  A context gets the protocol when it is known.
ServerContext ==
  /\ MayRead({"group", "contexts"})
  /\ Len(said[This].contexts) < MaxContexts
  /\ LET new == [protocol |-> said[This].protocol, names |-> NULL,
                 of |-> <<This, Len(said[This].contexts) + 1>>]
         first == Sock.default = 0
     IN /\ memory' = IF first
                     THEN [memory EXCEPT ![ThisCell].default = Len(contexts) + 1]
                     ELSE memory
        /\ contexts' = IF first THEN Append(contexts, new)
                       ELSE Append([contexts EXCEPT ![Sock.default].names = ThisCell], new)
  /\ Note("contexts", Append(said[This].contexts, NULL))
  /\ Read("contexts")
  /\ UNCHANGED <<hook, listenSockets, kernel>>

\* A context is for one domain at most here.
ThisContext == Len(said[This].contexts)

Domains(d) ==
  /\ MayRead({"contexts"})
  /\ said[This].contexts[ThisContext] = NULL
  /\ Sock.domains[d] = 0
  /\ memory' = [memory EXCEPT ![ThisCell].domains[d] = Len(contexts)]
  /\ Note("contexts", [said[This].contexts EXCEPT ![ThisContext] = d])
  /\ Read("contexts")
  /\ UNCHANGED <<hook, listenSockets, kernel, contexts>>

SecondDomain(d) ==
  /\ MayRead({"contexts"})
  /\ said[This].contexts[ThisContext] = NULL
  /\ Sock.domains[d] # 0
  /\ Fail

-----------------------------------------------------------------------------
(* From the end of the file to clients.                                    *)

Keep == UNCHANGED <<reading, hook, listenSockets, contexts>>

EndOfFile ==
  /\ phase = "load"
  /\ phase' = "loaded"
  /\ Keep /\ UNCHANGED <<memory, kernel, session>>

Pointed == Range(listenSockets)

\* Every socket listens with its backlog, which is then forgotten.
Activate ==
  /\ phase = "loaded"
  /\ listenSockets # <<>>
  /\ \A x \in Pointed : memory[x] # NULL
  /\ phase' = "listening"
  /\ kernel' = [i \in DOMAIN kernel |->
       IF \E x \in Pointed : memory[x].fd = i
       THEN [kernel[i] EXCEPT !.backlog =
               memory[CHOOSE x \in Pointed : memory[x].fd = i].backlog]
       ELSE kernel[i]]
  /\ memory' = [x \in Cell |->
       IF x \in Pointed THEN [memory[x] EXCEPT !.backlog = 0] ELSE memory[x]]
  /\ Keep /\ UNCHANGED session

NoInterface == phase = "loaded" /\ listenSockets = <<>> /\ Fail

ActivateListenSockets ==
  /\ phase = "listening"
  /\ phase' = "running"
  /\ kernel' = [i \in DOMAIN kernel |->
       [kernel[i] EXCEPT !.watched = @ \/ \E x \in Pointed : memory[x].fd = i]]
  /\ Keep /\ UNCHANGED <<memory, session>>

(* A client is accepted and asks for a name, or for none.  The session is  *)
(* with the default context, and the callback for names moves it.  What    *)
(* the layer does with a socket that is not extended, or has no context,   *)
(* is not here.                                                            *)
ServerNameIndication(sock, name) ==
  LET default == contexts[sock.default]
      server == memory[default.names]
  IN IF default.names # NULL /\ name # NULL
     THEN IF server.domains[name] # 0 THEN server.domains[name] ELSE sock.default
     ELSE sock.default

AcceptConnection(i, name) ==
  /\ phase = "running"
  /\ kernel[i].watched
  /\ memory[hook[i]].layer /\ memory[hook[i]].tls
  /\ memory[hook[i]].default # 0
  /\ LET context == ServerNameIndication(memory[hook[i]], name)
     IN session' = [interface |-> i, name |-> name, context |-> context,
                    protocol |-> contexts[context].protocol]
  /\ Keep /\ UNCHANGED <<phase, memory, kernel>>

\* The destructors close the sockets and free what the hooks point to.
Unload ==
  /\ phase = "running"
  /\ phase' = "unloaded"
  /\ memory' = [x \in Cell |-> IF x \in Range(hook) THEN NULL ELSE memory[x]]
  /\ listenSockets' = <<>>
  /\ kernel' = [i \in DOMAIN kernel |-> [bound |-> 0, backlog |-> 0, watched |-> FALSE]]
  /\ session' = NULL
  /\ UNCHANGED <<reading, hook, contexts>>

-----------------------------------------------------------------------------
Init ==
  /\ phase = "load"
  /\ elements = 0
  /\ place = "interface"
  /\ said = <<>> /\ hook = <<>> /\ kernel = <<>>
  /\ memory = [x \in Cell |-> NULL]
  /\ listenSockets = <<>>
  /\ contexts = <<>>
  /\ session = NULL

Load ==
  \/ Interface
  \/ \E f \in Families : Network(f)
  \/ \E a \in {"any", "given"} : TheAddress(a)
  \/ AddressRefused
  \/ Port \/ PortRefused
  \/ Backlog(5)
  \/ Layer
  \/ ServerConfiguration
  \/ \E p \in Protocol : ApplicationProtocol(p)
  \/ ServerContext
  \/ \E d \in Domain : Domains(d) \/ SecondDomain(d)
  \/ EndOfFile

Next ==
  \/ Load
  \/ Activate \/ NoInterface \/ ActivateListenSockets
  \/ \E i \in DOMAIN said, name \in Domain \union {NULL} : AcceptConnection(i, name)
  \/ Unload

Spec == Init /\ [][Next]_vars

-----------------------------------------------------------------------------
(* Whatever the order of its elements, an interface with a full address    *)
(* listens once its server runs, with the backlog the file says, and is    *)
(* watched; one without does not (PancakeNetwork.c:245, 316).  The address *)
(* that stands for every interface is left out: of IP 4, it counts as none *)
(* when the port comes after it.                                           *)
Full(s) ==
  \/ s.family = "unix" /\ s.address # "none"
  \/ s.family # NULL /\ s.address = "given" /\ s.port
Doubtful(s) == s.address = "any" \/ (s.family = "ip6" /\ s.portFirst)

ListensAsSaid ==
  phase = "running" =>
    \A i \in DOMAIN said : ~Doubtful(said[i]) =>
      /\ kernel[i].watched = Full(said[i])
      /\ Full(said[i]) => kernel[i].bound = 1 /\ kernel[i].backlog = said[i].backlog

(* The pointers of the network module to its sockets are those of the      *)
(* configuration, although the TLS layer moves sockets: none points to     *)
(* memory that is free or another interface's, and each bound socket has   *)
(* exactly one (PancakeOpenSSL.c:119).                                     *)
PointersValid ==
  /\ TypeOK
  /\ \A k \in DOMAIN listenSockets :
       \E i \in DOMAIN said :
         /\ kernel[i].bound = 1
         /\ listenSockets[k] = hook[i]
         /\ memory[hook[i]] # NULL /\ memory[hook[i]].fd = i
  /\ \A i \in DOMAIN said :
       kernel[i].bound = Cardinality({k \in DOMAIN listenSockets : listenSockets[k] = hook[i]})

(* A client talks to the context whose domain it asks for, or to the first *)
(* one, and by the protocol of the interface, whether the file names the   *)
(* protocol before its contexts or after (PancakeOpenSSL.c:85, 206, 454).  *)
MeantContext(i, name) ==
  LET numbers == {k \in DOMAIN said[i].contexts :
                    name # NULL /\ said[i].contexts[k] = name}
      number == IF numbers = {} THEN 1 ELSE CHOOSE k \in numbers : TRUE
  IN CHOOSE c \in DOMAIN contexts : contexts[c].of = <<i, number>>

NegotiatedAsSaid ==
  session # NULL =>
    /\ session.context = MeantContext(session.interface, session.name)
    /\ session.protocol = said[session.interface].protocol

=============================================================================
