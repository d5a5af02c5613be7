------------------------- MODULE PancakeHTTPFastCGI -------------------------
(***************************************************************************)
(* The FastCGI backend (PancakeHTTPFastCGI.c): it relays the requests of   *)
(* clients to one FastCGI server, over connections that it may keep and    *)
(* share, and the answers back.  A table says which request goes under     *)
(* which id over which connection.                                         *)
(*                                                                         *)
(* Of the HTTP module (PancakeHTTPConnection) and of the architecture      *)
(* (PancakeLinuxPoll) as much is here as FastCGI touches.  Buffers of      *)
(* clients are empty or not; those of connections hold records.  What the  *)
(* server answers is chosen when it is read, among the requests it has     *)
(* been given: it is a server that keeps to the protocol.  Habits are      *)
(* three liberties which the protocol gives it:                            *)
(*   "early"    it answers before it has got the whole body;               *)
(*   "flushes"  it sends the headers in a record of their own, and output  *)
(*              only after it;                                             *)
(*   "hasty"    it ends a request before it has said, over another         *)
(*              connection, that it multiplexes.                           *)
(* Each has a run of its own that shows what goes wrong.                   *)
(***************************************************************************)
EXTENDS Integers, SequencesExt

CONSTANTS Client,        \* memory for client sockets (bound on their number)
          Connection,    \* memory for sockets to the server (bound, too)
          MaxRequestID,  \* size of the table
          Initialized,   \* how many entries of the table are set to NULL
          Setups,        \* client->keepAlive, what the server says when asked
                         \* for FCGI_MPXS_CONNS, and the requests clients make
          Habits,        \* what the server takes the liberty to do
          NULL, Garbage

Kinds == [http10 : BOOLEAN, head : BOOLEAN, body : Nat]
ASSUME TableAssumption ==
  /\ MaxRequestID \in Nat \ {0} /\ Initialized \in 1..MaxRequestID
  /\ Setups \subseteq [keepAlive : BOOLEAN, multiplexes : BOOLEAN, kinds : SUBSET Kinds]
  /\ Habits \subseteq {"early", "flushes", "hasty"}
  /\ {NULL, Garbage} \intersect (Client \union Connection) = {}
  /\ Client \intersect Connection = {}

VARIABLES
  setup,       \* the one of Setups
  client,      \* the sockets of clients, with their requests
  connection,  \* the sockets to the server
  requests,    \* client->requests: the request (the client it is of) by id
  sockets,     \* client->sockets: the connection it goes over
  highest,     \* client->highestRequestID
  cache,       \* client->connectionCache
  multiplex,   \* client->multiplex: -1 is "unknown"
  current,     \* the socket of the event at hand
  pending      \* the handlers still to be called for it

table == <<requests, sockets, highest>>
server == <<setup, connection, cache, multiplex>>
vars == <<client, table, server, current, pending>>

Id == 0..(MaxRequestID - 1)
Handlers == {"read", "write", "hangup"}

(* "watched" says that epoll knows the socket; "full" that there is        *)
(* something to write; "body" is clientContentLength; "id" is              *)
(* contentServeData.                                                       *)
Clients ==
  [state : {"closed", "idle", "request"}, watched : BOOLEAN,
   interest : SUBSET {"in", "out"},
   onRead : {"HTTP", "OnClientRead"},
   onWrite : {"none", "OnWrite", "FullWriteBuffer"},
   onRemoteHangup : {"HTTP", "OnClientHangup"},
   hangup : BOOLEAN, headerComplete : BOOLEAN, http10 : BOOLEAN, head : BOOLEAN,
   headerSent : BOOLEAN, chunked : BOOLEAN, full : BOOLEAN,
   body : Nat, id : Id]

(* "live" are the ids under which the server works for us; 0 is the        *)
(* question for its capabilities.                                          *)
Record == [type : {"values", "begin", "stdin", "abort"}, id : Id]
Connections ==
  [open : BOOLEAN, interest : SUBSET {"in", "out"}, buffer : Seq(Record),
   uncached : BOOLEAN, live : SUBSET Id]

TypeOK ==
  /\ client \in [Client -> Clients]
  /\ connection \in [Connection -> Connections]
  /\ requests \in [Id -> Client \union {NULL, Garbage}]
  /\ sockets \in [Id -> Connection \union {NULL, Garbage}]
  /\ highest \in Id
  /\ cache \in Seq(Connection)
  /\ multiplex \in {"unknown", "no", "yes"}
  /\ current \in Client \union Connection \union {NULL}
  /\ pending \in SUBSET Handlers

ClosedClient ==
  [state |-> "closed", watched |-> FALSE, interest |-> {}, onRead |-> "HTTP",
   onWrite |-> "none", onRemoteHangup |-> "HTTP", hangup |-> FALSE,
   headerComplete |-> FALSE, http10 |-> FALSE, head |-> FALSE,
   headerSent |-> FALSE, chunked |-> FALSE, full |-> FALSE, body |-> 0, id |-> 0]

ClosedConnection ==
  [open |-> FALSE, interest |-> {}, buffer |-> <<>>, uncached |-> FALSE, live |-> {}]

-----------------------------------------------------------------------------
(* The HTTP module, for one client.                                        *)

Set(s, interest) == [s EXCEPT !.watched = TRUE, !.interest = interest]
Add(s, interest) == Set(s, s.interest \union interest)

BuildAnswerHeaders(s) ==
  [s EXCEPT !.headerSent = TRUE, !.chunked = @ /\ ~s.http10, !.full = TRUE]

Exception(s) ==
  [Set(BuildAnswerHeaders(s), {"out"}) EXCEPT !.onWrite = "FullWriteBuffer"]

(* Before HTTP/1.1 everything is collected first.                          *)
OutputChunk(s) ==
  [(IF s.http10 \/ s.headerSent THEN s ELSE BuildAnswerHeaders(s)) EXCEPT !.full = TRUE]

(* The connection is kept, with its write handler, or closed.              *)
Released(s) ==
  {[Set(ClosedClient, {"in"}) EXCEPT !.state = "idle", !.onWrite = s.onWrite],
   ClosedClient}

LastChunk(s) ==
  [Set(s, {"out"}) EXCEPT !.chunked = FALSE, !.full = TRUE, !.onWrite = "FullWriteBuffer"]

(* A chunked body first gets its last chunk, which has to be written.  (If *)
(* that fails the callers say what happens.)                               *)
OnRequestEnd(s) ==
  Released(s) \union (IF s.chunked /\ ~s.head THEN {LastChunk(s)} ELSE {})

(* It writes a part, fails, or writes everything.                          *)
FullWriteBuffer(s) == {s, ClosedClient} \union OnRequestEnd([s EXCEPT !.full = FALSE])

OnWrite(s) == {s, [Set(s, {}) EXCEPT !.full = FALSE]}

RemoveSocket(s) == [s EXCEPT !.watched = FALSE, !.interest = {}]

-----------------------------------------------------------------------------
(* Connections to the server.                                              *)

Begun(records) == {r.id : r \in {x \in ToSet(records) : x.type \in {"values", "begin"}}}

(* PancakeNetworkWrite: the server gets any part of the buffer.            *)
Written(k) ==
  {[k EXCEPT !.buffer = SubSeq(@, n + 1, Len(@)),
             !.live = @ \union Begun(SubSeq(k.buffer, 1, n))] : n \in 0..Len(k.buffer)}

(* PancakeHTTPFastCGIOnWrite                                               *)
OnWriteServer(k) ==
  {IF w.buffer = <<>> THEN [w EXCEPT !.interest = {"in"}] ELSE w : w \in Written(k)}

(* What is added to the buffer is written at once as far as it goes.       *)
Send(k, records, interest) ==
  {IF w.buffer = <<>> THEN w ELSE [w EXCEPT !.interest = @ \union interest] :
     w \in OnWriteServer([k EXCEPT !.buffer = @ \o records])}

(* A part of the body of a request, with its end if it is the last.        *)
WriteContentBody(k, n, id) ==
  IF n = 0 THEN {k} ELSE Send(k, <<[type |-> "stdin", id |-> id]>>, {"out"})

Fresh == [ClosedConnection EXCEPT !.open = TRUE]
FreeMemory(kk) == {k \in Connection : ~kk[k].open}

-----------------------------------------------------------------------------
(* Serving a request.                                                      *)

Idle == pending = {}

Init ==
  /\ setup \in Setups
  /\ client = [c \in Client |-> ClosedClient]
  /\ connection = [k \in Connection |-> ClosedConnection]
  /\ requests \in [Id -> {NULL, Garbage}]
  /\ sockets \in [Id -> {NULL, Garbage}]
  /\ \A i \in Id :
       /\ i < Initialized => requests[i] = NULL /\ sockets[i] = NULL
       /\ requests[i] = Garbage <=> sockets[i] = Garbage
  /\ highest = 0
  /\ cache = <<>>
  /\ multiplex = "unknown"
  /\ current = NULL
  /\ pending = {}

Accept(c) ==
  /\ Idle
  /\ client[c].state = "closed"
  /\ client' = [client EXCEPT ![c] = [Set(@, {"in"}) EXCEPT !.state = "idle"]]
  /\ UNCHANGED <<table, server, current, pending>>

(* PancakeHTTPReadHeaderData, when a request is complete: reading is       *)
(* disabled.                                                               *)
Requested(s) ==
  {[Set(s, {}) EXCEPT !.state = "request", !.http10 = r.http10, !.head = r.head,
                      !.body = r.body] : r \in setup.kinds}

(* A server that is to keep connections is asked what it can do, over a    *)
(* connection of its own.                                                  *)
Asks == setup.keepAlive /\ multiplex = "unknown"

Asked(kk) ==
  IF Asks
  THEN UNION {{[kk EXCEPT ![k] = w] :
                 w \in Send(Fresh, <<[type |-> "values", id |-> 0]>>, {"out"})} :
               k \in FreeMemory(kk)}
  ELSE {kk}

(* mutant: the id of a client that is gone is taken for free               *)
ReusesIds ==
  {i \in Id \ {0} : requests[i] = NULL
                      \/ (requests[i] \in Client /\ client[requests[i]].hangup)}

FreeIds == {i \in Id \ {0} : requests[i] = NULL}

(* PancakeNetworkConnect: from the cache, where a connection stays that    *)
(* can be shared, or a new one.                                            *)
Connect(kk, k) ==
  IF cache # <<>>
  THEN k = Head(cache) /\ cache' = IF multiplex = "yes" THEN cache ELSE Tail(cache)
  ELSE k \in FreeMemory(kk) /\ cache' = IF multiplex = "yes" THEN <<k>> ELSE cache

(* The connection, marked as uncached while it is unknown what the server  *)
(* can do, with the begin of the request and n tokens of its body.         *)
Started(k, id, n) ==
  LET marked == [k EXCEPT !.open = TRUE, !.uncached = @ \/ Asks] IN
  UNION {WriteContentBody(w, n, id) :
           w \in Send(marked, <<[type |-> "begin", id |-> id]>>, {"out"})}

(* The request, which has sent n tokens of its body.                       *)
Relayed(s, id, n) ==
  LET r == [s EXCEPT !.onRemoteHangup = "OnClientHangup", !.chunked = TRUE,
                     !.id = id, !.body = @ - n]
  IN IF r.body > 0 THEN [Set(r, {"in"}) EXCEPT !.onRead = "OnClientRead"] ELSE r

(* No connection to ask over, no id or no connection for the request: an   *)
(* error page.                                                             *)
Refuse(c, s) ==
  /\ \/ Asks /\ connection' = connection
     \/ (FreeIds = {} \/ cache = <<>>) /\ connection' \in Asked(connection)
  /\ client' = [client EXCEPT ![c] = Exception(s)]
  /\ UNCHANGED <<table, setup, cache, multiplex>>

Serve(c, s) ==
  /\ FreeIds # {}
  /\ LET id == Min(FreeIds) IN
     /\ \E kk \in Asked(connection), k \in Connection, n \in 0..s.body :
          /\ Connect(kk, k)
          /\ \E w \in Started(kk[k], id, n) : connection' = [kk EXCEPT ![k] = w]
          /\ client' = [client EXCEPT ![c] = Relayed(s, id, n)]
          /\ sockets' = [sockets EXCEPT ![id] = k]
     /\ requests' = [requests EXCEPT ![id] = c]
     /\ highest' = Max({highest, id})
  /\ UNCHANGED <<setup, multiplex>>

-----------------------------------------------------------------------------
(* What the server sends.                                                  *)

(* The server has the whole request, as far as we have got it, or does not *)
(* care; it knows that a client is gone from the abort.                    *)
Answers(k, id) ==
  /\ id \in connection[k].live \ {0}
  /\ \/ "early" \in Habits
     \/ /\ \A r \in ToSet(connection[k].buffer) : r.id # id
        /\ LET s == client[requests[id]] IN s.body = 0 \/ s.hangup

(* mutant: the write handler is not set                                    *)
HeaderKeepsHandler(s, output) ==
  LET h == [s EXCEPT !.headerComplete = TRUE] IN
  IF s.head \/ ~output THEN h
  ELSE IF s.http10 THEN OutputChunk(h) ELSE Add(OutputChunk(h), {"out"})

(* FCGI_STDOUT with the headers.  The write handler is only set if there   *)
(* is output with them.                                                    *)
Header(s, output) ==
  LET h == [s EXCEPT !.headerComplete = TRUE] IN
  IF s.head \/ ~output THEN h
  ELSE IF s.http10 THEN OutputChunk(h)
  ELSE [Add(OutputChunk(h), {"out"}) EXCEPT !.onWrite = "OnWrite"]

(* FCGI_STDOUT after the headers: whatever write handler is there stays.   *)
Body(s) ==
  IF s.head THEN s ELSE IF s.http10 THEN OutputChunk(s)
  ELSE Add(OutputChunk(s), {"out"})

Stdout(k, id) ==
  /\ Answers(k, id)
  /\ LET c == requests[id]
         s == client[c]
     IN client' \in
          IF s.hangup THEN {client}
          ELSE IF ~s.headerComplete
          THEN {[client EXCEPT ![c] = Header(s, output)] : output \in BOOLEAN}
          ELSE IF s.headerSent \/ s.head \/ s.http10 \/ "flushes" \in Habits
          THEN {[client EXCEPT ![c] = Body(s)]} ELSE {}
  /\ UNCHANGED <<table, server>>

(* mutant: a client that waited for nothing to write is not woken up       *)
AnsweredLater(s) ==
  LET t == [s EXCEPT !.onRemoteHangup = "HTTP", !.onWrite = "FullWriteBuffer"]
  IN IF t.headerSent THEN t ELSE BuildAnswerHeaders(t)

(* The client is answered: headers if there were none, then the rest.      *)
Answered(s) ==
  LET t == [s EXCEPT !.onRemoteHangup = "HTTP", !.onWrite = "FullWriteBuffer"]
  IN Set(IF t.headerSent THEN t ELSE BuildAnswerHeaders(t), {"out"})

EndRequest(k, id) ==
  /\ Answers(k, id)
  /\ Asks /\ setup.multiplexes => "hasty" \in Habits
  /\ LET c == requests[id]
         s == client[c]
         known == multiplex # "unknown"
         caches == setup.keepAlive /\ (connection[k].uncached \/ multiplex = "no")
     IN /\ requests' = [requests EXCEPT ![id] = NULL]
        /\ sockets' = [sockets EXCEPT ![id] = NULL]
        /\ cache' = IF caches THEN <<k>> \o cache ELSE cache
        /\ connection' = [connection EXCEPT
             ![k].live = @ \ {id}, ![k].uncached = @ /\ ~(setup.keepAlive /\ known)]
        /\ client' = [client EXCEPT ![c] =
             IF s.hangup THEN ClosedClient ELSE Answered(s)]
  /\ UNCHANGED <<setup, highest, multiplex>>

(* FCGI_GET_VALUES_RESULT, with what was asked for or without it.          *)
GetValuesResult(k) ==
  /\ 0 \in connection[k].live
  /\ multiplex' \in {multiplex, IF setup.multiplexes THEN "yes" ELSE "no"}
  /\ connection' = [connection EXCEPT ![k] = ClosedConnection]
  /\ UNCHANGED <<client, table, setup, cache>>

(* What becomes of a request whose connection is lost.                     *)
Lost(s) ==
  IF s.hangup THEN {ClosedClient}
  ELSE IF ~s.headerSent THEN {Exception([s EXCEPT !.chunked = FALSE])}
  ELSE IF s.full THEN {[s EXCEPT !.onWrite = "FullWriteBuffer"]}
  ELSE OnRequestEnd(s)

StaysCached(k) == cache  \* A bug: the cache is not told

(* PancakeNetworkUncacheConnection                                         *)
Uncached(k) ==
  IF k \in ToSet(cache)
  THEN RemoveAt(cache, Min({i \in DOMAIN cache : cache[i] = k})) ELSE cache

(* mutant: one entry short                                                 *)
IdsBelow(k) == {i \in 0..(highest - 1) : sockets[i] = k}

(* The entries of the table that are looked at.                            *)
IdsOn(k) == {i \in 0..highest : sockets[i] = k}

OnRemoteHangup(k) ==
  LET ids == IdsOn(k)
      lost == {requests[i] : i \in ids}
  IN /\ \E t \in [lost -> UNION {Lost(client[c]) : c \in lost}] :
          /\ \A c \in lost : t[c] \in Lost(client[c])
          /\ client' = [c \in Client |-> IF c \in lost THEN t[c] ELSE client[c]]
     /\ requests' = [i \in Id |-> IF i \in ids THEN NULL ELSE requests[i]]
     /\ sockets' = [i \in Id |-> IF i \in ids THEN NULL ELSE sockets[i]]
     /\ cache' = Uncached(k)
     /\ connection' = [connection EXCEPT ![k] = ClosedConnection]
     /\ UNCHANGED <<setup, highest, multiplex>>

-----------------------------------------------------------------------------
(* The handlers of a client while its request is relayed.                  *)

OnClientHangup(c) ==
  LET s == client[c]
      k == sockets[s.id]
      abort == <<[type |-> "abort", id |-> s.id]>>
  IN \/ /\ s.hangup
        /\ client' = [client EXCEPT ![c] = RemoveSocket(s)]
        /\ UNCHANGED <<table, server>>
     \/ /\ ~s.hangup
        /\ k = NULL \/ requests[s.id] # c
        /\ client' = [client EXCEPT ![c] = ClosedClient]
        /\ UNCHANGED <<table, server>>
     \/ /\ ~s.hangup
        /\ k # NULL /\ requests[s.id] = c
        /\ client' = [client EXCEPT ![c] = [RemoveSocket(s) EXCEPT !.hangup = TRUE]]
        /\ \E w \in Send(connection[k], abort, {"in", "out"}) :
             connection' = [connection EXCEPT ![k] = w]
        /\ UNCHANGED <<table, setup, cache, multiplex>>

OnHangup(c) ==
  \/ client[c].onRemoteHangup = "OnClientHangup" /\ OnClientHangup(c)
  \/ /\ client[c].onRemoteHangup = "HTTP"
     /\ client' = [client EXCEPT ![c] = ClosedClient]
     /\ UNCHANGED <<table, server>>

(* More of the body, all of it if that is what is left; nothing, or more   *)
(* than was announced, which is dropped; or reading fails.                 *)
OnClientRead(c) ==
  LET s == client[c]
      k == sockets[s.id]
  IN \/ \E n \in 0..s.body :
          LET r == [s EXCEPT !.body = @ - n] IN
          /\ k # NULL
          /\ client' = [client EXCEPT ![c] =
               IF r.body = 0 THEN [r EXCEPT !.interest = @ \ {"in"}] ELSE r]
          /\ \E w \in WriteContentBody(connection[k], n, s.id) :
               connection' = [connection EXCEPT ![k] = w]
          /\ UNCHANGED <<table, setup, cache, multiplex>>
     \/ OnHangup(c)

-----------------------------------------------------------------------------
(* The architecture.                                                       *)

(* epoll reports an event of a socket.                                     *)
Report(x, interest) ==
  /\ Idle
  /\ \E p \in SUBSET Handlers :
       /\ p # {}
       /\ "read" \in p => "in" \in interest
       /\ "write" \in p => "out" \in interest
       /\ pending' = p
  /\ current' = x
  /\ UNCHANGED <<client, table, server>>

Ready(c) == client[c].watched /\ Report(c, client[c].interest)
ReadyServer(k) == connection[k].open /\ Report(k, connection[k].interest)

(* The handlers of an event are called in this order.                      *)
Turn(handler) ==
  /\ handler \in pending
  /\ handler = "write" => "read" \notin pending
  /\ handler = "hangup" => pending = {"hangup"}

(* No other one is called once the socket of the event was closed.         *)
Called(handler, open) ==
  /\ pending' = IF open THEN pending \ {handler} ELSE {}
  /\ current' = IF pending' = {} THEN NULL ELSE current

CalledClient(c, handler) == Called(handler, client'[c].state # "closed")
CalledServer(k, handler) == Called(handler, connection'[k].open)

(* The handler that reads requests: it closes, waits for more, or serves.  *)
ReadRequest(c) ==
  /\ current = c /\ Turn("read")
  /\ client[c].onRead = "HTTP"
  /\ \/ /\ client' \in {client, [client EXCEPT ![c] = ClosedClient]}
        /\ UNCHANGED <<table, server>>
     \/ \E s \in Requested(client[c]) : Refuse(c, s) \/ Serve(c, s)
  /\ CalledClient(c, "read")

ReadBody(c) ==
  /\ current = c /\ Turn("read")
  /\ client[c].onRead = "OnClientRead"
  /\ OnClientRead(c)
  /\ CalledClient(c, "read")

(* With "none" the pointer was never set, and what a call of it does is    *)
(* undefined: no step.                                                     *)
WriteClient(c) ==
  /\ current = c /\ Turn("write")
  /\ LET s == client[c] IN
     \/ /\ s.onWrite = "FullWriteBuffer"
        /\ \E t \in FullWriteBuffer(s) : client' = [client EXCEPT ![c] = t]
        /\ UNCHANGED <<table, server>>
     \/ /\ s.onWrite = "OnWrite"
        /\ \E t \in OnWrite(s) : client' = [client EXCEPT ![c] = t]
        /\ UNCHANGED <<table, server>>
     \/ s.onWrite = "OnWrite" /\ OnHangup(c)
  /\ CalledClient(c, "write")

HangupClient(c) ==
  /\ current = c /\ Turn("hangup")
  /\ OnHangup(c)
  /\ CalledClient(c, "hangup")

(* One record, or an unknown id, or reading fails.  Reading several at     *)
(* once is like several events, as nobody else runs in between.            *)
ReadServer(k) ==
  /\ current = k /\ Turn("read")
  /\ \/ \E id \in Id : Stdout(k, id) \/ EndRequest(k, id)
     \/ GetValuesResult(k)
     \/ OnRemoteHangup(k)
  /\ CalledServer(k, "read")

WriteServer(k) ==
  /\ current = k /\ Turn("write")
  /\ \/ /\ \E w \in OnWriteServer(connection[k]) : connection' = [connection EXCEPT ![k] = w]
        /\ UNCHANGED <<client, table, setup, cache, multiplex>>
     \/ OnRemoteHangup(k)
  /\ CalledServer(k, "write")

HangupServer(k) ==
  /\ current = k /\ Turn("hangup")
  /\ OnRemoteHangup(k)
  /\ CalledServer(k, "hangup")

Next ==
  \/ \E c \in Client : \/ Accept(c) \/ Ready(c)
                       \/ ReadRequest(c) \/ ReadBody(c) \/ WriteClient(c) \/ HangupClient(c)
  \/ \E k \in Connection : \/ ReadyServer(k)
                           \/ ReadServer(k) \/ WriteServer(k) \/ HangupServer(k)

Spec == Init /\ [][Next]_vars

-----------------------------------------------------------------------------
(* Properties.                                                             *)

InTable(c) == \E i \in Id : requests[i] = c

(* The two halves of the table agree; a request in it is under way, knows  *)
(* its id, has only one, and would tell the server if its client hung up;  *)
(* the loops that go up to highestRequestID see all of it.                 *)
TableMatches ==
  /\ requests[0] = NULL /\ sockets[0] = NULL
  /\ \A i \in Id :
       /\ requests[i] \in Client <=> sockets[i] \in Connection
       /\ requests[i] \in Client =>
            /\ i <= highest
            /\ connection[sockets[i]].open
            /\ LET s == client[requests[i]] IN
               s.state = "request" /\ s.id = i /\ s.onRemoteHangup = "OnClientHangup"

(* What the server works on under an id is the request the table has under *)
(* it, over the same connection: no answer reaches somebody else, not even *)
(* after hangups of clients and the reuse of ids.                          *)
ServerAgrees ==
  \A k \in Connection :
    (connection[k].live \union Begun(connection[k].buffer)) \ {0}
      = {i \in Id : sockets[i] = k}

(* Nobody waits in vain: a client either is in the table, and then its     *)
(* connection is read or still to be written, or is answered and will be   *)
(* written to by the handler that ends the request.                        *)
NobodyForgotten ==
  /\ \A c \in Client :
       LET s == client[c] IN
       s.state = "request" /\ ~InTable(c) =>
         s.watched /\ "out" \in s.interest /\ s.onWrite = "FullWriteBuffer"
  /\ \A k \in Connection :
       LET n == connection[k] IN
       n.open => "in" \in n.interest \/ ("out" \in n.interest /\ n.buffer # <<>>)

(* While the server answers, the handler that is to write its output is    *)
(* the one that does not end the request ("write function will end         *)
(* request", PancakeHTTPFastCGI.c:662, is for the end only), and no        *)
(* handler of the connection reads the body for a request that is not in   *)
(* the table any more.  Servers that flush the headers break it.           *)
HandlersMatch ==
  /\ TypeOK
  /\ \A c \in Client :
       LET s == client[c] IN
       /\ InTable(c) /\ "out" \in s.interest => s.onWrite = "OnWrite"
       /\ s.onRead = "OnClientRead" /\ "in" \in s.interest => InTable(c)

(* The cache has open connections, each once, and as long as the server    *)
(* is not known to multiplex none with a request under way; only a server  *)
(* that said it can is given two requests over a connection.  Hasty        *)
(* servers break it.                                                       *)
CacheSound ==
  /\ IsInjective(cache)
  /\ \A k \in ToSet(cache) :
       /\ connection[k].open
       /\ multiplex # "yes" => \A i \in Id : sockets[i] # k
  /\ multiplex # "yes" =>
       \A i, j \in Id : sockets[i] \in Connection /\ sockets[i] = sockets[j] => i = j

(* "Transmit client data" (PancakeHTTPFastCGI.c:1041): as long as some of  *)
(* the body is to come, the client is read.                                *)
ClientDataTransmitted ==
  \A c \in Client :
    InTable(c) /\ client[c].body > 0 /\ ~client[c].hangup => "in" \in client[c].interest
=============================================================================
