--------------------- MODULE PancakeHTTPFastCGIProofs ---------------------
(***************************************************************************)
(* Proofs about PancakeHTTPFastCGI: for any number of clients and          *)
(* connections, any size of the table and whatever is in the part of it    *)
(* that is not cleared, the table, the server and the cache agree on who   *)
(* is served over which connection, and every client is remembered.        *)
(*                                                                         *)
(* A client is Idling, Relaying (then and only then it is in the table),   *)
(* Replying or closed; each handler is shown to lead from one to another.  *)
(* Most steps leave the table alone (Keeps); the others are a request that *)
(* is refused, served or ended, the answer to the question for what the    *)
(* server can do, and a connection that is lost.                           *)
(***************************************************************************)
EXTENDS PancakeHTTPFastCGI, SequenceTheorems, WellFoundedInduction, TLAPS

(* The server answers when it has the whole body, sends output with the    *)
(* headers or not at all, and says what it can do before it ends the first *)
(* request: without any of these the theorems are false, as the runs for   *)
(* each of the habits show.                                                *)
Patient == Habits = {}

-----------------------------------------------------------------------------
(* The states of a client.                                                 *)

Idling(s) ==
  /\ s \in Clients /\ s.state = "idle" /\ s.interest = {"in"}
  /\ s.onRead = "HTTP" /\ s.onRemoteHangup = "HTTP"
  /\ ~s.hangup /\ ~s.headerComplete /\ ~s.headerSent /\ ~s.full

(* Its request is in the table.  Reading goes on for the body only, which  *)
(* is complete before there is output; one that hung up is not watched for *)
(* anything.                                                               *)
Relaying(s) ==
  /\ s \in Clients /\ s.state = "request" /\ s.onRemoteHangup = "OnClientHangup"
  /\ "in" \in s.interest => s.onRead = "OnClientRead" /\ s.body > 0
  /\ "out" \in s.interest => s.headerSent
  /\ s.headerSent => s.headerComplete /\ ~s.http10
  /\ s.headerComplete /\ ~s.hangup => s.body = 0
  /\ s.headerSent /\ ~s.hangup => s.onWrite = "OnWrite"
  /\ s.headerSent /\ ~s.hangup /\ s.full => s.watched /\ "out" \in s.interest
  /\ s.hangup => s.interest = {}

(* It is answered.                                                         *)
Replying(s) ==
  /\ s \in Clients /\ s.state = "request" /\ s.watched /\ s.interest = {"out"}
  /\ s.onWrite = "FullWriteBuffer" /\ ~s.hangup

Unrelated(s) == s = ClosedClient \/ Idling(s) \/ Replying(s)

ClientsMatch ==
  \A c \in Client : IF InTable(c) THEN Relaying(client[c]) ELSE Unrelated(client[c])

-----------------------------------------------------------------------------
(* The states of a connection.                                             *)

Known(k) == k.live \union Begun(k.buffer)

Awaiting(k) == "in" \in k.interest \/ ("out" \in k.interest /\ k.buffer # <<>>)

Connected(k) ==
  /\ k \in Connections
  /\ IF k.open THEN Awaiting(k) ELSE k = ClosedConnection

ConnectionsMatch == \A k \in Connection : Connected(connection[k])

(* The connection over which the server is asked is for nothing else.      *)
AskedApart ==
  \A k \in Connection :
    0 \in Known(connection[k]) =>
      k \notin ToSet(cache) /\ \A i \in Id : sockets[i] # k

(* What is known of the server was said by it; who is still to be cached   *)
(* is not, unless the server does not multiplex.                           *)
MultiplexMatches ==
  /\ setup \in Setups
  /\ multiplex = "yes" => setup.multiplexes
  /\ multiplex = "no" => ~setup.multiplexes
  /\ \A k \in ToSet(cache) : connection[k].uncached => ~setup.multiplexes

Types ==
  /\ client \in [Client -> Clients]
  /\ connection \in [Connection -> Connections]
  /\ requests \in [Id -> Client \union {NULL, Garbage}]
  /\ sockets \in [Id -> Connection \union {NULL, Garbage}]
  /\ highest \in Id
  /\ cache \in Seq(Connection)
  /\ multiplex \in {"unknown", "no", "yes"}

Core ==
  /\ Types /\ ClientsMatch /\ ConnectionsMatch /\ TableMatches /\ ServerAgrees
  /\ CacheSound /\ AskedApart /\ MultiplexMatches

(* The handlers that are still to be called are those of a socket that is  *)
(* open, and that asked for them.                                          *)
PendingMatches ==
  /\ current \in Client \union Connection \union {NULL}
  /\ pending \in SUBSET Handlers
  /\ pending # {} =>
       /\ current \in Client =>
            LET s == client[current] IN
            /\ s.state # "closed"
            /\ "read" \in pending => "in" \in s.interest
            /\ "write" \in pending => "out" \in s.interest
       /\ current \in Connection => connection[current].open

IInv == Core /\ PendingMatches
-----------------------------------------------------------------------------
(* Clients.                                                                *)

(* A closed client is one.                                                 *)
LEMMA ClosedClientType == ClosedClient \in Clients
BY TableAssumption DEF ClosedClient, Clients, Id

(* A client that is accepted, or kept, is idle.                            *)
LEMMA IdleAgain ==
  ASSUME NEW w \in {"none", "OnWrite", "FullWriteBuffer"}
  PROVE  Idling([Set(ClosedClient, {"in"}) EXCEPT !.state = "idle", !.onWrite = w])
<1> DEFINE t == [Set(ClosedClient, {"in"}) EXCEPT !.state = "idle", !.onWrite = w]
           s == ClosedClient
<1>1. t = [s EXCEPT !.watched = TRUE, !.interest = {"in"}, !.state = "idle", !.onWrite = w]
  BY DEF Set
<1>2. /\ s \in Clients /\ s.onRead = "HTTP" /\ s.onRemoteHangup = "HTTP"
      /\ ~s.hangup /\ ~s.headerComplete /\ ~s.headerSent /\ ~s.full
  BY ClosedClientType DEF ClosedClient
<1> HIDE DEF t, s
<1>3. t \in Clients
  BY <1>1, <1>2 DEF Clients
<1> QED BY <1>1, <1>2, <1>3, ZenonT(40) DEF Idling, Clients, t

(* A request has been read, and reading is disabled.                       *)
Asking(s) ==
  /\ s \in Clients /\ s.state = "request" /\ s.interest = {} /\ s.onRead = "HTTP"
  /\ ~s.hangup /\ ~s.headerComplete /\ ~s.headerSent /\ ~s.full

(* A request that has been read asks for nothing yet.                      *)
LEMMA RequestedAsks ==
  ASSUME setup \in Setups, NEW s, Idling(s), NEW t \in Requested(s)
  PROVE  Asking(t)
<1>1. PICK r \in setup.kinds :
        t = [Set(s, {}) EXCEPT !.state = "request", !.http10 = r.http10, !.head = r.head,
                               !.body = r.body]
  BY DEF Requested
<1>2. r.http10 \in BOOLEAN /\ r.head \in BOOLEAN /\ r.body \in Nat
  BY TableAssumption DEF Kinds
<1> DEFINE a == r.http10
           b == r.head
           n == r.body
<1>3. a \in BOOLEAN /\ b \in BOOLEAN /\ n \in Nat
  BY <1>2
<1>4. t = [s EXCEPT !.watched = TRUE, !.interest = {}, !.state = "request", !.http10 = a,
                    !.head = b, !.body = n]
  BY <1>1 DEF Set
<1>5. s \in Clients
  BY DEF Idling
<1> HIDE DEF a, b, n
<1>6. t \in Clients
  BY <1>3, <1>4, <1>5 DEF Clients
<1> QED BY <1>4, <1>5, <1>6 DEF Idling, Asking, Clients

(* An error page, whatever there was before.                               *)
LEMMA ExceptionReplies ==
  ASSUME NEW s \in Clients, s.state = "request", ~s.hangup
  PROVE  Replying(Exception(s))
<1> DEFINE t == Exception(s)
           b == s.chunked /\ ~s.http10
<1>1. b \in BOOLEAN
  BY DEF Clients
<1>2. t = [s EXCEPT !.headerSent = TRUE, !.chunked = b, !.full = TRUE, !.watched = TRUE,
                    !.interest = {"out"}, !.onWrite = "FullWriteBuffer"]
  BY DEF Exception, BuildAnswerHeaders, Set
<1> HIDE DEF t, b
<1>3. t \in Clients
  BY <1>1, <1>2 DEF Clients
<1>4. Replying(t)
  BY <1>2, <1>3 DEF Replying, Clients
<1> QED BY <1>4 DEF t

(* A request that is given to the server is relayed.                       *)
LEMMA RelayedRelays ==
  ASSUME NEW s, Asking(s), NEW id \in Id, NEW n \in 0..s.body
  PROVE  Relaying(Relayed(s, id, n)) /\ Relayed(s, id, n).id = id
<1> DEFINE m == s.body - n
           r == [s EXCEPT !.onRemoteHangup = "OnClientHangup", !.chunked = TRUE,
                          !.id = id, !.body = m]
           t == Relayed(s, id, n)
<1>1. s \in Clients /\ s.body \in Nat
  BY DEF Asking, Clients
<1>2. m \in Nat
  BY <1>1
<1>3. r = [s EXCEPT !.onRemoteHangup = "OnClientHangup", !.chunked = TRUE,
                    !.id = id, !.body = m]
  OBVIOUS
<1>4. t = IF r.body > 0
          THEN [r EXCEPT !.watched = TRUE, !.interest = {"in"}, !.onRead = "OnClientRead"]
          ELSE r
  BY DEF Relayed, Set
<1> HIDE DEF m, r, t
<1>5. r \in Clients
  BY <1>1, <1>2, <1>3 DEF Clients
<1>6. /\ r.onRemoteHangup = "OnClientHangup" /\ r.id = id /\ r.body = m
      /\ r.state = "request" /\ r.interest = {}
      /\ ~r.hangup /\ ~r.headerComplete /\ ~r.headerSent /\ ~r.full
  BY <1>1, <1>3, <1>5 DEF Asking, Clients
<1>7. CASE r.body > 0
  <2>1. t \in Clients
    BY <1>4, <1>5, <1>7 DEF Clients
  <2>2. /\ t.onRemoteHangup = "OnClientHangup" /\ t.id = id /\ t.body > 0
        /\ t.state = "request" /\ t.interest = {"in"} /\ t.onRead = "OnClientRead"
        /\ ~t.hangup /\ ~t.headerComplete /\ ~t.headerSent /\ ~t.full
    BY <1>4, <1>5, <1>6, <1>7 DEF Clients
  <2> QED BY <2>1, <2>2 DEF Relaying, t
<1>8. CASE ~(r.body > 0)
  BY <1>4, <1>5, <1>6, <1>8 DEF Relaying, t
<1> QED BY <1>7, <1>8

(* Output is put into the buffer.                                          *)
LEMMA ChunkFacts ==
  ASSUME NEW s \in Clients, NEW t, t = OutputChunk(s)
  PROVE  /\ t \in Clients /\ t.full /\ (t.headerSent <=> s.headerSent \/ ~s.http10)
         /\ t.state = s.state /\ (t.watched <=> s.watched) /\ t.interest = s.interest
         /\ t.onRead = s.onRead /\ t.onWrite = s.onWrite
         /\ t.onRemoteHangup = s.onRemoteHangup /\ (t.hangup <=> s.hangup)
         /\ (t.headerComplete <=> s.headerComplete) /\ t.body = s.body /\ t.id = s.id
         /\ (t.http10 <=> s.http10)
<1>1. CASE s.http10 \/ s.headerSent
  <2>1. t = [s EXCEPT !.full = TRUE]
    BY <1>1 DEF OutputChunk
  <2>2. t \in Clients
    BY <2>1 DEF Clients
  <2> QED BY <1>1, <2>1, <2>2 DEF Clients
<1>2. CASE ~(s.http10 \/ s.headerSent)
  <2> DEFINE b == s.chunked /\ ~s.http10
  <2>1. b \in BOOLEAN
    BY DEF Clients
  <2>2. t = [s EXCEPT !.headerSent = TRUE, !.chunked = b, !.full = TRUE]
    BY <1>2 DEF OutputChunk, BuildAnswerHeaders
  <2> HIDE DEF b
  <2>3. t \in Clients
    BY <2>1, <2>2 DEF Clients
  <2> QED BY <1>2, <2>2, <2>3 DEF Clients
<1> QED BY <1>1, <1>2

(* A client whose request goes on under its id.                            *)
Goes(s, t) == Relaying(t) /\ t.id = s.id

(* The headers of an answer leave a request in the table.                  *)
LEMMA HeaderGoes ==
  ASSUME NEW s, Relaying(s), ~s.hangup, s.body = 0, NEW output \in BOOLEAN
  PROVE  Goes(s, Header(s, output))
<1> DEFINE h == [s EXCEPT !.headerComplete = TRUE]
           o == OutputChunk(h)
           i == o.interest \union {"out"}
           t == Header(s, output)
<1>1. s \in Clients
  BY DEF Relaying
<1>2. h = [s EXCEPT !.headerComplete = TRUE]
  OBVIOUS
<1>3. \/ t = h
      \/ s.http10 /\ t = o
      \/ ~s.http10 /\ t = [o EXCEPT !.watched = TRUE, !.interest = i, !.onWrite = "OnWrite"]
  <2>1. h.http10 <=> s.http10
    BY <1>1 DEF Clients
  <2> QED BY <2>1 DEF Header, Add, Set
<1> HIDE DEF h
<1>4. h \in Clients
  BY <1>1, <1>2 DEF Clients
<1>5. /\ h.headerComplete /\ (h.headerSent <=> s.headerSent) /\ (h.full <=> s.full)
      /\ h.state = s.state /\ (h.watched <=> s.watched) /\ h.interest = s.interest
      /\ h.onRead = s.onRead /\ h.onWrite = s.onWrite
      /\ h.onRemoteHangup = s.onRemoteHangup /\ (h.hangup <=> s.hangup)
      /\ h.body = s.body /\ h.id = s.id /\ (h.http10 <=> s.http10)
  BY <1>1, <1>2, <1>4 DEF Clients
<1>6. /\ o \in Clients /\ o.full /\ (o.headerSent <=> h.headerSent \/ ~h.http10)
      /\ o.state = h.state /\ (o.watched <=> h.watched) /\ o.interest = h.interest
      /\ o.onRead = h.onRead /\ o.onWrite = h.onWrite
      /\ o.onRemoteHangup = h.onRemoteHangup /\ (o.hangup <=> h.hangup)
      /\ (o.headerComplete <=> h.headerComplete) /\ o.body = h.body /\ o.id = h.id
      /\ (o.http10 <=> h.http10)
  BY <1>4, ChunkFacts
<1> HIDE DEF o
<1>7. CASE t = h
  BY <1>4, <1>5, <1>7 DEF Relaying, Goes, t
<1>8. CASE s.http10 /\ t = o
  <2>1. Relaying(o)
    BY <1>5, <1>6, <1>8 DEF Relaying
  <2> QED BY <1>5, <1>6, <1>8, <2>1 DEF Goes
<1>9. CASE ~s.http10 /\ t = [o EXCEPT !.watched = TRUE, !.interest = i, !.onWrite = "OnWrite"]
  <2>1. i \in SUBSET {"in", "out"} /\ "out" \in i /\ ("in" \in i => "in" \in s.interest)
    BY <1>5, <1>6 DEF Clients
  <2> HIDE DEF i, t
  <2>2. t \in Clients
    BY <1>6, <1>9, <2>1 DEF Clients
  <2>3. /\ t.headerComplete /\ t.headerSent /\ t.state = s.state /\ t.watched
        /\ t.interest = i /\ t.onRead = s.onRead /\ t.onWrite = "OnWrite"
        /\ t.onRemoteHangup = s.onRemoteHangup /\ (t.hangup <=> s.hangup)
        /\ t.body = s.body /\ t.id = s.id /\ (t.http10 <=> s.http10)
    BY <1>5, <1>6, <1>9, <2>1, <2>2 DEF Clients
  <2> QED BY <1>9, <2>1, <2>2, <2>3 DEF Relaying, Goes, t
<1> QED BY <1>3, <1>7, <1>8, <1>9

(* So does more of its body.                                               *)
LEMMA BodyGoes ==
  ASSUME NEW s, Relaying(s), ~s.hangup, s.body = 0, s.headerComplete,
         s.headerSent \/ s.head \/ s.http10
  PROVE  Goes(s, Body(s))
<1> DEFINE o == OutputChunk(s)
           i == o.interest \union {"out"}
           t == Body(s)
<1>1. s \in Clients
  BY DEF Relaying
<1>2. \/ t = s
      \/ s.http10 /\ t = o
      \/ ~s.http10 /\ s.headerSent /\ t = [o EXCEPT !.watched = TRUE, !.interest = i]
  BY DEF Body, Add, Set
<1>3. /\ o \in Clients /\ o.full /\ (o.headerSent <=> s.headerSent \/ ~s.http10)
      /\ o.state = s.state /\ (o.watched <=> s.watched) /\ o.interest = s.interest
      /\ o.onRead = s.onRead /\ o.onWrite = s.onWrite
      /\ o.onRemoteHangup = s.onRemoteHangup /\ (o.hangup <=> s.hangup)
      /\ (o.headerComplete <=> s.headerComplete) /\ o.body = s.body /\ o.id = s.id
      /\ (o.http10 <=> s.http10)
  BY <1>1, ChunkFacts
<1> HIDE DEF o
<1>4. CASE t = s
  BY <1>4 DEF Goes
<1>5. CASE s.http10 /\ t = o
  <2>1. Relaying(o)
    BY <1>3, <1>5 DEF Relaying
  <2> QED BY <1>3, <1>5, <2>1 DEF Goes
<1>6. CASE ~s.http10 /\ s.headerSent /\ t = [o EXCEPT !.watched = TRUE, !.interest = i]
  <2>1. i \in SUBSET {"in", "out"} /\ "out" \in i /\ ("in" \in i => "in" \in s.interest)
    BY <1>3 DEF Clients
  <2> HIDE DEF i, t
  <2>2. t \in Clients
    BY <1>3, <1>6, <2>1 DEF Clients
  <2>3. /\ t.headerComplete /\ t.headerSent /\ t.state = s.state /\ t.watched
        /\ t.interest = i /\ t.onRead = s.onRead /\ t.onWrite = s.onWrite
        /\ t.onRemoteHangup = s.onRemoteHangup /\ (t.hangup <=> s.hangup)
        /\ t.body = s.body /\ t.id = s.id /\ (t.http10 <=> s.http10)
    BY <1>3, <1>6, <2>1, <2>2 DEF Clients
  <2> QED BY <1>6, <2>1, <2>2, <2>3 DEF Relaying, Goes, t
<1> QED BY <1>2, <1>4, <1>5, <1>6

(* The end of a request leaves its client to the handler that ends it.     *)
LEMMA AnsweredReplies ==
  ASSUME NEW s, Relaying(s), ~s.hangup
  PROVE  Replying(Answered(s))
<1> DEFINE u == [s EXCEPT !.onRemoteHangup = "HTTP", !.onWrite = "FullWriteBuffer"]
           b == u.chunked /\ ~u.http10
           t == Answered(s)
<1>1. s \in Clients /\ s.state = "request"
  BY DEF Relaying
<1>2. u = [s EXCEPT !.onRemoteHangup = "HTTP", !.onWrite = "FullWriteBuffer"]
  OBVIOUS
<1>3. \/ t = [u EXCEPT !.watched = TRUE, !.interest = {"out"}]
      \/ t = [u EXCEPT !.headerSent = TRUE, !.chunked = b, !.full = TRUE,
                       !.watched = TRUE, !.interest = {"out"}]
  BY DEF Answered, BuildAnswerHeaders, Set
<1> HIDE DEF u
<1>4. u \in Clients /\ u.state = "request" /\ ~u.hangup /\ u.onWrite = "FullWriteBuffer"
  <2>1. u \in Clients
    BY <1>1, <1>2 DEF Clients
  <2> QED BY <1>1, <1>2, <2>1 DEF Clients
<1>5. b \in BOOLEAN
  BY <1>4 DEF Clients
<1> HIDE DEF b, t
<1>6. CASE t = [u EXCEPT !.watched = TRUE, !.interest = {"out"}]
  <2>1. t \in Clients
    BY <1>4, <1>6 DEF Clients
  <2> QED BY <1>4, <1>6, <2>1 DEF Replying, Clients, t
<1>7. CASE t = [u EXCEPT !.headerSent = TRUE, !.chunked = b, !.full = TRUE,
                         !.watched = TRUE, !.interest = {"out"}]
  <2>1. t \in Clients
    BY <1>4, <1>5, <1>7 DEF Clients
  <2> QED BY <1>4, <1>7, <2>1 DEF Replying, Clients, t
<1> QED BY <1>3, <1>6, <1>7

(* A request that ends leaves its client idle, closed, or with the last    *)
(* chunk.                                                                  *)
LEMMA RequestEndLeaves ==
  ASSUME NEW s \in Clients, s.state = "request", ~s.hangup, NEW t \in OnRequestEnd(s)
  PROVE  Unrelated(t)
<1>1. CASE t = ClosedClient
  BY <1>1 DEF Unrelated
<1>2. CASE t = [Set(ClosedClient, {"in"}) EXCEPT !.state = "idle", !.onWrite = s.onWrite]
  <2> DEFINE w == s.onWrite
  <2>1. w \in {"none", "OnWrite", "FullWriteBuffer"}
    BY DEF Clients
  <2>2. t = [Set(ClosedClient, {"in"}) EXCEPT !.state = "idle", !.onWrite = w]
    BY <1>2
  <2> HIDE DEF w
  <2> QED BY <2>1, <2>2, IdleAgain DEF Unrelated
<1>3. CASE t = LastChunk(s)
  <2>1. t = [s EXCEPT !.watched = TRUE, !.interest = {"out"}, !.chunked = FALSE,
                      !.full = TRUE, !.onWrite = "FullWriteBuffer"]
    BY <1>3 DEF LastChunk, Set
  <2>2. t \in Clients
    BY <2>1 DEF Clients
  <2>3. Replying(t)
    BY <2>1, <2>2 DEF Replying, Clients
  <2> QED BY <2>3 DEF Unrelated
<1> QED BY <1>1, <1>2, <1>3 DEF OnRequestEnd, Released

(* What that handler leaves of a client.                                   *)
LEMMA FullWriteLeaves ==
  ASSUME NEW s, Replying(s), NEW t \in FullWriteBuffer(s)
  PROVE  Unrelated(t)
<1> DEFINE u == [s EXCEPT !.full = FALSE]
<1>1. t = s \/ t = ClosedClient \/ t \in OnRequestEnd(u)
  BY DEF FullWriteBuffer
<1>2. s \in Clients /\ s.state = "request" /\ ~s.hangup
  BY DEF Replying
<1>3. u = [s EXCEPT !.full = FALSE]
  OBVIOUS
<1> HIDE DEF u
<1>4. u \in Clients
  BY <1>2, <1>3 DEF Clients
<1>5. u.state = "request" /\ ~u.hangup
  BY <1>2, <1>3, <1>4 DEF Clients
<1>6. CASE t \in OnRequestEnd(u)
  BY <1>4, <1>5, <1>6, RequestEndLeaves
<1> QED BY <1>1, <1>6 DEF Unrelated

(* The handler that writes in between leaves the request in the table.     *)
LEMMA WriteGoes ==
  ASSUME NEW s, Relaying(s), NEW t \in OnWrite(s)
  PROVE  Goes(s, t)
<1>1. CASE t = s
  BY <1>1 DEF Goes
<1>2. CASE t = [Set(s, {}) EXCEPT !.full = FALSE]
  <2>1. s \in Clients
    BY DEF Relaying
  <2>2. t = [s EXCEPT !.watched = TRUE, !.interest = {}, !.full = FALSE]
    BY <1>2 DEF Set
  <2>3. t \in Clients
    BY <2>1, <2>2 DEF Clients
  <2>4. Relaying(t) /\ t.id = s.id
    BY <2>1, <2>2, <2>3 DEF Relaying, Clients
  <2> QED BY <2>4 DEF Goes
<1> QED BY <1>1, <1>2 DEF OnWrite

(* A client that hangs up stays in the table, but is not watched.          *)
LEMMA HangupGoes ==
  ASSUME NEW s, Relaying(s)
  PROVE  /\ Goes(s, [RemoveSocket(s) EXCEPT !.hangup = TRUE])
         /\ s.hangup => Goes(s, RemoveSocket(s))
<1> DEFINE u == [s EXCEPT !.watched = FALSE, !.interest = {}, !.hangup = TRUE]
           r == [s EXCEPT !.watched = FALSE, !.interest = {}]
<1>1. s \in Clients
  BY DEF Relaying
<1>2. u = [s EXCEPT !.watched = FALSE, !.interest = {}, !.hangup = TRUE]
  OBVIOUS
<1>3. r = [s EXCEPT !.watched = FALSE, !.interest = {}]
  OBVIOUS
<1>4. [RemoveSocket(s) EXCEPT !.hangup = TRUE] = u /\ RemoveSocket(s) = r
  BY DEF RemoveSocket
<1> HIDE DEF u, r
<1>5. u \in Clients
  BY <1>1, <1>2 DEF Clients
<1>6. r \in Clients
  BY <1>1, <1>3 DEF Clients
<1>7. Goes(s, u)
  BY <1>1, <1>2, <1>5 DEF Relaying, Clients, Goes
<1>8. ASSUME s.hangup PROVE Goes(s, r)
  BY <1>1, <1>3, <1>6, <1>8 DEF Relaying, Clients, Goes
<1> QED BY <1>4, <1>7, <1>8

(* A part of the body was read.                                            *)
Took(s, m) ==
  LET r == [s EXCEPT !.body = m]
  IN  IF r.body = 0 THEN [r EXCEPT !.interest = @ \ {"in"}] ELSE r

(* So does the one that reads the body.                                    *)
LEMMA TookGoes ==
  ASSUME NEW s, Relaying(s), NEW m \in Nat, m <= s.body
  PROVE  Goes(s, Took(s, m)) /\ (Took(s, m).interest \in {s.interest, s.interest \ {"in"}})
         /\ Took(s, m).onWrite = s.onWrite
<1> DEFINE r == [s EXCEPT !.body = m]
           i == r.interest \ {"in"}
           t == Took(s, m)
<1>1. s \in Clients /\ s.body \in Nat
  BY DEF Relaying, Clients
<1>2. r = [s EXCEPT !.body = m]
  OBVIOUS
<1>3. t = IF r.body = 0 THEN [r EXCEPT !.interest = i] ELSE r
  BY DEF Took
<1> HIDE DEF r, t
<1>4. r \in Clients
  BY <1>1, <1>2 DEF Clients
<1>5. r.body = m /\ r.interest = s.interest
  BY <1>1, <1>2, <1>4 DEF Clients
<1>6. /\ r.state = s.state /\ (r.watched <=> s.watched)
      /\ r.onRead = s.onRead /\ r.onWrite = s.onWrite
      /\ r.onRemoteHangup = s.onRemoteHangup /\ (r.hangup <=> s.hangup)
      /\ (r.headerComplete <=> s.headerComplete) /\ (r.headerSent <=> s.headerSent)
      /\ (r.full <=> s.full) /\ r.id = s.id /\ (r.http10 <=> s.http10)
  BY <1>1, <1>2, <1>4 DEF Clients
<1>7. i \in SUBSET {"in", "out"} /\ "in" \notin i /\ ("out" \in i <=> "out" \in s.interest)
      /\ i = s.interest \ {"in"}
  BY <1>4, <1>5 DEF Clients
<1> HIDE DEF i
<1>8. CASE r.body = 0
  <2>1. t = [r EXCEPT !.interest = i]
    BY <1>3, <1>8
  <2>2. t \in Clients
    BY <1>4, <1>7, <2>1 DEF Clients
  <2>3. t.interest = i /\ t.body = 0
    BY <1>4, <1>8, <2>1, <2>2 DEF Clients
  <2>4. /\ t.state = s.state /\ (t.watched <=> s.watched)
        /\ t.onRead = s.onRead /\ t.onWrite = s.onWrite
        /\ t.onRemoteHangup = s.onRemoteHangup /\ (t.hangup <=> s.hangup)
        /\ (t.headerComplete <=> s.headerComplete) /\ (t.headerSent <=> s.headerSent)
        /\ (t.full <=> s.full) /\ t.id = s.id /\ (t.http10 <=> s.http10)
    BY <1>4, <1>6, <2>1, <2>2 DEF Clients
  <2>5. s.hangup => i = {}
    BY <1>7 DEF Relaying
  <2>6. Relaying(t)
    BY <1>7, <2>2, <2>3, <2>4, <2>5 DEF Relaying
  <2> QED BY <1>7, <2>3, <2>4, <2>6 DEF Goes, t
<1>9. CASE r.body # 0
  <2>1. t = r /\ m > 0
    BY <1>3, <1>5, <1>9
  <2>2. s.headerComplete /\ ~s.hangup => FALSE
    BY <1>1, <2>1 DEF Relaying
  <2>3. Relaying(r)
    BY <1>4, <1>5, <1>6, <2>1, <2>2 DEF Relaying
  <2> QED BY <1>5, <1>6, <2>1, <2>3 DEF Goes, t
<1> QED BY <1>8, <1>9

(* A request whose connection is lost ends for its client.                 *)
LEMMA LostLeaves ==
  ASSUME NEW s, Relaying(s), NEW t \in Lost(s)
  PROVE  Unrelated(t)
<1>1. s \in Clients /\ s.state = "request"
  BY DEF Relaying
<1>2. CASE s.hangup
  BY <1>2 DEF Lost, Unrelated
<1>3. CASE ~s.hangup /\ ~s.headerSent
  <2> DEFINE u == [s EXCEPT !.chunked = FALSE]
  <2>1. t = Exception(u)
    BY <1>3 DEF Lost
  <2>2. u = [s EXCEPT !.chunked = FALSE]
    OBVIOUS
  <2> HIDE DEF u
  <2>3. u \in Clients
    BY <1>1, <2>2 DEF Clients
  <2>4. u.state = "request" /\ ~u.hangup
    BY <1>1, <1>3, <2>2, <2>3 DEF Clients
  <2> QED BY <2>1, <2>3, <2>4, ExceptionReplies DEF Unrelated
<1>4. CASE ~s.hangup /\ s.headerSent /\ s.full
  <2>1. t = [s EXCEPT !.onWrite = "FullWriteBuffer"]
    BY <1>4 DEF Lost
  <2>2. t \in Clients
    BY <1>1, <2>1 DEF Clients
  <2>3. s.watched /\ s.interest = {"out"}
    <3>1. s.interest \in SUBSET {"in", "out"} /\ "out" \in s.interest /\ s.watched
      BY <1>1, <1>4 DEF Relaying, Clients
    <3>2. "in" \notin s.interest
      BY <1>1, <1>4 DEF Relaying, Clients
    <3> QED BY <3>1, <3>2
  <2>4. t.state = "request" /\ t.watched /\ t.interest = {"out"}
        /\ t.onWrite = "FullWriteBuffer" /\ ~t.hangup
    BY <1>1, <1>4, <2>1, <2>2, <2>3 DEF Clients
  <2> QED BY <2>2, <2>4 DEF Replying, Unrelated
<1>5. CASE ~s.hangup /\ s.headerSent /\ ~s.full
  <2>1. t \in OnRequestEnd(s)
    BY <1>5 DEF Lost
  <2> QED BY <1>1, <1>5, <2>1, RequestEndLeaves
<1> QED BY <1>2, <1>3, <1>4, <1>5

-----------------------------------------------------------------------------
(* Connections.                                                            *)

(* A closed connection, and a fresh one, know of nothing.                  *)
LEMMA ClosedConnectionType ==
  /\ ClosedConnection \in Connections /\ Fresh \in Connections
  /\ Known(ClosedConnection) = {} /\ Known(Fresh) = {} /\ Fresh.open /\ ~Fresh.uncached
  /\ ~ClosedConnection.open /\ Connected(ClosedConnection)
<1> DEFINE e == <<>>
           s == {}
<1>1. e \in Seq(Record) /\ s \in SUBSET Id
  OBVIOUS
<1>2. Begun(e) = {}
  BY DEF Begun, ToSet
<1>3. ClosedConnection = [open |-> FALSE, interest |-> {}, buffer |-> e, uncached |-> FALSE, live |-> s]
  BY DEF ClosedConnection
<1> HIDE DEF e
<1>4. ClosedConnection \in Connections
  BY <1>1, <1>3 DEF Connections
<1>5. Fresh = [ClosedConnection EXCEPT !.open = TRUE] /\ Fresh \in Connections
  BY <1>4 DEF Connections, Fresh
<1>6. /\ ~ClosedConnection.open /\ ClosedConnection.live = {} /\ ClosedConnection.buffer = e
      /\ ~ClosedConnection.uncached
  BY <1>3
<1>7. Fresh.open /\ ~Fresh.uncached /\ Fresh.live = {} /\ Fresh.buffer = e
  BY <1>4, <1>5, <1>6 DEF Connections
<1> QED BY <1>2, <1>4, <1>5, <1>6, <1>7 DEF Known, Connected

(* What is begun is named by a record.                                     *)
LEMMA BegunIs ==
  ASSUME NEW a \in Seq(Record), NEW id
  PROVE  id \in Begun(a) <=>
           \E i \in 1..Len(a) : a[i].type \in {"values", "begin"} /\ a[i].id = id
<1>1. DOMAIN a = 1..Len(a)
  OBVIOUS
<1> QED BY <1>1 DEF Begun, ToSet

(* Only ids of requests, or the one of the question.                       *)
LEMMA BegunType ==
  ASSUME NEW a \in Seq(Record)
  PROVE  Begun(a) \in SUBSET Id
<1>1. ASSUME NEW i \in 1..Len(a) PROVE a[i].id \in Id
  <2>1. a[i] \in Record
    BY ElementOfSeq
  <2> QED BY <2>1 DEF Record
<1> QED BY <1>1, BegunIs

(* What two sequences of records begin.                                    *)
LEMMA BegunConcat ==
  ASSUME NEW a \in Seq(Record), NEW b \in Seq(Record)
  PROVE  Begun(a \o b) = Begun(a) \union Begun(b)
<1> DEFINE c == a \o b
<1>1. /\ c \in Seq(Record) /\ Len(c) = Len(a) + Len(b)
      /\ \A i \in 1..Len(c) : c[i] = IF i <= Len(a) THEN a[i] ELSE b[i - Len(a)]
      /\ Len(a) \in Nat /\ Len(b) \in Nat
  BY ConcatProperties, LenProperties
<1> HIDE DEF c
<1>2. ASSUME NEW id \in Begun(c) PROVE id \in Begun(a) \union Begun(b)
  <2>1. PICK i \in 1..Len(c) : c[i].type \in {"values", "begin"} /\ c[i].id = id
    BY <1>1, BegunIs
  <2>2. CASE i <= Len(a)
    <3>1. i \in 1..Len(a) /\ c[i] = a[i]
      BY <1>1, <2>2
    <3> QED BY <2>1, <3>1, BegunIs
  <2>3. CASE ~(i <= Len(a))
    <3>1. i - Len(a) \in 1..Len(b) /\ c[i] = b[i - Len(a)]
      BY <1>1, <2>3
    <3> QED BY <2>1, <3>1, BegunIs
  <2> QED BY <2>2, <2>3
<1>3. ASSUME NEW id \in Begun(a) PROVE id \in Begun(c)
  <2>1. PICK i \in 1..Len(a) : a[i].type \in {"values", "begin"} /\ a[i].id = id
    BY BegunIs
  <2>2. i \in 1..Len(c) /\ c[i] = a[i]
    BY <1>1
  <2> QED BY <1>1, <2>1, <2>2, BegunIs
<1>4. ASSUME NEW id \in Begun(b) PROVE id \in Begun(c)
  <2>1. PICK i \in 1..Len(b) : b[i].type \in {"values", "begin"} /\ b[i].id = id
    BY BegunIs
  <2>2. i + Len(a) \in 1..Len(c) /\ c[i + Len(a)] = b[i]
    <3>1. i + Len(a) \in 1..Len(c) /\ ~(i + Len(a) <= Len(a)) /\ (i + Len(a)) - Len(a) = i
      BY <1>1
    <3> QED BY <1>1, <3>1
  <2> QED BY <1>1, <2>1, <2>2, BegunIs
<1> QED BY <1>2, <1>3, <1>4 DEF c

(* A write moves records from the buffer to the server.                    *)
LEMMA WrittenFacts ==
  ASSUME NEW k \in Connections, NEW w \in Written(k)
  PROVE  /\ w \in Connections /\ (w.open <=> k.open) /\ (w.uncached <=> k.uncached)
         /\ w.interest = k.interest /\ Known(w) = Known(k)
<1>1. PICK n \in 0..Len(k.buffer) :
        w = [k EXCEPT !.buffer = SubSeq(@, n + 1, Len(@)),
                      !.live = @ \union Begun(SubSeq(k.buffer, 1, n))]
  BY DEF Written
<1> DEFINE b == k.buffer
           h == SubSeq(b, 1, n)
           r == SubSeq(b, n + 1, Len(b))
           l == k.live \union Begun(h)
<1>2. b \in Seq(Record) /\ Len(b) \in Nat /\ n \in Nat /\ k.live \in SUBSET Id
  BY LenProperties DEF Connections
<1>3. h \in Seq(Record) /\ r \in Seq(Record)
  <2>1. \A i \in 1..Len(b) : b[i] \in Record
    BY <1>2, ElementOfSeq
  <2> QED BY <1>2, <2>1, SubSeqProperties
<1>4. h \o r = b
  <2>1. h \o r = SubSeq(b, 1, Len(b))
    <3>1. 1 \in 1..Len(b) + 1 /\ n \in 1 - 1..Len(b) /\ Len(b) \in n..Len(b)
      BY <1>2
    <3> QED BY <1>2, <3>1, ConcatAdjacentSubSeq
  <2> QED BY <1>2, <2>1, SubSeqFull
<1>5. w = [k EXCEPT !.buffer = r, !.live = l]
  BY <1>1
<1>6. l \in SUBSET Id /\ l \union Begun(r) = k.live \union Begun(b)
  <2> HIDE DEF h, r, b
  <2>1. Begun(b) = Begun(h) \union Begun(r) /\ Begun(h) \in SUBSET Id
    BY <1>3, <1>4, BegunConcat, BegunType
  <2> QED BY <1>2, <2>1
<1> HIDE DEF h, r, l
<1>7. w \in Connections
  BY <1>3, <1>5, <1>6 DEF Connections
<1>8. /\ (w.open <=> k.open) /\ (w.uncached <=> k.uncached) /\ w.interest = k.interest
      /\ w.buffer = r /\ w.live = l
  BY <1>5, <1>7 DEF Connections
<1> QED BY <1>6, <1>7, <1>8 DEF Known

(* What a connection keeps when it is written to.                          *)
Alike(k, w) ==
  w.open /\ Connected(w) /\ (w.uncached <=> k.uncached)

(* Writing changes nothing of what is known, and the connection is watched *)
(* on.                                                                     *)
LEMMA WriteServerKeeps ==
  ASSUME NEW k \in Connections, k.open, Awaiting(k), NEW w \in OnWriteServer(k)
  PROVE  Alike(k, w) /\ Known(w) = Known(k)
<1>1. PICK v \in Written(k) : w = IF v.buffer = <<>> THEN [v EXCEPT !.interest = {"in"}] ELSE v
  BY DEF OnWriteServer
<1>2. /\ v \in Connections /\ v.open /\ (v.uncached <=> k.uncached)
      /\ v.interest = k.interest /\ Known(v) = Known(k)
  BY WrittenFacts
<1>3. CASE v.buffer = <<>>
  <2>1. w = [v EXCEPT !.interest = {"in"}]
    BY <1>1, <1>3
  <2>2. w \in Connections
    BY <1>2, <2>1 DEF Connections
  <2>3. w.open /\ (w.uncached <=> v.uncached) /\ w.interest = {"in"}
        /\ w.buffer = v.buffer /\ w.live = v.live
    BY <1>2, <2>1, <2>2 DEF Connections
  <2> QED BY <1>2, <2>2, <2>3 DEF Alike, Known, Connected, Awaiting
<1>4. CASE v.buffer # <<>>
  <2>1. w = v
    BY <1>1, <1>4
  <2>2. Awaiting(v)
    BY <1>2, <1>4 DEF Awaiting
  <2> QED BY <1>2, <2>1, <2>2 DEF Alike, Connected
<1> QED BY <1>3, <1>4

(* Records that are put into the buffer become known.                      *)
LEMMA SendKeeps ==
  ASSUME NEW k \in Connections, k.open, NEW records \in Seq(Record),
         NEW interest \in SUBSET {"in", "out"}, "out" \in interest,
         NEW w \in Send(k, records, interest)
  PROVE  Alike(k, w) /\ Known(w) = Known(k) \union Begun(records)
<1> DEFINE b == k.buffer \o records
           d == [k EXCEPT !.buffer = b]
<1>1. PICK v \in OnWriteServer(d) :
        w = IF v.buffer = <<>> THEN v ELSE [v EXCEPT !.interest = @ \union interest]
  BY DEF Send
<1>2. k.buffer \in Seq(Record) /\ b \in Seq(Record) /\ Begun(b) = Begun(k.buffer) \union Begun(records)
  <2>1. k.buffer \in Seq(Record)
    BY DEF Connections
  <2> QED BY <2>1, ConcatProperties, BegunConcat
<1>3. d = [k EXCEPT !.buffer = b]
  OBVIOUS
<1> HIDE DEF b, d
<1>4. d \in Connections
  BY <1>2, <1>3 DEF Connections
<1>5. d.open /\ (d.uncached <=> k.uncached) /\ Known(d) = Known(k) \union Begun(records)
  <2>1. d.open /\ (d.uncached <=> k.uncached) /\ d.buffer = b /\ d.live = k.live
    BY <1>3, <1>4 DEF Connections
  <2> QED BY <1>2, <2>1 DEF Known
<1>6. PICK u \in Written(d) : v = IF u.buffer = <<>> THEN [u EXCEPT !.interest = {"in"}] ELSE u
  BY DEF OnWriteServer
<1>7. u \in Connections /\ u.open /\ (u.uncached <=> d.uncached) /\ Known(u) = Known(d)
  BY <1>4, <1>5, WrittenFacts
<1>8. CASE u.buffer = <<>>
  <2>1. v = [u EXCEPT !.interest = {"in"}]
    BY <1>6, <1>8
  <2>2. v \in Connections
    BY <1>7, <2>1 DEF Connections
  <2>3. v.open /\ (v.uncached <=> u.uncached) /\ v.interest = {"in"}
        /\ v.buffer = u.buffer /\ v.live = u.live
    BY <1>7, <2>1, <2>2 DEF Connections
  <2>4. w = v
    BY <1>1, <1>8, <2>3
  <2> QED BY <1>5, <1>7, <2>2, <2>3, <2>4 DEF Alike, Known, Connected, Awaiting
<1>9. CASE u.buffer # <<>>
  <2> DEFINE i == u.interest \union interest
  <2>1. v = u
    BY <1>6, <1>9
  <2>2. w = [u EXCEPT !.interest = i]
    BY <1>1, <1>9, <2>1
  <2>3. i \in SUBSET {"in", "out"} /\ "out" \in i
    BY <1>7 DEF Connections
  <2> HIDE DEF i
  <2>4. w \in Connections
    BY <1>7, <2>2, <2>3 DEF Connections
  <2>5. w.open /\ (w.uncached <=> u.uncached) /\ w.interest = i
        /\ w.buffer = u.buffer /\ w.live = u.live
    BY <1>7, <2>2, <2>4 DEF Connections
  <2> QED BY <1>5, <1>7, <1>9, <2>3, <2>4, <2>5 DEF Alike, Known, Connected, Awaiting
<1> QED BY <1>8, <1>9

(* One record of a type.                                                   *)
LEMMA RecordFacts ==
  ASSUME NEW id \in Id, NEW type \in {"values", "begin", "stdin", "abort"},
         NEW records, records = <<[type |-> type, id |-> id]>>
  PROVE  /\ records \in Seq(Record)
         /\ Begun(records) = IF type \in {"values", "begin"} THEN {id} ELSE {}
<1> DEFINE r == [type |-> type, id |-> id]
<1>1. r \in Record /\ r.type = type /\ r.id = id
  BY DEF Record
<1>2. records = <<r>>
  OBVIOUS
<1> HIDE DEF r
<1>3. records \in Seq(Record) /\ Len(records) = 1 /\ records[1] = r
  BY <1>1, <1>2
<1>4. ASSUME NEW x PROVE x \in Begun(records) <=> (type \in {"values", "begin"} /\ id = x)
  <2>1. x \in Begun(records) <=>
          \E i \in 1..Len(records) : records[i].type \in {"values", "begin"} /\ records[i].id = x
    BY <1>3, BegunIs
  <2>2. 1..Len(records) = {1}
    BY <1>3
  <2>3. records[1].type = type /\ records[1].id = id
    BY <1>1, <1>3
  <2> QED BY <2>1, <2>2, <2>3
<1>5. CASE type \in {"values", "begin"}
  BY <1>3, <1>4, <1>5
<1>6. CASE ~(type \in {"values", "begin"})
  BY <1>3, <1>4, <1>6
<1> QED BY <1>5, <1>6

(* A part of a body begins nothing.                                        *)
LEMMA ContentKeeps ==
  ASSUME NEW k, k.open, Connected(k), NEW n \in Nat, NEW id \in Id,
         NEW w \in WriteContentBody(k, n, id)
  PROVE  Alike(k, w) /\ Known(w) = Known(k)
<1>1. k \in Connections
  BY DEF Connected
<1>2. CASE n = 0
  BY <1>2 DEF WriteContentBody, Alike
<1>3. CASE n # 0
  <2> DEFINE records == <<[type |-> "stdin", id |-> id]>>
  <2>1. w \in Send(k, records, {"out"})
    BY <1>3 DEF WriteContentBody
  <2>2. records \in Seq(Record) /\ Begun(records) = {}
    BY RecordFacts
  <2> HIDE DEF records
  <2> QED BY <1>1, <2>1, <2>2, SendKeeps
<1> QED BY <1>2, <1>3

(* An abort begins nothing.                                                *)
LEMMA AbortKeeps ==
  ASSUME NEW k, k.open, Connected(k), NEW id \in Id,
         NEW w \in Send(k, <<[type |-> "abort", id |-> id]>>, {"in", "out"})
  PROVE  Alike(k, w) /\ Known(w) = Known(k)
<1> DEFINE records == <<[type |-> "abort", id |-> id]>>
<1>1. k \in Connections
  BY DEF Connected
<1>2. records \in Seq(Record) /\ Begun(records) = {}
  BY RecordFacts
<1>3. w \in Send(k, records, {"in", "out"})
  OBVIOUS
<1> HIDE DEF records
<1> QED BY <1>1, <1>2, <1>3, SendKeeps

(* The question is sent over a connection that was closed.                 *)
LEMMA AskedFacts ==
  ASSUME 0 \in Id, connection \in [Connection -> Connections], NEW kk \in Asked(connection)
  PROVE  \/ kk = connection
         \/ \E k \in Connection : \E w :
              /\ ~connection[k].open /\ w.open /\ Connected(w) /\ Known(w) = {0}
              /\ kk = [connection EXCEPT ![k] = w]
<1>1. CASE Asks
  <2>1. PICK k \in FreeMemory(connection) :
          kk \in {[connection EXCEPT ![k] = w] :
                    w \in Send(Fresh, <<[type |-> "values", id |-> 0]>>, {"out"})}
    BY <1>1 DEF Asked
  <2> DEFINE records == <<[type |-> "values", id |-> 0]>>
  <2>2. PICK w \in Send(Fresh, records, {"out"}) : kk = [connection EXCEPT ![k] = w]
    BY <2>1
  <2>3. records \in Seq(Record) /\ Begun(records) = {0}
    BY RecordFacts
  <2> HIDE DEF records
  <2>4. Alike(Fresh, w) /\ Known(w) = {0}
    BY <2>2, <2>3, ClosedConnectionType, SendKeeps
  <2>5. k \in Connection /\ ~connection[k].open
    BY DEF FreeMemory
  <2> QED BY <2>2, <2>4, <2>5 DEF Alike
<1>2. CASE ~Asks
  BY <1>2 DEF Asked
<1> QED BY <1>1, <1>2

(* A connection begins a request.                                          *)
LEMMA StartedFacts ==
  ASSUME NEW k \in Connections, NEW id \in Id, NEW n \in Nat, NEW w \in Started(k, id, n)
  PROVE  /\ w.open /\ Connected(w) /\ Known(w) = Known(k) \union {id}
         /\ w.uncached <=> k.uncached \/ Asks
<1> DEFINE b == k.uncached \/ Asks
           m == [k EXCEPT !.open = TRUE, !.uncached = b]
           records == <<[type |-> "begin", id |-> id]>>
<1>1. PICK v \in Send(m, records, {"out"}) : w \in WriteContentBody(v, n, id)
  BY DEF Started
<1>2. b \in BOOLEAN /\ (b <=> k.uncached \/ Asks)
  BY DEF Connections, Asks
<1>3. m = [k EXCEPT !.open = TRUE, !.uncached = b]
  OBVIOUS
<1>4. records \in Seq(Record) /\ Begun(records) = {id}
  BY RecordFacts
<1> HIDE DEF b, m, records
<1>5. m \in Connections
  BY <1>2, <1>3 DEF Connections
<1>6. m.open /\ (m.uncached <=> b) /\ Known(m) = Known(k)
  <2>1. m.open /\ (m.uncached <=> b) /\ m.buffer = k.buffer /\ m.live = k.live
    BY <1>2, <1>3, <1>5 DEF Connections
  <2> QED BY <2>1 DEF Known
<1>7. Alike(m, v) /\ Known(v) = Known(m) \union {id}
  BY <1>1, <1>4, <1>5, <1>6, SendKeeps
<1>8. Alike(v, w) /\ Known(w) = Known(v)
  BY <1>1, <1>7, ContentKeeps DEF Alike
<1> QED BY <1>2, <1>6, <1>7, <1>8 DEF Alike

-----------------------------------------------------------------------------
(* The parts of the invariant, one step at a time.                         *)

(* Clients, connections and what else may be in the table are apart.       *)
LEMMA Apart ==
  /\ NULL \notin Client /\ NULL \notin Connection
  /\ Garbage \notin Client /\ Garbage \notin Connection
  /\ \A x \in Client : x \notin Connection
BY TableAssumption

(* What is under an id, read from the parts of the invariant.              *)
LEMMA Entries ==
  ASSUME Types, ClientsMatch, TableMatches
  PROVE  /\ \A i \in Id : requests[i] \in Client <=> sockets[i] \in Connection
         /\ \A i \in Id : requests[i] \in Client =>
              /\ i # 0 /\ i <= highest /\ connection[sockets[i]].open
              /\ Relaying(client[requests[i]]) /\ client[requests[i]].id = i
<1>1. ASSUME NEW i \in Id, requests[i] \in Client
      PROVE  /\ i # 0 /\ i <= highest /\ connection[sockets[i]].open
             /\ Relaying(client[requests[i]]) /\ client[requests[i]].id = i
  <2>1. InTable(requests[i])
    BY DEF InTable
  <2> QED BY <1>1, <2>1, Apart DEF TableMatches, ClientsMatch
<1> QED BY <1>1 DEF TableMatches

(* A client is under its id only.                                          *)
LEMMA OwnEntry ==
  ASSUME Types, ClientsMatch, TableMatches, NEW c \in Client
  PROVE  InTable(c) <=> (client[c].id \in Id /\ requests[client[c].id] = c)
<1>1. ASSUME NEW i \in Id, requests[i] = c PROVE client[c].id = i
  BY <1>1, Apart, Entries
<1> QED BY <1>1 DEF InTable

ClientsGo ==
  /\ client' \in [Client -> Clients]
  /\ \A c \in Client :
       IF InTable(c) THEN Goes(client[c], client'[c]) ELSE Unrelated(client'[c])

ConnectionsGo ==
  /\ connection' \in [Connection -> Connections]
  /\ \A k \in Connection :
       /\ Connected(connection'[k]) /\ (connection'[k].open <=> connection[k].open)
       /\ (connection'[k].uncached <=> connection[k].uncached)
       /\ Known(connection'[k]) = Known(connection[k])

(* Most steps leave the table and the cache as they are.                   *)
LEMMA Keeps ==
  ASSUME Core, ClientsGo, ConnectionsGo, UNCHANGED <<table, setup, cache, multiplex>>
  PROVE  Core'
<1> USE DEF Core, table
<1>1. Types'
  BY DEF Types, ClientsGo, ConnectionsGo
<1>2. \A c : InTable(c)' <=> InTable(c)
  BY DEF InTable
<1>3. ClientsMatch'
  BY <1>2 DEF ClientsMatch, ClientsGo, Goes
<1>4. ConnectionsMatch'
  BY DEF ConnectionsMatch, ConnectionsGo
<1>5. TableMatches'
  <2>1. ASSUME NEW i \in Id, requests[i] \in Client
        PROVE  /\ i <= highest /\ connection'[sockets[i]].open
               /\ client'[requests[i]].state = "request" /\ client'[requests[i]].id = i
               /\ client'[requests[i]].onRemoteHangup = "OnClientHangup"
    <3>1. /\ i <= highest /\ connection[sockets[i]].open /\ sockets[i] \in Connection
          /\ client[requests[i]].id = i
      BY <2>1, Apart, Entries
    <3>2. Goes(client[requests[i]], client'[requests[i]])
      BY <2>1 DEF ClientsGo, InTable
    <3> QED BY <3>1, <3>2 DEF Goes, Relaying, ConnectionsGo
  <2> QED BY <2>1 DEF TableMatches
<1>6. ServerAgrees'
  BY DEF ServerAgrees, Known, ConnectionsGo
<1>7. CacheSound'
  <2>1. \A k \in ToSet(cache) : k \in Connection
    BY DEF Types, ToSet
  <2> QED BY <2>1 DEF CacheSound, ConnectionsGo
<1>8. AskedApart'
  BY DEF AskedApart, ConnectionsGo
<1>9. MultiplexMatches'
  <2>1. \A k \in ToSet(cache) : k \in Connection
    BY DEF Types, ToSet
  <2> QED BY <2>1 DEF MultiplexMatches, ConnectionsGo
<1> QED BY <1>1, <1>3, <1>4, <1>5, <1>6, <1>7, <1>8, <1>9

(* One client changes, or none.                                            *)
LEMMA ClientStep ==
  ASSUME Core, NEW c \in Client, NEW t,
         IF InTable(c) THEN Goes(client[c], t) ELSE Unrelated(t),
         client' = [client EXCEPT ![c] = t]
  PROVE  ClientsGo
<1>1. client \in [Client -> Clients] /\ ClientsMatch
  BY DEF Core, Types
<1>2. t \in Clients
  BY ClosedClientType DEF Goes, Relaying, Unrelated, Idling, Replying
<1>3. client' \in [Client -> Clients]
  BY <1>1, <1>2
<1>4. ASSUME NEW d \in Client
      PROVE  IF InTable(d) THEN Goes(client[d], client'[d]) ELSE Unrelated(client'[d])
  <2>1. CASE d = c
    BY <1>1, <2>1
  <2>2. CASE d # c
    <3>1. client'[d] = client[d]
      BY <1>1, <2>2
    <3> QED BY <1>1, <3>1 DEF ClientsMatch, Goes
  <2> QED BY <2>1, <2>2
<1> QED BY <1>3, <1>4 DEF ClientsGo

(* No client changes.                                                      *)
LEMMA ClientsSame ==
  ASSUME Core, client' = client
  PROVE  ClientsGo
BY DEF Core, Types, ClientsMatch, ClientsGo, Goes

(* One connection changes, or none.                                        *)
LEMMA ConnectionStep ==
  ASSUME Core, NEW k \in Connection, connection[k].open, NEW w,
         Alike(connection[k], w), Known(w) = Known(connection[k]),
         connection' = [connection EXCEPT ![k] = w]
  PROVE  ConnectionsGo
<1>1. connection \in [Connection -> Connections] /\ ConnectionsMatch
  BY DEF Core, Types
<1>2. w \in Connections /\ Connected(w) /\ w.open /\ (w.uncached <=> connection[k].uncached)
  BY DEF Alike, Connected
<1>3. connection' \in [Connection -> Connections]
  BY <1>1, <1>2
<1>4. ASSUME NEW j \in Connection
      PROVE  /\ Connected(connection'[j]) /\ (connection'[j].open <=> connection[j].open)
             /\ (connection'[j].uncached <=> connection[j].uncached)
             /\ Known(connection'[j]) = Known(connection[j])
  <2>1. CASE j = k
    BY <1>1, <1>2, <2>1
  <2>2. CASE j # k
    <3>1. connection'[j] = connection[j]
      BY <1>1, <2>2
    <3> QED BY <1>1, <3>1 DEF ConnectionsMatch
  <2> QED BY <2>1, <2>2
<1> QED BY <1>3, <1>4 DEF ConnectionsGo

(* No connection changes.                                                  *)
LEMMA ConnectionsSame ==
  ASSUME Core, connection' = connection
  PROVE  ConnectionsGo
BY DEF Core, Types, ConnectionsMatch, ConnectionsGo

-----------------------------------------------------------------------------
(* The handlers of a client.                                               *)

(* A client that is accepted is idle.                                      *)
LEMMA AcceptIdles == Idling([Set(ClosedClient, {"in"}) EXCEPT !.state = "idle"])
<1> DEFINE s == ClosedClient
           t == [Set(ClosedClient, {"in"}) EXCEPT !.state = "idle"]
<1>1. t = [s EXCEPT !.watched = TRUE, !.interest = {"in"}, !.state = "idle"]
  BY DEF Set
<1>2. /\ s \in Clients /\ s.onRead = "HTTP" /\ s.onRemoteHangup = "HTTP"
      /\ ~s.hangup /\ ~s.headerComplete /\ ~s.headerSent /\ ~s.full
  BY ClosedClientType DEF ClosedClient
<1> HIDE DEF t, s
<1>3. t \in Clients
  BY <1>1, <1>2 DEF Clients
<1> QED BY <1>1, <1>2, <1>3 DEF Idling, Clients, t

(* Of a closed client nothing is left.                                     *)
LEMMA ClosedIs ==
  /\ ClosedClient.state = "closed" /\ ClosedClient.interest = {} /\ ~ClosedClient.hangup
BY DEF ClosedClient

(* Nobody asks for both directions.                                        *)
LEMMA OneDirection ==
  ASSUME NEW s, Relaying(s) \/ Unrelated(s)
  PROVE  ~("in" \in s.interest /\ "out" \in s.interest)
<1>1. CASE Relaying(s)
  <2>1. s \in Clients
    BY <1>1 DEF Relaying
  <2>2. ASSUME "in" \in s.interest, "out" \in s.interest PROVE FALSE
    <3>1. s.body > 0 /\ s.headerSent
      BY <1>1, <2>2 DEF Relaying
    <3>2. s.headerComplete
      BY <1>1, <3>1 DEF Relaying
    <3>3. ~s.hangup
      BY <1>1, <2>2 DEF Relaying
    <3>4. s.body = 0
      BY <1>1, <3>2, <3>3 DEF Relaying
    <3> QED BY <3>1, <3>4
  <2> QED BY <2>2
<1>2. CASE Unrelated(s)
  BY <1>2, ClosedIs DEF Unrelated, Idling, Replying
<1> QED BY <1>1, <1>2

(* Everybody is one or the other.                                          *)
LEMMA OneOrOther ==
  ASSUME Core, NEW c \in Client
  PROVE  /\ InTable(c) => Relaying(client[c])
         /\ ~InTable(c) => Unrelated(client[c])
BY DEF Core, ClientsMatch

(* A client that is accepted is in no table.                               *)
LEMMA AcceptKeeps ==
  ASSUME Core, NEW c \in Client, client[c].state = "closed",
         client' = [client EXCEPT ![c] = [Set(@, {"in"}) EXCEPT !.state = "idle"]],
         UNCHANGED <<table, server>>
  PROVE  Core'
<1>1. ~InTable(c) /\ client[c] = ClosedClient
  BY OneOrOther DEF Relaying, Unrelated, Idling, Replying
<1> DEFINE t == [Set(ClosedClient, {"in"}) EXCEPT !.state = "idle"]
<1>2. client' = [client EXCEPT ![c] = t]
  BY <1>1
<1>3. Unrelated(t)
  BY AcceptIdles DEF Unrelated
<1> HIDE DEF t
<1>4. ClientsGo
  BY <1>1, <1>2, <1>3, ClientStep
<1> QED BY <1>4, ConnectionsSame, Keeps DEF server

(* A client that is in no table may be closed.                             *)
LEMMA CloseKeeps ==
  ASSUME Core, NEW c \in Client, ~InTable(c),
         client' = [client EXCEPT ![c] = ClosedClient], UNCHANGED <<table, server>>
  PROVE  Core'
<1>1. ClientsGo
  <2>1. Unrelated(ClosedClient)
    BY DEF Unrelated
  <2> QED BY <2>1, ClientStep
<1> QED BY <1>1, ConnectionsSame, Keeps DEF server

(* The handler of hangups, whoever calls it.                               *)
LEMMA HangupKeeps ==
  ASSUME Core, NEW c \in Client, client[c].state # "closed", OnHangup(c)
  PROVE  Core'
<1> DEFINE s == client[c]
           k == sockets[s.id]
           gone == [RemoveSocket(s) EXCEPT !.hangup = TRUE]
<1>0. Types /\ ClientsMatch /\ TableMatches
  BY DEF Core
<1>1. CASE ~InTable(c)
  <2>1. s \in Clients /\ ~s.hangup /\ s.id \in Id
    <3>1. s \in Clients /\ ~s.hangup
      BY <1>1, OneOrOther, ClosedClientType, ClosedIs DEF Unrelated, Idling, Replying
    <3> QED BY <3>1 DEF Clients
  <2>2. requests[s.id] # c
    BY <1>1, <2>1 DEF InTable
  <2>3. client' = [client EXCEPT ![c] = ClosedClient] /\ UNCHANGED <<table, server>>
    BY <2>1, <2>2 DEF OnHangup, OnClientHangup
  <2> QED BY <1>1, <2>3, CloseKeeps
<1>2. CASE InTable(c)
  <2>1. /\ Relaying(s) /\ s.onRemoteHangup = "OnClientHangup"
        /\ s.id \in Id /\ requests[s.id] = c
    BY <1>0, <1>2, OneOrOther, OwnEntry DEF Relaying
  <2>2. k \in Connection /\ k # NULL /\ connection[k].open
    BY <1>0, <2>1, Apart, Entries
  <2>3. \/ /\ s.hangup
           /\ client' = [client EXCEPT ![c] = RemoveSocket(s)]
           /\ UNCHANGED <<table, server>>
        \/ /\ client' = [client EXCEPT ![c] = gone]
           /\ \E w \in Send(connection[k], <<[type |-> "abort", id |-> s.id]>>, {"in", "out"}) :
                connection' = [connection EXCEPT ![k] = w]
           /\ UNCHANGED <<table, setup, cache, multiplex>>
    BY <2>1, <2>2 DEF OnHangup, OnClientHangup
  <2>4. Goes(s, gone) /\ (s.hangup => Goes(s, RemoveSocket(s)))
    BY <2>1, HangupGoes
  <2> DEFINE removed == RemoveSocket(s)
  <2>5. CASE /\ s.hangup /\ client' = [client EXCEPT ![c] = removed]
             /\ UNCHANGED <<table, server>>
    <3>1. Goes(s, removed)
      BY <2>4, <2>5
    <3> HIDE DEF removed
    <3>2. ClientsGo
      BY <1>2, <2>5, <3>1, ClientStep
    <3> QED BY <2>5, <3>2, ConnectionsSame, Keeps DEF server
  <2>6. CASE /\ client' = [client EXCEPT ![c] = gone]
             /\ \E w \in Send(connection[k], <<[type |-> "abort", id |-> s.id]>>, {"in", "out"}) :
                  connection' = [connection EXCEPT ![k] = w]
             /\ UNCHANGED <<table, setup, cache, multiplex>>
    <3>1. PICK w \in Send(connection[k], <<[type |-> "abort", id |-> s.id]>>, {"in", "out"}) :
            connection' = [connection EXCEPT ![k] = w]
      BY <2>6
    <3>2. Connected(connection[k])
      BY <2>2 DEF Core, ConnectionsMatch
    <3>3. Alike(connection[k], w) /\ Known(w) = Known(connection[k])
      BY <2>1, <2>2, <3>2, AbortKeeps
    <3>4. ConnectionsGo
      BY <2>2, <3>1, <3>3, ConnectionStep
    <3> HIDE DEF gone
    <3>5. ClientsGo
      BY <1>2, <2>4, <2>6, ClientStep
    <3> QED BY <2>6, <3>4, <3>5, Keeps
  <2> QED BY <2>3, <2>5, <2>6
<1> QED BY <1>1, <1>2

(* The body is read for a request in the table only.                       *)
LEMMA BodyReaders ==
  ASSUME Core, NEW c \in Client, client[c].onRead = "OnClientRead", "in" \in client[c].interest
  PROVE  InTable(c)
BY OneOrOther, ClosedIs DEF Unrelated, Idling, Replying

(* The body is passed on, or its client hangs up.                          *)
LEMMA ClientReadKeeps ==
  ASSUME Core, NEW c \in Client, InTable(c), OnClientRead(c)
  PROVE  Core'
<1> DEFINE s == client[c]
           k == sockets[s.id]
<1>0. Types /\ ClientsMatch /\ TableMatches
  BY DEF Core
<1>1. Relaying(s) /\ s.id \in Id /\ requests[s.id] = c
  BY <1>0, OneOrOther, OwnEntry
<1>2. k \in Connection /\ connection[k].open
  BY <1>0, <1>1, Apart, Entries
<1>3. CASE OnHangup(c)
  BY <1>1, <1>3, HangupKeeps DEF Relaying
<1>4. CASE \E n \in 0..s.body :
             LET r == [s EXCEPT !.body = @ - n] IN
             /\ k # NULL
             /\ client' = [client EXCEPT ![c] =
                  IF r.body = 0 THEN [r EXCEPT !.interest = @ \ {"in"}] ELSE r]
             /\ \E w \in WriteContentBody(connection[k], n, s.id) :
                  connection' = [connection EXCEPT ![k] = w]
             /\ UNCHANGED <<table, setup, cache, multiplex>>
  <2>1. PICK n \in 0..s.body :
             LET r == [s EXCEPT !.body = @ - n] IN
             /\ k # NULL
             /\ client' = [client EXCEPT ![c] =
                  IF r.body = 0 THEN [r EXCEPT !.interest = @ \ {"in"}] ELSE r]
             /\ \E w \in WriteContentBody(connection[k], n, s.id) :
                  connection' = [connection EXCEPT ![k] = w]
             /\ UNCHANGED <<table, setup, cache, multiplex>>
    BY <1>4
  <2> DEFINE m == s.body - n
             t == Took(s, m)
  <2>2. s.body \in Nat /\ n \in Nat
    BY <1>1 DEF Relaying, Clients
  <2>3. m \in Nat /\ m <= s.body
    BY <2>2
  <2>4. client' = [client EXCEPT ![c] = t]
    BY <2>1 DEF Took
  <2>5. PICK w \in WriteContentBody(connection[k], n, s.id) :
          connection' = [connection EXCEPT ![k] = w]
    BY <2>1
  <2>6. UNCHANGED <<table, setup, cache, multiplex>>
    BY <2>1
  <2> HIDE DEF m
  <2>7. Goes(s, t)
    BY <1>1, <2>3, TookGoes
  <2> HIDE DEF t
  <2>8. ClientsGo
    BY <2>4, <2>7, ClientStep
  <2>9. Connected(connection[k])
    BY <1>2 DEF Core, ConnectionsMatch
  <2>10. Alike(connection[k], w) /\ Known(w) = Known(connection[k])
    BY <1>1, <1>2, <2>2, <2>9, ContentKeeps
  <2>11. ConnectionsGo
    BY <1>2, <2>5, <2>10, ConnectionStep
  <2> QED BY <2>6, <2>8, <2>11, Keeps
<1> QED BY <1>3, <1>4 DEF OnClientRead

(* The write handler of a client is the one that fits its place.           *)
LEMMA ClientWriteKeeps ==
  ASSUME Core, NEW c \in Client, "out" \in client[c].interest,
         \/ /\ client[c].onWrite = "FullWriteBuffer"
            /\ \E t \in FullWriteBuffer(client[c]) : client' = [client EXCEPT ![c] = t]
            /\ UNCHANGED <<table, server>>
         \/ /\ client[c].onWrite = "OnWrite"
            /\ \E t \in OnWrite(client[c]) : client' = [client EXCEPT ![c] = t]
            /\ UNCHANGED <<table, server>>
         \/ client[c].onWrite = "OnWrite" /\ OnHangup(c)
  PROVE  Core'
<1> DEFINE s == client[c]
<1>1. InTable(c) => Relaying(s) /\ s.onWrite = "OnWrite"
  <2>1. ASSUME InTable(c) PROVE Relaying(s) /\ s.onWrite = "OnWrite"
    <3>1. Relaying(s)
      BY <2>1, OneOrOther
    <3>2. s.headerSent /\ ~s.hangup
      BY <3>1 DEF Relaying
    <3> QED BY <3>1, <3>2 DEF Relaying
  <2> QED BY <2>1
<1>2. ~InTable(c) => Replying(s) /\ s.onWrite = "FullWriteBuffer"
  BY OneOrOther, ClosedIs DEF Unrelated, Idling, Replying
<1>3. CASE s.onWrite = "OnWrite" /\ OnHangup(c)
  <2>1. s.state # "closed"
    BY <1>1, <1>2, <1>3 DEF Relaying
  <2> QED BY <1>3, <2>1, HangupKeeps
<1>4. CASE /\ s.onWrite = "FullWriteBuffer"
           /\ \E t \in FullWriteBuffer(s) : client' = [client EXCEPT ![c] = t]
           /\ UNCHANGED <<table, server>>
  <2>1. ~InTable(c) /\ Replying(s)
    BY <1>1, <1>2, <1>4
  <2>2. PICK t \in FullWriteBuffer(s) : client' = [client EXCEPT ![c] = t]
    BY <1>4
  <2>3. Unrelated(t)
    BY <2>1, <2>2, FullWriteLeaves
  <2>4. ClientsGo
    BY <2>1, <2>2, <2>3, ClientStep
  <2> QED BY <1>4, <2>4, ConnectionsSame, Keeps DEF server
<1>5. CASE /\ s.onWrite = "OnWrite"
           /\ \E t \in OnWrite(s) : client' = [client EXCEPT ![c] = t]
           /\ UNCHANGED <<table, server>>
  <2>1. InTable(c) /\ Relaying(s)
    BY <1>1, <1>2, <1>5
  <2>2. PICK t \in OnWrite(s) : client' = [client EXCEPT ![c] = t]
    BY <1>5
  <2>3. Goes(s, t)
    BY <2>1, <2>2, WriteGoes
  <2>4. ClientsGo
    BY <2>1, <2>2, <2>3, ClientStep
  <2> QED BY <1>5, <2>4, ConnectionsSame, Keeps DEF server
<1> QED BY <1>3, <1>4, <1>5

-----------------------------------------------------------------------------
(* Serving a request.                                                      *)

(* The question has an id.                                                 *)
LEMMA ZeroIsId == 0 \in Id
BY TableAssumption DEF Id

(* Connections in the cache and in the table are open.                     *)
LEMMA CacheFacts ==
  ASSUME Core
  PROVE  /\ \A k \in ToSet(cache) : k \in Connection /\ connection[k].open
         /\ \A i \in Id : sockets[i] \in Connection => connection[sockets[i]].open
<1>1. \A k \in ToSet(cache) : k \in Connection
  BY DEF Core, Types, ToSet
<1> QED BY <1>1 DEF Core, TableMatches, CacheSound

(* The connections once the server was asked: those that were open are as  *)
(* they were, and the one with the question is nobody's.                   *)
Settled(kk) ==
  /\ kk \in [Connection -> Connections]
  /\ \A j \in Connection :
       /\ Connected(kk[j]) /\ Known(kk[j]) \ {0} = Known(connection[j]) \ {0}
       /\ connection[j].open => kk[j] = connection[j]
       /\ 0 \in Known(kk[j]) => j \notin ToSet(cache) /\ \A i \in Id : sockets[i] # j

(* Asking the server leaves the connections settled.                       *)
LEMMA AskedSettles ==
  ASSUME Core, NEW kk \in Asked(connection)
  PROVE  Settled(kk)
<1>1. connection \in [Connection -> Connections] /\ ConnectionsMatch /\ AskedApart
  BY DEF Core, Types
<1>2. CASE kk = connection
  BY <1>1, <1>2 DEF Settled, ConnectionsMatch, AskedApart
<1>3. ASSUME NEW k \in Connection, NEW w, ~connection[k].open, w.open, Connected(w),
             Known(w) = {0}, kk = [connection EXCEPT ![k] = w]
      PROVE  Settled(kk)
  <2>1. kk \in [Connection -> Connections]
    BY <1>1, <1>3 DEF Connected
  <2>2. ASSUME NEW j \in Connection
        PROVE  /\ Connected(kk[j]) /\ Known(kk[j]) \ {0} = Known(connection[j]) \ {0}
               /\ connection[j].open => kk[j] = connection[j]
               /\ 0 \in Known(kk[j]) => j \notin ToSet(cache) /\ \A i \in Id : sockets[i] # j
    <3>1. CASE j = k
      <4>1. kk[j] = w
        BY <1>1, <1>3, <3>1
      <4>2. connection[j] = ClosedConnection
        BY <1>1, <1>3, <3>1 DEF ConnectionsMatch, Connected
      <4>3. Known(connection[j]) = {}
        BY <4>2, ClosedConnectionType
      <4>4. j \notin ToSet(cache) /\ \A i \in Id : sockets[i] # j
        BY <1>3, <3>1, CacheFacts
      <4> QED BY <1>3, <3>1, <4>1, <4>3, <4>4
    <3>2. CASE j # k
      <4>1. kk[j] = connection[j]
        BY <1>1, <1>3, <3>2
      <4> QED BY <1>1, <4>1 DEF ConnectionsMatch, AskedApart
    <3> QED BY <3>1, <3>2
  <2> QED BY <2>1, <2>2 DEF Settled
<1>4. \/ kk = connection
      \/ \E k \in Connection : \E w :
           /\ ~connection[k].open /\ w.open /\ Connected(w) /\ Known(w) = {0}
           /\ kk = [connection EXCEPT ![k] = w]
  BY <1>1, ZeroIsId, AskedFacts
<1> QED BY <1>2, <1>3, <1>4

(* A request that is refused leaves the table alone.                       *)
LEMMA RefuseKeeps ==
  ASSUME Core, NEW c \in Client, ~InTable(c), NEW s, Asking(s), Refuse(c, s)
  PROVE  Core'
<1> USE DEF Core, table
<1>1. Settled(connection')
  <2>1. CASE connection' = connection
    BY <2>1 DEF Settled, Types, ConnectionsMatch, AskedApart
  <2>2. CASE connection' \in Asked(connection)
    BY <2>2, AskedSettles
  <2> QED BY <2>1, <2>2 DEF Refuse
<1>2. ClientsGo
  <2> DEFINE t == Exception(s)
  <2>1. Unrelated(t)
    BY ExceptionReplies DEF Asking, Unrelated
  <2>2. client' = [client EXCEPT ![c] = t]
    BY DEF Refuse
  <2> HIDE DEF t
  <2> QED BY <2>1, <2>2, ClientStep
<1>3. UNCHANGED <<table, setup, cache, multiplex>>
  BY DEF Refuse
<1>4. Types'
  BY <1>1, <1>2, <1>3 DEF Types, ClientsGo, Settled
<1>5. \A d : InTable(d)' <=> InTable(d)
  BY <1>3 DEF InTable
<1>6. ClientsMatch'
  BY <1>2, <1>5 DEF ClientsMatch, ClientsGo, Goes
<1>7. ConnectionsMatch'
  BY <1>1 DEF ConnectionsMatch, Settled
<1>8. TableMatches'
  <2>1. ASSUME NEW i \in Id, requests[i] \in Client
        PROVE  /\ i <= highest /\ connection'[sockets[i]].open
               /\ client'[requests[i]].state = "request" /\ client'[requests[i]].id = i
               /\ client'[requests[i]].onRemoteHangup = "OnClientHangup"
    <3>1. /\ i <= highest /\ connection[sockets[i]].open /\ sockets[i] \in Connection
          /\ client[requests[i]].id = i
      BY <2>1, Apart, Entries
    <3>2. Goes(client[requests[i]], client'[requests[i]])
      BY <1>2, <2>1 DEF ClientsGo, InTable
    <3> QED BY <1>1, <3>1, <3>2 DEF Goes, Relaying, Settled
  <2> QED BY <1>3, <2>1 DEF TableMatches
<1>9. ServerAgrees'
  BY <1>1, <1>3 DEF ServerAgrees, Known, Settled
<1>10. CacheSound'
  BY <1>1, <1>3, CacheFacts DEF CacheSound, Settled
<1>11. AskedApart'
  BY <1>1, <1>3 DEF AskedApart, Settled
<1>12. MultiplexMatches'
  BY <1>1, <1>3, CacheFacts DEF MultiplexMatches, Settled
<1> QED BY <1>4, <1>6, <1>7, <1>8, <1>9, <1>10, <1>11, <1>12

(* The smallest of some numbers, and the larger of two.                    *)
LEMMA MinOfNats ==
  ASSUME NEW T \in SUBSET Nat, T # {}
  PROVE  Min(T) \in T
<1> DEFINE R == OpToRel(<, Nat)
<1>0. \A x, y \in Nat : x < y => <<x, y>> \in R
  BY DEF OpToRel
<1>1. IsWellFoundedOn(R, Nat)
  BY NatLessThanWellFounded
<1> HIDE DEF R
<1>2. PICK m \in T : \A n \in T : ~(<<n, m>> \in R)
  BY <1>1, WFMin
<1>3. \A n \in T : m <= n
  <2>1. SUFFICES ASSUME NEW n \in T PROVE m <= n
    OBVIOUS
  <2>2. m \in Nat /\ n \in Nat
    OBVIOUS
  <2>3. ~(n < m)
    BY <1>0, <1>2, <2>2
  <2> QED BY <2>2, <2>3
<1> QED BY <1>3 DEF Min

(* The loops see the id of a new request.                                  *)
LEMMA MaxOfTwo ==
  ASSUME NEW a \in Id, NEW b \in Id
  PROVE  Max({a, b}) \in Id /\ a <= Max({a, b}) /\ b <= Max({a, b})
<1>1. a \in Nat /\ b \in Nat
  BY TableAssumption DEF Id
<1>2. \E x \in {a, b} : \A y \in {a, b} : x >= y
  BY <1>1
<1>3. Max({a, b}) \in {a, b} /\ \A y \in {a, b} : Max({a, b}) >= y
  BY <1>2 DEF Max
<1> QED BY <1>1, <1>3

-----------------------------------------------------------------------------
(* Sequences whose elements are all different.                             *)

(* What is left of such a sequence without its head.                       *)
LEMMA TailFacts ==
  ASSUME NEW S, NEW q \in Seq(S), q # <<>>, IsInjective(q)
  PROVE  /\ Tail(q) \in Seq(S) /\ IsInjective(Tail(q))
         /\ ToSet(Tail(q)) \subseteq ToSet(q) \ {Head(q)}
         /\ Head(q) \in S /\ Head(q) \in ToSet(q)
<1> DEFINE t == Tail(q)
<1>1. /\ t \in Seq(S) /\ Len(t) = Len(q) - 1 /\ Len(q) \in Nat \ {0}
      /\ \A i \in 1..Len(t) : t[i] = q[i + 1]
  BY HeadTailProperties, EmptySeq, LenProperties
<1>2. Head(q) = q[1] /\ q[1] \in S /\ DOMAIN q = 1..Len(q) /\ DOMAIN t = 1..Len(t)
  BY <1>1, HeadTailProperties, ElementOfSeq
<1>3. q[1] \in ToSet(q)
  BY <1>1, <1>2 DEF ToSet
<1> HIDE DEF t
<1>4. ASSUME NEW i \in 1..Len(t), NEW j \in 1..Len(t), t[i] = t[j] PROVE i = j
  <2>1. i + 1 \in 1..Len(q) /\ j + 1 \in 1..Len(q) /\ q[i + 1] = q[j + 1]
    BY <1>1, <1>4
  <2>2. i + 1 = j + 1
    BY <1>2, <2>1 DEF IsInjective
  <2> QED BY <1>1, <2>2
<1>5. ASSUME NEW i \in 1..Len(t) PROVE t[i] \in ToSet(q) \ {q[1]}
  <2>1. i + 1 \in 1..Len(q) /\ 1 \in 1..Len(q) /\ t[i] = q[i + 1] /\ i + 1 # 1
    BY <1>1
  <2>2. q[i + 1] # q[1]
    BY <1>2, <2>1 DEF IsInjective
  <2>3. q[i + 1] \in ToSet(q)
    BY <1>2, <2>1 DEF ToSet
  <2> QED BY <2>1, <2>2, <2>3
<1>6. IsInjective(t)
  BY <1>2, <1>4 DEF IsInjective
<1>7. ToSet(t) \subseteq ToSet(q) \ {q[1]}
  BY <1>2, <1>5 DEF ToSet
<1> QED BY <1>1, <1>2, <1>3, <1>6, <1>7 DEF t

(* Something new at its head.                                              *)
LEMMA PushFacts ==
  ASSUME NEW S, NEW q \in Seq(S), IsInjective(q), NEW k \in S, k \notin ToSet(q)
  PROVE  /\ <<k>> \o q \in Seq(S) /\ IsInjective(<<k>> \o q)
         /\ ToSet(<<k>> \o q) = ToSet(q) \union {k}
<1> DEFINE a == <<k>>
           t == a \o q
<1>1. a \in Seq(S) /\ Len(a) = 1 /\ a[1] = k
  OBVIOUS
<1> HIDE DEF a
<1>2. /\ t \in Seq(S) /\ Len(t) = 1 + Len(q) /\ Len(q) \in Nat
      /\ \A i \in 1..Len(t) : t[i] = IF i <= 1 THEN a[i] ELSE q[i - 1]
  BY <1>1, ConcatProperties, LenProperties
<1>3. DOMAIN q = 1..Len(q) /\ DOMAIN t = 1..Len(t)
  BY <1>2
<1> HIDE DEF t
<1>4. ASSUME NEW i \in 1..Len(t)
      PROVE  \/ i = 1 /\ t[i] = k
             \/ i - 1 \in 1..Len(q) /\ t[i] = q[i - 1] /\ t[i] # k
  <2>1. CASE i = 1
    BY <1>1, <1>2, <2>1
  <2>2. CASE i # 1
    <3>1. i - 1 \in 1..Len(q) /\ t[i] = q[i - 1]
      BY <1>2, <2>2
    <3>2. q[i - 1] \in ToSet(q)
      BY <1>3, <3>1 DEF ToSet
    <3> QED BY <3>1, <3>2
  <2> QED BY <2>1, <2>2
<1>5. ASSUME NEW i \in 1..Len(t), NEW j \in 1..Len(t), t[i] = t[j] PROVE i = j
  <2>1. CASE t[i] = k
    BY <1>4, <1>5, <2>1
  <2>2. CASE t[i] # k
    <3>1. /\ i - 1 \in 1..Len(q) /\ j - 1 \in 1..Len(q)
          /\ q[i - 1] = q[j - 1]
      BY <1>4, <1>5, <2>2
    <3>2. i - 1 = j - 1
      BY <1>3, <3>1 DEF IsInjective
    <3> QED BY <1>2, <3>2
  <2> QED BY <2>1, <2>2
<1>6. IsInjective(t)
  BY <1>3, <1>5 DEF IsInjective
<1>7. ASSUME NEW x \in ToSet(t) PROVE x \in ToSet(q) \union {k}
  <2>1. PICK i \in 1..Len(t) : t[i] = x
    BY <1>3 DEF ToSet
  <2>2. CASE i - 1 \in 1..Len(q) /\ t[i] = q[i - 1]
    BY <1>3, <2>1, <2>2 DEF ToSet
  <2> QED BY <1>4, <2>1, <2>2
<1>8. ASSUME NEW x \in ToSet(q) PROVE x \in ToSet(t)
  <2>1. PICK i \in 1..Len(q) : q[i] = x
    BY <1>3 DEF ToSet
  <2>2. i + 1 \in 1..Len(t) /\ ~(i + 1 <= 1) /\ (i + 1) - 1 = i
    BY <1>2
  <2>3. t[i + 1] = x
    BY <1>2, <2>1, <2>2
  <2> QED BY <1>3, <2>2, <2>3 DEF ToSet
<1>9. k \in ToSet(t)
  <2>1. 1 \in 1..Len(t) /\ t[1] = k
    BY <1>1, <1>2
  <2> QED BY <1>3, <2>1 DEF ToSet
<1> QED BY <1>2, <1>6, <1>7, <1>8, <1>9 DEF t, a

(* One element less.                                                       *)
LEMMA RemoveFacts ==
  ASSUME NEW S, NEW q \in Seq(S), IsInjective(q), NEW n \in 1..Len(q)
  PROVE  /\ RemoveAt(q, n) \in Seq(S) /\ IsInjective(RemoveAt(q, n))
         /\ ToSet(RemoveAt(q, n)) = ToSet(q) \ {q[n]}
<1> DEFINE a == SubSeq(q, 1, n - 1)
           b == SubSeq(q, n + 1, Len(q))
           t == a \o b
<1>0. Len(q) \in Nat /\ n \in Nat /\ DOMAIN q = 1..Len(q) /\ \A i \in 1..Len(q) : q[i] \in S
  BY LenProperties, ElementOfSeq
<1>1. /\ a \in Seq(S) /\ Len(a) = n - 1
      /\ \A i \in 1..(n - 1) : a[i] = q[i]
  <2>1. \A i \in 1..(n - 1) : q[i] \in S
    BY <1>0
  <2> QED BY <1>0, <2>1, SubSeqProperties
<1>2. /\ b \in Seq(S) /\ Len(b) = Len(q) - n
      /\ \A i \in 1..(Len(q) - n) : b[i] = q[n + i]
  <2>1. \A i \in (n + 1)..Len(q) : q[i] \in S
    BY <1>0
  <2>2. /\ b \in Seq(S) /\ Len(b) = IF n + 1 <= Len(q) THEN Len(q) - (n + 1) + 1 ELSE 0
        /\ \A i \in 1..(Len(q) - (n + 1) + 1) : b[i] = q[(n + 1) + i - 1]
    BY <1>0, <2>1, SubSeqProperties
  <2>3. Len(b) = Len(q) - n
    <3>1. CASE n + 1 <= Len(q)
      BY <1>0, <2>2, <3>1
    <3>2. CASE ~(n + 1 <= Len(q))
      <4>0. Len(q) \in Nat /\ n \in Nat /\ n <= Len(q)
        BY <1>0
      <4>1. n = Len(q)
        BY <3>2, <4>0
      <4> QED BY <1>0, <2>2, <3>2, <4>1
    <3> QED BY <3>1, <3>2
  <2>4. ASSUME NEW i \in 1..(Len(q) - n) PROVE b[i] = q[n + i]
    <3>1. i \in 1..(Len(q) - (n + 1) + 1) /\ (n + 1) + i - 1 = n + i
      BY <1>0
    <3> QED BY <2>2, <3>1
  <2> QED BY <2>2, <2>3, <2>4
<1> HIDE DEF a, b
<1>3. /\ t \in Seq(S) /\ Len(t) = Len(q) - 1
      /\ \A i \in 1..Len(t) : t[i] = IF i <= Len(a) THEN a[i] ELSE b[i - Len(a)]
  <2>1. /\ t \in Seq(S) /\ Len(t) = Len(a) + Len(b)
        /\ \A i \in 1..(Len(a) + Len(b)) : t[i] = IF i <= Len(a) THEN a[i] ELSE b[i - Len(a)]
    BY <1>1, <1>2, ConcatProperties
  <2>2. Len(a) + Len(b) = Len(q) - 1
    BY <1>0, <1>1, <1>2
  <2> HIDE DEF t
  <2> QED BY <2>1, <2>2
<1>4. DOMAIN t = 1..Len(t)
  BY <1>3
<1> HIDE DEF t
<1> DEFINE place(i) == IF i < n THEN i ELSE i + 1
<1>5. ASSUME NEW i \in 1..Len(t)
      PROVE  t[i] = q[place(i)] /\ place(i) \in 1..Len(q) /\ place(i) # n
  <2>1. CASE i < n
    <3>1. i \in 1..(n - 1) /\ i <= Len(a)
      BY <1>0, <1>1, <2>1
    <3>2. t[i] = q[i]
      BY <1>1, <1>3, <3>1
    <3> QED BY <1>0, <2>1, <3>2
  <2>2. CASE ~(i < n)
    <3>1. i - Len(a) \in 1..(Len(q) - n) /\ ~(i <= Len(a)) /\ n + (i - Len(a)) = i + 1
      BY <1>0, <1>1, <1>3, <2>2
    <3>2. t[i] = b[i - Len(a)]
      BY <1>3, <3>1
    <3>3. b[i - Len(a)] = q[i + 1]
      BY <1>2, <3>1
    <3>4. i + 1 \in 1..Len(q) /\ i + 1 # n
      BY <1>0, <1>3, <2>2
    <3> QED BY <2>2, <3>2, <3>3, <3>4
  <2> QED BY <2>1, <2>2
<1>6. ASSUME NEW i \in 1..Len(t), NEW j \in 1..Len(t), t[i] = t[j] PROVE i = j
  <2>1. place(i) = place(j)
    <3> HIDE DEF place
    <3> QED BY <1>0, <1>5, <1>6 DEF IsInjective
  <2> QED BY <1>0, <1>3, <2>1
<1>7. IsInjective(t)
  BY <1>4, <1>6 DEF IsInjective
<1>8. ASSUME NEW x \in ToSet(t) PROVE x \in ToSet(q) /\ x # q[n]
  <2>1. PICK i \in 1..Len(t) : t[i] = x
    BY <1>4 DEF ToSet
  <2> HIDE DEF place
  <2>2. x = q[place(i)] /\ place(i) \in 1..Len(q) /\ place(i) # n
    BY <1>5, <2>1
  <2> QED BY <1>0, <2>2 DEF ToSet, IsInjective
<1>9. ASSUME NEW x \in ToSet(q), x # q[n] PROVE x \in ToSet(t)
  <2>1. PICK i \in 1..Len(q) : q[i] = x
    BY <1>0 DEF ToSet
  <2>2. i # n
    BY <1>9, <2>1
  <2>3. PICK j \in 1..Len(t) : place(j) = i
    <3>1. CASE i < n
      <4>1. i \in 1..Len(t) /\ place(i) = i
        BY <1>0, <1>3, <3>1
      <4> QED BY <4>1
    <3>2. CASE i > n
      <4>1. i - 1 \in 1..Len(t) /\ place(i - 1) = i
        BY <1>0, <1>3, <3>2
      <4> QED BY <4>1
    <3> QED BY <1>0, <2>2, <3>1, <3>2
  <2>4. t[j] = x
    BY <1>5, <2>1, <2>3
  <2> QED BY <1>4, <2>4 DEF ToSet
<1>10. ToSet(t) = ToSet(q) \ {q[n]}
  BY <1>8, <1>9
<1>11. RemoveAt(q, n) = t
  BY DEF RemoveAt, t, a, b
<1> QED BY <1>3, <1>7, <1>10, <1>11

-----------------------------------------------------------------------------
(* A request that is served.                                               *)

(* The connection a request gets is cached or new; nothing goes over it    *)
(* that is not known to be shared, and the question never.                 *)
LEMMA ConnectFacts ==
  ASSUME Core, NEW kk, Settled(kk), NEW k \in Connection, Connect(kk, k)
  PROVE  /\ kk[k] \in Connections /\ 0 \notin Known(kk[k])
         /\ multiplex # "yes" => \A i \in Id : sockets[i] # k
         /\ cache' \in Seq(Connection) /\ IsInjective(cache')
         /\ ToSet(cache') \subseteq ToSet(cache) \union {k}
         /\ k \in ToSet(cache') => multiplex = "yes"
         /\ k \in ToSet(cache') /\ kk[k].uncached => ~setup.multiplexes
<1>1. /\ cache \in Seq(Connection) /\ IsInjective(cache)
      /\ kk \in [Connection -> Connections] /\ Connected(kk[k])
  BY DEF Core, Types, CacheSound, Settled
<1>2. CASE cache # <<>>
  <2>1. k = Head(cache) /\ cache' = IF multiplex = "yes" THEN cache ELSE Tail(cache)
    BY <1>2 DEF Connect
  <2>2. /\ Tail(cache) \in Seq(Connection) /\ IsInjective(Tail(cache))
        /\ ToSet(Tail(cache)) \subseteq ToSet(cache) \ {k} /\ k \in ToSet(cache)
    BY <1>1, <1>2, <2>1, TailFacts
  <2>3. /\ connection[k].open /\ (multiplex # "yes" => \A i \in Id : sockets[i] # k)
        /\ (connection[k].uncached => ~setup.multiplexes)
    BY <2>2 DEF Core, CacheSound, MultiplexMatches
  <2>4. kk[k] = connection[k] /\ 0 \notin Known(kk[k])
    BY <2>2, <2>3 DEF Settled
  <2> QED BY <1>1, <2>1, <2>2, <2>3, <2>4
<1>3. CASE cache = <<>>
  <2> DEFINE e == <<>>
             p == <<k>> \o e
  <2>1. k \in FreeMemory(kk) /\ cache' = IF multiplex = "yes" THEN <<k>> ELSE cache
    BY <1>3 DEF Connect
  <2>2. ToSet(e) = {} /\ e \in Seq(Connection) /\ IsInjective(e)
    BY DEF ToSet, IsInjective
  <2>3. e = cache /\ p = <<k>>
    BY <1>3
  <2> HIDE DEF e
  <2>4. p \in Seq(Connection) /\ IsInjective(p) /\ ToSet(p) = {k}
    BY <2>2, PushFacts
  <2> HIDE DEF p
  <2>5. kk[k] = ClosedConnection /\ ~kk[k].open
    BY <1>1, <2>1 DEF FreeMemory, Connected
  <2>6. ~connection[k].open
    BY <2>5 DEF Settled
  <2>7. \A i \in Id : sockets[i] # k
    BY <2>6, CacheFacts
  <2>8. 0 \notin Known(kk[k]) /\ ~kk[k].uncached
    BY <2>5, ClosedConnectionType DEF ClosedConnection
  <2> QED BY <1>1, <2>1, <2>2, <2>3, <2>4, <2>7, <2>8
<1> QED BY <1>2, <1>3

(* A request under a free id, over a connection that may be shared.        *)
LEMMA ServedKeeps ==
  ASSUME Core, NEW c \in Client, ~InTable(c), NEW s, Asking(s),
         NEW id \in Id, id # 0, requests[id] = NULL,
         NEW kk, Settled(kk), NEW k \in Connection, NEW n \in 0..s.body,
         Connect(kk, k), NEW w \in Started(kk[k], id, n),
         connection' = [kk EXCEPT ![k] = w],
         client' = [client EXCEPT ![c] = Relayed(s, id, n)],
         sockets' = [sockets EXCEPT ![id] = k],
         requests' = [requests EXCEPT ![id] = c],
         highest' = Max({highest, id}), UNCHANGED <<setup, multiplex>>
  PROVE  Core'
<1> DEFINE t == Relayed(s, id, n)
<1>0. /\ Types /\ ClientsMatch /\ ConnectionsMatch /\ TableMatches /\ ServerAgrees
      /\ CacheSound /\ AskedApart /\ MultiplexMatches
  BY DEF Core
<1>1. Relaying(t) /\ t.id = id
  BY RelayedRelays
<1>2. client' = [client EXCEPT ![c] = t]
  OBVIOUS
<1> HIDE DEF t
<1>3. /\ kk[k] \in Connections /\ 0 \notin Known(kk[k])
      /\ multiplex # "yes" => \A i \in Id : sockets[i] # k
      /\ cache' \in Seq(Connection) /\ IsInjective(cache')
      /\ ToSet(cache') \subseteq ToSet(cache) \union {k}
      /\ k \in ToSet(cache') => multiplex = "yes"
      /\ k \in ToSet(cache') /\ kk[k].uncached => ~setup.multiplexes
  BY ConnectFacts
<1>4. /\ w.open /\ Connected(w) /\ Known(w) = Known(kk[k]) \union {id}
      /\ w.uncached <=> (kk[k].uncached \/ Asks)
  <2>1. n \in Nat
    <3>1. s.body \in Nat
      BY DEF Asking, Clients
    <3> QED BY <3>1
  <2> QED BY <1>3, <2>1, StartedFacts
<1>5. \A j \in Connection : connection'[j] = IF j = k THEN w ELSE kk[j]
  BY DEF Settled
<1>6. \A i \in Id : /\ sockets'[i] = IF i = id THEN k ELSE sockets[i]
                    /\ requests'[i] = IF i = id THEN c ELSE requests[i]
  BY <1>0 DEF Types
<1>7. \A d \in Client : client'[d] = IF d = c THEN t ELSE client[d]
  BY <1>0, <1>2 DEF Types
<1>8. sockets[id] \notin Connection /\ \A i \in Id : requests[i] # c
  BY <1>0, Apart, Entries DEF InTable
<1>9. highest' \in Id /\ highest <= highest' /\ id <= highest'
  BY <1>0, MaxOfTwo DEF Types
<1>10. Types'
  <2>1. client' \in [Client -> Clients]
    BY <1>0, <1>1, <1>2 DEF Types, Relaying
  <2>2. connection' \in [Connection -> Connections]
    BY <1>4 DEF Settled, Connected
  <2>3. /\ sockets' \in [Id -> Connection \union {NULL, Garbage}]
        /\ requests' \in [Id -> Client \union {NULL, Garbage}]
    BY <1>0 DEF Types
  <2> QED BY <1>0, <1>3, <1>9, <2>1, <2>2, <2>3 DEF Types
<1>11. \A d \in Client : InTable(d)' <=> (d = c \/ InTable(d))
  <2>1. ASSUME NEW d \in Client, InTable(d)' PROVE d = c \/ InTable(d)
    BY <1>6, <2>1 DEF InTable
  <2>2. InTable(c)'
    BY <1>6 DEF InTable
  <2>3. ASSUME NEW d \in Client, InTable(d), d # c PROVE InTable(d)'
    <3>1. PICK i \in Id : requests[i] = d
      BY <2>3 DEF InTable
    <3>2. i # id
      BY <3>1, Apart
    <3> QED BY <1>6, <3>1, <3>2 DEF InTable
  <2> QED BY <2>1, <2>2, <2>3
<1>12. ClientsMatch'
  BY <1>0, <1>1, <1>7, <1>11 DEF ClientsMatch
<1>13. ConnectionsMatch'
  BY <1>4, <1>5 DEF ConnectionsMatch, Settled
<1>14. TableMatches'
  <2>1. requests'[0] = NULL /\ sockets'[0] = NULL
    BY <1>0, <1>6, ZeroIsId DEF TableMatches
  <2>2. ASSUME NEW i \in Id
        PROVE  /\ requests'[i] \in Client <=> sockets'[i] \in Connection
               /\ requests'[i] \in Client =>
                    /\ i <= highest'
                    /\ connection'[sockets'[i]].open
                    /\ client'[requests'[i]].state = "request" /\ client'[requests'[i]].id = i
                    /\ client'[requests'[i]].onRemoteHangup = "OnClientHangup"
    <3>1. CASE i = id
      BY <1>1, <1>4, <1>5, <1>6, <1>7, <1>9, <3>1 DEF Relaying
    <3>2. CASE i # id
      <4>1. requests'[i] = requests[i] /\ sockets'[i] = sockets[i]
        BY <1>6, <3>2
      <4>2. ASSUME requests[i] \in Client
            PROVE  /\ i <= highest'
                   /\ connection'[sockets[i]].open
                   /\ client'[requests[i]].state = "request" /\ client'[requests[i]].id = i
                   /\ client'[requests[i]].onRemoteHangup = "OnClientHangup"
        <5>1. /\ i <= highest /\ sockets[i] \in Connection /\ connection[sockets[i]].open
              /\ client[requests[i]].state = "request" /\ client[requests[i]].id = i
              /\ client[requests[i]].onRemoteHangup = "OnClientHangup"
          BY <1>0, <4>2 DEF TableMatches
        <5>2. i <= highest'
          <6>1. i \in Nat /\ highest \in Nat /\ highest' \in Nat
            BY <1>0, <1>9, TableAssumption DEF Types, Id
          <6> QED BY <1>9, <5>1, <6>1
        <5>3. connection'[sockets[i]].open
          BY <1>4, <1>5, <5>1 DEF Settled
        <5>4. client'[requests[i]] = client[requests[i]]
          BY <1>7, <1>8, <4>2
        <5> QED BY <5>1, <5>2, <5>3, <5>4
      <4> QED BY <1>0, <4>1, <4>2 DEF TableMatches
    <3> QED BY <3>1, <3>2
  <2> QED BY <2>1, <2>2 DEF TableMatches
<1>15. ServerAgrees'
  <2>1. ASSUME NEW j \in Connection
        PROVE  Known(connection'[j]) \ {0} = {i \in Id : sockets'[i] = j}
    <3>1. Known(kk[j]) \ {0} = {i \in Id : sockets[i] = j}
      BY <1>0 DEF ServerAgrees, Known, Settled
    <3>2. CASE j = k
      <4>1. Known(connection'[j]) = Known(kk[k]) \union {id}
        BY <1>4, <1>5, <3>2
      <4>2. {i \in Id : sockets'[i] = k} = {i \in Id : sockets[i] = k} \union {id}
        BY <1>6
      <4> QED BY <3>1, <3>2, <4>1, <4>2
    <3>3. CASE j # k
      <4>1. connection'[j] = kk[j]
        BY <1>5, <3>3
      <4>2. {i \in Id : sockets'[i] = j} = {i \in Id : sockets[i] = j}
        BY <1>6, <1>8, <3>3, Apart
      <4> QED BY <3>1, <4>1, <4>2
    <3> QED BY <3>2, <3>3
  <2> QED BY <2>1 DEF ServerAgrees, Known
<1>16. CacheSound'
  <2>1. ASSUME NEW j \in ToSet(cache')
        PROVE  /\ connection'[j].open
               /\ multiplex # "yes" => \A i \in Id : sockets'[i] # j
    <3>1. CASE j = k
      BY <1>3, <1>4, <1>5, <2>1, <3>1
    <3>2. CASE j # k
      <4>1. j \in ToSet(cache)
        BY <1>3, <2>1, <3>2
      <4>2. /\ j \in Connection /\ connection[j].open
            /\ multiplex # "yes" => \A i \in Id : sockets[i] # j
        BY <1>0, <4>1, CacheFacts DEF CacheSound
      <4> QED BY <1>5, <1>6, <3>2, <4>2 DEF Settled
    <3> QED BY <3>1, <3>2
  <2>2. ASSUME multiplex # "yes", NEW i \in Id, NEW j \in Id,
               sockets'[i] \in Connection, sockets'[i] = sockets'[j]
        PROVE  i = j
    <3>1. \A l \in Id : sockets[l] # k
      BY <1>3, <2>2
    <3>2. \A l, m \in Id : sockets[l] \in Connection /\ sockets[l] = sockets[m] => l = m
      BY <1>0, <2>2 DEF CacheSound
    <3> QED BY <1>6, <2>2, <3>1, <3>2
  <2> QED BY <1>3, <2>1, <2>2 DEF CacheSound
<1>17. AskedApart'
  <2>1. ASSUME NEW j \in Connection, 0 \in Known(connection'[j])
        PROVE  j \notin ToSet(cache') /\ \A i \in Id : sockets'[i] # j
    <3>1. j # k
      BY <1>3, <1>4, <1>5, <2>1
    <3>2. j \notin ToSet(cache) /\ \A i \in Id : sockets[i] # j
      BY <1>5, <2>1, <3>1 DEF Settled
    <3> QED BY <1>3, <1>6, <3>1, <3>2
  <2> QED BY <2>1 DEF AskedApart
<1>18. MultiplexMatches'
  <2>1. ASSUME NEW j \in ToSet(cache'), connection'[j].uncached PROVE ~setup.multiplexes
    <3>1. CASE j = k
      <4>1. multiplex = "yes"
        BY <1>3, <2>1, <3>1
      <4>2. kk[k].uncached
        BY <1>4, <1>5, <2>1, <3>1, <4>1 DEF Asks
      <4> QED BY <1>3, <2>1, <3>1, <4>2
    <3>2. CASE j # k
      <4>1. j \in ToSet(cache)
        BY <1>3, <2>1, <3>2
      <4>2. j \in Connection /\ connection[j].open
        BY <4>1, CacheFacts
      <4>3. connection'[j] = connection[j]
        BY <1>5, <3>2, <4>2 DEF Settled
      <4> QED BY <1>0, <2>1, <4>1, <4>3 DEF MultiplexMatches
    <3> QED BY <3>1, <3>2
  <2> QED BY <1>0, <2>1 DEF MultiplexMatches
<1> QED BY <1>10, <1>12, <1>13, <1>14, <1>15, <1>16, <1>17, <1>18 DEF Core

(* Any free id will do, the smallest one too.                              *)
LEMMA ServeKeeps ==
  ASSUME Core, NEW c \in Client, ~InTable(c), NEW s, Asking(s), Serve(c, s)
  PROVE  Core'
<1> DEFINE id == Min(FreeIds)
<1>1. id \in FreeIds
  <2>1. FreeIds \in SUBSET Nat /\ FreeIds # {}
    BY TableAssumption DEF FreeIds, Id, Serve
  <2> QED BY <2>1, MinOfNats
<1>2. /\ \E kk \in Asked(connection), k \in Connection, n \in 0..s.body :
           /\ Connect(kk, k)
           /\ \E w \in Started(kk[k], id, n) : connection' = [kk EXCEPT ![k] = w]
           /\ client' = [client EXCEPT ![c] = Relayed(s, id, n)]
           /\ sockets' = [sockets EXCEPT ![id] = k]
      /\ requests' = [requests EXCEPT ![id] = c]
      /\ highest' = Max({highest, id})
      /\ UNCHANGED <<setup, multiplex>>
  BY DEF Serve
<1> HIDE DEF id
<1>3. id \in Id /\ id # 0 /\ requests[id] = NULL
  BY <1>1 DEF FreeIds
<1>4. PICK kk \in Asked(connection), k \in Connection, n \in 0..s.body :
           /\ Connect(kk, k)
           /\ \E w \in Started(kk[k], id, n) : connection' = [kk EXCEPT ![k] = w]
           /\ client' = [client EXCEPT ![c] = Relayed(s, id, n)]
           /\ sockets' = [sockets EXCEPT ![id] = k]
  BY <1>2
<1>5. PICK w \in Started(kk[k], id, n) : connection' = [kk EXCEPT ![k] = w]
  BY <1>4
<1>6. Settled(kk)
  BY AskedSettles
<1> QED BY <1>2, <1>3, <1>4, <1>5, <1>6, ServedKeeps

-----------------------------------------------------------------------------
(* What the server sends.                                                  *)

(* The server answers requests that are in the table over the connection   *)
(* it answers on, of which it has everything.                              *)
LEMMA AnswersFacts ==
  ASSUME Patient, Core, NEW k \in Connection, NEW id \in Id, Answers(k, id)
  PROVE  /\ id # 0 /\ sockets[id] = k /\ requests[id] \in Client
         /\ InTable(requests[id]) /\ Relaying(client[requests[id]])
         /\ id \notin Begun(connection[k].buffer)
         /\ client[requests[id]].body = 0 \/ client[requests[id]].hangup
<1>1. /\ id \in connection[k].live \ {0}
      /\ \A r \in ToSet(connection[k].buffer) : r.id # id
      /\ client[requests[id]].body = 0 \/ client[requests[id]].hangup
  BY DEF Answers, Patient
<1>2. sockets[id] = k
  BY <1>1 DEF Core, ServerAgrees
<1>3. requests[id] \in Client /\ InTable(requests[id])
  BY <1>2 DEF Core, TableMatches, InTable
<1>4. id \notin Begun(connection[k].buffer)
  BY <1>1 DEF Begun
<1> QED BY <1>1, <1>2, <1>3, <1>4, OneOrOther

(* Output reaches the client the table has under the id, if it is there.   *)
LEMMA StdoutKeeps ==
  ASSUME Patient, Core, NEW k \in Connection, NEW id \in Id, Stdout(k, id)
  PROVE  Core'
<1> DEFINE c == requests[id]
           s == client[c]
<1>1. /\ c \in Client /\ InTable(c) /\ Relaying(s)
      /\ s.body = 0 \/ s.hangup
  BY AnswersFacts DEF Stdout
<1>2. \/ client' = client
      \/ /\ ~s.hangup
         /\ \E output \in BOOLEAN : client' = [client EXCEPT ![c] = Header(s, output)]
      \/ /\ ~s.hangup /\ s.headerComplete
         /\ s.headerSent \/ s.head \/ s.http10
         /\ client' = [client EXCEPT ![c] = Body(s)]
  BY DEF Stdout, Patient
<1>3. UNCHANGED <<table, server>>
  BY DEF Stdout
<1> HIDE DEF c
<1>4. ClientsGo
  <2>1. CASE client' = client
    BY <2>1, ClientsSame
  <2>2. CASE /\ ~s.hangup
             /\ \E output \in BOOLEAN : client' = [client EXCEPT ![c] = Header(s, output)]
    <3>1. PICK output \in BOOLEAN : client' = [client EXCEPT ![c] = Header(s, output)]
      BY <2>2
    <3> DEFINE t == Header(s, output)
    <3>2. Goes(s, t)
      BY <1>1, <2>2, HeaderGoes
    <3>3. client' = [client EXCEPT ![c] = t]
      BY <3>1
    <3> HIDE DEF t
    <3> QED BY <1>1, <3>2, <3>3, ClientStep
  <2>3. CASE /\ ~s.hangup /\ s.headerComplete
             /\ s.headerSent \/ s.head \/ s.http10
             /\ client' = [client EXCEPT ![c] = Body(s)]
    <3> DEFINE t == Body(s)
    <3>1. Goes(s, t)
      BY <1>1, <2>3, BodyGoes
    <3>2. client' = [client EXCEPT ![c] = t]
      BY <2>3
    <3> HIDE DEF t
    <3> QED BY <1>1, <3>1, <3>2, ClientStep
  <2> QED BY <1>2, <2>1, <2>2, <2>3
<1> QED BY <1>3, <1>4, ConnectionsSame, Keeps DEF server

(* The end of a request over a connection.                                 *)
Ended(k, live, uncached) == [k EXCEPT !.live = live, !.uncached = uncached]

(* It is not known any more, and all else is.                              *)
LEMMA EndedFacts ==
  ASSUME NEW k, k.open, Connected(k), NEW id \in Id, id # 0, id \notin Begun(k.buffer),
         NEW w \in Connections, w.open, w.interest = k.interest, w.buffer = k.buffer,
         w.live = k.live \ {id}
  PROVE  Connected(w) /\ Known(w) = Known(k) \ {id}
<1>1. k \in Connections /\ Awaiting(k)
  BY DEF Connected
<1>2. Known(w) = Known(k) \ {id}
  BY DEF Known
<1>3. Awaiting(w)
  BY <1>1 DEF Awaiting
<1> QED BY <1>2, <1>3 DEF Connected

(* The end of a request: its id is free, and its connection may be cached. *)
LEMMA EndRequestKeeps ==
  ASSUME Patient, Core, NEW k \in Connection, connection[k].open, NEW id \in Id,
         EndRequest(k, id)
  PROVE  Core'
<1> DEFINE c == requests[id]
           s == client[c]
           g == setup.keepAlive /\ multiplex # "unknown"
           caches == setup.keepAlive /\ (connection[k].uncached \/ multiplex = "no")
           t == IF s.hangup THEN ClosedClient ELSE Answered(s)
           l == connection[k].live \ {id}
           b == connection[k].uncached /\ ~g
           w == Ended(connection[k], l, b)
<1>0. /\ Types /\ ClientsMatch /\ ConnectionsMatch /\ TableMatches /\ ServerAgrees
      /\ CacheSound /\ AskedApart /\ MultiplexMatches
  BY DEF Core
<1>1. /\ id # 0 /\ sockets[id] = k /\ c \in Client
      /\ InTable(c) /\ Relaying(s)
      /\ id \notin Begun(connection[k].buffer)
  BY AnswersFacts DEF EndRequest
<1>2. /\ ~(Asks /\ setup.multiplexes)
      /\ requests' = [requests EXCEPT ![id] = NULL]
      /\ sockets' = [sockets EXCEPT ![id] = NULL]
      /\ cache' = IF caches THEN <<k>> \o cache ELSE cache
      /\ client' = [client EXCEPT ![c] = t]
      /\ UNCHANGED <<setup, highest, multiplex>>
  BY DEF EndRequest, Patient
<1>3. connection' = [connection EXCEPT ![k] = w]
  <2>1. connection' = [connection EXCEPT ![k].live = @ \ {id}, ![k].uncached = @ /\ ~g]
    BY DEF EndRequest
  <2> QED BY <1>0, <2>1 DEF Types, Connections, Ended
<1>4. Unrelated(t)
  BY <1>1, AnsweredReplies DEF Unrelated
<1>5. /\ w.open /\ Connected(w) /\ Known(w) = Known(connection[k]) \ {id}
      /\ w.uncached <=> (connection[k].uncached /\ ~g)
  <2>1. Connected(connection[k])
    BY <1>0 DEF ConnectionsMatch
  <2>2. b \in BOOLEAN /\ (b <=> (connection[k].uncached /\ ~g))
    OBVIOUS
  <2>3. connection[k] \in Connections
    BY <1>0 DEF Types
  <2>4. l \in SUBSET Id /\ l = connection[k].live \ {id}
    BY <2>3 DEF Connections
  <2>5. w = [connection[k] EXCEPT !.live = l, !.uncached = b]
    BY DEF Ended
  <2> HIDE DEF b, l, w
  <2>6. w \in Connections
    BY <2>2, <2>3, <2>4, <2>5 DEF Connections
  <2>7. /\ (w.open <=> connection[k].open) /\ w.interest = connection[k].interest
        /\ w.buffer = connection[k].buffer /\ w.live = l /\ (w.uncached <=> b)
    BY <2>2, <2>3, <2>4, <2>5, <2>6 DEF Connections
  <2>8. w.open /\ w.live = connection[k].live \ {id}
    BY <2>4, <2>7
  <2>9. Connected(w) /\ Known(w) = Known(connection[k]) \ {id}
    BY <1>1, <2>1, <2>6, <2>7, <2>8, EndedFacts
  <2> QED BY <2>2, <2>7, <2>8, <2>9
<1> HIDE DEF t, w, c
<1>6. \A j \in Connection : connection'[j] = IF j = k THEN w ELSE connection[j]
  BY <1>0, <1>3 DEF Types
<1>7. \A i \in Id : /\ sockets'[i] = IF i = id THEN NULL ELSE sockets[i]
                    /\ requests'[i] = IF i = id THEN NULL ELSE requests[i]
  BY <1>0, <1>2 DEF Types
<1>8. \A d \in Client : client'[d] = IF d = c THEN t ELSE client[d]
  BY <1>0, <1>2 DEF Types
<1>9. \A i \in Id : requests[i] = c <=> i = id
  <2>1. requests[id] = c
    BY DEF c
  <2> QED BY <1>0, <1>1, <2>1, Apart, Entries
<1>10. 0 \notin Known(connection[k])
  BY <1>0, <1>1 DEF AskedApart
<1>11. caches => k \notin ToSet(cache)
  <2>1. ASSUME caches, k \in ToSet(cache) PROVE FALSE
    <3>1. multiplex = "yes"
      BY <1>0, <1>1, <2>1 DEF CacheSound
    <3>2. connection[k].uncached /\ setup.multiplexes
      BY <1>0, <2>1, <3>1 DEF MultiplexMatches
    <3> QED BY <1>0, <2>1, <3>2 DEF MultiplexMatches
  <2> QED BY <2>1
<1>12. /\ cache' \in Seq(Connection) /\ IsInjective(cache')
       /\ ToSet(cache') = IF caches THEN ToSet(cache) \union {k} ELSE ToSet(cache)
  <2>1. cache \in Seq(Connection) /\ IsInjective(cache)
    BY <1>0 DEF Types, CacheSound
  <2>2. CASE caches
    <3> DEFINE p == <<k>> \o cache
    <3>1. k \notin ToSet(cache) /\ cache' = p
      BY <1>2, <1>11, <2>2
    <3>2. /\ p \in Seq(Connection) /\ IsInjective(p)
          /\ ToSet(p) = ToSet(cache) \union {k}
      BY <2>1, <3>1, PushFacts
    <3> HIDE DEF p
    <3> QED BY <2>2, <3>1, <3>2
  <2>3. CASE ~caches
    BY <1>2, <2>1, <2>3
  <2> QED BY <2>2, <2>3
<1>13. Types'
  <2>1. client' \in [Client -> Clients]
    <3>1. t \in Clients
      BY <1>4, ClosedClientType DEF Unrelated, Idling, Replying
    <3> QED BY <1>0, <1>2, <3>1 DEF Types
  <2>2. connection' \in [Connection -> Connections]
    BY <1>0, <1>3, <1>5 DEF Types, Connected
  <2>3. /\ sockets' \in [Id -> Connection \union {NULL, Garbage}]
        /\ requests' \in [Id -> Client \union {NULL, Garbage}]
    BY <1>0, <1>2 DEF Types
  <2> QED BY <1>0, <1>2, <1>12, <2>1, <2>2, <2>3 DEF Types
<1>14. \A d \in Client : InTable(d)' <=> (d # c /\ InTable(d))
  <2>1. ASSUME NEW d \in Client, InTable(d)' PROVE d # c /\ InTable(d)
    <3>1. PICK i \in Id : requests'[i] = d
      BY <2>1 DEF InTable
    <3> QED BY <1>7, <1>9, <3>1, Apart DEF InTable
  <2>2. ASSUME NEW d \in Client, InTable(d), d # c PROVE InTable(d)'
    <3>1. PICK i \in Id : requests[i] = d
      BY <2>2 DEF InTable
    <3> QED BY <1>7, <1>9, <2>2, <3>1 DEF InTable
  <2> QED BY <2>1, <2>2
<1>15. ClientsMatch'
  BY <1>0, <1>4, <1>8, <1>14 DEF ClientsMatch
<1>16. ConnectionsMatch'
  BY <1>0, <1>5, <1>6 DEF ConnectionsMatch
<1>17. TableMatches'
  <2>1. requests'[0] = NULL /\ sockets'[0] = NULL
    BY <1>0, <1>7, ZeroIsId DEF TableMatches
  <2>2. ASSUME NEW i \in Id
        PROVE  /\ requests'[i] \in Client <=> sockets'[i] \in Connection
               /\ requests'[i] \in Client =>
                    /\ i <= highest
                    /\ connection'[sockets'[i]].open
                    /\ client'[requests'[i]].state = "request" /\ client'[requests'[i]].id = i
                    /\ client'[requests'[i]].onRemoteHangup = "OnClientHangup"
    <3>1. CASE i = id
      BY <1>7, <3>1, Apart
    <3>2. CASE i # id
      <4>1. requests'[i] = requests[i] /\ sockets'[i] = sockets[i]
        BY <1>7, <3>2
      <4>2. ASSUME requests[i] \in Client
            PROVE  /\ i <= highest
                   /\ connection'[sockets[i]].open
                   /\ client'[requests[i]].state = "request" /\ client'[requests[i]].id = i
                   /\ client'[requests[i]].onRemoteHangup = "OnClientHangup"
        <5>1. /\ i <= highest /\ sockets[i] \in Connection /\ connection[sockets[i]].open
              /\ client[requests[i]].state = "request" /\ client[requests[i]].id = i
              /\ client[requests[i]].onRemoteHangup = "OnClientHangup"
          BY <1>0, <4>2 DEF TableMatches
        <5>2. connection'[sockets[i]].open
          BY <1>5, <1>6, <5>1
        <5>3. client'[requests[i]] = client[requests[i]]
          BY <1>8, <1>9, <3>2, <4>2
        <5> QED BY <5>1, <5>2, <5>3
      <4> QED BY <1>0, <4>1, <4>2 DEF TableMatches
    <3> QED BY <3>1, <3>2
  <2> QED BY <1>2, <2>1, <2>2 DEF TableMatches
<1>18. ServerAgrees'
  <2>1. ASSUME NEW j \in Connection
        PROVE  Known(connection'[j]) \ {0} = {i \in Id : sockets'[i] = j}
    <3>1. Known(connection[j]) \ {0} = {i \in Id : sockets[i] = j}
      BY <1>0 DEF ServerAgrees, Known
    <3>2. CASE j = k
      <4>1. Known(connection'[j]) = Known(connection[k]) \ {id}
        BY <1>5, <1>6, <3>2
      <4>2. {i \in Id : sockets'[i] = k} = {i \in Id : sockets[i] = k} \ {id}
        BY <1>7, Apart
      <4> QED BY <3>1, <3>2, <4>1, <4>2
    <3>3. CASE j # k
      <4>1. connection'[j] = connection[j]
        BY <1>6, <3>3
      <4>2. {i \in Id : sockets'[i] = j} = {i \in Id : sockets[i] = j}
        BY <1>1, <1>7, <3>3, Apart
      <4> QED BY <3>1, <4>1, <4>2
    <3> QED BY <3>2, <3>3
  <2> QED BY <2>1 DEF ServerAgrees, Known
<1>19. CacheSound'
  <2>1. ASSUME multiplex # "yes", NEW i \in Id, NEW j \in Id,
               sockets'[i] \in Connection, sockets'[i] = sockets'[j]
        PROVE  i = j
    <3>1. sockets[i] \in Connection /\ sockets[i] = sockets[j]
      BY <1>7, <2>1, Apart
    <3> QED BY <1>0, <2>1, <3>1 DEF CacheSound
  <2>2. ASSUME multiplex # "yes", NEW i \in Id PROVE sockets'[i] # k
    <3>1. i # id => sockets[i] # k
      BY <1>0, <1>1, <2>2 DEF CacheSound
    <3> QED BY <1>7, <3>1, Apart
  <2>3. ASSUME NEW j \in ToSet(cache')
        PROVE  /\ connection'[j].open
               /\ multiplex # "yes" => \A i \in Id : sockets'[i] # j
    <3>1. CASE j = k
      BY <1>5, <1>6, <2>2, <3>1
    <3>2. CASE j # k
      <4>1. j \in ToSet(cache)
        BY <1>12, <2>3, <3>2
      <4>2. /\ j \in Connection /\ connection[j].open
            /\ multiplex # "yes" => \A i \in Id : sockets[i] # j
        BY <1>0, <4>1, CacheFacts DEF CacheSound
      <4> QED BY <1>6, <1>7, <3>2, <4>2, Apart
    <3> QED BY <3>1, <3>2
  <2> QED BY <1>2, <1>12, <2>1, <2>3 DEF CacheSound
<1>20. AskedApart'
  <2>1. ASSUME NEW j \in Connection, 0 \in Known(connection'[j])
        PROVE  j \notin ToSet(cache') /\ \A i \in Id : sockets'[i] # j
    <3>1. j # k
      BY <1>5, <1>6, <1>10, <2>1
    <3>2. j \notin ToSet(cache) /\ \A i \in Id : sockets[i] # j
      BY <1>0, <1>6, <2>1, <3>1 DEF AskedApart
    <3> QED BY <1>7, <1>12, <3>1, <3>2, Apart
  <2> QED BY <2>1 DEF AskedApart
<1>21. MultiplexMatches'
  <2>1. ASSUME NEW j \in ToSet(cache'), connection'[j].uncached PROVE ~setup.multiplexes
    <3>1. CASE j = k
      <4>1. connection[k].uncached /\ ~g
        BY <1>5, <1>6, <2>1, <3>1
      <4>2. CASE caches
        BY <1>2, <4>1, <4>2 DEF Asks
      <4>3. CASE ~caches
        BY <1>0, <1>12, <2>1, <3>1, <4>1, <4>3 DEF MultiplexMatches
      <4> QED BY <4>2, <4>3
    <3>2. CASE j # k
      <4>1. j \in ToSet(cache)
        BY <1>12, <2>1, <3>2
      <4>2. connection'[j] = connection[j]
        BY <1>6, <3>2, <4>1, CacheFacts
      <4> QED BY <1>0, <2>1, <4>1, <4>2 DEF MultiplexMatches
    <3> QED BY <3>1, <3>2
  <2> QED BY <1>0, <1>2, <2>1 DEF MultiplexMatches
<1> QED BY <1>13, <1>15, <1>16, <1>17, <1>18, <1>19, <1>20, <1>21 DEF Core

-----------------------------------------------------------------------------
(* Connections that are closed.                                            *)

(* The answer to the question: its connection is nobody else's.            *)
LEMMA ValuesKeep ==
  ASSUME Core, NEW k \in Connection, GetValuesResult(k)
  PROVE  Core'
<1>0. /\ Types /\ ClientsMatch /\ ConnectionsMatch /\ TableMatches /\ ServerAgrees
      /\ CacheSound /\ AskedApart /\ MultiplexMatches
  BY DEF Core
<1> DEFINE x == ClosedConnection
<1>1. /\ 0 \in connection[k].live
      /\ multiplex' \in {multiplex, IF setup.multiplexes THEN "yes" ELSE "no"}
      /\ connection' = [connection EXCEPT ![k] = x]
      /\ UNCHANGED <<client, requests, sockets, highest, setup, cache>>
  BY DEF GetValuesResult, table
<1>2. k \notin ToSet(cache) /\ \A i \in Id : sockets[i] # k
  BY <1>0, <1>1 DEF AskedApart, Known
<1>3. x \in Connections /\ Known(x) = {} /\ Connected(x)
  BY ClosedConnectionType
<1> HIDE DEF x
<1>4. \A j \in Connection : connection'[j] = IF j = k THEN x ELSE connection[j]
  BY <1>0, <1>1 DEF Types
<1>5. Types'
  <2>1. connection' \in [Connection -> Connections]
    BY <1>0, <1>1, <1>3 DEF Types
  <2> QED BY <1>0, <1>1, <2>1 DEF Types
<1>6. ClientsMatch'
  BY <1>0, <1>1 DEF ClientsMatch, InTable
<1>7. ConnectionsMatch'
  BY <1>0, <1>3, <1>4 DEF ConnectionsMatch
<1>8. TableMatches'
  <2>1. ASSUME NEW i \in Id, requests[i] \in Client PROVE connection'[sockets[i]].open
    BY <1>0, <1>2, <1>4, <2>1 DEF TableMatches
  <2> QED BY <1>0, <1>1, <2>1 DEF TableMatches
<1>9. ServerAgrees'
  <2>1. ASSUME NEW j \in Connection PROVE Known(connection'[j]) \ {0} = {i \in Id : sockets[i] = j}
    <3>1. Known(connection[j]) \ {0} = {i \in Id : sockets[i] = j}
      BY <1>0 DEF ServerAgrees, Known
    <3>2. CASE j = k
      <4>1. {i \in Id : sockets[i] = j} = {}
        BY <1>2, <3>2
      <4> QED BY <1>3, <1>4, <3>2, <4>1
    <3>3. CASE j # k
      BY <1>4, <3>1, <3>3
    <3> QED BY <3>2, <3>3
  <2> QED BY <1>1, <2>1 DEF ServerAgrees, Known
<1>10. /\ \A j \in ToSet(cache) : connection'[j] = connection[j]
       /\ multiplex' # "yes" => multiplex # "yes"
  BY <1>0, <1>1, <1>2, <1>4, CacheFacts DEF MultiplexMatches
<1>11. CacheSound'
  BY <1>0, <1>1, <1>10 DEF CacheSound
<1>12. AskedApart'
  BY <1>0, <1>1, <1>3, <1>4 DEF AskedApart
<1>13. MultiplexMatches'
  BY <1>0, <1>1, <1>10 DEF MultiplexMatches
<1> QED BY <1>5, <1>6, <1>7, <1>8, <1>9, <1>11, <1>12, <1>13 DEF Core

(* A connection leaves the cache.                                          *)
LEMMA UncachedFacts ==
  ASSUME cache \in Seq(Connection), IsInjective(cache), NEW k \in Connection
  PROVE  /\ Uncached(k) \in Seq(Connection) /\ IsInjective(Uncached(k))
         /\ ToSet(Uncached(k)) = ToSet(cache) \ {k}
<1> DEFINE places == {i \in DOMAIN cache : cache[i] = k}
           n == Min(places)
<1>1. CASE k \in ToSet(cache)
  <2>1. DOMAIN cache = 1..Len(cache) /\ Len(cache) \in Nat
    BY LenProperties
  <2>2. places \in SUBSET Nat /\ places # {}
    BY <1>1, <2>1 DEF ToSet
  <2>3. n \in places
    BY <2>2, MinOfNats
  <2>4. Uncached(k) = RemoveAt(cache, n)
    BY <1>1 DEF Uncached
  <2>5. n \in 1..Len(cache) /\ cache[n] = k
    BY <2>1, <2>3
  <2> HIDE DEF n
  <2> QED BY <2>4, <2>5, RemoveFacts
<1>2. CASE k \notin ToSet(cache)
  BY <1>2 DEF Uncached
<1> QED BY <1>1, <1>2

(* A connection is lost: everybody it relays is answered, and forgotten.   *)
LEMMA RemoteHangupKeeps ==
  ASSUME Core, NEW k \in Connection, OnRemoteHangup(k)
  PROVE  Core'
<1> DEFINE ids == IdsOn(k)
           lost == {requests[i] : i \in ids}
           x == ClosedConnection
<1>0. /\ Types /\ ClientsMatch /\ ConnectionsMatch /\ TableMatches /\ ServerAgrees
      /\ CacheSound /\ AskedApart /\ MultiplexMatches
  BY DEF Core
<1>1. ids = {i \in Id : sockets[i] = k}
  <2>1. highest \in Nat /\ MaxRequestID \in Nat /\ highest <= MaxRequestID - 1
    BY <1>0, TableAssumption DEF Types, Id
  <2>2. ASSUME NEW i \in Id, sockets[i] = k PROVE i \in 0..highest
    <3>1. i <= highest /\ i \in Nat
      BY <1>0, <2>2, TableAssumption DEF TableMatches, Id
    <3> QED BY <2>1, <3>1
  <2>3. \A i \in 0..highest : i \in Id
    BY <2>1 DEF Id
  <2> QED BY <2>2, <2>3 DEF IdsOn
<1>2. /\ \E t \in [lost -> UNION {Lost(client[c]) : c \in lost}] :
           /\ \A c \in lost : t[c] \in Lost(client[c])
           /\ client' = [c \in Client |-> IF c \in lost THEN t[c] ELSE client[c]]
      /\ requests' = [i \in Id |-> IF i \in ids THEN NULL ELSE requests[i]]
      /\ sockets' = [i \in Id |-> IF i \in ids THEN NULL ELSE sockets[i]]
      /\ cache' = Uncached(k)
      /\ connection' = [connection EXCEPT ![k] = x]
      /\ UNCHANGED <<setup, highest, multiplex>>
  BY DEF OnRemoteHangup
<1>3. PICK t : /\ \A c \in lost : t[c] \in Lost(client[c])
               /\ client' = [c \in Client |-> IF c \in lost THEN t[c] ELSE client[c]]
  BY <1>2
<1>4. x \in Connections /\ Known(x) = {} /\ Connected(x)
  BY ClosedConnectionType
<1> HIDE DEF x
<1>5. \A i \in Id : i \in ids <=> sockets[i] = k
  BY <1>1
<1>6. \A c : c \in lost <=> \E i \in ids : requests[i] = c
  OBVIOUS
<1>7. ids \subseteq Id
  BY <1>1
<1> HIDE DEF ids, lost
<1>8. \A i \in Id : /\ sockets'[i] = IF i \in ids THEN NULL ELSE sockets[i]
                    /\ requests'[i] = IF i \in ids THEN NULL ELSE requests[i]
  BY <1>2
<1>9. \A j \in Connection : connection'[j] = IF j = k THEN x ELSE connection[j]
  BY <1>0, <1>2 DEF Types
<1>10. \A i \in ids : requests[i] \in Client
  BY <1>0, <1>5, <1>7 DEF TableMatches
<1>11. \A i \in Id : requests[i] \in lost => i \in ids \/ requests[i] \notin Client
  <2>1. ASSUME NEW i \in Id, requests[i] \in lost, requests[i] \in Client PROVE i \in ids
    <3>1. PICK j \in ids : requests[j] = requests[i]
      BY <1>6, <2>1
    <3>2. j = i
      <4>1. j \in Id
        BY <1>7
      <4>2. client[requests[j]].id = j /\ client[requests[i]].id = i
        BY <1>0, <2>1, <3>1, <4>1 DEF TableMatches
      <4> QED BY <3>1, <4>2
    <3> QED BY <3>2
  <2> QED BY <2>1
<1>12. ASSUME NEW c \in Client
       PROVE  client'[c] = IF c \in lost THEN t[c] ELSE client[c]
  BY <1>3
<1>13. ASSUME NEW c \in lost PROVE Unrelated(t[c])
  <2>1. PICK i \in ids : requests[i] = c
    BY <1>6
  <2>2. c \in Client /\ InTable(c)
    BY <1>7, <1>10, <2>1 DEF InTable
  <2>3. Relaying(client[c])
    BY <2>2, OneOrOther
  <2>4. t[c] \in Lost(client[c])
    BY <1>3
  <2> QED BY <2>3, <2>4, LostLeaves
<1>14. Types'
  <2>1. client' \in [Client -> Clients]
    <3>1. ASSUME NEW c \in Client
          PROVE  (IF c \in lost THEN t[c] ELSE client[c]) \in Clients
      BY <1>0, <1>13, ClosedClientType DEF Types, Unrelated, Idling, Replying
    <3> QED BY <1>3, <3>1
  <2>2. connection' \in [Connection -> Connections]
    BY <1>0, <1>2, <1>4 DEF Types
  <2>3. /\ sockets' \in [Id -> Connection \union {NULL, Garbage}]
        /\ requests' \in [Id -> Client \union {NULL, Garbage}]
    BY <1>0, <1>2 DEF Types
  <2>4. cache' \in Seq(Connection)
    BY <1>0, <1>2, UncachedFacts DEF Types, CacheSound
  <2> QED BY <1>0, <1>2, <2>1, <2>2, <2>3, <2>4 DEF Types
<1>15. \A c \in Client : InTable(c)' <=> (c \notin lost /\ InTable(c))
  <2>1. ASSUME NEW c \in Client, InTable(c)' PROVE c \notin lost /\ InTable(c)
    <3>1. PICK i \in Id : requests'[i] = c
      BY <2>1 DEF InTable
    <3>2. i \notin ids /\ requests[i] = c
      BY <1>8, <3>1, Apart
    <3> QED BY <1>11, <3>2 DEF InTable
  <2>2. ASSUME NEW c \in Client, InTable(c), c \notin lost PROVE InTable(c)'
    <3>1. PICK i \in Id : requests[i] = c
      BY <2>2 DEF InTable
    <3> QED BY <1>6, <1>8, <2>2, <3>1 DEF InTable
  <2> QED BY <2>1, <2>2
<1>16. ClientsMatch'
  <2>1. ASSUME NEW c \in Client
        PROVE  IF InTable(c)' THEN Relaying(client'[c]) ELSE Unrelated(client'[c])
    <3>1. CASE c \in lost
      BY <1>12, <1>13, <1>15, <3>1
    <3>2. CASE c \notin lost
      BY <1>0, <1>12, <1>15, <3>2 DEF ClientsMatch
    <3> QED BY <3>1, <3>2
  <2> QED BY <2>1 DEF ClientsMatch
<1>17. ConnectionsMatch'
  BY <1>0, <1>4, <1>9 DEF ConnectionsMatch
<1>18. TableMatches'
  <2>1. requests'[0] = NULL /\ sockets'[0] = NULL
    BY <1>0, <1>8, ZeroIsId DEF TableMatches
  <2>2. ASSUME NEW i \in Id
        PROVE  /\ requests'[i] \in Client <=> sockets'[i] \in Connection
               /\ requests'[i] \in Client =>
                    /\ i <= highest
                    /\ connection'[sockets'[i]].open
                    /\ client'[requests'[i]].state = "request" /\ client'[requests'[i]].id = i
                    /\ client'[requests'[i]].onRemoteHangup = "OnClientHangup"
    <3>1. CASE i \in ids
      BY <1>8, <3>1, Apart
    <3>2. CASE i \notin ids
      <4>1. requests'[i] = requests[i] /\ sockets'[i] = sockets[i]
        BY <1>8, <3>2
      <4>2. ASSUME requests[i] \in Client
            PROVE  /\ i <= highest
                   /\ connection'[sockets[i]].open
                   /\ client'[requests[i]].state = "request" /\ client'[requests[i]].id = i
                   /\ client'[requests[i]].onRemoteHangup = "OnClientHangup"
        <5>1. /\ i <= highest /\ sockets[i] \in Connection /\ connection[sockets[i]].open
              /\ client[requests[i]].state = "request" /\ client[requests[i]].id = i
              /\ client[requests[i]].onRemoteHangup = "OnClientHangup"
          BY <1>0, <4>2 DEF TableMatches
        <5>2. sockets[i] # k /\ requests[i] \notin lost
          BY <1>5, <1>11, <3>2, <4>2
        <5>3. connection'[sockets[i]] = connection[sockets[i]]
          BY <1>9, <5>1, <5>2
        <5>4. client'[requests[i]] = client[requests[i]]
          BY <1>12, <4>2, <5>2
        <5> QED BY <5>1, <5>3, <5>4
      <4> QED BY <1>0, <4>1, <4>2 DEF TableMatches
    <3> QED BY <3>1, <3>2
  <2> QED BY <1>2, <2>1, <2>2 DEF TableMatches
<1>19. ServerAgrees'
  <2>1. ASSUME NEW j \in Connection
        PROVE  Known(connection'[j]) \ {0} = {i \in Id : sockets'[i] = j}
    <3>1. Known(connection[j]) \ {0} = {i \in Id : sockets[i] = j}
      BY <1>0 DEF ServerAgrees, Known
    <3>2. CASE j = k
      <4>1. Known(connection'[j]) = {}
        BY <1>4, <1>9, <3>2
      <4>2. {i \in Id : sockets'[i] = j} = {}
        BY <1>5, <1>8, <3>2, Apart
      <4> QED BY <4>1, <4>2
    <3>3. CASE j # k
      <4>1. connection'[j] = connection[j]
        BY <1>9, <3>3
      <4>2. {i \in Id : sockets'[i] = j} = {i \in Id : sockets[i] = j}
        BY <1>5, <1>8, <3>3, Apart
      <4> QED BY <3>1, <4>1, <4>2
    <3> QED BY <3>2, <3>3
  <2> QED BY <2>1 DEF ServerAgrees, Known
<1>20. /\ IsInjective(cache') /\ ToSet(cache') = ToSet(cache) \ {k}
       /\ \A j \in ToSet(cache') : connection'[j] = connection[j] /\ j \in ToSet(cache)
  <2>1. IsInjective(cache') /\ ToSet(cache') = ToSet(cache) \ {k}
    BY <1>0, <1>2, UncachedFacts DEF Types, CacheSound
  <2>2. \A j \in ToSet(cache) : j \in Connection
    BY CacheFacts
  <2> QED BY <1>9, <2>1, <2>2
<1>21. CacheSound'
  <2>1. ASSUME multiplex # "yes", NEW i \in Id, NEW j \in Id,
               sockets'[i] \in Connection, sockets'[i] = sockets'[j]
        PROVE  i = j
    <3>1. sockets[i] \in Connection /\ sockets[i] = sockets[j]
      BY <1>8, <2>1, Apart
    <3> QED BY <1>0, <2>1, <3>1 DEF CacheSound
  <2>2. ASSUME NEW j \in ToSet(cache')
        PROVE  /\ connection'[j].open
               /\ multiplex # "yes" => \A i \in Id : sockets'[i] # j
    <3>1. /\ j \in ToSet(cache) /\ connection'[j] = connection[j]
      BY <1>20, <2>2
    <3>2. /\ j \in Connection /\ connection[j].open
          /\ multiplex # "yes" => \A i \in Id : sockets[i] # j
      BY <1>0, <3>1, CacheFacts DEF CacheSound
    <3> QED BY <1>8, <3>1, <3>2, Apart
  <2> QED BY <1>2, <1>20, <2>1, <2>2 DEF CacheSound
<1>22. AskedApart'
  <2>1. ASSUME NEW j \in Connection, 0 \in Known(connection'[j])
        PROVE  j \notin ToSet(cache') /\ \A i \in Id : sockets'[i] # j
    <3>1. connection'[j] = connection[j]
      BY <1>4, <1>9, <2>1
    <3>2. j \notin ToSet(cache) /\ \A i \in Id : sockets[i] # j
      BY <1>0, <2>1, <3>1 DEF AskedApart
    <3> QED BY <1>8, <1>20, <3>2, Apart
  <2> QED BY <2>1 DEF AskedApart
<1>23. MultiplexMatches'
  BY <1>0, <1>2, <1>20 DEF MultiplexMatches
<1> QED BY <1>14, <1>16, <1>17, <1>18, <1>19, <1>21, <1>22, <1>23 DEF Core

(* The buffer of a connection is written.                                  *)
LEMMA ServerWriteKeeps ==
  ASSUME Core, NEW k \in Connection, connection[k].open,
         NEW w \in OnWriteServer(connection[k]), connection' = [connection EXCEPT ![k] = w],
         UNCHANGED <<client, table, setup, cache, multiplex>>
  PROVE  Core'
<1>1. connection[k] \in Connections /\ Awaiting(connection[k])
  BY DEF Core, Types, ConnectionsMatch, Connected
<1>2. Alike(connection[k], w) /\ Known(w) = Known(connection[k])
  BY <1>1, WriteServerKeeps
<1>3. ConnectionsGo
  BY <1>2, ConnectionStep
<1> QED BY <1>3, ClientsSame, Keeps

-----------------------------------------------------------------------------
(* The steps of the specification.                                         *)

(* The handler that reads requests is that of an idle client.              *)
LEMMA ReadRequestKeeps ==
  ASSUME Core, NEW c \in Client, "in" \in client[c].interest, client[c].onRead = "HTTP",
         \/ /\ client' \in {client, [client EXCEPT ![c] = ClosedClient]}
            /\ UNCHANGED <<table, server>>
         \/ \E s \in Requested(client[c]) : Refuse(c, s) \/ Serve(c, s)
  PROVE  Core'
<1>1. ~InTable(c) /\ Idling(client[c])
  BY OneOrOther, ClosedIs DEF Relaying, Unrelated, Replying
<1>2. CASE client' = client /\ UNCHANGED <<table, server>>
  BY <1>2, ClientsSame, ConnectionsSame, Keeps DEF server
<1>3. CASE client' = [client EXCEPT ![c] = ClosedClient] /\ UNCHANGED <<table, server>>
  BY <1>1, <1>3, CloseKeeps
<1>4. CASE \E s \in Requested(client[c]) : Refuse(c, s) \/ Serve(c, s)
  <2>1. PICK s \in Requested(client[c]) : Refuse(c, s) \/ Serve(c, s)
    BY <1>4
  <2>2. setup \in Setups
    BY DEF Core, MultiplexMatches
  <2>3. Asking(s)
    BY <1>1, <2>1, <2>2, RequestedAsks
  <2> QED BY <1>1, <2>1, <2>3, RefuseKeeps, ServeKeeps
<1> QED BY <1>2, <1>3, <1>4

(* Whose turn it is; the handlers are called of open sockets.              *)
LEMMA CurrentClient ==
  ASSUME PendingMatches, NEW c \in Client, current = c, NEW handler \in pending
  PROVE  /\ client[c].state # "closed"
         /\ "read" \in pending => "in" \in client[c].interest
         /\ "write" \in pending => "out" \in client[c].interest
BY DEF PendingMatches

(* So are those of connections.                                            *)
LEMMA CurrentServer ==
  ASSUME PendingMatches, NEW k \in Connection, current = k, NEW handler \in pending
  PROVE  connection[k].open
BY DEF PendingMatches

(* Every step keeps the invariant but for the handlers still to be called. *)
LEMMA CoreSteps ==
  ASSUME Patient, IInv, Next
  PROVE  Core'
<1>1. Core /\ PendingMatches
  BY DEF IInv
<1>2. ASSUME UNCHANGED <<client, table, server>> PROVE Core'
  BY <1>1, <1>2, ClientsSame, ConnectionsSame, Keeps DEF server
<1>3. ASSUME NEW c \in Client, Accept(c) PROVE Core'
  BY <1>1, <1>3, AcceptKeeps DEF Accept
<1>4. ASSUME NEW c \in Client, Ready(c) PROVE Core'
  BY <1>2, <1>4 DEF Ready, Report
<1>5. ASSUME NEW c \in Client, ReadRequest(c) PROVE Core'
  <2>1. /\ current = c /\ "read" \in pending /\ client[c].onRead = "HTTP"
        /\ \/ /\ client' \in {client, [client EXCEPT ![c] = ClosedClient]}
              /\ UNCHANGED <<table, server>>
           \/ \E s \in Requested(client[c]) : Refuse(c, s) \/ Serve(c, s)
    BY <1>5 DEF ReadRequest, Turn
  <2>2. "in" \in client[c].interest
    BY <1>1, <2>1, CurrentClient
  <2> QED BY <1>1, <2>1, <2>2, ReadRequestKeeps
<1>6. ASSUME NEW c \in Client, ReadBody(c) PROVE Core'
  <2>1. /\ current = c /\ "read" \in pending /\ client[c].onRead = "OnClientRead"
        /\ OnClientRead(c)
    BY <1>6 DEF ReadBody, Turn
  <2>2. "in" \in client[c].interest
    BY <1>1, <2>1, CurrentClient
  <2>3. InTable(c)
    BY <1>1, <2>1, <2>2, BodyReaders
  <2> QED BY <1>1, <2>1, <2>3, ClientReadKeeps
<1>7. ASSUME NEW c \in Client, WriteClient(c) PROVE Core'
  <2>1. /\ current = c /\ "write" \in pending
        /\ \/ /\ client[c].onWrite = "FullWriteBuffer"
              /\ \E t \in FullWriteBuffer(client[c]) : client' = [client EXCEPT ![c] = t]
              /\ UNCHANGED <<table, server>>
           \/ /\ client[c].onWrite = "OnWrite"
              /\ \E t \in OnWrite(client[c]) : client' = [client EXCEPT ![c] = t]
              /\ UNCHANGED <<table, server>>
           \/ client[c].onWrite = "OnWrite" /\ OnHangup(c)
    BY <1>7 DEF WriteClient, Turn
  <2>2. "out" \in client[c].interest
    BY <1>1, <2>1, CurrentClient
  <2> QED BY <1>1, <2>1, <2>2, ClientWriteKeeps
<1>8. ASSUME NEW c \in Client, HangupClient(c) PROVE Core'
  <2>1. current = c /\ "hangup" \in pending /\ OnHangup(c)
    BY <1>8 DEF HangupClient, Turn
  <2>2. client[c].state # "closed"
    BY <1>1, <2>1, CurrentClient
  <2> QED BY <1>1, <2>1, <2>2, HangupKeeps
<1>9. ASSUME NEW k \in Connection, ReadyServer(k) PROVE Core'
  BY <1>2, <1>9 DEF ReadyServer, Report
<1>10. ASSUME NEW k \in Connection, ReadServer(k) PROVE Core'
  <2>1. /\ current = k /\ "read" \in pending
        /\ \/ \E id \in Id : Stdout(k, id) \/ EndRequest(k, id)
           \/ GetValuesResult(k)
           \/ OnRemoteHangup(k)
    BY <1>10 DEF ReadServer, Turn
  <2>2. connection[k].open
    BY <1>1, <2>1, CurrentServer
  <2> QED BY <1>1, <2>1, <2>2, StdoutKeeps, EndRequestKeeps, ValuesKeep, RemoteHangupKeeps
<1>11. ASSUME NEW k \in Connection, WriteServer(k) PROVE Core'
  <2>1. /\ current = k /\ "write" \in pending
        /\ \/ /\ \E w \in OnWriteServer(connection[k]) :
                   connection' = [connection EXCEPT ![k] = w]
              /\ UNCHANGED <<client, table, setup, cache, multiplex>>
           \/ OnRemoteHangup(k)
    BY <1>11 DEF WriteServer, Turn
  <2>2. connection[k].open
    BY <1>1, <2>1, CurrentServer
  <2> QED BY <1>1, <2>1, <2>2, ServerWriteKeeps, RemoteHangupKeeps
<1>12. ASSUME NEW k \in Connection, HangupServer(k) PROVE Core'
  BY <1>1, <1>12, RemoteHangupKeeps DEF HangupServer
<1> QED BY <1>3, <1>4, <1>5, <1>6, <1>7, <1>8, <1>9, <1>10, <1>11, <1>12 DEF Next

(* After a handler no other one reads or writes, unless the socket was not *)
(* closed; of a client that asked for one direction nothing is left but    *)
(* the hangup.                                                             *)
LEMMA CalledClientMatches ==
  ASSUME Types', pending \in SUBSET Handlers, NEW c \in Client, current = c,
         NEW handler \in Handlers, pending \ {handler} \subseteq {"hangup"},
         CalledClient(c, handler)
  PROVE  PendingMatches'
<1>1. \/ client'[c].state # "closed" /\ pending' = pending \ {handler}
      \/ pending' = {}
  BY DEF CalledClient, Called
<1>2. current' = IF pending' = {} THEN NULL ELSE current
  BY DEF CalledClient, Called
<1>3. CASE pending' = {}
  BY <1>2, <1>3 DEF PendingMatches
<1>4. CASE client'[c].state # "closed" /\ pending' = pending \ {handler} /\ pending' # {}
  <2>1. current' = c /\ c \notin Connection
    BY <1>2, <1>4, Apart
  <2>2. "read" \notin pending' /\ "write" \notin pending' /\ pending' \in SUBSET Handlers
    BY <1>4
  <2> QED BY <1>4, <2>1, <2>2 DEF PendingMatches
<1> QED BY <1>1, <1>3, <1>4

(* The same for a connection.                                              *)
LEMMA CalledServerMatches ==
  ASSUME pending \in SUBSET Handlers, NEW k \in Connection, current = k,
         NEW handler \in Handlers, CalledServer(k, handler)
  PROVE  PendingMatches'
<1>1. \/ connection'[k].open /\ pending' = pending \ {handler}
      \/ pending' = {}
  BY DEF CalledServer, Called
<1>2. current' = IF pending' = {} THEN NULL ELSE current
  BY DEF CalledServer, Called
<1>3. CASE pending' = {}
  BY <1>2, <1>3 DEF PendingMatches
<1>4. CASE connection'[k].open /\ pending' = pending \ {handler} /\ pending' # {}
  <2>1. current' = k /\ k \notin Client
    BY <1>2, <1>4, Apart
  <2>2. pending' \in SUBSET Handlers
    BY <1>4
  <2> QED BY <1>4, <2>1, <2>2 DEF PendingMatches
<1> QED BY <1>1, <1>3, <1>4

(* An event that is reported was asked for.                                *)
LEMMA ReadyMatches ==
  ASSUME Core, NEW c \in Client, Ready(c)
  PROVE  PendingMatches'
<1>1. /\ client[c].watched /\ current' = c /\ UNCHANGED <<client, connection>>
  BY DEF Ready, Report, server
<1>2. PICK p \in SUBSET Handlers :
        /\ "read" \in p => "in" \in client[c].interest
        /\ "write" \in p => "out" \in client[c].interest
        /\ pending' = p
  BY DEF Ready, Report
<1>3. client[c].state # "closed"
  <2>1. ~ClosedClient.watched
    BY DEF ClosedClient
  <2> QED BY <1>1, <2>1, OneOrOther DEF Relaying, Unrelated, Idling, Replying
<1> QED BY <1>1, <1>2, <1>3, Apart DEF PendingMatches

(* Every step keeps those, too.                                            *)
LEMMA PendingSteps ==
  ASSUME Patient, IInv, Next
  PROVE  PendingMatches'
<1>1. Core /\ PendingMatches /\ pending \in SUBSET Handlers /\ Types'
  BY CoreSteps DEF IInv, PendingMatches, Core
<1>2. Handlers = {"read", "write", "hangup"}
  BY DEF Handlers
<1>3. ASSUME NEW c \in Client, current = c, "read" \in pending
      PROVE  pending \ {"read"} \subseteq {"hangup"}
  <2>1. "in" \in client[c].interest /\ ("write" \in pending => "out" \in client[c].interest)
    BY <1>1, <1>3, CurrentClient
  <2>2. "write" \notin pending
    BY <1>1, <2>1, OneDirection, OneOrOther
  <2> QED BY <1>1, <1>2, <2>2
<1>4. ASSUME NEW c \in Client, Accept(c) PROVE PendingMatches'
  <2>1. pending' = {} /\ current' = current
    BY <1>4 DEF Accept, Idle
  <2> QED BY <1>1, <2>1 DEF PendingMatches
<1>5. ASSUME NEW c \in Client, Ready(c) PROVE PendingMatches'
  BY <1>1, <1>5, ReadyMatches
<1>6. ASSUME NEW c \in Client, ReadRequest(c) PROVE PendingMatches'
  <2>1. current = c /\ "read" \in pending /\ CalledClient(c, "read")
    BY <1>6 DEF ReadRequest, Turn
  <2> QED BY <1>1, <1>2, <1>3, <2>1, CalledClientMatches
<1>7. ASSUME NEW c \in Client, ReadBody(c) PROVE PendingMatches'
  <2>1. current = c /\ "read" \in pending /\ CalledClient(c, "read")
    BY <1>7 DEF ReadBody, Turn
  <2> QED BY <1>1, <1>2, <1>3, <2>1, CalledClientMatches
<1>8. ASSUME NEW c \in Client, WriteClient(c) PROVE PendingMatches'
  <2>1. current = c /\ "read" \notin pending /\ CalledClient(c, "write")
    BY <1>8 DEF WriteClient, Turn
  <2>2. pending \ {"write"} \subseteq {"hangup"}
    BY <1>1, <1>2, <2>1
  <2> QED BY <1>1, <1>2, <2>1, <2>2, CalledClientMatches
<1>9. ASSUME NEW c \in Client, HangupClient(c) PROVE PendingMatches'
  <2>1. current = c /\ pending = {"hangup"} /\ CalledClient(c, "hangup")
    BY <1>9 DEF HangupClient, Turn
  <2>2. pending \ {"hangup"} \subseteq {"hangup"}
    BY <2>1
  <2> QED BY <1>1, <1>2, <2>1, <2>2, CalledClientMatches
<1>10. ASSUME NEW k \in Connection, ReadyServer(k) PROVE PendingMatches'
  <2>1. /\ connection[k].open /\ current' = k /\ connection' = connection
        /\ pending' \in SUBSET Handlers
    BY <1>10 DEF ReadyServer, Report, server
  <2> QED BY <2>1, Apart DEF PendingMatches
<1>11. ASSUME NEW k \in Connection, ReadServer(k) PROVE PendingMatches'
  BY <1>1, <1>2, <1>11, CalledServerMatches DEF ReadServer
<1>12. ASSUME NEW k \in Connection, WriteServer(k) PROVE PendingMatches'
  BY <1>1, <1>2, <1>12, CalledServerMatches DEF WriteServer
<1>13. ASSUME NEW k \in Connection, HangupServer(k) PROVE PendingMatches'
  BY <1>1, <1>2, <1>13, CalledServerMatches DEF HangupServer
<1> QED BY <1>4, <1>5, <1>6, <1>7, <1>8, <1>9, <1>10, <1>11, <1>12, <1>13 DEF Next

(* The invariant holds at the start, whatever the rest of the table holds. *)
LEMMA InitMatches ==
  ASSUME Patient, Init
  PROVE  IInv
<1> DEFINE e == <<>>
           x == ClosedClient
           y == ClosedConnection
<1>1. e \in Seq(Connection) /\ ToSet(e) = {} /\ IsInjective(e) /\ cache = e
  BY DEF ToSet, IsInjective, Init
<1>2. client = [c \in Client |-> x] /\ connection = [k \in Connection |-> y]
  BY DEF Init
<1> HIDE DEF e, x, y
<1>3. /\ x \in Clients /\ Unrelated(x)
      /\ y \in Connections /\ Known(y) = {} /\ Connected(y)
  BY ClosedClientType, ClosedConnectionType DEF x, y, Unrelated
<1>4. /\ requests[0] = NULL /\ sockets[0] = NULL
      /\ \A i \in Id : requests[i] \notin Client /\ sockets[i] \notin Connection
  <2>1. 0 < Initialized
    BY TableAssumption
  <2>2. \A i \in Id : requests[i] \in {NULL, Garbage} /\ sockets[i] \in {NULL, Garbage}
    BY DEF Init
  <2> QED BY <2>1, <2>2, Apart, ZeroIsId DEF Init
<1>5. /\ setup \in Setups /\ highest = 0 /\ multiplex = "unknown"
      /\ current = NULL /\ pending = {}
      /\ requests \in [Id -> {NULL, Garbage}] /\ sockets \in [Id -> {NULL, Garbage}]
  BY DEF Init
<1>6. Types
  <2>1. /\ requests \in [Id -> Client \union {NULL, Garbage}]
        /\ sockets \in [Id -> Connection \union {NULL, Garbage}]
    BY <1>5
  <2> QED BY <1>1, <1>2, <1>3, <1>5, <2>1, ZeroIsId DEF Types
<1>7. ClientsMatch
  <2>1. \A c \in Client : ~InTable(c)
    BY <1>4, Apart DEF InTable
  <2> QED BY <1>2, <1>3, <2>1 DEF ClientsMatch
<1>8. ConnectionsMatch /\ AskedApart
  BY <1>2, <1>3 DEF ConnectionsMatch, AskedApart
<1>9. TableMatches
  BY <1>4, Apart, ZeroIsId DEF TableMatches
<1>10. ServerAgrees
  <2>1. ASSUME NEW k \in Connection PROVE Known(connection[k]) \ {0} = {i \in Id : sockets[i] = k}
    BY <1>2, <1>3, <1>4, Apart
  <2> QED BY <2>1 DEF ServerAgrees, Known
<1>11. CacheSound
  BY <1>1, <1>4, Apart DEF CacheSound
<1>12. MultiplexMatches
  BY <1>1, <1>5 DEF MultiplexMatches
<1>13. PendingMatches
  BY <1>5 DEF PendingMatches
<1> QED BY <1>6, <1>7, <1>8, <1>9, <1>10, <1>11, <1>12, <1>13 DEF IInv, Core

(* The invariant is inductive.                                             *)
THEOREM Inductive ==
  ASSUME Patient
  PROVE  Spec => []IInv
<1>1. Init => IInv
  BY InitMatches
<1>2. IInv /\ [Next]_vars => IInv'
  <2>1. CASE Next
    BY <2>1, CoreSteps, PendingSteps DEF IInv
  <2>2. CASE UNCHANGED vars
    <3>1. UNCHANGED <<client, table, server, current, pending>>
      BY <2>2 DEF vars
    <3>2. ASSUME IInv PROVE Core'
      BY <3>1, <3>2, ClientsSame, ConnectionsSame, Keeps DEF server, IInv
    <3>3. ASSUME IInv PROVE PendingMatches'
      BY <3>1, <3>3 DEF server, IInv, PendingMatches
    <3> QED BY <3>2, <3>3 DEF IInv
  <2> QED BY <2>1, <2>2
<1> QED BY <1>1, <1>2, PTL DEF Spec

-----------------------------------------------------------------------------
(* What the runs check.                                                    *)

(* The two halves of the table agree, and what is in it is under way.      *)
THEOREM TableCorrect ==
  ASSUME Patient
  PROVE  Spec => []TableMatches
<1>1. IInv => TableMatches
  BY DEF IInv, Core
<1> QED BY <1>1, Inductive, PTL

(* The server works on what the table says, over the same connections.     *)
THEOREM ServerCorrect ==
  ASSUME Patient
  PROVE  Spec => []ServerAgrees
<1>1. IInv => ServerAgrees
  BY DEF IInv, Core
<1> QED BY <1>1, Inductive, PTL

(* The cache has open connections, each once, and only those shared that   *)
(* may be, if a server that multiplexes says so before it ends a request   *)
(* (one that does not may end requests at any time).                       *)
THEOREM CacheCorrect ==
  ASSUME Patient
  PROVE  Spec => []CacheSound
<1>1. IInv => CacheSound
  BY DEF IInv, Core
<1> QED BY <1>1, Inductive, PTL

(* Every request is relayed over a connection that is read or written, or  *)
(* answered by the handler that ends it.                                   *)
THEOREM ClientsRemembered ==
  ASSUME Patient
  PROVE  Spec => []NobodyForgotten
<1>1. ASSUME IInv PROVE NobodyForgotten
  <2>1. Core
    BY <1>1 DEF IInv
  <2>2. ASSUME NEW c \in Client, client[c].state = "request", ~InTable(c)
        PROVE  /\ client[c].watched /\ "out" \in client[c].interest
               /\ client[c].onWrite = "FullWriteBuffer"
    BY <2>1, <2>2, OneOrOther, ClosedIs DEF Unrelated, Idling, Replying
  <2>3. ASSUME NEW k \in Connection, connection[k].open PROVE Awaiting(connection[k])
    BY <2>1, <2>3 DEF Core, ConnectionsMatch, Connected
  <2> QED BY <2>2, <2>3 DEF NobodyForgotten, Awaiting
<1> QED BY <1>1, Inductive, PTL

(* The handlers of a client are those of its place, if there is output     *)
(* with the headers whenever there is output after them.                   *)
THEOREM HandlersCorrect ==
  ASSUME Patient
  PROVE  Spec => []HandlersMatch
<1>1. ASSUME IInv PROVE HandlersMatch
  <2>1. Core /\ PendingMatches
    BY <1>1 DEF IInv
  <2>2. TypeOK
    BY <2>1 DEF Core, Types, PendingMatches, TypeOK
  <2>3. ASSUME NEW c \in Client, InTable(c), "out" \in client[c].interest
        PROVE  client[c].onWrite = "OnWrite"
    <3>1. Relaying(client[c])
      BY <2>1, <2>3, OneOrOther
    <3>2. client[c].headerSent /\ ~client[c].hangup
      BY <2>3, <3>1 DEF Relaying
    <3> QED BY <3>1, <3>2 DEF Relaying
  <2>4. ASSUME NEW c \in Client, client[c].onRead = "OnClientRead", "in" \in client[c].interest
        PROVE  InTable(c)
    BY <2>1, <2>4, BodyReaders
  <2> QED BY <2>2, <2>3, <2>4 DEF HandlersMatch
<1> QED BY <1>1, Inductive, PTL
=============================================================================
