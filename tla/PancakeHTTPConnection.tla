----------------------- MODULE PancakeHTTPConnection -----------------------
(***************************************************************************)
(* The life of client connections in the HTTP module (PancakeHTTP.c) with  *)
(* the static content backend (PancakeHTTPStatic.c) and the deflate filter *)
(* (PancakeHTTPDeflate.c): accept, read a request, answer it in as many    *)
(* writes as the kernel wants, keep the connection alive or close it.      *)
(*                                                                         *)
(* A handler is an operator that maps the record of a client socket to the *)
(* set of the records it can leave behind; what the kernel, the client and *)
(* the file system do is the choice among them.  Handlers run to their end *)
(* one after the other: the process has one thread, and the server         *)
(* architecture calls the handlers of one socket in a fixed order.         *)
(*                                                                         *)
(* Contents are abstracted to tokens: "header" for answer headers, "data"  *)
(* for a block of a file, "page" for an error page, "last" for an empty    *)
(* chunk.  Timers are those of TimerQueue, without their time: one that is *)
(* armed may expire whenever the scheduler runs.                           *)
(***************************************************************************)
EXTENDS Integers, SequencesExt

CONSTANTS Client,        \* memory for client sockets (bound on their number)
          Architecture,  \* the server architecture: "LinuxPoll" or "Select"
          BufferMin,     \* NetworkBuffering: below it the buffer is refilled ...
          BufferMax,     \* ... up to this many tokens
          FileSizes      \* sizes of the files, in blocks (bound on the data)

ASSUME ArchitectureAssumption == Architecture \in {"LinuxPoll", "Select"}
ASSUME BufferAssumption ==
  /\ BufferMin \in Nat \ {0} /\ BufferMax \in Nat /\ BufferMin <= BufferMax
  /\ FileSizes \subseteq Nat

VARIABLES
  client,      \* the socket of every client and what hangs on it
  current,     \* currentSocket of the architecture
  pending,     \* the handlers it still has to call for the reported event
  doShutdown,  \* PancakeDoShutdown
  pc           \* "serving" in the loop, then "draining" the timers, "stopped"

vars == <<client, current, pending, doShutdown, pc>>

NoClient == "none"
Handlers == {"read", "write", "hangup"}
Token == {"header", "data", "page", "last"}

(* A socket (the first lines) with its request.  "file" counts the blocks  *)
(* that are left to read; "stream" is an open stream of the compressor;    *)
(* "timers" are the scheduled events that name the socket.  The last four  *)
(* are histories: what was forgotten while it was open, what the body of   *)
(* the answer has to be, whether the read that found the end of the file   *)
(* found nothing else, and what went out.                                  *)
Sockets ==
  [open : BOOLEAN,
   onRead : {"ReadHeaderData", "InitializeKeepAliveConnection"},
   onWrite : {"uninitialized", "FullWriteBuffer", "StaticWrite"},
   onRemoteHangup : {"OnRemoteHangup", "OnKeepAliveRemoteHangup"},
   interest : SUBSET {"in", "out"},
   data : {"request", "event"},
   timers : SUBSET {"request", "keepAlive"},
   exception : BOOLEAN,
   writeBuffer : Seq(Token),
   method : {"none", "GET", "HEAD"},
   keepAlive : BOOLEAN,
   headerSent : BOOLEAN,
   deflates : BOOLEAN,
   stream : BOOLEAN,
   chunked : BOOLEAN,
   fileOpen : BOOLEAN,
   file : Nat,
   eof : BOOLEAN,
   closesFile : BOOLEAN,
   leaked : SUBSET {"file", "stream"},
   answer : Seq(Token),
   emptied : BOOLEAN,
   sent : Seq(Token)]

TypeOK ==
  /\ \A c \in Client : client[c] \in Sockets
  /\ current \in Client \union {NoClient}
  /\ pending \in SUBSET Handlers
  /\ doShutdown \in BOOLEAN
  /\ pc \in {"serving", "draining", "stopped"}

(* What a socket is before accept and after close: nothing.                *)
ClosedSocket ==
  [open |-> FALSE, onRead |-> "ReadHeaderData", onWrite |-> "uninitialized",
   onRemoteHangup |-> "OnRemoteHangup", interest |-> {}, data |-> "request",
   timers |-> {}, exception |-> FALSE, writeBuffer |-> <<>>,
   method |-> "none", keepAlive |-> FALSE, headerSent |-> FALSE,
   deflates |-> FALSE, stream |-> FALSE, chunked |-> FALSE, fileOpen |-> FALSE,
   file |-> 0, eof |-> FALSE, closesFile |-> FALSE, leaked |-> {},
   answer |-> <<>>, emptied |-> FALSE, sent |-> <<>>]

Blocks(n) == [i \in 1..n |-> "data"]

-----------------------------------------------------------------------------
(* The interest of the architecture in a socket.                           *)

LinuxPollSetSocket(s) == [s EXCEPT !.interest = {}]
SelectSetSocket(s) == [s EXCEPT !.interest = {"in"}]

LinuxPollSetWriteSocket(s) == [s EXCEPT !.interest = {"out"}]
SelectSetWriteSocket(s) == [s EXCEPT !.interest = {"in", "out"}]

SetSocket(s) ==
  IF Architecture = "LinuxPoll" THEN LinuxPollSetSocket(s) ELSE SelectSetSocket(s)

SetsBoth(s) == [s EXCEPT !.interest = {"in", "out"}]  \* A bug: goes on reading

SetWriteSocket(s) ==
  IF Architecture = "LinuxPoll" THEN LinuxPollSetWriteSocket(s)
  ELSE SelectSetWriteSocket(s)

KeepsInterest(s) == [s EXCEPT !.interest = @ \union {"in"}]  \* A bug: only adds

(* The same in both.                                                       *)
SetReadSocket(s) == [s EXCEPT !.interest = {"in"}]

AddReadSocket(s) == [s EXCEPT !.interest = @ \union {"in"}]

-----------------------------------------------------------------------------
(* Ends.                                                                   *)

(* What nobody names any more when the request is gone.                    *)
Unreleased(s) ==
  {x \in {"file", "stream"} : (x = "file" /\ s.fileOpen) \/ (x = "stream" /\ s.stream)}

(* PancakeNetworkClose; timers that are not unscheduled outlive the socket,*)
(* and so does what was not released before.  The histories of the answer  *)
(* stay to be looked at until the memory is used again.                    *)
NetworkClose(s) ==
  [ClosedSocket EXCEPT !.timers = s.timers, !.leaked = s.leaked \union Unreleased(s),
                       !.answer = s.answer, !.sent = s.sent]

(* onRequestEnd closes the file.  The stream of the compressor is not      *)
(* looked at.                                                              *)
CleanRequestData(s) ==
  [s EXCEPT !.fileOpen = @ /\ ~s.closesFile, !.closesFile = FALSE,
            !.file = 0, !.eof = FALSE]

(* What both hangup handlers do with the event the socket waits for.       *)
RemoteHangup(s) ==
  IF s.onRemoteHangup = "OnRemoteHangup"
  THEN NetworkClose([CleanRequestData(s) EXCEPT !.timers = @ \ {"request"}])
  ELSE NetworkClose([s EXCEPT !.timers = @ \ {"keepAlive"}])

TimeoutOnly(s, timer) == s  \* A bug: the callback leaves the socket alone

(* A callback of the scheduler; the event itself is gone with it.          *)
OnTimeout(s, timer) ==
  LET t == [s EXCEPT !.timers = @ \ {timer}] IN
  NetworkClose(IF timer = "request" THEN CleanRequestData(t) ELSE t)

-----------------------------------------------------------------------------
(* Answers.                                                                *)

(* mutant: the shutdown is not looked at                                   *)
HeadersAsEver(s) ==
  [s EXCEPT !.headerSent = TRUE, !.writeBuffer = <<"header">>]

(* Whatever was in the buffer is overwritten.                              *)
BuildAnswerHeaders(s) ==
  [s EXCEPT !.headerSent = TRUE, !.keepAlive = @ /\ ~doShutdown,
            !.writeBuffer = <<"header">>]

(* PancakeNetworkWrite sends any part of the buffer (none if the kernel    *)
(* would block), or fails and hangs up.                                    *)
Written(s) ==
  {[s EXCEPT !.writeBuffer = SubSeq(@, k + 1, Len(@)),
             !.sent = @ \o SubSeq(s.writeBuffer, 1, k)] :
     k \in 0..Len(s.writeBuffer)}

(* Of a socket that was freed by a failed write the callers still read the *)
(* length of the buffer: the memory keeps it, it is not zero, they return. *)
Unfinished(s) == {RemoteHangup(s)} \union {w \in Written(s) : w.writeBuffer # <<>>}

Finished(s) == {w \in Written(s) : w.writeBuffer = <<>>}

(* The second half of PancakeHTTPOnRequestEnd.                             *)
ReleaseRequest(s) ==
  IF s.keepAlive
  THEN {[CleanRequestData(SetReadSocket(s)) EXCEPT
           !.data = "event", !.timers = @ \union {"keepAlive"},
           !.writeBuffer = <<>>, !.exception = FALSE,
           !.onRead = "InitializeKeepAliveConnection",
           !.onRemoteHangup = "OnKeepAliveRemoteHangup",
           !.method = "none", !.keepAlive = FALSE, !.headerSent = FALSE,
           !.deflates = FALSE]}
  ELSE {RemoteHangup(s)}

KeepsStream(s) == s  \* A bug: the filter releases nothing

(* The filter is told of the end, and of no other one than this.           *)
OnOutputEnd(s) == [s EXCEPT !.stream = FALSE]

SendLastChunk(s) == [s EXCEPT !.writeBuffer = Append(@, "last")]

(* The filter is closed first, then a chunked body gets its end, which has *)
(* to be written before the request ends.                                  *)
OnRequestEnd(s) ==
  LET ended == OnOutputEnd(s) IN
  IF ended.chunked /\ ended.method # "HEAD"
  THEN LET last == [SetWriteSocket(SendLastChunk(ended)) EXCEPT
                      !.chunked = FALSE, !.onWrite = "FullWriteBuffer"]
       IN  Unfinished(last) \union UNION {ReleaseRequest(w) : w \in Finished(last)}
  ELSE ReleaseRequest(ended)

FullWriteBuffer(s) ==
  Unfinished(s) \union UNION {OnRequestEnd(w) : w \in Finished(s)}

(* An error page, unless the answer already is one.                        *)
Exception(s) ==
  IF s.exception THEN s
  ELSE LET page == IF s.method = "HEAD" THEN <<>> ELSE <<"page">>
           h == BuildAnswerHeaders([s EXCEPT !.exception = TRUE, !.answer = page])
       IN [SetWriteSocket(h) EXCEPT !.writeBuffer = @ \o page,
                                    !.onWrite = "FullWriteBuffer"]

(* mutant: every part of the file is sent with headers                     *)
OutputWithHeaders(s, n) ==
  [BuildAnswerHeaders(s) EXCEPT !.writeBuffer = @ \o Blocks(n)]

Headed(s) == IF s.headerSent THEN s ELSE BuildAnswerHeaders(s)

(* A chunk of n blocks; an empty one is what ends a chunked body.          *)
SendChunk(s, n) ==
  [Headed(s) EXCEPT !.writeBuffer = @ \o (IF n = 0 THEN <<"last">> ELSE Blocks(n))]

(* The first block makes the body a chunked one, which "last" ends.        *)
(* Deflating nothing gives nothing, of which a chunk is made all the same. *)
DeflateChunk(s, n) ==
  SendChunk(IF s.stream THEN s
            ELSE [s EXCEPT !.stream = TRUE, !.chunked = TRUE,
                           !.answer = Append(@, "last")], n)

(* n blocks go through the filter, if the client accepts it, or plain.     *)
Output(s, n) ==
  IF s.deflates \/ s.stream THEN DeflateChunk(s, n)
  ELSE [Headed(s) EXCEPT !.writeBuffer = @ \o Blocks(n)]

(* fread                                                                   *)
Read(s, room) == Min({room, s.file})

(* The end of a file shows when less is read than was asked for.           *)
StaticWrite(s) ==
  LET room == BufferMax - Len(s.writeBuffer)
      n == Read(s, room)
      filled == IF Len(s.writeBuffer) < BufferMin
                THEN Output([s EXCEPT !.file = @ - n, !.eof = n < room,
                                      !.emptied = (n = 0)], n)
                ELSE s
  IN IF ~filled.eof THEN Written(filled) \union {RemoteHangup(filled)}
     ELSE IF filled.writeBuffer # <<>>
     THEN FullWriteBuffer([filled EXCEPT !.onWrite = "FullWriteBuffer"])
     ELSE OnRequestEnd(filled)

(* Headers only: file not modified, file empty, or method HEAD.            *)
HeadersOnly(s) ==
  FullWriteBuffer([BuildAnswerHeaders(SetWriteSocket(s)) EXCEPT
                     !.onWrite = "FullWriteBuffer", !.answer = <<>>])

OpenFile(s, size) ==
  StaticWrite([SetWriteSocket(s) EXCEPT
                 !.leaked = @ \union (Unreleased(s) \intersect {"file"}),
                 !.fileOpen = TRUE, !.file = size,
                 !.eof = FALSE, !.closesFile = TRUE, !.onWrite = "StaticWrite",
                 !.answer = Blocks(size)])

(* The file passed the access checks; it may still not open.               *)
ServeStatic(s) ==
  {Exception(SetWriteSocket(
     [s EXCEPT !.leaked = @ \union (Unreleased(s) \intersect {"file"}), !.fileOpen = FALSE]))}
    \union HeadersOnly(s)
    \union UNION {IF size = 0 \/ s.method = "HEAD" THEN HeadersOnly(s)
                  ELSE OpenFile(s, size) : size \in FileSizes}

(* PancakeHTTPRunAccessChecks: there is no such file, or it is denied.     *)
AccessFails(s) == Exception(s)

(* No backend has content, as for a directory: an error page, too.         *)
ServeContent(s) == {AccessFails(s), Exception(s)} \union ServeStatic(s)

-----------------------------------------------------------------------------
(* Requests.                                                               *)

NotUnscheduled(s) == s  \* A bug: the timer of the request goes on

(* The event of the request, if there is one.                              *)
Unscheduled(s) == [s EXCEPT !.timers = @ \ {"request"}]

(* The header is complete: the timer is stopped, the request is parsed and *)
(* set up, reading is disabled, the parser hooks reject it or it is served.*)
Requested(s, method, keepAlive, deflates) ==
  LET r == SetSocket([Unscheduled(s) EXCEPT
             !.method = IF @ = "none" THEN method ELSE @,
             !.keepAlive = @ \/ keepAlive, !.deflates = deflates,
             !.headerSent = FALSE, !.chunked = FALSE])
  IN {Exception(r)} \union ServeContent(r)

NotScheduled(s) == s  \* A bug: nothing limits the time to wait

(* The header is incomplete: more has to come before the timer expires.    *)
Scheduled(s) == [s EXCEPT !.timers = @ \union {"request"}]

(* Reading fails or finds no request, there is no whole request yet, or    *)
(* there is one.                                                           *)
ReadHeaderData(s) ==
  {RemoteHangup(s), Scheduled(s)}
    \union UNION {Requested(s, method, keepAlive, deflates) :
             method \in {"GET", "HEAD"}, keepAlive \in BOOLEAN, deflates \in BOOLEAN}

InitializeConnection ==
  ReadHeaderData(AddReadSocket([ClosedSocket EXCEPT !.open = TRUE]))

InitializeKeepAliveConnection(s) ==
  ReadHeaderData([s EXCEPT
    !.timers = @ \ {"keepAlive"}, !.data = "request", !.onRead = "ReadHeaderData",
    !.onRemoteHangup = "OnRemoteHangup",
    !.answer = <<>>, !.emptied = FALSE, !.sent = <<>>])

-----------------------------------------------------------------------------
(* The loop.                                                               *)

Init ==
  /\ client = [c \in Client |-> ClosedSocket]
  /\ current = NoClient
  /\ pending = {}
  /\ doShutdown = FALSE
  /\ pc = "serving"

Idle == pc = "serving" /\ pending = {}

(* The handler of a listening socket.                                      *)
Accept(c) ==
  /\ Idle
  /\ ~client[c].open
  /\ \E s \in InitializeConnection : client' = [client EXCEPT ![c] = s]
  /\ UNCHANGED <<current, pending, doShutdown, pc>>

(* The architecture reports an event of socket c.  Both report errors and  *)
(* a peer that closed its end.  Select finds that out by reading and then  *)
(* calls nothing else.                                                     *)
Ready(c) ==
  /\ Idle
  /\ client[c].open
  /\ \E p \in SUBSET Handlers :
       /\ p # {}
       /\ "read" \in p => "in" \in client[c].interest
       /\ "write" \in p => "out" \in client[c].interest
       /\ Architecture = "Select" /\ "hangup" \in p =>
            p = {"hangup"} /\ "in" \in client[c].interest
       /\ pending' = p
  /\ current' = c
  /\ UNCHANGED <<client, doShutdown, pc>>

(* A handler has left s; if it closed the socket no other one is called.   *)
Called(handler, s) ==
  /\ client' = [client EXCEPT ![current] = s]
  /\ pending' = IF s.open THEN pending \ {handler} ELSE {}
  /\ current' = IF pending' = {} THEN NoClient ELSE current
  /\ UNCHANGED <<doShutdown, pc>>

CallRead ==
  /\ "read" \in pending
  /\ \/ /\ client[current].onRead = "ReadHeaderData"
        /\ \E s \in ReadHeaderData(client[current]) : Called("read", s)
     \/ /\ client[current].onRead = "InitializeKeepAliveConnection"
        /\ \E s \in InitializeKeepAliveConnection(client[current]) : Called("read", s)

CallWrite ==
  /\ "read" \notin pending
  /\ "write" \in pending
  /\ \/ /\ client[current].onWrite = "FullWriteBuffer"
        /\ \E s \in FullWriteBuffer(client[current]) : Called("write", s)
     \/ /\ client[current].onWrite = "StaticWrite"
        /\ \E s \in StaticWrite(client[current]) : Called("write", s)

CallRemoteHangup ==
  /\ pending = {"hangup"}
  /\ Called("hangup", RemoteHangup(client[current]))

(* The scheduler runs after the network events, and when the loop is left. *)
Expire(c) ==
  /\ pc \in {"serving", "draining"}
  /\ pending = {}
  /\ \E timer \in client[c].timers :
       client' = [client EXCEPT ![c] = OnTimeout(@, timer)]
  /\ UNCHANGED <<current, pending, doShutdown, pc>>

Signal ==
  /\ ~doShutdown
  /\ doShutdown' = TRUE
  /\ UNCHANGED <<client, current, pending, pc>>

LeaveLoop ==
  /\ Idle
  /\ doShutdown
  /\ pc' = "draining"
  /\ UNCHANGED <<client, current, pending, doShutdown>>

(* mutant: the timers are not waited for                                   *)
StopAtOnce ==
  /\ pc = "draining"
  /\ pc' = "stopped"
  /\ UNCHANGED <<client, current, pending, doShutdown>>

Stop ==
  /\ pc = "draining"
  /\ \A c \in Client : client[c].timers = {}
  /\ pc' = "stopped"
  /\ UNCHANGED <<client, current, pending, doShutdown>>

Next ==
  \/ \E c \in Client : Accept(c) \/ Ready(c) \/ Expire(c)
  \/ CallRead \/ CallWrite \/ CallRemoteHangup
  \/ Signal \/ LeaveLoop \/ Stop

Spec == Init /\ [][Next]_vars

(* Every call takes something from what is pending.                        *)
HandlerReturns == pending' \in (SUBSET pending) \ {pending}

(* The handlers return.  The loop looks at the flag after every batch of   *)
(* events, and a batch is finite: SF, since events may go on arriving.     *)
(* PancakeSchedulerShutdown runs every event.                              *)
Fairness ==
  /\ WF_pending(HandlerReturns)
  /\ SF_vars(LeaveLoop)
  /\ \A c \in Client : WF_vars(pc = "draining" /\ Expire(c))
  /\ WF_vars(Stop)

FairSpec == Spec /\ Fairness

-----------------------------------------------------------------------------
(* Properties.                                                             *)

Open(c) == client[c].open

(* The scheduler never holds the pointer of a socket that was freed, and   *)
(* holds that of an open one at most once: for a request that is not yet   *)
(* complete or for an idle connection, never while an answer is under way. *)
TimersMatch ==
  \A c \in Client :
    LET s == client[c] IN
    /\ ~s.open => s.timers = {}
    /\ s.open /\ s.data = "event" => s.timers = {"keepAlive"}
    /\ s.open /\ s.data = "request" => s.timers \subseteq {"request"}
    /\ s.open /\ s.headerSent => s.timers = {}

(* sock->data is a void pointer: the handlers that take it for an event    *)
(* are installed exactly while it is one, and a write can only be reported *)
(* while it is a request whose answer has a handler that writes it.        *)
HandlersMatch ==
  /\ TypeOK
  /\ \A c \in Client :
       LET s == client[c] IN
       s.open =>
         /\ s.data = "event" <=> s.onRead = "InitializeKeepAliveConnection"
         /\ s.data = "event" <=> s.onRemoteHangup = "OnKeepAliveRemoteHangup"
         /\ "out" \in s.interest =>
              s.data = "request" /\ s.headerSent /\ s.onWrite # "uninitialized"

(* No connection is forgotten: an open one either has a timer that will    *)
(* close it, or waits to write, and then still has something to write.     *)
NobodyForgotten ==
  \A c \in Client :
    LET s == client[c] IN
    s.open => \/ s.timers # {}
              \/ "out" \in s.interest /\ (s.writeBuffer # <<>> \/ s.fileOpen)

(* A deflated body is a chunked one.                                       *)
Deflated(s) == s.answer # <<>> /\ Last(s.answer) = "last"

(* The whole answer.  If a body is deflated and the end of its file was    *)
(* found by a read that found nothing else, the chunk that is made of      *)
(* nothing ends the body, and then it is ended once more: the next answer  *)
(* over this connection begins with an end that belongs to nothing.        *)
Complete(s) ==
  <<"header">> \o s.answer \o (IF Deflated(s) /\ s.emptied THEN <<"last">> ELSE <<>>)

(* What requests open is released with them, with one exception.  A file   *)
(* stays open only as long as a request that will close it, however the    *)
(* request ends: complete, aborted by the client, or failed.  The stream   *)
(* of the compressor is released by the end of the output alone            *)
(* (PancakeHTTP.c:1971): a deflated answer that is cut before it has sent  *)
(* its data always leaves it behind, and nothing else does.  A connection  *)
(* is kept for the next request only when the whole last answer, and       *)
(* nothing but it, has been sent, and keeps nothing of it.                 *)
NothingLeft ==
  \A c \in Client :
    LET s == client[c] IN
    /\ "file" \notin s.leaked
    /\ s.fileOpen => s.open /\ s.data = "request" /\ s.closesFile
    /\ "stream" \in s.leaked => ~s.open /\ Deflated(s) /\ Len(s.sent) <= Len(s.answer)
    /\ ~s.open /\ Deflated(s) /\ Len(s.sent) < Len(s.answer) => "stream" \in s.leaked
    /\ s.open /\ s.data = "event" =>
         /\ s.sent = Complete(s)
         /\ s.writeBuffer = <<>> /\ ~s.stream /\ ~s.exception /\ ~s.chunked
         /\ s.interest = {"in"}

(* What is sent is one header and then the body in order, whatever the     *)
(* sizes of the reads and the writes, and behind a plain body nothing; a   *)
(* deflated one is ended once, or twice if the last read found nothing.    *)
AnswersInOrder ==
  \A c \in Client :
    LET s == client[c] IN
    Open(c) => IsPrefix(s.sent \o s.writeBuffer, Complete(s))

(* "Disable reading on socket" (PancakeHTTP.c:1280): while a request is    *)
(* answered no more data is read, so that the handler that reads requests  *)
(* cannot start the next one over it.  True of LinuxPoll; under Select,    *)
(* which sets the bit it should clear, it is false of any answer that      *)
(* takes more than one write.                                              *)
ReadingDisabled ==
  \A c \in Client :
    Open(c) /\ client[c].headerSent => "in" \notin client[c].interest

(* When the process has stopped, the connections it left behind are the    *)
(* ones whose answer was under way.                                        *)
StopsClean ==
  pc = "stopped" => \A c \in Client : Open(c) => client[c].headerSent

(* Once the process is to stop, no answer that begins grants the client    *)
(* another request.                                                        *)
NoKeepAliveInShutdown ==
  [][doShutdown => \A c \in Client :
       ~client[c].headerSent /\ client'[c] # client[c] /\ client'[c].open =>
         /\ client'[c].data = "request"
         /\ client'[c].headerSent => ~client'[c].keepAlive]_vars

(* A signal ends the process, whatever the clients do.                     *)
ShutdownCompletes == doShutdown ~> pc = "stopped"
=============================================================================
