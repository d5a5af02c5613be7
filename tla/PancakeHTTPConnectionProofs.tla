------------------- MODULE PancakeHTTPConnectionProofs -------------------
(***************************************************************************)
(* Proofs about PancakeHTTPConnection with the server architecture         *)
(* LinuxPoll: for any number of clients, any sizes of files and buffers,   *)
(* timers, handlers and open files belong to the sockets that need them,   *)
(* no connection is forgotten, and answers go out in order.                *)
(*                                                                         *)
(* Between two calls a socket is in one of five states: closed, Reading a  *)
(* request, Filling the buffer from a file, Draining the buffer, or        *)
(* Waiting for the next request.  Each handler is shown to lead from the   *)
(* states it can be called in to one of them.                              *)
(***************************************************************************)
EXTENDS PancakeHTTPConnection, SequenceTheorems, TLAPS

(* The server architecture is LinuxPoll.  With Select the handler that     *)
(* reads stays registered, and ReadingDisabled does not hold.              *)
Polls == Architecture = "LinuxPoll"

(* Sequences.                                                              *)

(* Blocks(n) is n tokens, all of them data.                                *)
LEMMA BlocksFacts ==
  ASSUME NEW n \in Nat
  PROVE  Blocks(n) \in Seq(Token) /\ Len(Blocks(n)) = n
         /\ \A i \in 1..n : Blocks(n)[i] = "data"
<1>1. Blocks(n) \in [1..n -> Token]
  BY DEF Blocks, Token
<1> QED BY <1>1 DEF Blocks

(* No blocks are nothing.                                                  *)
LEMMA NoBlocks == Blocks(0) = <<>>
<1>1. Blocks(0) \in Seq(Token) /\ Len(Blocks(0)) = 0
  BY BlocksFacts
<1> QED BY <1>1, EmptySeq

(* Blocks behind blocks are blocks.                                        *)
LEMMA BlocksAdd ==
  ASSUME NEW m \in Nat, NEW n \in Nat
  PROVE  Blocks(m) \o Blocks(n) = Blocks(m + n)
<1>1. /\ Blocks(m) \in Seq(Token) /\ Blocks(n) \in Seq(Token)
      /\ Blocks(m + n) \in Seq(Token)
      /\ Len(Blocks(m)) = m /\ Len(Blocks(n)) = n /\ Len(Blocks(m + n)) = m + n
      /\ \A i \in 1..m : Blocks(m)[i] = "data"
      /\ \A i \in 1..n : Blocks(n)[i] = "data"
      /\ \A i \in 1..m + n : Blocks(m + n)[i] = "data"
  <2>1. m + n \in Nat
    OBVIOUS
  <2> QED BY <2>1, BlocksFacts
<1> DEFINE a == Blocks(m)
           b == Blocks(n)
<1> HIDE DEF a, b
<1>2. /\ a \o b \in Seq(Token)
      /\ Len(a \o b) = m + n
      /\ \A i \in 1..m + n : (a \o b)[i] = IF i <= m THEN a[i] ELSE b[i - m]
  <2>1. a \in Seq(Token) /\ b \in Seq(Token) /\ Len(a) = m /\ Len(b) = n
    BY <1>1 DEF a, b
  <2> QED BY <2>1, ConcatProperties
<1>3. \A i \in 1..m + n : (a \o b)[i] = "data"
  BY <1>1, <1>2 DEF a, b
<1>4. a \o b = Blocks(m + n)
  BY <1>1, <1>2, <1>3, SeqEqual
<1> QED BY <1>4 DEF a, b

(* Every two naturals have a least one, and Min is it.                     *)
LEMMA MinOfTwo ==
  ASSUME NEW m \in Nat, NEW n \in Nat
  PROVE  Min({m, n}) = IF m <= n THEN m ELSE n
<1> DEFINE k == IF m <= n THEN m ELSE n
<1>1. k \in {m, n} /\ \A j \in {m, n} : k <= j
  OBVIOUS
<1>2. \A x \in {m, n} : (\A j \in {m, n} : x <= j) => x = k
  BY <1>1
<1>3. Min({m, n}) \in {m, n} /\ \A j \in {m, n} : Min({m, n}) <= j
  BY <1>1 DEF Min
<1> QED BY <1>2, <1>3

(* What is put behind a sequence keeps it as a prefix.                     *)
LEMMA PrefixOfConcat ==
  ASSUME NEW a \in Seq(Token), NEW b \in Seq(Token)
  PROVE  IsPrefix(a, a \o b)
<1>1. Len(a) \in Nat /\ Len(b) \in Nat /\ Len(a \o b) = Len(a) + Len(b)
  BY ConcatProperties, LenProperties
<1>2. CASE Len(a) = 0
  <2>1. SubSeq(a, 1, Len(a)) = <<>> /\ SubSeq(a \o b, 1, Len(a)) = <<>>
    BY <1>2, SubSeqEmpty
  <2> QED BY <1>1, <2>1 DEF IsPrefix
<1>3. CASE Len(a) > 0
  <2>1. 1 \in 1..Len(a) /\ Len(a) \in 1..Len(a)
    BY <1>1, <1>3
  <2>2. SubSeq(a \o b, 1, Len(a)) = SubSeq(a, 1, Len(a))
    BY <2>1, SubSeqOfConcat1
  <2> QED BY <1>1, <2>2 DEF IsPrefix
<1> QED BY <1>1, <1>2, <1>3

-----------------------------------------------------------------------------
(* The states of a socket.                                                 *)

(* What is still owed to a chunked body, the whole answer as it is spread  *)
(* over what was sent, the buffer and the file, and what it has to be but  *)
(* for a second end.                                                       *)
Owed(s) == IF s.chunked THEN <<"last">> ELSE <<>>
Out(s) == s.sent \o s.writeBuffer
Whole(s) == (Out(s) \o Blocks(s.file)) \o Owed(s)
Plain(s) == <<"header">> \o s.answer

(* A socket has a request, and handlers to match.                          *)
Serving(s) ==
  /\ s \in Sockets /\ s.open /\ s.leaked = {} /\ s.data = "request"
  /\ s.onRead = "ReadHeaderData" /\ s.onRemoteHangup = "OnRemoteHangup"
  /\ s.fileOpen = s.closesFile

Fresh(s) ==
  /\ s.answer = <<>> /\ s.sent = <<>> /\ s.writeBuffer = <<>>
  /\ ~s.exception /\ ~s.headerSent /\ ~s.stream /\ ~s.chunked
  /\ ~s.fileOpen /\ s.file = 0 /\ ~s.emptied

Reading(s) ==
  /\ Serving(s) /\ Fresh(s)
  /\ s.interest = {"in"} /\ s.timers \subseteq {"request"}
  /\ s.method = "none" /\ ~s.keepAlive

(* The answer is decided, not yet begun.                                   *)
Requesting(s) ==
  /\ Serving(s) /\ Fresh(s)
  /\ s.timers = {} /\ s.method # "none"

Answering(s) ==
  /\ Serving(s)
  /\ s.timers = {} /\ s.headerSent /\ s.interest = {"out"}
  /\ s.chunked => s.method # "HEAD"

(* More of the file has to be read.                                        *)
Filling(s) ==
  /\ Answering(s)
  /\ s.onWrite = "StaticWrite" /\ s.fileOpen /\ ~s.eof /\ s.method # "HEAD"
  /\ s.chunked <=> s.stream
  /\ s.stream <=> Deflated(s)
  /\ ~s.emptied
  /\ Whole(s) = Complete(s)

(* The stream is open until the last chunk is made.                        *)
Streams(s) ==
  /\ s.stream => Deflated(s) /\ s.chunked
  /\ Deflated(s) /\ ~s.stream => Len(s.sent) >= Len(s.answer)

(* All is in the buffer but the last chunk.                                *)
Ended(s) ==
  /\ Answering(s)
  /\ s.file = 0
  /\ Streams(s)
  /\ Whole(s) = Complete(s)

Draining(s) == Ended(s) /\ s.onWrite = "FullWriteBuffer" /\ s.writeBuffer # <<>>

(* Between two requests.                                                   *)
Waiting(s) ==
  /\ s \in Sockets /\ s.open /\ s.leaked = {} /\ s.data = "event"
  /\ s.onRead = "InitializeKeepAliveConnection"
  /\ s.onRemoteHangup = "OnKeepAliveRemoteHangup"
  /\ s.interest = {"in"} /\ s.timers = {"keepAlive"}
  /\ s.sent = Complete(s) /\ s.writeBuffer = <<>>
  /\ ~s.exception /\ ~s.headerSent /\ ~s.stream /\ ~s.chunked
  /\ ~s.fileOpen /\ ~s.closesFile /\ s.file = 0
  /\ s.method = "none" /\ ~s.keepAlive

(* Closed: of what was open only the stream can have been left, and that   *)
(* is left exactly if a deflated answer was cut before its data was sent.  *)
Closed(s) ==
  /\ s \in Sockets /\ ~s.open /\ s.timers = {} /\ ~s.fileOpen /\ ~s.headerSent
  /\ s.leaked \subseteq {"stream"}
  /\ "stream" \in s.leaked => Deflated(s) /\ Len(s.sent) <= Len(s.answer)
  /\ Deflated(s) /\ Len(s.sent) < Len(s.answer) => "stream" \in s.leaked

(* The stream is open as a closed socket would have to leave it.           *)
StreamFits(s) ==
  /\ s.stream => Deflated(s) /\ Len(s.sent) <= Len(s.answer)
  /\ Deflated(s) /\ Len(s.sent) < Len(s.answer) => s.stream

(* What a handler that answers may leave; the client is granted another    *)
(* request only if "granted".                                              *)
Answered(s, granted) ==
  \/ Closed(s)
  \/ granted /\ Waiting(s)
  \/ /\ Filling(s) \/ Draining(s)
     /\ s.keepAlive => granted

-----------------------------------------------------------------------------
(* The stream of the compressor.                                           *)

(* What a second end adds to an answer.                                    *)
Extra(s) == IF Deflated(s) /\ s.emptied THEN <<"last">> ELSE <<>>

(* An answer is its header, its body, and perhaps a second end.            *)
LEMMA CompleteFacts ==
  ASSUME NEW s \in Sockets
  PROVE  /\ Plain(s) \in Seq(Token) /\ Complete(s) \in Seq(Token)
         /\ Complete(s) = Plain(s) \o Extra(s)
         /\ ~(Deflated(s) /\ s.emptied) => Complete(s) = Plain(s)
         /\ Len(s.answer) \in Nat /\ Len(Plain(s)) = 1 + Len(s.answer)
         /\ Len(Complete(s)) \in {1 + Len(s.answer), 2 + Len(s.answer)}
<1> DEFINE p == Plain(s)
           x == Extra(s)
           h == <<"header">>
           l == <<"last">>
<1>1. /\ s.answer \in Seq(Token) /\ h \in Seq(Token) /\ Len(h) = 1
      /\ l \in Seq(Token) /\ Len(l) = 1
  BY DEF Sockets, Token
<1>2. Len(s.answer) \in Nat
  BY <1>1, LenProperties
<1>3. p \in Seq(Token) /\ Len(p) = 1 + Len(s.answer)
  <2> DEFINE a == s.answer
  <2>1. p = h \o a
    BY DEF Plain
  <2>2. h \in Seq(Token) /\ a \in Seq(Token) /\ Len(h) = 1
    BY <1>1
  <2> HIDE DEF p, h, a
  <2>3. h \o a \in Seq(Token) /\ Len(h \o a) = Len(h) + Len(a)
    BY <2>2, ConcatProperties
  <2> QED BY <2>1, <2>2, <2>3 DEF a
<1>4. Complete(s) = p \o x
  BY DEF Complete, Plain, Extra
<1>5. x = l \/ x = <<>>
  BY DEF Extra
<1>6. ~(Deflated(s) /\ s.emptied) => x = <<>>
  BY DEF Extra
<1> HIDE DEF p, x, h, l
<1>7. CASE x = <<>>
  <2>1. p \o x = p
    BY <1>3, <1>7, ConcatEmptySeq
  <2> QED BY <1>2, <1>3, <1>4, <2>1 DEF p, x
<1>8. CASE x = l
  <2>1. p \o l \in Seq(Token) /\ Len(p \o l) = Len(p) + Len(l)
    BY <1>1, <1>3, ConcatProperties
  <2>2. Len(p \o l) = 2 + Len(s.answer)
    BY <1>1, <1>2, <1>3, <2>1
  <2>3. x # <<>>
    <3>1. Len(<<>>) # Len(l)
      BY <1>1
    <3>2. l # <<>>
      BY <3>1, Zenon
    <3> QED BY <1>8, <3>2
  <2>4. Deflated(s) /\ s.emptied
    BY <1>6, <2>3
  <2>5. Complete(s) = p \o l
    BY <1>4, <1>8
  <2>6. Complete(s) \in Seq(Token) /\ Len(Complete(s)) = 2 + Len(s.answer)
    BY <2>1, <2>2, <2>5
  <2> QED BY <1>2, <1>3, <1>4, <2>4, <2>6 DEF p, x
<1> QED BY <1>5, <1>7, <1>8

(* How much of an answer is sent, in the buffer and in the file.           *)
LEMMA WholeLength ==
  ASSUME NEW s \in Sockets
  PROVE  /\ Len(s.sent) \in Nat /\ Len(s.writeBuffer) \in Nat /\ s.file \in Nat
         /\ Len(Whole(s)) = Len(s.sent) + Len(s.writeBuffer) + s.file
                            + (IF s.chunked THEN 1 ELSE 0)
<1> DEFINE a == s.sent
           b == s.writeBuffer
           f == Blocks(s.file)
           w == Owed(s)
<1>1. a \in Seq(Token) /\ b \in Seq(Token) /\ s.file \in Nat
  BY DEF Sockets
<1>2. f \in Seq(Token) /\ Len(f) = s.file
  BY <1>1, BlocksFacts
<1>3. w \in Seq(Token) /\ Len(w) = IF s.chunked THEN 1 ELSE 0
  <2>1. <<>> \in Seq(Token) /\ Len(<<>>) = 0
    OBVIOUS
  <2>2. <<"last">> \in Seq(Token) /\ Len(<<"last">>) = 1
    BY DEF Token
  <2> QED BY <2>1, <2>2 DEF Owed
<1>4. Whole(s) = ((a \o b) \o f) \o w /\ s.sent = a /\ s.writeBuffer = b
  BY DEF Whole, Out
<1> HIDE DEF a, b, f, w
<1>5. Len(a) \in Nat /\ Len(b) \in Nat
  BY <1>1, LenProperties
<1>6. a \o b \in Seq(Token) /\ Len(a \o b) = Len(a) + Len(b)
  BY <1>1, ConcatProperties
<1>7. (a \o b) \o f \in Seq(Token) /\ Len((a \o b) \o f) = Len(a \o b) + Len(f)
  BY <1>2, <1>6, ConcatProperties
<1>8. Len(((a \o b) \o f) \o w) = Len((a \o b) \o f) + Len(w)
  <2> DEFINE x == (a \o b) \o f
  <2> HIDE DEF x
  <2>1. x \in Seq(Token) /\ w \in Seq(Token)
    BY <1>3, <1>7 DEF x
  <2>2. Len(x \o w) = Len(x) + Len(w)
    BY <2>1, ConcatProperties
  <2> QED BY <2>2 DEF x
<1>9. Len(Whole(s)) = ((Len(a) + Len(b)) + Len(f)) + Len(w)
  BY <1>4, <1>6, <1>7, <1>8
<1> QED BY <1>1, <1>2, <1>3, <1>4, <1>5, <1>9

(* While something has to be written the stream is open just as long as    *)
(* the data of a deflated answer has not been sent ...                     *)
LEMMA AnswerFits ==
  ASSUME NEW s, Filling(s) \/ (Ended(s) /\ s.writeBuffer # <<>>)
  PROVE  StreamFits(s)
<1> DEFINE l == Len(s.sent)
           b == Len(s.writeBuffer)
           f == s.file
           o == IF s.chunked THEN 1 ELSE 0
           w == Len(Whole(s))
           a == Len(s.answer)
<1>1. s \in Sockets /\ w = Len(Complete(s))
  BY DEF Filling, Ended, Answering, Serving
<1>2. l \in Nat /\ b \in Nat /\ f \in Nat /\ w = l + b + f + o
  BY <1>1, WholeLength
<1>3. /\ a \in Nat /\ w \in {1 + a, 2 + a}
      /\ ~(Deflated(s) /\ s.emptied) => w = 1 + a
  BY <1>1, CompleteFacts
<1>4. s.chunked => o = 1
  OBVIOUS
<1>5. b = 0 => s.writeBuffer = <<>>
  <2>1. s.writeBuffer \in Seq(Token)
    BY <1>1 DEF Sockets
  <2> QED BY <2>1, EmptySeq
<1> HIDE DEF l, b, f, o, w, a
<1>6. CASE Filling(s)
  <2>1. /\ (s.stream <=> Deflated(s)) /\ (s.chunked <=> s.stream) /\ ~s.emptied
    BY <1>6 DEF Filling
  <2>2. s.chunked => l <= a
    BY <1>2, <1>3, <1>4, <2>1
  <2> QED BY <2>1, <2>2 DEF StreamFits, l, a
<1>7. CASE Ended(s) /\ s.writeBuffer # <<>>
  <2>1. Streams(s)
    BY <1>7 DEF Ended
  <2>2. s.chunked => l <= a
    BY <1>2, <1>3, <1>4, <1>5, <1>7
  <2>3. s.stream => Deflated(s) /\ s.chunked
    BY <2>1 DEF Streams
  <2>4. Deflated(s) /\ l < a => s.stream
    <3>1. Deflated(s) /\ ~s.stream => l >= a
      BY <2>1 DEF Streams, l, a
    <3> QED BY <1>2, <1>3, <3>1
  <2> QED BY <2>2, <2>3, <2>4 DEF StreamFits, l, a
<1> QED BY <1>6, <1>7

(* ... and when all of it is written it can be released.                   *)
LEMMA SentFits ==
  ASSUME NEW s \in Sockets, ~s.stream, s.sent = Complete(s)
  PROVE  StreamFits(s)
<1>1. Len(s.answer) \in Nat /\ Len(s.sent) \in {1 + Len(s.answer), 2 + Len(s.answer)}
  BY CompleteFacts
<1>2. ~(Len(s.sent) < Len(s.answer))
  BY <1>1
<1> QED BY <1>2 DEF StreamFits

(* Where nothing was opened, nothing has to be released.                   *)
LEMMA FreshFits ==
  ASSUME NEW s, Fresh(s)
  PROVE  StreamFits(s) /\ ~Deflated(s)
BY DEF Fresh, StreamFits, Deflated

-----------------------------------------------------------------------------
(* Ends.                                                                   *)

(* A closed socket is one.                                                 *)
LEMMA ClosedType == ClosedSocket \in Sockets /\ Closed(ClosedSocket)
<1>1. ClosedSocket \in Sockets
  BY DEF ClosedSocket, Sockets, Token
<1>2. Closed(ClosedSocket)
  BY <1>1 DEF ClosedSocket, Closed, Deflated
<1> QED BY <1>1, <1>2

(* A socket closed with no timer and no file leaves at most the stream.    *)
LEMMA NetworkCloses ==
  ASSUME NEW s \in Sockets, s.timers = {}, s.leaked = {}, ~s.fileOpen, StreamFits(s)
  PROVE  Closed(NetworkClose(s))
<1> DEFINE n == NetworkClose(s)
           u == s.leaked \union Unreleased(s)
           e == {}
           a == s.answer
           b == s.sent
<1>1. u \subseteq {"stream"} /\ ("stream" \in u <=> s.stream)
  BY DEF Unreleased
<1>2. n = [ClosedSocket EXCEPT !.timers = e, !.leaked = u, !.answer = a, !.sent = b]
  BY DEF NetworkClose
<1>3. /\ ClosedSocket \in Sockets /\ ~ClosedSocket.open /\ ~ClosedSocket.fileOpen
      /\ ~ClosedSocket.headerSent
  BY ClosedType DEF ClosedSocket
<1>4. a \in Seq(Token) /\ b \in Seq(Token) /\ e \in SUBSET {"request", "keepAlive"}
      /\ u \in SUBSET {"file", "stream"}
  BY <1>1 DEF Sockets
<1> HIDE DEF n, u, a, b, e
<1>5. n \in Sockets
  BY <1>2, <1>3, <1>4, ZenonT(40) DEF Sockets
<1>6. /\ ~n.open /\ n.timers = e /\ ~n.fileOpen /\ ~n.headerSent
      /\ n.leaked = u /\ n.answer = a /\ n.sent = b
  BY <1>2, <1>3, <1>5 DEF Sockets
<1>7. Deflated(n) <=> Deflated(s)
  BY <1>6 DEF Deflated, a
<1> QED BY <1>1, <1>5, <1>6, <1>7 DEF Closed, StreamFits, n, a, b, e

(* The file of a request that closes it is closed.                         *)
LEMMA CleanFacts ==
  ASSUME NEW s, Serving(s)
  PROVE  CleanRequestData(s) =
           [s EXCEPT !.fileOpen = FALSE, !.closesFile = FALSE, !.file = 0, !.eof = FALSE]
<1>1. (s.fileOpen /\ ~s.closesFile) = FALSE
  BY DEF Serving
<1> QED BY <1>1 DEF CleanRequestData

(* Whatever ends a request leaves at most the stream behind ...            *)
LEMMA CleanCloses ==
  ASSUME NEW s, Serving(s), StreamFits(s), s.timers = {}
  PROVE  Closed(NetworkClose(CleanRequestData(s)))
<1> DEFINE d == CleanRequestData(s)
<1>1. d = [s EXCEPT !.fileOpen = FALSE, !.closesFile = FALSE, !.file = 0, !.eof = FALSE]
  BY CleanFacts
<1>2. s \in Sockets
  BY DEF Serving
<1> HIDE DEF d
<1>3. d \in Sockets
  BY <1>1, <1>2, ZenonT(40) DEF Sockets
<1>4. /\ d.timers = {} /\ d.leaked = {} /\ ~d.fileOpen
      /\ (d.stream <=> s.stream) /\ d.answer = s.answer /\ d.sent = s.sent
  BY <1>1, <1>2, <1>3 DEF Serving, Sockets
<1>5. StreamFits(d)
  BY <1>4 DEF StreamFits, Deflated
<1>6. Closed(NetworkClose(d))
  BY <1>3, <1>4, <1>5, NetworkCloses
<1> QED BY <1>6 DEF d

(* Without its timer a request is as it was.                               *)
LEMMA TimerFacts ==
  ASSUME NEW s, Serving(s), StreamFits(s), s.timers \subseteq {"request"},
         NEW t, t = [s EXCEPT !.timers = s.timers \ {"request"}]
  PROVE  Serving(t) /\ StreamFits(t) /\ t.timers = {}
<1> DEFINE e == s.timers \ {"request"}
<1>1. s \in Sockets /\ e = {}
  BY DEF Serving
<1>2. t = [s EXCEPT !.timers = {}]
  BY <1>1
<1> HIDE DEF e
<1>3. t \in Sockets
  BY <1>1, <1>2 DEF Sockets
<1>4. /\ t.timers = {} /\ (t.stream <=> s.stream) /\ t.answer = s.answer /\ t.sent = s.sent
  BY <1>1, <1>2, <1>3 DEF Sockets
<1>5. Serving(t)
  BY <1>1, <1>2, <1>3 DEF Serving, Sockets
<1>6. StreamFits(t)
  BY <1>4 DEF StreamFits, Deflated
<1> QED BY <1>4, <1>5, <1>6

(* ... a client that hangs up during a request ...                         *)
LEMMA HangupCloses ==
  ASSUME NEW s, Serving(s), StreamFits(s), s.timers \subseteq {"request"}
  PROVE  Closed(RemoteHangup(s))
<1> DEFINE e == s.timers \ {"request"}
           t == [s EXCEPT !.timers = e]
           d == CleanRequestData(s)
           f == CleanRequestData(t)
           x == [d EXCEPT !.timers = @ \ {"request"}]
<1>1. s \in Sockets /\ s.onRemoteHangup = "OnRemoteHangup" /\ e = {} /\ s.timers \in SUBSET {"request", "keepAlive"}
  BY DEF Serving, Sockets
<1>2. Serving(t) /\ StreamFits(t) /\ t.timers = {}
  BY TimerFacts
<1>3. RemoteHangup(s) = NetworkClose(x)
  BY <1>1 DEF RemoteHangup
<1>4. x = f
  <2>1. d = [s EXCEPT !.fileOpen = FALSE, !.closesFile = FALSE, !.file = 0, !.eof = FALSE]
    BY CleanFacts
  <2>2. f = [t EXCEPT !.fileOpen = FALSE, !.closesFile = FALSE, !.file = 0, !.eof = FALSE]
    BY <1>2, CleanFacts
  <2>3. t = [s EXCEPT !.timers = {}]
    BY <1>1
  <2> HIDE DEF d, f, t, e
  <2>4. d \in Sockets /\ d.timers = s.timers
    <3>1. d \in Sockets
      BY <1>1, <2>1, ZenonT(40) DEF Sockets
    <3> QED BY <1>1, <2>1, <3>1 DEF Sockets
  <2>5. x = [d EXCEPT !.timers = {}]
    BY <1>1, <2>4 DEF e
  <2> HIDE DEF x
  <2> QED BY <1>1, <2>1, <2>2, <2>3, <2>5 DEF Sockets
<1>5. Closed(NetworkClose(f))
  BY <1>2, CleanCloses
<1> QED BY <1>3, <1>4, <1>5

(* ... one that does between two requests ...                              *)
LEMMA KeepAliveHangupCloses ==
  ASSUME NEW s, Waiting(s)
  PROVE  Closed(RemoteHangup(s)) /\ Closed(NetworkClose([s EXCEPT !.timers = s.timers \ {"keepAlive"}]))
<1> DEFINE e == s.timers \ {"keepAlive"}
           t == [s EXCEPT !.timers = e]
<1>1. s \in Sockets /\ e = {} /\ s.onRemoteHangup # "OnRemoteHangup"
  BY DEF Waiting
<1>2. RemoteHangup(s) = NetworkClose(t)
  BY <1>1 DEF RemoteHangup
<1>3. t = [s EXCEPT !.timers = {}]
  BY <1>1
<1>4. t = [s EXCEPT !.timers = s.timers \ {"keepAlive"}]
  OBVIOUS
<1> HIDE DEF t, e
<1>5. t \in Sockets
  BY <1>1, <1>3 DEF Sockets
<1>6. /\ t.timers = {} /\ t.leaked = s.leaked /\ (t.fileOpen <=> s.fileOpen)
      /\ (t.stream <=> s.stream) /\ t.answer = s.answer /\ t.sent = s.sent
  BY <1>1, <1>3, <1>5 DEF Sockets
<1>7. StreamFits(s)
  BY SentFits DEF Waiting
<1>8. StreamFits(t)
  BY <1>6, <1>7 DEF StreamFits, Deflated
<1>9. Closed(NetworkClose(t))
  BY <1>5, <1>6, <1>8, NetworkCloses DEF Waiting
<1> QED BY <1>2, <1>4, <1>9

(* ... and a timer that expires.                                           *)
LEMMA TimeoutCloses ==
  ASSUME NEW s, Reading(s) \/ Waiting(s), NEW timer \in s.timers
  PROVE  Closed(OnTimeout(s, timer))
<1> DEFINE t == [s EXCEPT !.timers = s.timers \ {timer}]
<1>1. s \in Sockets /\ timer = (IF Reading(s) THEN "request" ELSE "keepAlive")
  BY DEF Reading, Waiting, Serving, Sockets
<1>2. CASE Reading(s)
  <2>1. timer = "request"
    BY <1>1, <1>2
  <2>2. t = [s EXCEPT !.timers = s.timers \ {"request"}]
    BY <2>1
  <2>3. OnTimeout(s, timer) = NetworkClose(CleanRequestData(t))
    BY <2>1 DEF OnTimeout
  <2> HIDE DEF t
  <2>4. Serving(t) /\ StreamFits(t) /\ t.timers = {}
    BY <1>2, <2>2, FreshFits, TimerFacts DEF Reading
  <2> QED BY <2>3, <2>4, CleanCloses
<1>3. CASE Waiting(s)
  <2>1. timer = "keepAlive"
    BY <1>3 DEF Waiting
  <2>2. OnTimeout(s, timer) = NetworkClose([s EXCEPT !.timers = s.timers \ {"keepAlive"}])
    BY <2>1 DEF OnTimeout
  <2> QED BY <1>3, <2>2, KeepAliveHangupCloses
<1> QED BY <1>2, <1>3

-----------------------------------------------------------------------------
(* Writes.                                                                 *)

(* A write sends the beginning of the buffer and keeps the rest.           *)
LEMMA WrittenFacts ==
  ASSUME NEW s \in Sockets, NEW w \in Written(s)
  PROVE  \E a \in Seq(Token), b \in Seq(Token) :
           /\ w = [s EXCEPT !.writeBuffer = a, !.sent = b]
           /\ b \o a = s.sent \o s.writeBuffer
           /\ Len(b) >= Len(s.sent) /\ Len(s.sent) \in Nat /\ Len(b) \in Nat
<1>1. PICK k \in 0..Len(s.writeBuffer) :
        w = [s EXCEPT !.writeBuffer = SubSeq(@, k + 1, Len(@)),
                      !.sent = @ \o SubSeq(s.writeBuffer, 1, k)]
  BY DEF Written
<1>2. s.writeBuffer \in Seq(Token) /\ s.sent \in Seq(Token)
  BY DEF Sockets
<1>3. Len(s.writeBuffer) \in Nat /\ k \in Nat
  BY <1>2, LenProperties
<1> DEFINE a == SubSeq(s.writeBuffer, k + 1, Len(s.writeBuffer))
           h == SubSeq(s.writeBuffer, 1, k)
           b == s.sent \o h
<1>4. a \in Seq(Token) /\ h \in Seq(Token)
  <2>1. \A i \in 1..Len(s.writeBuffer) : s.writeBuffer[i] \in Token
    BY <1>2, ElementOfSeq
  <2> QED BY <1>3, <2>1, SubSeqProperties
<1>5. h \o a = s.writeBuffer
  <2>1. h \o a = SubSeq(s.writeBuffer, 1, Len(s.writeBuffer))
    <3>1. 1 \in 1..Len(s.writeBuffer) + 1 /\ k \in 1 - 1..Len(s.writeBuffer)
          /\ Len(s.writeBuffer) \in k..Len(s.writeBuffer)
      BY <1>3
    <3> QED BY <1>2, <3>1, ConcatAdjacentSubSeq
  <2> QED BY <1>2, <2>1, SubSeqFull
<1>6. b \in Seq(Token) /\ b \o a = s.sent \o s.writeBuffer
  <2> HIDE DEF a, h
  <2>1. b \in Seq(Token)
    BY <1>2, <1>4, ConcatProperties
  <2>2. b \o a = s.sent \o (h \o a)
    <3> DEFINE e == s.sent
    <3>1. e \in Seq(Token)
      BY <1>2
    <3> HIDE DEF e
    <3>2. (e \o h) \o a = e \o (h \o a)
      BY <1>4, <3>1, ConcatAssociative, SMTT(30)
    <3> QED BY <3>2 DEF e
  <2> QED BY <1>5, <2>1, <2>2
<1>7. Len(b) >= Len(s.sent) /\ Len(s.sent) \in Nat /\ Len(b) \in Nat
  <2> DEFINE e == s.sent
  <2>1. e \in Seq(Token) /\ b = e \o h /\ h \in Seq(Token)
    BY <1>2, <1>4
  <2> HIDE DEF a, b, h, e
  <2>2. Len(e \o h) = Len(e) + Len(h) /\ Len(e) \in Nat /\ Len(h) \in Nat
    BY <2>1, ConcatProperties, LenProperties
  <2> QED BY <2>1, <2>2 DEF e
<1>8. w = [s EXCEPT !.writeBuffer = a, !.sent = b]
  BY <1>1
<1> HIDE DEF a, b
<1> QED BY <1>4, <1>6, <1>7, <1>8 DEF a

(* A write moves what is in the buffer and changes nothing else.           *)
LEMMA WriteKeeps ==
  ASSUME NEW s, Answering(s), NEW w \in Written(s)
  PROVE  /\ Answering(w) /\ Whole(w) = Whole(s) /\ Complete(w) = Complete(s)
         /\ w.onWrite = s.onWrite /\ w.fileOpen = s.fileOpen /\ w.eof = s.eof
         /\ w.method = s.method /\ w.file = s.file /\ w.keepAlive = s.keepAlive
         /\ w.stream = s.stream /\ w.chunked = s.chunked /\ w.emptied = s.emptied
         /\ (Deflated(w) <=> Deflated(s))
         /\ Streams(s) => Streams(w)
<1>1. s \in Sockets
  BY DEF Answering, Serving
<1>2. PICK a \in Seq(Token), b \in Seq(Token) :
        /\ w = [s EXCEPT !.writeBuffer = a, !.sent = b]
        /\ b \o a = s.sent \o s.writeBuffer
        /\ Len(b) >= Len(s.sent) /\ Len(s.sent) \in Nat /\ Len(b) \in Nat
  BY <1>1, WrittenFacts
<1>3. /\ w \in Sockets /\ w.writeBuffer = a /\ w.sent = b /\ w.answer = s.answer
      /\ w.onWrite = s.onWrite /\ w.fileOpen = s.fileOpen /\ w.eof = s.eof
      /\ w.method = s.method /\ w.file = s.file /\ w.keepAlive = s.keepAlive
      /\ w.stream = s.stream /\ w.chunked = s.chunked /\ w.emptied = s.emptied
  BY <1>1, <1>2 DEF Sockets
<1>4. Answering(w)
  BY <1>1, <1>2, <1>3 DEF Answering, Serving, Sockets
<1>5. Deflated(w) <=> Deflated(s)
  BY <1>3 DEF Deflated
<1>6. Whole(w) = Whole(s) /\ Complete(w) = Complete(s)
  BY <1>2, <1>3, <1>5 DEF Whole, Out, Owed, Complete
<1>7. Streams(s) => Streams(w)
  <2>1. Len(s.answer) \in Nat
    BY <1>1, CompleteFacts
  <2>2. Len(s.sent) >= Len(s.answer) => Len(b) >= Len(s.answer)
    BY <1>2, <2>1
  <2> QED BY <1>3, <1>5, <2>2 DEF Streams
<1> QED BY <1>3, <1>4, <1>5, <1>6, <1>7

(* A write that fails or does not finish leaves an answer under way.       *)
LEMMA UnfinishedAnswers ==
  ASSUME NEW s, Draining(s), NEW t \in Unfinished(s)
  PROVE  Answered(t, s.keepAlive)
<1>1. CASE t = RemoteHangup(s)
  <2>1. Serving(s) /\ s.timers = {} /\ StreamFits(s)
    BY AnswerFits DEF Draining, Ended, Answering
  <2> QED BY <1>1, <2>1, HangupCloses DEF Answered
<1>2. CASE t \in Written(s) /\ t.writeBuffer # <<>>
  <2>1. Answering(s)
    BY DEF Draining, Ended
  <2>2. Draining(t) /\ t.keepAlive = s.keepAlive
    BY <1>2, <2>1, WriteKeeps DEF Draining, Ended
  <2> QED BY <1>2, <2>2 DEF Answered
<1> QED BY <1>1, <1>2 DEF Unfinished

(* The request is released: its client is granted another or disconnected. *)
LEMMA ReleaseAnswers ==
  ASSUME NEW s, Answering(s), ~s.stream, ~s.chunked,
         s.writeBuffer = <<>>, s.sent = Complete(s),
         NEW t \in ReleaseRequest(s)
  PROVE  Answered(t, s.keepAlive)
<1>1. Serving(s) /\ s \in Sockets /\ s.timers = {}
  BY DEF Answering, Serving
<1>2. CASE s.keepAlive
  <2> DEFINE r == SetReadSocket(s)
             u == CleanRequestData(r)
  <2>1. r \in Sockets /\ Serving(r) /\ r = [s EXCEPT !.interest = {"in"}]
    BY <1>1 DEF SetReadSocket, Serving, Sockets
  <2>2. u = [r EXCEPT !.fileOpen = FALSE, !.closesFile = FALSE, !.file = 0, !.eof = FALSE]
    BY <2>1, CleanFacts
  <2> HIDE DEF r, u
  <2>3. /\ u \in Sockets /\ u.interest = {"in"} /\ u.open /\ u.leaked = {} /\ ~u.stream /\ ~u.chunked
        /\ ~u.fileOpen /\ ~u.closesFile /\ u.file = 0
        /\ u.sent = s.sent /\ u.answer = s.answer /\ u.timers = {} /\ (u.emptied <=> s.emptied)
    <3>1. u \in Sockets
      BY <2>1, <2>2, ZenonT(40) DEF Sockets
    <3>2. /\ r.interest = {"in"} /\ r.open /\ r.leaked = {} /\ ~r.stream /\ ~r.chunked
          /\ r.sent = s.sent /\ r.answer = s.answer /\ r.timers = {} /\ (r.emptied <=> s.emptied)
      BY <1>1, <2>1 DEF Serving, Sockets
    <3> QED BY <2>1, <2>2, <3>1, <3>2 DEF Sockets
  <2>4. t = [u EXCEPT
           !.data = "event", !.timers = {"keepAlive"},
           !.writeBuffer = <<>>, !.exception = FALSE,
           !.onRead = "InitializeKeepAliveConnection",
           !.onRemoteHangup = "OnKeepAliveRemoteHangup",
           !.method = "none", !.keepAlive = FALSE, !.headerSent = FALSE,
           !.deflates = FALSE]
    <3>1. u.timers \union {"keepAlive"} = {"keepAlive"}
      BY <2>3
    <3> QED BY <1>2, <3>1 DEF ReleaseRequest, r, u
  <2>5. t \in Sockets /\ Waiting(t)
    <3> DEFINE b == <<>>
    <3>1. t = [u EXCEPT
             !.data = "event", !.timers = {"keepAlive"},
             !.writeBuffer = b, !.exception = FALSE,
             !.onRead = "InitializeKeepAliveConnection",
             !.onRemoteHangup = "OnKeepAliveRemoteHangup",
             !.method = "none", !.keepAlive = FALSE, !.headerSent = FALSE,
             !.deflates = FALSE]
      BY <2>4
    <3>2. b \in Seq(Token)
      OBVIOUS
    <3>3. u.sent = Complete(u)
      BY <2>3 DEF Complete, Deflated
    <3> HIDE DEF b
    <3>4. t \in Sockets
      BY <2>3, <3>1, <3>2, ZenonT(40) DEF Sockets
    <3>5. t.writeBuffer = b
      BY <2>3, <3>1 DEF Sockets
    <3>6. /\ t.open /\ t.leaked = {} /\ t.data = "event"
          /\ t.onRead = "InitializeKeepAliveConnection"
          /\ t.onRemoteHangup = "OnKeepAliveRemoteHangup"
          /\ t.interest = {"in"} /\ t.timers = {"keepAlive"}
          /\ t.sent = u.sent /\ t.answer = u.answer /\ (t.emptied <=> u.emptied)
          /\ ~t.exception /\ ~t.headerSent /\ ~t.stream /\ ~t.chunked
          /\ ~t.fileOpen /\ ~t.closesFile /\ t.file = 0
          /\ t.method = "none" /\ ~t.keepAlive
      BY <2>3, <3>1 DEF Sockets
    <3>7. t.sent = Complete(t)
      BY <3>3, <3>6 DEF Complete, Deflated
    <3> QED BY <3>4, <3>5, <3>6, <3>7 DEF Waiting, b
  <2> QED BY <1>2, <2>5 DEF Answered
<1>3. CASE ~s.keepAlive
  BY <1>1, <1>3, SentFits, HangupCloses DEF ReleaseRequest, Answered
<1> QED BY <1>2, <1>3

(* All was sent: with what is owed sent, too, the header and the answer.   *)
LEMMA SentAll ==
  ASSUME NEW s, Ended(s), s.writeBuffer = <<>>
  PROVE  /\ s.sent \in Seq(Token) /\ s.answer \in Seq(Token)
         /\ s.sent \o Owed(s) = Complete(s)
<1>1. s.sent \in Seq(Token) /\ s.answer \in Seq(Token) /\ s.file = 0
  BY DEF Ended, Answering, Serving, Sockets
<1>2. Whole(s) = s.sent \o Owed(s)
  BY <1>1, NoBlocks, ConcatEmptySeq DEF Whole, Out
<1> QED BY <1>1, <1>2 DEF Ended

(* A request whose output has been sent ends in order.                     *)
LEMMA RequestEndAnswers ==
  ASSUME Polls, NEW s, Ended(s), s.writeBuffer = <<>>, NEW t \in OnRequestEnd(s)
  PROVE  Answered(t, s.keepAlive)
<1> DEFINE e == OnOutputEnd(s)
           c == SendLastChunk(e)
           last == [SetWriteSocket(c) EXCEPT !.chunked = FALSE, !.onWrite = "FullWriteBuffer"]
<1>1. /\ Answering(s) /\ Serving(s) /\ s \in Sockets /\ s.interest = {"out"}
      /\ s.chunked => s.method # "HEAD"
      /\ Streams(s)
  BY DEF Ended, Answering, Serving
<1>2. /\ e = [s EXCEPT !.stream = FALSE]
      /\ e \in Sockets /\ Answering(e) /\ ~e.stream /\ e.writeBuffer = <<>>
      /\ e.sent = s.sent /\ e.answer = s.answer /\ e.keepAlive = s.keepAlive
      /\ e.chunked = s.chunked /\ e.method = s.method /\ e.file = s.file
      /\ (e.emptied <=> s.emptied)
  BY <1>1 DEF OnOutputEnd, Answering, Serving, Sockets
<1>3. CASE ~s.chunked
  <2>1. s.sent \o <<>> = Complete(s) /\ s.sent \in Seq(Token)
    BY <1>3, SentAll DEF Owed
  <2>2. s.sent = Complete(s)
    BY <2>1, ConcatEmptySeq
  <2>3. e.sent = Complete(e)
    BY <1>2, <2>2 DEF Complete, Deflated
  <2>4. t \in ReleaseRequest(e)
    BY <1>2, <1>3 DEF OnRequestEnd
  <2> HIDE DEF e
  <2> QED BY <1>2, <1>3, <2>3, <2>4, ReleaseAnswers
<1>4. CASE s.chunked
  <2>1. t \in Unfinished(last) \union UNION {ReleaseRequest(w) : w \in Finished(last)}
    BY <1>1, <1>2, <1>4 DEF OnRequestEnd
  <2>2. c = [e EXCEPT !.writeBuffer = <<"last">>] /\ c \in Sockets
    <3>1. Append(<<>>, "last") = <<"last">> /\ <<"last">> \in Seq(Token)
      BY DEF Token
    <3> DEFINE b == <<"last">>
    <3>2. c = [e EXCEPT !.writeBuffer = b]
      BY <1>2, <3>1 DEF SendLastChunk
    <3>3. b \in Seq(Token)
      BY <3>1
    <3> HIDE DEF b, c, e
    <3>4. c \in Sockets
      BY <1>2, <3>2, <3>3, ZenonT(40) DEF Sockets
    <3> QED BY <3>2, <3>4 DEF b
  <2> HIDE DEF e, c
  <2>3. last = [e EXCEPT !.writeBuffer = <<"last">>, !.interest = {"out"},
                         !.chunked = FALSE, !.onWrite = "FullWriteBuffer"]
    BY <1>2, <2>2 DEF Polls, SetWriteSocket, LinuxPollSetWriteSocket, Sockets
  <2> HIDE DEF last
  <2>4. /\ last \in Sockets /\ Answering(last) /\ ~last.stream /\ ~last.chunked
        /\ last.sent = s.sent /\ last.writeBuffer = <<"last">> /\ last.answer = s.answer
        /\ last.keepAlive = s.keepAlive /\ last.onWrite = "FullWriteBuffer" /\ last.file = 0
        /\ (last.emptied <=> s.emptied)
    <3> DEFINE b == <<"last">>
    <3>1. b \in Seq(Token)
      BY DEF Token
    <3>2. last = [e EXCEPT !.writeBuffer = b, !.interest = {"out"},
                           !.chunked = FALSE, !.onWrite = "FullWriteBuffer"]
      BY <2>3
    <3> HIDE DEF b
    <3>3. e \in Sockets
      BY <1>2
    <3>4. last \in Sockets
      BY <3>1, <3>2, <3>3 DEF Sockets
    <3>5. last \in Sockets /\ last.writeBuffer = b
      BY <3>2, <3>3, <3>4 DEF Sockets
    <3>6. /\ ~last.stream /\ ~last.chunked /\ last.sent = e.sent /\ last.answer = e.answer
          /\ last.keepAlive = e.keepAlive /\ last.onWrite = "FullWriteBuffer"
          /\ last.file = e.file /\ (last.emptied <=> e.emptied)
      BY <1>2, <3>2 DEF Sockets
    <3>7. Answering(last)
      BY <1>2, <3>2, <3>5, <3>6 DEF Answering, Serving, Sockets
    <3>8. e.file = 0
      BY <1>2 DEF Ended
    <3> QED BY <1>2, <3>5, <3>6, <3>7, <3>8 DEF b
  <2>5. Whole(last) = s.sent \o <<"last">>
    <3>1. <<"last">> \in Seq(Token) /\ s.sent \in Seq(Token)
      BY <1>1 DEF Sockets, Token
    <3>2. s.sent \o <<"last">> \in Seq(Token)
      BY <3>1, ConcatProperties
    <3> QED BY <2>4, <3>2, NoBlocks, ConcatEmptySeq DEF Whole, Out, Owed
  <2>6. Draining(last)
    <3>1. s.sent \o <<"last">> = Complete(s)
      BY <1>4, SentAll DEF Owed
    <3>2. Complete(last) = Complete(s)
      BY <2>4 DEF Complete, Deflated
    <3>3. Streams(last)
      <4> DEFINE a == Len(s.answer)
                 b == Len(s.sent)
                 l == <<"last">>
                 x == s.sent
      <4>1. a \in Nat /\ Len(Complete(s)) \in {1 + a, 2 + a}
        BY <1>1, CompleteFacts
      <4>2. l \in Seq(Token) /\ Len(l) = 1 /\ x \in Seq(Token) /\ b = Len(x)
        BY <1>1 DEF Token, Sockets
      <4>3. x \o l = Complete(s)
        BY <3>1
      <4> HIDE DEF a, b, l, x
      <4>4. Len(x \o l) = Len(x) + Len(l) /\ Len(x) \in Nat
        <5>1. x \in Seq(Token) /\ l \in Seq(Token)
          BY <4>2
        <5> QED BY <5>1, ConcatProperties, LenProperties
      <4>5. b >= a
        BY <4>1, <4>2, <4>3, <4>4
      <4> QED BY <2>4, <4>5 DEF Streams, a, b
    <3>4. <<"last">> # <<>>
      <4>1. Len(<<>>) # Len(<<"last">>)
        OBVIOUS
      <4> QED BY <4>1, Zenon
    <3> QED BY <2>4, <2>5, <3>1, <3>2, <3>3, <3>4 DEF Draining, Ended
  <2>7. CASE t \in Unfinished(last)
    BY <2>4, <2>6, <2>7, UnfinishedAnswers
  <2>8. ASSUME NEW w \in Finished(last), t \in ReleaseRequest(w)
        PROVE  Answered(t, s.keepAlive)
    <3>1. w \in Written(last) /\ w.writeBuffer = <<>>
      BY DEF Finished
    <3>2. /\ Answering(w) /\ Whole(w) = Whole(last) /\ Complete(w) = Complete(last)
          /\ w.file = 0 /\ w.keepAlive = s.keepAlive /\ ~w.stream /\ ~w.chunked
          /\ Streams(last) => Streams(w)
      BY <2>4, <3>1, WriteKeeps
    <3>3. Ended(w) /\ w \in Sockets
      BY <2>6, <3>2 DEF Draining, Ended, Answering, Serving
    <3>4. w.sent \o <<>> = Complete(w) /\ w.sent \in Seq(Token)
      BY <3>1, <3>2, <3>3, SentAll DEF Owed
    <3>5. w.sent = Complete(w)
      BY <3>4, ConcatEmptySeq
    <3> QED BY <2>8, <3>1, <3>2, <3>5, ReleaseAnswers
  <2> QED BY <2>1, <2>7, <2>8
<1> QED BY <1>3, <1>4

(* The handler that drains the buffer: on, or the end of the request.      *)
LEMMA FullWriteBufferAnswers ==
  ASSUME Polls, NEW s, Draining(s), NEW t \in FullWriteBuffer(s)
  PROVE  Answered(t, s.keepAlive)
<1>1. CASE t \in Unfinished(s)
  BY <1>1, UnfinishedAnswers
<1>2. ASSUME NEW w \in Finished(s), t \in OnRequestEnd(w)
      PROVE  Answered(t, s.keepAlive)
  <2>1. w \in Written(s) /\ w.writeBuffer = <<>> /\ Answering(s)
    BY DEF Finished, Draining, Ended
  <2>2. Ended(w) /\ w.keepAlive = s.keepAlive
    BY <2>1, WriteKeeps DEF Draining, Ended
  <2> QED BY <1>2, <2>1, <2>2, RequestEndAnswers
<1> QED BY <1>1, <1>2 DEF FullWriteBuffer

-----------------------------------------------------------------------------
(* Output.                                                                 *)

(* What making output leaves alone.                                        *)
Kept(s, t) ==
  /\ t \in Sockets /\ (t.open <=> s.open) /\ t.data = s.data /\ t.timers = s.timers
  /\ t.onRead = s.onRead /\ t.onWrite = s.onWrite /\ t.onRemoteHangup = s.onRemoteHangup
  /\ t.interest = s.interest /\ t.method = s.method /\ t.leaked = s.leaked
  /\ (t.fileOpen <=> s.fileOpen) /\ (t.closesFile <=> s.closesFile)
  /\ t.file = s.file /\ (t.eof <=> s.eof) /\ (t.emptied <=> s.emptied)

(* With f more blocks and what is owed the answer is whole.                *)
Lacks(s, f) ==
  IF s.headerSent THEN (Out(s) \o Blocks(f)) \o Owed(s) = Plain(s)
  ELSE Out(s) = <<>> /\ Blocks(f) \o Owed(s) = s.answer

Marked(s) == [s EXCEPT !.stream = TRUE, !.chunked = TRUE, !.answer = Append(@, "last")]

(* A body that becomes a chunked one owes the last chunk.                  *)
LEMMA MarkKeeps ==
  ASSUME NEW s \in Sockets, ~s.chunked, NEW f \in Nat, Lacks(s, f)
  PROVE  /\ Kept(s, Marked(s)) /\ Lacks(Marked(s), f)
         /\ (Marked(s).headerSent <=> s.headerSent) /\ (Marked(s).keepAlive <=> s.keepAlive)
         /\ Marked(s).chunked /\ Marked(s).stream /\ Marked(s).writeBuffer = s.writeBuffer
         /\ Deflated(Marked(s))
<1> DEFINE a == Append(s.answer, "last")
           l == <<"last">>
           m == Marked(s)
           b == Blocks(f)
           o == Out(s)
<1>1. s.answer \in Seq(Token) /\ s.sent \in Seq(Token) /\ s.writeBuffer \in Seq(Token)
  BY DEF Sockets
<1>2. b \in Seq(Token) /\ l \in Seq(Token) /\ "last" \in Token /\ o \in Seq(Token)
      /\ <<"header">> \in Seq(Token)
  BY <1>1, BlocksFacts, ConcatProperties DEF Token, Out
<1>3. a \in Seq(Token) /\ a = s.answer \o l /\ a # <<>> /\ a[Len(a)] = "last"
  <2> DEFINE e == s.answer
  <2>1. e \in Seq(Token) /\ "last" \in Token
    BY <1>1, <1>2
  <2>2. a = Append(e, "last")
    OBVIOUS
  <2> HIDE DEF e, a
  <2>3. /\ a \in Seq(Token) /\ a # <<>> /\ Len(a) = Len(e) + 1
        /\ Append(e, "last")[Len(e) + 1] = "last" /\ a = e \o l
    BY <2>1, <2>2, AppendProperties, AppendIsConcat
  <2> QED BY <2>2, <2>3 DEF e
<1>4. m = [s EXCEPT !.stream = TRUE, !.chunked = TRUE, !.answer = a]
  BY DEF Marked
<1> HIDE DEF a, b, l, m, o
<1>5. m \in Sockets
  BY <1>3, <1>4 DEF Sockets
<1>6. /\ m.answer = a /\ m.chunked /\ m.stream /\ m.writeBuffer = s.writeBuffer
      /\ m.sent = s.sent /\ (m.headerSent <=> s.headerSent) /\ (m.keepAlive <=> s.keepAlive)
  BY <1>4 DEF Sockets
<1>7. Kept(s, m) /\ Deflated(m)
  <2>1. Kept(s, m)
    BY <1>4, <1>5 DEF Kept, Sockets
  <2> QED BY <1>3, <1>6, <2>1 DEF Deflated, Last
<1>8. Owed(s) = <<>> /\ Owed(m) = l /\ Out(m) = o
  BY <1>6 DEF Owed, Out, l, o
<1>9. CASE s.headerSent
  <2>1. (o \o b) \o <<>> = Plain(s)
    BY <1>8, <1>9 DEF Lacks, b, o
  <2>2. o \o b \in Seq(Token)
    BY <1>2, ConcatProperties
  <2>3. o \o b = <<"header">> \o s.answer
    BY <2>1, <2>2, ConcatEmptySeq DEF Plain
  <2>4. (o \o b) \o l = <<"header">> \o (s.answer \o l)
    <3> DEFINE h == <<"header">>
               e == s.answer
    <3>1. h \in Seq(Token) /\ e \in Seq(Token) /\ l \in Seq(Token)
      BY <1>1, <1>2
    <3> HIDE DEF h, e
    <3>2. (h \o e) \o l = h \o (e \o l)
      BY <3>1, ConcatAssociative
    <3> QED BY <2>3, <3>2 DEF h, e
  <2>5. (o \o b) \o l = Plain(m)
    BY <1>3, <1>6, <2>4 DEF Plain
  <2>6. Lacks(m, f)
    BY <1>6, <1>8, <1>9, <2>5 DEF Lacks, b
  <2> QED BY <1>6, <1>7, <2>6 DEF m
<1>10. CASE ~s.headerSent
  <2>1. o = <<>> /\ b \o <<>> = s.answer
    BY <1>8, <1>10 DEF Lacks, b, o
  <2>2. b \o l = m.answer
    BY <1>2, <1>3, <1>6, <2>1, ConcatEmptySeq
  <2>3. Lacks(m, f)
    BY <1>6, <1>8, <1>10, <2>1, <2>2 DEF Lacks, b
  <2> QED BY <1>6, <1>7, <2>3 DEF m
<1> QED BY <1>9, <1>10

(* The header grants another request only if the process goes on.          *)
LEMMA BuildFacts ==
  ASSUME NEW s \in Sockets, doShutdown \in BOOLEAN
  PROVE  LET h == BuildAnswerHeaders(s) IN
         /\ Kept(s, h) /\ h.headerSent /\ h.writeBuffer = <<"header">>
         /\ h.sent = s.sent /\ h.answer = s.answer
         /\ (h.stream <=> s.stream) /\ (h.chunked <=> s.chunked) /\ (h.exception <=> s.exception)
         /\ h.keepAlive => s.keepAlive /\ ~doShutdown
<1> DEFINE h == BuildAnswerHeaders(s)
           k == s.keepAlive /\ ~doShutdown
           b == <<"header">>
<1>1. k \in BOOLEAN /\ b \in Seq(Token)
  BY DEF Sockets, Token
<1>2. h = [s EXCEPT !.headerSent = TRUE, !.keepAlive = k, !.writeBuffer = b]
  BY DEF BuildAnswerHeaders
<1>3. k => s.keepAlive /\ ~doShutdown
  OBVIOUS
<1> HIDE DEF h, k, b
<1>4. h \in Sockets
  BY <1>1, <1>2 DEF Sockets
<1>5. h.writeBuffer = b /\ h.keepAlive = k
  BY <1>2 DEF Sockets
<1>6. /\ h.headerSent /\ h.sent = s.sent /\ h.answer = s.answer
      /\ (h.stream <=> s.stream) /\ (h.chunked <=> s.chunked) /\ (h.exception <=> s.exception)
  BY <1>2 DEF Sockets
<1>7. Kept(s, h)
  BY <1>2, <1>4 DEF Kept, Sockets
<1>8. (h.keepAlive => s.keepAlive /\ ~doShutdown) /\ h.writeBuffer = <<"header">>
  BY <1>3, <1>5 DEF b
<1> QED BY <1>6, <1>7, <1>8 DEF h

(* With its header an answer lacks what it lacked: the body.               *)
LEMMA HeadedFacts ==
  ASSUME doShutdown \in BOOLEAN, NEW s \in Sockets, NEW f \in Nat, Lacks(s, f)
  PROVE  LET h == Headed(s) IN
         /\ Kept(s, h) /\ h.headerSent /\ Lacks(h, f)
         /\ (h.stream <=> s.stream) /\ (h.chunked <=> s.chunked) /\ h.answer = s.answer
         /\ h.keepAlive => s.keepAlive /\ (s.headerSent \/ ~doShutdown)
<1>1. CASE s.headerSent
  BY <1>1 DEF Headed, Kept
<1>2. CASE ~s.headerSent
  <2> DEFINE h == BuildAnswerHeaders(s)
             e == <<"header">>
             b == Blocks(f)
  <2>1. Headed(s) = h
    BY <1>2 DEF Headed
  <2>2. /\ Kept(s, h) /\ h.headerSent /\ h.writeBuffer = e
        /\ h.sent = s.sent /\ h.answer = s.answer
        /\ (h.stream <=> s.stream) /\ (h.chunked <=> s.chunked)
        /\ h.keepAlive => s.keepAlive /\ ~doShutdown
    BY BuildFacts
  <2> HIDE DEF h
  <2>3. s.sent = <<>> /\ b \o Owed(s) = s.answer
    <3>1. s.sent \o s.writeBuffer = <<>>
      BY <1>2 DEF Lacks, Out
    <3>2. s.sent \in Seq(Token) /\ s.writeBuffer \in Seq(Token)
      BY DEF Sockets
    <3>3. s.sent = <<>>
      BY <3>1, <3>2, ConcatEqualIffEmpty
    <3> QED BY <1>2, <3>3 DEF Lacks
  <2>4. e \in Seq(Token) /\ b \in Seq(Token) /\ Owed(s) \in Seq(Token)
    BY BlocksFacts DEF Owed, Token
  <2>5. Out(h) = e /\ Owed(h) = Owed(s)
    BY <2>2, <2>3, <2>4, ConcatEmptySeq DEF Out, Owed
  <2>6. (e \o b) \o Owed(s) = e \o (b \o Owed(s))
    <3> DEFINE o == Owed(s)
    <3> HIDE DEF e, b, o
    <3>1. (e \o b) \o o = e \o (b \o o)
      BY <2>4, ConcatAssociative, SMTT(30) DEF o
    <3> QED BY <3>1 DEF o
  <2>7. Lacks(h, f)
    BY <2>2, <2>3, <2>5, <2>6 DEF Lacks, Plain
  <2> QED BY <2>1, <2>2, <2>7
<1> QED BY <1>1, <1>2

(* What goes out with a part of the file, of n blocks.                     *)
Part(n) == IF n = 0 THEN <<"last">> ELSE Blocks(n)

Extended(s, x) == [s EXCEPT !.writeBuffer = @ \o x]

(* Output extends the buffer by blocks, or by a chunk.                     *)
LEMMA OutputForm ==
  ASSUME NEW s \in Sockets, NEW n \in Nat
  PROVE  \/ /\ ~s.deflates /\ ~s.stream
            /\ Output(s, n) = Extended(Headed(s), Blocks(n))
         \/ /\ s.stream
            /\ Output(s, n) = Extended(Headed(s), Part(n))
         \/ /\ ~s.stream
            /\ Output(s, n) = Extended(Headed(Marked(s)), Part(n))
<1>1. \A h : [h EXCEPT !.writeBuffer = @ \o (IF n = 0 THEN <<"last">> ELSE Blocks(n))]
               = Extended(h, Part(n))
  BY DEF Part, Extended
<1>2. CASE ~s.deflates /\ ~s.stream
  BY <1>2 DEF Output, Extended
<1>3. CASE s.stream
  BY <1>1, <1>3 DEF Output, DeflateChunk, SendChunk
<1>4. CASE ~s.stream /\ s.deflates
  BY <1>1, <1>4 DEF Output, DeflateChunk, SendChunk, Marked
<1> QED BY <1>2, <1>3, <1>4

Buffers(s, b) == [s EXCEPT !.writeBuffer = b]

(* Another buffer changes nothing else.                                    *)
LEMMA BufferFacts ==
  ASSUME NEW h \in Sockets, NEW b \in Seq(Token), NEW o, o = Buffers(h, b)
  PROVE  /\ Kept(h, o) /\ (o.headerSent <=> h.headerSent)
         /\ (o.stream <=> h.stream) /\ (o.chunked <=> h.chunked) /\ (o.exception <=> h.exception)
         /\ (o.keepAlive <=> h.keepAlive) /\ o.answer = h.answer /\ o.sent = h.sent
         /\ o.writeBuffer = b
<1>1. o = [h EXCEPT !.writeBuffer = b]
  BY DEF Buffers
<1>2. o \in Sockets
  BY <1>1, ZenonT(40) DEF Sockets
<1>3. /\ (o.headerSent <=> h.headerSent)
      /\ (o.stream <=> h.stream) /\ (o.chunked <=> h.chunked) /\ (o.exception <=> h.exception)
      /\ (o.keepAlive <=> h.keepAlive) /\ o.answer = h.answer /\ o.sent = h.sent
      /\ o.writeBuffer = b
  BY <1>1 DEF Sockets
<1>4. Kept(h, o)
  BY <1>1, <1>2, ZenonT(40) DEF Kept, Sockets
<1> QED BY <1>3, <1>4

(* Putting x behind what is in the buffer.                                 *)
LEMMA AppendKeeps ==
  ASSUME NEW h \in Sockets, NEW x \in Seq(Token), NEW o, o = Extended(h, x)
  PROVE  /\ Kept(h, o) /\ (o.headerSent <=> h.headerSent)
         /\ (o.stream <=> h.stream) /\ (o.chunked <=> h.chunked)
         /\ (o.keepAlive <=> h.keepAlive) /\ Plain(o) = Plain(h) /\ (Deflated(o) <=> Deflated(h))
         /\ Owed(o) = Owed(h) /\ Out(o) = Out(h) \o x /\ Out(h) \in Seq(Token)
<1> DEFINE b == h.writeBuffer \o x
           a == h.writeBuffer
           c == h.sent
<1>1. a \in Seq(Token) /\ c \in Seq(Token)
  BY DEF Sockets
<1>2. b \in Seq(Token) /\ c \o a \in Seq(Token)
  BY <1>1, ConcatProperties
<1>3. o = Buffers(h, b)
  BY DEF Extended, Buffers
<1>4. c \o b = (c \o a) \o x
  <2>1. b = a \o x
    OBVIOUS
  <2> HIDE DEF a, b, c
  <2>2. (c \o a) \o x = c \o (a \o x)
    <3>1. a \in Seq(Token) /\ c \in Seq(Token) /\ x \in Seq(Token)
      BY <1>1
    <3> QED BY <3>1, ConcatAssociative
  <2> QED BY <2>1, <2>2
<1>5. /\ Kept(h, o) /\ (o.headerSent <=> h.headerSent)
      /\ (o.stream <=> h.stream) /\ (o.chunked <=> h.chunked)
      /\ (o.keepAlive <=> h.keepAlive) /\ o.answer = h.answer /\ o.sent = h.sent
      /\ o.writeBuffer = b
  <2>1. b \in Seq(Token)
    BY <1>2
  <2> HIDE DEF b
  <2> QED BY <1>3, <2>1, BufferFacts
<1> HIDE DEF b
<1>6. Deflated(o) <=> Deflated(h)
  BY <1>5 DEF Deflated
<1> QED BY <1>2, <1>4, <1>5, <1>6 DEF Out, Owed, Plain

(* Of f blocks n are put out: the rest is still lacking; and if that is    *)
(* nothing, a deflated body gets one more empty chunk than is owed.        *)
Puts(s, f, n, o) ==
  /\ Kept(s, o) /\ o.headerSent
  /\ o.chunked <=> o.stream
  /\ o.stream <=> Deflated(o)
  /\ o.keepAlive => s.keepAlive /\ (s.headerSent \/ ~doShutdown)
  /\ \/ (n # 0 \/ ~o.stream) /\ (Out(o) \o Blocks(f - n)) \o Owed(o) = Plain(o)
     \/ n = 0 /\ f = 0 /\ o.stream /\ Out(o) \o Owed(o) = Plain(o) \o <<"last">>

(* A part put behind the buffer is what is missing there.                  *)
LEMMA PartKeeps ==
  ASSUME doShutdown \in BOOLEAN, NEW s \in Sockets,
         NEW m \in Sockets, Kept(s, m), m.headerSent <=> s.headerSent,
         m.keepAlive <=> s.keepAlive, m.chunked <=> m.stream, m.stream <=> Deflated(m),
         NEW f \in Nat, Lacks(m, f), NEW n \in 0..f, n = 0 => f = 0,
         NEW o, \/ ~m.stream /\ o = Extended(Headed(m), Blocks(n))
                \/ m.stream /\ m.chunked /\ o = Extended(Headed(m), Part(n))
  PROVE  Puts(s, f, n, o)
<1> DEFINE h == Headed(m)
           p == Blocks(n)
           r == Blocks(f - n)
<1>1. /\ Kept(m, h) /\ h.headerSent /\ Lacks(h, f)
      /\ (h.stream <=> m.stream) /\ (h.chunked <=> m.chunked) /\ h.answer = m.answer
      /\ h.keepAlive => m.keepAlive /\ (m.headerSent \/ ~doShutdown)
  BY HeadedFacts
<1>2. h \in Sockets /\ Kept(s, h)
  BY <1>1 DEF Kept
<1>3. /\ n \in Nat /\ f - n \in Nat /\ f \in Nat /\ n + (f - n) = f
      /\ p \in Seq(Token) /\ r \in Seq(Token) /\ p \o r = Blocks(f)
  <2>1. n \in Nat /\ f - n \in Nat /\ n + (f - n) = f
    OBVIOUS
  <2> QED BY <2>1, BlocksFacts, BlocksAdd
<1>4. (Out(h) \o Blocks(f)) \o Owed(h) = Plain(h)
  BY <1>1 DEF Lacks
<1> HIDE DEF h, p, r
<1>5. CASE (n # 0 \/ ~m.stream) /\ o = Extended(h, p)
  <2>1. /\ Kept(h, o) /\ o.headerSent /\ (o.stream <=> h.stream) /\ (o.chunked <=> h.chunked)
        /\ (o.keepAlive <=> h.keepAlive) /\ Plain(o) = Plain(h) /\ (Deflated(o) <=> Deflated(h))
        /\ Owed(o) = Owed(h) /\ Out(o) = Out(h) \o p /\ Out(h) \in Seq(Token)
    <3>1. h \in Sockets /\ p \in Seq(Token) /\ o = Extended(h, p)
      BY <1>2, <1>3, <1>5
    <3>2. /\ Kept(h, o) /\ (o.headerSent <=> h.headerSent)
          /\ (o.stream <=> h.stream) /\ (o.chunked <=> h.chunked)
          /\ (o.keepAlive <=> h.keepAlive) /\ Plain(o) = Plain(h) /\ (Deflated(o) <=> Deflated(h))
          /\ Owed(o) = Owed(h) /\ Out(o) = Out(h) \o p /\ Out(h) \in Seq(Token)
      BY <3>1, AppendKeeps
    <3> QED BY <1>1, <3>2
  <2>2. Out(o) \o r = Out(h) \o (p \o r)
    <3> DEFINE c == Out(h)
    <3> HIDE DEF c
    <3>1. c \in Seq(Token) /\ p \in Seq(Token) /\ r \in Seq(Token)
      BY <1>3, <2>1 DEF c
    <3>2. (c \o p) \o r = c \o (p \o r)
      BY <3>1, ConcatAssociative
    <3> QED BY <2>1, <3>2 DEF c
  <2>3. (Out(o) \o r) \o Owed(o) = Plain(o)
    BY <1>3, <1>4, <2>1, <2>2
  <2>4. Kept(s, o)
    BY <1>2, <2>1 DEF Kept
  <2>5. o.stream <=> Deflated(o)
    <3>1. Deflated(h) <=> Deflated(m)
      BY <1>1 DEF Deflated
    <3> QED BY <1>1, <2>1, <3>1
  <2> QED BY <1>1, <1>5, <2>1, <2>3, <2>4, <2>5 DEF Puts, r
<1>6. CASE m.stream /\ m.chunked /\ o = Extended(h, Part(n)) /\ n = 0
  <2> DEFINE l == <<"last">>
  <2>1. l \in Seq(Token) /\ Part(n) = l /\ Owed(h) = l /\ f = 0
    BY <1>1, <1>6 DEF Part, Owed, Token
  <2> HIDE DEF l
  <2>2. /\ Kept(h, o) /\ o.headerSent /\ (o.stream <=> h.stream) /\ (o.chunked <=> h.chunked)
        /\ (o.keepAlive <=> h.keepAlive) /\ Plain(o) = Plain(h) /\ (Deflated(o) <=> Deflated(h))
        /\ Owed(o) = Owed(h) /\ Out(o) = Out(h) \o l /\ Out(h) \in Seq(Token)
    <3>1. h \in Sockets /\ l \in Seq(Token) /\ o = Extended(h, l)
      BY <1>2, <1>6, <2>1
    <3>2. /\ Kept(h, o) /\ (o.headerSent <=> h.headerSent)
          /\ (o.stream <=> h.stream) /\ (o.chunked <=> h.chunked)
          /\ (o.keepAlive <=> h.keepAlive) /\ Plain(o) = Plain(h) /\ (Deflated(o) <=> Deflated(h))
          /\ Owed(o) = Owed(h) /\ Out(o) = Out(h) \o l /\ Out(h) \in Seq(Token)
      BY <3>1, AppendKeeps
    <3> QED BY <1>1, <3>2
  <2>3. Out(h) \o l = Plain(h)
    BY <1>4, <2>1, <2>2, NoBlocks, ConcatEmptySeq
  <2>4. Out(o) \o Owed(o) = Plain(o) \o <<"last">>
    BY <2>1, <2>2, <2>3 DEF l
  <2>5. Kept(s, o)
    BY <1>2, <2>2 DEF Kept
  <2>6. o.stream <=> Deflated(o)
    <3>1. Deflated(h) <=> Deflated(m)
      BY <1>1 DEF Deflated
    <3> QED BY <1>1, <2>2, <3>1
  <2> QED BY <1>1, <1>6, <2>1, <2>2, <2>4, <2>5, <2>6 DEF Puts
<1>7. n # 0 => Part(n) = p
  BY DEF Part, p
<1> QED BY <1>5, <1>6, <1>7 DEF h, p

(* So is what goes through the filter or past it.                          *)
LEMMA OutputKeeps ==
  ASSUME doShutdown \in BOOLEAN,
         NEW s \in Sockets, s.chunked <=> s.stream, s.stream <=> Deflated(s),
         NEW f \in Nat, Lacks(s, f), NEW n \in 0..f, n = 0 => f = 0
  PROVE  Puts(s, f, n, Output(s, n))
<1> DEFINE o == Output(s, n)
<1>1. n \in Nat
  OBVIOUS
<1>2. \/ ~s.stream /\ o = Extended(Headed(s), Blocks(n))
      \/ s.stream /\ o = Extended(Headed(s), Part(n))
      \/ ~s.stream /\ o = Extended(Headed(Marked(s)), Part(n))
  BY <1>1, OutputForm
<1> HIDE DEF o
<1>3. CASE \/ ~s.stream /\ o = Extended(Headed(s), Blocks(n))
           \/ s.stream /\ s.chunked /\ o = Extended(Headed(s), Part(n))
  <2>1. Kept(s, s)
    BY DEF Kept
  <2> QED BY <1>3, <2>1, PartKeeps DEF o
<1>4. CASE ~s.stream /\ o = Extended(Headed(Marked(s)), Part(n))
  <2>1. /\ Kept(s, Marked(s)) /\ Lacks(Marked(s), f)
        /\ (Marked(s).headerSent <=> s.headerSent) /\ (Marked(s).keepAlive <=> s.keepAlive)
        /\ Marked(s).chunked /\ Marked(s).stream /\ Deflated(Marked(s))
    BY <1>4, MarkKeeps
  <2>2. Marked(s) \in Sockets
    BY <2>1 DEF Kept
  <2> QED BY <1>4, <2>1, <2>2, PartKeeps DEF o
<1> QED BY <1>2, <1>3, <1>4

-----------------------------------------------------------------------------
(* Static content.                                                         *)

(* The file is open and its headers may still have to be built.            *)
Fillable(s) ==
  /\ Serving(s) /\ s.timers = {} /\ s.interest = {"out"}
  /\ s.onWrite = "StaticWrite" /\ s.fileOpen /\ ~s.eof /\ s.method # "HEAD"
  /\ s.chunked <=> s.stream
  /\ s.stream <=> Deflated(s)
  /\ ~s.emptied
  /\ Lacks(s, s.file)
  /\ ~s.headerSent => s.writeBuffer = <<>> /\ s.file > 0

(* An answer from a file is one that can be filled.                        *)
LEMMA FillingIsFillable ==
  ASSUME NEW s, Filling(s)
  PROVE  Fillable(s) /\ s.headerSent
<1>1. s \in Sockets /\ ~s.emptied /\ Whole(s) = Complete(s)
  BY DEF Filling, Answering, Serving
<1>2. Whole(s) = Plain(s)
  BY <1>1, CompleteFacts
<1> QED BY <1>2 DEF Filling, Fillable, Answering, Lacks, Whole

(* What is granted can be granted more freely.                             *)
LEMMA AnsweredWeakens ==
  ASSUME NEW t, NEW g, NEW k, k => g, Answered(t, k)
  PROVE  Answered(t, g)
BY DEF Answered

(* An answer that is under way.                                            *)
LEMMA AnsweredIntro ==
  ASSUME NEW t, NEW g, Filling(t) \/ Draining(t), t.keepAlive => g
  PROVE  Answered(t, g)
BY DEF Answered

(* A closed connection needs no answer.                                    *)
LEMMA ClosedAnswers ==
  ASSUME NEW t, NEW g, Closed(t)
  PROVE  Answered(t, g)
BY DEF Answered

(* The end of the file shows exactly when what was left of it is less than *)
(* the room; if nothing is read, nothing was left.                         *)
LEMMA ReadFacts ==
  ASSUME NEW s \in Sockets, Len(s.writeBuffer) < BufferMin
  PROVE  LET room == BufferMax - Len(s.writeBuffer)
             n == Read(s, room)
         IN  /\ n \in 0..s.file /\ s.file - n \in Nat
             /\ n = 0 => s.file = 0
             /\ n < room => s.file - n = 0
<1> DEFINE room == BufferMax - Len(s.writeBuffer)
<1>1. s.writeBuffer \in Seq(Token) /\ s.file \in Nat
  BY DEF Sockets
<1>2. Len(s.writeBuffer) \in Nat
  BY <1>1, LenProperties
<1>3. room \in Nat /\ room > 0
  BY <1>2, BufferAssumption
<1>4. Read(s, room) = IF room <= s.file THEN room ELSE s.file
  BY <1>1, <1>3, MinOfTwo DEF Read
<1> HIDE DEF room
<1>5. /\ Read(s, room) \in 0..s.file /\ s.file - Read(s, room) \in Nat
      /\ Read(s, room) = 0 => s.file = 0
      /\ Read(s, room) < room => s.file - Read(s, room) = 0
  BY <1>1, <1>3, <1>4
<1> QED BY <1>5 DEF room

(* The socket after the refill: more of the file is left, or all but what  *)
(* is owed is in the buffer.                                               *)
Refilled(s) ==
  LET room == BufferMax - Len(s.writeBuffer)
      n == Read(s, room)
  IN  IF Len(s.writeBuffer) < BufferMin
      THEN Output([s EXCEPT !.file = @ - n, !.eof = n < room, !.emptied = (n = 0)], n)
      ELSE s

(* The refilled buffer: the file goes on, or all of it is there.           *)
LEMMA RefilledFacts ==
  ASSUME doShutdown \in BOOLEAN, NEW s, Fillable(s)
  PROVE  LET r == Refilled(s) IN
         /\ r.keepAlive => s.keepAlive /\ (s.headerSent \/ ~doShutdown)
         /\ ~r.eof => Filling(r)
         /\ r.eof => Ended(r)
<1>1. s \in Sockets /\ Serving(s) /\ s.writeBuffer \in Seq(Token)
  BY DEF Fillable, Serving, Sockets
<1>2. CASE ~(Len(s.writeBuffer) < BufferMin)
  <2>1. s.headerSent
    <3>1. CASE s.writeBuffer = <<>>
      <4>1. Len(s.writeBuffer) = 0
        BY <3>1
      <4> QED BY <1>2, <4>1, BufferAssumption
    <3>2. CASE s.writeBuffer # <<>>
      BY <3>2 DEF Fillable
    <3> QED BY <3>1, <3>2
  <2>2. Filling(s)
    <3>1. Whole(s) = Plain(s) /\ ~s.emptied
      BY <2>1 DEF Fillable, Lacks, Whole
    <3>2. Whole(s) = Complete(s)
      BY <1>1, <3>1, CompleteFacts
    <3> QED BY <1>1, <2>1, <3>2 DEF Fillable, Filling, Answering
  <2>3. Refilled(s) = s /\ ~s.eof
    BY <1>2 DEF Refilled, Fillable
  <2> QED BY <2>1, <2>2, <2>3
<1>3. CASE Len(s.writeBuffer) < BufferMin
  <2> DEFINE room == BufferMax - Len(s.writeBuffer)
             n == Read(s, room)
             rest == s.file - n
             end == n < room
             none == (n = 0)
             p == [s EXCEPT !.file = rest, !.eof = end, !.emptied = none]
             r == Output(p, n)
  <2>1. /\ n \in 0..s.file /\ rest \in Nat /\ s.file \in Nat
        /\ n = 0 => s.file = 0
        /\ end => rest = 0
        /\ end \in BOOLEAN /\ none \in BOOLEAN
    BY <1>1, <1>3, ReadFacts DEF Sockets
  <2>2. Refilled(s) = r
    BY <1>3 DEF Refilled
  <2>3. p = [s EXCEPT !.file = rest, !.eof = end, !.emptied = none] /\ rest = s.file - n
    OBVIOUS
  <2> HIDE DEF n, rest, end, none, p, r
  <2>4. p \in Sockets /\ p.file = rest /\ p.eof = end /\ p.emptied = none
    <3>1. p \in Sockets
      BY <1>1, <2>1, <2>3 DEF Sockets
    <3> QED BY <1>1, <2>3, <3>1 DEF Sockets
  <2>5. /\ (p.headerSent <=> s.headerSent) /\ (p.keepAlive <=> s.keepAlive)
        /\ p.sent = s.sent /\ p.writeBuffer = s.writeBuffer /\ p.answer = s.answer
        /\ (p.chunked <=> s.chunked) /\ (p.stream <=> s.stream)
        /\ p.open /\ p.leaked = {} /\ p.data = s.data /\ p.timers = s.timers
        /\ p.onRead = s.onRead /\ p.onWrite = s.onWrite
        /\ p.onRemoteHangup = s.onRemoteHangup /\ p.interest = s.interest
        /\ p.method = s.method /\ p.fileOpen /\ p.closesFile
    BY <1>1, <2>3 DEF Serving, Fillable, Sockets
  <2>6. Lacks(p, s.file) /\ (p.chunked <=> p.stream) /\ (p.stream <=> Deflated(p))
    <3>1. Deflated(p) <=> Deflated(s)
      BY <2>5 DEF Deflated
    <3> QED BY <2>5, <3>1 DEF Fillable, Lacks, Out, Owed, Plain
  <2>7. Puts(p, s.file, n, r)
    BY <2>1, <2>4, <2>6, OutputKeeps DEF r
  <2>8. Serving(r) /\ r.file = rest /\ (r.eof <=> end) /\ (r.emptied <=> none) /\ r \in Sockets
    <3>1. Kept(p, r)
      BY <2>7 DEF Puts
    <3>2. r.file = rest /\ (r.eof <=> end) /\ (r.emptied <=> none) /\ r \in Sockets
      BY <2>4, <3>1 DEF Kept
    <3>3. /\ r.open /\ r.leaked = {} /\ r.data = "request" /\ r.onRead = "ReadHeaderData"
          /\ r.onRemoteHangup = "OnRemoteHangup" /\ r.fileOpen /\ r.closesFile
      BY <1>1, <2>5, <3>1 DEF Kept, Serving
    <3> QED BY <3>2, <3>3 DEF Serving, Sockets
  <2>9. /\ Answering(r) /\ (r.chunked <=> r.stream) /\ (r.stream <=> Deflated(r)) /\ r.method # "HEAD"
        /\ r.onWrite = "StaticWrite" /\ r.fileOpen
    BY <2>5, <2>7, <2>8 DEF Puts, Kept, Fillable, Answering
  <2>10. r.keepAlive => s.keepAlive /\ (s.headerSent \/ ~doShutdown)
    BY <2>5, <2>7 DEF Puts
  <2>11. Whole(r) = Complete(r)
    <3>1. CASE (n # 0 \/ ~r.stream) /\ Whole(r) = Plain(r)
      <4>1. ~(Deflated(r) /\ r.emptied)
        BY <2>8, <2>9, <3>1 DEF none
      <4> QED BY <2>8, <3>1, <4>1, CompleteFacts
    <3>2. CASE n = 0 /\ s.file = 0 /\ r.stream /\ Out(r) \o Owed(r) = Plain(r) \o <<"last">>
      <4>1. r.file = 0
        BY <2>1, <2>3, <2>8, <3>2
      <4>2. Out(r) \in Seq(Token)
        BY <2>8, ConcatProperties DEF Out, Sockets
      <4>3. Whole(r) = Plain(r) \o <<"last">>
        BY <3>2, <4>1, <4>2, NoBlocks, ConcatEmptySeq DEF Whole
      <4>4. Deflated(r) /\ r.emptied
        BY <2>8, <2>9, <3>2 DEF none
      <4>5. Complete(r) = Plain(r) \o <<"last">>
        BY <2>8, <4>4, CompleteFacts DEF Extra
      <4> QED BY <4>3, <4>5
    <3>3. \/ (n # 0 \/ ~r.stream) /\ Whole(r) = Plain(r)
          \/ n = 0 /\ s.file = 0 /\ r.stream /\ Out(r) \o Owed(r) = Plain(r) \o <<"last">>
      BY <2>3, <2>7, <2>8 DEF Puts, Whole
    <3> QED BY <3>1, <3>2, <3>3
  <2>12. Streams(r)
    BY <2>9 DEF Streams
  <2>13. s.file = 0 => end
    <3>1. room > 0 /\ room \in Int
      <4>1. Len(s.writeBuffer) \in Nat
        BY <1>1, LenProperties
      <4> QED BY <1>3, <4>1, BufferAssumption
    <3> QED BY <2>1, <3>1 DEF end
  <2>14. CASE ~r.eof
    <3>1. ~r.emptied
      BY <2>1, <2>8, <2>13, <2>14 DEF none
    <3> QED BY <2>2, <2>9, <2>10, <2>11, <2>14, <3>1 DEF Filling
  <2>15. CASE r.eof
    <3>1. r.file = 0
      BY <2>1, <2>8, <2>15
    <3> QED BY <2>2, <2>9, <2>10, <2>11, <2>12, <2>15, <3>1 DEF Ended
  <2> QED BY <2>14, <2>15
<1> QED BY <1>2, <1>3

(* A write between two refills.                                            *)
LEMMA FillingWrites ==
  ASSUME NEW r, Filling(r), NEW t \in Written(r), NEW g, r.keepAlive => g
  PROVE  Answered(t, g)
<1>1. Filling(t)
  BY WriteKeeps DEF Filling
<1>2. t.keepAlive = r.keepAlive
  BY WriteKeeps DEF Filling
<1>3. t.keepAlive => g
  BY <1>2
<1> QED BY <1>1, <1>3, AnsweredIntro

(* The handler that sends a file leaves an answer, or its end.             *)
LEMMA StaticWriteAnswers ==
  ASSUME Polls, doShutdown \in BOOLEAN, NEW s, Fillable(s), NEW t \in StaticWrite(s),
         NEW g, s.keepAlive /\ (s.headerSent \/ ~doShutdown) => g
  PROVE  Answered(t, g)
<1> DEFINE r == Refilled(s)
           e == [r EXCEPT !.onWrite = "FullWriteBuffer"]
<1>1. /\ r.keepAlive => g
      /\ ~r.eof => Filling(r)
      /\ r.eof => Ended(r)
  BY RefilledFacts
<1>2. \/ ~r.eof /\ t \in Written(r) \union {RemoteHangup(r)}
      \/ r.eof /\ r.writeBuffer # <<>> /\ t \in FullWriteBuffer(e)
      \/ r.eof /\ r.writeBuffer = <<>> /\ t \in OnRequestEnd(r)
  BY DEF StaticWrite, Refilled
<1> HIDE DEF r
<1>3. CASE ~r.eof /\ t \in Written(r)
  <2>1. Filling(r) /\ (r.keepAlive => g)
    BY <1>1, <1>3
  <2> HIDE DEF e
  <2> QED BY <1>3, <2>1, FillingWrites
<1>4. CASE ~r.eof /\ t = RemoteHangup(r)
  <2>1. Serving(r) /\ r.timers = {} /\ StreamFits(r)
    BY <1>1, <1>4, AnswerFits DEF Filling, Answering
  <2> QED BY <1>4, <2>1, HangupCloses DEF Answered
<1>5. CASE r.eof /\ r.writeBuffer # <<>> /\ t \in FullWriteBuffer(e)
  <2>1. Ended(r) /\ r \in Sockets
    BY <1>1, <1>5 DEF Ended, Answering, Serving
  <2>2. e = [r EXCEPT !.onWrite = "FullWriteBuffer"]
    OBVIOUS
  <2> HIDE DEF e
  <2>3. e \in Sockets /\ e.onWrite = "FullWriteBuffer"
    BY <2>1, <2>2 DEF Sockets
  <2>4. /\ e.sent = r.sent /\ e.writeBuffer = r.writeBuffer /\ e.file = r.file
        /\ e.chunked = r.chunked /\ e.answer = r.answer /\ e.keepAlive = r.keepAlive
        /\ (e.stream <=> r.stream) /\ (e.emptied <=> r.emptied)
    BY <2>1, <2>2 DEF Sockets
  <2>5. Whole(e) = Whole(r) /\ Complete(e) = Complete(r) /\ (Streams(r) => Streams(e))
    <3>1. Deflated(e) <=> Deflated(r)
      BY <2>4 DEF Deflated
    <3> QED BY <2>4, <3>1 DEF Whole, Out, Owed, Complete, Streams
  <2>6. Answering(e)
    BY <2>1, <2>2, <2>3 DEF Ended, Answering, Serving, Sockets
  <2>7. Draining(e)
    BY <1>5, <2>1, <2>3, <2>4, <2>5, <2>6 DEF Draining, Ended
  <2>8. Answered(t, r.keepAlive)
    BY <1>5, <2>4, <2>7, FullWriteBufferAnswers
  <2> QED BY <1>1, <2>8, AnsweredWeakens
<1>6. CASE r.eof /\ r.writeBuffer = <<>> /\ t \in OnRequestEnd(r)
  <2>1. Answered(t, r.keepAlive)
    BY <1>1, <1>6, RequestEndAnswers
  <2> QED BY <1>1, <2>1, AnsweredWeakens
<1> QED BY <1>2, <1>3, <1>4, <1>5, <1>6

-----------------------------------------------------------------------------
(* Requests.                                                               *)

Paged(s) == [s EXCEPT !.interest = {"out"}, !.onWrite = "FullWriteBuffer"]

(* Headers, and perhaps a page, which is all of the answer.                *)
LEMMA PageDrains ==
  ASSUME NEW s, Requesting(s), NEW d \in Sockets, NEW page \in Seq(Token),
         Kept(Paged(s), d), page = <<>> \/ Last(page) # "last",
         d.headerSent, ~d.chunked, ~d.stream, d.answer = page, d.sent = <<>>,
         d.writeBuffer = <<"header">> \o page
  PROVE  Draining(d)
<1> DEFINE h == <<"header">>
           k == Paged(s)
<1>1. h \in Seq(Token) /\ h # <<>>
  BY DEF Token
<1> HIDE DEF h
<1>2. h \o page \in Seq(Token) /\ h \o page # <<>>
  BY <1>1, ConcatProperties, ConcatEqualIffEmpty
<1>3. d.writeBuffer = h \o page
  BY DEF h
<1>4. Out(d) = h \o page
  BY <1>2, <1>3, ConcatEmptySeq DEF Out
<1>5. s \in Sockets /\ Serving(s) /\ Fresh(s) /\ s.timers = {}
  BY DEF Requesting, Serving
<1>6. k = [s EXCEPT !.interest = {"out"}, !.onWrite = "FullWriteBuffer"]
  BY DEF Paged
<1>7. Kept(k, d)
  OBVIOUS
<1> HIDE DEF k
<1>8. /\ k.open /\ k.leaked = {} /\ k.data = "request" /\ k.onRead = "ReadHeaderData"
      /\ k.onRemoteHangup = "OnRemoteHangup" /\ ~k.fileOpen /\ ~k.closesFile
      /\ k.timers = {} /\ k.interest = {"out"} /\ k.onWrite = "FullWriteBuffer" /\ k.file = 0
  BY <1>5, <1>6 DEF Serving, Fresh, Sockets
<1>9. /\ d.open /\ d.leaked = {} /\ d.data = "request" /\ d.onRead = "ReadHeaderData"
      /\ d.onRemoteHangup = "OnRemoteHangup" /\ ~d.fileOpen /\ ~d.closesFile
      /\ d.timers = {} /\ d.interest = {"out"} /\ d.onWrite = "FullWriteBuffer" /\ d.file = 0
  BY <1>7, <1>8 DEF Kept
<1>10. Answering(d)
  BY <1>9 DEF Answering, Serving, Sockets
<1>11. ~Deflated(d) /\ Streams(d)
  <2>1. ~Deflated(d)
    BY DEF Deflated
  <2> QED BY <2>1 DEF Streams
<1>12. Whole(d) = Complete(d)
  <2>1. Owed(d) = <<>> /\ Blocks(d.file) = <<>>
    BY <1>9, NoBlocks DEF Owed
  <2>2. Whole(d) = Plain(d)
    BY <1>2, <1>4, <2>1, ConcatEmptySeq DEF Whole, Plain, h
  <2>3. Complete(d) = Plain(d)
    BY <1>11, CompleteFacts DEF Kept
  <2> QED BY <2>2, <2>3
<1> QED BY <1>2, <1>3, <1>9, <1>10, <1>11, <1>12 DEF Draining, Ended

(* An error page leaves the connection with an answer.                     *)
LEMMA ExceptionDrains ==
  ASSUME Polls, doShutdown \in BOOLEAN, NEW s, Requesting(s)
  PROVE  LET d == Exception(s) IN
         Draining(d) /\ (d.keepAlive => ~doShutdown)
<1> DEFINE page == IF s.method = "HEAD" THEN <<>> ELSE <<"page">>
           u == [s EXCEPT !.exception = TRUE, !.answer = page]
           h == BuildAnswerHeaders(u)
           d == Exception(s)
           b == <<"header">> \o page
<1>1. s \in Sockets /\ Serving(s) /\ Fresh(s) /\ s.timers = {} /\ ~s.exception
  BY DEF Requesting, Serving, Fresh
<1>2. page \in Seq(Token) /\ <<"header">> \in Seq(Token) /\ (page = <<>> \/ Last(page) # "last")
  <2>1. <<>> \in Seq(Token) /\ <<"page">> \in Seq(Token) /\ <<"header">> \in Seq(Token)
    BY DEF Token
  <2>2. page = <<>> \/ page = <<"page">>
    OBVIOUS
  <2>3. Last(<<"page">>) # "last"
    BY DEF Last
  <2> QED BY <2>1, <2>2, <2>3
<1>3. b \in Seq(Token)
  BY <1>2, ConcatProperties
<1>4. d = [SetWriteSocket(h) EXCEPT !.writeBuffer = @ \o page, !.onWrite = "FullWriteBuffer"]
  BY <1>1 DEF Exception
<1>5. u = [s EXCEPT !.exception = TRUE, !.answer = page]
  OBVIOUS
<1> HIDE DEF page, u
<1>6. u \in Sockets
  BY <1>1, <1>2, <1>5 DEF Sockets
<1>7. /\ Kept(u, h) /\ h.headerSent /\ h.writeBuffer = <<"header">>
      /\ h.sent = u.sent /\ h.answer = u.answer
      /\ (h.stream <=> u.stream) /\ (h.chunked <=> u.chunked)
      /\ h.keepAlive => u.keepAlive /\ ~doShutdown
  BY <1>6, BuildFacts
<1> HIDE DEF h, d
<1>8. h \in Sockets
  BY <1>7 DEF Kept
<1>9. d = [h EXCEPT !.interest = {"out"}, !.writeBuffer = b, !.onWrite = "FullWriteBuffer"]
  <2> DEFINE w == SetWriteSocket(h)
  <2>1. w = [h EXCEPT !.interest = {"out"}]
    BY DEF Polls, SetWriteSocket, LinuxPollSetWriteSocket
  <2>2. w.writeBuffer = <<"header">>
    BY <1>7, <1>8, <2>1 DEF Sockets
  <2>3. d = [w EXCEPT !.writeBuffer = b, !.onWrite = "FullWriteBuffer"]
    BY <1>4, <2>2
  <2> HIDE DEF w, b
  <2> QED BY <2>1, <2>3
<1> HIDE DEF b
<1>10. d \in Sockets
  BY <1>3, <1>8, <1>9 DEF Sockets
<1>11. /\ d.headerSent /\ (d.chunked <=> h.chunked) /\ (d.stream <=> h.stream) /\ d.answer = h.answer /\ d.sent = h.sent
       /\ d.writeBuffer = b /\ (d.keepAlive <=> h.keepAlive)
  BY <1>7, <1>8, <1>9 DEF Sockets
<1>12. /\ ~u.chunked /\ ~u.stream /\ u.answer = page /\ u.sent = <<>>
  BY <1>1, <1>5 DEF Fresh, Sockets
<1>13. Kept(Paged(s), d)
  <2> DEFINE k == Paged(s)
  <2>1. k = [s EXCEPT !.interest = {"out"}, !.onWrite = "FullWriteBuffer"]
    BY DEF Paged
  <2> HIDE DEF k
  <2>2. /\ (d.open <=> k.open) /\ d.data = k.data /\ d.timers = k.timers
        /\ d.onRead = k.onRead /\ d.onWrite = k.onWrite /\ d.onRemoteHangup = k.onRemoteHangup
        /\ d.interest = k.interest /\ d.method = k.method /\ d.leaked = k.leaked
    <3>1. /\ (d.open <=> h.open) /\ d.data = h.data /\ d.timers = h.timers
          /\ d.onRead = h.onRead /\ d.onWrite = "FullWriteBuffer"
          /\ d.onRemoteHangup = h.onRemoteHangup
          /\ d.interest = {"out"} /\ d.method = h.method /\ d.leaked = h.leaked
      BY <1>8, <1>9 DEF Sockets
    <3>2. /\ (u.open <=> s.open) /\ u.data = s.data /\ u.timers = s.timers
          /\ u.onRead = s.onRead /\ u.onRemoteHangup = s.onRemoteHangup
          /\ u.method = s.method /\ u.leaked = s.leaked
      BY <1>1, <1>5 DEF Sockets
    <3>3. /\ (k.open <=> s.open) /\ k.data = s.data /\ k.timers = s.timers
          /\ k.onRead = s.onRead /\ k.onWrite = "FullWriteBuffer"
          /\ k.onRemoteHangup = s.onRemoteHangup
          /\ k.interest = {"out"} /\ k.method = s.method /\ k.leaked = s.leaked
      BY <1>1, <2>1 DEF Sockets
    <3> QED BY <1>7, <3>1, <3>2, <3>3 DEF Kept
  <2>3. /\ (d.fileOpen <=> k.fileOpen) /\ (d.closesFile <=> k.closesFile)
        /\ d.file = k.file /\ (d.eof <=> k.eof) /\ (d.emptied <=> k.emptied)
    <3>1. /\ (d.fileOpen <=> h.fileOpen) /\ (d.closesFile <=> h.closesFile)
          /\ d.file = h.file /\ (d.eof <=> h.eof) /\ (d.emptied <=> h.emptied)
      BY <1>8, <1>9 DEF Sockets
    <3>2. /\ (u.fileOpen <=> s.fileOpen) /\ (u.closesFile <=> s.closesFile)
          /\ u.file = s.file /\ (u.eof <=> s.eof) /\ (u.emptied <=> s.emptied)
      BY <1>1, <1>5 DEF Sockets
    <3>3. /\ (k.fileOpen <=> s.fileOpen) /\ (k.closesFile <=> s.closesFile)
          /\ k.file = s.file /\ (k.eof <=> s.eof) /\ (k.emptied <=> s.emptied)
      BY <1>1, <2>1 DEF Sockets
    <3> QED BY <1>7, <3>1, <3>2, <3>3 DEF Kept
  <2> QED BY <1>10, <2>2, <2>3 DEF k, Kept
<1>14. Draining(d)
  BY <1>2, <1>7, <1>10, <1>11, <1>12, <1>13, PageDrains DEF b
<1> QED BY <1>7, <1>11, <1>14 DEF d

(* A header alone: not modified, nothing to send, or asked for no more.    *)
LEMMA HeadersOnlyAnswers ==
  ASSUME Polls, doShutdown \in BOOLEAN, NEW s, Requesting(s), NEW t \in HeadersOnly(s),
         NEW g, ~doShutdown => g
  PROVE  Answered(t, g)
<1> DEFINE u == SetWriteSocket(s)
           h == BuildAnswerHeaders(u)
           a == <<>>
           d == [h EXCEPT !.onWrite = "FullWriteBuffer", !.answer = a]
<1>1. s \in Sockets /\ Serving(s) /\ Fresh(s) /\ s.timers = {}
  BY DEF Requesting, Serving
<1>2. a \in Seq(Token) /\ <<"header">> \in Seq(Token) /\ <<"header">> = <<"header">> \o a
  BY ConcatEmptySeq DEF Token
<1>3. u = [s EXCEPT !.interest = {"out"}]
  BY DEF Polls, SetWriteSocket, LinuxPollSetWriteSocket
<1>4. t \in FullWriteBuffer(d)
  BY DEF HeadersOnly
<1> HIDE DEF u
<1>5. u \in Sockets
  BY <1>1, <1>3 DEF Sockets
<1>6. /\ Kept(u, h) /\ h.headerSent /\ h.writeBuffer = <<"header">>
      /\ h.sent = u.sent /\ h.answer = u.answer
      /\ (h.stream <=> u.stream) /\ (h.chunked <=> u.chunked)
      /\ h.keepAlive => u.keepAlive /\ ~doShutdown
  BY <1>5, BuildFacts
<1>7. d = [h EXCEPT !.onWrite = "FullWriteBuffer", !.answer = a]
  OBVIOUS
<1> HIDE DEF h, d, a
<1>8. h \in Sockets
  BY <1>6 DEF Kept
<1>9. d \in Sockets
  BY <1>2, <1>7, <1>8 DEF Sockets
<1>10. /\ d.headerSent /\ (d.chunked <=> h.chunked) /\ (d.stream <=> h.stream) /\ d.answer = a /\ d.sent = h.sent
       /\ d.writeBuffer = h.writeBuffer /\ (d.keepAlive <=> h.keepAlive)
  BY <1>6, <1>7, <1>8 DEF Sockets
<1>11. ~u.chunked /\ ~u.stream /\ u.sent = <<>>
  BY <1>1, <1>3 DEF Fresh, Sockets
<1>12. Kept(Paged(s), d)
  <2> DEFINE k == Paged(s)
  <2>1. k = [s EXCEPT !.interest = {"out"}, !.onWrite = "FullWriteBuffer"]
    BY DEF Paged
  <2> HIDE DEF k
  <2>2. /\ (d.open <=> h.open) /\ d.data = h.data /\ d.timers = h.timers
        /\ d.onRead = h.onRead /\ d.onWrite = "FullWriteBuffer"
        /\ d.onRemoteHangup = h.onRemoteHangup
        /\ d.interest = h.interest /\ d.method = h.method /\ d.leaked = h.leaked
        /\ (d.fileOpen <=> h.fileOpen) /\ (d.closesFile <=> h.closesFile)
        /\ d.file = h.file /\ (d.eof <=> h.eof) /\ (d.emptied <=> h.emptied)
    BY <1>7, <1>8 DEF Sockets
  <2>3. /\ (u.open <=> s.open) /\ u.data = s.data /\ u.timers = s.timers
        /\ u.onRead = s.onRead /\ u.onRemoteHangup = s.onRemoteHangup
        /\ u.interest = {"out"} /\ u.method = s.method /\ u.leaked = s.leaked
        /\ (u.fileOpen <=> s.fileOpen) /\ (u.closesFile <=> s.closesFile)
        /\ u.file = s.file /\ (u.eof <=> s.eof) /\ (u.emptied <=> s.emptied)
    BY <1>1, <1>3 DEF Sockets
  <2>4. /\ (k.open <=> s.open) /\ k.data = s.data /\ k.timers = s.timers
        /\ k.onRead = s.onRead /\ k.onWrite = "FullWriteBuffer"
        /\ k.onRemoteHangup = s.onRemoteHangup
        /\ k.interest = {"out"} /\ k.method = s.method /\ k.leaked = s.leaked
        /\ (k.fileOpen <=> s.fileOpen) /\ (k.closesFile <=> s.closesFile)
        /\ k.file = s.file /\ (k.eof <=> s.eof) /\ (k.emptied <=> s.emptied)
    BY <1>1, <2>1 DEF Sockets
  <2>5. Kept(k, d)
    BY <1>6, <1>9, <2>2, <2>3, <2>4 DEF Kept
  <2> QED BY <2>5 DEF k
<1>13. Draining(d)
  <2>1. d.writeBuffer = <<"header">> \o a
    BY <1>2, <1>6, <1>10
  <2>2. ~d.chunked /\ ~d.stream /\ d.sent = <<>>
    BY <1>6, <1>10, <1>11
  <2>3. a = <<>> \/ Last(a) # "last"
    BY DEF a
  <2> QED BY <1>2, <1>6, <1>9, <1>10, <1>12, <2>1, <2>2, <2>3, PageDrains
<1>14. Answered(t, d.keepAlive)
  BY <1>4, <1>13, FullWriteBufferAnswers
<1>15. d.keepAlive => g
  BY <1>6, <1>10
<1> QED BY <1>14, <1>15, AnsweredWeakens

(* The file is opened and its first part sent.                             *)
LEMMA OpenFileAnswers ==
  ASSUME Polls, doShutdown \in BOOLEAN, NEW s, Requesting(s), s.method # "HEAD",
         NEW size \in Nat, size # 0, NEW t \in OpenFile(s, size),
         NEW g, ~doShutdown => g
  PROVE  Answered(t, g)
<1> DEFINE u == SetWriteSocket(s)
           a == Blocks(size)
           k == s.leaked \union (Unreleased(s) \intersect {"file"})
           d == [u EXCEPT !.leaked = @ \union (Unreleased(s) \intersect {"file"}),
                          !.fileOpen = TRUE, !.file = size,
                          !.eof = FALSE, !.closesFile = TRUE, !.onWrite = "StaticWrite",
                          !.answer = a]
           l == {}
           e == [u EXCEPT !.leaked = l, !.fileOpen = TRUE, !.file = size,
                          !.eof = FALSE, !.closesFile = TRUE, !.onWrite = "StaticWrite",
                          !.answer = a]
<1>1. s \in Sockets /\ Serving(s) /\ Fresh(s) /\ s.timers = {}
  BY DEF Requesting, Serving
<1>2. a \in Seq(Token) /\ l \in SUBSET {"file", "stream"}
  BY BlocksFacts
<1>3. u = [s EXCEPT !.interest = {"out"}]
  BY DEF Polls, SetWriteSocket, LinuxPollSetWriteSocket
<1>4. u \in Sockets /\ u.leaked = s.leaked /\ k = l
  <2>1. u \in Sockets /\ u.leaked = s.leaked
    BY <1>1, <1>3 DEF Sockets
  <2>2. Unreleased(s) \intersect {"file"} = {}
    BY <1>1 DEF Unreleased, Fresh
  <2>3. s.leaked = {}
    BY <1>1 DEF Serving
  <2> QED BY <2>1, <2>2, <2>3
<1>5. t \in StaticWrite(d)
  <2>1. d = [SetWriteSocket(s) EXCEPT
               !.leaked = @ \union (Unreleased(s) \intersect {"file"}),
               !.fileOpen = TRUE, !.file = size,
               !.eof = FALSE, !.closesFile = TRUE, !.onWrite = "StaticWrite",
               !.answer = Blocks(size)]
    OBVIOUS
  <2> HIDE DEF d
  <2> QED BY <2>1 DEF OpenFile
<1>6. d = e
  <2>1. d = [u EXCEPT !.leaked = k, !.fileOpen = TRUE, !.file = size,
                      !.eof = FALSE, !.closesFile = TRUE, !.onWrite = "StaticWrite",
                      !.answer = a]
    <3>1. u.leaked \union (Unreleased(s) \intersect {"file"}) = k
      BY <1>4
    <3> HIDE DEF u, a, k
    <3> QED BY <3>1
  <2> HIDE DEF u, a, k, l, d
  <2> QED BY <1>4, <2>1
<1>7. e = [u EXCEPT !.leaked = l, !.fileOpen = TRUE, !.file = size,
                    !.eof = FALSE, !.closesFile = TRUE, !.onWrite = "StaticWrite",
                    !.answer = a]
  OBVIOUS
<1>8. a = Blocks(size) /\ l = {} /\ ~(Deflated(e))
  <2>1. a = Blocks(size) /\ l = {}
    OBVIOUS
  <2>2. e.answer = a
    <3> HIDE DEF a, e
    <3> QED BY <1>4, <1>7 DEF Sockets
  <2> HIDE DEF e, u, a
  <2>3. Len(a) = size /\ \A i \in 1..size : a[i] = "data"
    BY <2>1, BlocksFacts
  <2>4. size \in 1..size
    OBVIOUS
  <2>5. Last(a) = "data"
    BY <2>3, <2>4 DEF Last
  <2> QED BY <2>1, <2>2, <2>5 DEF Deflated
<1> HIDE DEF u, a, d, e, l, k
<1>9. e \in Sockets
  BY <1>2, <1>4, <1>7, ZenonT(40) DEF Sockets
<1>10. /\ e.leaked = l /\ e.fileOpen /\ e.file = size /\ ~e.eof /\ e.closesFile
       /\ e.onWrite = "StaticWrite" /\ e.answer = a
       /\ (e.open <=> u.open) /\ e.data = u.data /\ e.onRead = u.onRead
       /\ e.onRemoteHangup = u.onRemoteHangup /\ e.timers = u.timers
       /\ e.interest = u.interest /\ e.method = u.method
       /\ (e.chunked <=> u.chunked) /\ (e.stream <=> u.stream)
       /\ (e.headerSent <=> u.headerSent) /\ (e.emptied <=> u.emptied)
       /\ e.sent = u.sent /\ e.writeBuffer = u.writeBuffer
  BY <1>4, <1>7, <1>9 DEF Sockets
<1>11. /\ (u.open <=> s.open) /\ u.data = s.data /\ u.onRead = s.onRead
       /\ u.onRemoteHangup = s.onRemoteHangup /\ u.timers = s.timers
       /\ u.interest = {"out"} /\ u.method = s.method
       /\ (u.chunked <=> s.chunked) /\ (u.stream <=> s.stream)
       /\ (u.headerSent <=> s.headerSent) /\ (u.emptied <=> s.emptied)
       /\ u.sent = s.sent /\ u.writeBuffer = s.writeBuffer
  BY <1>1, <1>3 DEF Sockets
<1>12. /\ e.sent = <<>> /\ e.writeBuffer = <<>> /\ ~e.headerSent /\ ~e.stream /\ ~e.chunked
       /\ ~e.emptied
  BY <1>1, <1>10, <1>11 DEF Fresh
<1>13. Lacks(e, size)
  <2>1. Out(e) = <<>> /\ Owed(e) = <<>>
    BY <1>12, ConcatEmptySeq DEF Out, Owed
  <2>2. Out(e) \o Blocks(size) = a
    BY <1>2, <1>8, <2>1, ConcatEmptySeq
  <2> QED BY <1>2, <1>8, <1>10, <1>12, <2>1, <2>2, ConcatEmptySeq DEF Lacks, Plain
<1>14. Serving(e)
  BY <1>1, <1>8, <1>9, <1>10, <1>11 DEF Serving, Sockets
<1>15. Fillable(e)
  BY <1>1, <1>8, <1>10, <1>11, <1>12, <1>13, <1>14 DEF Fillable
<1> QED BY <1>5, <1>6, <1>12, <1>15, StaticWriteAnswers

(* A request that fails is answered, too.                                  *)
LEMMA RequestingFails ==
  ASSUME Polls, doShutdown \in BOOLEAN, NEW s, Requesting(s), NEW g, ~doShutdown => g
  PROVE  Answered(Exception(s), g)
<1> DEFINE d == Exception(s)
<1>1. Draining(d) /\ (d.keepAlive => ~doShutdown)
  BY ExceptionDrains
<1> HIDE DEF d
<1>2. d.keepAlive => g
  BY <1>1
<1>3. Answered(d, g)
  BY <1>1, <1>2, AnsweredIntro
<1> QED BY <1>3 DEF d

(* The static content backend answers ...                                  *)
LEMMA ServeStaticAnswers ==
  ASSUME Polls, doShutdown \in BOOLEAN, NEW s, Requesting(s), NEW t \in ServeStatic(s),
         NEW g, ~doShutdown => g
  PROVE  Answered(t, g)
<1> DEFINE k == s.leaked \union (Unreleased(s) \intersect {"file"})
           d == [s EXCEPT !.leaked = @ \union (Unreleased(s) \intersect {"file"}),
                          !.fileOpen = FALSE]
           u == SetWriteSocket(d)
<1>1. s \in Sockets /\ Serving(s) /\ Fresh(s) /\ s.timers = {} /\ s.method # "none"
  BY DEF Requesting, Serving
<1>2. \/ t = Exception(u)
      \/ t \in HeadersOnly(s)
      \/ \E size \in FileSizes : s.method # "HEAD" /\ size # 0 /\ t \in OpenFile(s, size)
  BY DEF ServeStatic
<1>3. d = s
  <2>1. Unreleased(s) \intersect {"file"} = {}
    BY <1>1 DEF Unreleased, Fresh
  <2>2. k = s.leaked /\ s.fileOpen = FALSE
    BY <1>1, <2>1 DEF Serving, Fresh, Sockets
  <2>3. d = [s EXCEPT !.leaked = k, !.fileOpen = FALSE]
    OBVIOUS
  <2> HIDE DEF k, d
  <2> QED BY <1>1, <2>2, <2>3 DEF Sockets
<1>4. u = [s EXCEPT !.interest = {"out"}]
  BY <1>3 DEF Polls, SetWriteSocket, LinuxPollSetWriteSocket
<1> HIDE DEF d, u
<1>5. Requesting(u)
  <2>1. u \in Sockets
    BY <1>1, <1>4 DEF Sockets
  <2>2. Serving(u)
    BY <1>1, <1>4, <2>1 DEF Serving, Sockets
  <2>3. Fresh(u)
    BY <1>1, <1>4, <2>1 DEF Fresh, Sockets
  <2>4. u.timers = s.timers /\ u.method = s.method
    BY <1>1, <1>4, <2>1 DEF Sockets
  <2> QED BY <1>1, <2>2, <2>3, <2>4 DEF Requesting
<1>6. CASE t = Exception(u)
  BY <1>5, <1>6, RequestingFails
<1>7. CASE t \in HeadersOnly(s)
  BY <1>7, HeadersOnlyAnswers
<1>8. ASSUME NEW size \in FileSizes, s.method # "HEAD", size # 0, t \in OpenFile(s, size)
      PROVE  Answered(t, g)
  <2>1. size \in Nat
    BY BufferAssumption
  <2> QED BY <1>8, <2>1, OpenFileAnswers
<1> QED BY <1>2, <1>6, <1>7, <1>8

(* ... and so does the access check before it.                             *)
LEMMA ServeContentAnswers ==
  ASSUME Polls, doShutdown \in BOOLEAN, NEW s, Requesting(s), NEW t \in ServeContent(s),
         NEW g, ~doShutdown => g
  PROVE  Answered(t, g)
BY RequestingFails, ServeStaticAnswers DEF ServeContent, AccessFails

(* A request that was parsed.                                              *)
LEMMA RequestType ==
  ASSUME NEW v \in Sockets, NEW m \in {"GET", "HEAD"}, NEW k \in BOOLEAN, NEW d \in BOOLEAN
  PROVE  [v EXCEPT !.method = m, !.keepAlive = k, !.deflates = d] \in Sockets
BY DEF Sockets

(* A request that was read is answered.                                    *)
LEMMA RequestedAnswers ==
  ASSUME Polls, doShutdown \in BOOLEAN, NEW s, Reading(s),
         NEW method \in {"GET", "HEAD"}, NEW keepAlive \in BOOLEAN, NEW deflates \in BOOLEAN,
         NEW t \in Requested(s, method, keepAlive, deflates),
         NEW g, ~doShutdown => g
  PROVE  Answered(t, g)
<1> DEFINE v == Unscheduled(s)
           u == [v EXCEPT
             !.method = IF @ = "none" THEN method ELSE @,
             !.keepAlive = @ \/ keepAlive, !.deflates = deflates,
             !.headerSent = FALSE, !.chunked = FALSE]
           w == [v EXCEPT
             !.method = method, !.keepAlive = keepAlive, !.deflates = deflates,
             !.headerSent = FALSE, !.chunked = FALSE]
           r == SetSocket(u)
<1>1. s \in Sockets /\ Serving(s) /\ Fresh(s) /\ s.timers \subseteq {"request"}
      /\ s.method = "none" /\ ~s.keepAlive
  BY DEF Reading, Serving
<1>2. v = [s EXCEPT !.timers = s.timers \ {"request"}] /\ s.timers \ {"request"} = {}
  BY <1>1 DEF Unscheduled
<1>3. v = [s EXCEPT !.timers = {}]
  BY <1>2
<1>4. t = Exception(r) \/ t \in ServeContent(r)
  <2>1. r = SetSocket([Unscheduled(s) EXCEPT
             !.method = IF @ = "none" THEN method ELSE @,
             !.keepAlive = @ \/ keepAlive, !.deflates = deflates,
             !.headerSent = FALSE, !.chunked = FALSE])
    OBVIOUS
  <2> HIDE DEF r
  <2> QED BY <2>1 DEF Requested
<1> HIDE DEF v
<1>5. /\ v \in Sockets /\ v.timers = {} /\ v.method = "none" /\ ~v.keepAlive
      /\ Serving(v) /\ Fresh(v)
  <2>1. v \in Sockets
    BY <1>1, <1>3 DEF Sockets
  <2>2. v.timers = {} /\ v.method = "none" /\ ~v.keepAlive
    BY <1>1, <1>3 DEF Sockets
  <2>3. Serving(v)
    BY <1>1, <1>3, <2>1 DEF Serving, Sockets
  <2>4. Fresh(v)
    BY <1>1, <1>3, <2>1 DEF Fresh, Sockets
  <2> QED BY <2>1, <2>2, <2>3, <2>4
<1>6. u = w
  <2>1. (v.keepAlive \/ keepAlive) = keepAlive
        /\ (IF v.method = "none" THEN method ELSE v.method) = method
    BY <1>5
  <2> QED BY <2>1
<1>7. w = [v EXCEPT
             !.method = method, !.keepAlive = keepAlive, !.deflates = deflates,
             !.headerSent = FALSE, !.chunked = FALSE]
  OBVIOUS
<1>8. r = [u EXCEPT !.interest = {}]
  BY DEF Polls, SetSocket, LinuxPollSetSocket
<1> HIDE DEF u, w, r
<1>9. w \in Sockets
  <2>1. v \in Sockets /\ method \in {"none", "GET", "HEAD"}
    BY <1>5
  <2> DEFINE x == [v EXCEPT !.headerSent = FALSE, !.chunked = FALSE]
  <2>2. x \in Sockets
    BY <2>1 DEF Sockets
  <2>3. w = [x EXCEPT !.method = method, !.keepAlive = keepAlive, !.deflates = deflates]
    BY <1>7
  <2> HIDE DEF x
  <2> QED BY <2>2, <2>3, RequestType
<1>10. Serving(w) /\ Fresh(w) /\ w.timers = {} /\ w.method = method
  <2>1. Serving(w)
    BY <1>5, <1>7, <1>9 DEF Serving, Sockets
  <2>2. Fresh(w)
    BY <1>5, <1>7, <1>9 DEF Fresh, Sockets
  <2>3. w.timers = {} /\ w.method = method
    BY <1>5, <1>7, <1>9 DEF Sockets
  <2> QED BY <2>1, <2>2, <2>3
<1>11. r \in Sockets /\ r = [w EXCEPT !.interest = {}]
  <2>1. r = [w EXCEPT !.interest = {}]
    BY <1>6, <1>8
  <2> QED BY <1>9, <2>1 DEF Sockets
<1>12. Requesting(r)
  <2>1. Serving(r)
    BY <1>9, <1>10, <1>11 DEF Serving, Sockets
  <2>2. Fresh(r)
    BY <1>9, <1>10, <1>11 DEF Fresh, Sockets
  <2>3. r.timers = {} /\ r.method = method
    BY <1>9, <1>10, <1>11 DEF Sockets
  <2> QED BY <2>1, <2>2, <2>3 DEF Requesting
<1> QED BY <1>4, <1>12, RequestingFails, ServeContentAnswers

(* What the handler that reads leaves.                                     *)
Continued(t, g) ==
  \/ Reading(t) /\ t.timers = {"request"}
  \/ Answered(t, g)

(* The handler that reads goes on reading, or the request is answered.     *)
LEMMA ReadHeaderDataLeaves ==
  ASSUME Polls, doShutdown \in BOOLEAN, NEW s, Reading(s), NEW t \in ReadHeaderData(s),
         NEW g, ~doShutdown => g
  PROVE  Continued(t, g)
<1>1. \/ t = RemoteHangup(s) \/ t = Scheduled(s)
      \/ \E method \in {"GET", "HEAD"}, keepAlive \in BOOLEAN, deflates \in BOOLEAN :
           t \in Requested(s, method, keepAlive, deflates)
  BY DEF ReadHeaderData
<1>2. s \in Sockets /\ Serving(s) /\ s.timers \subseteq {"request"}
  BY DEF Reading, Serving
<1>3. CASE t = RemoteHangup(s)
  BY <1>2, <1>3, FreshFits, HangupCloses, ClosedAnswers DEF Reading, Continued
<1>4. CASE t = Scheduled(s)
  <2>1. t = [s EXCEPT !.timers = {"request"}]
    <3>1. s.timers \union {"request"} = {"request"}
      BY <1>2
    <3> QED BY <1>4, <3>1 DEF Scheduled
  <2>2. t \in Sockets
    BY <1>2, <2>1 DEF Sockets
  <2>3. Serving(t)
    BY <1>2, <2>1, <2>2 DEF Serving, Sockets
  <2>4. Fresh(t)
    BY <1>2, <2>1, <2>2 DEF Reading, Fresh, Sockets
  <2>5. t.interest = s.interest /\ t.timers = {"request"}
        /\ t.method = s.method /\ (t.keepAlive <=> s.keepAlive)
    BY <1>2, <2>1, <2>2 DEF Sockets
  <2> QED BY <2>3, <2>4, <2>5 DEF Reading, Continued
<1>5. ASSUME NEW method \in {"GET", "HEAD"}, NEW keepAlive \in BOOLEAN, NEW deflates \in BOOLEAN,
             t \in Requested(s, method, keepAlive, deflates)
      PROVE  Continued(t, g)
  BY <1>5, RequestedAnswers DEF Continued
<1> QED BY <1>1, <1>3, <1>4, <1>5

(* A connection begins by reading ...                                      *)
LEMMA InitializeLeaves ==
  ASSUME Polls, doShutdown \in BOOLEAN, NEW t \in InitializeConnection,
         NEW g, ~doShutdown => g
  PROVE  Continued(t, g)
<1> DEFINE n == [ClosedSocket EXCEPT !.open = TRUE]
           s == AddReadSocket(n)
           i == n.interest \union {"in"}
<1>1. t \in ReadHeaderData(s)
  BY DEF InitializeConnection
<1>2. n \in Sockets /\ n = [ClosedSocket EXCEPT !.open = TRUE]
  BY ClosedType DEF Sockets
<1>3. s = [n EXCEPT !.interest = i]
  BY DEF AddReadSocket
<1>4. i = {"in"}
  BY DEF ClosedSocket
<1> HIDE DEF s, i
<1>5. s \in Sockets
  <2>1. n \in Sockets
    BY <1>2
  <2> HIDE DEF n
  <2>2. s = [n EXCEPT !.interest = {"in"}]
    BY <1>3, <1>4
  <2> QED BY <2>1, <2>2 DEF Sockets
<1>6. Reading(s)
  <2>1. Serving(n) /\ Fresh(n) /\ n.timers = {} /\ n.method = "none" /\ ~n.keepAlive
    BY <1>2 DEF Serving, Fresh, ClosedSocket
  <2> HIDE DEF n
  <2>2. Serving(s)
    BY <1>2, <1>3, <1>4, <1>5, <2>1 DEF Serving, Sockets
  <2>3. Fresh(s)
    BY <1>2, <1>3, <1>4, <1>5, <2>1 DEF Fresh, Sockets
  <2>4. s.timers = {} /\ s.method = "none" /\ ~s.keepAlive /\ s.interest = {"in"}
    BY <1>2, <1>3, <1>4, <1>5, <2>1 DEF Sockets
  <2> QED BY <2>2, <2>3, <2>4 DEF Reading
<1> QED BY <1>1, <1>6, ReadHeaderDataLeaves

(* ... and goes on by reading.                                             *)
LEMMA KeepAliveLeaves ==
  ASSUME Polls, doShutdown \in BOOLEAN, NEW s, Waiting(s),
         NEW t \in InitializeKeepAliveConnection(s),
         NEW g, ~doShutdown => g
  PROVE  Continued(t, g)
<1> DEFINE e == <<>>
           u == [s EXCEPT
             !.timers = @ \ {"keepAlive"}, !.data = "request", !.onRead = "ReadHeaderData",
             !.onRemoteHangup = "OnRemoteHangup", !.answer = e, !.emptied = FALSE, !.sent = e]
           v == [s EXCEPT
             !.timers = {}, !.data = "request", !.onRead = "ReadHeaderData",
             !.onRemoteHangup = "OnRemoteHangup", !.answer = e, !.emptied = FALSE, !.sent = e]
<1>1. t \in ReadHeaderData(u)
  BY DEF InitializeKeepAliveConnection
<1>2. s \in Sockets /\ s.timers \ {"keepAlive"} = {}
  BY DEF Waiting
<1>3. e \in Seq(Token)
  OBVIOUS
<1>4. u = v
  <2> HIDE DEF e
  <2> QED BY <1>2
<1>5. v = [s EXCEPT
             !.timers = {}, !.data = "request", !.onRead = "ReadHeaderData",
             !.onRemoteHangup = "OnRemoteHangup", !.answer = e, !.emptied = FALSE, !.sent = e]
  OBVIOUS
<1> HIDE DEF u, v, e
<1>6. v \in Sockets
  BY <1>2, <1>3, <1>5 DEF Sockets
<1>7. /\ v.timers = {} /\ v.data = "request" /\ v.onRead = "ReadHeaderData"
      /\ v.onRemoteHangup = "OnRemoteHangup" /\ v.answer = e /\ v.sent = e /\ ~v.emptied
      /\ (v.open <=> s.open) /\ v.leaked = s.leaked /\ (v.fileOpen <=> s.fileOpen)
      /\ (v.closesFile <=> s.closesFile) /\ v.writeBuffer = s.writeBuffer
      /\ (v.exception <=> s.exception) /\ (v.headerSent <=> s.headerSent)
      /\ (v.stream <=> s.stream) /\ (v.chunked <=> s.chunked) /\ v.file = s.file
      /\ v.interest = s.interest /\ v.method = s.method /\ (v.keepAlive <=> s.keepAlive)
  BY <1>2, <1>5, <1>6 DEF Sockets
<1>8. Reading(v)
  <2>1. Serving(v)
    BY <1>6, <1>7 DEF Waiting, Serving, Sockets
  <2>2. Fresh(v)
    BY <1>7 DEF Waiting, Fresh, e
  <2> QED BY <1>7, <2>1, <2>2 DEF Waiting, Reading
<1> QED BY <1>1, <1>4, <1>8, ReadHeaderDataLeaves

-----------------------------------------------------------------------------
(* The invariant.                                                          *)

Settled(s) ==
  \/ Closed(s)
  \/ Reading(s) /\ s.timers = {"request"}
  \/ Waiting(s)
  \/ Filling(s)
  \/ Draining(s)

(* The handlers still to be called are those of an open socket, which is   *)
(* registered for what they handle.                                        *)
PendingMatches ==
  pending # {} =>
    /\ pc = "serving" /\ current \in Client /\ client[current].open
    /\ "read" \in pending => "in" \in client[current].interest
    /\ "write" \in pending => "out" \in client[current].interest

StoppedIdle == pc = "stopped" => \A c \in Client : client[c].timers = {}

IInv ==
  /\ client \in [Client -> Sockets]
  /\ current \in Client \union {NoClient}
  /\ pending \in SUBSET Handlers
  /\ doShutdown \in BOOLEAN
  /\ pc \in {"serving", "draining", "stopped"}
  /\ \A c \in Client : Settled(client[c])
  /\ PendingMatches
  /\ StoppedIdle

(* While the process is to stop, an answer that begins grants nothing.     *)
Refused(t) ==
  \/ Closed(t)
  \/ Reading(t) /\ t.timers = {"request"}
  \/ /\ Filling(t) \/ Draining(t)
     /\ ~t.keepAlive

(* What handlers leave is settled.                                         *)
LEMMA ContinuedSettles ==
  ASSUME NEW t, NEW g, Continued(t, g)
  PROVE  Settled(t) /\ (~g => Refused(t))
BY DEF Continued, Answered, Settled, Refused

(* A settled socket is a socket.                                           *)
LEMMA SettledType ==
  ASSUME NEW s, Settled(s)
  PROVE  s \in Sockets
BY DEF Settled, Closed, Reading, Waiting, Filling, Draining, Ended, Answering, Serving

(* What an open socket can be told from.                                   *)
LEMMA SettledOpen ==
  ASSUME NEW s, Settled(s), s.open
  PROVE  /\ ~s.headerSent =>
              \/ Reading(s) /\ s.onRead = "ReadHeaderData"
              \/ Waiting(s) /\ s.onRead = "InitializeKeepAliveConnection"
         /\ s.headerSent =>
              \/ Filling(s) /\ s.onWrite = "StaticWrite"
              \/ Draining(s) /\ s.onWrite = "FullWriteBuffer"
         /\ s.interest = IF s.headerSent THEN {"out"} ELSE {"in"}
<1>1. ~Closed(s)
  BY DEF Closed
<1>2. CASE Reading(s) \/ Waiting(s)
  BY <1>2 DEF Reading, Waiting, Serving, Fresh
<1>3. CASE Filling(s) \/ Draining(s)
  BY <1>3 DEF Filling, Draining, Ended, Answering
<1> QED BY <1>1, <1>2, <1>3 DEF Settled

(* The handler of a listening socket.                                      *)
LEMMA InitializeSettles ==
  ASSUME Polls, doShutdown \in BOOLEAN, NEW t \in InitializeConnection
  PROVE  Settled(t) /\ (doShutdown => Refused(t))
<1> DEFINE g == ~doShutdown
<1>1. (~doShutdown => g) /\ (doShutdown => ~g)
  OBVIOUS
<1> HIDE DEF g
<1>2. Continued(t, g)
  BY <1>1, InitializeLeaves
<1> QED BY <1>1, <1>2, ContinuedSettles

(* The handlers that read.                                                 *)
LEMMA ReadSettles ==
  ASSUME Polls, doShutdown \in BOOLEAN, NEW s, Settled(s), s.open, "in" \in s.interest, NEW t,
         \/ s.onRead = "ReadHeaderData" /\ t \in ReadHeaderData(s)
         \/ s.onRead = "InitializeKeepAliveConnection" /\ t \in InitializeKeepAliveConnection(s)
  PROVE  Settled(t) /\ (doShutdown => Refused(t))
<1> DEFINE g == ~doShutdown
<1>1. (~doShutdown => g) /\ (doShutdown => ~g)
  OBVIOUS
<1> HIDE DEF g
<1>2. ~s.headerSent
  BY SettledOpen
<1>3. \/ Reading(s) /\ t \in ReadHeaderData(s)
      \/ Waiting(s) /\ t \in InitializeKeepAliveConnection(s)
  BY <1>2, SettledOpen
<1>4. Continued(t, g)
  BY <1>1, <1>3, ReadHeaderDataLeaves, KeepAliveLeaves
<1> QED BY <1>1, <1>4, ContinuedSettles

(* An answer is settled.                                                   *)
LEMMA AnsweredSettles ==
  ASSUME NEW t, NEW g, Answered(t, g)
  PROVE  Settled(t)
BY DEF Answered, Settled

(* The handlers that write are called for an answer only.                  *)
LEMMA WriteSettles ==
  ASSUME Polls, doShutdown \in BOOLEAN, NEW s, Settled(s), s.open, "out" \in s.interest, NEW t,
         \/ s.onWrite = "FullWriteBuffer" /\ t \in FullWriteBuffer(s)
         \/ s.onWrite = "StaticWrite" /\ t \in StaticWrite(s)
  PROVE  Settled(t) /\ s.headerSent
<1>1. s.headerSent
  BY SettledOpen
<1>2. \/ Filling(s) /\ t \in StaticWrite(s)
      \/ Draining(s) /\ t \in FullWriteBuffer(s)
  BY <1>1, SettledOpen
<1>3. CASE Filling(s) /\ t \in StaticWrite(s)
  <2> DEFINE g == s.keepAlive
  <2>1. s.keepAlive /\ (s.headerSent \/ ~doShutdown) => g
    OBVIOUS
  <2> HIDE DEF g
  <2>2. Answered(t, g)
    BY <1>3, <2>1, FillingIsFillable, StaticWriteAnswers
  <2> QED BY <1>1, <2>2, AnsweredSettles
<1>4. CASE Draining(s) /\ t \in FullWriteBuffer(s)
  BY <1>1, <1>4, FullWriteBufferAnswers, AnsweredSettles
<1> QED BY <1>2, <1>3, <1>4

(* A closed socket is settled, and grants nothing.                         *)
LEMMA ClosedSettles ==
  ASSUME NEW t, Closed(t)
  PROVE  Settled(t) /\ Refused(t) /\ ~t.open /\ t.timers = {}
BY DEF Settled, Refused, Closed

(* The handlers of a hangup close the connection.                          *)
LEMMA HangupSettles ==
  ASSUME NEW s, Settled(s), s.open
  PROVE  Closed(RemoteHangup(s))
<1>1. CASE Waiting(s)
  BY <1>1, KeepAliveHangupCloses
<1>2. CASE Reading(s)
  BY <1>2, FreshFits, HangupCloses DEF Reading
<1>3. CASE Filling(s) \/ Draining(s)
  <2>1. StreamFits(s)
    BY <1>3, AnswerFits DEF Draining
  <2>2. Serving(s) /\ s.timers = {}
    BY <1>3 DEF Filling, Draining, Ended, Answering
  <2> QED BY <2>1, <2>2, HangupCloses
<1>4. ~Closed(s)
  BY DEF Closed
<1> QED BY <1>1, <1>2, <1>3, <1>4 DEF Settled

(* So do the callbacks of the scheduler.                                   *)
LEMMA TimeoutSettles ==
  ASSUME NEW s, Settled(s), NEW timer \in s.timers
  PROVE  Closed(OnTimeout(s, timer))
<1>1. ~Closed(s)
  BY DEF Closed
<1>2. ~Filling(s) /\ ~Draining(s)
  BY DEF Filling, Draining, Ended, Answering
<1>3. Reading(s) \/ Waiting(s)
  BY <1>1, <1>2 DEF Settled
<1> QED BY <1>3, TimeoutCloses

-----------------------------------------------------------------------------
(* The steps.                                                              *)

(* A step changes one socket at most.                                      *)
LEMMA OneSettles ==
  ASSUME client \in [Client -> Sockets], \A c \in Client : Settled(client[c]),
         NEW c \in Client, NEW t, Settled(t), client' = [client EXCEPT ![c] = t]
  PROVE  /\ client' \in [Client -> Sockets] /\ \A d \in Client : Settled(client'[d])
         /\ client'[c] = t /\ \A d \in Client : d # c => client'[d] = client[d]
<1>1. t \in Sockets
  BY SettledType
<1>2. client' \in [Client -> Sockets]
  BY <1>1
<1>3. client'[c] = t /\ \A d \in Client : d # c => client'[d] = client[d]
  OBVIOUS
<1> QED BY <1>2, <1>3

(* A handler that was called for an event leaves none that does not match. *)
LEMMA CalledSettles ==
  ASSUME IInv, NEW handler \in pending, NEW t, Settled(t), Called(handler, t),
         t.open => pending \ {handler} \subseteq {"hangup"}
  PROVE  /\ IInv' /\ UNCHANGED doShutdown
         /\ client' = [client EXCEPT ![current] = t]
         /\ current \in Client
<1>1. /\ client \in [Client -> Sockets] /\ current \in Client /\ pc = "serving"
      /\ \A c \in Client : Settled(client[c])
  BY DEF IInv, PendingMatches
<1>2. /\ client' = [client EXCEPT ![current] = t]
      /\ pending' = IF t.open THEN pending \ {handler} ELSE {}
      /\ current' = IF pending' = {} THEN NoClient ELSE current
      /\ doShutdown' = doShutdown /\ pc' = pc
  BY DEF Called
<1>3. /\ client' \in [Client -> Sockets] /\ \A d \in Client : Settled(client'[d])
      /\ client'[current] = t
  BY <1>1, <1>2, OneSettles
<1>4. /\ current' \in Client \union {NoClient} /\ pending' \in SUBSET Handlers
      /\ doShutdown' \in BOOLEAN /\ pc' \in {"serving", "draining", "stopped"}
  BY <1>1, <1>2 DEF IInv
<1>5. PendingMatches'
  <2>1. CASE t.open
    <3>1. pending' \subseteq {"hangup"} /\ (pending' # {} => current' = current)
      BY <1>2, <2>1
    <3> QED BY <1>1, <1>2, <1>3, <2>1, <3>1 DEF PendingMatches
  <2>2. CASE ~t.open
    BY <1>2, <2>2 DEF PendingMatches
  <2> QED BY <2>1, <2>2
<1>6. StoppedIdle'
  BY <1>1, <1>2 DEF StoppedIdle
<1> QED BY <1>1, <1>2, <1>3, <1>4, <1>5, <1>6 DEF IInv

(* One step preserves the invariant, and what it makes of a connection     *)
(* whose answer has not begun is not granted while the process is to stop. *)
Denied(c) ==
  doShutdown /\ ~client[c].headerSent /\ client'[c] # client[c] => Refused(client'[c])

(* A connection is accepted.                                               *)
LEMMA AcceptSteps ==
  ASSUME Polls, IInv, NEW c \in Client, Accept(c)
  PROVE  IInv' /\ \A d \in Client : Denied(d)
<1>1. PICK t \in InitializeConnection : client' = [client EXCEPT ![c] = t]
  BY DEF Accept
<1>2. /\ pending = {} /\ pc = "serving" /\ pending' = pending /\ current' = current
      /\ doShutdown' = doShutdown /\ pc' = pc
  BY DEF Accept, Idle
<1>3. Settled(t) /\ (doShutdown => Refused(t))
  BY InitializeSettles DEF IInv
<1>4. /\ client' \in [Client -> Sockets] /\ \A d \in Client : Settled(client'[d])
      /\ client'[c] = t /\ \A d \in Client : d # c => client'[d] = client[d]
  BY <1>1, <1>3, OneSettles DEF IInv
<1>5. IInv'
  BY <1>2, <1>4 DEF IInv, PendingMatches, StoppedIdle
<1>6. \A d \in Client : Denied(d)
  BY <1>3, <1>4 DEF Denied
<1> QED BY <1>5, <1>6

(* An event is reported.                                                   *)
LEMMA ReadySteps ==
  ASSUME IInv, NEW c \in Client, Ready(c)
  PROVE  IInv' /\ \A d \in Client : Denied(d)
<1>1. /\ pc = "serving" /\ client[c].open /\ current' = c
      /\ pending' \in SUBSET Handlers
      /\ "read" \in pending' => "in" \in client[c].interest
      /\ "write" \in pending' => "out" \in client[c].interest
      /\ client' = client /\ doShutdown' = doShutdown /\ pc' = pc
  BY DEF Ready, Idle
<1>2. PendingMatches' /\ StoppedIdle'
  BY <1>1 DEF PendingMatches, StoppedIdle
<1>3. IInv'
  BY <1>1, <1>2 DEF IInv
<1>4. \A d \in Client : Denied(d)
  BY <1>1 DEF Denied
<1> QED BY <1>3, <1>4

(* A handler that reads is called.                                         *)
LEMMA ReadSteps ==
  ASSUME Polls, IInv, CallRead
  PROVE  IInv' /\ \A d \in Client : Denied(d)
<1> DEFINE s == client[current]
<1>1. /\ "read" \in pending /\ current \in Client /\ s.open /\ Settled(s)
      /\ "in" \in s.interest /\ doShutdown \in BOOLEAN
      /\ "write" \in pending => "out" \in s.interest
      /\ pending \subseteq Handlers
  BY DEF CallRead, IInv, PendingMatches
<1>2. PICK t : /\ Called("read", t)
               /\ \/ s.onRead = "ReadHeaderData" /\ t \in ReadHeaderData(s)
                  \/ s.onRead = "InitializeKeepAliveConnection" /\ t \in InitializeKeepAliveConnection(s)
  BY DEF CallRead
<1>3. Settled(t) /\ (doShutdown => Refused(t))
  BY <1>1, <1>2, ReadSettles
<1>4. pending \ {"read"} \subseteq {"hangup"}
  <2>1. "write" \notin pending
    BY <1>1, SettledOpen
  <2> QED BY <1>1, <2>1 DEF Handlers
<1>5. IInv' /\ client' = [client EXCEPT ![current] = t]
  BY <1>1, <1>2, <1>3, <1>4, CalledSettles
<1>6. \A d \in Client : Denied(d)
  <2>1. client'[current] = t /\ \A d \in Client : d # current => client'[d] = client[d]
    BY <1>1, <1>3, <1>5, OneSettles DEF IInv
  <2> QED BY <1>3, <2>1 DEF Denied
<1> QED BY <1>5, <1>6

(* A handler that writes is called: the answer has begun before.           *)
LEMMA WriteSteps ==
  ASSUME Polls, IInv, CallWrite
  PROVE  IInv' /\ \A d \in Client : Denied(d)
<1> DEFINE s == client[current]
<1>1. /\ "write" \in pending /\ "read" \notin pending /\ current \in Client /\ s.open /\ Settled(s)
      /\ "out" \in s.interest /\ doShutdown \in BOOLEAN
      /\ pending \subseteq Handlers
  BY DEF CallWrite, IInv, PendingMatches
<1>2. PICK t : /\ Called("write", t)
               /\ \/ s.onWrite = "FullWriteBuffer" /\ t \in FullWriteBuffer(s)
                  \/ s.onWrite = "StaticWrite" /\ t \in StaticWrite(s)
  BY DEF CallWrite
<1>3. Settled(t) /\ s.headerSent
  BY <1>1, <1>2, WriteSettles
<1>4. pending \ {"write"} \subseteq {"hangup"}
  BY <1>1 DEF Handlers
<1>5. IInv' /\ client' = [client EXCEPT ![current] = t]
  BY <1>1, <1>2, <1>3, <1>4, CalledSettles
<1>6. \A d \in Client : Denied(d)
  <2>1. \A d \in Client : d # current => client'[d] = client[d]
    BY <1>1, <1>3, <1>5, OneSettles DEF IInv
  <2> QED BY <1>3, <2>1 DEF Denied
<1> QED BY <1>5, <1>6

(* A handler of a hangup is called.                                        *)
LEMMA HangupSteps ==
  ASSUME IInv, CallRemoteHangup
  PROVE  IInv' /\ \A d \in Client : Denied(d)
<1> DEFINE t == RemoteHangup(client[current])
<1>1. /\ "hangup" \in pending /\ current \in Client /\ client[current].open
      /\ Settled(client[current]) /\ Called("hangup", t)
  BY DEF CallRemoteHangup, IInv, PendingMatches
<1>2. Settled(t) /\ Refused(t) /\ ~t.open
  BY <1>1, HangupSettles, ClosedSettles
<1> HIDE DEF t
<1>3. IInv' /\ client' = [client EXCEPT ![current] = t]
  BY <1>1, <1>2, CalledSettles
<1>4. \A d \in Client : Denied(d)
  <2>1. client'[current] = t /\ \A d \in Client : d # current => client'[d] = client[d]
    BY <1>1, <1>2, <1>3, OneSettles DEF IInv
  <2> QED BY <1>2, <2>1 DEF Denied
<1> QED BY <1>3, <1>4

(* A timer expires.                                                        *)
LEMMA ExpireSteps ==
  ASSUME IInv, NEW c \in Client, Expire(c)
  PROVE  IInv' /\ \A d \in Client : Denied(d)
<1>1. PICK timer \in client[c].timers : client' = [client EXCEPT ![c] = OnTimeout(client[c], timer)]
  BY DEF Expire, IInv
<1> DEFINE t == OnTimeout(client[c], timer)
<1>2. /\ pending = {} /\ pc # "stopped" /\ pending' = pending /\ current' = current
      /\ doShutdown' = doShutdown /\ pc' = pc
  BY DEF Expire
<1>3. Settled(t) /\ Refused(t) /\ t.timers = {}
  BY TimeoutSettles, ClosedSettles DEF IInv
<1>4. client' = [client EXCEPT ![c] = t]
  BY <1>1
<1> HIDE DEF t
<1>5. /\ client' \in [Client -> Sockets] /\ \A d \in Client : Settled(client'[d])
      /\ client'[c] = t /\ \A d \in Client : d # c => client'[d] = client[d]
  BY <1>3, <1>4, OneSettles DEF IInv
<1>6. IInv'
  BY <1>2, <1>5 DEF IInv, PendingMatches, StoppedIdle
<1>7. \A d \in Client : Denied(d)
  BY <1>3, <1>5 DEF Denied
<1> QED BY <1>6, <1>7

(* Steps that leave the connections alone.                                 *)
LEMMA OtherSteps ==
  ASSUME IInv, Signal \/ LeaveLoop \/ Stop \/ UNCHANGED vars
  PROVE  IInv' /\ \A d \in Client : Denied(d)
<1>1. client' = client
  BY DEF Signal, LeaveLoop, Stop, vars
<1>2. \A d \in Client : Denied(d)
  BY <1>1 DEF Denied
<1>3. client' \in [Client -> Sockets] /\ \A c \in Client : Settled(client'[c])
  BY <1>1 DEF IInv
<1>4. /\ pending' = pending /\ current' = current
      /\ doShutdown' \in BOOLEAN /\ pc' \in {"serving", "draining", "stopped"}
      /\ pc' # pc => pending = {}
      /\ pc' = "stopped" => \A c \in Client : client[c].timers = {}
  BY DEF Signal, LeaveLoop, Idle, Stop, vars, IInv, PendingMatches, StoppedIdle
<1>5. PendingMatches' /\ StoppedIdle'
  BY <1>1, <1>4 DEF IInv, PendingMatches, StoppedIdle
<1>6. IInv'
  BY <1>3, <1>4, <1>5 DEF IInv
<1> QED BY <1>2, <1>6

(* At first every socket is closed.                                        *)
LEMMA StartsSettled ==
  ASSUME Init
  PROVE  IInv
<1>1. ClosedSocket \in Sockets /\ Settled(ClosedSocket) /\ ClosedSocket.timers = {}
  BY ClosedType, ClosedSettles
<1> QED BY <1>1 DEF Init, IInv, PendingMatches, StoppedIdle

(* Every step.                                                             *)
LEMMA Steps ==
  ASSUME Polls, IInv, [Next]_vars
  PROVE  IInv' /\ \A c \in Client : Denied(c)
<1>1. ASSUME NEW c \in Client, Accept(c) \/ Ready(c) \/ Expire(c)
      PROVE  IInv' /\ \A d \in Client : Denied(d)
  BY <1>1, AcceptSteps, ReadySteps, ExpireSteps
<1>2. CASE CallRead \/ CallWrite \/ CallRemoteHangup
  BY <1>2, ReadSteps, WriteSteps, HangupSteps
<1>3. CASE Signal \/ LeaveLoop \/ Stop \/ UNCHANGED vars
  BY <1>3, OtherSteps
<1> QED BY <1>1, <1>2, <1>3 DEF Next

(* Every socket is settled at any time, the handlers still to be called    *)
(* are those of an open socket registered for them, and when the process   *)
(* has stopped no timer is armed.                                          *)
THEOREM Inductive ==
  ASSUME Polls
  PROVE  Spec => []IInv
<1>1. IInv /\ [Next]_vars => IInv'
  BY Steps
<1> QED BY <1>1, StartsSettled, PTL DEF Spec

-----------------------------------------------------------------------------
(* What follows.                                                           *)

(* The scheduler holds the pointer of no closed socket, and that of an     *)
(* open one at most once (TimersMatch).                                    *)
THEOREM TimersCorrect ==
  ASSUME Polls
  PROVE  Spec => []TimersMatch
<1>1. ASSUME NEW s, Settled(s)
      PROVE  /\ ~s.open => s.timers = {}
             /\ s.open /\ s.data = "event" => s.timers = {"keepAlive"}
             /\ s.open /\ s.data = "request" => s.timers \subseteq {"request"}
             /\ s.open /\ s.headerSent => s.timers = {}
  <2>1. CASE Closed(s)
    BY <2>1 DEF Closed
  <2>2. CASE Reading(s)
    BY <2>2 DEF Reading, Serving, Fresh
  <2>3. CASE Waiting(s)
    BY <2>3 DEF Waiting
  <2>4. CASE Filling(s) \/ Draining(s)
    BY <2>4 DEF Filling, Draining, Ended, Answering, Serving
  <2> QED BY <1>1, <2>1, <2>2, <2>3, <2>4 DEF Settled
<1>2. IInv => TimersMatch
  BY <1>1 DEF IInv, TimersMatch
<1> QED BY <1>2, Inductive, PTL

(* Whenever a handler that takes sock->data for an event can be called     *)
(* the field holds one, and a write is only reported for an answer whose   *)
(* handler is installed (HandlersMatch).                                   *)
THEOREM HandlersCorrect ==
  ASSUME Polls
  PROVE  Spec => []HandlersMatch
<1>1. ASSUME NEW s, Settled(s), s.open
      PROVE  /\ s.data = "event" <=> s.onRead = "InitializeKeepAliveConnection"
             /\ s.data = "event" <=> s.onRemoteHangup = "OnKeepAliveRemoteHangup"
             /\ "out" \in s.interest =>
                  s.data = "request" /\ s.headerSent /\ s.onWrite # "uninitialized"
  <2>1. ~Closed(s)
    BY <1>1 DEF Closed
  <2>2. CASE Reading(s)
    BY <2>2 DEF Reading, Serving
  <2>3. CASE Waiting(s)
    BY <2>3 DEF Waiting
  <2>4. CASE Filling(s) \/ Draining(s)
    BY <2>4 DEF Filling, Draining, Ended, Answering, Serving
  <2> QED BY <1>1, <2>1, <2>2, <2>3, <2>4 DEF Settled
<1>2. IInv => TypeOK
  BY DEF IInv, TypeOK
<1>3. IInv => HandlersMatch
  BY <1>1, <1>2 DEF IInv, HandlersMatch
<1> QED BY <1>3, Inductive, PTL

(* An open connection has a timer that closes it or something to write     *)
(* (NobodyForgotten).                                                      *)
THEOREM ConnectionsRemembered ==
  ASSUME Polls
  PROVE  Spec => []NobodyForgotten
<1>1. ASSUME NEW s, Settled(s), s.open
      PROVE  \/ s.timers # {}
             \/ "out" \in s.interest /\ (s.writeBuffer # <<>> \/ s.fileOpen)
  <2>1. ~Closed(s)
    BY <1>1 DEF Closed
  <2>2. CASE Filling(s) \/ Draining(s)
    BY <2>2 DEF Filling, Draining, Ended, Answering
  <2>3. CASE s.timers = {"request"} \/ Waiting(s)
    BY <2>3 DEF Waiting
  <2> QED BY <1>1, <2>1, <2>2, <2>3 DEF Settled
<1>2. IInv => NobodyForgotten
  BY <1>1 DEF IInv, NobodyForgotten
<1> QED BY <1>2, Inductive, PTL

(* No file is forgotten, however a request ends; the stream of the         *)
(* compressor is left exactly by the deflated answers that are cut before  *)
(* their data is sent; a connection is kept only when its whole answer,    *)
(* and nothing else, has been sent (NothingLeft).                          *)
THEOREM NothingLeftBehind ==
  ASSUME Polls
  PROVE  Spec => []NothingLeft
<1>1. ASSUME NEW s, Settled(s)
      PROVE  /\ "file" \notin s.leaked
             /\ s.fileOpen => s.open /\ s.data = "request" /\ s.closesFile
             /\ "stream" \in s.leaked =>
                  ~s.open /\ Deflated(s) /\ Len(s.sent) <= Len(s.answer)
             /\ ~s.open /\ Deflated(s) /\ Len(s.sent) < Len(s.answer) => "stream" \in s.leaked
             /\ s.open /\ s.data = "event" =>
                  /\ s.sent = Complete(s)
                  /\ s.writeBuffer = <<>> /\ ~s.stream /\ ~s.exception /\ ~s.chunked
                  /\ s.interest = {"in"}
  <2>1. CASE Closed(s)
    BY <2>1 DEF Closed
  <2>2. CASE Reading(s)
    BY <2>2 DEF Reading, Serving, Fresh
  <2>3. CASE Waiting(s)
    BY <2>3 DEF Waiting
  <2>4. CASE Filling(s) \/ Draining(s)
    BY <2>4 DEF Filling, Draining, Ended, Answering, Serving
  <2> QED BY <1>1, <2>1, <2>2, <2>3, <2>4 DEF Settled
<1>2. IInv => NothingLeft
  BY <1>1 DEF IInv, NothingLeft
<1> QED BY <1>2, Inductive, PTL

(* What was sent and what is in the buffer begin the answer.               *)
LEMMA SettledInOrder ==
  ASSUME NEW s, Settled(s), s.open
  PROVE  IsPrefix(s.sent \o s.writeBuffer, Complete(s))
<1> DEFINE o == Out(s)
           f == Blocks(s.file)
           w == Owed(s)
           c == Complete(s)
<1>1. s \in Sockets
  BY SettledType
<1>2. {o, f, w, c} \subseteq Seq(Token)
  <2>1. s.sent \in Seq(Token) /\ s.writeBuffer \in Seq(Token) /\ s.file \in Nat
    BY <1>1 DEF Sockets
  <2>2. <<>> \in Seq(Token) /\ <<"last">> \in Seq(Token)
    BY DEF Token
  <2>3. f \in Seq(Token)
    BY <2>1, BlocksFacts
  <2>4. o \in Seq(Token)
    BY <2>1, ConcatProperties DEF Out
  <2>5. c \in Seq(Token)
    BY <1>1, CompleteFacts
  <2> QED BY <2>2, <2>3, <2>4, <2>5 DEF Owed
<1>3. o = <<>> \/ (o \o f) \o w = c
  <2>1. ~Closed(s)
    BY DEF Closed
  <2>2. CASE Reading(s)
    BY <2>2, ConcatEmptySeq DEF Reading, Fresh, Out
  <2>3. CASE Waiting(s)
    <3>1. s.sent = c /\ s.writeBuffer = <<>> /\ s.file = 0 /\ ~s.chunked
          /\ s.sent \in Seq(Token)
      BY <1>1, <2>3 DEF Waiting, Sockets
    <3>2. o = s.sent /\ f = <<>> /\ w = <<>>
      BY <3>1, NoBlocks, ConcatEmptySeq DEF Out, Owed
    <3>3. (o \o f) \o w = s.sent
      BY <3>1, <3>2, ConcatEmptySeq
    <3> QED BY <3>1, <3>3
  <2>4. CASE Filling(s) \/ Draining(s)
    <3>1. Whole(s) = c
      BY <2>4 DEF Filling, Draining, Ended
    <3> QED BY <3>1 DEF Whole
  <2> QED BY <2>1, <2>2, <2>3, <2>4 DEF Settled
<1>4. s.sent \o s.writeBuffer = o /\ Complete(s) = c
  BY DEF Out
<1> HIDE DEF o, f, w, c
<1>5. (o \o f) \o w = o \o (f \o w) /\ f \o w \in Seq(Token)
  <2>1. {o, f, w, c} \subseteq Seq(Token)
    BY <1>2
  <2>2. (o \o f) \o w = o \o (f \o w)
    BY <2>1, ConcatAssociative, SMTT(30)
  <2>3. f \o w \in Seq(Token)
    BY <2>1, ConcatProperties
  <2> QED BY <2>2, <2>3
<1>6. ASSUME NEW x \in Seq(Token), o \o x = c
      PROVE  IsPrefix(o, c)
  <2>1. IsPrefix(o, o \o x)
    BY <1>2, PrefixOfConcat
  <2> QED BY <1>6, <2>1
<1>7. ASSUME o = <<>> PROVE IsPrefix(o, c)
  <2>1. o \o c = c
    BY <1>2, <1>7, ConcatEmptySeq
  <2> QED BY <1>2, <1>6, <2>1
<1>8. ASSUME (o \o f) \o w = c PROVE IsPrefix(o, c)
  BY <1>5, <1>6, <1>8
<1>9. IsPrefix(o, c)
  BY <1>3, <1>7, <1>8
<1> QED BY <1>4, <1>9

(* What is sent is one header and the body in order, ended once unless the *)
(* body is deflated and its last read found nothing, whatever the kernel   *)
(* takes in one write and the file gives in one read (AnswersInOrder).     *)
THEOREM AnswersOrdered ==
  ASSUME Polls
  PROVE  Spec => []AnswersInOrder
<1>1. ASSUME NEW s, Settled(s), s.open
      PROVE  IsPrefix(s.sent \o s.writeBuffer, Complete(s))
  BY <1>1, SettledInOrder
<1>2. IInv => AnswersInOrder
  BY <1>1 DEF IInv, AnswersInOrder, Open
<1> QED BY <1>2, Inductive, PTL

(* While a request is answered the socket is not read (ReadingDisabled).   *)
THEOREM NothingReadMeanwhile ==
  ASSUME Polls
  PROVE  Spec => []ReadingDisabled
<1>1. ASSUME NEW s, Settled(s), s.open, s.headerSent
      PROVE  "in" \notin s.interest
  BY <1>1, SettledOpen
<1>2. IInv => ReadingDisabled
  BY <1>1 DEF IInv, ReadingDisabled, Open
<1> QED BY <1>2, Inductive, PTL

(* A process that has stopped leaves behind only connections whose answer  *)
(* was under way (StopsClean).                                             *)
THEOREM StopsCorrect ==
  ASSUME Polls
  PROVE  Spec => []StopsClean
<1>1. ASSUME NEW s, Settled(s), s.open, s.timers = {}
      PROVE  s.headerSent
  <2>1. ~Closed(s) /\ ~Waiting(s)
    BY <1>1 DEF Closed, Waiting
  <2> QED BY <1>1, <2>1 DEF Settled, Filling, Draining, Ended, Answering
<1>2. IInv => StopsClean
  BY <1>1 DEF IInv, StoppedIdle, StopsClean, Open
<1> QED BY <1>2, Inductive, PTL

(* Once the process is to stop, an answer that begins grants the client no *)
(* other request (NoKeepAliveInShutdown).                                  *)
THEOREM ShutdownGrantsNothing ==
  ASSUME Polls
  PROVE  Spec => NoKeepAliveInShutdown
<1>1. ASSUME NEW t, Refused(t), t.open
      PROVE  t.data = "request" /\ (t.headerSent => ~t.keepAlive)
  <2>1. ~Closed(t)
    BY <1>1 DEF Closed
  <2> QED BY <1>1, <2>1 DEF Refused, Reading, Filling, Draining, Ended, Answering, Serving, Fresh
<1>2. ASSUME IInv, [Next]_vars
      PROVE  [doShutdown => \A c \in Client :
                ~client[c].headerSent /\ client'[c] # client[c] /\ client'[c].open =>
                  /\ client'[c].data = "request"
                  /\ client'[c].headerSent => ~client'[c].keepAlive]_vars
  <2>1. \A c \in Client : Denied(c)
    BY <1>2, Steps
  <2> QED BY <1>1, <2>1 DEF Denied
<1> QED BY <1>2, Inductive, PTL DEF Spec, NoKeepAliveInShutdown
=============================================================================
