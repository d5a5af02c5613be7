------------------------ MODULE PancakeSelectProofs ------------------------
(***************************************************************************)
(* Proofs about PancakeSelect, for any number of descriptors and reports:  *)
(* what is watched has an entry, the bound covers what is registered, and  *)
(* the scan, although it stops early, skips nobody and calls nobody whose  *)
(* socket is closed.                                                       *)
(***************************************************************************)
EXTENDS PancakeSelect, FiniteSetTheorems, WellFoundedInduction, TLAPS

-----------------------------------------------------------------------------
(* The inductive invariant.                                                *)

TablesInv ==
  /\ readSet \union writeSet \subseteq sockets /\ sockets \subseteq open
  /\ open \subseteq FDs /\ new \subseteq open
  /\ Listening \union Early \subseteq open

(* Before the server runs the bound is above all descriptors.              *)
BoundInv ==
  /\ relays \in BOOLEAN
  /\ maxFD \in 0..SetSize
  /\ pc = "starting" => maxFD = SetSize /\ readSet = sockets
  /\ pc # "starting" => Early \subseteq readSet /\ (~relays => \A f \in sockets : f <= maxFD)

(* The handler called is that of the socket at the cursor, which was       *)
(* reported, unless it is closed by now.                                   *)
CursorInv ==
  /\ currentSocket # NULL => currentSocket \in open
  /\ pc \in {"reading", "hangup", "looked", "writing"} => currentSocket \in {fd, NULL} /\ fd # 0
  /\ pc \in {"reading", "hangup"} => fd \in readable
  /\ pc = "writing" => fd \in writable

UpTo(S, n) == {f \in S : f <= n}

(* How far down the reports to be read, and to be written, are not counted *)
(* yet.                                                                    *)
readsTo == IF pc = "scanning" THEN fd ELSE fd - 1
writesTo == IF pc \in {"scanning", "reading", "looked"} THEN fd ELSE fd - 1

Reports == Cardinality(UpTo(readable, readsTo)) + Cardinality(UpTo(writable, writesTo))

CountInv ==
  /\ fd \in 0..SetSize
  /\ readable \subseteq FDs /\ writable \subseteq FDs
  /\ numEvents \in 0..2 * Cardinality(FDs)
  /\ Reports <= numEvents

(* If a socket was closed in this scan its report is behind the cursor, so *)
(* that whoever gets its descriptor is not called for it.                  *)
ForeignInv ==
  /\ pc \in {"starting", "waiting", "timers"} => new = {} /\ readable = {} /\ writable = {}
  /\ ~relays => \A f \in readable \union writable :
       /\ f \in new => f > fd
       /\ f \notin open => f > fd \/ (f = fd /\ currentSocket = NULL /\ pc # "scanning")

PlaceInv == pc \in {"starting", "waiting", "scanning", "reading", "hangup", "looked",
                    "writing", "timers"}

IInv == TablesInv /\ BoundInv /\ CursorInv /\ CountInv /\ ForeignInv /\ PlaceInv

-----------------------------------------------------------------------------
(* Descriptors and counts.                                                 *)

LEMMA Descriptors ==
  /\ SetSize \in Nat /\ \A f \in FDs : f \in Nat /\ f >= 1 /\ f < SetSize
  /\ Listening \subseteq FDs /\ Early \subseteq FDs /\ NULL \notin FDs
BY DescriptorAssumption

LEMMA FiniteDescriptors ==
  ASSUME NEW S \in SUBSET FDs
  PROVE  /\ IsFiniteSet(S) /\ Cardinality(S) \in Nat
         /\ Cardinality(FDs) \in Nat /\ Cardinality(S) <= Cardinality(FDs)
<1>1. IsFiniteSet(1..SetSize-1)
  BY Descriptors, FS_Interval
<1>2. IsFiniteSet(FDs)
  BY <1>1, DescriptorAssumption, FS_Subset
<1> QED BY <1>2, FS_Subset, FS_CardinalityType

LEMMA MaxOfDescriptors ==
  ASSUME NEW S \in SUBSET FDs, S # {}
  PROVE  Max(S) \in S /\ \A f \in S : f <= Max(S)
<1> DEFINE behind == {SetSize - f : f \in S}
           R == OpToRel(<, Nat)
<1>1. \A x, y \in Nat : x < y => <<x, y>> \in R
  BY DEF OpToRel
<1>2. IsWellFoundedOn(R, Nat)
  BY NatLessThanWellFounded
<1>3. behind \subseteq Nat /\ behind # {}
  <2>1. \A f \in S : SetSize - f \in Nat
    BY Descriptors
  <2>2. PICK f \in S : TRUE
    OBVIOUS
  <2>3. SetSize - f \in behind
    OBVIOUS
  <2> QED BY <2>1, <2>3
<1> HIDE DEF behind, R
<1>4. PICK m \in behind : \A k \in behind : ~(<<k, m>> \in R)
  BY <1>2, <1>3, WFMin
<1>5. PICK highest \in S : m = SetSize - highest
  BY DEF behind
<1>6. ASSUME NEW f \in S PROVE highest >= f
  <2>1. SetSize - f \in behind
    BY DEF behind
  <2>2. ~(SetSize - f < m) /\ SetSize - f \in Nat /\ m \in Nat
    BY <1>1, <1>3, <1>4, <2>1
  <2> QED BY <1>5, <2>2, Descriptors
<1>7. Max(S) \in S /\ \A f \in S : Max(S) >= f
  BY <1>6 DEF Max
<1> QED BY <1>7, Descriptors

LEMMA DeterminedCovers ==
  ASSUME NEW table \in SUBSET FDs, maxFD \in 0..SetSize
  PROVE  /\ Determined(table) \in 0..SetSize
         /\ \A f \in table : f < maxFD => f <= Determined(table)
<1> DEFINE below == {i \in table : i < maxFD}
<1>1. CASE maxFD <= 1
  BY <1>1, Descriptors DEF Determined
<1>2. CASE ~(maxFD <= 1) /\ below = {}
  BY <1>2, Descriptors DEF Determined
<1>3. CASE ~(maxFD <= 1) /\ below # {}
  <2>1. Max(below) \in below /\ \A f \in below : f <= Max(below)
    BY <1>3, MaxOfDescriptors
  <2>2. Determined(table) = Max(below)
    BY <1>3 DEF Determined
  <2> QED BY <2>1, <2>2, Descriptors
<1> QED BY <1>1, <1>2, <1>3

LEMMA CountTypes ==
  ASSUME NEW S \in SUBSET FDs, NEW n \in Int
  PROVE  UpTo(S, n) \in SUBSET FDs /\ Cardinality(UpTo(S, n)) \in Nat
<1>1. UpTo(S, n) \in SUBSET FDs
  BY DEF UpTo
<1> QED BY <1>1, FiniteDescriptors

(* The count at a descriptor and below it.                                 *)
LEMMA CountDown ==
  ASSUME NEW S \in SUBSET FDs, NEW n \in Nat
  PROVE  Cardinality(UpTo(S, n))
           = IF n \in S THEN Cardinality(UpTo(S, n - 1)) + 1 ELSE Cardinality(UpTo(S, n - 1))
<1>1. IsFiniteSet(UpTo(S, n - 1))
  BY CountTypes, FiniteDescriptors
<1>2. \A f \in S : f <= n <=> f <= n - 1 \/ f = n
  BY Descriptors
<1>3. CASE n \in S
  <2>1. UpTo(S, n) = UpTo(S, n - 1) \union {n} /\ n \notin UpTo(S, n - 1)
    <3>1. \A f : f \in UpTo(S, n) <=> f \in UpTo(S, n - 1) \/ f = n
      BY <1>2, <1>3, Descriptors DEF UpTo
    <3>2. n \notin UpTo(S, n - 1)
      BY DEF UpTo
    <3> QED BY <3>1, <3>2
  <2> QED BY <1>1, <1>3, <2>1, FS_AddElement
<1>4. CASE n \notin S
  <2>1. UpTo(S, n) = UpTo(S, n - 1)
    BY <1>2, <1>4 DEF UpTo
  <2> QED BY <1>4, <2>1
<1> QED BY <1>3, <1>4

-----------------------------------------------------------------------------
(* What the operations on the tables keep.                                 *)

Registers(f) ==
  /\ readSet' \subseteq readSet \union {f} /\ readSet \ {f} \subseteq readSet'
  /\ writeSet' \subseteq writeSet \union {f}
  /\ sockets' \subseteq sockets \union {f}
  /\ readSet' \union writeSet' \subseteq sockets'
  /\ maxFD' \in 0..SetSize

Covers == (\A g \in sockets : g <= maxFD) => (\A g \in sockets' : g <= maxFD')

LEMMA RaisedCovers ==
  ASSUME TablesInv, BoundInv, NEW f \in FDs, sockets' = sockets \union {f}, maxFD' = Raised(f)
  PROVE  maxFD' \in 0..SetSize /\ Covers
<1>1. f \in Nat /\ f < SetSize /\ SetSize \in Nat /\ maxFD \in 0..SetSize
  BY Descriptors DEF BoundInv
<1>2. \A g \in sockets : g \in Nat
  BY Descriptors DEF TablesInv
<1>3. maxFD' \in 0..SetSize /\ maxFD <= maxFD' /\ f <= maxFD'
  BY <1>1 DEF Raised
<1> QED BY <1>1, <1>2, <1>3 DEF Covers

LEMMA AddKeeps ==
  ASSUME TablesInv, BoundInv, NEW f \in FDs, NEW evs, Add(f, evs) \/ Set(f, evs)
  PROVE  Registers(f) /\ Covers /\ f \in readSet'
<1>1. sockets' = sockets \union {f} /\ maxFD' = Raised(f)
  BY DEF Add, Set
<1>2. maxFD' \in 0..SetSize /\ Covers
  BY <1>1, RaisedCovers
<1> QED BY <1>2 DEF Add, Set, Registers, TablesInv

LEMMA LoweredBound ==
  ASSUME TablesInv, BoundInv, NEW f,
         maxFD' = IF f = maxFD THEN Determined(sockets) ELSE maxFD
  PROVE  /\ maxFD' \in 0..SetSize
         /\ \A g \in sockets \ {f} : g <= maxFD => g <= maxFD'
<1>1. sockets \in SUBSET FDs /\ maxFD \in 0..SetSize
  BY DEF TablesInv, BoundInv
<1>2. /\ Determined(sockets) \in 0..SetSize
      /\ \A g \in sockets : g < maxFD => g <= Determined(sockets)
  BY <1>1, DeterminedCovers
<1> QED BY <1>1, <1>2, Descriptors

LEMMA RemoveKeeps ==
  ASSUME TablesInv, BoundInv, NEW f \in FDs,
         RemoveReadSocket(f) \/ RemoveWriteSocket(f) \/ RemoveSocket(f)
  PROVE  Registers(f)
<1>1. maxFD' = IF f = maxFD THEN Determined(sockets) ELSE maxFD
  BY DEF RemoveReadSocket, RemoveWriteSocket, RemoveSocket
<1>2. maxFD' \in 0..SetSize
  BY <1>1, LoweredBound
<1> QED BY <1>2 DEF RemoveReadSocket, RemoveWriteSocket, RemoveSocket, Registers, TablesInv

LEMMA CloseCovers ==
  ASSUME TablesInv, BoundInv, NEW f \in FDs, RemoveSocket(f)
  PROVE  Registers(f) /\ Covers /\ f \notin sockets'
<1>1. /\ maxFD' = (IF f = maxFD THEN Determined(sockets) ELSE maxFD)
      /\ sockets' = sockets \ {f}
  BY DEF RemoveSocket
<1>2. \A g \in sockets \ {f} : g <= maxFD => g <= maxFD'
  BY <1>1, LoweredBound
<1>3. Covers
  BY <1>1, <1>2 DEF Covers
<1> QED BY <1>1, <1>3, RemoveKeeps

-----------------------------------------------------------------------------
(* Each action.                                                            *)

LEMMA InitIInv == Init => IInv
<1> SUFFICES ASSUME Init PROVE IInv
  OBVIOUS
<1>1. TablesInv /\ BoundInv /\ PlaceInv
  BY Descriptors DEF Init, TablesInv, BoundInv, PlaceInv
<1>2. CursorInv /\ ForeignInv
  BY DEF Init, CursorInv, ForeignInv
<1>3. CountInv
  <2>1. UpTo(readable, readsTo) = {} /\ UpTo(writable, writesTo) = {}
    BY DEF Init, UpTo
  <2>2. Cardinality({}) = 0 /\ Cardinality(FDs) \in Nat
    BY FS_EmptySet, FiniteDescriptors
  <2>3. Reports = 0
    BY <2>1, <2>2 DEF Reports
  <2>4. fd = 0 /\ numEvents = 0 /\ readable = {} /\ writable = {}
    BY DEF Init
  <2> QED BY <2>2, <2>3, <2>4, Descriptors DEF CountInv
<1> QED BY <1>1, <1>2, <1>3 DEF IInv

(* Handlers leave the scan alone.                                          *)
LEMMA ScanAlone ==
  ASSUME CountInv, PlaceInv, UNCHANGED <<scan, pc>> PROVE CountInv' /\ PlaceInv'
BY DEF scan, CountInv, PlaceInv, Reports, readsTo, writesTo, UpTo

LEMMA RegisterEarlyKeeps == ASSUME IInv, NEW f \in Early, RegisterEarly(f) PROVE IInv'
<1> USE DEF IInv
<1>1. /\ pc = "starting" /\ Add(f, {"IN"}) /\ f \in FDs /\ f \in open
      /\ UNCHANGED <<relays, open, new, scan, currentSocket, pc>>
  BY Descriptors DEF RegisterEarly, AddReadSocket, TablesInv
<1>2. Registers(f) /\ f \in readSet'
  BY <1>1, AddKeeps
<1>3. TablesInv'
  BY <1>1, <1>2 DEF TablesInv, Registers
<1>4. BoundInv'
  <2>1. maxFD' = maxFD
    BY <1>1, Descriptors DEF BoundInv, Add, Raised
  <2>2. readSet' = sockets'
    BY <1>1 DEF BoundInv, Add
  <2> QED BY <1>1, <2>1, <2>2 DEF BoundInv
<1>5. CountInv' /\ PlaceInv'
  BY <1>1, ScanAlone
<1>6. CursorInv' /\ ForeignInv'
  BY <1>1 DEF CursorInv, ForeignInv, scan
<1> QED BY <1>3, <1>4, <1>5, <1>6

LEMMA RunServerKeeps == ASSUME IInv, RunServer PROVE IInv'
<1> USE DEF IInv
<1>1. /\ pc = "starting" /\ pc' = "waiting" /\ Early \subseteq sockets
      /\ readSet' = readSet \union Listening /\ sockets' = sockets \union Listening
      /\ maxFD' = Determined(sockets')
      /\ UNCHANGED <<relays, open, new, writeSet, readable, writable, fd, numEvents,
                     currentSocket>>
  BY DEF RunServer, scan
<1>2. TablesInv'
  BY <1>1 DEF TablesInv
<1>3. sockets' \in SUBSET FDs /\ maxFD = SetSize /\ readSet = sockets /\ maxFD \in 0..SetSize
  BY <1>1, <1>2 DEF TablesInv, BoundInv
<1>4. /\ maxFD' \in 0..SetSize
      /\ \A f \in sockets' : f < maxFD => f <= maxFD'
  BY <1>1, <1>3, DeterminedCovers
<1>5. \A f \in sockets' : f <= maxFD'
  BY <1>3, <1>4, Descriptors
<1>6. BoundInv'
  BY <1>1, <1>3, <1>4, <1>5 DEF BoundInv
<1>7. CountInv'
  BY <1>1 DEF CountInv, Reports, readsTo, writesTo, UpTo
<1>8. CursorInv' /\ ForeignInv' /\ PlaceInv'
  BY <1>1 DEF CursorInv, ForeignInv, PlaceInv
<1> QED BY <1>2, <1>6, <1>7, <1>8

(* Steps of the scan leave the tables alone.                               *)
LEMMA TablesAlone ==
  ASSUME TablesInv, BoundInv, UNCHANGED <<relays, open, tables>>, new' \subseteq new,
         pc # "starting", pc' # "starting"
  PROVE  TablesInv' /\ BoundInv'
BY DEF tables, TablesInv, BoundInv

LEMMA WaitKeeps == ASSUME IInv, Wait PROVE IInv'
<1> USE DEF IInv
<1>1. /\ pc = "waiting" /\ pc' = "scanning" /\ fd' = maxFD
      /\ readable' \subseteq {f \in readSet : f <= maxFD}
      /\ writable' \subseteq {f \in writeSet : f <= maxFD}
      /\ numEvents' = Cardinality(readable') + Cardinality(writable')
      /\ UNCHANGED <<relays, open, new, tables, currentSocket>>
  BY DEF Wait
<1>2. TablesInv' /\ BoundInv'
  BY <1>1, TablesAlone
<1>3. /\ readable' \in SUBSET FDs /\ writable' \in SUBSET FDs
      /\ readable' \subseteq open /\ writable' \subseteq open
  BY <1>1 DEF TablesInv
<1>4. UpTo(readable', fd') = readable' /\ UpTo(writable', fd') = writable'
  BY <1>1 DEF UpTo
<1>5. CountInv'
  <2>1. Reports' = numEvents'
    BY <1>1, <1>4 DEF Reports, readsTo, writesTo, UpTo
  <2>2. /\ Cardinality(readable') \in Nat /\ Cardinality(readable') <= Cardinality(FDs)
        /\ Cardinality(writable') \in Nat /\ Cardinality(writable') <= Cardinality(FDs)
        /\ Cardinality(FDs) \in Nat
    BY <1>3, FiniteDescriptors
  <2>3. maxFD \in 0..SetSize
    BY DEF BoundInv
  <2> QED BY <1>1, <1>3, <2>1, <2>2, <2>3 DEF CountInv
<1>6. CursorInv' /\ ForeignInv' /\ PlaceInv'
  BY <1>1, <1>3 DEF CursorInv, ForeignInv, PlaceInv
<1> QED BY <1>2, <1>5, <1>6

LEMMA CursorMoves ==
  ASSUME CountInv
  PROVE  /\ fd \in 0..SetSize /\ (fd # 0 => fd - 1 \in 0..SetSize)
         /\ numEvents \in 0..2 * Cardinality(FDs)
         /\ numEvents # 0 => numEvents - 1 \in 0..2 * Cardinality(FDs)
<1>1. SetSize \in Nat /\ Cardinality(FDs) \in Nat
  BY Descriptors, FiniteDescriptors
<1>2. fd \in 0..SetSize /\ numEvents \in 0..2 * Cardinality(FDs)
  BY DEF CountInv
<1>3. 2 * Cardinality(FDs) \in Nat
  BY <1>1
<1> QED BY <1>1, <1>2, <1>3

(* The counts at the cursor and behind it.                                 *)
LEMMA CountsAtCursor ==
  ASSUME CountInv
  PROVE  /\ fd \in Nat /\ numEvents \in Nat
         /\ Cardinality(UpTo(readable, fd)) \in Nat /\ Cardinality(UpTo(readable, fd - 1)) \in Nat
         /\ Cardinality(UpTo(writable, fd)) \in Nat /\ Cardinality(UpTo(writable, fd - 1)) \in Nat
         /\ Cardinality(UpTo(readable, fd))
              = IF fd \in readable THEN Cardinality(UpTo(readable, fd - 1)) + 1
                                   ELSE Cardinality(UpTo(readable, fd - 1))
         /\ Cardinality(UpTo(writable, fd))
              = IF fd \in writable THEN Cardinality(UpTo(writable, fd - 1)) + 1
                                   ELSE Cardinality(UpTo(writable, fd - 1))
<1>1. fd \in Nat /\ numEvents \in Nat /\ fd - 1 \in Int
  BY CursorMoves, Descriptors
<1>2. readable \in SUBSET FDs /\ writable \in SUBSET FDs
  BY DEF CountInv
<1>3. /\ Cardinality(UpTo(readable, fd)) \in Nat /\ Cardinality(UpTo(readable, fd - 1)) \in Nat
      /\ Cardinality(UpTo(writable, fd)) \in Nat /\ Cardinality(UpTo(writable, fd - 1)) \in Nat
  <2>1. \A n \in {fd, fd - 1} : n \in Int
    BY <1>1
  <2>2. \A S \in SUBSET FDs : \A n \in {fd, fd - 1} : Cardinality(UpTo(S, n)) \in Nat
    BY <2>1, CountTypes
  <2> QED BY <1>2, <2>2
<1> QED BY <1>1, <1>2, <1>3, CountDown

LEMMA VisitKeeps == ASSUME IInv, Visit PROVE IInv'
<1> USE DEF IInv
<1>1. /\ pc = "scanning" /\ numEvents # 0 /\ fd > 0
      /\ currentSocket' = (IF fd \in sockets THEN fd ELSE NULL)
      /\ UNCHANGED <<relays, open, new, tables, readable, writable>>
  BY DEF Visit
<1>2. \/ fd \notin sockets /\ pc' = "scanning" /\ fd' = fd - 1 /\ numEvents' = numEvents
      \/ fd \in sockets \intersect readable /\ pc' \in {"reading", "hangup"} /\ fd' = fd
           /\ numEvents' = numEvents - 1
      \/ fd \in sockets \ readable /\ pc' = "looked" /\ fd' = fd /\ numEvents' = numEvents
  BY <1>1 DEF Visit
<1>3. TablesInv' /\ BoundInv' /\ PlaceInv'
  BY <1>1, <1>2, TablesAlone DEF PlaceInv
<1>4. fd' \in 0..SetSize /\ numEvents' \in 0..2 * Cardinality(FDs)
  <2>1. fd' \in {fd, fd - 1} /\ numEvents' \in {numEvents, numEvents - 1} /\ fd # 0
    BY <1>1, <1>2
  <2> QED BY <1>1, <2>1, CursorMoves
<1>5. Reports' <= numEvents'
  <2>1. Reports = Cardinality(UpTo(readable, fd)) + Cardinality(UpTo(writable, fd))
    BY <1>1 DEF Reports, readsTo, writesTo
  <2>2. Reports <= numEvents
    BY DEF CountInv
  <2>3. ASSUME fd \notin sockets PROVE Reports' <= numEvents'
    <3>1. Reports' = Cardinality(UpTo(readable, fd - 1)) + Cardinality(UpTo(writable, fd - 1))
      BY <1>1, <1>2, <2>3 DEF Reports, readsTo, writesTo, UpTo
    <3> QED BY <1>2, <2>1, <2>2, <2>3, <3>1, CountsAtCursor
  <2>4. ASSUME fd \in sockets, pc' = "hangup" PROVE Reports' <= numEvents'
    <3>1. Reports' = Cardinality(UpTo(readable, fd - 1)) + Cardinality(UpTo(writable, fd - 1))
      BY <1>1, <1>2, <2>4 DEF Reports, readsTo, writesTo, UpTo
    <3>2. fd \in readable /\ numEvents' = numEvents - 1
      BY <1>2, <2>4
    <3> QED BY <2>1, <2>2, <3>1, <3>2, CountsAtCursor
  <2>5. ASSUME fd \in sockets, pc' \in {"reading", "looked"} PROVE Reports' <= numEvents'
    <3>1. Reports' = Cardinality(UpTo(readable, fd - 1)) + Cardinality(UpTo(writable, fd))
      BY <1>1, <1>2, <2>5 DEF Reports, readsTo, writesTo, UpTo
    <3>2. \/ fd \in readable /\ numEvents' = numEvents - 1
          \/ fd \notin readable /\ numEvents' = numEvents
      BY <1>2, <2>5
    <3> QED BY <2>1, <2>2, <3>1, <3>2, CountsAtCursor
  <2>6. fd \notin sockets \/ pc' \in {"hangup", "reading", "looked"}
    BY <1>2
  <2> QED BY <2>3, <2>4, <2>5, <2>6
<1>6. CountInv'
  BY <1>1, <1>4, <1>5 DEF CountInv
<1>7. CursorInv'
  <2>1. fd \in sockets => fd \in open
    BY DEF TablesInv
  <2>2. fd # 0
    BY <1>1
  <2>3. pc' = "scanning" => fd \notin sockets
    BY <1>2
  <2>4. pc' # "scanning" => fd' = fd
    BY <1>2
  <2>5. pc' # "writing" /\ (pc' \in {"reading", "hangup"} => fd \in readable)
    BY <1>2
  <2>6. pc' \in {"scanning", "reading", "hangup", "looked"}
    BY <1>2
  <2> QED BY <1>1, <2>1, <2>2, <2>3, <2>4, <2>5, <2>6 DEF CursorInv
<1>8. ForeignInv'
  <2>1. fd \in Nat /\ fd' \in Nat /\ fd' <= fd /\ pc' \notin {"starting", "waiting", "timers"}
    BY <1>1, <1>2 DEF CountInv
  <2>2. ASSUME ~relays, NEW f \in readable \union writable
        PROVE  (f \in new => f > fd') /\ (f \notin open => f > fd')
    <3>1. (f \in new => f > fd) /\ (f \notin open => f > fd)
      BY <1>1, <2>2 DEF ForeignInv
    <3>2. f \in Nat
      BY Descriptors DEF CountInv
    <3> QED BY <2>1, <3>1, <3>2
  <2> QED BY <1>1, <2>1, <2>2 DEF ForeignInv
<1> QED BY <1>3, <1>6, <1>7, <1>8

(* The cursor moves on.                                                    *)
LEMMA ForeignBehind ==
  ASSUME IInv, fd # 0, UNCHANGED <<relays, open, new, readable, writable>>,
         fd' = fd - 1, pc' = "scanning"
  PROVE  ForeignInv'
<1>1. fd \in Nat
  BY DEF IInv, CountInv
<1>2. ASSUME ~relays, NEW f \in readable \union writable
      PROVE  (f \in new => f > fd - 1) /\ (f \notin open => f > fd - 1)
  <2>1. (f \in new => f > fd) /\ (f \notin open => f > fd \/ f = fd)
    BY <1>2 DEF IInv, ForeignInv
  <2>2. f \in Nat
    BY Descriptors DEF IInv, CountInv
  <2> QED BY <1>1, <2>1, <2>2
<1> QED BY <1>2 DEF ForeignInv

LEMMA ReturnKeeps == ASSUME IInv, Return PROVE IInv'
<1> USE DEF IInv
<1>1. /\ pc \in {"reading", "hangup", "writing"} /\ pc' \in {"looked", "scanning"}
      /\ pc = "reading" => pc' = "looked" /\ fd' = fd
      /\ pc \in {"hangup", "writing"} => pc' = "scanning" /\ fd' = fd - 1
      /\ UNCHANGED <<relays, open, new, tables, readable, writable, numEvents, currentSocket>>
  BY DEF Return
<1>2. fd # 0 /\ currentSocket \in {fd, NULL}
  BY <1>1 DEF CursorInv
<1>3. TablesInv' /\ BoundInv' /\ PlaceInv'
  BY <1>1, TablesAlone DEF PlaceInv
<1>4. CountInv'
  <2>1. fd' \in 0..SetSize
    <3>1. fd' \in {fd, fd - 1}
      BY <1>1
    <3> QED BY <1>2, <3>1, CursorMoves
  <2>2. readsTo' = readsTo /\ writesTo' = writesTo
    <3>1. CASE pc = "reading"
      BY <1>1, <3>1 DEF readsTo, writesTo
    <3>2. CASE pc \in {"hangup", "writing"}
      BY <1>1, <3>2 DEF readsTo, writesTo
    <3> QED BY <1>1, <3>1, <3>2
  <2>3. Reports' = Reports
    BY <1>1, <2>2 DEF Reports, UpTo
  <2> QED BY <1>1, <2>1, <2>3 DEF CountInv
<1>5. CursorInv'
  BY <1>1, <1>2 DEF CursorInv
<1>6. ForeignInv'
  <2>1. CASE pc = "reading"
    BY <1>1, <2>1 DEF ForeignInv
  <2>2. CASE pc \in {"hangup", "writing"}
    BY <1>1, <1>2, <2>2, ForeignBehind
  <2> QED BY <1>1, <2>1, <2>2
<1> QED BY <1>3, <1>4, <1>5, <1>6

LEMMA LookAtWriteKeeps == ASSUME IInv, LookAtWrite PROVE IInv'
<1> USE DEF IInv
<1>1. /\ pc = "looked"
      /\ numEvents' = (IF fd \in writable THEN numEvents - 1 ELSE numEvents)
      /\ \/ fd \in writable /\ pc' = "writing" /\ fd' = fd
         \/ pc' = "scanning" /\ fd' = fd - 1
      /\ UNCHANGED <<relays, open, new, tables, readable, writable, currentSocket>>
  BY DEF LookAtWrite
<1>2. fd # 0 /\ currentSocket \in {fd, NULL}
  BY <1>1 DEF CursorInv
<1>3. TablesInv' /\ BoundInv' /\ PlaceInv'
  BY <1>1, TablesAlone DEF PlaceInv
<1>4. CountInv'
  <2>1. Reports = Cardinality(UpTo(readable, fd - 1)) + Cardinality(UpTo(writable, fd))
    BY <1>1 DEF Reports, readsTo, writesTo
  <2>2. Reports' = Cardinality(UpTo(readable, fd - 1)) + Cardinality(UpTo(writable, fd - 1))
    BY <1>1 DEF Reports, readsTo, writesTo, UpTo
  <2>3. Reports <= numEvents
    BY DEF CountInv
  <2>4. Reports' <= numEvents' /\ (fd \in writable => numEvents >= 1)
    BY <1>1, <2>1, <2>2, <2>3, CountsAtCursor
  <2>5. numEvents' \in 0..2 * Cardinality(FDs) /\ fd' \in 0..SetSize
    <3>1. fd' \in {fd, fd - 1}
      BY <1>1
    <3>2. numEvents' = numEvents \/ (numEvents' = numEvents - 1 /\ numEvents # 0)
      BY <1>1, <2>4
    <3> QED BY <1>2, <3>1, <3>2, CursorMoves
  <2> QED BY <1>1, <2>4, <2>5 DEF CountInv
<1>5. CursorInv'
  BY <1>1, <1>2 DEF CursorInv
<1>6. ForeignInv'
  <2>1. CASE pc' = "writing"
    <3>1. fd' = fd
      BY <1>1, <2>1
    <3> QED BY <1>1, <2>1, <3>1 DEF ForeignInv
  <2>2. CASE pc' = "scanning"
    <3>1. fd' = fd - 1
      BY <1>1, <2>2
    <3> QED BY <1>1, <1>2, <2>2, <3>1, ForeignBehind
  <2> QED BY <1>1, <2>1, <2>2
<1> QED BY <1>3, <1>4, <1>5, <1>6

LEMMA EndScanKeeps == ASSUME IInv, EndScan PROVE IInv'
<1> USE DEF IInv
<1>1. /\ pc = "scanning" /\ pc' = "timers"
      /\ new' = {} /\ readable' = {} /\ writable' = {} /\ numEvents' = 0 /\ fd' = 0
      /\ UNCHANGED <<relays, open, tables, currentSocket>>
  BY DEF EndScan
<1>2. TablesInv' /\ BoundInv' /\ PlaceInv'
  BY <1>1, TablesAlone DEF PlaceInv
<1>3. CountInv'
  <2>1. UpTo(readable', readsTo') = {} /\ UpTo(writable', writesTo') = {}
    BY <1>1 DEF UpTo
  <2>2. Reports' = Cardinality(UpTo(readable', readsTo')) + Cardinality(UpTo(writable', writesTo'))
    BY DEF Reports, UpTo
  <2>3. Reports' = 0 /\ Cardinality(FDs) \in Nat
    BY <2>1, <2>2, FS_EmptySet, FiniteDescriptors
  <2> QED BY <1>1, <2>3, Descriptors DEF CountInv
<1>4. CursorInv' /\ ForeignInv'
  BY <1>1 DEF CursorInv, ForeignInv
<1> QED BY <1>2, <1>3, <1>4

LEMMA EndTimersKeeps == ASSUME IInv, EndTimers PROVE IInv'
<1> USE DEF IInv
<1>1. /\ pc = "timers" /\ pc' = "waiting"
      /\ UNCHANGED <<relays, open, new, tables, readable, writable, fd, numEvents, currentSocket>>
  BY DEF EndTimers, scan
<1>2. TablesInv' /\ BoundInv' /\ PlaceInv'
  BY <1>1, TablesAlone DEF PlaceInv
<1>3. CountInv'
  BY <1>1 DEF CountInv, Reports, readsTo, writesTo, UpTo
<1>4. CursorInv' /\ ForeignInv'
  BY <1>1 DEF CursorInv, ForeignInv
<1> QED BY <1>2, <1>3, <1>4

(* A handler works on the tables.                                          *)
LEMMA TablesKept ==
  ASSUME TablesInv, BoundInv, NEW f \in FDs \ Early, pc # "starting", pc' = pc,
         UNCHANGED relays, Registers(f), ~relays => Covers,
         open' \subseteq open \union {f}, open \ {f} \subseteq open', new' \subseteq open',
         sockets' \subseteq open', f \notin Listening
  PROVE  TablesInv' /\ BoundInv'
<1>1. TablesInv'
  BY DEF TablesInv, Registers
<1>2. BoundInv'
  BY DEF BoundInv, Registers, Covers
<1> QED BY <1>1, <1>2

LEMMA OperationKeeps == ASSUME IInv, NEW f \in FDs, Operation(f) PROVE IInv'
<1> USE DEF IInv
<1>1. /\ pc \in {"reading", "hangup", "writing"} /\ f \in open \ (Listening \union Early)
      /\ UNCHANGED <<relays, open, new, scan, currentSocket, pc>>
  BY DEF Operation, Handling
<1>2. \/ \E evs : Add(f, evs) \/ Set(f, evs)
      \/ relays /\ (RemoveReadSocket(f) \/ RemoveWriteSocket(f) \/ RemoveSocket(f))
  BY DEF Operation, AddReadSocket, AddWriteSocket, AddReadWriteSocket,
         SetReadSocket, SetWriteSocket, SetSocket
<1>3. Registers(f) /\ (~relays => Covers)
  BY <1>2, AddKeeps, RemoveKeeps
<1>4. TablesInv' /\ BoundInv'
  <2>1. sockets' \subseteq open' /\ new' \subseteq open'
    BY <1>1, <1>3 DEF Registers, TablesInv
  <2> QED BY <1>1, <1>3, <2>1, TablesKept
<1>5. CountInv' /\ PlaceInv'
  BY <1>1, ScanAlone
<1>6. CursorInv' /\ ForeignInv'
  BY <1>1 DEF CursorInv, ForeignInv, scan
<1> QED BY <1>4, <1>5, <1>6

(* A socket that comes while a handler of fd runs.                         *)
LEMMA NewSocket ==
  ASSUME IInv, NEW f \in FDs \ open, pc \in {"reading", "hangup", "writing"},
         open' = open \union {f}, new' = new \union {f}, relays \/ fd \in open,
         UNCHANGED <<relays, scan, currentSocket, pc>>
  PROVE  CursorInv' /\ ForeignInv'
<1>1. CursorInv'
  BY DEF IInv, CursorInv, scan
<1>2. ASSUME ~relays, NEW g \in readable \union writable, g = f PROVE g > fd
  BY <1>2 DEF IInv, ForeignInv
<1>3. ForeignInv'
  BY <1>2 DEF IInv, ForeignInv, scan
<1> QED BY <1>1, <1>3

LEMMA AcceptKeeps == ASSUME IInv, NEW f \in FDs, Accept(f) PROVE IInv'
<1> USE DEF IInv
<1>1. /\ pc = "reading" /\ fd \in Listening /\ f \in FDs \ open
      /\ open' = open \union {f} /\ new' = new \union {f} /\ Add(f, {"IN"})
      /\ UNCHANGED <<relays, scan, currentSocket, pc>>
  BY DEF Accept, AddReadSocket
<1>2. Registers(f) /\ Covers
  BY <1>1, AddKeeps
<1>3. TablesInv' /\ BoundInv'
  <2>1. f \notin Listening /\ f \notin Early
    BY <1>1 DEF TablesInv
  <2>2. sockets' \subseteq open' /\ new' \subseteq open'
    BY <1>1, <1>2 DEF Registers, TablesInv
  <2> QED BY <1>1, <1>2, <2>1, <2>2, TablesKept
<1>4. CountInv' /\ PlaceInv'
  BY <1>1, ScanAlone
<1>5. CursorInv' /\ ForeignInv'
  BY <1>1, NewSocket DEF TablesInv
<1> QED BY <1>3, <1>4, <1>5

LEMMA ConnectKeeps == ASSUME IInv, NEW f \in FDs, Connect(f) PROVE IInv'
<1> USE DEF IInv
<1>1. /\ pc \in {"reading", "hangup", "writing"} /\ relays /\ f \in FDs \ open
      /\ open' = open \union {f} /\ new' = new \union {f}
      /\ UNCHANGED <<relays, readSet, writeSet, sockets, maxFD, scan, currentSocket, pc>>
  BY DEF Connect, Handling, tables
<1>2. TablesInv' /\ BoundInv'
  BY <1>1 DEF TablesInv, BoundInv
<1>3. CountInv' /\ PlaceInv'
  BY <1>1, ScanAlone
<1>4. CursorInv' /\ ForeignInv'
  BY <1>1, NewSocket
<1> QED BY <1>2, <1>3, <1>4

LEMMA CloseKeeps ==
  ASSUME IInv, NEW f \in FDs, CloseByHandler(f) \/ CloseByTimer(f) PROVE IInv'
<1> USE DEF IInv
<1>1. /\ \/ pc \in {"reading", "hangup", "writing"} /\ (relays \/ f = currentSocket)
         \/ pc = "timers"
      /\ UNCHANGED <<relays, scan, pc>>
  BY DEF CloseByHandler, CloseByTimer, Handling, Reach
<1>2. /\ f \in open /\ f \notin Listening /\ f \notin Early
      /\ open' = open \ {f} /\ new' = new \ {f} /\ RemoveSocket(f)
      /\ currentSocket' = IF f = currentSocket THEN NULL ELSE currentSocket
  BY DEF CloseByHandler, CloseByTimer, OnSocketClose
<1>3. Registers(f) /\ Covers /\ f \notin sockets'
  BY <1>2, CloseCovers
<1>4. TablesInv' /\ BoundInv'
  <2>1. sockets' \subseteq open' /\ new' \subseteq open'
    BY <1>2, <1>3 DEF Registers, TablesInv
  <2> QED BY <1>1, <1>2, <1>3, <2>1, TablesKept
<1>5. CountInv' /\ PlaceInv'
  BY <1>1, ScanAlone
<1>6. CursorInv'
  BY <1>1, <1>2 DEF CursorInv, scan
<1>7. ForeignInv'
  <2>1. CASE pc = "timers"
    BY <1>1, <1>2, <2>1 DEF ForeignInv, scan
  <2>2. CASE pc # "timers"
    <3>1. ~relays => f = fd /\ currentSocket' = NULL
      BY <1>1, <1>2, <2>2, Descriptors DEF CursorInv
    <3> QED BY <1>1, <1>2, <2>2, <3>1 DEF ForeignInv, scan
  <2> QED BY <2>1, <2>2
<1> QED BY <1>4, <1>5, <1>6, <1>7

LEMMA StutterKeeps == ASSUME IInv, UNCHANGED vars PROVE IInv'
<1>1. TablesInv' /\ BoundInv'
  BY DEF IInv, vars, tables, TablesInv, BoundInv
<1>2. CountInv' /\ PlaceInv'
  BY ScanAlone DEF IInv, vars
<1>3. CursorInv' /\ ForeignInv'
  BY DEF IInv, vars, scan, CursorInv, ForeignInv
<1> QED BY <1>1, <1>2, <1>3 DEF IInv

LEMMA Invariance == Spec => []IInv
<1>1. IInv /\ [Next]_vars => IInv'
  BY RegisterEarlyKeeps, RunServerKeeps, WaitKeeps, VisitKeeps, LookAtWriteKeeps, ReturnKeeps,
     EndScanKeeps, EndTimersKeeps, OperationKeeps, AcceptKeeps, ConnectKeeps, CloseKeeps,
     StutterKeeps
  DEF Next
<1> QED BY <1>1, InitIInv, PTL DEF Spec

-----------------------------------------------------------------------------
(* What select watches has an entry in the table, and the entries lead to  *)
(* open sockets (PancakeSelect.c:177).                                     *)
THEOREM TableCorrect == Spec => []TableMatches
<1>1. ASSUME IInv PROVE TypeOK
  <2>1. {open, new, readSet, writeSet, sockets, readable, writable} \subseteq SUBSET FDs
    BY <1>1 DEF IInv, TablesInv, CountInv
  <2>2. currentSocket \in FDs \union {NULL}
    BY <1>1 DEF IInv, CursorInv, TablesInv
  <2>3. fd \in 0..SetSize /\ numEvents \in 0..2 * Cardinality(FDs)
    BY <1>1 DEF IInv, CountInv
  <2>4. relays \in BOOLEAN /\ maxFD \in 0..SetSize
    BY <1>1 DEF IInv, BoundInv
  <2> QED BY <1>1, <2>1, <2>2, <2>3, <2>4 DEF IInv, PlaceInv, TypeOK
<1>2. IInv => TableMatches
  BY <1>1 DEF IInv, TablesInv, TableMatches
<1> QED BY <1>2, Invariance, PTL

(* However descriptors come and go, the bound of select covers those that  *)
(* are registered, as long as handlers do not relay (PancakeSelect.c:72).  *)
THEOREM BoundCorrect == Spec => []NobodyDeaf
<1>1. IInv => NobodyDeaf
  BY DEF IInv, TablesInv, BoundInv, NobodyDeaf
<1> QED BY <1>1, Invariance, PTL

(* No handler is called for a socket that was closed since select returned *)
(* (PancakeSelect.c:234).                                                  *)
THEOREM ClosedIsSilent == Spec => []NoFurtherEvents
<1>1. IInv => NoFurtherEvents
  BY DEF IInv, CursorInv, NoFurtherEvents
<1> QED BY <1>1, Invariance, PTL

(* A scan that stops when it has found all reports has skipped none        *)
(* (PancakeSelect.c:226).                                                  *)
THEOREM ScanCorrect == Spec => []NobodySkipped
<1> DEFINE ahead(S) == {f \in S : f < fd \/ (f = fd /\ pc = "scanning")}
<1>1. ASSUME IInv PROVE NobodySkipped
  <2>1. /\ fd \in Nat /\ numEvents \in Nat /\ Reports <= numEvents
        /\ readable \in SUBSET FDs /\ writable \in SUBSET FDs
    BY <1>1, CountsAtCursor DEF IInv, CountInv
  <2>2. ahead(readable) = UpTo(readable, readsTo)
    <3>1. CASE pc = "scanning"
      BY <2>1, <3>1, Descriptors DEF UpTo, readsTo
    <3>2. CASE pc # "scanning"
      BY <2>1, <3>2, Descriptors DEF UpTo, readsTo
    <3> QED BY <3>1, <3>2
  <2>3. ahead(writable) \subseteq UpTo(writable, writesTo)
    <3>1. CASE pc \in {"scanning", "reading", "looked"}
      BY <2>1, <3>1, Descriptors DEF UpTo, writesTo
    <3>2. CASE pc \notin {"scanning", "reading", "looked"}
      BY <2>1, <3>2, Descriptors DEF UpTo, writesTo
    <3> QED BY <3>1, <3>2
  <2> HIDE DEF ahead
  <2>4. UpTo(writable, writesTo) \in SUBSET FDs /\ UpTo(readable, readsTo) \in SUBSET FDs
    BY <2>1 DEF UpTo
  <2>5. /\ Cardinality(ahead(writable)) <= Cardinality(UpTo(writable, writesTo))
        /\ Cardinality(ahead(writable)) \in Nat
        /\ Cardinality(UpTo(writable, writesTo)) \in Nat
        /\ Cardinality(UpTo(readable, readsTo)) \in Nat
    BY <2>3, <2>4, FiniteDescriptors, FS_Subset
  <2>6. Cardinality(ahead(readable)) + Cardinality(ahead(writable)) <= numEvents
    BY <2>1, <2>2, <2>5 DEF Reports
  <2> QED BY <2>6 DEF NobodySkipped, ahead
<1> QED BY <1>1, Invariance, PTL

(* A socket that came in this scan is not called for the report of one     *)
(* that had its descriptor, as long as handlers do not relay.              *)
THEOREM ReportsAreOwn == Spec => []NoForeignEvents
<1>1. ASSUME IInv PROVE NoForeignEvents
  <2> SUFFICES ASSUME ~relays, Handling, currentSocket # NULL PROVE currentSocket \notin new
    BY DEF NoForeignEvents
  <2>1. currentSocket = fd /\ fd \in readable \union writable /\ fd \in Nat
    BY <1>1, CountsAtCursor DEF Handling, IInv, CursorInv
  <2>2. ~(fd > fd)
    BY <2>1
  <2> QED BY <1>1, <2>1, <2>2 DEF IInv, ForeignInv
<1> QED BY <1>1, Invariance, PTL
=============================================================================
