----------------------- MODULE PancakeSchedulerProofs -----------------------
(***************************************************************************)
(* Proofs about PancakeScheduler: for any number of events and owners, any *)
(* timeouts and any clock, the list of events stays in order of time, no   *)
(* instance is in two places, every pointer an owner keeps leads to its    *)
(* own waiting event, and the loop never sleeps through an event.          *)
(***************************************************************************)
EXTENDS PancakeScheduler, SequenceTheorems, WellFoundedInduction, TLAPS

(* Lemmas about the list.                                                  *)

(* Every non-empty set of naturals has a least element, and Min is it.     *)
LEMMA MinOfNaturals ==
  ASSUME NEW T \in SUBSET Nat, T # {}
  PROVE  Min(T) \in T /\ \A n \in T : Min(T) <= n
<1> DEFINE R == OpToRel(<, Nat)
<1>0. \A x, y \in Nat : x < y => <<x, y>> \in R
  BY DEF OpToRel
<1>1. IsWellFoundedOn(R, Nat)
  BY NatLessThanWellFounded
<1> HIDE DEF R
<1>2. PICK m \in T : \A n \in T : ~(<<n, m>> \in R)
  BY <1>1, WFMin
<1>3. \A n \in T : m <= n
  <2>1. SUFFICES ASSUME NEW n \in T PROVE m <= n
    OBVIOUS
  <2>2. m \in Nat /\ n \in Nat
    OBVIOUS
  <2>3. ~(n < m)
    BY <1>0, <1>2, <2>2
  <2> QED BY <2>2, <2>3
<1> QED BY <1>3 DEF Min

(* InsertAt, element by element.                                           *)
LEMMA InsertAtFacts ==
  ASSUME NEW S, NEW s \in Seq(S), NEW i \in 1..(Len(s) + 1), NEW e \in S
  PROVE  /\ InsertAt(s, i, e) \in Seq(S)
         /\ Len(InsertAt(s, i, e)) = Len(s) + 1
         /\ \A k \in 1..(Len(s) + 1) :
              InsertAt(s, i, e)[k] = IF k < i THEN s[k]
                                     ELSE IF k = i THEN e ELSE s[k-1]
<1> DEFINE a == SubSeq(s, 1, i-1)
           b == SubSeq(s, i, Len(s))
<1>1. /\ a \in Seq(S) /\ Len(a) = i - 1
      /\ \A k \in 1..(i-1) : a[k] = s[k]
  <2>1. \A k \in 1..(i-1) : s[k] \in S
    BY ElementOfSeq
  <2> QED BY <2>1, SubSeqProperties
<1>2. /\ b \in Seq(S) /\ Len(b) = Len(s) - i + 1
      /\ \A k \in 1..(Len(s) - i + 1) : b[k] = s[i+k-1]
  <2>1. \A k \in i..Len(s) : s[k] \in S
    BY ElementOfSeq
  <2> QED BY <2>1, SubSeqProperties
<1>3. <<e>> \in Seq(S) /\ Len(<<e>>) = 1 /\ <<e>>[1] = e
  OBVIOUS
<1> HIDE DEF a, b
<1> DEFINE c == a \o <<e>>
<1>4. /\ c \in Seq(S) /\ Len(c) = i
      /\ \A k \in 1..i : c[k] = IF k < i THEN s[k] ELSE e
  BY <1>1, <1>3, ConcatProperties
<1>7. InsertAt(s, i, e) = c \o b
  BY DEF InsertAt, a, b
<1> HIDE DEF c
<1>5. /\ c \o b \in Seq(S)
      /\ Len(c \o b) = Len(c) + Len(b)
      /\ \A k \in 1..(Len(c) + Len(b)) :
           (c \o b)[k] = IF k <= Len(c) THEN c[k] ELSE b[k - Len(c)]
  BY <1>2, <1>4, ConcatProperties
<1>6. \A k \in 1..(Len(s) + 1) : k > i => b[k - i] = s[k - 1]
  BY <1>2
<1>8. Len(s) \in Nat /\ Len(c) + Len(b) = Len(s) + 1
  BY <1>2, <1>4
<1>9. ASSUME NEW k \in 1..(Len(s) + 1)
      PROVE  (c \o b)[k] = IF k < i THEN s[k] ELSE IF k = i THEN e ELSE s[k-1]
  <2>1. CASE k <= i
    BY <1>4, <1>5, <1>8, <2>1
  <2>2. CASE k > i
    BY <1>4, <1>5, <1>6, <1>8, <2>2
  <2> QED BY <1>8, <2>1, <2>2
<1> QED BY <1>5, <1>7, <1>8, <1>9

(* RemoveAt, element by element.                                           *)
LEMMA RemoveAtFacts ==
  ASSUME NEW S, NEW s \in Seq(S), NEW i \in 1..Len(s)
  PROVE  /\ RemoveAt(s, i) \in Seq(S)
         /\ Len(RemoveAt(s, i)) = Len(s) - 1
         /\ \A k \in 1..(Len(s) - 1) :
              RemoveAt(s, i)[k] = IF k < i THEN s[k] ELSE s[k+1]
<1> DEFINE a == SubSeq(s, 1, i-1)
           b == SubSeq(s, i+1, Len(s))
<1>1. /\ a \in Seq(S) /\ Len(a) = i - 1
      /\ \A k \in 1..(i-1) : a[k] = s[k]
  <2>1. \A k \in 1..(i-1) : s[k] \in S
    BY ElementOfSeq
  <2> QED BY <2>1, SubSeqProperties
<1>2. /\ b \in Seq(S) /\ Len(b) = Len(s) - i
      /\ \A k \in 1..(Len(s) - i) : b[k] = s[i+k]
  <2>1. \A k \in (i+1)..Len(s) : s[k] \in S
    BY ElementOfSeq
  <2> QED BY <2>1, SubSeqProperties
<1> HIDE DEF a, b
<1>3. /\ a \o b \in Seq(S) /\ Len(a \o b) = Len(a) + Len(b)
      /\ \A k \in 1..(Len(a) + Len(b)) :
           (a \o b)[k] = IF k <= Len(a) THEN a[k] ELSE b[k - Len(a)]
  BY <1>1, <1>2, ConcatProperties
<1>4. \A k \in 1..(Len(s) - 1) : k >= i => b[k - (i - 1)] = s[k + 1]
  BY <1>2
<1>5. RemoveAt(s, i) = a \o b
  BY DEF RemoveAt, a, b
<1>6. Len(s) \in Nat /\ Len(a) + Len(b) = Len(s) - 1
  BY <1>1, <1>2
<1>7. ASSUME NEW k \in 1..(Len(s) - 1)
      PROVE  (a \o b)[k] = IF k < i THEN s[k] ELSE s[k+1]
  <2>1. CASE k < i
    BY <1>1, <1>3, <1>6, <2>1
  <2>2. CASE k >= i
    BY <1>1, <1>3, <1>4, <1>6, <2>2
  <2> QED BY <1>6, <2>1, <2>2
<1> QED BY <1>3, <1>5, <1>6, <1>7

-----------------------------------------------------------------------------
(* Insertion.                                                              *)

Injective(s) == \A i, j \in DOMAIN s : s[i] = s[j] => i = j

InOrder(s) == \A i, j \in DOMAIN s : i < j => time[s[i]] <= time[s[j]]

(* The loop that looks for room finds it when the new event belongs        *)
(* strictly inside the list.                                               *)
LEMMA GapExists ==
  ASSUME NEW s \in Seq(Event), NEW t \in Nat, time \in [Event -> Nat],
         InOrder(s), s # <<>>, time[s[1]] < t, t <= time[s[Len(s)]]
  PROVE  /\ Gaps(s, t) # {}
         /\ Min(Gaps(s, t)) \in 2..Len(s)
         /\ \A j \in 1..Len(s) :
              /\ j < Min(Gaps(s, t)) => time[s[j]] <= t
              /\ j >= Min(Gaps(s, t)) => t <= time[s[j]]
<1> DEFINE T == {i \in 1..Len(s) : t <= time[s[i]]}
<1>1. Len(s) \in Nat /\ Len(s) >= 1 /\ DOMAIN s = 1..Len(s)
  BY EmptySeq, LenProperties
<1>2. \A i \in 1..Len(s) : s[i] \in Event /\ time[s[i]] \in Nat
  BY <1>1, ElementOfSeq
<1>3. T \in SUBSET Nat /\ Len(s) \in T
  BY <1>1, <1>2
<1>4. PICK m \in T : \A n \in T : m <= n
  BY <1>3, MinOfNaturals
<1>5. m \in 2..Len(s) /\ t <= time[s[m]]
  BY <1>1, <1>2, <1>4
<1>6. m - 1 \in 1..Len(s) /\ time[s[m-1]] < t
  <2>1. m - 1 \in 1..Len(s) /\ ~(m <= m - 1)
    BY <1>1, <1>5
  <2>2. m - 1 \notin T
    BY <1>4, <2>1
  <2> QED BY <1>2, <2>1, <2>2
<1>7. m \in Gaps(s, t)
  BY <1>5, <1>6 DEF Gaps
<1>8. Gaps(s, t) \in SUBSET Nat
  BY <1>1 DEF Gaps
<1> DEFINE g == Min(Gaps(s, t))
<1>9. g \in Gaps(s, t)
  BY <1>7, <1>8, MinOfNaturals
<1> HIDE DEF g
<1>10. /\ g \in 2..Len(s) /\ g - 1 \in 1..Len(s) /\ g \in 1..Len(s)
       /\ time[s[g-1]] <= t /\ t <= time[s[g]]
  <2>1. /\ g \in 2..Len(s)
        /\ \/ time[s[g-1]] = t
           \/ time[s[g-1]] < t /\ t <= time[s[g]]
    BY <1>9 DEF Gaps
  <2>2. g - 1 \in 1..Len(s) /\ g - 1 < g /\ g \in 1..Len(s)
    BY <1>1, <2>1
  <2>3. time[s[g-1]] <= time[s[g]]
    BY <1>1, <2>2 DEF InOrder
  <2> QED BY <1>2, <2>1, <2>2, <2>3
<1>11. ASSUME NEW j \in 1..Len(s)
       PROVE  /\ j < g => time[s[j]] <= t
              /\ j >= g => t <= time[s[j]]
  <2>1. j = g - 1 \/ j < g - 1 \/ j = g \/ j > g
    BY <1>1, <1>10
  <2>2. CASE j < g - 1
    <3>1. time[s[j]] <= time[s[g-1]]
      BY <1>1, <1>10, <2>2 DEF InOrder
    <3> QED BY <1>2, <1>10, <2>2, <3>1
  <2>3. CASE j > g
    <3>1. time[s[g]] <= time[s[j]]
      BY <1>1, <1>10, <2>3 DEF InOrder
    <3> QED BY <1>1, <1>2, <1>10, <2>3, <3>1
  <2> QED BY <1>1, <1>10, <2>1, <2>2, <2>3
<1> QED BY <1>7, <1>10, <1>11 DEF g

(* Whatever branch of PancakeSchedule is taken, the event goes to a place  *)
(* with nothing later before it and nothing earlier after it.              *)
LEMMA InsertPlace ==
  ASSUME NEW s \in Seq(Event), NEW e \in Event, NEW t \in Nat,
         time \in [Event -> Nat], InOrder(s)
  PROVE  \E i \in 1..(Len(s) + 1) :
           /\ Insert(s, e, t) = InsertAt(s, i, e)
           /\ \A j \in 1..Len(s) : /\ j < i => time[s[j]] <= t
                                   /\ j >= i => t <= time[s[j]]
<1>1. Len(s) \in Nat /\ DOMAIN s = 1..Len(s) /\ (s # <<>> => Len(s) >= 1)
  BY EmptySeq, LenProperties
<1>2. \A i \in 1..Len(s) : s[i] \in Event /\ time[s[i]] \in Nat
  BY <1>1, ElementOfSeq
<1>3. SubSeq(s, 1, Len(s)) = s
  BY SubSeqFull
<1>4. SubSeq(s, Len(s) + 1, Len(s)) = <<>>
  BY <1>1, SubSeqEmpty
<1>5. SubSeq(s, 1, 0) = <<>>
  BY SubSeqEmpty
<1>6. Last(s) = s[Len(s)] /\ Head(s) = s[1]
  BY DEF Last
<1>7. CASE s = <<>> \/ time[Last(s)] <= t
  <2>1. Insert(s, e, t) = Append(s, e)
    BY <1>7 DEF Insert
  <2>2. InsertAt(s, Len(s) + 1, e) = Append(s, e)
    <3>1. Len(s) + 1 - 1 = Len(s)
      BY <1>1
    <3>2. <<e>> \in Seq(Event) /\ s \o <<e>> \in Seq(Event)
      BY ConcatProperties
    <3>3. (s \o <<e>>) \o <<>> = s \o <<e>>
      BY <3>2, ConcatEmptySeq
    <3>4. Append(s, e) = s \o <<e>>
      BY AppendIsConcat
    <3>5. InsertAt(s, Len(s) + 1, e)
            = (SubSeq(s, 1, Len(s) + 1 - 1) \o <<e>>) \o SubSeq(s, Len(s) + 1, Len(s))
      BY DEF InsertAt
    <3>6. SubSeq(s, 1, Len(s) + 1 - 1) = s
      BY <1>3, <3>1
    <3> QED BY <1>4, <3>3, <3>4, <3>5, <3>6
  <2>3. \A j \in 1..Len(s) : time[s[j]] <= t
    <3> SUFFICES ASSUME NEW j \in 1..Len(s) PROVE time[s[j]] <= t
      OBVIOUS
    <3>1. s # <<>> /\ Len(s) >= 1
      BY <1>1, EmptySeq
    <3>2. time[s[j]] <= time[s[Len(s)]]
      BY <1>1, <1>2, <3>1 DEF InOrder
    <3> QED BY <1>1, <1>2, <1>6, <1>7, <3>1, <3>2
  <2>4. Len(s) + 1 \in 1..(Len(s) + 1) /\ \A j \in 1..Len(s) : ~(j >= Len(s) + 1)
    BY <1>1
  <2> WITNESS Len(s) + 1 \in 1..(Len(s) + 1)
  <2> QED BY <2>1, <2>2, <2>3, <2>4
<1>8. CASE s # <<>> /\ ~(time[Last(s)] <= t) /\ time[Head(s)] >= t
  <2>1. Insert(s, e, t) = Cons(e, s)
    BY <1>8 DEF Insert
  <2>2. InsertAt(s, 1, e) = Cons(e, s)
    <3>1. <<>> \o <<e>> = <<e>>
      BY ConcatEmptySeq
    <3> QED BY <1>3, <1>5, <3>1 DEF InsertAt, Cons
  <2>3. \A j \in 1..Len(s) : t <= time[s[j]]
    <3> SUFFICES ASSUME NEW j \in 1..Len(s) PROVE t <= time[s[j]]
      OBVIOUS
    <3>1. time[s[1]] <= time[s[j]]
      BY <1>1, <1>2 DEF InOrder
    <3> QED BY <1>1, <1>2, <1>6, <1>8, <3>1
  <2>4. 1 \in 1..(Len(s) + 1) /\ \A j \in 1..Len(s) : ~(j < 1)
    BY <1>1
  <2> WITNESS 1 \in 1..(Len(s) + 1)
  <2> QED BY <2>1, <2>2, <2>3, <2>4
<1>9. CASE s # <<>> /\ ~(time[Last(s)] <= t) /\ ~(time[Head(s)] >= t)
  <2>1. time[s[1]] < t /\ t <= time[s[Len(s)]]
    BY <1>1, <1>2, <1>6, <1>9
  <2>2. Insert(s, e, t) = InsertAt(s, Min(Gaps(s, t)), e)
    BY <1>9, <2>1, GapExists DEF Insert
  <2> DEFINE g == Min(Gaps(s, t))
  <2>3. /\ g \in 2..Len(s)
        /\ \A j \in 1..Len(s) : /\ j < g => time[s[j]] <= t
                                /\ j >= g => t <= time[s[j]]
    BY <1>9, <2>1, GapExists
  <2> HIDE DEF g
  <2>4. g \in 1..(Len(s) + 1)
    BY <1>1, <2>3
  <2> WITNESS g \in 1..(Len(s) + 1)
  <2> QED BY <2>2, <2>3 DEF g
<1> QED BY <1>7, <1>8, <1>9

(* So the list stays ordered, takes the event in once, and loses none.     *)
LEMMA InsertFacts ==
  ASSUME NEW s \in Seq(Event), NEW e \in Event, NEW t \in Nat,
         time \in [Event -> Nat], InOrder(s), Injective(s), e \notin ToSet(s)
  PROVE  LET r == Insert(s, e, t)
             new == [time EXCEPT ![e] = t]
         IN  /\ r \in Seq(Event)
             /\ ToSet(r) = ToSet(s) \union {e}
             /\ Injective(r)
             /\ \A i, j \in DOMAIN r : i < j => new[r[i]] <= new[r[j]]
<1>1. PICK i \in 1..(Len(s) + 1) :
           /\ Insert(s, e, t) = InsertAt(s, i, e)
           /\ \A j \in 1..Len(s) : /\ j < i => time[s[j]] <= t
                                   /\ j >= i => t <= time[s[j]]
  BY InsertPlace
<1> DEFINE r == Insert(s, e, t)
           new == [time EXCEPT ![e] = t]
<1>0. r = InsertAt(s, i, e)
  BY <1>1
<1> HIDE DEF r
<1>2. /\ r \in Seq(Event)
      /\ Len(r) = Len(s) + 1
      /\ \A k \in 1..(Len(s) + 1) :
            r[k] = IF k < i THEN s[k] ELSE IF k = i THEN e ELSE s[k-1]
  <2>1. /\ InsertAt(s, i, e) \in Seq(Event)
        /\ Len(InsertAt(s, i, e)) = Len(s) + 1
    BY ONLY s \in Seq(Event), e \in Event, i \in 1..(Len(s) + 1), InsertAtFacts, SMT
  <2>2. \A k \in 1..(Len(s) + 1) :
          InsertAt(s, i, e)[k] = IF k < i THEN s[k]
                                 ELSE IF k = i THEN e ELSE s[k-1]
    <3> HIDE DEF new
    <3> QED BY ONLY s \in Seq(Event), i \in 1..(Len(s) + 1), InsertAtFacts, SMT
  <2> QED BY <1>0, <2>1, <2>2, Zenon
<1>3. /\ Len(s) \in Nat /\ DOMAIN s = 1..Len(s) /\ DOMAIN r = 1..(Len(s) + 1)
      /\ i \in Nat
  BY <1>2, LenProperties
<1>4. \A k \in 1..Len(s) : /\ s[k] \in Event /\ s[k] # e
                            /\ new[s[k]] = time[s[k]] /\ time[s[k]] \in Nat
  BY <1>3, ElementOfSeq DEF ToSet
<1>5. new[e] = t
  OBVIOUS
<1> HIDE DEF new
<1>6. ToSet(r) = ToSet(s) \union {e}
  <2>1. ASSUME NEW x \in ToSet(r) PROVE x \in ToSet(s) \union {e}
    <3>1. PICK k \in 1..(Len(s) + 1) : x = r[k]
      BY <1>3 DEF ToSet
    <3>2. CASE k < i
      <4>1. k \in 1..Len(s) /\ x = s[k]
        BY <1>2, <1>3, <3>1, <3>2
      <4> QED BY <1>3, <4>1 DEF ToSet
    <3>3. CASE k = i
      BY <1>2, <1>3, <3>1, <3>3
    <3>4. CASE k > i
      <4>1. k - 1 \in 1..Len(s) /\ x = s[k-1]
        BY <1>2, <1>3, <3>1, <3>4
      <4> QED BY <1>3, <4>1 DEF ToSet
    <3> QED BY <1>3, <3>2, <3>3, <3>4
  <2>2. ASSUME NEW x \in ToSet(s) PROVE x \in ToSet(r)
    <3>1. PICK k \in 1..Len(s) : x = s[k]
      BY <1>3 DEF ToSet
    <3>2. CASE k < i
      <4>1. k \in 1..(Len(s) + 1) /\ r[k] = x
        BY <1>2, <1>3, <3>1, <3>2
      <4> QED BY <1>3, <4>1 DEF ToSet
    <3>3. CASE k >= i
      <4>1. /\ k + 1 \in 1..(Len(s) + 1) /\ ~(k + 1 < i) /\ k + 1 # i
            /\ (k + 1) - 1 = k
        BY <1>3, <3>3
      <4>2. r[k + 1] = s[(k + 1) - 1]
        BY <1>2, <4>1
      <4> QED BY <1>3, <3>1, <4>1, <4>2 DEF ToSet
    <3> QED BY <1>3, <3>2, <3>3
  <2>3. e \in ToSet(r)
    <3>1. r[i] = e
      BY <1>2, <1>3
    <3> QED BY <1>3, <3>1 DEF ToSet
  <2> QED BY <2>1, <2>2, <2>3
<1>7. ASSUME NEW k \in DOMAIN r, NEW l \in DOMAIN r, k < l
      PROVE  r[k] # r[l] /\ new[r[k]] <= new[r[l]]
  <2>1. /\ k \in 1..(Len(s) + 1) /\ l \in 1..(Len(s) + 1)
        /\ r[k] = IF k < i THEN s[k] ELSE IF k = i THEN e ELSE s[k-1]
        /\ r[l] = IF l < i THEN s[l] ELSE IF l = i THEN e ELSE s[l-1]
    BY <1>2, <1>3
  <2>2. CASE l < i
    <3>1. /\ k \in 1..Len(s) /\ l \in 1..Len(s) /\ k # l
          /\ r[k] = s[k] /\ r[l] = s[l]
      BY <1>3, <1>7, <2>1, <2>2
    <3>2. s[k] # s[l] /\ time[s[k]] <= time[s[l]]
      BY <1>3, <1>7, <3>1 DEF Injective, InOrder
    <3> QED BY <1>4, <3>1, <3>2
  <2>3. CASE k < i /\ l = i
    <3>1. k \in 1..Len(s) /\ r[k] = s[k] /\ r[l] = e
      BY <1>3, <2>1, <2>3
    <3> QED BY <1>1, <1>4, <1>5, <2>3, <3>1
  <2>4. CASE k < i /\ l > i
    <3>1. /\ k \in 1..Len(s) /\ l - 1 \in 1..Len(s) /\ k < l - 1
          /\ r[k] = s[k] /\ r[l] = s[l-1]
      BY <1>3, <2>1, <2>4
    <3>2. s[k] # s[l-1] /\ time[s[k]] <= time[s[l-1]]
      BY <1>3, <3>1 DEF Injective, InOrder
    <3> QED BY <1>4, <3>1, <3>2
  <2>5. CASE k = i
    <3>1. l - 1 \in 1..Len(s) /\ l - 1 >= i /\ r[k] = e /\ r[l] = s[l-1]
      BY <1>3, <1>7, <2>1, <2>5
    <3> QED BY <1>1, <1>4, <1>5, <3>1
  <2>6. CASE k > i
    <3>0. /\ k - 1 \in 1..Len(s) /\ l - 1 \in 1..Len(s) /\ k - 1 < l - 1
          /\ ~(k < i) /\ k # i /\ ~(l < i) /\ l # i
      <4>1. k \in 1..(Len(s) + 1) /\ l \in 1..(Len(s) + 1)
        BY <1>3
      <4> QED BY <1>3, <1>7, <2>6, <4>1
    <3>1. /\ k - 1 \in 1..Len(s) /\ l - 1 \in 1..Len(s) /\ k - 1 < l - 1
          /\ r[k] = s[k-1] /\ r[l] = s[l-1]
      BY <2>1, <3>0
    <3>2. s[k-1] # s[l-1] /\ time[s[k-1]] <= time[s[l-1]]
      BY <1>3, <3>1 DEF Injective, InOrder
    <3> QED BY <1>4, <3>1, <3>2
  <2> QED BY <1>3, <1>7, <2>1, <2>2, <2>3, <2>4, <2>5, <2>6
<1>8. Injective(r)
  <2> SUFFICES ASSUME NEW k \in DOMAIN r, NEW l \in DOMAIN r, r[k] = r[l]
               PROVE  k = l
    BY DEF Injective
  <2>1. k < l \/ l < k \/ k = l
    BY <1>3
  <2> QED BY <1>7, <2>1
<1> QED BY <1>2, <1>6, <1>7, <1>8 DEF r, new

-----------------------------------------------------------------------------
(* Deletion.                                                               *)

(* Deleting an event keeps the order of the others and loses none of them. *)
LEMMA DeleteFacts ==
  ASSUME NEW s \in Seq(Event), NEW e \in ToSet(s),
         time \in [Event -> Nat], InOrder(s), Injective(s)
  PROVE  /\ Delete(s, e) \in Seq(Event)
         /\ ToSet(Delete(s, e)) = ToSet(s) \ {e}
         /\ Injective(Delete(s, e))
         /\ InOrder(Delete(s, e))
<1>1. Len(s) \in Nat /\ DOMAIN s = 1..Len(s)
  BY LenProperties
<1>2. PICK i \in 1..Len(s) : s[i] = e
  BY <1>1 DEF ToSet
<1>3. PositionOf(s, e) = i
  BY <1>1, <1>2 DEF PositionOf, Injective
<1> DEFINE r == Delete(s, e)
<1>4. /\ r \in Seq(Event)
      /\ Len(r) = Len(s) - 1
      /\ \A k \in 1..(Len(s) - 1) : r[k] = IF k < i THEN s[k] ELSE s[k+1]
  BY <1>3, RemoveAtFacts DEF Delete
<1> HIDE DEF r
<1>5. DOMAIN r = 1..(Len(s) - 1) /\ i \in Nat
  BY <1>1, <1>4, LenProperties
<1> DEFINE at(k) == IF k < i THEN k ELSE k + 1
<1>6. ASSUME NEW k \in 1..(Len(s) - 1)
      PROVE  at(k) \in 1..Len(s) /\ at(k) # i /\ r[k] = s[at(k)]
  <2>1. CASE k < i
    <3>1. at(k) = k /\ k \in 1..Len(s) /\ k # i
      BY <1>1, <1>5, <2>1
    <3> QED BY <1>4, <2>1, <3>1
  <2>2. CASE ~(k < i)
    <3>1. at(k) = k + 1 /\ k + 1 \in 1..Len(s) /\ k + 1 # i
      BY <1>1, <1>5, <2>2
    <3> QED BY <1>4, <2>2, <3>1
  <2> QED BY <2>1, <2>2
<1>7. \A k, l \in 1..(Len(s) - 1) : k < l => at(k) < at(l)
  BY <1>1, <1>5
<1>8. \A m \in 1..Len(s) : m # i => \E k \in 1..(Len(s) - 1) : at(k) = m
  <2> SUFFICES ASSUME NEW m \in 1..Len(s), m # i
               PROVE  \E k \in 1..(Len(s) - 1) : at(k) = m
    OBVIOUS
  <2>1. CASE m < i
    BY <1>1, <1>5, <2>1
  <2>2. CASE m > i
    <3>1. m - 1 \in 1..(Len(s) - 1) /\ at(m - 1) = m
      BY <1>1, <1>5, <2>2
    <3> QED BY <3>1
  <2> QED BY <1>1, <1>5, <2>1, <2>2
<1> HIDE DEF at
<1>9. ToSet(r) = ToSet(s) \ {e}
  <2>1. ASSUME NEW x \in ToSet(r) PROVE x \in ToSet(s) \ {e}
    <3>1. PICK k \in 1..(Len(s) - 1) : x = r[k]
      BY <1>5 DEF ToSet
    <3>2. x = s[at(k)] /\ at(k) \in DOMAIN s /\ at(k) # i
      BY <1>1, <1>6, <3>1
    <3>3. x # e
      BY <1>1, <1>2, <3>2 DEF Injective
    <3> QED BY <3>2, <3>3 DEF ToSet
  <2>2. ASSUME NEW x \in ToSet(s) \ {e} PROVE x \in ToSet(r)
    <3>1. PICK m \in 1..Len(s) : x = s[m]
      BY <1>1 DEF ToSet
    <3>2. m # i
      BY <1>2, <3>1
    <3>3. PICK k \in 1..(Len(s) - 1) : at(k) = m
      BY <1>8, <3>2
    <3>4. r[k] = x
      BY <1>6, <3>1, <3>3
    <3> QED BY <1>5, <3>4 DEF ToSet
  <2> QED BY <2>1, <2>2
<1>10. InOrder(r)
  <2> SUFFICES ASSUME NEW k \in DOMAIN r, NEW l \in DOMAIN r, k < l
               PROVE  time[r[k]] <= time[r[l]]
    BY DEF InOrder
  <2>1. k \in 1..(Len(s) - 1) /\ l \in 1..(Len(s) - 1)
    BY <1>5
  <2>2. /\ at(k) \in DOMAIN s /\ at(l) \in DOMAIN s /\ at(k) < at(l)
        /\ r[k] = s[at(k)] /\ r[l] = s[at(l)]
    BY <1>1, <1>6, <1>7, <2>1
  <2> QED BY <2>2 DEF InOrder
<1>11. Injective(r)
  <2> SUFFICES ASSUME NEW k \in DOMAIN r, NEW l \in DOMAIN r, r[k] = r[l]
               PROVE  k = l
    BY DEF Injective
  <2>1. at(k) = at(l)
    BY <1>1, <1>5, <1>6 DEF Injective
  <2>2. at(k) \in Nat /\ (k < l => at(k) < at(l)) /\ (l < k => at(l) < at(k))
    BY <1>1, <1>5, <1>6, <1>7
  <2> QED BY <1>1, <1>5, <2>1, <2>2
<1> QED BY <1>4, <1>9, <1>10, <1>11 DEF r

(* Deleting the head leaves the rest of the list, with the same tail.      *)
LEMMA DeleteHead ==
  ASSUME NEW s \in Seq(Event), s # <<>>, Injective(s)
  PROVE  LET r == Delete(s, Head(s)) IN
         IF Head(s) = Last(s) THEN r = <<>>
         ELSE r # <<>> /\ Head(r) = NextOf(s, Head(s)) /\ Last(r) = Last(s)
<1>1. /\ Len(s) \in Nat /\ Len(s) >= 1 /\ DOMAIN s = 1..Len(s)
      /\ Head(s) = s[1] /\ Last(s) = s[Len(s)]
  BY EmptySeq, LenProperties DEF Last
<1>2. PositionOf(s, Head(s)) = 1
  BY <1>1 DEF PositionOf, Injective
<1> DEFINE r == Delete(s, Head(s))
<1>3. /\ r \in Seq(Event) /\ Len(r) = Len(s) - 1
      /\ \A k \in 1..(Len(s) - 1) : r[k] = IF k < 1 THEN s[k] ELSE s[k+1]
  <2>1. 1 \in 1..Len(s)
    BY <1>1
  <2>2. /\ RemoveAt(s, 1) \in Seq(Event)
        /\ Len(RemoveAt(s, 1)) = Len(s) - 1
        /\ \A k \in 1..(Len(s) - 1) :
             RemoveAt(s, 1)[k] = IF k < 1 THEN s[k] ELSE s[k+1]
    BY <2>1, RemoveAtFacts, Zenon
  <2>3. r = RemoveAt(s, 1)
    BY <1>2 DEF Delete
  <2> HIDE DEF r
  <2> QED BY <2>2, <2>3, Zenon
<1> HIDE DEF r
<1>4. CASE Head(s) = Last(s)
  <2>1. Len(s) = 1
    BY <1>1, <1>4 DEF Injective
  <2> QED BY <1>3, <1>4, <2>1, EmptySeq DEF r
<1>5. CASE Head(s) # Last(s)
  <2>1. Len(s) >= 2
    BY <1>1, <1>5
  <2>2. r # <<>> /\ Head(r) = s[2] /\ Last(r) = s[Len(s)]
    BY <1>1, <1>3, <2>1, EmptySeq DEF Last
  <2>3. NextOf(s, Head(s)) = s[2]
    BY <1>2, <1>5 DEF NextOf
  <2> QED BY <1>1, <1>5, <2>2, <2>3 DEF r
<1> QED BY <1>4, <1>5

(* The elements of a list, its first and its last.                         *)
LEMMA ListFacts ==
  ASSUME NEW s \in Seq(Event)
  PROVE  /\ ToSet(s) \subseteq Event
         /\ \A i \in DOMAIN s : s[i] \in ToSet(s)
         /\ \A e \in ToSet(s) : \E i \in DOMAIN s : s[i] = e
         /\ s # <<>> => Head(s) \in ToSet(s) /\ Last(s) \in ToSet(s)
<1>1. Len(s) \in Nat /\ DOMAIN s = 1..Len(s) /\ (s # <<>> => Len(s) >= 1)
  BY EmptySeq, LenProperties
<1>2. \A i \in DOMAIN s : s[i] \in Event
  BY <1>1, ElementOfSeq
<1>3. s # <<>> => 1 \in DOMAIN s /\ Len(s) \in DOMAIN s
  BY <1>1
<1> QED BY <1>1, <1>2, <1>3 DEF ToSet, Last

-----------------------------------------------------------------------------
(* The inductive invariant: it is the conjunction of what is to be shown.  *)

IInv == TypeOK /\ SchedulerInv

(* The invariant holds when the process starts.                            *)
LEMMA InitIInv == Init => IInv
<1> SUFFICES ASSUME Init PROVE IInv
  OBVIOUS
<1>1. events = <<>> /\ events \in Seq(Event) /\ DOMAIN events = {} /\ ToSet(events) = {}
  BY EmptySeq DEF Init, ToSet
<1>2. TypeOK
  BY <1>1, TimeAssumption DEF Init, TypeOK, Phase
<1>3. Sorted /\ InstancesUnique
  BY <1>1 DEF Init, Sorted, InstancesUnique
<1>4. OwnersMatch /\ CursorValid /\ NeverSleepsThroughEvent
  BY <1>1 DEF Init, OwnersMatch, CursorValid, NeverSleepsThroughEvent
<1> QED BY <1>2, <1>3, <1>4 DEF IInv, SchedulerInv

(* The loop that goes to sleep asks for a timeout that covers the list.    *)
LEMMA SleepIsShort ==
  ASSUME IInv, EnterWait(events)
  PROVE  /\ wakeAt' \in Nat
         /\ clock < wakeAt' => \A e \in ToSet(events) : time[e] >= wakeAt'
<1>1. CASE events = <<>>
  <2>1. ToSet(events) = {}
    BY <1>1 DEF ToSet
  <2> QED BY <1>1, <2>1, TimeAssumption
      DEF IInv, TypeOK, EnterWait, NextExecutionTimeOffset
<1>2. CASE events # <<>>
  <2>1. /\ Head(events) = events[1] /\ 1 \in DOMAIN events
        /\ time[Head(events)] \in Nat /\ clock \in Nat
    BY <1>2, EmptySeq, LenProperties, ListFacts DEF IInv, TypeOK
  <2>2. \A e \in ToSet(events) : time[Head(events)] <= time[e]
    <3> SUFFICES ASSUME NEW e \in ToSet(events) PROVE time[Head(events)] <= time[e]
      OBVIOUS
    <3>1. PICK i \in DOMAIN events : events[i] = e
      BY ListFacts DEF IInv, TypeOK
    <3>2. i = 1 \/ 1 < i
      BY LenProperties DEF IInv, TypeOK
    <3> QED BY <2>1, <3>1, <3>2 DEF IInv, SchedulerInv, Sorted
  <2>3. \A e \in ToSet(events) : time[e] \in Nat
    BY ListFacts DEF IInv, TypeOK
  <2>4. wakeAt' = IF time[Head(events)] < clock THEN clock + 0
                  ELSE clock + (time[Head(events)] - clock)
    BY <1>2 DEF EnterWait, NextExecutionTimeOffset
  <2>5. CASE time[Head(events)] < clock
    BY <2>1, <2>4, <2>5
  <2>6. CASE ~(time[Head(events)] < clock)
    <3>1. wakeAt' = time[Head(events)]
      BY <2>1, <2>4, <2>6
    <3> QED BY <2>1, <2>2, <2>3, <3>1
  <2> QED BY <2>5, <2>6
<1> QED BY <1>1, <1>2

(* Both loops over the list begin with a valid cursor.                     *)
LEMMA CursorStarts ==
  ASSUME IInv, EnterList
  PROVE  /\ ev' \in Event \union {NULL} /\ tail' \in Event \union {NULL}
         /\ ev' = IF events = <<>> THEN NULL ELSE Head(events)
         /\ events # <<>> => tail' = Last(events)
  BY ListFacts DEF IInv, TypeOK, EnterList

(* A visit takes the head from the list and moves the cursor to the next.  *)
LEMMA VisitKeeps ==
  ASSUME IInv, Visit, pc \in {"running", "draining"}, ev # NULL,
         unusedEvents' \in SUBSET (unusedEvents \union {ev})
  PROVE  IInv'
<1>1. /\ events # <<>> /\ ev = Head(events) /\ tail = Last(events)
      /\ ev \in ToSet(events) /\ ev \in Event
  BY ListFacts DEF IInv, TypeOK, SchedulerInv, CursorValid
<1>2. events \in Seq(Event) /\ time \in [Event -> Nat]
  BY DEF IInv, TypeOK
<1>3. InOrder(events) /\ Injective(events)
  BY DEF IInv, SchedulerInv, Sorted, InstancesUnique, InOrder, Injective
<1>4. /\ events' \in Seq(Event) /\ ToSet(events') = ToSet(events) \ {ev}
      /\ Injective(events') /\ InOrder(events')
  BY <1>1, <1>2, <1>3, DeleteFacts DEF Visit
<1>5. IF ev = tail THEN events' = <<>>
      ELSE events' # <<>> /\ Head(events') = NextOf(events, ev) /\ Last(events') = tail
  BY <1>1, <1>2, <1>3, DeleteHead DEF Visit
<1>6. arg[ev] \in Owner /\ schedulerEvent[arg[ev]] = ev
  BY <1>1 DEF IInv, SchedulerInv, OwnersMatch
<1>7. /\ ev' = IF ev = tail THEN NULL ELSE NextOf(events, ev)
      /\ schedulerEvent' = [schedulerEvent EXCEPT ![arg[ev]] = NULL]
      /\ time' = time /\ arg' = arg /\ clock' = clock /\ doShutdown' = doShutdown
      /\ pc' = pc /\ wakeAt' = wakeAt /\ now' = now /\ tail' = tail
  BY DEF Visit, fields
<1>8. ev' \in Event \union {NULL}
  BY <1>4, <1>5, <1>7, ListFacts
<1>9. TypeOK'
  BY <1>1, <1>4, <1>6, <1>7, <1>8 DEF IInv, TypeOK
<1>10. Sorted'
  BY <1>4, <1>7 DEF Sorted, InOrder
<1>11. InstancesUnique'
  BY <1>4, <1>7 DEF IInv, SchedulerInv, InstancesUnique, Injective
<1>12. OwnersMatch'
  <2>1. ASSUME NEW o \in Owner, schedulerEvent'[o] # NULL
        PROVE  schedulerEvent'[o] \in ToSet(events') /\ arg'[schedulerEvent'[o]] = o
    <3>1. o # arg[ev] /\ schedulerEvent'[o] = schedulerEvent[o]
      BY <1>6, <1>7, <2>1 DEF IInv, TypeOK
    <3>2. schedulerEvent[o] \in ToSet(events) /\ arg[schedulerEvent[o]] = o
      BY <2>1, <3>1 DEF IInv, SchedulerInv, OwnersMatch
    <3> QED BY <1>4, <1>7, <3>1, <3>2
  <2>2. ASSUME NEW e \in ToSet(events')
        PROVE  arg'[e] \in Owner /\ schedulerEvent'[arg'[e]] = e
    <3>1. e \in ToSet(events) /\ e # ev
      BY <1>4
    <3>2. arg[e] \in Owner /\ schedulerEvent[arg[e]] = e
      BY <3>1 DEF IInv, SchedulerInv, OwnersMatch
    <3>3. arg[e] # arg[ev]
      BY <1>6, <3>1, <3>2
    <3> QED BY <1>6, <1>7, <3>2, <3>3 DEF IInv, TypeOK
  <2> QED BY <2>1, <2>2 DEF OwnersMatch
<1>13. CursorValid'
  BY <1>5, <1>7 DEF CursorValid
<1>14. NeverSleepsThroughEvent'
  BY <1>7 DEF NeverSleepsThroughEvent
<1> QED BY <1>9, <1>10, <1>11, <1>12, <1>13, <1>14 DEF IInv, SchedulerInv


-----------------------------------------------------------------------------
(* Every step keeps the invariant.                                         *)

(* A new event takes an instance that is not waiting, and goes to a place  *)
(* that keeps the list in order.                                           *)
LEMMA ScheduleKeeps ==
  ASSUME IInv, NEW o \in Owner, Schedule(o)
  PROVE  IInv'
<1>1. PICK timeout \in Timeouts, e \in Instances :
        LET t == clock + timeout IN
        /\ t <= MaxTime
        /\ time' = [time EXCEPT ![e] = t]
        /\ arg' = [arg EXCEPT ![e] = o]
        /\ schedulerEvent' = [schedulerEvent EXCEPT ![o] = e]
        /\ unusedEvents' = unusedEvents \ {e}
        /\ events' = Insert(events, e, t)
  BY DEF Schedule
<1> DEFINE t == clock + timeout
<1>2. e \in Event /\ e \notin ToSet(events) /\ t \in Nat
  BY TimeAssumption DEF IInv, TypeOK, SchedulerInv, InstancesUnique, Instances
<1>3. /\ events \in Seq(Event) /\ time \in [Event -> Nat]
      /\ InOrder(events) /\ Injective(events)
  BY DEF IInv, TypeOK, SchedulerInv, Sorted, InstancesUnique, InOrder, Injective
<1>4. /\ time' = [time EXCEPT ![e] = t] /\ arg' = [arg EXCEPT ![e] = o]
      /\ schedulerEvent' = [schedulerEvent EXCEPT ![o] = e]
      /\ unusedEvents' = unusedEvents \ {e} /\ events' = Insert(events, e, t)
      /\ clock' = clock /\ doShutdown' = doShutdown /\ pc' = pc /\ wakeAt' = wakeAt
      /\ now' = now /\ ev' = ev /\ tail' = tail
      /\ pc = "handling" /\ schedulerEvent[o] = NULL
  BY <1>1 DEF Schedule, loop
<1> HIDE DEF t
<1>5. /\ Insert(events, e, t) \in Seq(Event)
      /\ ToSet(Insert(events, e, t)) = ToSet(events) \union {e}
      /\ Injective(Insert(events, e, t))
      /\ \A i, j \in DOMAIN Insert(events, e, t) : i < j =>
           [time EXCEPT ![e] = t][Insert(events, e, t)[i]]
             <= [time EXCEPT ![e] = t][Insert(events, e, t)[j]]
  BY <1>2, <1>3, InsertFacts
<1>6. /\ events' \in Seq(Event) /\ ToSet(events') = ToSet(events) \union {e}
      /\ Injective(events')
  BY <1>4, <1>5
<1>7. TypeOK'
  BY <1>2, <1>4, <1>6, NullAssumption DEF IInv, TypeOK, Phase
<1>8. Sorted'
  BY <1>4, <1>5 DEF Sorted
<1>9. InstancesUnique'
  BY <1>4, <1>6 DEF IInv, SchedulerInv, InstancesUnique, Injective
<1>10. OwnersMatch'
  <2>1. ASSUME NEW p \in Owner, schedulerEvent'[p] # NULL
        PROVE  schedulerEvent'[p] \in ToSet(events') /\ arg'[schedulerEvent'[p]] = p
    <3>1. CASE p = o
      BY <1>2, <1>4, <1>6, <3>1 DEF IInv, TypeOK
    <3>2. CASE p # o
      <4>1. schedulerEvent'[p] = schedulerEvent[p]
        BY <1>4, <3>2 DEF IInv, TypeOK
      <4>2. schedulerEvent[p] \in ToSet(events) /\ arg[schedulerEvent[p]] = p
        BY <2>1, <4>1 DEF IInv, SchedulerInv, OwnersMatch
      <4> QED BY <1>2, <1>4, <1>6, <4>1, <4>2 DEF IInv, TypeOK
    <3> QED BY <3>1, <3>2
  <2>2. ASSUME NEW f \in ToSet(events')
        PROVE  arg'[f] \in Owner /\ schedulerEvent'[arg'[f]] = f
    <3>1. CASE f = e
      BY <1>2, <1>4, <3>1 DEF IInv, TypeOK
    <3>2. CASE f # e
      <4>1. f \in ToSet(events)
        BY <1>6, <2>2, <3>2
      <4>2. arg[f] \in Owner /\ schedulerEvent[arg[f]] = f /\ f \in Event
        BY <1>3, <4>1, ListFacts DEF IInv, SchedulerInv, OwnersMatch
      <4>3. arg[f] # o /\ arg'[f] = arg[f]
        BY <1>4, <3>2, <4>2, NullAssumption DEF IInv, TypeOK
      <4> QED BY <1>4, <4>2, <4>3 DEF IInv, TypeOK
    <3> QED BY <3>1, <3>2
  <2> QED BY <2>1, <2>2 DEF OwnersMatch
<1>11. CursorValid' /\ NeverSleepsThroughEvent'
  BY <1>4 DEF CursorValid, NeverSleepsThroughEvent
<1> QED BY <1>7, <1>8, <1>9, <1>10, <1>11 DEF IInv, SchedulerInv

(* An owner that unschedules takes out its own event and no other.         *)
LEMMA UnscheduleKeeps ==
  ASSUME IInv, NEW o \in Owner, Unschedule(o)
  PROVE  IInv'
<1> DEFINE e == schedulerEvent[o]
<1>1. e \in ToSet(events) /\ arg[e] = o /\ e \in Event
  BY ListFacts DEF Unschedule, IInv, TypeOK, SchedulerInv, OwnersMatch
<1>2. /\ events \in Seq(Event) /\ time \in [Event -> Nat]
      /\ InOrder(events) /\ Injective(events)
  BY DEF IInv, TypeOK, SchedulerInv, Sorted, InstancesUnique, InOrder, Injective
<1>3. /\ events' = Delete(events, e)
      /\ unusedEvents' = unusedEvents \union {e}
      /\ schedulerEvent' = [schedulerEvent EXCEPT ![o] = NULL]
      /\ time' = time /\ arg' = arg /\ clock' = clock /\ doShutdown' = doShutdown
      /\ pc' = pc /\ wakeAt' = wakeAt /\ now' = now /\ ev' = ev /\ tail' = tail
      /\ pc = "handling"
  BY DEF Unschedule, fields, loop
<1>4. e = schedulerEvent[o]
  OBVIOUS
<1> HIDE DEF e
<1>5. /\ events' \in Seq(Event) /\ ToSet(events') = ToSet(events) \ {e}
      /\ Injective(events') /\ InOrder(events')
  BY <1>1, <1>2, <1>3, DeleteFacts
<1>6. TypeOK'
  BY <1>1, <1>3, <1>5 DEF IInv, TypeOK
<1>7. Sorted'
  BY <1>3, <1>5 DEF Sorted, InOrder
<1>8. InstancesUnique'
  BY <1>3, <1>5 DEF IInv, SchedulerInv, InstancesUnique, Injective
<1>9. OwnersMatch'
  <2>1. ASSUME NEW p \in Owner, schedulerEvent'[p] # NULL
        PROVE  schedulerEvent'[p] \in ToSet(events') /\ arg'[schedulerEvent'[p]] = p
    <3>1. p # o /\ schedulerEvent'[p] = schedulerEvent[p]
      BY <1>3, <2>1 DEF IInv, TypeOK
    <3>2. schedulerEvent[p] \in ToSet(events) /\ arg[schedulerEvent[p]] = p
      BY <2>1, <3>1 DEF IInv, SchedulerInv, OwnersMatch
    <3> QED BY <1>1, <1>3, <1>5, <3>1, <3>2
  <2>2. ASSUME NEW f \in ToSet(events')
        PROVE  arg'[f] \in Owner /\ schedulerEvent'[arg'[f]] = f
    <3>1. f \in ToSet(events) /\ f # e
      BY <1>5
    <3>2. arg[f] \in Owner /\ schedulerEvent[arg[f]] = f
      BY <3>1 DEF IInv, SchedulerInv, OwnersMatch
    <3>3. arg[f] # o
      BY <1>4, <3>1, <3>2
    <3> QED BY <1>3, <3>2, <3>3 DEF IInv, TypeOK
  <2> QED BY <2>1, <2>2 DEF OwnersMatch
<1>10. CursorValid' /\ NeverSleepsThroughEvent'
  BY <1>3 DEF CursorValid, NeverSleepsThroughEvent
<1> QED BY <1>6, <1>7, <1>8, <1>9, <1>10 DEF IInv, SchedulerInv

(* A step that changes neither the list, its instances nor their owners    *)
(* keeps the invariant if it leaves the loop in a legal place.             *)
LEMMA LoopKeeps ==
  ASSUME IInv, UNCHANGED <<events, unusedEvents, fields, schedulerEvent>>,
         clock' \in Nat, doShutdown' \in BOOLEAN, pc' \in Phase, wakeAt' \in Nat,
         now' \in Nat, ev' \in Event \union {NULL}, tail' \in Event \union {NULL},
         CursorValid', NeverSleepsThroughEvent'
  PROVE  IInv'
<1>1. /\ events' = events /\ unusedEvents' = unusedEvents /\ time' = time /\ arg' = arg
      /\ schedulerEvent' = schedulerEvent
  BY DEF fields
<1>2. TypeOK'
  BY <1>1 DEF IInv, TypeOK
<1>3. Sorted' /\ InstancesUnique' /\ OwnersMatch'
  BY <1>1 DEF IInv, SchedulerInv, Sorted, InstancesUnique, OwnersMatch
<1> QED BY <1>2, <1>3 DEF IInv, SchedulerInv

(* The invariant holds after every step if it held before.                 *)
LEMMA StepIInv == IInv /\ [Next]_vars => IInv'
<1> SUFFICES ASSUME IInv, [Next]_vars PROVE IInv'
  OBVIOUS
<1>1. ASSUME UNCHANGED vars PROVE IInv'
  BY <1>1 DEF vars, fields, loop, IInv, TypeOK, SchedulerInv, Sorted, InstancesUnique,
     OwnersMatch, CursorValid, NeverSleepsThroughEvent
<1>2. ASSUME Tick PROVE IInv'
  <2>1. clock' \in Nat /\ clock < clock'
    BY <1>2 DEF Tick, IInv, TypeOK
  <2>2. CursorValid'
    BY <1>2 DEF Tick, loop, fields, IInv, SchedulerInv, CursorValid
  <2>3. NeverSleepsThroughEvent'
    BY <1>2, <2>1
       DEF Tick, loop, fields, IInv, TypeOK, SchedulerInv, NeverSleepsThroughEvent
  <2> QED BY <1>2, <2>1, <2>2, <2>3, LoopKeeps DEF Tick, loop, fields, IInv, TypeOK
<1>3. ASSUME Signal PROVE IInv'
  <2>1. CursorValid' /\ NeverSleepsThroughEvent'
    BY <1>3 DEF Signal, loop, fields, IInv, SchedulerInv, CursorValid,
       NeverSleepsThroughEvent
  <2> QED BY <1>3, <2>1, LoopKeeps DEF Signal, loop, fields, IInv, TypeOK
<1>4. ASSUME NEW o \in Owner, Schedule(o) \/ Unschedule(o) PROVE IInv'
  BY <1>4, ScheduleKeeps, UnscheduleKeeps
<1>5. ASSUME WakeUp PROVE IInv'
  <2>1. CursorValid' /\ NeverSleepsThroughEvent'
    BY <1>5 DEF WakeUp, CursorValid, NeverSleepsThroughEvent
  <2> QED BY <1>5, <2>1, LoopKeeps DEF WakeUp, fields, IInv, TypeOK, Phase
<1>6. ASSUME Interrupted PROVE IInv'
  <2>1. CASE doShutdown
    <3>1. CursorValid' /\ NeverSleepsThroughEvent'
      BY <1>6, <2>1, CursorStarts
         DEF Interrupted, EnterWait, CursorValid, NeverSleepsThroughEvent
    <3> QED BY <1>6, <2>1, <3>1, CursorStarts, LoopKeeps
            DEF Interrupted, EnterWait, fields, IInv, TypeOK, Phase
  <2>2. CASE ~doShutdown
    <3>1. EnterWait(events)
      BY <1>6, <2>2 DEF Interrupted
    <3>2. CursorValid' /\ NeverSleepsThroughEvent'
      BY <1>6, <2>2, <3>1, SleepIsShort
         DEF Interrupted, EnterWait, fields, CursorValid, NeverSleepsThroughEvent
    <3> QED BY <1>6, <2>2, <3>1, <3>2, SleepIsShort, LoopKeeps
            DEF Interrupted, EnterWait, fields, IInv, TypeOK, Phase
  <2> QED BY <2>1, <2>2
<1>7. ASSUME StartRun PROVE IInv'
  <2>1. CursorValid' /\ NeverSleepsThroughEvent'
    BY <1>7, CursorStarts DEF StartRun, CursorValid, NeverSleepsThroughEvent
  <2> QED BY <1>7, <2>1, CursorStarts, LoopKeeps DEF StartRun, fields, IInv, TypeOK, Phase
<1>8. ASSUME RunEvent PROVE IInv'
  BY <1>8, VisitKeeps DEF RunEvent
<1>9. ASSUME EndRun PROVE IInv'
  <2>1. CASE doShutdown
    <3>1. CursorValid' /\ NeverSleepsThroughEvent'
      BY <1>9, <2>1, CursorStarts
         DEF EndRun, EnterWait, CursorValid, NeverSleepsThroughEvent
    <3> QED BY <1>9, <2>1, <3>1, CursorStarts, LoopKeeps
            DEF EndRun, EnterWait, fields, IInv, TypeOK, Phase
  <2>2. CASE ~doShutdown
    <3>1. EnterWait(events)
      BY <1>9, <2>2 DEF EndRun
    <3>2. CursorValid' /\ NeverSleepsThroughEvent'
      BY <1>9, <2>2, <3>1, SleepIsShort
         DEF EndRun, EnterWait, fields, CursorValid, NeverSleepsThroughEvent
    <3> QED BY <1>9, <2>2, <3>1, <3>2, SleepIsShort, LoopKeeps
            DEF EndRun, EnterWait, fields, IInv, TypeOK, Phase
  <2> QED BY <2>1, <2>2
<1>10. ASSUME DrainEvent PROVE IInv'
  BY <1>10, VisitKeeps DEF DrainEvent, IInv, TypeOK
<1>11. ASSUME EndDrain PROVE IInv'
  <2>1. CursorValid' /\ NeverSleepsThroughEvent'
    BY <1>11 DEF EndDrain, CursorValid, NeverSleepsThroughEvent
  <2>2. TypeOK' /\ Sorted' /\ InstancesUnique' /\ OwnersMatch'
    BY <1>11 DEF EndDrain, fields, Phase, IInv, TypeOK, SchedulerInv, Sorted,
       InstancesUnique, OwnersMatch
  <2> QED BY <2>1, <2>2 DEF IInv, SchedulerInv
<1> QED BY <1>1, <1>2, <1>3, <1>4, <1>5, <1>6, <1>7, <1>8, <1>9, <1>10, <1>11
        DEF Next, LoopStep

-----------------------------------------------------------------------------
(* The theorems.                                                           *)

(* The invariant holds in every state of the scheduler and its loop.       *)
THEOREM Invariance == Spec => []IInv
<1>1. Init => IInv
  BY InitIInv
<1>2. IInv /\ [Next]_vars => IInv'
  BY StepIInv
<1> QED BY <1>1, <1>2, PTL DEF Spec

(* Every variable of the scheduler and of the loop keeps its type.         *)
THEOREM TypeCorrect == Spec => []TypeOK
<1>1. IInv => TypeOK
  BY DEF IInv
<1> QED BY <1>1, Invariance, PTL

(* The list stays in order, no instance is in two places, the pointer of   *)
(* every owner leads to its own waiting event, the cursors stay valid, and *)
(* the loop never sleeps through an event.                                 *)
THEOREM SchedulerCorrect == Spec => []SchedulerInv
<1>1. IInv => SchedulerInv
  BY DEF IInv
<1> QED BY <1>1, Invariance, PTL

-----------------------------------------------------------------------------
(* What the invariant gives: complete runs, a clean stop, the timers.      *)

(* What the loops know besides: the time they read is not in the future,   *)
(* and the process only stops once the list is empty.                      *)
LoopInv ==
  /\ pc = "running" => now <= clock
  /\ pc = "stopped" => events = <<>>

(* So does what the loops know besides.                                    *)
LEMMA StepLoopInv == IInv /\ LoopInv /\ [Next]_vars => LoopInv'
<1> SUFFICES ASSUME IInv, LoopInv, [Next]_vars PROVE LoopInv'
  OBVIOUS
<1>1. clock \in Nat /\ now \in Nat /\ NULL \notin Event /\ events \in Seq(Event)
  BY NullAssumption DEF IInv, TypeOK
<1>2. ASSUME UNCHANGED vars PROVE LoopInv'
  BY <1>2 DEF vars, loop, LoopInv
<1>3. ASSUME Tick PROVE LoopInv'
  BY <1>1, <1>3 DEF Tick, loop, LoopInv
<1>4. ASSUME NEW o \in Owner, Schedule(o) \/ Unschedule(o) PROVE LoopInv'
  BY <1>4 DEF Schedule, Unschedule, loop, LoopInv
<1>5. ASSUME EndDrain PROVE LoopInv'
  <2>1. events = <<>>
    BY <1>1, <1>5, ListFacts DEF EndDrain, IInv, SchedulerInv, CursorValid
  <2> QED BY <1>5, <2>1 DEF EndDrain, LoopInv
<1>6. ASSUME Signal \/ WakeUp \/ Interrupted \/ StartRun \/ EndRun PROVE LoopInv'
  BY <1>1, <1>6
     DEF Signal, WakeUp, Interrupted, StartRun, EndRun, EnterWait, loop, LoopInv
<1>7. ASSUME RunEvent \/ DrainEvent PROVE LoopInv'
  BY <1>7 DEF RunEvent, DrainEvent, Visit, LoopInv
<1> QED BY <1>2, <1>3, <1>4, <1>5, <1>6, <1>7 DEF Next, LoopStep

(* Both hold in every state.                                               *)
LEMMA LoopInvariance == Spec => [](IInv /\ LoopInv)
<1>1. Init => LoopInv
  BY DEF Init, LoopInv
<1> QED BY <1>1, StepLoopInv, Invariance, PTL DEF Spec

(* When the process stops, nothing is scheduled and no socket still keeps  *)
(* a pointer to an event.                                                  *)
THEOREM StopIsClean == Spec => []StopsClean
<1>1. IInv /\ LoopInv => StopsClean
  <2> SUFFICES ASSUME IInv, LoopInv, pc = "stopped"
               PROVE  events = <<>> /\ \A o \in Owner : schedulerEvent[o] = NULL
    BY DEF StopsClean
  <2>1. events = <<>> /\ ToSet(events) = {}
    BY DEF LoopInv, ToSet
  <2> QED BY <2>1 DEF IInv, SchedulerInv, OwnersMatch
<1> QED BY <1>1, LoopInvariance, PTL

(* A run leaves nothing behind that was due when it began.                 *)
THEOREM RunsAreComplete == Spec => RunIsComplete
<1> DEFINE A == pc = "running" /\ pc' # "running" => \A e \in ToSet(events) : time[e] > now
<1>1. IInv /\ [Next]_vars => A
  <2> SUFFICES ASSUME IInv, [Next]_vars, pc = "running", pc' # "running",
                      NEW e \in ToSet(events)
               PROVE  time[e] > now
    OBVIOUS
  <2>1. EndRun
    BY DEF Next, LoopStep, Tick, Signal, Schedule, Unschedule, WakeUp, Interrupted,
       StartRun, RunEvent, Visit, DrainEvent, EndDrain, vars, loop
  <2>2. /\ events # <<>> /\ events \in Seq(Event) /\ now \in Nat
        /\ time[e] \in Nat /\ time[Head(events)] \in Nat
    <3>1. events \in Seq(Event) /\ now \in Nat /\ time \in [Event -> Nat]
      BY DEF IInv, TypeOK
    <3>2. events # <<>>
      BY DEF ToSet
    <3>3. e \in Event /\ Head(events) \in Event
      BY <3>1, <3>2, ListFacts
    <3> QED BY <3>1, <3>2, <3>3
  <2>3. ev = Head(events) /\ ev # NULL
    BY <2>2, ListFacts, NullAssumption DEF IInv, SchedulerInv, CursorValid
  <2>4. time[Head(events)] > now
    BY <2>1, <2>2, <2>3 DEF EndRun
  <2>5. PICK i \in DOMAIN events : events[i] = e
    BY <2>2, ListFacts
  <2>6. /\ Head(events) = events[1] /\ 1 \in DOMAIN events
        /\ (i = 1 \/ 1 < i)
    BY <2>2, EmptySeq, LenProperties
  <2>7. time[Head(events)] <= time[e]
    BY <2>2, <2>5, <2>6 DEF IInv, SchedulerInv, Sorted
  <2> QED BY <2>2, <2>4, <2>7
<1>2. IInv /\ [Next]_vars => [A]_vars
  BY <1>1
<1> QED BY <1>2, Invariance, PTL DEF Spec, RunIsComplete

-----------------------------------------------------------------------------
(* The scheduler implements TimerQueue.                                    *)

(* The timer of an owner is the time of the event its pointer leads to.    *)
TimerOf ==
  [o \in Owner |-> IF schedulerEvent[o] = NULL THEN NULL ELSE time[schedulerEvent[o]]]

(* That is what the list says, in every state of the invariant.            *)
LEMMA ArmedIsTimerOf == IInv => Armed = TimerOf
<1> SUFFICES ASSUME IInv, NEW o \in Owner PROVE Armed[o] = TimerOf[o]
  BY DEF Armed, TimerOf
<1>1. CASE schedulerEvent[o] = NULL
  <2>1. ~\E e \in ToSet(events) : arg[e] = o
    BY <1>1, ListFacts, NullAssumption DEF IInv, TypeOK, SchedulerInv, OwnersMatch
  <2> QED BY <1>1, <2>1 DEF Armed, TimerOf
<1>2. CASE schedulerEvent[o] # NULL
  <2>1. schedulerEvent[o] \in ToSet(events) /\ arg[schedulerEvent[o]] = o
    BY <1>2 DEF IInv, SchedulerInv, OwnersMatch
  <2>2. \A e \in ToSet(events) : arg[e] = o => e = schedulerEvent[o]
    BY DEF IInv, SchedulerInv, OwnersMatch
  <2>3. (CHOOSE e \in ToSet(events) : arg[e] = o) = schedulerEvent[o]
    BY <2>1, <2>2
  <2> QED BY <1>2, <2>1, <2>3 DEF Armed, TimerOf
<1> QED BY <1>1, <1>2

(* Every step of the loop is a step of the timers, or leaves them alone.   *)
LEMMA StepTimers ==
  IInv /\ LoopInv /\ Armed = TimerOf /\ (Armed = TimerOf)' /\ [Next]_vars
    => [Timers!Next]_(Timers!vars)
<1> SUFFICES ASSUME IInv, LoopInv, Armed = TimerOf, (Armed = TimerOf)', [Next]_vars
             PROVE  Timers!Next \/ UNCHANGED Timers!vars
  OBVIOUS
<1> DEFINE closing == pc \in {"draining", "stopped"}
           expiring == pc \in {"running", "draining"}
<1>1. Armed = TimerOf /\ Armed' = TimerOf'
  OBVIOUS
<1>2. /\ schedulerEvent \in [Owner -> Event \union {NULL}] /\ time \in [Event -> Nat]
      /\ clock \in Nat /\ now \in Nat /\ NULL \notin Event /\ NULL \notin Nat
  BY NullAssumption DEF IInv, TypeOK
<1>3. ASSUME UNCHANGED <<schedulerEvent, time>> PROVE Armed' = Armed
  BY <1>1, <1>3 DEF TimerOf
<1>4. CASE Tick
  BY <1>3, <1>4 DEF Tick, fields, loop, Timers!Tick, Timers!Next
<1>5. CASE \E o \in Owner : Schedule(o)
  <2>1. PICK o \in Owner : Schedule(o)
    BY <1>5
  <2>2. PICK timeout \in Timeouts, e \in Instances :
          /\ clock + timeout <= MaxTime
          /\ time' = [time EXCEPT ![e] = clock + timeout]
          /\ schedulerEvent' = [schedulerEvent EXCEPT ![o] = e]
    BY <2>1 DEF Schedule
  <2>3. /\ e \in Event /\ e \notin ToSet(events) /\ schedulerEvent[o] = NULL
        /\ clock + timeout \in clock..MaxTime /\ pc = "handling" /\ pc' = pc
        /\ clock' = clock
    BY <1>2, <2>1, <2>2, TimeAssumption
       DEF Schedule, Instances, loop, IInv, TypeOK, SchedulerInv, InstancesUnique
  <2>4. \A p \in Owner \ {o} : schedulerEvent[p] # e
    BY <1>2, <2>3 DEF IInv, SchedulerInv, OwnersMatch
  <2>5. Armed' = [Armed EXCEPT ![o] = clock + timeout]
    BY <1>1, <1>2, <2>2, <2>3, <2>4 DEF TimerOf
  <2>6. Armed[o] = NULL
    BY <1>1, <2>3 DEF TimerOf
  <2> QED BY <2>3, <2>5, <2>6 DEF Timers!Arm, Timers!Next
<1>6. CASE \E o \in Owner : Unschedule(o)
  <2>1. PICK o \in Owner : Unschedule(o)
    BY <1>6
  <2>2. /\ schedulerEvent[o] # NULL /\ schedulerEvent' = [schedulerEvent EXCEPT ![o] = NULL]
        /\ time' = time /\ clock' = clock /\ pc = "handling" /\ pc' = pc
    BY <2>1 DEF Unschedule, fields, loop
  <2>3. Armed' = [Armed EXCEPT ![o] = NULL] /\ Armed[o] # NULL
    BY <1>1, <1>2, <2>2 DEF TimerOf
  <2> QED BY <2>2, <2>3 DEF Timers!Cancel, Timers!Next
<1>7. CASE RunEvent \/ DrainEvent
  <2> DEFINE o == arg[ev]
  <2>1. /\ ev # NULL /\ Visit /\ pc' = pc /\ clock' = clock /\ time' = time
        /\ schedulerEvent' = [schedulerEvent EXCEPT ![o] = NULL]
        /\ pc \in {"running", "draining"}
    BY <1>7 DEF RunEvent, DrainEvent, Visit, fields
  <2>2. ev \in ToSet(events) /\ ev \in Event
    BY <2>1, ListFacts DEF IInv, TypeOK, SchedulerInv, CursorValid
  <2>3. o \in Owner /\ schedulerEvent[o] = ev
    BY <2>2 DEF IInv, SchedulerInv, OwnersMatch
  <2>4. closing \/ time[ev] <= clock
    BY <1>2, <1>7, <2>2 DEF RunEvent, DrainEvent, LoopInv
  <2> HIDE DEF o
  <2>5. Armed' = [Armed EXCEPT ![o] = NULL] /\ Armed[o] = time[ev] /\ time[ev] # NULL
    BY <1>1, <1>2, <2>1, <2>2, <2>3 DEF TimerOf
  <2> QED BY <2>1, <2>3, <2>4, <2>5 DEF Timers!Expire, Timers!Next
<1>8. CASE Signal \/ WakeUp
  <2>1. Armed' = Armed /\ clock' = clock /\ closing' = closing /\ expiring' = expiring
    BY <1>3, <1>8 DEF Signal, WakeUp, fields, loop
  <2> QED BY <2>1 DEF Timers!vars
<1>9. CASE StartRun
  <2>1. /\ Armed' = Armed /\ clock' = clock
        /\ ~closing /\ ~closing' /\ ~expiring /\ expiring'
    BY <1>3, <1>9 DEF StartRun, fields
  <2> QED BY <2>1 DEF Timers!StartRun, Timers!Next
<1>10. CASE EndDrain
  <2>1. /\ Armed' = Armed /\ clock' = clock
        /\ closing /\ closing' /\ expiring /\ ~expiring'
    BY <1>3, <1>10 DEF EndDrain, fields
  <2>2. events = <<>>
    <3>1. ev = NULL /\ ev = IF events = <<>> THEN NULL ELSE Head(events)
      BY <1>10 DEF EndDrain, IInv, SchedulerInv, CursorValid
    <3>2. events # <<>> => Head(events) \in Event
      BY ListFacts DEF IInv, TypeOK
    <3> QED BY <1>2, <3>1, <3>2
  <2>3. \A o \in Owner : schedulerEvent[o] = NULL
    <3>1. ToSet(events) = {}
      BY <2>2, EmptySeq DEF ToSet
    <3> QED BY <3>1 DEF IInv, SchedulerInv, OwnersMatch
  <2>4. Armed = [o \in Owner |-> NULL]
    BY <1>1, <2>3 DEF TimerOf
  <2> QED BY <2>1, <2>4 DEF Timers!EndRun, Timers!Next
<1>11. CASE Interrupted
  <2>1. Armed' = Armed /\ clock' = clock /\ ~closing /\ ~expiring /\ expiring' = closing'
    BY <1>3, <1>11 DEF Interrupted, EnterWait, fields
  <2>2. closing' \in BOOLEAN
    OBVIOUS
  <2>3. CASE closing'
    BY <2>1, <2>3 DEF Timers!Close, Timers!Next
  <2>4. CASE ~closing'
    BY <2>1, <2>4 DEF Timers!vars
  <2> QED BY <2>3, <2>4
<1>12. CASE EndRun
  <2>1. Armed' = Armed /\ clock' = clock /\ ~closing /\ expiring /\ expiring' = closing'
    BY <1>3, <1>12 DEF EndRun, EnterWait, fields
  <2>2. closing' \in BOOLEAN
    OBVIOUS
  <2>3. CASE closing'
    BY <2>1, <2>3 DEF Timers!Close, Timers!Next
  <2>4. CASE ~closing'
    BY <2>1, <2>4 DEF Timers!EndRun, Timers!Next
  <2> QED BY <2>3, <2>4
<1>13. CASE UNCHANGED vars
  <2>1. Armed' = Armed /\ clock' = clock /\ closing' = closing /\ expiring' = expiring
    BY <1>3, <1>13 DEF vars, fields, loop
  <2> QED BY <2>1 DEF Timers!vars
<1> QED BY <1>4, <1>5, <1>6, <1>7, <1>8, <1>9, <1>10, <1>11, <1>12,
           <1>13 DEF Next, LoopStep

(* The sorted list of events with its cache, its cursors and its loop does *)
(* what a table with one timer for every owner does.                       *)
THEOREM SchedulerImplementsTimers == Spec => ImplementsTimers
<1>1. Init => Timers!Init
  <2> SUFFICES ASSUME Init PROVE Timers!Init
    OBVIOUS
  <2>1. Armed = [o \in Owner |-> NULL]
    BY InitIInv, ArmedIsTimerOf DEF Init, TimerOf
  <2> QED BY <2>1 DEF Init, Timers!Init
<1> QED BY <1>1, ArmedIsTimerOf, StepTimers, LoopInvariance, PTL
        DEF Spec, ImplementsTimers, Timers!Spec

=============================================================================
