----------------------------- MODULE RingProofs -----------------------------
(***************************************************************************)
(* Proofs about what the clients of a Streamer are told, for any number of *)
(* clients, any posts and any sizes of the ring, of the numbers and of the *)
(* requests: the ring holds the last messages, under different numbers,    *)
(* whole answers repeat exactly those a client asked for, and the ring and *)
(* the monitor implement the feed.                                         *)
(***************************************************************************)
EXTENDS StreamerProofs, FiniteSetTheorems

-----------------------------------------------------------------------------
(* The ring.                                                               *)

\* The place i of the ring, told from the history: what precedes lastSend is
\* the end of it, what follows the start of it once the ring is full.
PlaceOf(i) ==
    IF i < lastSend THEN recent[Len(recent) - lastSend + 1 + i]
    ELSE IF Len(recent) = RingSize THEN recent[i - lastSend + 1]
    ELSE None

\* The ring is filled from its place 0, then turns.
RingFits ==
    /\ lastSend \in 0..(RingSize - 1)
    /\ lastStreamed \in [0..(RingSize - 1) -> Diff \cup {None}]
    /\ \/ Len(recent) = lastSend
       \/ Len(recent) = RingSize
    /\ \A i \in 0..(RingSize - 1) : lastStreamed[i] = PlaceOf(i)

\* The number a places before n.
NumBefore(n, a) == IF a <= n THEN n - a ELSE n + MAX_NUM_MESS - a

\* Every message of the history has the number of its rank.
NumbersFit == \A k \in 1..Len(recent) : recent[k].num = NumBefore(num, Len(recent) + 1 - k)

RingInv == RingFits /\ NumbersFit

\* The history when the ring is not full, and when it is.
LEMMA PushPlaces ==
    ASSUME NEW s \in Seq(Diff), NEW m \in Diff, Len(s) <= RingSize
    PROVE  LET t == Push(s, m) IN
           /\ Len(s) < RingSize =>
                /\ Len(t) = Len(s) + 1
                /\ \A i \in 1..Len(s) : t[i] = s[i]
           /\ Len(s) = RingSize =>
                /\ Len(t) = RingSize
                /\ \A i \in 1..(RingSize - 1) : t[i] = s[i + 1]
           /\ t[Len(t)] = m
<1>1. CASE Len(s) < RingSize
  <2>1. Push(s, m) = Append(s, m)
    BY <1>1 DEF Push
  <2> QED
    BY <1>1, <2>1, StreamerAssumption
<1>2. CASE Len(s) = RingSize
  <2>1. Push(s, m) = Append(Tail(s), m)
    BY <1>2, StreamerAssumption DEF Push
  <2>2. Tail(s) \in Seq(Diff) /\ Len(Tail(s)) = RingSize - 1
    BY <1>2, StreamerAssumption
  <2>3. \A i \in 1..(RingSize - 1) : Tail(s)[i] = s[i + 1]
    BY <1>2, StreamerAssumption
  <2>4. \A i \in 1..(RingSize - 1) : Append(Tail(s), m)[i] = Tail(s)[i]
    BY <2>2
  <2>5. Append(Tail(s), m)[RingSize] = m /\ Len(Append(Tail(s), m)) = RingSize
    BY <2>2, StreamerAssumption
  <2> QED
    BY <1>2, <2>1, <2>3, <2>4, <2>5
<1> QED
  BY <1>1, <1>2, StreamerAssumption

\* A remainder does not see the divisor added.
LEMMA RemainderOfSum ==
    ASSUME NEW M \in Nat \ {0}, NEW n \in 0..(M - 1)
    PROVE  (n + M) % M = n
OBVIOUS

\* The ring is empty at first.
LEMMA RingInit == Init => RingInv
BY StreamerAssumption DEF Init, RingInv, RingFits, NumbersFit, PlaceOf

\* Build puts its message in its place, and takes the place of the oldest.
LEMMA RingBuild ==
    ASSUME IInv, RingInv, Build
    PROVE  RingInv'
<1> DEFINE m == DIFF(num, diffMess[current + 1])
           R == RingSize
           n == Len(recent)
<1>1. m \in Diff /\ m.num = num
  BY DIFFType DEF Build, IInv
<1>2. /\ recent' = Push(recent, m) /\ lastSend' = Succ(lastSend, R)
      /\ num' = Succ(num, MAX_NUM_MESS)
      /\ lastStreamed' = [lastStreamed EXCEPT ![lastSend] = m]
  BY DEF Build, NextSend, NextNum
<1>3. recent \in Seq(Diff) /\ n \in Nat /\ num \in 0..(MAX_NUM_MESS - 1)
  BY DEF IInv, CastOK
<1>4. lastSend \in 0..(R - 1) /\ R \in Nat \ {0} /\ MAX_NUM_MESS \in Nat /\ R <= MAX_NUM_MESS
  BY StreamerAssumption DEF RingInv, RingFits
<1>5. n <= R /\ (n = lastSend \/ n = R)
  BY <1>4 DEF RingInv, RingFits
<1>6. /\ n < R => Len(recent') = n + 1 /\ \A i \in 1..n : recent'[i] = recent[i]
      /\ n = R => Len(recent') = R /\ \A i \in 1..(R - 1) : recent'[i] = recent[i + 1]
      /\ recent'[Len(recent')] = m
  BY <1>1, <1>2, <1>3, <1>5, PushPlaces
<1>7. /\ lastStreamed' \in [0..(R - 1) -> Diff \cup {None}]
      /\ lastStreamed'[lastSend] = m
      /\ \A i \in 0..(R - 1) : i # lastSend => lastStreamed'[i] = lastStreamed[i]
  BY <1>1, <1>2, <1>4 DEF RingInv, RingFits
<1>8. \A i \in 0..(R - 1) : lastStreamed[i] = PlaceOf(i)
  BY DEF RingInv, RingFits
<1>9. RingFits'
  <2>1. lastSend' \in 0..(R - 1) /\ (Len(recent') = lastSend' \/ Len(recent') = R)
    BY <1>2, <1>3, <1>4, <1>5, <1>6 DEF Succ
  <2>2. ASSUME NEW i \in 0..(R - 1) PROVE lastStreamed'[i] = PlaceOf(i)'
    <3>1. CASE lastSend + 1 = R
      <4>1. lastSend' = 0 /\ Len(recent') = R
        BY <1>2, <1>3, <1>4, <1>5, <1>6, <3>1 DEF Succ
      <4>2. PlaceOf(i)' = recent'[i + 1]
        BY <4>1, <1>4 DEF PlaceOf
      <4>3. CASE i = lastSend
        BY <1>6, <1>7, <3>1, <4>1, <4>2, <4>3
      <4>4. CASE i < lastSend
        <5>1. lastStreamed'[i] = recent[n - lastSend + 1 + i]
          BY <1>7, <1>8, <4>4, <1>4 DEF PlaceOf
        <5> QED
          BY <1>3, <1>4, <1>5, <1>6, <3>1, <4>2, <4>4, <5>1
      <4> QED
        BY <1>4, <3>1, <4>3, <4>4
    <3>2. CASE lastSend + 1 < R
      <4>1. lastSend' = lastSend + 1
        BY <1>2, <1>4, <3>2 DEF Succ
      <4>2. CASE i = lastSend
        <5>1. PlaceOf(i)' = recent'[Len(recent') - lastSend' + 1 + i]
          BY <4>1, <4>2, <1>4 DEF PlaceOf
        <5> QED
          BY <1>3, <1>4, <1>5, <1>6, <1>7, <4>1, <4>2, <5>1
      <4>3. CASE i < lastSend
        <5>1. PlaceOf(i)' = recent'[Len(recent') - lastSend' + 1 + i]
          BY <4>1, <4>3, <1>4 DEF PlaceOf
        <5>2. lastStreamed'[i] = recent[n - lastSend + 1 + i]
          BY <1>7, <1>8, <4>3, <1>4 DEF PlaceOf
        <5> QED
          BY <1>3, <1>4, <1>5, <1>6, <4>1, <4>3, <5>1, <5>2
      <4>4. CASE i > lastSend /\ n = R
        <5>1. PlaceOf(i)' = recent'[i - lastSend' + 1]
          BY <1>4, <1>6, <4>1, <4>4 DEF PlaceOf
        <5>2. lastStreamed'[i] = recent[i - lastSend + 1]
          BY <1>7, <1>8, <4>4, <1>4 DEF PlaceOf
        <5> QED
          BY <1>4, <1>6, <4>1, <4>4, <5>1, <5>2
      <4>5. CASE i > lastSend /\ n = lastSend
        <5>1. Len(recent') # R /\ ~(i < lastSend')
          BY <1>3, <1>4, <1>6, <3>2, <4>1, <4>5
        <5>2. PlaceOf(i)' = None
          BY <5>1 DEF PlaceOf
        <5>3. lastStreamed'[i] = None
          BY <1>7, <1>8, <1>4, <3>2, <4>5 DEF PlaceOf
        <5> QED
          BY <5>2, <5>3
      <4> QED
        BY <1>4, <1>5, <4>2, <4>3, <4>4, <4>5
    <3> QED
      BY <1>4, <3>1, <3>2
  <2> QED
    BY <1>7, <2>1, <2>2 DEF RingFits
<1>10. NumbersFit'
  <2> SUFFICES ASSUME NEW k \in 1..Len(recent')
               PROVE  recent'[k].num = NumBefore(num', Len(recent') + 1 - k)
    BY DEF NumbersFit
  <2>1. Len(recent') \in Nat /\ Len(recent') <= R
    BY <1>3, <1>4, <1>5, <1>6
  <2>2. CASE k = Len(recent')
    <3>1. NumBefore(num', 1) = num
      BY <1>2, <1>3, <1>4 DEF NumBefore, Succ
    <3>2. Len(recent') + 1 - k = 1
      BY <2>1, <2>2
    <3> QED
      BY <1>1, <1>6, <2>2, <3>1, <3>2
  <2>3. ASSUME k < Len(recent'), NEW a \in 1..n, a < R
        PROVE  NumBefore(num', a + 1) = NumBefore(num, a)
    BY <1>2, <1>3, <1>4, <2>3 DEF NumBefore, Succ
  <2>4. CASE k < Len(recent')
    <3>1. \A j \in 1..n : recent[j].num = NumBefore(num, n + 1 - j)
      BY DEF RingInv, NumbersFit
    <3>2. CASE n < R
      <4>1. recent'[k] = recent[k] /\ k \in 1..n /\ n + 1 - k \in 1..n /\ n + 1 - k < R
        BY <1>3, <1>4, <1>6, <2>4, <3>2
      <4>2. Len(recent') + 1 - k = (n + 1 - k) + 1
        BY <1>3, <1>6, <3>2
      <4> QED
        BY <2>3, <2>4, <3>1, <4>1, <4>2
    <3>3. CASE n = R
      <4>1. recent'[k] = recent[k + 1] /\ k + 1 \in 1..n /\ n + 1 - (k + 1) \in 1..n /\ n + 1 - (k + 1) < R
        BY <1>3, <1>4, <1>6, <2>4, <3>3
      <4>2. Len(recent') + 1 - k = (n + 1 - (k + 1)) + 1
        BY <1>3, <1>6, <3>3
      <4> QED
        BY <2>3, <2>4, <3>1, <4>1, <4>2
    <3> QED
      BY <1>3, <1>4, <1>5, <3>2, <3>3
  <2> QED
    BY <2>1, <2>2, <2>4
<1> QED
  BY <1>9, <1>10 DEF RingInv

\* The other threads leave the ring alone.
LEMMA RingStep ==
    ASSUME IInv, RingInv, [Next]_vars
    PROVE  RingInv'
<1>1. CASE Build
  BY <1>1, RingBuild
<1>2. CASE ~Build
  <2>1. UNCHANGED <<num, ring>>
    BY <1>2 DEF Next, Cast, BuildFails, SendDatagram, SendFails, CastImage, TakeImage, SendImage,
                Bind, Idle, Accept, ReadRequest, Serve, ClientReads, EnterLast, WriteOldm,
                OldmFails,
                WriteEndm, EnterMess, WriteAckm, Close, Step, vars, casting
  <2> QED
    BY <2>1 DEF ring, RingInv, RingFits, PlaceOf, NumbersFit
<1> QED
  BY <1>1, <1>2

-----------------------------------------------------------------------------
(* What the ring shows.                                                    *)

\* The places the ring uses are the first ones.
LEMMA PlacesUsed ==
    ASSUME CastOK, RingInv
    PROVE  /\ Len(recent) \in 0..RingSize
           /\ \A i \in 0..(RingSize - 1) : lastStreamed[i] # None <=> i < Len(recent)
           /\ nbElements = Len(recent)
<1>1. /\ recent \in Seq(Diff) /\ Len(recent) \in 0..RingSize
      /\ lastSend \in 0..(RingSize - 1) /\ RingSize \in Nat \ {0}
      /\ Len(recent) = lastSend \/ Len(recent) = RingSize
  BY StreamerAssumption DEF CastOK, RingInv, RingFits
<1>2. \A k \in 1..Len(recent) : recent[k] \in Diff
  BY <1>1, ElementOfSeq
<1>3. ASSUME NEW i \in 0..(RingSize - 1)
      PROVE  lastStreamed[i] # None <=> i < Len(recent)
  <2>1. lastStreamed[i] = PlaceOf(i)
    BY DEF RingInv, RingFits
  <2>2. CASE i < lastSend
    <3>1. Len(recent) - lastSend + 1 + i \in 1..Len(recent) /\ i < Len(recent)
      BY <1>1, <2>2
    <3> QED
      BY <1>2, <2>1, <2>2, <3>1, DiffIsNotNone DEF PlaceOf
  <2>3. CASE ~(i < lastSend) /\ Len(recent) = RingSize
    <3>1. i - lastSend + 1 \in 1..Len(recent) /\ i < Len(recent)
      BY <1>1, <2>3
    <3> QED
      BY <1>2, <2>1, <2>3, <3>1, DiffIsNotNone DEF PlaceOf
  <2>4. CASE ~(i < lastSend) /\ Len(recent) # RingSize
    BY <1>1, <2>1, <2>4 DEF PlaceOf
  <2> QED
    BY <2>2, <2>3, <2>4
<1>4. {i \in DOMAIN lastStreamed : lastStreamed[i] # None} = 0..(Len(recent) - 1)
  <2>1. DOMAIN lastStreamed = 0..(RingSize - 1)
    BY DEF RingInv, RingFits
  <2> QED
    BY <1>1, <1>3, <2>1
<1>5. Cardinality(0..(Len(recent) - 1)) = Len(recent)
  <2>1. 0 \in Int /\ Len(recent) - 1 \in Int
    BY <1>1
  <2>2. Cardinality(0..(Len(recent) - 1)) =
          IF 0 > Len(recent) - 1 THEN 0 ELSE Len(recent) - 1 - 0 + 1
    BY <2>1, FS_Interval
  <2> QED
    BY <1>1, <2>2
<1> QED
  BY <1>1, <1>3, <1>4, <1>5 DEF nbElements

\* Counting back from lastSend, around the end of the array.
LEMMA RingFitsRecent ==
    ASSUME CastOK, RingInv
    PROVE  RingIsRecent
<1>1. /\ lastSend \in 0..(RingSize - 1) /\ RingSize \in Nat \ {0}
      /\ Len(recent) = lastSend \/ Len(recent) = RingSize
      /\ \A i \in 0..(RingSize - 1) : lastStreamed[i] = PlaceOf(i)
  BY StreamerAssumption DEF RingInv, RingFits
<1>2. ASSUME NEW k \in 1..Len(recent)
      PROVE  lastStreamed[(lastSend + RingSize - k) % RingSize] = recent[Len(recent) + 1 - k]
  <2>1. CASE k <= lastSend
    <3>1. (lastSend - k + RingSize) % RingSize = lastSend - k
      BY <1>1, <2>1, RemainderOfSum
    <3>2. lastSend + RingSize - k = lastSend - k + RingSize
      BY <1>1
    <3>3. lastSend - k \in 0..(RingSize - 1) /\ lastSend - k < lastSend
      BY <1>1, <2>1
    <3>4. Len(recent) - lastSend + 1 + (lastSend - k) = Len(recent) + 1 - k
      BY <1>1
    <3> QED
      BY <1>1, <3>1, <3>2, <3>3, <3>4 DEF PlaceOf
  <2>2. CASE k > lastSend
    <3>1. Len(recent) = RingSize /\ lastSend + RingSize - k \in 0..(RingSize - 1)
      BY <1>1, <2>2
    <3>2. (lastSend + RingSize - k) % RingSize = lastSend + RingSize - k
      BY <1>1, <3>1
    <3>3. ~(lastSend + RingSize - k < lastSend)
      BY <1>1, <3>1
    <3>4. lastSend + RingSize - k - lastSend + 1 = Len(recent) + 1 - k
      BY <1>1, <3>1
    <3> QED
      BY <1>1, <3>1, <3>2, <3>3, <3>4 DEF PlaceOf
  <2> QED
    BY <1>1, <2>1, <2>2
<1> QED
  BY <1>2, PlacesUsed DEF RingIsRecent

\* Different places of the history have different numbers.
LEMMA RanksDiffer ==
    ASSUME CastOK, RingInv, NEW j \in 1..Len(recent), NEW k \in 1..Len(recent), j # k
    PROVE  recent[j].num # recent[k].num
<1>1. /\ Len(recent) \in Nat /\ Len(recent) <= MAX_NUM_MESS /\ MAX_NUM_MESS \in Nat
      /\ num \in 0..(MAX_NUM_MESS - 1)
  BY PlacesUsed, StreamerAssumption DEF CastOK
<1>2. /\ recent[j].num = NumBefore(num, Len(recent) + 1 - j)
      /\ recent[k].num = NumBefore(num, Len(recent) + 1 - k)
  BY DEF RingInv, NumbersFit
<1>3. \A a, b \in 1..Len(recent) : a # b => NumBefore(num, a) # NumBefore(num, b)
  BY <1>1 DEF NumBefore
<1>4. /\ Len(recent) + 1 - j \in 1..Len(recent) /\ Len(recent) + 1 - k \in 1..Len(recent)
      /\ Len(recent) + 1 - j # Len(recent) + 1 - k
  BY <1>1
<1> QED
  BY <1>2, <1>3, <1>4

\* The history is spread over the ring, each message at one place.
LEMMA RingFitsDistinct ==
    ASSUME CastOK, RingInv
    PROVE  NumbersDistinct
<1> DEFINE rank(i) == IF i < lastSend THEN Len(recent) - lastSend + 1 + i ELSE i - lastSend + 1
<1>1. /\ lastSend \in 0..(RingSize - 1) /\ RingSize \in Nat \ {0}
      /\ Len(recent) = lastSend \/ Len(recent) = RingSize
      /\ \A i \in 0..(RingSize - 1) : lastStreamed[i] = PlaceOf(i)
      /\ DOMAIN lastStreamed = 0..(RingSize - 1)
  BY StreamerAssumption DEF RingInv, RingFits
<1> SUFFICES ASSUME NEW i \in 0..(RingSize - 1), NEW j \in 0..(RingSize - 1),
                    i # j, lastStreamed[i] # None, lastStreamed[j] # None
             PROVE  lastStreamed[i].num # lastStreamed[j].num
  BY <1>1 DEF NumbersDistinct
<1>2. i < Len(recent) /\ j < Len(recent)
  BY PlacesUsed
<1>3. rank(i) \in 1..Len(recent) /\ rank(j) \in 1..Len(recent) /\ rank(i) # rank(j)
  BY <1>1, <1>2
<1>4. lastStreamed[i] = recent[rank(i)] /\ lastStreamed[j] = recent[rank(j)]
  BY <1>1, <1>2 DEF PlaceOf
<1> QED
  BY <1>3, <1>4, RanksDiffer

-----------------------------------------------------------------------------
(* What a LAST is answered with.                                           *)

\* A function on 1..n is a sequence.
LEMMA FunctionIsSeq ==
    ASSUME NEW S, NEW n \in Nat, NEW f \in [1..n -> S]
    PROVE  f \in Seq(S) /\ Len(f) = n
OBVIOUS

\* Sequences are equal when their elements are.
LEMMA SameElements ==
    ASSUME NEW S, NEW s \in Seq(S), NEW t \in Seq(S), Len(s) = Len(t),
           \A i \in 1..Len(s) : s[i] = t[i]
    PROVE  s = t
OBVIOUS

\* An array of zero bytes is no message.
LEMMA ConvertibleIsDiff ==
    ASSUME NEW m \in Diff \cup {Zero}, Convertible(m)
    PROVE  m \in Diff
BY DEF Convertible, Zero

\* A DIFF is repeated as an OLDM.
LEMMA OldmType ==
    ASSUME NEW m \in Diff
    PROVE  DiffToOldm(m) \in Oldm
<1>1. m.text \in Texts /\ removeDefChar(m.text) \in Texts
  BY DEF Diff, removeDefChar, Texts
<1> QED
  BY <1>1 DEF DiffToOldm, Diff, Oldm

\* The elements of getLastMess are messages of the ring, and zeros.
LEMMA LastMessType ==
    ASSUME CastOK, RingInv, NEW nb \in 0..MaxLast
    PROVE  /\ getLastMess(nb) \in Seq(Diff \cup {Zero})
           /\ Len(getLastMess(nb)) = IF nb > nbElements THEN nbElements ELSE nb
<1> DEFINE D == Diff \cup {Zero}
           n == Len(recent)
<1>1. /\ lastSend \in 0..(RingSize - 1) /\ RingSize \in Nat \ {0}
      /\ n = lastSend \/ n = RingSize
      /\ n \in 0..RingSize /\ nbElements = n
  BY PlacesUsed, StreamerAssumption DEF RingInv, RingFits
<1>2. nb \in Nat /\ nb < RingSize
  BY StreamerAssumption
<1>3. \A i \in 0..(RingSize - 1) : i < n => lastStreamed[i] \in D
  BY PlacesUsed DEF RingInv, RingFits
<1>4. CASE nb > n
  <2>1. getLastMess(nb) = [i \in 1..n |-> lastStreamed[i - 1]]
    BY <1>1, <1>4 DEF getLastMess
  <2>2. [i \in 1..n |-> lastStreamed[i - 1]] \in [1..n -> D]
    BY <1>1, <1>3
  <2> QED
    BY <1>1, <1>4, <2>1, <2>2, FunctionIsSeq
<1>5. CASE ~(nb > n) /\ nb > lastSend
  <2> DEFINE e(i) == IF i <= nb - lastSend THEN lastStreamed[n - (nb - lastSend) + i - 1]
                     ELSE IF i <= lastSend THEN lastStreamed[i - 1]
                     ELSE Zero
  <2>1. getLastMess(nb) = [i \in 1..nb |-> e(i)]
    BY <1>1, <1>5 DEF getLastMess
  <2>2. ASSUME NEW i \in 1..nb PROVE e(i) \in D
    <3>1. CASE i <= nb - lastSend
      <4>1. n - (nb - lastSend) + i - 1 \in 0..(RingSize - 1) /\ n - (nb - lastSend) + i - 1 < n
        BY <1>1, <1>2, <1>5, <3>1
      <4> QED
        BY <1>3, <3>1, <4>1
    <3>2. CASE ~(i <= nb - lastSend) /\ i <= lastSend
      <4>1. i - 1 \in 0..(RingSize - 1) /\ i - 1 < n
        BY <1>1, <1>2, <3>2
      <4> QED
        BY <1>3, <3>2, <4>1
    <3> QED
      BY <3>1, <3>2
  <2>3. [i \in 1..nb |-> e(i)] \in [1..nb -> D]
    BY <2>2
  <2> HIDE DEF e
  <2> QED
    BY <1>1, <1>2, <1>5, <2>1, <2>3, FunctionIsSeq
<1>6. CASE ~(nb > n) /\ ~(nb > lastSend)
  <2> DEFINE e(i) == lastStreamed[lastSend - nb + i - 1]
  <2>1. getLastMess(nb) = [i \in 1..nb |-> e(i)]
    BY <1>1, <1>6 DEF getLastMess
  <2>2. ASSUME NEW i \in 1..nb PROVE e(i) \in D
    <3>1. lastSend - nb + i - 1 \in 0..(RingSize - 1) /\ lastSend - nb + i - 1 < n
      BY <1>1, <1>2, <1>6
    <3> QED
      BY <1>3, <3>1
  <2>3. [i \in 1..nb |-> e(i)] \in [1..nb -> D]
    BY <2>2
  <2> HIDE DEF e
  <2>4. getLastMess(nb) \in Seq(D) /\ Len(getLastMess(nb)) = nb
    BY <1>2, <2>1, <2>3, FunctionIsSeq
  <2> QED
    BY <1>1, <1>6, <2>4
<1> QED
  BY <1>1, <1>2, <1>4, <1>5, <1>6

\* The last n elements of a history.
LEMMA LastOfPlaces ==
    ASSUME NEW s \in Seq(Diff), NEW n \in Nat
    PROVE  LET k == IF n >= Len(s) THEN Len(s) ELSE n IN
           /\ LastOf(s, n) \in Seq(Diff) /\ Len(LastOf(s, n)) = k
           /\ \A i \in 1..k : LastOf(s, n)[i] = s[Len(s) - k + i]
<1>1. CASE n >= Len(s)
  BY <1>1 DEF LastOf
<1>2. CASE ~(n >= Len(s))
  <2>1. /\ SubSeq(s, Len(s) - n + 1, Len(s)) \in Seq(Diff)
        /\ Len(SubSeq(s, Len(s) - n + 1, Len(s))) = n
        /\ \A i \in 1..n : SubSeq(s, Len(s) - n + 1, Len(s))[i] = s[Len(s) - n + i]
    BY <1>2
  <2> QED
    BY <1>2, <2>1 DEF LastOf
<1> QED
  BY <1>1, <1>2

\* When getLastMess leaves no place unset, it has copied the last messages in
\* their order.  The loop that indexes the ring by the place in ret leaves the
\* last place unset, unless it has nothing to copy.
LEMMA LastMessIsRecent ==
    ASSUME CastOK, RingInv, NEW nb \in 0..MaxLast,
           \A i \in 1..Len(getLastMess(nb)) : Convertible(getLastMess(nb)[i])
    PROVE  getLastMess(nb) = LastOf(recent, nb)
<1> DEFINE n == Len(recent)
           g == getLastMess(nb)
           k == IF nb >= n THEN n ELSE nb
<1>1. /\ lastSend \in 0..(RingSize - 1) /\ RingSize \in Nat \ {0}
      /\ n = lastSend \/ n = RingSize
      /\ n \in 0..RingSize /\ nbElements = n
      /\ \A i \in 0..(RingSize - 1) : lastStreamed[i] = PlaceOf(i)
      /\ recent \in Seq(Diff)
  BY PlacesUsed, StreamerAssumption DEF RingInv, RingFits, CastOK
<1>2. nb \in Nat /\ nb < RingSize
  BY StreamerAssumption
<1>3. g \in Seq(Diff \cup {Zero}) /\ Len(g) = k
  BY LastMessType, <1>1, <1>2
<1>4. ASSUME NEW i \in 1..k PROVE g[i] = recent[n - k + i]
  <2>1. CASE nb > n
    <3>1. g[i] = lastStreamed[i - 1]
      BY <1>1, <2>1 DEF getLastMess
    <3>2. i - 1 \in 0..(RingSize - 1) /\ i - 1 < lastSend /\ n = lastSend /\ k = n
      BY <1>1, <1>2, <2>1
    <3> QED
      BY <1>1, <3>1, <3>2 DEF PlaceOf
  <2>2. CASE ~(nb > n) /\ nb > lastSend
    <3>1. n = RingSize /\ k = nb
      BY <1>1, <1>2, <2>2
    <3>2. lastSend = 0
      <4> SUFFICES ASSUME lastSend # 0 PROVE FALSE
        OBVIOUS
      <4>1. nb \in 1..nb /\ ~(nb <= nb - lastSend) /\ ~(nb <= lastSend)
        BY <1>1, <1>2, <2>2
      <4>2. g[nb] = Zero
        BY <1>1, <2>2, <4>1 DEF getLastMess
      <4>3. Convertible(Zero)
        BY <1>3, <3>1, <4>1, <4>2
      <4> QED
        BY <4>3 DEF Convertible, Zero
    <3>3. g[i] = lastStreamed[n - (nb - lastSend) + i - 1]
      BY <1>1, <1>2, <2>2, <3>1, <3>2 DEF getLastMess
    <3>4. n - (nb - lastSend) + i - 1 \in 0..(RingSize - 1)
      BY <1>1, <1>2, <3>1, <3>2
    <3>5. lastStreamed[n - (nb - lastSend) + i - 1] = recent[n - (nb - lastSend) + i - 1 - lastSend + 1]
      BY <1>1, <3>1, <3>2, <3>4 DEF PlaceOf
    <3>6. n - (nb - lastSend) + i - 1 - lastSend + 1 = n - k + i
      BY <1>1, <1>2, <3>1, <3>2
    <3> QED
      BY <3>3, <3>5, <3>6
  <2>3. CASE ~(nb > n) /\ ~(nb > lastSend)
    <3>1. g[i] = lastStreamed[lastSend - nb + i - 1] /\ k = nb
      BY <1>1, <1>2, <2>3 DEF getLastMess
    <3>2. lastSend - nb + i - 1 \in 0..(RingSize - 1) /\ lastSend - nb + i - 1 < lastSend
      BY <1>1, <1>2, <2>3, <3>1
    <3>3. lastStreamed[lastSend - nb + i - 1] = recent[n - lastSend + 1 + (lastSend - nb + i - 1)]
      BY <1>1, <3>2 DEF PlaceOf
    <3>4. n \in Int /\ lastSend \in Int /\ nb \in Int /\ i \in Int
      BY <1>1, <1>2, <3>1
    <3>5. n - lastSend + 1 + (lastSend - nb + i - 1) = n - nb + i
      BY <3>4
    <3> QED
      BY <3>1, <3>3, <3>5
  <2> QED
    BY <2>1, <2>2, <2>3
<1>5. /\ LastOf(recent, nb) \in Seq(Diff) /\ Len(LastOf(recent, nb)) = k
      /\ \A i \in 1..k : LastOf(recent, nb)[i] = recent[n - k + i]
  BY <1>1, <1>2, LastOfPlaces
<1>6. LastOf(recent, nb) \in Seq(Diff \cup {Zero})
  BY <1>5
<1> HIDE DEF g, k
<1>7. \A i \in 1..Len(g) : g[i] = LastOf(recent, nb)[i]
  BY <1>3, <1>4, <1>5
<1>8. g = LastOf(recent, nb)
  BY <1>3, <1>5, <1>6, <1>7, SameElements
<1> QED
  BY <1>8 DEF g

-----------------------------------------------------------------------------
(* The threads.                                                            *)

\* The main thread, and the lists the broadcasting threads go through.
ThreadsFit ==
    /\ server \in {"starting", "listening", "failed"}
    /\ monitor \in Conns \cup {None}
    /\ current < Len(diffMess) \/ (diffMess = <<>> /\ current = 0)
    /\ images \in Seq(STRING)
    /\ currentImage \in Nat
    /\ IF images = <<>> THEN imager = "none" ELSE currentImage < Len(images)
    /\ imager \in {"none", "build", "send", "dead"}
    /\ imager = "none" => images = <<>>
    /\ image \in {images[i] : i \in DOMAIN images} \cup {None}

\* What the threads of the connections work with.
ClientsOK ==
    /\ \A c \in Conns : req[c] \in Requests(c) \cup {None}
    /\ last \in [Conns -> Seq(Diff \cup {Zero})]
    /\ written \in [Conns -> Seq(Oldm \cup {Endm, Ackm})]
    /\ unread \in [Conns -> 0..Window]

\* The array the thread of c got.
LastMessOf(c) == getLastMess(req[c].nb)

\* The first messages of the array were written, and the others remain.
Copying(c) ==
    LET g == LastMessOf(c)
        k == Len(written[c])
    IN  /\ Len(last[c]) + k = Len(g)
        /\ \A i \in 1..Len(last[c]) : last[c][i] = g[k + i]
        /\ \A i \in 1..k : Convertible(g[i]) /\ written[c][i] = DiffToOldm(g[i])

\* The whole array was written, and ENDM.
Copied(c) ==
    LET g == LastMessOf(c)
    IN  /\ Len(written[c]) = Len(g) + 1
        /\ written[c][Len(g) + 1] = Endm
        /\ \A i \in 1..Len(g) : Convertible(g[i]) /\ written[c][i] = DiffToOldm(g[i])

\* A thread that writes has the monitor: the ring stays as it was when the
\* array was taken.
ClientFits(c) ==
    /\ pc[c] \in {"oldm", "ackm", "close"} => monitor = c
    /\ pc[c] \in {"last", "oldm"} => req[c] \in [type : {"LAST"}, nb : 0..MaxLast]
    /\ pc[c] \in {"mess", "ackm"} => req[c].type = "MESS"
    /\ pc[c] \in {"none", "read", "last", "mess"} => written[c] = <<>>
    /\ pc[c] = "oldm" => Copying(c)
    /\ pc[c] = "close" /\ req[c].type = "LAST" => req[c].nb \in 0..MaxLast /\ Copied(c)

AnswerInv ==
    /\ RingInv
    /\ ThreadsFit
    /\ ClientsOK
    /\ \A c \in Conns : ClientFits(c)

\* The type invariant, from its parts.
LEMMA TypeParts ==
    ASSUME IInv, AnswerInv
    PROVE  TypeOK
<1>1. /\ diffMess \in Seq(Post)
      /\ pc \in [Conns -> {"none", "read", "last", "oldm", "mess", "ackm", "close", "served", "hung"}]
      /\ current \in Nat /\ num \in 0..(MAX_NUM_MESS - 1) /\ recent \in Seq(Diff)
      /\ caster \in {"build", "send", "dead"} /\ packet \in Diff \cup {None} /\ air \in Diff \cup {None}
  BY DEF IInv, PostsOK, CastOK
<1>2. lastStreamed \in [0..(RingSize - 1) -> Diff \cup {None}] /\ lastSend \in 0..(RingSize - 1)
  BY DEF AnswerInv, RingInv, RingFits
<1> HIDE DEF IInv
<1> QED
  BY <1>1, <1>2 DEF TypeOK, AnswerInv, ThreadsFit, ClientsOK

\* At the start no reply is under way and the ring is unset.
LEMMA AnswerInit == Init => AnswerInv
<1> SUFFICES ASSUME Init PROVE AnswerInv
  OBVIOUS
<1>1. RingInv
  BY RingInit
<1>2. ThreadsFit
  <2>1. images \in Seq(STRING)
    <3>1. ImageFile # <<>> => Tail(ImageFile) \in Seq(STRING)
      BY StreamerAssumption
    <3>2. <<>> \in Seq(STRING)
      OBVIOUS
    <3>3. images = addImagesFromFile
      BY DEF Init
    <3> QED
      BY <3>1, <3>2, <3>3 DEF addImagesFromFile
  <2>2. diffMess \in Seq(Post)
    BY CastInit DEF IInv, PostsOK
  <2>3. images # <<>> => Len(images) > 0
    BY <2>1
  <2>4. diffMess # <<>> => Len(diffMess) > 0
    BY <2>2
  <2> QED
    BY <2>1, <2>3, <2>4 DEF Init, ThreadsFit
<1>3. ClientsOK
  BY StreamerAssumption DEF Init, ClientsOK
<1>4. ASSUME NEW c \in Conns PROVE ClientFits(c)
  BY DEF Init, ClientFits
<1> QED
  BY <1>1, <1>2, <1>3, <1>4 DEF AnswerInv

\* The lists only grow, and their indices turn.
LEMMA ThreadsStep ==
    ASSUME IInv, ThreadsFit, [Next]_vars
    PROVE  ThreadsFit'
<1> USE DEF ThreadsFit
<1>1. diffMess \in Seq(Post) /\ current \in Nat
  BY DEF IInv, PostsOK, CastOK
<1>2. CASE Build
  <2>1. current' = Succ(current, Len(diffMess)) /\ current < Len(diffMess)
    BY <1>2 DEF Build, Castable, NextCurrent
  <2>2. current' < Len(diffMess)
    BY <1>1, <2>1 DEF Succ
  <2> QED
    BY <1>2, <2>2 DEF Build, imaging
<1>3. CASE BuildFails \/ SendDatagram \/ SendFails \/ Idle \/ UNCHANGED vars
  BY <1>3 DEF BuildFails, SendDatagram, SendFails, Idle, vars, casting, imaging
<1>4. CASE TakeImage
  <2>1. images # <<>> /\ Len(images) \in Nat
    BY <1>4 DEF TakeImage
  <2>2. currentImage + 1 \in DOMAIN images
    BY <2>1
  <2>3. image' \in {images[i] : i \in DOMAIN images}
    BY <1>4, <2>2 DEF TakeImage
  <2>4. currentImage' \in Nat /\ currentImage' < Len(images)
    BY <1>4, <2>1 DEF TakeImage, NextImage, Succ
  <2> QED
    BY <1>4, <2>1, <2>3, <2>4 DEF TakeImage, casting
<1>5. CASE SendImage
  BY <1>5 DEF SendImage, casting
<1>6. CASE Bind
  BY <1>6 DEF Bind, casting, imaging
<1>7. ASSUME NEW c \in Conns, EnterMess(c) PROVE ThreadsFit'
  <2>1. Len(diffMess') = Len(diffMess) + 1
    BY <1>1, <1>7 DEF EnterMess
  <2>2. current < Len(diffMess')
    BY <1>1, <2>1
  <2> QED
    BY <1>7, <2>2 DEF EnterMess, Enter, Step, casting, imaging
<1>8. ASSUME NEW c \in Conns,
             \/ Accept(c) \/ ReadRequest(c) \/ ClientReads(c)
             \/ EnterLast(c) \/ WriteOldm(c) \/ OldmFails(c) \/ WriteEndm(c) \/ WriteAckm(c) \/ Close(c)
      PROVE  ThreadsFit'
  <2>1. UNCHANGED <<diffMess, current, images, currentImage, imager, image, server>>
    BY <1>8 DEF Accept, ReadRequest, ClientReads, EnterLast, WriteOldm, OldmFails, WriteEndm,
                WriteAckm, Close, Step, casting, imaging
  <2>2. monitor' \in Conns \cup {None}
    BY <1>8 DEF Accept, ReadRequest, ClientReads, EnterLast, WriteOldm, OldmFails, WriteEndm,
                WriteAckm, Close, Enter, Exit
  <2> QED
    BY <2>1, <2>2
<1> QED
  BY <1>2, <1>3, <1>4, <1>5, <1>6, <1>7, <1>8 DEF Next, Cast, CastImage, Serve

-----------------------------------------------------------------------------
(* The connections.                                                        *)

\* Every step leaves the requests and replies of the connections well typed.
LEMMA ClientTypesStep ==
    ASSUME IInv, AnswerInv, [Next]_vars
    PROVE  ClientsOK'
<1> USE DEF ClientsOK, Requests
<1>1. /\ DOMAIN req = Conns
      /\ \A c \in Conns : req[c] \in Requests(c) \cup {None}
      /\ last \in [Conns -> Seq(Diff \cup {Zero})]
      /\ written \in [Conns -> Seq(Oldm \cup {Endm, Ackm})]
      /\ unread \in [Conns -> 0..Window]
  BY DEF IInv, PostsOK, AnswerInv
<1>2. CASE Cast \/ CastImage \/ Bind \/ Idle \/ UNCHANGED vars
  <2>1. UNCHANGED clients
    BY <1>2 DEF Cast, Build, BuildFails, SendDatagram, SendFails, CastImage, TakeImage, SendImage,
                Bind, Idle, vars
  <2> QED
    BY <1>1, <2>1 DEF clients
<1>3. ASSUME NEW c \in Conns, NEW m \in Oldm \cup {Endm, Ackm}, Write(c, m)
      PROVE  /\ written' \in [Conns -> Seq(Oldm \cup {Endm, Ackm})]
             /\ unread' \in [Conns -> 0..Window]
  BY <1>1, <1>3, StreamerAssumption DEF Write
<1>4. ASSUME NEW c \in Conns, Accept(c) \/ OldmFails(c) \/ EnterMess(c) \/ Close(c) PROVE ClientsOK'
  BY <1>1, <1>4 DEF Accept, OldmFails, EnterMess, Close
<1>5. ASSUME NEW c \in Conns, ReadRequest(c) PROVE ClientsOK'
  BY <1>1, <1>5 DEF ReadRequest
<1>6. ASSUME NEW c \in Conns, ClientReads(c) PROVE ClientsOK'
  BY <1>1, <1>6, StreamerAssumption DEF ClientReads
<1>7. ASSUME NEW c \in Conns, EnterLast(c) PROVE ClientsOK'
  <2>1. req[c] \in [type : {"LAST"}, nb : 0..MaxLast]
    BY <1>7 DEF EnterLast, Step, AnswerInv, ClientFits
  <2>2. getLastMess(req[c].nb) \in Seq(Diff \cup {Zero})
    BY <2>1, LastMessType DEF IInv, AnswerInv
  <2> QED
    BY <1>1, <1>7, <2>2 DEF EnterLast
<1>8. ASSUME NEW c \in Conns, WriteOldm(c) PROVE ClientsOK'
  <2>1. last[c] \in Seq(Diff \cup {Zero}) /\ last[c] # <<>>
    BY <1>1, <1>8 DEF WriteOldm
  <2>2. Head(last[c]) \in Diff \cup {Zero} /\ Tail(last[c]) \in Seq(Diff \cup {Zero})
    BY <2>1
  <2>3. DiffToOldm(Head(last[c])) \in Oldm
    BY <1>8, <2>2, ConvertibleIsDiff, OldmType DEF WriteOldm
  <2>4. Write(c, DiffToOldm(Head(last[c])))
    BY <1>8 DEF WriteOldm
  <2> QED
    BY <1>1, <1>3, <1>8, <2>2, <2>3, <2>4 DEF WriteOldm
<1>9. ASSUME NEW c \in Conns, WriteEndm(c) PROVE ClientsOK'
  <2>1. Write(c, Endm) /\ UNCHANGED <<req, last>>
    BY <1>9 DEF WriteEndm
  <2> QED
    BY <1>1, <1>3, <2>1
<1>10. ASSUME NEW c \in Conns, WriteAckm(c) PROVE ClientsOK'
  <2>1. Write(c, Ackm) /\ UNCHANGED <<req, last>>
    BY <1>10 DEF WriteAckm
  <2> QED
    BY <1>1, <1>3, <2>1
<1> QED
  BY <1>2, <1>4, <1>5, <1>6, <1>7, <1>8, <1>9, <1>10 DEF Next, Serve

\* The array is the same while the ring and the request are.
LEMMA SameAnswer ==
    ASSUME NEW c, UNCHANGED <<lastStreamed, lastSend>>, req'[c] = req[c]
    PROVE  LastMessOf(c)' = LastMessOf(c)
<1>1. nbElements' = nbElements
  BY DEF nbElements
<1> QED
  BY <1>1 DEF LastMessOf, getLastMess

\* What holds of a connection holds after a step that leaves it alone, and
\* the ring too if it has the monitor.
LEMMA ClientFrame ==
    ASSUME NEW d \in Conns, ClientFits(d),
           pc'[d] = pc[d], req'[d] = req[d], last'[d] = last[d], written'[d] = written[d],
           pc[d] \in {"oldm", "ackm", "close"} => UNCHANGED <<monitor, lastStreamed, lastSend>>
    PROVE  ClientFits(d)'
<1>1. pc[d] \in {"oldm", "close"} => LastMessOf(d)' = LastMessOf(d)
  BY SameAnswer
<1> HIDE DEF LastMessOf
<1>2. pc[d] = "oldm" => Copying(d)'
  BY <1>1 DEF ClientFits, Copying
<1>3. pc[d] = "close" /\ req[d].type = "LAST" => Copied(d)'
  BY <1>1 DEF ClientFits, Copied
<1> QED
  BY <1>2, <1>3 DEF ClientFits

\* The broadcasting threads need the monitor to change the ring.
LEMMA CastClients ==
    ASSUME NEW d \in Conns, ClientFits(d),
           Cast \/ CastImage \/ Bind \/ Idle \/ UNCHANGED vars
    PROVE  ClientFits(d)'
<1>1. UNCHANGED <<pc, req, last, written, monitor>>
  BY DEF Cast, Build, BuildFails, SendDatagram, SendFails, CastImage, TakeImage, SendImage,
         Bind, Idle, vars, clients
<1>2. pc[d] \in {"oldm", "ackm", "close"} => UNCHANGED <<lastStreamed, lastSend>>
  <2>1. CASE Build
    BY <2>1, StreamerAssumption DEF Build, ClientFits
  <2>2. CASE ~Build
    BY <2>2 DEF Cast, BuildFails, SendDatagram, SendFails, CastImage, TakeImage, SendImage,
                Bind, Idle, vars, ring
  <2> QED
    BY <2>1, <2>2
<1> QED
  BY <1>1, <1>2, ClientFrame

\* The thread of a connection needs the monitor to enter it, and has it when
\* it leaves: it does not disturb another one.
LEMMA OtherClients ==
    ASSUME IInv, ClientsOK, NEW c \in Conns, NEW d \in Conns \ {c}, ClientFits(c), ClientFits(d),
           Accept(c) \/ ReadRequest(c) \/ Serve(c) \/ ClientReads(c)
    PROVE  ClientFits(d)'
<1> USE DEF Step
<1>1. /\ DOMAIN pc = Conns /\ DOMAIN req = Conns /\ DOMAIN last = Conns /\ DOMAIN written = Conns
  BY DEF IInv, PostsOK, ClientsOK
<1>2. pc'[d] = pc[d] /\ req'[d] = req[d] /\ last'[d] = last[d] /\ written'[d] = written[d]
  BY <1>1 DEF Accept, ReadRequest, Serve, ClientReads, EnterLast, WriteOldm, OldmFails, WriteEndm,
              EnterMess, WriteAckm, Close, Write
<1>3. UNCHANGED <<lastStreamed, lastSend>>
  BY DEF Accept, ReadRequest, Serve, ClientReads, EnterLast, WriteOldm, OldmFails, WriteEndm,
         EnterMess, WriteAckm, Close, ring
<1>4. pc[d] \in {"oldm", "ackm", "close"} => monitor' = monitor
  <2> SUFFICES ASSUME pc[d] \in {"oldm", "ackm", "close"} PROVE monitor' = monitor
    OBVIOUS
  <2>1. monitor = d /\ d # None /\ d # c
    BY StreamerAssumption DEF ClientFits
  <2>2. ~EnterLast(c) /\ ~EnterMess(c)
    BY <2>1 DEF EnterLast, EnterMess, Enter
  <2>3. ~OldmFails(c) /\ ~Close(c)
    BY <2>1 DEF OldmFails, Close, ClientFits
  <2> QED
    BY <2>2, <2>3 DEF Accept, ReadRequest, Serve, ClientReads, WriteOldm, WriteEndm, WriteAckm
<1> QED
  BY <1>2, <1>3, <1>4, ClientFrame

\* The thread of a connection takes the array, writes it from its start, then
\* ENDM: each message leaves the array for what was written.
LEMMA ClientStep ==
    ASSUME IInv, AnswerInv, NEW c \in Conns,
           Accept(c) \/ ReadRequest(c) \/ Serve(c) \/ ClientReads(c)
    PROVE  ClientFits(c)'
<1>1. /\ pc \in [Conns -> {"none", "read", "last", "oldm", "mess", "ackm", "close", "served", "hung"}]
      /\ DOMAIN req = Conns
      /\ req[c] \in Requests(c) \cup {None}
      /\ last \in [Conns -> Seq(Diff \cup {Zero})]
      /\ written \in [Conns -> Seq(Oldm \cup {Endm, Ackm})]
      /\ ClientFits(c)
  BY DEF IInv, PostsOK, AnswerInv, ClientsOK
<1>2. \A nb \in 0..MaxLast : getLastMess(nb) \in Seq(Diff \cup {Zero})
  BY LastMessType DEF IInv, AnswerInv
<1>3. ASSUME UNCHANGED <<lastStreamed, lastSend, req>> PROVE LastMessOf(c)' = LastMessOf(c)
  BY <1>3, SameAnswer
<1> HIDE DEF LastMessOf, IInv, AnswerInv
<1>4. CASE Accept(c)
  BY <1>1, <1>4 DEF Accept, ClientFits
<1>5. CASE ReadRequest(c)
  BY <1>1, <1>5 DEF ReadRequest, Requests, Step, ClientFits
<1>6. CASE EnterLast(c)
  <2>1. /\ pc[c] = "last" /\ pc'[c] = "oldm" /\ monitor' = c
        /\ written'[c] = <<>> /\ UNCHANGED <<lastStreamed, lastSend, req>>
        /\ last'[c] = LastMessOf(c) /\ req[c] \in [type : {"LAST"}, nb : 0..MaxLast]
    BY <1>1, <1>6 DEF EnterLast, Step, Enter, ring, ClientFits, LastMessOf
  <2>2. LastMessOf(c) \in Seq(Diff \cup {Zero})
    BY <1>2, <2>1 DEF LastMessOf
  <2>3. LastMessOf(c)' = LastMessOf(c)
    BY <1>3, <2>1
  <2>4. Copying(c)'
    BY <2>1, <2>2, <2>3 DEF Copying
  <2> QED
    BY <2>1, <2>4 DEF ClientFits
<1>7. CASE WriteOldm(c)
  <2> DEFINE g == LastMessOf(c)
             k == Len(written[c])
             m == Head(last[c])
  <2>1. /\ pc[c] = "oldm" /\ pc'[c] = "oldm"
        /\ UNCHANGED <<monitor, lastStreamed, lastSend, req>>
        /\ last[c] # <<>> /\ Convertible(m)
        /\ last'[c] = Tail(last[c]) /\ written'[c] = Append(written[c], DiffToOldm(m))
    BY <1>1, <1>7 DEF WriteOldm, Step, Write, ring
  <2>2. Copying(c) /\ monitor = c /\ req[c] \in [type : {"LAST"}, nb : 0..MaxLast]
    BY <1>1, <2>1 DEF ClientFits
  <2>3. g \in Seq(Diff \cup {Zero}) /\ LastMessOf(c)' = g
    BY <1>2, <1>3, <2>1, <2>2 DEF LastMessOf
  <2>4. last[c] \in Seq(Diff \cup {Zero}) /\ written[c] \in Seq(Oldm \cup {Endm, Ackm})
    BY <1>1
  <2> HIDE DEF g
  <2>5. /\ Len(last[c]) + k = Len(g)
        /\ \A i \in 1..Len(last[c]) : last[c][i] = g[k + i]
        /\ \A i \in 1..k : Convertible(g[i]) /\ written[c][i] = DiffToOldm(g[i])
    BY <2>2 DEF Copying, g
  <2>6. m = g[k + 1]
    <3>1. m = last[c][1] /\ 1 \in 1..Len(last[c])
      BY <2>1, <2>4
    <3> QED
      BY <2>5, <3>1
  <2>7. /\ Len(last'[c]) = Len(last[c]) - 1
        /\ \A i \in 1..Len(last'[c]) : last'[c][i] = last[c][i + 1]
    BY <2>1, <2>4
  <2>8. /\ Len(written'[c]) = k + 1
        /\ \A i \in 1..k : written'[c][i] = written[c][i]
        /\ written'[c][k + 1] = DiffToOldm(m)
    <3> DEFINE w == written[c]
               x == DiffToOldm(m)
    <3>1. w \in Seq(Oldm \cup {Endm, Ackm}) /\ k = Len(w) /\ written'[c] = Append(w, x)
      BY <2>1, <2>4
    <3> HIDE DEF w, x
    <3>2. Len(Append(w, x)) = Len(w) + 1 /\ \A i \in 1..Len(w) : Append(w, x)[i] = w[i]
      BY <3>1
    <3>3. Append(w, x)[Len(w) + 1] = x
      BY <3>1
    <3> QED
      BY <3>1, <3>2, <3>3 DEF w, x
  <2>9. Copying(c)'
    <3>1. k \in Nat /\ Len(last[c]) \in Nat /\ Len(last[c]) > 0
      BY <2>1, <2>4
    <3> DEFINE l == Len(last[c])
               l2 == Len(last'[c])
               k2 == Len(written'[c])
    <3>5. l + k = Len(g) /\ l2 = l - 1 /\ k2 = k + 1
      BY <2>5, <2>7, <2>8
    <3>6. l \in Nat /\ k \in Nat
      BY <3>1
    <3>2. l2 + k2 = Len(g)
      <4> HIDE DEF l, l2, k, k2
      <4>1. l2 + k2 = l + k
        BY <3>5, <3>6
      <4> QED
        BY <3>5, <4>1
    <3>3. ASSUME NEW i \in 1..l2 PROVE last'[c][i] = g[k2 + i]
      <4>1. i + 1 \in 1..l /\ k + (i + 1) = k2 + i
        <5> HIDE DEF l, l2, k, k2
        <5> QED
          BY <3>5, <3>6
      <4> QED
        BY <2>5, <2>7, <4>1
    <3>4. ASSUME NEW i \in 1..Len(written'[c])
          PROVE  Convertible(g[i]) /\ written'[c][i] = DiffToOldm(g[i])
      <4>1. i \in 1..k \/ i = k + 1
        BY <2>8, <3>1
      <4> QED
        BY <2>1, <2>5, <2>6, <2>8, <4>1
    <3> QED
      BY <2>3, <3>2, <3>3, <3>4 DEF Copying
  <2> QED
    BY <2>1, <2>2, <2>9 DEF ClientFits
<1>8. CASE OldmFails(c)
  BY <1>1, <1>8 DEF OldmFails, Step, ClientFits
<1>9. CASE WriteEndm(c)
  <2> DEFINE g == LastMessOf(c)
             w == written[c]
  <2>1. /\ pc[c] = "oldm" /\ pc'[c] = "close"
        /\ UNCHANGED <<monitor, lastStreamed, lastSend, req>>
        /\ last[c] = <<>> /\ written'[c] = Append(w, Endm)
    BY <1>1, <1>9 DEF WriteEndm, Step, Write, ring
  <2>2. Copying(c) /\ monitor = c /\ req[c] \in [type : {"LAST"}, nb : 0..MaxLast]
    BY <1>1, <2>1 DEF ClientFits
  <2>3. g \in Seq(Diff \cup {Zero}) /\ LastMessOf(c)' = g /\ w \in Seq(Oldm \cup {Endm, Ackm})
    BY <1>1, <1>2, <1>3, <2>1, <2>2 DEF LastMessOf
  <2> HIDE DEF g
  <2>4. Len(g) = Len(w) /\ \A i \in 1..Len(g) : Convertible(g[i]) /\ w[i] = DiffToOldm(g[i])
    BY <2>1, <2>2, <2>3 DEF Copying, g
  <2> HIDE DEF w
  <2>5. /\ Len(Append(w, Endm)) = Len(w) + 1 /\ Append(w, Endm)[Len(w) + 1] = Endm
        /\ \A i \in 1..Len(w) : Append(w, Endm)[i] = w[i]
    BY <2>3
  <2>6. Copied(c)'
    BY <2>1, <2>3, <2>4, <2>5 DEF Copied
  <2> QED
    BY <2>1, <2>2, <2>6 DEF ClientFits
<1>10. CASE EnterMess(c)
  BY <1>1, <1>10 DEF EnterMess, Enter, Step, ClientFits
<1>11. CASE WriteAckm(c)
  <2>1. pc'[c] = "close" /\ req'[c].type = "MESS" /\ monitor' = c
    BY <1>1, <1>11 DEF WriteAckm, Step, ClientFits
  <2> QED
    BY <2>1 DEF ClientFits
<1>12. CASE Close(c)
  BY <1>1, <1>12 DEF Close, Step, ClientFits
<1>13. CASE ClientReads(c)
  <2>1. UNCHANGED <<monitor, lastStreamed, lastSend, pc, req, last, written>>
    BY <1>13 DEF ClientReads, ring
  <2> QED
    BY <1>1, <2>1, ClientFrame
<1> QED
  BY <1>4, <1>5, <1>6, <1>7, <1>8, <1>9, <1>10, <1>11, <1>12, <1>13 DEF Serve

\* Every step of the broadcast or of a connection keeps the invariant of the
\* replies.
LEMMA AnswerStep ==
    ASSUME IInv, AnswerInv, [Next]_vars
    PROVE  AnswerInv'
<1>1. RingInv' /\ ThreadsFit' /\ ClientsOK'
  BY RingStep, ThreadsStep, ClientTypesStep DEF AnswerInv
<1>2. ASSUME NEW d \in Conns PROVE ClientFits(d)'
  <2>1. ClientsOK /\ \A c \in Conns : ClientFits(c)
    BY DEF AnswerInv
  <2>2. CASE Cast \/ CastImage \/ Bind \/ Idle \/ UNCHANGED vars
    BY <2>1, <2>2, CastClients
  <2>3. ASSUME NEW c \in Conns, Accept(c) \/ ReadRequest(c) \/ Serve(c) \/ ClientReads(c)
        PROVE  ClientFits(d)'
    <3>1. CASE c = d
      BY <2>3, <3>1, ClientStep
    <3>2. CASE c # d
      BY <2>1, <2>3, <3>2, OtherClients
    <3> QED
      BY <3>1, <3>2
  <2> QED
    BY <2>2, <2>3 DEF Next
<1> QED
  BY <1>1, <1>2 DEF AnswerInv

\* A whole answer is the end of the history.
LEMMA AnswerFits ==
    ASSUME IInv, AnswerInv, NEW c \in Conns, Copied(c), req[c].nb \in 0..MaxLast
    PROVE  written[c] = Append(Olds(LastOf(recent, req[c].nb)), Endm)
<1> DEFINE g == LastMessOf(c)
           S == Oldm \cup {Endm, Ackm}
<1>1. CastOK /\ RingInv /\ written[c] \in Seq(S)
  BY DEF IInv, AnswerInv, ClientsOK
<1>2. g \in Seq(Diff \cup {Zero})
  BY <1>1, LastMessType DEF LastMessOf
<1>3. /\ Len(written[c]) = Len(g) + 1 /\ written[c][Len(g) + 1] = Endm
      /\ \A i \in 1..Len(g) : Convertible(g[i]) /\ written[c][i] = DiffToOldm(g[i])
  BY DEF Copied
<1>4. g = LastOf(recent, req[c].nb)
  BY <1>1, <1>3, LastMessIsRecent DEF LastMessOf
<1> HIDE DEF g
<1>5. ASSUME NEW i \in 1..Len(g) PROVE DiffToOldm(g[i]) \in S
  <2>1. g[i] \in Diff \cup {Zero}
    BY <1>2, ElementOfSeq
  <2> QED
    BY <1>3, <2>1, ConvertibleIsDiff, OldmType
<1>6. Olds(g) \in [1..Len(g) -> S] /\ \A i \in 1..Len(g) : Olds(g)[i] = DiffToOldm(g[i])
  BY <1>5 DEF Olds
<1>7. Olds(g) \in Seq(S) /\ Len(Olds(g)) = Len(g)
  BY <1>2, <1>6, FunctionIsSeq
<1> DEFINE o == Olds(g)
           a == Append(o, Endm)
<1> HIDE DEF o
<1>8. /\ a \in Seq(S) /\ Len(a) = Len(g) + 1 /\ a[Len(g) + 1] = Endm
      /\ \A i \in 1..Len(g) : a[i] = o[i]
  BY <1>7 DEF o
<1>9. \A i \in 1..Len(written[c]) : written[c][i] = a[i]
  BY <1>2, <1>3, <1>6, <1>8 DEF o
<1>10. written[c] = a
  BY <1>1, <1>3, <1>8, <1>9, SameElements
<1> QED
  BY <1>4, <1>10 DEF o

\* Every whole answer is.
LEMMA AnswersFit == IInv /\ AnswerInv => AnswerIsRecent
<1> SUFFICES ASSUME IInv, AnswerInv, NEW c \in Conns, pc[c] = "close", req[c].type = "LAST"
             PROVE  written[c] = Append(Olds(LastOf(recent, req[c].nb)), Endm)
  BY DEF AnswerIsRecent
<1>1. Copied(c) /\ req[c].nb \in 0..MaxLast
  BY DEF AnswerInv, ClientFits
<1> QED
  BY <1>1, AnswerFits

-----------------------------------------------------------------------------
(* The theorems about the ring and the answers.                            *)

\* The inductive invariant: the ring and the history, the lists and their
\* indices, and what each connection has been written of the array it took.
THEOREM AnswerInvariance == Spec => [](IInv /\ AnswerInv)
<1>1. (IInv /\ AnswerInv) /\ [Next]_vars => (IInv /\ AnswerInv)'
  <2>1. IInv /\ [Next]_vars => IInv'
    BY PostsStep, CastStep DEF IInv
  <2> QED
    BY <2>1, AnswerStep
<1> QED
  BY CastInit, AnswerInit, <1>1, PTL DEF Spec

\* The variables of a Streamer have their types: no index leaves its array,
\* and no array of zeros is repeated to a client.
THEOREM StreamerTypeCorrect == Spec => []TypeOK
<1>1. IInv /\ AnswerInv => TypeOK
  BY TypeParts
<1> QED
  BY <1>1, AnswerInvariance, PTL

\* The ring of a Streamer holds the last messages built, in their order.
THEOREM RingIsRecentCorrect == Spec => []RingIsRecent
<1>1. IInv /\ AnswerInv => RingIsRecent
  BY RingFitsRecent DEF IInv, AnswerInv
<1> QED
  BY <1>1, AnswerInvariance, PTL

\* The messages of the ring have different numbers, as the ring is not larger
\* than the count of numbers.
THEOREM NumbersDistinctCorrect == Spec => []NumbersDistinct
<1>1. IInv /\ AnswerInv => NumbersDistinct
  BY RingFitsDistinct DEF IInv, AnswerInv
<1> QED
  BY <1>1, AnswerInvariance, PTL

\* A LAST that gets its ENDM got the last messages, none missing.
THEOREM AnswerIsRecentCorrect == Spec => []AnswerIsRecent
BY AnswersFit, AnswerInvariance, PTL

-----------------------------------------------------------------------------
(* The refinement of the feed.                                             *)

\* The last elements of a history and one more are the history with it pushed.
LEMMA PushIsLastOf ==
    ASSUME NEW s \in Seq(Diff), Len(s) <= RingSize, NEW m \in Diff
    PROVE  Push(s, m) = Abstract!LastOf(Append(s, m), RingSize)
<1>1. RingSize \in Nat \ {0} /\ Append(s, m) \in Seq(Diff) /\ Len(Append(s, m)) = Len(s) + 1
  BY StreamerAssumption
<1>2. CASE Len(s) < RingSize
  BY <1>1, <1>2 DEF Push, Abstract!LastOf
<1>3. CASE Len(s) = RingSize
  <2> DEFINE a == Append(s, m)
             t == Append(Tail(s), m)
  <2>1. Push(s, m) = t /\ Abstract!LastOf(a, RingSize) = SubSeq(a, 2, RingSize + 1)
    <3>1. ~(RingSize >= Len(a)) /\ Len(a) - RingSize + 1 = 2 /\ Len(a) = RingSize + 1
      BY <1>1, <1>3
    <3> QED
      BY <1>1, <1>3, <3>1 DEF Push, Abstract!LastOf
  <2>2. t \in Seq(Diff) /\ Len(t) = RingSize
    BY <1>1, <1>3
  <2>3. SubSeq(a, 2, RingSize + 1) \in Seq(Diff) /\ Len(SubSeq(a, 2, RingSize + 1)) = RingSize
    BY <1>1, <1>3
  <2>4. ASSUME NEW i \in 1..Len(t) PROVE t[i] = SubSeq(a, 2, RingSize + 1)[i]
    <3>1. SubSeq(a, 2, RingSize + 1)[i] = a[i + 1]
      BY <1>1, <1>3, <2>2
    <3>2. CASE i = RingSize
      BY <1>1, <1>3, <2>2, <3>1, <3>2
    <3>3. CASE i < RingSize
      BY <1>1, <1>3, <2>2, <3>1, <3>3
    <3> QED
      BY <2>2, <3>2, <3>3
  <2> HIDE DEF a, t
  <2>5. t = SubSeq(a, 2, RingSize + 1)
    BY <2>2, <2>3, <2>4, SameElements
  <2> QED
    BY <2>1, <2>5 DEF a, t
<1> QED
  BY <1>1, <1>2, <1>3

\* The number of the next message follows the one of the newest.
LEMMA NextNumber ==
    ASSUME IInv, AnswerInv, caster = "build"
    PROVE  num = Abstract!NumberAfter(recent)
<1>1. /\ recent \in Seq(Diff) /\ num \in 0..(MAX_NUM_MESS - 1) /\ MAX_NUM_MESS \in Nat \ {0}
      /\ NumbersFit
  BY StreamerAssumption DEF IInv, CastOK, AnswerInv, RingInv
<1>2. CASE recent = <<>>
  BY <1>1, <1>2 DEF IInv, RingLeadsByOne, OnAir, NumbersFollow, NumberAfterAir, Abstract!NumberAfter
<1>3. CASE recent # <<>>
  <2>1. Len(recent) \in 1..Len(recent) /\ Len(recent) + 1 - Len(recent) = 1
    BY <1>1, <1>3
  <2>2. recent[Len(recent)].num = NumBefore(num, 1)
    BY <1>1, <2>1 DEF NumbersFit
  <2>3. NumBefore(num, 1) \in 0..(MAX_NUM_MESS - 1) /\ Succ(NumBefore(num, 1), MAX_NUM_MESS) = num
    BY <1>1 DEF NumBefore, Succ
  <2> QED
    BY <1>1, <1>3, <2>2, <2>3, SuccIsMod DEF Abstract!NumberAfter
<1> QED
  BY <1>2, <1>3

\* What the feed shows of a connection.
AnswerOn(c) ==
    IF pc[c] \in {"close", "served"} /\ req[c].type = "LAST"
    THEN SubSeq(written[c], 1, Len(written[c]) - 1)
    ELSE None

\* A streamer that starts is a feed with nothing broadcast and nobody waiting.
LEMMA FeedInit == Init => Abstract!Init
BY DEF Init, Abstract!Init, AbstractAnswer

\* Building a message is the broadcast of the feed.
LEMMA BuildBroadcasts ==
    ASSUME IInv, AnswerInv, Build
    PROVE  Abstract!Broadcast
<1> DEFINE m == DIFF(num, diffMess[current + 1])
<1>1. m \in Diff
  BY DIFFType DEF Build, IInv
<1>2. recent \in Seq(Diff) /\ Len(recent) <= RingSize
  BY PlacesUsed, StreamerAssumption DEF IInv, CastOK, AnswerInv
<1>3. recent' = Abstract!LastOf(Append(recent, m), RingSize)
  BY <1>1, <1>2, PushIsLastOf DEF Build
<1>4. current + 1 \in DOMAIN diffMess
  BY DEF Build, Castable, IInv, PostsOK, CastOK
<1>5. m = [type |-> "DIFF", num |-> Abstract!NumberAfter(recent),
           id |-> diffMess[current + 1].id, text |-> diffMess[current + 1].text]
  <2>1. num = Abstract!NumberAfter(recent)
    BY NextNumber DEF Build
  <2> QED
    BY <2>1 DEF DIFF
<1>6. UNCHANGED <<diffMess, AbstractAnswer>>
  BY DEF Build, clients, AbstractAnswer
<1> HIDE DEF m
<1> QED
  BY <1>3, <1>4, <1>5, <1>6 DEF Abstract!Broadcast

\* The step of a connection that leaves what the feed shows of it.
LEMMA AnswersSame ==
    ASSUME NEW c \in Conns, AnswerOn(c)' = AnswerOn(c),
           \A d \in Conns \ {c} : pc'[d] = pc[d] /\ req'[d] = req[d] /\ written'[d] = written[d]
    PROVE  AbstractAnswer' = AbstractAnswer
<1>1. \A d \in Conns : AnswerOn(d)' = AnswerOn(d)
  BY DEF AnswerOn
<1>2. AbstractAnswer = [d \in Conns |-> AnswerOn(d)]
  BY DEF AbstractAnswer, AnswerOn
<1>3. AbstractAnswer' = [d \in Conns |-> AnswerOn(d)']
  BY DEF AbstractAnswer, AnswerOn
<1> HIDE DEF AnswerOn
<1> QED
  BY <1>1, <1>2, <1>3

\* The thread of a connection changes that connection.
LEMMA ServesOne ==
    ASSUME IInv, ClientsOK, NEW c \in Conns, NEW d \in Conns \ {c},
           Accept(c) \/ ReadRequest(c) \/ Serve(c) \/ ClientReads(c)
    PROVE  pc'[d] = pc[d] /\ req'[d] = req[d] /\ written'[d] = written[d]
<1>1. DOMAIN pc = Conns /\ DOMAIN req = Conns /\ DOMAIN written = Conns
  BY DEF IInv, PostsOK, ClientsOK
<1> QED
  BY <1>1 DEF Accept, ReadRequest, Serve, ClientReads, EnterLast, WriteOldm, OldmFails, WriteEndm,
              EnterMess, WriteAckm, Close, Write, Step

\* Adding a post to the list is the post of the feed.
LEMMA MessPosts ==
    ASSUME IInv, AnswerInv, NEW c \in Conns, EnterMess(c)
    PROVE  Abstract!Post
<1> DEFINE p == [id |-> req[c].id, text |-> removeDefChar(req[c].text)]
<1>1. diffMess \in Seq(Post) /\ diffMess' = Append(diffMess, p)
  BY DEF IInv, PostsOK, EnterMess
<1> HIDE DEF p
<1>2. /\ Len(diffMess') = Len(diffMess) + 1
      /\ diffMess = SubSeq(diffMess', 1, Len(diffMess))
  <2> DEFINE a == Append(diffMess, p)
             X == Post \cup {p}
  <2>1. diffMess \in Seq(X) /\ a \in Seq(X) /\ Len(a) = Len(diffMess) + 1
    BY <1>1
  <2>2. \A i \in 1..Len(diffMess) : a[i] = diffMess[i]
    BY <1>1
  <2> HIDE DEF a, X
  <2>3. /\ SubSeq(a, 1, Len(diffMess)) \in Seq(X) /\ Len(SubSeq(a, 1, Len(diffMess))) = Len(diffMess)
        /\ \A i \in 1..Len(diffMess) : SubSeq(a, 1, Len(diffMess))[i] = a[i]
    BY <2>1
  <2>4. diffMess = SubSeq(a, 1, Len(diffMess))
    BY <2>1, <2>2, <2>3, SameElements
  <2> QED
    BY <1>1, <2>1, <2>4 DEF a
<1>3. AnswerOn(c)' = AnswerOn(c)
  BY DEF EnterMess, Step, AnswerOn, IInv, PostsOK
<1>4. AbstractAnswer' = AbstractAnswer
  BY <1>3, AnswersSame, ServesOne DEF Serve, AnswerInv
<1>5. recent' = recent
  BY DEF EnterMess, Step, ring
<1> QED
  BY <1>2, <1>4, <1>5 DEF Abstract!Post

\* Writing ENDM is the answer of the feed, with the history of that instant:
\* the monitor kept it as it was when the array was taken.
LEMMA EndmAnswers ==
    ASSUME IInv, AnswerInv, NEW c \in Conns, WriteEndm(c)
    PROVE  Abstract!Answer(c)
<1> DEFINE nb == req[c].nb
           l == LastOf(recent, nb)
           o == Olds(l)
<1>1. /\ pc[c] = "oldm" /\ pc' = [pc EXCEPT ![c] = "close"]
      /\ UNCHANGED <<req, recent, diffMess>>
  BY DEF WriteEndm, Step, ring
<1>2. DOMAIN pc = Conns /\ req[c] \in [type : {"LAST"}, nb : 0..MaxLast]
  BY <1>1 DEF IInv, PostsOK, AnswerInv, ClientFits
<1>3. IInv' /\ AnswerInv'
  <2>1. [Next]_vars
    BY DEF Next, Serve
  <2>2. IInv'
    BY <2>1, PostsStep, CastStep DEF IInv
  <2> QED
    BY <2>1, <2>2, AnswerStep
<1>4. written'[c] = Append(o, Endm)
  <2>1. pc'[c] = "close" /\ req'[c].type = "LAST"
    BY <1>1, <1>2
  <2>2. AnswerIsRecent'
    BY <1>3, AnswersFit, PTL
  <2>3. written'[c] = Append(Olds(LastOf(recent', req'[c].nb)), Endm)
    BY <2>1, <2>2 DEF AnswerIsRecent
  <2> QED
    BY <1>1, <2>3
<1>5. recent \in Seq(Diff) /\ l \in Seq(Diff) /\ Len(l) \in Nat
  <2>1. recent \in Seq(Diff)
    BY DEF IInv, CastOK
  <2>2. \A n \in Nat : LastOf(recent, n) \in Seq(Diff)
    BY <2>1, LastOfPlaces
  <2>3. nb \in Nat
    BY <1>2
  <2>4. l \in Seq(Diff)
    BY <2>2, <2>3, Zenon
  <2> HIDE DEF l
  <2> QED
    BY <2>1, <2>4
<1>6. AnswerOn(c)' = o
  <2> DEFINE S == Oldm \cup {Endm}
  <2>1. o \in [1..Len(l) -> S]
    <3>1. \A i \in 1..Len(l) : DiffToOldm(l[i]) \in S
      BY <1>5, ElementOfSeq, OldmType
    <3> HIDE DEF l
    <3> QED
      BY <3>1 DEF Olds
  <2>2. o \in Seq(S)
    BY <1>5, <2>1, FunctionIsSeq
  <2>3. Endm \in S
    OBVIOUS
  <2> HIDE DEF o, S
  <2>4. /\ Len(Append(o, Endm)) = Len(o) + 1 /\ Append(o, Endm) \in Seq(S)
        /\ \A i \in 1..Len(o) : Append(o, Endm)[i] = o[i]
    BY <2>2, <2>3
  <2>5. /\ SubSeq(Append(o, Endm), 1, Len(o)) \in Seq(S) /\ Len(SubSeq(Append(o, Endm), 1, Len(o))) = Len(o)
        /\ \A i \in 1..Len(o) : SubSeq(Append(o, Endm), 1, Len(o))[i] = Append(o, Endm)[i]
    BY <2>2, <2>4
  <2>6. SubSeq(Append(o, Endm), 1, Len(o)) = o
    BY <2>2, <2>4, <2>5, SameElements
  <2>7. Len(written'[c]) - 1 = Len(o)
    BY <1>4, <2>2, <2>4
  <2> QED
    BY <1>1, <1>2, <1>4, <2>6, <2>7 DEF AnswerOn
<1>7. AbstractAnswer[c] = None
  BY <1>1 DEF AbstractAnswer
<1>8. AbstractAnswer' = [AbstractAnswer EXCEPT ![c] = o]
  <2>1. \A d \in Conns \ {c} : pc'[d] = pc[d] /\ req'[d] = req[d] /\ written'[d] = written[d]
    BY ServesOne DEF Serve, AnswerInv
  <2>2. \A d \in Conns \ {c} : AnswerOn(d)' = AnswerOn(d)
    BY <2>1 DEF AnswerOn
  <2>3. AbstractAnswer = [d \in Conns |-> AnswerOn(d)]
    BY DEF AbstractAnswer, AnswerOn
  <2>4. AbstractAnswer' = [d \in Conns |-> AnswerOn(d)']
    BY DEF AbstractAnswer, AnswerOn
  <2> HIDE DEF AnswerOn, o
  <2> QED
    BY <1>6, <2>2, <2>3, <2>4
<1>9. nb \in 0..RingSize
  BY <1>2, StreamerAssumption
<1>10. o = [i \in 1..Len(Abstract!LastOf(recent, nb)) |-> DiffToOldm(Abstract!LastOf(recent, nb)[i])]
  <2>1. Abstract!LastOf(recent, nb) = l
    BY DEF Abstract!LastOf, LastOf
  <2> HIDE DEF l
  <2> QED
    BY <2>1 DEF Olds
<1> HIDE DEF o, nb, l
<1> QED
  BY <1>1, <1>7, <1>8, <1>9, <1>10 DEF Abstract!Answer

\* The other steps are not seen.
LEMMA OthersHidden ==
    ASSUME IInv, AnswerInv, NEW c \in Conns,
           \/ Accept(c) \/ ReadRequest(c) \/ ClientReads(c)
           \/ EnterLast(c) \/ WriteOldm(c) \/ OldmFails(c) \/ WriteAckm(c) \/ Close(c)
    PROVE  UNCHANGED Abstract!feedVars
<1>1. UNCHANGED <<diffMess, recent>>
  BY DEF Accept, ReadRequest, ClientReads, EnterLast, WriteOldm, OldmFails, WriteAckm, Close,
       Step, ring
<1>2. DOMAIN pc = Conns /\ DOMAIN req = Conns /\ DOMAIN written = Conns
  BY DEF IInv, PostsOK, AnswerInv, ClientsOK
<1>3. AnswerOn(c)' = AnswerOn(c)
  <2>1. CASE Accept(c) \/ ReadRequest(c) \/ ClientReads(c) \/ EnterLast(c) \/ WriteOldm(c) \/ OldmFails(c)
    <3>1. UNCHANGED <<pc, req, written>> \/ (pc[c] \notin {"close", "served"} /\ pc'[c] \notin {"close", "served"})
      BY <1>2, <2>1 DEF Accept, ReadRequest, ClientReads, EnterLast, WriteOldm, OldmFails, Step
    <3> QED
      BY <3>1 DEF AnswerOn
  <2>2. CASE WriteAckm(c)
    <3>1. pc[c] = "ackm" /\ req'[c] = req[c] /\ req[c].type = "MESS"
      BY <2>2 DEF WriteAckm, Step, AnswerInv, ClientFits
    <3> QED
      BY <3>1 DEF AnswerOn
  <2>3. CASE Close(c)
    BY <1>2, <2>3 DEF Close, Step, AnswerOn
  <2> QED
    BY <2>1, <2>2, <2>3
<1>4. AbstractAnswer' = AbstractAnswer
  BY <1>3, AnswersSame, ServesOne DEF Serve, AnswerInv
<1> QED
  BY <1>1, <1>4 DEF Abstract!feedVars

\* Every step of the streamer is one step of the feed or changes nothing in it.
LEMMA FeedStep ==
    ASSUME IInv, AnswerInv, [Next]_vars
    PROVE  [Abstract!Next]_(Abstract!feedVars)
<1>1. CASE Build
  BY <1>1, BuildBroadcasts DEF Abstract!Next
<1>2. CASE BuildFails \/ SendDatagram \/ SendFails \/ CastImage \/ Bind \/ Idle \/ UNCHANGED vars
  BY <1>2 DEF BuildFails, SendDatagram, SendFails, CastImage, TakeImage, SendImage, Bind, Idle,
              vars, ring, clients, Abstract!feedVars, AbstractAnswer
<1>3. ASSUME NEW c \in Conns, Accept(c) \/ ReadRequest(c) \/ Serve(c) \/ ClientReads(c)
      PROVE  [Abstract!Next]_(Abstract!feedVars)
  <2>1. CASE EnterMess(c)
    BY <2>1, MessPosts DEF Abstract!Next
  <2>2. CASE WriteEndm(c)
    BY <2>2, EndmAnswers DEF Abstract!Next
  <2>3. CASE ~EnterMess(c) /\ ~WriteEndm(c)
    BY <1>3, <2>3, OthersHidden DEF Serve
  <2> QED
    BY <2>1, <2>2, <2>3
<1> QED
  BY <1>1, <1>2, <1>3 DEF Next, Cast

\* The ring, the monitor and the threads implement the feed: numbered
\* broadcasts of the posts, a list that only grows, and answers that are the
\* last broadcasts as they stood at one instant.
THEOREM FeedImplemented == Spec => ImplementsFeed
<1>1. (IInv /\ AnswerInv) /\ [Next]_vars => [Abstract!Next]_(Abstract!feedVars)
  BY FeedStep
<1> QED
  BY FeedInit, AnswerInvariance, <1>1, PTL DEF Spec, ImplementsFeed, Abstract!Spec

=============================================================================
