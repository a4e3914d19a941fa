--------------------------- MODULE StreamerProofs ---------------------------
(***************************************************************************)
(* Proofs about Streamer, for any number of clients, any posts and any     *)
(* sizes of the ring and of the numbers: the datagrams carry consecutive   *)
(* numbers, and the ring runs ahead of them by one message at most.        *)
(***************************************************************************)
EXTENDS Streamer, TLAPS

-----------------------------------------------------------------------------
(* The inductive invariant.                                                *)

\* The posts, and the requests that add to them.
PostsOK ==
    /\ diffMess \in Seq(Post)
    /\ pc \in [Conns -> {"none", "read", "last", "oldm", "mess", "ackm", "close", "served", "hung"}]
    /\ DOMAIN req = Conns
    /\ \A c \in Conns : pc[c] = "mess" => req[c].id \in {c, Blank} /\ req[c].text \in ClientTexts

\* What the broadcasting thread works with.
CastOK ==
    /\ current \in Nat
    /\ num \in 0..(MAX_NUM_MESS - 1)
    /\ recent \in Seq(Diff)
    /\ caster \in {"build", "send", "dead"}
    /\ packet \in Diff \cup {None}
    /\ air \in Diff \cup {None}

\* The number after the one of the last datagram.
NumberAfterAir == IF air = None THEN 0 ELSE Succ(air.num, MAX_NUM_MESS)

\* The numbers follow each other from the last datagram to the next message.
NumbersFollow ==
    /\ caster = "build" => num = NumberAfterAir
    /\ caster = "send" => packet \in Diff /\ packet.num = NumberAfterAir
                           /\ num = Succ(packet.num, MAX_NUM_MESS)

IInv == PostsOK /\ CastOK /\ NumbersFollow /\ RingLeadsByOne

-----------------------------------------------------------------------------
(* Lemmas.                                                                 *)

\* The test against the bound, in MulticastService, is a remainder.
LEMMA SuccIsMod ==
    ASSUME NEW M \in Nat \ {0}, NEW n \in 0..(M - 1)
    PROVE  Succ(n, M) = (n + 1) % M /\ Succ(n, M) \in 0..(M - 1)
<1>1. CASE n + 1 = M
  <2>1. M % M = 0
    OBVIOUS
  <2> QED
    BY <1>1, <2>1 DEF Succ
<1>2. CASE n + 1 < M
  <2>1. (n + 1) % M = n + 1
    BY <1>2
  <2> QED
    BY <1>2, <2>1 DEF Succ
<1> QED
  BY <1>1, <1>2

\* The history of the ring gets its newest message at its end, where the one
\* before stays next to it.
LEMMA PushLast ==
    ASSUME NEW s \in Seq(Diff), NEW m \in Diff
    PROVE  LET t == Push(s, m) IN
           /\ t \in Seq(Diff) /\ Len(t) > 0 /\ t[Len(t)] = m
           /\ Len(t) > 1 => Len(s) > 0 /\ t[Len(t) - 1] = s[Len(s)]
<1> DEFINE t == Push(s, m)
<1>1. CASE Len(s) < RingSize
  BY <1>1 DEF Push
<1>2. CASE ~(Len(s) < RingSize)
  <2>1. Len(s) > 0 /\ Tail(s) \in Seq(Diff) /\ Len(Tail(s)) = Len(s) - 1
    BY <1>2, StreamerAssumption
  <2>2. \A i \in 1..(Len(s) - 1) : Tail(s)[i] = s[i + 1]
    BY <2>1
  <2>3. t = Append(Tail(s), m)
    BY <1>2 DEF Push
  <2>4. t \in Seq(Diff) /\ Len(t) = Len(s) /\ t[Len(t)] = m
    BY <2>1, <2>3
  <2>5. ASSUME Len(t) > 1 PROVE t[Len(t) - 1] = s[Len(s)]
    <3>1. \A i \in 1..Len(Tail(s)) : Append(Tail(s), m)[i] = Tail(s)[i]
      BY <2>1
    <3>2. Len(t) - 1 = Len(s) - 1 /\ Len(s) - 1 \in 1..Len(Tail(s)) /\ Len(s) \in Nat
      BY <2>1, <2>4, <2>5
    <3>3. t[Len(t) - 1] = Tail(s)[Len(s) - 1]
      BY <2>3, <3>1, <3>2
    <3>4. Tail(s)[Len(s) - 1] = s[(Len(s) - 1) + 1]
      BY <2>1, <2>2, <3>2
    <3> QED
      BY <3>2, <3>3, <3>4
  <2> QED
    BY <2>1, <2>4, <2>5
<1> QED
  BY <1>1, <1>2

\* A DIFF built from a post of the list is a DIFF.
LEMMA DIFFType ==
    ASSUME PostsOK, CastOK, Castable
    PROVE  DIFF(num, diffMess[current + 1]) \in Diff /\ DIFF(num, diffMess[current + 1]).num = num
<1>1. diffMess[current + 1] \in Post
  BY DEF PostsOK, CastOK, Castable
<1> QED
  BY <1>1 DEF Post, DIFF, Diff, CastOK

\* An element of a sequence.
LEMMA ElementOfSeq ==
    ASSUME NEW S, NEW s \in Seq(S), NEW i \in 1..Len(s)
    PROVE  s[i] \in S
OBVIOUS

\* No DIFF is the absence of one.
LEMMA DiffIsNotNone == None \notin Diff
BY StreamerAssumption DEF Diff

\* The invariant holds when the streamer has read its files (StreamFile).
LEMMA CastInit == Init => IInv
<1> SUFFICES ASSUME Init PROVE IInv
  OBVIOUS
<1>1. diffMess \in Seq(Post)
  <2>1. diffMess \in Seq([id : Authors \cup {Blank}, text : {"plain", "sharp", "blank"}])
    BY StreamerAssumption DEF Init
  <2>2. \A i \in 1..Len(diffMess) : diffMess[i] \in Post
    <3> TAKE i \in 1..Len(diffMess)
    <3>1. diffMess[i] \in [id : Authors \cup {Blank}, text : {"plain", "sharp", "blank"}]
      BY <2>1, ElementOfSeq
    <3> QED
      BY <3>1 DEF Post, Texts
  <2> QED
    BY <2>1, <2>2
<1>2. PostsOK
  <2>1. pc = [c \in Conns |-> "none"] /\ req = [c \in Conns |-> None]
    BY DEF Init
  <2>2. \A c \in Conns : pc[c] # "mess"
    BY <2>1
  <2>3. DOMAIN req = Conns
    BY <2>1
  <2>4. pc \in [Conns -> {"none", "read", "last", "oldm", "mess", "ackm", "close", "served", "hung"}]
    BY <2>1
  <2> QED
    BY <1>1, <2>2, <2>3, <2>4 DEF PostsOK
<1>3. CastOK /\ NumbersFollow /\ RingLeadsByOne
  BY StreamerAssumption DEF Init, CastOK, NumbersFollow, NumberAfterAir, RingLeadsByOne, OnAir
<1> QED
  BY <1>2, <1>3 DEF IInv

-----------------------------------------------------------------------------
(* The steps.                                                              *)

\* What a connection's thread does to the posts: it adds one, or nothing.
LEMMA PostsStep == PostsOK /\ [Next]_vars => PostsOK'
<1> SUFFICES ASSUME PostsOK, [Next]_vars PROVE PostsOK'
  OBVIOUS
<1> USE StreamerAssumption DEF PostsOK, clients
<1>1. CASE Cast \/ CastImage \/ Bind \/ Idle \/ UNCHANGED vars
  <2>1. UNCHANGED <<diffMess, pc, req>>
    BY <1>1 DEF Cast, Build, BuildFails, SendDatagram, SendFails, CastImage, TakeImage, SendImage,
                Bind, Idle, vars
  <2> QED
    BY <2>1
<1>2. ASSUME NEW c \in Conns, Accept(c) \/ ClientReads(c) PROVE PostsOK'
  BY <1>2 DEF Accept, ClientReads
<1>3. ASSUME NEW c \in Conns, ReadRequest(c) PROVE PostsOK'
  BY <1>3 DEF ReadRequest, Requests, Step
<1>4. ASSUME NEW c \in Conns, EnterMess(c) PROVE PostsOK'
  <2>1. removeDefChar(req[c].text) \in Texts
    BY <1>4 DEF EnterMess, Step, removeDefChar, Texts
  <2>2. [id |-> req[c].id, text |-> removeDefChar(req[c].text)] \in Post
    BY <1>4, <2>1 DEF EnterMess, Step, Post
  <2>3. diffMess' \in Seq(Post)
    BY <1>4, <2>2 DEF EnterMess
  <2> QED
    BY <1>4, <2>3 DEF EnterMess, Step
<1>5. ASSUME NEW c \in Conns, EnterLast(c) \/ WriteOldm(c) \/ OldmFails(c) PROVE PostsOK'
  BY <1>5 DEF EnterLast, WriteOldm, OldmFails, Step
<1>6. ASSUME NEW c \in Conns, WriteEndm(c) \/ WriteAckm(c) \/ Close(c) PROVE PostsOK'
  BY <1>6 DEF WriteEndm, WriteAckm, Close, Step
<1> QED
  BY <1>1, <1>2, <1>3, <1>4, <1>5, <1>6 DEF Next, Serve

\* The other threads leave the broadcast alone.
LEMMA CastFrame ==
    ASSUME CastOK, NumbersFollow, RingLeadsByOne,
           UNCHANGED <<current, num, recent, caster, packet, air>>
    PROVE  CastOK' /\ NumbersFollow' /\ RingLeadsByOne'
BY DEF CastOK, NumbersFollow, NumberAfterAir, RingLeadsByOne, OnAir, Ahead

\* Every step of the threads keeps the numbers in order, in the ring and on the
\* air.
LEMMA CastStep == IInv /\ [Next]_vars => CastOK' /\ NumbersFollow' /\ RingLeadsByOne'
<1> SUFFICES ASSUME IInv, [Next]_vars PROVE CastOK' /\ NumbersFollow' /\ RingLeadsByOne'
  OBVIOUS
<1> USE DEF IInv
<1>1. CASE Build
  <2> DEFINE m == DIFF(num, diffMess[current + 1])
  <2>1. m \in Diff /\ m.num = num
    BY <1>1, DIFFType DEF Build
  <2>2. /\ packet' = m /\ recent' = Push(recent, m) /\ air' = air
        /\ caster = "build" /\ caster' = "send"
        /\ num' = Succ(num, MAX_NUM_MESS) /\ current' = Succ(current, Len(diffMess))
    BY <1>1 DEF Build, NextNum, NextCurrent
  <2>3. current' \in Nat /\ num' \in 0..(MAX_NUM_MESS - 1)
    BY <2>2, SuccIsMod, StreamerAssumption DEF CastOK, Succ
  <2>4. CastOK'
    BY <2>1, <2>2, <2>3, PushLast DEF CastOK
  <2>5. NumbersFollow'
    BY <2>1, <2>2 DEF NumbersFollow, NumberAfterAir
  <2>6. RingLeadsByOne'
    <3>1. recent \in Seq(Diff) /\ Len(recent) \in Nat
      BY DEF CastOK
    <3>2. /\ Len(recent') > 0 /\ recent'[Len(recent')] = m
          /\ Len(recent') > 1 => Len(recent) > 0 /\ recent'[Len(recent') - 1] = recent[Len(recent)]
      BY <2>1, <2>2, <3>1, PushLast
    <3>3. Len(recent) > 0 => air = recent[Len(recent)]
      BY <2>2, <3>1 DEF RingLeadsByOne, OnAir
    <3> QED
      BY <2>2, <3>2, <3>3 DEF RingLeadsByOne, Ahead
  <2> QED
    BY <2>4, <2>5, <2>6
<1>2. CASE BuildFails \/ SendFails
  <2>1. /\ UNCHANGED <<current, num, recent, packet, air>> /\ caster' = "dead"
        /\ caster = "build" \/ (caster = "send" /\ NetworkFails)
    BY <1>2 DEF BuildFails, SendFails, ring
  <2>2. CastOK' /\ NumbersFollow'
    BY <2>1 DEF CastOK, NumbersFollow
  <2>3. (OnAir' <=> OnAir) /\ (Ahead' <=> Ahead)
    BY <2>1 DEF OnAir, Ahead
  <2> QED
    BY <2>1, <2>2, <2>3 DEF RingLeadsByOne
<1>3. CASE SendDatagram
  <2>1. /\ caster = "send" /\ caster' = "build" /\ air' = packet
        /\ UNCHANGED <<current, num, recent, packet>>
    BY <1>3 DEF SendDatagram, ring
  <2>2. CastOK'
    BY <2>1 DEF CastOK
  <2>3. NumbersFollow'
    BY <2>1, DiffIsNotNone DEF NumbersFollow, NumberAfterAir
  <2>4. RingLeadsByOne'
    <3>1. Len(recent) > 0 /\ packet = recent[Len(recent)]
      BY <2>1 DEF RingLeadsByOne, Ahead
    <3>2. recent # <<>>
      BY <3>1
    <3> QED
      BY <2>1, <3>1, <3>2 DEF RingLeadsByOne, OnAir
  <2> QED
    BY <2>2, <2>3, <2>4
<1>4. CASE CastImage \/ Bind \/ Idle \/ UNCHANGED vars
  BY <1>4, CastFrame DEF CastImage, TakeImage, SendImage, Bind, Idle, vars, casting, ring
<1>5. ASSUME NEW c \in Conns, Accept(c) \/ ReadRequest(c) \/ Serve(c) \/ ClientReads(c)
      PROVE  CastOK' /\ NumbersFollow' /\ RingLeadsByOne'
  <2>1. UNCHANGED <<casting, ring>>
    BY <1>5 DEF Accept, ReadRequest, Serve, ClientReads, EnterLast, WriteOldm, OldmFails, WriteEndm,
                EnterMess, WriteAckm, Close, Step
  <2> QED
    BY <2>1, CastFrame DEF casting, ring
<1> QED
  BY <1>1, <1>2, <1>3, <1>4, <1>5 DEF Next, Cast

-----------------------------------------------------------------------------
(* The theorems.                                                           *)

\* The inductive invariant: the posts, the state of the broadcasting thread,
\* and numbers that follow each other from the last datagram to the next.
THEOREM CastInvariance == Spec => []IInv
<1>1. IInv /\ [Next]_vars => IInv'
  BY PostsStep, CastStep DEF IInv
<1> QED
  BY CastInit, <1>1, PTL DEF Spec

\* MulticastService puts a message in the ring before it sends it, and never
\* a second one, even when the network refuses the first.
THEOREM RingLeadsByOneCorrect == Spec => []RingLeadsByOne
<1>1. IInv => RingLeadsByOne
  BY DEF IInv
<1> QED
  BY <1>1, CastInvariance, PTL

\* The datagrams of a MulticastService carry consecutive numbers.
THEOREM DatagramsConsecutiveCorrect == Spec => DatagramsConsecutive
<1> DEFINE Consecutive ==
      air' # air => air'.num = IF air = None THEN 0 ELSE (air.num + 1) % MAX_NUM_MESS
<1>1. IInv /\ [Next]_vars => [Consecutive]_vars
  <2> SUFFICES ASSUME IInv, Next, air' # air
               PROVE  air'.num = IF air = None THEN 0 ELSE (air.num + 1) % MAX_NUM_MESS
    BY DEF vars, casting
  <2>1. SendDatagram
    BY DEF Next, Cast, Build, BuildFails, SendFails, CastImage, TakeImage, SendImage, Bind, Idle,
           Accept, ReadRequest, Serve, ClientReads, EnterLast, WriteOldm, OldmFails, WriteEndm,
           EnterMess, WriteAckm, Close, Step, vars, casting
  <2>2. air'.num = NumberAfterAir
    BY <2>1 DEF SendDatagram, IInv, NumbersFollow
  <2>3. CASE air = None
    BY <2>2, <2>3 DEF NumberAfterAir
  <2>4. CASE air # None
    <3>1. air.num \in 0..(MAX_NUM_MESS - 1) /\ MAX_NUM_MESS \in Nat \ {0}
      BY <2>4, StreamerAssumption DEF IInv, CastOK, Diff
    <3> QED
      BY <2>2, <2>4, <3>1, SuccIsMod DEF NumberAfterAir
  <2> QED
    BY <2>3, <2>4
<1> QED
  BY CastInvariance, <1>1, PTL DEF Spec, DatagramsConsecutive

=============================================================================
