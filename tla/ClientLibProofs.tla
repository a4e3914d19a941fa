--------------------------- MODULE ClientLibProofs --------------------------
(***************************************************************************)
(* Proofs about ClientLib, for any number of messages asked for, any       *)
(* number of streamers listed and any place where TCP may cut a message:   *)
(* what a call of the library that succeeds has received, and why          *)
(* get_last_mess may fail.                                                 *)
(***************************************************************************)
EXTENDS ClientLib, FiniteSetTheorems, TLAPS

-----------------------------------------------------------------------------
(* The inductive invariant.                                                *)

\* Where the j-th OLDM of a reply to LAST starts, and the j-th ITEM of a list,
\* from 0.
OldmPlace(j) == msglen("OLDM") * j
ItemPlace(j) == msglen("LINB") + msglen("ITEM") * j

\* How many messages of that kind the reply has.
Nb == Len(reply) - 1

Replies ==
    CASE call \in Lists -> ListReplies
      [] call \in Lasts -> LastReplies
      [] call \in Posts -> MessReplies

\* A call that did not reach a server has nothing; one that did has a reply of
\* its kind to read.
CallFits ==
    /\ server = "none" =>
          /\ pc \in {"request", "returned"} /\ result # "success"
          /\ reply = <<>> /\ pos = 0 /\ chunks = <<>>
    /\ server # "none" => reply \in Replies /\ pc # "request"
    /\ pc \in {"linb", "item"} => call \in Lists
    /\ pc = "oldm" => call \in Lasts
    /\ pc = "ackm" => call \in Posts
    /\ pc = "request" => server = "none"
    /\ pc \in {"request", "linb", "ackm"} => chunks = <<>> /\ pos = 0
    /\ pc = "returned" <=> result # "none"

OldmAt(p) == \E j \in 0..(Nb - 1) : p = OldmPlace(j)
ItemAt(p) == \E j \in 0..(Nb - 1) : p = ItemPlace(j)

\* The last chunk ends where the next one will start.
LastChunk ==
    LET c == chunks[Len(chunks)]
    IN  pos = c.from + c.len /\ c.len >= 4

\* While OLDM messages arrive: each chunk starts with one of them, and those
\* of the library are whole but for the last.
ReadingLast ==
    /\ chunks = <<>> => pos = 0
    /\ chunks # <<>> =>
          LET c == chunks[Len(chunks)]
          IN  /\ LastChunk
              /\ OldmAt(c.from) /\ c.from >= OldmPlace(Len(chunks) - 1)
              /\ call = "get_last_mess" =>
                    c.from = OldmPlace(Len(chunks) - 1) /\ c.len <= msglen("OLDM")
    /\ call = "get_last_mess" =>
          \A k \in 1..(Len(chunks) - 1) :
              chunks[k].from = OldmPlace(k - 1) /\ chunks[k].len = msglen("OLDM")

\* A chunk that does not end with a message.
IsCut(c) == \A k \in 0..Len(reply) : c.from + c.len # Offset(k)

LastFits ==
    call \in Lasts /\ server \notin {"none", "lost"} =>
        /\ pc = "oldm" => ReadingLast
        /\ result = "success" =>
              /\ chunks # <<>> /\ chunks[Len(chunks)].from = OldmPlace(Nb)
              /\ call = "get_last_mess" =>
                    /\ size = Nb /\ size < Len(chunks)
                    /\ \A k \in 1..size :
                          chunks[k].from = OldmPlace(k - 1) /\ chunks[k].len = msglen("OLDM")
        /\ result = "error" /\ call = "get_last_mess" =>
              \/ \E k \in DOMAIN chunks : IsCut(chunks[k])
              \/ server = "fin" /\ sent < Len(reply)

\* While ITEM messages arrive: each chunk starts with one of them, further
\* than the one before, after a number that LINB had whole.
ReadingList ==
    /\ chunks = <<>> => pos < msglen("LINB") \/ size = Nb
    /\ chunks # <<>> =>
          LET l == Len(chunks)
          IN  /\ LastChunk
              /\ size = Nb /\ l <= size
              /\ ItemAt(chunks[l].from)
              /\ \A k \in 1..l :
                    /\ chunks[k].from >= ItemPlace(k - 1)
                    /\ chunks[l].from >= chunks[k].from + msglen("ITEM") * (l - k)
              /\ \A k \in 1..(l - 1) : chunks[k + 1].from = chunks[k].from + chunks[k].len

ListFits ==
    call \in Lists =>
        /\ pc = "item" => ReadingList
        /\ result = "success" /\ size > 0 =>
              /\ size = Nb /\ size <= Len(chunks)
              /\ \A k \in 1..size : chunks[k].from = ItemPlace(k - 1)
              /\ \A k \in 1..(size - 1) : chunks[k].len = msglen("ITEM")

CallInv == TypeOK /\ CallFits /\ LastFits /\ ListFits

-----------------------------------------------------------------------------
(* The places of the messages.                                             *)

\* The lengths of the replies (message.h).
LEMMA Lengths ==
    /\ msglen("OLDM") = 161 /\ msglen("ITEM") = 57 /\ msglen("LINB") = 9
    /\ msglen("ENDM") = 6 /\ msglen("ACKM") = 6
BY DEF msglen

\* A function on 1..n is a sequence.
LEMMA FunctionIsSeq ==
    ASSUME NEW S, NEW n \in Nat, NEW f \in [1..n -> S]
    PROVE  f \in Seq(S) /\ Len(f) = n
OBVIOUS

\* An element of a sequence.
LEMMA ElementOfSeq ==
    ASSUME NEW S, NEW s \in Seq(S), NEW i \in 1..Len(s)
    PROVE  s[i] \in S
OBVIOUS

\* The size of an interval that starts at 1.
LEMMA FirstOnes ==
    ASSUME NEW k \in Nat
    PROVE  Cardinality(1..k) = k
<1>1. Cardinality(1..k) = IF 1 > k THEN 0 ELSE k - 1 + 1
  BY FS_Interval
<1> QED
  BY <1>1

\* The messages of some types among the k first ones.
Of(types, k) == {j \in 1..k : reply[j] \in types}

\* The place after k messages, from how many of each kind they are.
LEMMA OffsetIsSum ==
    ASSUME NEW k
    PROVE  Offset(k) = 9 * Cardinality(Of({"LINB"}, k)) + 57 * Cardinality(Of({"ITEM"}, k))
                         + 161 * Cardinality(Of({"OLDM"}, k)) + 6 * Cardinality(Of({"ENDM", "ACKM"}, k))
BY Lengths DEF Offset, Of

\* A place is a number of bytes.
LEMMA OffsetType ==
    ASSUME NEW k \in Int
    PROVE  Offset(k) \in Nat
<1>1. ASSUME NEW types PROVE Cardinality(Of(types, k)) \in Nat
  <2>1. IsFiniteSet(1..k)
    BY FS_Interval
  <2>2. Of(types, k) \subseteq 1..k
    BY DEF Of
  <2>3. IsFiniteSet(Of(types, k))
    BY <2>1, <2>2, FS_Subset
  <2> QED
    BY <2>3, FS_CardinalityType
<1>2. /\ Cardinality(Of({"LINB"}, k)) \in Nat /\ Cardinality(Of({"ITEM"}, k)) \in Nat
      /\ Cardinality(Of({"OLDM"}, k)) \in Nat /\ Cardinality(Of({"ENDM", "ACKM"}, k)) \in Nat
  BY <1>1
<1> QED
  BY <1>2, OffsetIsSum

\* The places of a reply to LAST.
LEMMA LastPlaces ==
    ASSUME NEW n \in Nat, reply = Append(Copies(n, "OLDM"), "ENDM")
    PROVE  /\ Len(reply) = n + 1 /\ DOMAIN reply = 1..(n + 1)
           /\ \A k \in 1..n : reply[k] = "OLDM"
           /\ reply[n + 1] = "ENDM"
           /\ \A k \in 0..n : Offset(k) = 161 * k
           /\ Offset(n + 1) = 161 * n + 6
<1>1. Copies(n, "OLDM") \in Seq({"OLDM"}) /\ Len(Copies(n, "OLDM")) = n
  <2>1. Copies(n, "OLDM") \in [1..n -> {"OLDM"}]
    BY DEF Copies
  <2> HIDE DEF Copies
  <2> QED
    BY <2>1, FunctionIsSeq
<1>2. \A k \in 1..n : Copies(n, "OLDM")[k] = "OLDM"
  BY DEF Copies
<1>3. /\ Len(reply) = n + 1 /\ DOMAIN reply = 1..(n + 1)
      /\ \A k \in 1..n : reply[k] = "OLDM"
      /\ reply[n + 1] = "ENDM"
  BY <1>1, <1>2
<1>4. ASSUME NEW k \in 0..n PROVE Offset(k) = 161 * k
  <2>1. /\ Of({"LINB"}, k) = {}
        /\ Of({"ITEM"}, k) = {}
        /\ Of({"OLDM"}, k) = 1..k
        /\ Of({"ENDM", "ACKM"}, k) = {}
    BY <1>3 DEF Of
  <2>2. Cardinality(1..k) = k /\ Cardinality({}) = 0
    BY FirstOnes, FS_EmptySet
  <2>3. Offset(k) = 9 * 0 + 57 * 0 + 161 * k + 6 * 0
    BY <2>1, <2>2, OffsetIsSum
  <2> QED
    BY <2>3
<1>5. Offset(n + 1) = 161 * n + 6
  <2>1. /\ Of({"LINB"}, n + 1) = {}
        /\ Of({"ITEM"}, n + 1) = {}
        /\ Of({"OLDM"}, n + 1) = 1..n
        /\ Of({"ENDM", "ACKM"}, n + 1) = {n + 1}
    BY <1>3 DEF Of
  <2>2. Cardinality(1..n) = n /\ Cardinality({}) = 0 /\ Cardinality({n + 1}) = 1
    BY FirstOnes, FS_EmptySet, FS_Singleton
  <2>3. Offset(n + 1) = 9 * 0 + 57 * 0 + 161 * n + 6 * 1
    BY <2>1, <2>2, OffsetIsSum
  <2> QED
    BY <2>3
<1> QED
  BY <1>3, <1>4, <1>5

\* The places of a list.
LEMMA ListPlaces ==
    ASSUME NEW n \in Nat, reply = <<"LINB">> \o Copies(n, "ITEM")
    PROVE  /\ Len(reply) = n + 1 /\ DOMAIN reply = 1..(n + 1)
           /\ reply[1] = "LINB"
           /\ \A k \in 2..(n + 1) : reply[k] = "ITEM"
           /\ Offset(0) = 0
           /\ \A k \in 1..(n + 1) : Offset(k) = 9 + 57 * (k - 1)
<1>1. Copies(n, "ITEM") \in Seq({"ITEM"}) /\ Len(Copies(n, "ITEM")) = n
  <2>1. Copies(n, "ITEM") \in [1..n -> {"ITEM"}]
    BY DEF Copies
  <2> HIDE DEF Copies
  <2> QED
    BY <2>1, FunctionIsSeq
<1>2. \A k \in 1..n : Copies(n, "ITEM")[k] = "ITEM"
  BY DEF Copies
<1>3. /\ Len(reply) = n + 1 /\ DOMAIN reply = 1..(n + 1)
      /\ reply[1] = "LINB"
      /\ \A k \in 2..(n + 1) : reply[k] = "ITEM"
  BY <1>1, <1>2
<1>4. Cardinality({}) = 0
  BY FS_EmptySet
<1>5. Offset(0) = 0
  <2>1. /\ Of({"LINB"}, 0) = {}
        /\ Of({"ITEM"}, 0) = {}
        /\ Of({"OLDM"}, 0) = {}
        /\ Of({"ENDM", "ACKM"}, 0) = {}
    BY DEF Of
  <2>2. Offset(0) = 9 * 0 + 57 * 0 + 161 * 0 + 6 * 0
    BY <1>4, <2>1, OffsetIsSum
  <2> QED
    BY <2>2
<1>6. ASSUME NEW k \in 1..(n + 1) PROVE Offset(k) = 9 + 57 * (k - 1)
  <2>1. /\ Of({"LINB"}, k) = {1}
        /\ Of({"ITEM"}, k) = 2..k
        /\ Of({"OLDM"}, k) = {}
        /\ Of({"ENDM", "ACKM"}, k) = {}
    BY <1>3 DEF Of
  <2>2. Cardinality(2..k) = k - 1
    <3>1. Cardinality(2..k) = IF 2 > k THEN 0 ELSE k - 2 + 1
      BY FS_Interval
    <3> QED
      BY <3>1
  <2>3. Cardinality({1}) = 1
    BY FS_Singleton
  <2>4. Offset(k) = 9 * Cardinality(Of({"LINB"}, k)) + 57 * Cardinality(Of({"ITEM"}, k))
                      + 161 * Cardinality(Of({"OLDM"}, k)) + 6 * Cardinality(Of({"ENDM", "ACKM"}, k))
    BY OffsetIsSum
  <2>5. /\ Cardinality(Of({"LINB"}, k)) = 1 /\ Cardinality(Of({"ITEM"}, k)) = k - 1
        /\ Cardinality(Of({"OLDM"}, k)) = 0 /\ Cardinality(Of({"ENDM", "ACKM"}, k)) = 0
    BY <1>4, <2>1, <2>2, <2>3, Zenon
  <2> QED
    BY <2>4, <2>5
<1> QED
  BY <1>3, <1>5, <1>6

\* The places of an acknowledgement.
LEMMA AckmPlaces ==
    ASSUME reply = <<"ACKM">>
    PROVE  Len(reply) = 1 /\ DOMAIN reply = 1..1 /\ reply[1] = "ACKM" /\ Offset(0) = 0 /\ Offset(1) = 6
<1>1. Len(reply) = 1 /\ DOMAIN reply = 1..1 /\ reply[1] = "ACKM"
  OBVIOUS
<1>2. Cardinality({}) = 0 /\ Cardinality({1}) = 1
  BY FS_EmptySet, FS_Singleton
<1>3. Offset(0) = 9 * 0 + 57 * 0 + 161 * 0 + 6 * 0
  <2>1. /\ Of({"LINB"}, 0) = {}
        /\ Of({"ITEM"}, 0) = {}
        /\ Of({"OLDM"}, 0) = {}
        /\ Of({"ENDM", "ACKM"}, 0) = {}
    BY DEF Of
  <2> QED
    BY <1>2, <2>1, OffsetIsSum
<1>4. Offset(1) = 9 * 0 + 57 * 0 + 161 * 0 + 6 * 1
  <2>1. /\ Of({"LINB"}, 1) = {}
        /\ Of({"ITEM"}, 1) = {}
        /\ Of({"OLDM"}, 1) = {}
        /\ Of({"ENDM", "ACKM"}, 1) = {1}
    BY <1>1 DEF Of
  <2> QED
    BY <1>2, <2>1, OffsetIsSum
<1> QED
  BY <1>1, <1>3, <1>4

\* Nothing is 0 bytes.
LEMMA NoMessage == Offset(0) = 0 /\ Offset(0)' = 0
<1>1. /\ Of({"LINB"}, 0) = {} /\ Of({"ITEM"}, 0) = {}
      /\ Of({"OLDM"}, 0) = {} /\ Of({"ENDM", "ACKM"}, 0) = {}
  BY DEF Of
<1>2. /\ Of({"LINB"}, 0)' = {} /\ Of({"ITEM"}, 0)' = {}
      /\ Of({"OLDM"}, 0)' = {} /\ Of({"ENDM", "ACKM"}, 0)' = {}
  BY DEF Of
<1>3. Cardinality({}) = 0
  BY FS_EmptySet
<1>4. Offset(0)' = 9 * Cardinality(Of({"LINB"}, 0)') + 57 * Cardinality(Of({"ITEM"}, 0)')
                     + 161 * Cardinality(Of({"OLDM"}, 0)') + 6 * Cardinality(Of({"ENDM", "ACKM"}, 0)')
  BY Lengths DEF Offset, Of
<1> QED
  BY <1>1, <1>2, <1>3, <1>4, OffsetIsSum

\* A reply, once its call has reached a server.
LEMMA ReplyShape ==
    ASSUME CallFits, server # "none"
    PROVE  /\ call \in Lists =>
                \E n \in 0..MaxListed : reply = <<"LINB">> \o Copies(n, "ITEM") /\ Nb = n
           /\ call \in Lasts =>
                \E n \in 0..asked : reply = Append(Copies(n, "OLDM"), "ENDM") /\ Nb = n
           /\ call \in Posts => reply = <<"ACKM">>
<1>1. reply \in Replies
  BY DEF CallFits
<1>2. /\ call \in Lists => reply \in ListReplies
      /\ call \in Lasts => reply \in LastReplies
      /\ call \in Posts => reply \in MessReplies
  BY <1>1 DEF Replies, Lists, Lasts, Posts
<1>3. ASSUME call \in Lists
      PROVE  \E n \in 0..MaxListed : reply = <<"LINB">> \o Copies(n, "ITEM") /\ Nb = n
  <2>1. PICK n \in 0..MaxListed : reply = <<"LINB">> \o Copies(n, "ITEM")
    BY <1>2, <1>3 DEF ListReplies
  <2>2. n \in Nat
    BY ClientLibAssumption
  <2>3. Len(reply) = n + 1
    BY <2>1, <2>2, ListPlaces
  <2>4. Nb = n
    BY <2>2, <2>3 DEF Nb
  <2> QED
    BY <2>1, <2>4
<1>4. ASSUME call \in Lasts
      PROVE  \E n \in 0..asked : reply = Append(Copies(n, "OLDM"), "ENDM") /\ Nb = n
  <2>1. PICK n \in 0..asked : reply = Append(Copies(n, "OLDM"), "ENDM")
    BY <1>2, <1>4 DEF LastReplies
  <2>2. n \in Nat
    OBVIOUS
  <2>3. Len(reply) = n + 1
    BY <2>1, <2>2, LastPlaces
  <2>4. Nb = n
    BY <2>2, <2>3 DEF Nb
  <2> QED
    BY <2>1, <2>4
<1> QED
  BY <1>2, <1>3, <1>4 DEF MessReplies

\* What a recv returns is no more than its room, nor than what has arrived.
LEMMA ReceivedFits ==
    ASSUME NEW room \in Nat, NEW r \in Received(room), Offset(sent) \in Nat, pos \in 0..Offset(sent)
    PROVE  /\ r \in 0..room /\ pos + r \in 0..Offset(sent)
           /\ r = 0 => server \in {"fin", "lost"} /\ Available = 0
<1>1. Available \in Nat /\ Available <= Offset(sent) - pos
  BY DEF Available
<1>2. \A p \in CutPoints : p \in Nat
  <2> SUFFICES ASSUME NEW k \in 0..(Len(reply) - 1), NEW c \in Cuts \cup {0} PROVE Offset(k) + c \in Nat
    BY DEF CutPoints
  <2>1. k \in Int
    OBVIOUS
  <2>2. Offset(k) \in Nat
    BY <2>1, OffsetType
  <2>3. c \in Nat
    BY ClientLibAssumption
  <2> QED
    BY <2>2, <2>3
<1>3. CASE r \in {0} /\ server \in {"fin", "lost"} /\ Available = 0
  BY <1>3
<1>4. CASE /\ r \in {room, Available} \cup {p - pos : p \in CutPoints}
           /\ r > 0 /\ r <= room /\ r <= Available
  <2>1. r \in Int
    BY <1>1, <1>2, <1>4
  <2>2. r \in 1..room /\ r <= Offset(sent) - pos
    BY <1>1, <1>4, <2>1
  <2> QED
    BY <2>2
<1> QED
  BY <1>3, <1>4 DEF Received

\* The types read in a reply to LAST, and where.
LEMMA LastTypes ==
    ASSUME NEW n \in Nat, reply = Append(Copies(n, "OLDM"), "ENDM"), pos \in Nat, NEW r \in Nat
    PROVE  /\ TypeOf(r) \in {"OLDM", "ENDM", "none"}
           /\ TypeOf(r) = "OLDM" => r >= 4 /\ \E j \in 0..(n - 1) : pos = 161 * j
           /\ TypeOf(r) = "ENDM" => r >= 4 /\ pos = 161 * n
           /\ TypeOf(r) = "none" => r < 4 \/ \A j \in 0..n : pos # 161 * j
<1>1. /\ DOMAIN reply = 1..(n + 1)
      /\ \A k \in 1..n : reply[k] = "OLDM"
      /\ reply[n + 1] = "ENDM"
      /\ \A k \in 0..n : Offset(k) = 161 * k
  BY LastPlaces
<1>2. \A k \in DOMAIN reply : Offset(k - 1) = 161 * (k - 1)
  BY <1>1
<1>3. CASE r >= 4 /\ \E k \in DOMAIN reply : pos = Offset(k - 1)
  <2> DEFINE k == CHOOSE k \in DOMAIN reply : pos = Offset(k - 1)
  <2>1. k \in DOMAIN reply /\ pos = Offset(k - 1)
    BY <1>3
  <2>2. TypeOf(r) = reply[k]
    BY <1>3 DEF TypeOf
  <2> HIDE DEF k
  <2>3. k \in 1..(n + 1) /\ pos = 161 * (k - 1)
    BY <1>1, <1>2, <2>1
  <2>4. CASE k = n + 1
    BY <1>1, <1>3, <2>2, <2>3, <2>4
  <2>5. CASE k \in 1..n
    <3>1. k - 1 \in 0..(n - 1)
      BY <2>5
    <3> QED
      BY <1>1, <1>3, <2>2, <2>3, <2>5, <3>1
  <2> QED
    BY <2>3, <2>4, <2>5
<1>4. CASE ~(r >= 4 /\ \E k \in DOMAIN reply : pos = Offset(k - 1))
  <2>1. TypeOf(r) = "none"
    BY <1>4 DEF TypeOf
  <2>2. ASSUME r >= 4, NEW j \in 0..n PROVE pos # 161 * j
    <3>1. j + 1 \in DOMAIN reply /\ Offset((j + 1) - 1) = 161 * j
      BY <1>1, <1>2
    <3> QED
      BY <1>4, <2>2, <3>1
  <2> QED
    BY <2>1, <2>2
<1> QED
  BY <1>3, <1>4

\* The types read in a list, and where.
LEMMA ListTypes ==
    ASSUME NEW n \in Nat, reply = <<"LINB">> \o Copies(n, "ITEM"), pos \in Nat, NEW r \in Nat
    PROVE  /\ TypeOf(r) \in {"LINB", "ITEM", "none"}
           /\ TypeOf(r) = "ITEM" => r >= 4 /\ \E j \in 0..(n - 1) : pos = 9 + 57 * j
           /\ TypeOf(r) = "LINB" => r >= 4 /\ pos = 0
<1>1. /\ DOMAIN reply = 1..(n + 1)
      /\ reply[1] = "LINB"
      /\ \A k \in 2..(n + 1) : reply[k] = "ITEM"
      /\ Offset(0) = 0
      /\ \A k \in 1..(n + 1) : Offset(k) = 9 + 57 * (k - 1)
  BY ListPlaces
<1>2. CASE r >= 4 /\ \E k \in DOMAIN reply : pos = Offset(k - 1)
  <2> DEFINE k == CHOOSE k \in DOMAIN reply : pos = Offset(k - 1)
  <2>1. k \in DOMAIN reply /\ pos = Offset(k - 1)
    BY <1>2
  <2>2. TypeOf(r) = reply[k]
    BY <1>2 DEF TypeOf
  <2> HIDE DEF k
  <2>3. k \in 1..(n + 1)
    BY <1>1, <2>1
  <2>4. CASE k = 1
    BY <1>1, <1>2, <2>1, <2>2, <2>4
  <2>5. CASE k \in 2..(n + 1)
    <3>1. k - 1 \in 1..(n + 1) /\ k - 2 \in 0..(n - 1)
      BY <2>5
    <3>2. pos = 9 + 57 * (k - 2)
      <4>1. Offset(k - 1) = 9 + 57 * ((k - 1) - 1)
        BY <1>1, <3>1
      <4>2. (k - 1) - 1 = k - 2
        BY <2>3
      <4> QED
        BY <2>1, <4>1, <4>2
    <3> QED
      BY <1>1, <1>2, <2>2, <2>5, <3>1, <3>2
  <2> QED
    BY <2>3, <2>4, <2>5
<1>3. CASE ~(r >= 4 /\ \E k \in DOMAIN reply : pos = Offset(k - 1))
  BY <1>3 DEF TypeOf
<1> QED
  BY <1>2, <1>3

-----------------------------------------------------------------------------
(* Types, and what a call has received.                                    *)

Types == {"LINB", "ITEM", "OLDM", "ENDM", "ACKM"}

\* A call starts with nothing received.
LEMMA CallInit == Init => CallInv
<1> SUFFICES ASSUME Init PROVE CallInv
  OBVIOUS
<1>1. TypeOK
  BY NoMessage, ClientLibAssumption DEF Init, TypeOK
<1>2. CallFits
  BY DEF Init, CallFits
<1>3. LastFits /\ ListFits
  BY DEF Init, LastFits, ListFits
<1> QED
  BY <1>1, <1>2, <1>3 DEF CallInv

\* The messages of a reply.
LEMMA RepliesType ==
    ASSUME asked \in Nat, NEW r \in ListReplies \cup LastReplies \cup MessReplies
    PROVE  r \in Seq(Types)
<1>1. ASSUME NEW n \in Nat, NEW t \in Types PROVE Copies(n, t) \in Seq(Types)
  <2>1. Copies(n, t) \in [1..n -> Types]
    BY DEF Copies
  <2> HIDE DEF Copies
  <2> QED
    BY <2>1, FunctionIsSeq
<1>2. CASE r \in ListReplies
  <2>1. PICK n \in 0..MaxListed : r = <<"LINB">> \o Copies(n, "ITEM")
    BY <1>2 DEF ListReplies
  <2>2. Copies(n, "ITEM") \in Seq(Types) /\ <<"LINB">> \in Seq(Types)
    BY <1>1, ClientLibAssumption DEF Types
  <2> HIDE DEF Copies
  <2> QED
    BY <2>1, <2>2
<1>3. CASE r \in LastReplies
  <2>1. PICK n \in 0..asked : r = Append(Copies(n, "OLDM"), "ENDM")
    BY <1>3 DEF LastReplies
  <2>2. Copies(n, "OLDM") \in Seq(Types) /\ "ENDM" \in Types
    BY <1>1 DEF Types
  <2> QED
    BY <2>1, <2>2
<1>4. CASE r \in MessReplies
  <2>1. <<"ACKM">> \in Seq(Types)
    BY DEF Types
  <2> QED
    BY <1>4, <2>1 DEF MessReplies
<1> QED
  BY <1>2, <1>3, <1>4

\* One more message is some more bytes.
LEMMA OffsetGrows ==
    ASSUME TypeOK, CallFits, server # "none", sent < Len(reply)
    PROVE  Offset(sent) <= Offset(sent + 1)
<1>1. sent \in 0..Len(reply) /\ call \in Lists \cup Lasts \cup Posts
  BY DEF TypeOK
<1>2. CASE call \in Lists
  <2>1. PICK n \in 0..MaxListed : reply = <<"LINB">> \o Copies(n, "ITEM")
    BY <1>2, ReplyShape
  <2>2. n \in Nat
    BY ClientLibAssumption
  <2>3. Len(reply) = n + 1 /\ Offset(0) = 0 /\ \A k \in 1..(n + 1) : Offset(k) = 9 + 57 * (k - 1)
    BY <2>1, <2>2, ListPlaces
  <2>4. sent + 1 \in 1..(n + 1)
    BY <1>1, <2>2, <2>3
  <2>5. Offset(sent + 1) = 9 + 57 * sent
    BY <1>1, <2>3, <2>4
  <2>6. CASE sent = 0
    BY <2>3, <2>5, <2>6
  <2>7. CASE sent # 0
    <3>1. Offset(sent) = 9 + 57 * (sent - 1)
      BY <1>1, <2>3, <2>7
    <3> QED
      BY <1>1, <2>5, <3>1
  <2> QED
    BY <2>6, <2>7
<1>3. CASE call \in Lasts
  <2>1. PICK n \in 0..asked : reply = Append(Copies(n, "OLDM"), "ENDM")
    BY <1>3, ReplyShape
  <2>2. n \in Nat
    OBVIOUS
  <2>3. Len(reply) = n + 1 /\ Offset(n + 1) = 161 * n + 6 /\ \A k \in 0..n : Offset(k) = 161 * k
    BY <2>1, <2>2, LastPlaces
  <2>4. sent \in 0..n /\ (sent + 1 \in 0..n \/ sent = n)
    BY <1>1, <2>2, <2>3
  <2> QED
    BY <2>2, <2>3, <2>4
<1>4. CASE call \in Posts
  <2>1. Len(reply) = 1 /\ Offset(0) = 0 /\ Offset(1) = 6
    BY <1>4, ReplyShape, AckmPlaces
  <2>2. sent = 0
    BY <1>1, <2>1
  <2> QED
    BY <2>1, <2>2
<1> QED
  BY <1>1, <1>2, <1>3, <1>4

\* The number that LINB gives, or what takes its place, is in its bounds.
LEMMA NumberType ==
    ASSUME TypeOK, CallFits, call \in Lists, server # "none", NEW r \in Nat, NEW n \in Number(r)
    PROVE  /\ n \in -1..MaxListed
           /\ r >= 7 => n = Nb
           /\ r = 5 => n = 0
<1>1. PICK m \in 0..MaxListed : Nb = m
  BY ReplyShape
<1>2. /\ m \in Nat /\ m <= MaxListed /\ MaxListed \in Nat
      /\ m \div 10 \in 0..m
  BY ClientLibAssumption
<1> QED
  BY <1>1, <1>2 DEF Number, Nb

\* Sending the request gives the call its reply and the first recv to wait in.
LEMMA RequestStep ==
    ASSUME TypeOK, CallFits, RequestList \/ RequestLast \/ RequestMess
    PROVE  CallInv'
<1>1. /\ pc = "request" /\ server' = "serving"
      /\ UNCHANGED <<call, asked, sent, pos, size, chunks, stored, result>>
      /\ \/ call \in Lists /\ reply' \in ListReplies /\ pc' = "linb"
         \/ call \in Lasts /\ reply' \in LastReplies /\ pc' = "oldm"
         \/ call \in Posts /\ reply' \in MessReplies /\ pc' = "ackm"
  BY DEF RequestList, RequestLast, RequestMess, Request, locals
<1>2. server = "none" /\ reply = <<>> /\ pos = 0 /\ chunks = <<>> /\ result = "none"
  BY <1>1 DEF CallFits, TypeOK
<1>3. sent = 0 /\ asked \in Nat
  BY <1>2, ClientLibAssumption DEF TypeOK
<1>4. reply' \in Seq(Types) /\ Len(reply') \in Nat
  BY <1>1, <1>3, RepliesType
<1>5. Offset(sent)' = 0
  <2>1. Offset(sent)' = Offset(0)'
    BY <1>1, <1>3 DEF Offset
  <2> QED
    BY <2>1, NoMessage
<1>6. TypeOK'
  BY <1>1, <1>2, <1>3, <1>4, <1>5 DEF TypeOK, Types
<1>7. CallFits'
  <2>1. reply' \in Replies'
    BY <1>1 DEF Replies, ListReplies, LastReplies, MessReplies, Lists, Lasts, Posts
  <2> QED
    BY <1>1, <1>2, <2>1 DEF CallFits
<1>8. LastFits' /\ ListFits'
  BY <1>1, <1>2 DEF LastFits, ReadingLast, ListFits
<1> QED
  BY <1>6, <1>7, <1>8 DEF CallInv

\* The places are the same while the reply is.
LEMMA SamePlaces ==
    ASSUME reply' = reply
    PROVE  /\ \A k \in Nat : Offset(k)' = Offset(k)
           /\ Nb' = Nb
BY DEF Offset, Nb

\* What the server does is not seen before the next recv.
LEMMA ServerStep ==
    ASSUME CallInv, ServerSends \/ ServerStops
    PROVE  CallInv'
<1>1. /\ server = "serving" /\ server' \in {"serving", "fin", "reset"}
      /\ UNCHANGED <<call, asked, pc, reply, pos, size, chunks, stored, result>>
  BY DEF ServerSends, ServerStops, locals
<1>2. sent \in 0..Len(reply) /\ sent' \in {sent, sent + 1} /\ sent' \in 0..Len(reply)
  <2>1. sent \in 0..Len(reply) /\ reply \in Seq(Types)
    BY DEF CallInv, TypeOK, Types
  <2> QED
    BY <2>1 DEF ServerSends, ServerStops
<1>3. TypeOK'
  <2>1. Offset(sent)' = Offset(sent')
    BY <1>1 DEF Offset
  <2>2. Offset(sent) \in Nat /\ Offset(sent') \in Nat /\ Offset(sent) <= Offset(sent')
    <3>1. CASE sent' = sent
      BY <1>2, <3>1, OffsetType
    <3>2. CASE sent' = sent + 1
      <4>1. sent < Len(reply) /\ sent \in Int /\ sent + 1 \in Int
        BY <1>1, <1>2, <3>2 DEF CallInv, TypeOK
      <4>2. Offset(sent) <= Offset(sent + 1)
        BY <1>1, <4>1, OffsetGrows DEF CallInv
      <4> QED
        BY <3>2, <4>1, <4>2, OffsetType
    <3> QED
      BY <1>2, <3>1, <3>2
  <2>3. pos \in 0..Offset(sent') /\ 0..Offset(sent) \subseteq 0..Offset(sent')
    BY <2>2 DEF CallInv, TypeOK
  <2>4. chunks \in Seq([from : 0..Offset(sent'), len : 0..511])
    <3> DEFINE C(n) == [from : 0..n, len : 0..511]
    <3>1. C(Offset(sent)) \subseteq C(Offset(sent'))
      BY <2>3
    <3>2. chunks \in Seq(C(Offset(sent)))
      BY DEF CallInv, TypeOK
    <3> HIDE DEF C
    <3>3. chunks \in Seq(C(Offset(sent')))
      BY <3>1, <3>2
    <3> QED
      BY <3>3 DEF C
  <2> QED
    BY <1>1, <1>2, <2>1, <2>3, <2>4 DEF CallInv, TypeOK
<1>4. CallFits'
  BY <1>1 DEF CallInv, CallFits, Replies, ListReplies, LastReplies
<1>5. ASSUME NEW c, IsCut(c) PROVE IsCut(c)'
  <2>1. \A k \in 0..Len(reply) : Offset(k)' = Offset(k)
    BY <1>1, SamePlaces
  <2> QED
    BY <1>1, <1>5, <2>1 DEF IsCut
<1> HIDE DEF IsCut
<1>6. LastFits'
  BY <1>1, <1>5 DEF CallInv, LastFits, ReadingLast, LastChunk, OldmAt, Nb
<1>7. ListFits'
  BY <1>1 DEF CallInv, ListFits, ReadingList, LastChunk, ItemAt, Nb
<1> QED
  BY <1>3, <1>4, <1>6, <1>7 DEF CallInv

\* A request that cannot be sent returns the error at once.
LEMMA RequestFailsStep ==
    ASSUME CallInv, RequestFails
    PROVE  CallInv'
<1>1. /\ pc = "request" /\ pc' = "returned" /\ result' = "error"
      /\ UNCHANGED <<call, asked, reply, sent, server, pos, size, chunks, stored>>
  BY DEF RequestFails, Return, stream
<1>2. server = "none"
  BY <1>1 DEF CallInv, CallFits
<1>3. Offset(sent)' = Offset(sent)
  BY <1>1 DEF Offset
<1>4. TypeOK' /\ CallFits'
  BY <1>1, <1>2, <1>3 DEF CallInv, TypeOK, CallFits
<1> QED
  BY <1>1, <1>2, <1>4 DEF CallInv, LastFits, ListFits

\* The lengths of the arrays given to recv, and what a recv may put there.
Rooms == 0..511
Chunk == [from : 0..Offset(sent), len : Rooms]

\* What a recv with some room returns.
LEMMA ReceivedType ==
    ASSUME TypeOK, NEW room \in Rooms, NEW r \in Received(room)
    PROVE  /\ r \in 0..room /\ r \in Rooms /\ r \in Nat
           /\ pos + r \in 0..Offset(sent) /\ pos \in Nat
           /\ r = 0 => server \in {"fin", "lost"} /\ Available = 0
<1>1. sent \in Int /\ room \in Nat
  BY DEF TypeOK, Rooms
<1>2. Offset(sent) \in Nat /\ pos \in 0..Offset(sent)
  BY <1>1, OffsetType DEF TypeOK
<1>3. /\ r \in 0..room /\ pos + r \in 0..Offset(sent)
      /\ r = 0 => server \in {"fin", "lost"} /\ Available = 0
  BY <1>1, <1>2, ReceivedFits
<1>4. r \in Rooms /\ r \in Nat /\ pos \in Nat
  BY <1>2, <1>3 DEF Rooms
<1> QED
  BY <1>3, <1>4

\* What it adds to the chunks.
LEMMA TakenType ==
    ASSUME TypeOK, NEW r \in Rooms
    PROVE  LET c == [from |-> pos, len |-> r]
           IN  /\ chunks \in Seq(Chunk) /\ Len(chunks) \in Nat
               /\ Append(chunks, c) \in Seq(Chunk)
               /\ Len(Append(chunks, c)) = Len(chunks) + 1
               /\ Append(chunks, c)[Len(chunks) + 1] = c
               /\ \A k \in 1..Len(chunks) : Append(chunks, c)[k] = chunks[k]
<1> DEFINE c == [from |-> pos, len |-> r]
<1>1. chunks \in Seq(Chunk)
  BY DEF TypeOK, Chunk, Rooms
<1>2. c \in Chunk
  BY DEF TypeOK, Chunk
<1> HIDE DEF c
<1>3. /\ Len(chunks) \in Nat /\ Append(chunks, c) \in Seq(Chunk)
      /\ Len(Append(chunks, c)) = Len(chunks) + 1
      /\ Append(chunks, c)[Len(chunks) + 1] = c
      /\ \A k \in 1..Len(chunks) : Append(chunks, c)[k] = chunks[k]
  BY <1>1, <1>2
<1> QED
  BY <1>1, <1>3 DEF c

\* Places and lengths are numbers of bytes.
LEMMA ChunkType ==
    ASSUME TypeOK, NEW k \in 1..Len(chunks)
    PROVE  chunks[k].from \in Nat /\ chunks[k].len \in Nat
<1> DEFINE C == [from : 0..Offset(sent), len : 0..511]
<1>1. chunks \in Seq(C)
  BY DEF TypeOK
<1> HIDE DEF C
<1>2. chunks[k] \in C
  BY <1>1, ElementOfSeq
<1>3. chunks[k].from \in 0..Offset(sent) /\ chunks[k].len \in 0..511
  BY <1>2 DEF C
<1> DEFINE a == chunks[k].from
           b == chunks[k].len
<1>4. a \in 0..Offset(sent) /\ b \in 0..511
  BY <1>3
<1> HIDE DEF a, b
<1>5. a \in Nat /\ b \in Nat
  BY <1>4
<1> QED
  BY <1>5 DEF a, b

\* LINB is read whole, or the first ITEM is not found where it starts.
LEMMA LinbStep ==
    ASSUME CallInv, RecvLinb
    PROVE  CallInv'
<1>1. /\ pc = "linb" /\ call \in Lists /\ server # "none" /\ chunks = <<>> /\ pos = 0
      /\ TypeOK /\ CallFits /\ result = "none"
  BY DEF RecvLinb, CallInv, CallFits, TypeOK
<1>2. PICK r \in Received(511) :
        /\ pos' = pos + r
        /\ \/ TypeOf(r) = "LINB" /\ size' \in Number(r) /\ pc' = "item" /\ UNCHANGED result
           \/ TypeOf(r) # "LINB" /\ pc' = "returned" /\ result' = "error" /\ UNCHANGED size
  BY DEF RecvLinb, Return
<1>3. r \in Nat /\ pos + r \in 0..Offset(sent)
  <2>1. \A room \in Rooms : \A q \in Received(room) : q \in Nat /\ pos + q \in 0..Offset(sent)
    BY <1>1, ReceivedType
  <2>2. 511 \in Rooms
    BY DEF Rooms
  <2> DEFINE room == 511
  <2>3. room \in Rooms /\ r \in Received(room)
    BY <1>2, <2>2
  <2> HIDE DEF room
  <2> QED
    BY <2>1, <2>3, Zenon
<1>4. UNCHANGED <<call, asked, reply, sent, server, chunks, stored>>
  BY DEF RecvLinb, stream
<1>5. Offset(sent)' = Offset(sent) /\ Nb' = Nb
  BY <1>4 DEF Offset, Nb
<1>6. size' \in -1..MaxListed
  BY <1>1, <1>2, <1>3, NumberType DEF TypeOK, Lists, Lasts
<1>7. TypeOK'
  BY <1>1, <1>2, <1>3, <1>4, <1>5, <1>6 DEF TypeOK, Lists, Lasts
<1>8. CallFits'
  BY <1>1, <1>2, <1>4 DEF CallFits, Replies, ListReplies, LastReplies
<1>9. call' \notin Lasts
  BY <1>1, <1>4 DEF Lists, Lasts
<1>10. ListFits'
  <2>1. CASE TypeOf(r) = "LINB"
    <3>1. r >= 7 => size' = Nb
      BY <1>1, <1>2, <1>3, <2>1, NumberType
    <3>2. pos' = r
      BY <1>1, <1>2, <1>3
    <3> QED
      BY <1>1, <1>2, <1>3, <1>4, <1>5, <2>1, <3>1, <3>2, Lengths DEF ListFits, ReadingList
  <2>2. CASE TypeOf(r) # "LINB"
    BY <1>2, <2>2 DEF ListFits
  <2> QED
    BY <2>1, <2>2
<1> QED
  BY <1>7, <1>8, <1>9, <1>10 DEF CallInv, LastFits

\* One more ITEM: it starts further than the one before.
LEMMA ItemStep ==
    ASSUME CallInv, RecvItem
    PROVE  CallInv'
<1> DEFINE l == Len(chunks)
<1>1. /\ pc = "item" /\ call \in Lists /\ server # "none" /\ l < size
      /\ TypeOK /\ CallFits /\ result = "none" /\ ReadingList
  BY DEF RecvItem, CallInv, CallFits, TypeOK, ListFits
<1>2. ItemRoom \in Rooms
  BY Lengths DEF ItemRoom, Rooms
<1>3. PICK r \in Received(ItemRoom) :
        /\ Take(r)
        /\ \/ TypeOf(r) = "ITEM" /\ UNCHANGED <<pc, result>>
           \/ TypeOf(r) # "ITEM" /\ pc' = "returned" /\ result' = "error"
  BY DEF RecvItem, Return
<1> DEFINE c == [from |-> pos, len |-> r]
<1>4. /\ pos' = pos + r /\ chunks' = Append(chunks, c) /\ stored' \in {stored, stored + 1}
  BY <1>3 DEF Take
<1>5. /\ r \in Rooms /\ r \in Nat /\ pos + r \in 0..Offset(sent) /\ pos \in Nat
      /\ chunks \in Seq(Chunk) /\ l \in Nat
      /\ chunks' \in Seq(Chunk) /\ Len(chunks') = l + 1
      /\ chunks'[l + 1] = c /\ \A k \in 1..l : chunks'[k] = chunks[k]
  <2>1. r \in Rooms /\ r \in Nat /\ pos + r \in 0..Offset(sent) /\ pos \in Nat
    BY <1>1, <1>2, ReceivedType
  <2>2. /\ chunks \in Seq(Chunk) /\ l \in Nat
        /\ Append(chunks, c) \in Seq(Chunk)
        /\ Len(Append(chunks, c)) = l + 1
        /\ Append(chunks, c)[l + 1] = c
        /\ \A k \in 1..l : Append(chunks, c)[k] = chunks[k]
    BY <1>1, <2>1, TakenType
  <2> HIDE DEF c, l
  <2> QED
    BY <1>4, <2>1, <2>2
<1>6. UNCHANGED <<call, asked, reply, sent, server, size>>
  BY DEF RecvItem, stream
<1>7. Offset(sent)' = Offset(sent) /\ Nb' = Nb
  BY <1>6 DEF Offset, Nb
<1>8. TypeOK'
  <2>1. stored' \in 0..Len(chunks')
    BY <1>1, <1>4, <1>5 DEF TypeOK
  <2> QED
    BY <1>1, <1>3, <1>4, <1>5, <1>6, <1>7, <2>1 DEF TypeOK, Chunk, Rooms
<1>9. CallFits'
  BY <1>1, <1>3, <1>6 DEF CallFits, Replies, ListReplies, LastReplies
<1>10. call' \notin Lasts
  BY <1>1, <1>6 DEF Lists, Lasts
<1>11. ASSUME TypeOf(r) = "ITEM" PROVE ListFits'
  <2>1. PICK n \in 0..MaxListed : reply = <<"LINB">> \o Copies(n, "ITEM") /\ Nb = n
    BY <1>1, ReplyShape
  <2>2. n \in Nat
    BY ClientLibAssumption
  <2>4. r >= 4 /\ \E j \in 0..(n - 1) : pos = 9 + 57 * j
    <3>1. r \in Nat /\ pos \in Nat
      BY <1>5
    <3>2. TypeOf(r) = "ITEM" => r >= 4 /\ \E j \in 0..(n - 1) : pos = 9 + 57 * j
      BY <2>1, <2>2, <3>1, ListTypes
    <3> QED
      BY <1>11, <3>2
  <2>3. PICK j \in 0..(n - 1) : pos = 9 + 57 * j
    BY <2>4
  <2>5. chunks \in Seq([from : 0..Offset(sent), len : 0..511]) /\ l \in Nat
    BY <1>1 DEF TypeOK
  <2>6. chunks'[l + 1] = c /\ \A k \in 1..l : chunks'[k] = chunks[k]
    BY <1>4, <2>5
  <2>7. size = n
    <3>1. CASE chunks = <<>>
      BY <1>1, <2>1, <2>2, <2>3, <3>1, Lengths DEF ReadingList
    <3>2. CASE chunks # <<>>
      BY <1>1, <2>1, <3>2 DEF ReadingList
    <3> QED
      BY <3>1, <3>2
  <2>8. ItemAt(pos) /\ \A k \in Int : ItemPlace(k) = 9 + 57 * k
    BY <2>1, <2>3, Lengths DEF ItemAt, ItemPlace
  <2>9. \A k \in 1..l : chunks[k].from \in Nat /\ chunks[k].len \in Nat
    BY <1>1, ChunkType
  <2>10. pos >= 9 + 57 * l /\ \A k \in 1..l : pos >= chunks[k].from + 57 * (l + 1 - k)
    <3>1. CASE chunks = <<>>
      <4>1. l = 0
        BY <3>1
      <4> QED
        BY <2>2, <2>3, <4>1
    <3>2. CASE chunks # <<>>
      <4>1. l \in 1..l
        BY <2>5, <3>2
      <4>2. /\ pos = chunks[l].from + chunks[l].len /\ chunks[l].len >= 4
            /\ ItemAt(chunks[l].from) /\ chunks[l].from >= ItemPlace(l - 1)
            /\ \A k \in 1..l : chunks[l].from >= chunks[k].from + 57 * (l - k)
        BY <1>1, <3>2, <4>1, Lengths DEF ReadingList, LastChunk
      <4>3. PICK i \in 0..(n - 1) : chunks[l].from = 9 + 57 * i
        BY <2>1, <2>2, <2>8, <4>2 DEF ItemAt
      <4>4. pos >= chunks[l].from + 57
        BY <2>2, <2>3, <2>9, <4>1, <4>2, <4>3
      <4>5. chunks[l].from >= 9 + 57 * (l - 1)
        BY <2>5, <2>8, <4>2
      <4>6. ASSUME NEW k \in 1..l PROVE pos >= chunks[k].from + 57 * (l + 1 - k)
        <5> DEFINE a == chunks[l].from
                   b == chunks[k].from
        <5>1. a >= b + 57 * (l - k)
          BY <4>2
        <5>2. a \in Nat /\ b \in Nat /\ l \in Nat /\ k \in Nat /\ pos \in Nat
          BY <1>5, <2>5, <2>9, <4>1
        <5>3. pos >= a + 57
          BY <4>4
        <5> HIDE DEF a, b, l
        <5>4. pos >= b + 57 * (l + 1 - k)
          BY <5>1, <5>2, <5>3
        <5> QED
          BY <5>4 DEF b, l
      <4>7. pos >= 9 + 57 * l
        <5> DEFINE a == chunks[l].from
        <5>1. a \in Nat /\ l \in Nat /\ pos \in Nat
          BY <1>5, <2>5, <2>9, <4>1
        <5>2. pos >= a + 57 /\ a >= 9 + 57 * (l - 1)
          BY <4>4, <4>5
        <5> HIDE DEF a, l
        <5> QED
          BY <5>1, <5>2
      <4> QED
        BY <4>6, <4>7
    <3> QED
      BY <3>1, <3>2
  <2>11. ASSUME NEW k \in 1..(l + 1)
         PROVE  /\ chunks'[k].from >= 9 + 57 * (k - 1)
                /\ chunks'[l + 1].from >= chunks'[k].from + 57 * (l + 1 - k)
    <3>1. CASE k = l + 1
      BY <1>5, <2>5, <2>6, <2>10, <3>1
    <3>2. CASE k \in 1..l
      <4>1. chunks[k].from >= ItemPlace(k - 1)
        <5>1. chunks # <<>>
          BY <2>5, <3>2
        <5> QED
          BY <1>1, <3>2, <5>1 DEF ReadingList
      <4>2. chunks[k].from >= 9 + 57 * (k - 1)
        BY <2>8, <3>2, <4>1
      <4>3. pos >= chunks[k].from + 57 * (l + 1 - k)
        BY <2>10, <3>2
      <4>4. chunks'[k] = chunks[k] /\ chunks'[l + 1].from = pos
        BY <2>6, <3>2
      <4> QED
        BY <4>2, <4>3, <4>4
    <3> QED
      BY <2>5, <3>1, <3>2
  <2>12. ASSUME NEW k \in 1..l PROVE chunks'[k + 1].from = chunks'[k].from + chunks'[k].len
    <3>1. chunks # <<>>
      BY <2>5
    <3>2. CASE k = l
      BY <1>1, <2>5, <2>6, <3>1, <3>2 DEF ReadingList, LastChunk
    <3>3. CASE k \in 1..(l - 1)
      <4>1. chunks[k + 1].from = chunks[k].from + chunks[k].len
        BY <1>1, <3>1, <3>3 DEF ReadingList
      <4>2. k + 1 \in 1..l
        BY <2>5, <3>3
      <4> QED
        BY <2>6, <4>1, <4>2
    <3> QED
      BY <2>5, <3>2, <3>3
  <2>13. ReadingList'
    <3>1. chunks' # <<>> /\ Len(chunks') = l + 1
      BY <1>5, <2>5
    <3>2. LastChunk'
      BY <1>4, <2>4, <2>6, <3>1 DEF LastChunk
    <3>3. size' = Nb' /\ l + 1 <= size'
      BY <1>1, <1>6, <1>7, <2>1, <2>2, <2>5, <2>7
    <3>4. \E i \in 0..(Nb' - 1) : chunks'[l + 1].from = ItemPlace(i)
      BY <1>7, <2>6, <2>8 DEF ItemAt
    <3>5. ReadingList' <=>
            /\ LastChunk'
            /\ size' = Nb' /\ l + 1 <= size'
            /\ \E i \in 0..(Nb' - 1) : chunks'[l + 1].from = ItemPlace(i)
            /\ \A k \in 1..(l + 1) :
                  /\ chunks'[k].from >= ItemPlace(k - 1)
                  /\ chunks'[l + 1].from >= chunks'[k].from + 57 * (l + 1 - k)
            /\ \A k \in 1..l : chunks'[k + 1].from = chunks'[k].from + chunks'[k].len
      BY <2>5, <3>1, Lengths DEF ReadingList, ItemAt
    <3>6. \A k \in 1..(l + 1) : ItemPlace(k - 1) = 9 + 57 * (k - 1)
      BY <2>5, <2>8
    <3> HIDE DEF l, c
    <3> QED
      BY <2>11, <2>12, <3>2, <3>3, <3>4, <3>5, <3>6
  <2> QED
    BY <1>1, <1>11, <1>3, <2>13 DEF ListFits
<1>12. ASSUME TypeOf(r) # "ITEM" PROVE ListFits'
  BY <1>3, <1>12 DEF ListFits
<1> QED
  BY <1>8, <1>9, <1>10, <1>11, <1>12 DEF CallInv, LastFits

\* A list succeeds with as many ITEM messages as there are: each one started
\* further than the one before and before the end, so none was skipped.
LEMMA ListEndsStep ==
    ASSUME CallInv, ListEnds
    PROVE  CallInv'
<1> DEFINE l == Len(chunks)
<1>1. /\ pc = "item" /\ call \in Lists /\ server # "none" /\ l >= size
      /\ TypeOK /\ CallFits /\ ReadingList
      /\ pc' = "returned" /\ result' \in {"success", "error"}
      /\ UNCHANGED <<call, asked, reply, sent, server, pos, size, chunks, stored>>
  BY DEF ListEnds, Return, stream, CallInv, CallFits, ListFits
<1>2. Offset(sent)' = Offset(sent) /\ Nb' = Nb
  BY <1>1 DEF Offset, Nb
<1>3. TypeOK'
  BY <1>1, <1>2 DEF TypeOK
<1>4. CallFits'
  BY <1>1 DEF CallFits, Replies, ListReplies, LastReplies
<1>5. call' \notin Lasts
  BY <1>1 DEF Lists, Lasts
<1>6. ASSUME size > 0
      PROVE  /\ size = Nb /\ size = l
             /\ \A k \in 1..size : chunks[k].from = ItemPlace(k - 1)
             /\ \A k \in 1..(size - 1) : chunks[k].len = msglen("ITEM")
  <2>1. chunks # <<>> /\ l \in Nat /\ size \in Int
    BY <1>1, <1>6 DEF TypeOK
  <2>2. /\ size = Nb /\ l = size /\ ItemAt(chunks[l].from)
        /\ \A k \in 1..l : chunks[k].from >= 9 + 57 * (k - 1)
        /\ \A k \in 1..l : chunks[l].from >= chunks[k].from + 57 * (l - k)
        /\ \A k \in 1..(l - 1) : chunks[k + 1].from = chunks[k].from + chunks[k].len
    <3>1. /\ size = Nb /\ l <= size /\ ItemAt(chunks[l].from)
          /\ \A k \in 1..l : chunks[k].from >= ItemPlace(k - 1)
          /\ \A k \in 1..l : chunks[l].from >= chunks[k].from + msglen("ITEM") * (l - k)
          /\ \A k \in 1..(l - 1) : chunks[k + 1].from = chunks[k].from + chunks[k].len
      BY <1>1, <2>1 DEF ReadingList
    <3>2. l = size
      BY <1>1, <2>1, <3>1
    <3>3. \A k \in Int : ItemPlace(k) = 9 + 57 * k
      BY Lengths DEF ItemPlace
    <3>4. \A k \in 1..l : chunks[k].from >= 9 + 57 * (k - 1)
      <4> TAKE k \in 1..l
      <4>1. k - 1 \in Int
        OBVIOUS
      <4>2. ItemPlace(k - 1) = 9 + 57 * (k - 1)
        BY <3>3, <4>1
      <4> QED
        BY <3>1, <4>2
    <3> QED
      BY <3>1, <3>2, <3>4, Lengths
  <2>3. \A k \in 1..l : chunks[k].from \in Nat /\ chunks[k].len \in Nat
    BY <1>1, ChunkType
  <2>4. l \in 1..l
    BY <1>6, <2>1, <2>2
  <2>5. chunks[l].from <= 9 + 57 * (l - 1)
    <3>1. PICK i \in 0..(l - 1) : chunks[l].from = 9 + 57 * i
      BY <2>2, Lengths DEF ItemAt, ItemPlace
    <3> QED
      BY <2>1, <3>1
  <2>6. ASSUME NEW k \in 1..l PROVE chunks[k].from = 9 + 57 * (k - 1)
    <3> DEFINE a == chunks[k].from
               b == chunks[l].from
    <3>1. a \in Nat /\ b \in Nat /\ l \in Nat /\ k \in Nat
      BY <2>1, <2>3, <2>4
    <3>2. a >= 9 + 57 * (k - 1) /\ b >= a + 57 * (l - k) /\ b <= 9 + 57 * (l - 1)
      BY <2>2, <2>5
    <3> HIDE DEF a, b, l
    <3>3. a = 9 + 57 * (k - 1)
      BY <3>1, <3>2
    <3> QED
      BY <3>3 DEF a
  <2>7. ASSUME NEW k \in 1..(l - 1) PROVE chunks[k].len = 57
    <3>1. k \in 1..l /\ k + 1 \in 1..l /\ k \in Nat
      BY <2>1
    <3> DEFINE a == chunks[k].from
               b == chunks[k].len
    <3>2. a = 9 + 57 * (k - 1) /\ a + b = 9 + 57 * ((k + 1) - 1) /\ b \in Nat
      BY <2>2, <2>3, <2>6, <3>1
    <3> HIDE DEF a, b
    <3>3. b = 57
      BY <3>1, <3>2
    <3> QED
      BY <3>3 DEF b
  <2> QED
    BY <2>2, <2>6, <2>7, Lengths DEF ItemPlace
<1>7. ListFits'
  BY <1>1, <1>2, <1>6 DEF ListFits
<1> QED
  BY <1>3, <1>4, <1>5, <1>7 DEF CallInv, LastFits

\* A failed recv that is tested gives an error.
LEMMA RecvFailsStep ==
    ASSUME CallInv, RecvFails
    PROVE  CallInv'
<1>1. /\ pc \in {"linb", "ackm", "item"} /\ server = "reset" /\ server' = "lost"
      /\ pc' = "returned" /\ result' = "error"
      /\ UNCHANGED <<call, asked, reply, sent, pos, size, chunks, stored>>
  BY DEF RecvFails, Fails, Return
<1>2. Offset(sent)' = Offset(sent)
  BY <1>1 DEF Offset
<1>3. TypeOK'
  BY <1>1, <1>2 DEF CallInv, TypeOK
<1>4. CallFits'
  BY <1>1 DEF CallInv, CallFits, Replies, ListReplies, LastReplies
<1> QED
  BY <1>1, <1>3, <1>4 DEF CallInv, LastFits, ListFits

\* An acknowledgement, or what comes in its place.
LEMMA AckmStep ==
    ASSUME CallInv, RecvAckm
    PROVE  CallInv'
<1>1. /\ pc = "ackm" /\ call \in Posts /\ server # "none" /\ TypeOK /\ CallFits
      /\ pc' = "returned" /\ result' \in {"success", "error"}
      /\ UNCHANGED <<call, asked, reply, sent, server, size, chunks, stored>>
  BY DEF RecvAckm, Return, stream, CallInv, CallFits
<1>2. pos' \in 0..Offset(sent)
  <2> DEFINE room == IF call = "mess_diff" THEN 511 ELSE msglen("ACKM")
  <2>1. PICK r \in Received(room) : pos' = pos + r
    BY DEF RecvAckm
  <2>2. room \in Rooms
    BY Lengths DEF Rooms
  <2> HIDE DEF room
  <2> QED
    BY <1>1, <2>1, <2>2, ReceivedType
<1>3. Offset(sent)' = Offset(sent)
  BY <1>1 DEF Offset
<1>4. TypeOK' /\ CallFits'
  BY <1>1, <1>2, <1>3 DEF TypeOK, CallFits, Replies, ListReplies, LastReplies
<1>5. call' \notin Lasts /\ call' \notin Lists
  BY <1>1 DEF Posts, Lasts, Lists
<1> QED
  BY <1>4, <1>5 DEF CallInv, LastFits, ListFits

-----------------------------------------------------------------------------
(* The last messages.                                                      *)

\* A turn of the loop of LAST, for its types.
LEMMA OldmTypes ==
    ASSUME TypeOK, CallFits, pc = "oldm", Len(chunks) <= asked, NEW r \in Rooms, NEW type,
           pos + r \in 0..Offset(sent), server # "none",
           UNCHANGED <<call, asked, reply, sent>>, server' \in {server, "lost"},
           Take(r), Sort(type)
    PROVE  TypeOK' /\ CallFits'
<1> DEFINE l == Len(chunks)
           c == [from |-> pos, len |-> r]
<1>1. call \in Lasts /\ l \in Nat /\ asked \in Nat /\ result = "none" /\ sent \in Int
  BY ClientLibAssumption DEF TypeOK, CallFits
<1>2. Offset(sent)' = Offset(sent) /\ Offset(sent) \in Nat
  BY <1>1, OffsetType DEF Offset
<1>3. pos' = pos + r /\ chunks' = Append(chunks, c) /\ stored' \in {stored, stored + 1}
  BY DEF Take
<1>4. \/ pc' = pc /\ size' = size /\ result' = result
      \/ pc' = "returned" /\ size' \in {size, l} /\ result' \in {"success", "error"}
  BY DEF Sort, Return
<1>5. Append(chunks, c) \in Seq(Chunk) /\ Len(Append(chunks, c)) = l + 1
  BY TakenType
<1>6. chunks' \in Seq(Chunk) /\ Len(chunks') = l + 1
  <2> HIDE DEF c, l
  <2> QED
    BY <1>3, <1>5
<1>7. TypeOK'
  <2>1. size' \in -1..asked
    BY <1>1, <1>4 DEF TypeOK
  <2>2. stored' \in 0..Len(chunks')
    BY <1>1, <1>3, <1>6 DEF TypeOK
  <2>3. server' \in {"none", "serving", "fin", "reset", "lost"}
    BY DEF TypeOK
  <2> QED
    BY <1>1, <1>2, <1>3, <1>4, <1>6, <2>1, <2>2, <2>3 DEF TypeOK, Chunk, Rooms
<1>8. CallFits'
  <2>1. server' # "none"
    OBVIOUS
  <2>2. reply' \in Replies'
    BY DEF CallFits, Replies, ListReplies, LastReplies
  <2> QED
    BY <1>1, <1>4, <2>1, <2>2 DEF CallFits
<1> QED
  BY <1>7, <1>8

\* Where a recv of LAST finds the stream: at a message it has not read, or
\* inside of the last one it has.
LEMMA LastPlace ==
    ASSUME TypeOK, CallFits, ReadingLast, call \in Lasts, server # "none",
           NEW n \in Nat, Nb = n
    PROVE  LET l == Len(chunks)
           IN  /\ l = 0 => pos = 0
               /\ l # 0 =>
                    /\ chunks[l].from \in Nat /\ chunks[l].len \in Nat
                    /\ pos = chunks[l].from + chunks[l].len /\ chunks[l].len >= 4
                    /\ \E i \in 0..(n - 1) : chunks[l].from = 161 * i
                    /\ chunks[l].from >= 161 * (l - 1)
                    /\ call = "get_last_mess" =>
                          chunks[l].from = 161 * (l - 1) /\ chunks[l].len <= 161
<1> DEFINE l == Len(chunks)
<1>1. l \in Nat /\ (chunks = <<>> <=> l = 0)
  BY DEF TypeOK
<1>2. \A j \in Int : OldmPlace(j) = 161 * j
  BY Lengths DEF OldmPlace
<1>3. CASE l = 0
  BY <1>1, <1>3 DEF ReadingLast
<1>4. CASE l # 0
  <2>1. l \in 1..l
    BY <1>1, <1>4
  <2>2. chunks[l].from \in Nat /\ chunks[l].len \in Nat
    BY <2>1, ChunkType
  <2>3. OldmPlace(l - 1) = 161 * (l - 1)
    BY <1>1, <1>2
  <2>4. /\ LastChunk
        /\ OldmAt(chunks[l].from) /\ chunks[l].from >= 161 * (l - 1)
        /\ call = "get_last_mess" => chunks[l].from = 161 * (l - 1) /\ chunks[l].len <= 161
    BY <1>1, <1>4, <2>3, Lengths DEF ReadingLast
  <2>5. \E i \in 0..(n - 1) : chunks[l].from = 161 * i
    BY <1>2, <2>4 DEF OldmAt
  <2> QED
    BY <1>4, <2>2, <2>4, <2>5 DEF LastChunk
<1> QED
  BY <1>3, <1>4

\* One more OLDM: for the library, the one before was whole, as this one
\* starts with a message and the room was that of one.
LEMMA OldmRead ==
    ASSUME TypeOK, CallFits, ReadingLast, call \in Lasts, server # "none",
           NEW n \in Nat, Nb = n, reply' = reply, call' = call,
           NEW r \in 0..OldmRoom, Take(r), r >= 4, \E j \in 0..(n - 1) : pos = 161 * j
    PROVE  ReadingLast'
<1> DEFINE l == Len(chunks)
           C == [from : 0..Offset(sent), len : 0..511]
           c == [from |-> pos, len |-> r]
<1>1. PICK j \in 0..(n - 1) : pos = 161 * j
  OBVIOUS
<1>2. pos' = pos + r /\ chunks' = Append(chunks, c)
  BY DEF Take
<1>3. chunks \in Seq(C) /\ l \in Nat /\ Offset(sent) \in Nat /\ pos \in 0..Offset(sent)
  <2>1. sent \in Int
    BY DEF TypeOK
  <2> QED
    BY <2>1, OffsetType DEF TypeOK
<1>4. r \in 0..511 /\ (call = "get_last_mess" => r <= 161)
  BY Lengths DEF OldmRoom
<1>5. Len(chunks') = l + 1 /\ chunks'[l + 1] = c /\ \A k \in 1..l : chunks'[k] = chunks[k]
  <2> HIDE DEF C, c
  <2> QED
    BY <1>2, <1>3
<1>6. /\ l = 0 => pos = 0
      /\ l # 0 =>
            /\ chunks[l].from \in Nat /\ chunks[l].len \in Nat
            /\ pos = chunks[l].from + chunks[l].len /\ chunks[l].len >= 4
            /\ \E i \in 0..(n - 1) : chunks[l].from = 161 * i
            /\ chunks[l].from >= 161 * (l - 1)
            /\ call = "get_last_mess" =>
                  chunks[l].from = 161 * (l - 1) /\ chunks[l].len <= 161
  BY LastPlace
<1>7. /\ pos >= 161 * l
      /\ call = "get_last_mess" => pos = 161 * l /\ (l # 0 => chunks[l].len = 161)
  <2>1. CASE l = 0
    BY <1>1, <1>6, <2>1
  <2>2. CASE l # 0
    <3> DEFINE a == chunks[l].from
               b == chunks[l].len
    <3>1. PICK i \in 0..(n - 1) : a = 161 * i
      BY <1>6, <2>2
    <3>2. a \in Nat /\ b \in Nat /\ 161 * j = a + b /\ b >= 4 /\ a >= 161 * (l - 1)
      BY <1>1, <1>6, <2>2
    <3>3. call = "get_last_mess" => a = 161 * (l - 1) /\ b <= 161
      BY <1>6, <2>2
    <3> HIDE DEF a, b, l
    <3>4. j >= i + 1 /\ i >= l - 1
      BY <1>3, <3>1, <3>2
    <3>5. 161 * j >= 161 * l
      BY <1>3, <3>4
    <3>6. call = "get_last_mess" => i = l - 1 /\ j = l /\ b = 161
      BY <1>3, <3>1, <3>2, <3>3, <3>4
    <3> QED
      BY <1>1, <3>5, <3>6 DEF b
  <2> QED
    BY <2>1, <2>2
<1>8. \A k \in Int : OldmPlace(k) = 161 * k
  BY Lengths DEF OldmPlace
<1>9. Nb' = n
  BY SamePlaces
<1>10. LastChunk'
  BY <1>2, <1>5 DEF LastChunk
<1>11. ASSUME call = "get_last_mess", NEW k \in 1..l
       PROVE  chunks'[k].from = OldmPlace(k - 1) /\ chunks'[k].len = 161
  <2>1. CASE k = l
    <3>1. OldmPlace(l - 1) = 161 * (l - 1)
      BY <1>3, <1>8
    <3>2. l # 0 /\ chunks'[l] = chunks[l]
      BY <1>3, <1>5, <2>1
    <3> QED
      BY <1>6, <1>7, <1>11, <2>1, <3>1, <3>2
  <2>2. CASE k \in 1..(l - 1)
    <3>1. chunks[k].from = OldmPlace(k - 1) /\ chunks[k].len = 161
      BY <1>11, <2>2, Lengths DEF ReadingLast
    <3> QED
      BY <1>5, <3>1
  <2> QED
    BY <1>3, <2>1, <2>2
<1>12. chunks'[l + 1].from = pos /\ chunks'[l + 1].len = r /\ OldmPlace(l) = 161 * l
  BY <1>3, <1>5, <1>8
<1>13. \E i \in 0..(Nb' - 1) : chunks'[l + 1].from = OldmPlace(i)
  <2>1. j \in 0..(Nb' - 1) /\ pos = OldmPlace(j)
    BY <1>1, <1>8, <1>9
  <2> HIDE DEF l
  <2> QED
    BY <1>12, <2>1
<1>14. chunks' # <<>> /\ Len(chunks') = l + 1 /\ Len(chunks') - 1 = l
  BY <1>3, <1>5
<1>15. OldmAt(chunks[Len(chunks)].from)'
  <2> HIDE DEF l
  <2> QED
    BY <1>13, <1>14 DEF OldmAt
<1>16. /\ chunks'[l + 1].from >= OldmPlace(l)
       /\ call = "get_last_mess" => chunks'[l + 1].from = OldmPlace(l) /\ chunks'[l + 1].len <= 161
  <2> HIDE DEF l, c
  <2> QED
    BY <1>4, <1>7, <1>12
<1> HIDE DEF l, c
<1> QED
  BY <1>10, <1>11, <1>14, <1>15, <1>16, Lengths DEF ReadingLast

\* ENDM comes after the last OLDM; what the library has is then all of them.
LEMMA EndmRead ==
    ASSUME TypeOK, CallFits, ReadingLast, call = "get_last_mess", server # "none",
           NEW n \in Nat, Nb = n, pos = 161 * n
    PROVE  /\ Len(chunks) = n
           /\ \A k \in 1..n : chunks[k].from = OldmPlace(k - 1) /\ chunks[k].len = 161
<1> DEFINE l == Len(chunks)
<1>1. l \in Nat /\ call \in Lasts
  BY DEF TypeOK, Lasts
<1>2. /\ l = 0 => pos = 0
      /\ l # 0 =>
            /\ chunks[l].from \in Nat /\ chunks[l].len \in Nat
            /\ pos = chunks[l].from + chunks[l].len /\ chunks[l].len >= 4
            /\ chunks[l].from = 161 * (l - 1) /\ chunks[l].len <= 161
  BY <1>1, LastPlace
<1>3. l = n /\ (l # 0 => chunks[l].from = 161 * (l - 1) /\ chunks[l].len = 161)
  <2>1. CASE l = 0
    BY <1>2, <2>1
  <2>2. CASE l # 0
    <3> DEFINE a == chunks[l].from
               b == chunks[l].len
    <3>1. a = 161 * (l - 1) /\ b \in Nat /\ 161 * n = a + b /\ b >= 4 /\ b <= 161
      BY <1>2, <2>2
    <3> HIDE DEF a, b, l
    <3>2. l = n /\ b = 161
      BY <1>1, <3>1
    <3> QED
      BY <3>1, <3>2 DEF a, b
  <2> QED
    BY <2>1, <2>2
<1>4. \A k \in 1..(l - 1) : chunks[k].from = OldmPlace(k - 1) /\ chunks[k].len = 161
  BY Lengths DEF ReadingLast
<1>5. ASSUME l # 0 PROVE chunks[l].from = OldmPlace(l - 1) /\ chunks[l].len = 161
  BY <1>1, <1>3, <1>5, Lengths DEF OldmPlace
<1>6. ASSUME NEW k \in 1..n PROVE chunks[k].from = OldmPlace(k - 1) /\ chunks[k].len = 161
  <2>1. CASE k = l
    BY <1>1, <1>5, <2>1
  <2>2. CASE k \in 1..(l - 1)
    BY <1>4, <2>2
  <2> QED
    BY <1>1, <1>3, <2>1, <2>2
<1> QED
  BY <1>3, <1>6

\* A chunk of LAST ends with no message when it ends neither with an OLDM nor
\* with ENDM.
LEMMA CutLast ==
    ASSUME NEW n \in Nat, reply = Append(Copies(n, "OLDM"), "ENDM"), NEW c,
           \A k \in 0..n : c.from + c.len # 161 * k,
           c.from + c.len # 161 * n + 6
    PROVE  IsCut(c)
<1>1. /\ Len(reply) = n + 1 /\ Offset(n + 1) = 161 * n + 6
      /\ \A k \in 0..n : Offset(k) = 161 * k
  BY LastPlaces
<1>2. \A k \in 0..(n + 1) : k \in 0..n \/ k = n + 1
  OBVIOUS
<1> QED
  BY <1>1, <1>2 DEF IsCut

\* What get_last_mess does not take for a message is a piece of one, or the
\* end of a reply that stopped early.
LEMMA ErrorIsCut ==
    ASSUME TypeOK, CallFits, ReadingLast, call = "get_last_mess", server \notin {"none", "lost"},
           NEW n \in Nat, Nb = n, reply = Append(Copies(n, "OLDM"), "ENDM"),
           NEW r \in Received(OldmRoom), TypeOf(r) \notin {"OLDM", "ENDM"}
    PROVE  \/ IsCut([from |-> pos, len |-> r])
           \/ Len(chunks) \in DOMAIN chunks /\ IsCut(chunks[Len(chunks)])
           \/ server = "fin" /\ sent < Len(reply)
<1> DEFINE l == Len(chunks)
<1>1. l \in Nat /\ call \in Lasts /\ sent \in 0..Len(reply) /\ DOMAIN chunks = 1..l
  BY DEF TypeOK, Lasts
<1>2. OldmRoom \in Rooms
  BY Lengths DEF OldmRoom, Rooms
<1>3. /\ r \in Nat /\ pos \in Nat
      /\ r = 0 => server = "fin" /\ Available = 0
  <2>1. /\ r \in Nat /\ pos \in Nat
        /\ r = 0 => server \in {"fin", "lost"} /\ Available = 0
    BY <1>2, ReceivedType
  <2> QED
    BY <2>1
<1>4. r < 4 \/ \A j \in 0..n : pos # 161 * j
  <2>1. /\ TypeOf(r) \in {"OLDM", "ENDM", "none"}
        /\ TypeOf(r) = "none" => r < 4 \/ \A j \in 0..n : pos # 161 * j
    BY <1>3, LastTypes
  <2> QED
    BY <2>1
<1>5. /\ l = 0 => pos = 0
      /\ l # 0 =>
            /\ chunks[l].from \in Nat /\ chunks[l].len \in Nat
            /\ pos = chunks[l].from + chunks[l].len /\ chunks[l].len >= 4
            /\ \E i \in 0..(n - 1) : chunks[l].from = 161 * i
            /\ chunks[l].from = 161 * (l - 1) /\ chunks[l].len <= 161
  BY <1>1, LastPlace
<1>6. pos <= 161 * n
  <2>1. CASE l = 0
    BY <1>5, <2>1
  <2>2. CASE l # 0
    <3> DEFINE a == chunks[l].from
               b == chunks[l].len
    <3>1. PICK i \in 0..(n - 1) : a = 161 * i
      BY <1>5, <2>2
    <3>2. a \in Nat /\ b \in Nat /\ pos = a + b /\ b <= 161
      BY <1>5, <2>2
    <3> HIDE DEF a, b
    <3> QED
      BY <3>1, <3>2
  <2> QED
    BY <2>1, <2>2
<1>7. CASE \A j \in 0..n : pos # 161 * j
  <2>1. l # 0
    <3>1. 0 \in 0..n /\ 161 * 0 = 0
      OBVIOUS
    <3> QED
      BY <1>5, <1>7, <3>1
  <2>2. pos # 161 * n + 6
    BY <1>3, <1>6
  <2>3. IsCut(chunks[l])
    <3>1. pos = chunks[l].from + chunks[l].len
      BY <1>5, <2>1
    <3> QED
      BY <1>7, <2>2, <3>1, CutLast
  <2> QED
    BY <1>1, <2>1, <2>3
<1>8. CASE \E j \in 0..n : pos = 161 * j
  <2>1. PICK j \in 0..n : pos = 161 * j
    BY <1>8
  <2>2. r < 4
    BY <1>4, <2>1
  <2>3. CASE r = 0
    <3>1. server = "fin" /\ Offset(sent) = pos
      <4>1. sent \in Int
        BY <1>1
      <4>2. Offset(sent) \in Nat
        BY <4>1, OffsetType
      <4> QED
        BY <1>3, <2>3, <4>2 DEF Available
    <3>2. Len(reply) = n + 1 /\ Offset(n + 1) = 161 * n + 6
      BY LastPlaces
    <3>3. sent # n + 1
      BY <1>3, <1>6, <3>1, <3>2
    <3>4. sent < Len(reply)
      BY <1>1, <3>2, <3>3
    <3> QED
      BY <3>1, <3>4
  <2>4. CASE r # 0
    <3>1. pos + r # 161 * n + 6 /\ \A k \in 0..n : pos + r # 161 * k
      BY <1>3, <2>1, <2>2, <2>4
    <3> DEFINE c == [from |-> pos, len |-> r]
    <3>2. c.from + c.len = pos + r
      OBVIOUS
    <3> HIDE DEF c
    <3>3. IsCut(c)
      BY <3>1, <3>2, CutLast
    <3> QED
      BY <3>3 DEF c
  <2> QED
    BY <2>3, <2>4
<1> QED
  BY <1>7, <1>8

\* A turn of the loop of LAST: a chunk that starts with OLDM is one more, one
\* that starts with ENDM ends the list, and any other one is an error.
LEMMA OldmStep ==
    ASSUME CallInv, RecvOldm
    PROVE  CallInv'
<1> DEFINE l == Len(chunks)
<1>1. /\ pc = "oldm" /\ call \in Lasts /\ server # "none" /\ l <= asked
      /\ TypeOK /\ CallFits /\ result = "none"
  BY DEF RecvOldm, CallInv, CallFits, TypeOK
<1>2. PICK r \in Received(OldmRoom) : Take(r) /\ Sort(TypeOf(r))
  BY DEF RecvOldm
<1>3. OldmRoom \in Rooms
  BY Lengths DEF OldmRoom, Rooms
<1>4. UNCHANGED <<call, asked, reply, sent, server>>
  BY DEF RecvOldm, stream
<1>5. r \in 0..OldmRoom /\ pos + r \in 0..Offset(sent) /\ pos \in Nat
  BY <1>1, <1>3, ReceivedType
<1>6. r \in Rooms /\ r \in Nat
  BY <1>1, <1>3, ReceivedType
<1>7. TypeOK' /\ CallFits'
  BY <1>1, <1>2, <1>4, <1>5, <1>6, OldmTypes
<1>8. call' \notin Lists
  BY <1>1, <1>4 DEF Lists, Lasts
<1>9. ASSUME server # "lost" PROVE LastFits'
  <2>1. PICK n \in 0..asked : reply = Append(Copies(n, "OLDM"), "ENDM") /\ Nb = n
    BY <1>1, ReplyShape
  <2>2. n \in Nat /\ Nb' = n
    BY <1>4, <2>1, SamePlaces
  <2>3. ReadingLast
    BY <1>1, <1>9 DEF CallInv, LastFits
  <2>4. /\ TypeOf(r) = "OLDM" => r >= 4 /\ \E j \in 0..(n - 1) : pos = 161 * j
        /\ TypeOf(r) = "ENDM" => r >= 4 /\ pos = 161 * n
    BY <1>5, <1>6, <2>1, <2>2, LastTypes
  <2> DEFINE C == [from : 0..Offset(sent), len : 0..511]
             c == [from |-> pos, len |-> r]
  <2>5. chunks \in Seq(C) /\ l \in Nat /\ chunks' = Append(chunks, c)
    BY <1>1, <1>2 DEF TypeOK, Take
  <2>6. /\ Len(chunks') = l + 1 /\ chunks'[l + 1] = c /\ \A k \in 1..l : chunks'[k] = chunks[k]
        /\ DOMAIN chunks' = 1..(l + 1) /\ chunks' # <<>>
    <3> HIDE DEF C, c
    <3> QED
      BY <2>5
  <2>7. CASE TypeOf(r) = "OLDM"
    <3>1. ReadingLast'
      BY <1>1, <1>2, <1>4, <1>5, <2>1, <2>2, <2>3, <2>4, <2>7, OldmRead
    <3>2. result' = "none"
      BY <1>1, <1>2, <2>7 DEF Sort
    <3> QED
      BY <3>1, <3>2 DEF LastFits
  <2>8. CASE TypeOf(r) = "ENDM"
    <3>1. pc' = "returned" /\ result' = "success" /\ size' = l
      BY <1>2, <2>8 DEF Sort, Return
    <3>2. chunks'[Len(chunks')].from = OldmPlace(Nb)'
      BY <2>1, <2>2, <2>4, <2>6, <2>8, Lengths DEF OldmPlace
    <3>3. ASSUME call = "get_last_mess"
          PROVE  /\ size' = Nb' /\ size' < Len(chunks')
                 /\ \A k \in 1..size' :
                       chunks'[k].from = OldmPlace(k - 1) /\ chunks'[k].len = msglen("OLDM")
      <4>1. l = n /\ \A k \in 1..n : chunks[k].from = OldmPlace(k - 1) /\ chunks[k].len = 161
        BY <1>1, <2>1, <2>2, <2>3, <2>4, <2>8, <3>3, EndmRead
      <4> QED
        BY <2>2, <2>5, <2>6, <3>1, <4>1, Lengths
    <3> QED
      BY <1>4, <2>6, <3>1, <3>2, <3>3 DEF LastFits
  <2>9. CASE TypeOf(r) \notin {"OLDM", "ENDM"}
    <3>1. pc' = "returned" /\ result' = "error"
      BY <1>2, <2>9 DEF Sort, Return
    <3>2. ASSUME call = "get_last_mess"
          PROVE  \/ \E k \in DOMAIN chunks' : IsCut(chunks'[k])
                 \/ server = "fin" /\ sent < Len(reply)
      <4>1. \/ IsCut(c)
            \/ l \in DOMAIN chunks /\ IsCut(chunks[l])
            \/ server = "fin" /\ sent < Len(reply)
        BY <1>1, <1>9, <2>1, <2>2, <2>3, <2>9, <3>2, ErrorIsCut
      <4>2. CASE IsCut(c)
        <5>1. l + 1 \in DOMAIN chunks' /\ chunks'[l + 1] = c
          BY <2>5, <2>6
        <5> QED
          BY <4>2, <5>1
      <4>3. CASE l \in DOMAIN chunks /\ IsCut(chunks[l])
        <5>1. l \in DOMAIN chunks' /\ chunks'[l] = chunks[l]
          BY <2>5, <2>6, <4>3
        <5> QED
          BY <4>3, <5>1
      <4> QED
        BY <4>1, <4>2, <4>3
    <3>3. \A d : IsCut(d) => \A k \in 0..Len(reply') : d.from + d.len # Offset(k)'
      <4>1. \A k \in 0..Len(reply) : Offset(k)' = Offset(k)
        BY <1>4, SamePlaces
      <4> QED
        BY <1>4, <4>1 DEF IsCut
    <3>4. ASSUME call = "get_last_mess"
          PROVE  \/ (\E k \in DOMAIN chunks : IsCut(chunks[k]))'
                 \/ server' = "fin" /\ sent' < Len(reply')
      <4>1. ASSUME NEW k \in DOMAIN chunks', IsCut(chunks'[k])
            PROVE  (\E i \in DOMAIN chunks : IsCut(chunks[i]))'
        <5>1. \A i \in 0..Len(reply') : chunks'[k].from + chunks'[k].len # Offset(i)'
          BY <3>3, <4>1
        <5> QED
          BY <4>1, <5>1 DEF IsCut
      <4> QED
        BY <1>4, <3>2, <3>4, <4>1
    <3> QED
      BY <1>4, <3>1, <3>4 DEF LastFits
  <2> QED
    BY <2>7, <2>8, <2>9
<1>10. CASE server = "lost"
  BY <1>4, <1>7, <1>8, <1>10 DEF CallInv, LastFits, ListFits
<1> QED
  BY <1>7, <1>8, <1>9, <1>10 DEF CallInv, ListFits

\* A failed recv that is not tested: what is claimed of the call ends there,
\* but for its types.
LEMMA OldmFailsStep ==
    ASSUME CallInv, RecvOldmFails
    PROVE  CallInv'
<1>1. /\ pc = "oldm" /\ call \in Lasts /\ Len(chunks) <= asked
      /\ TypeOK /\ CallFits
      /\ server = "reset" /\ server' = "lost"
      /\ UNCHANGED <<call, asked, reply, sent>>
      /\ Take(0)
  BY DEF RecvOldmFails, Fails, CallInv, CallFits
<1>2. PICK type \in Garbage : Sort(type)
  BY DEF RecvOldmFails
<1>3. 0 \in Rooms /\ pos + 0 \in 0..Offset(sent)
  BY <1>1 DEF TypeOK, Rooms
<1>4. TypeOK' /\ CallFits'
  BY <1>1, <1>2, <1>3, OldmTypes
<1>5. call' \notin Lists
  BY <1>1 DEF Lists, Lasts
<1> QED
  BY <1>1, <1>4, <1>5 DEF CallInv, LastFits, ListFits

\* Unless a recv failed, the loop of LAST does not end by its bound: the server
\* sends no more OLDM messages than it is asked for, and each chunk starts
\* with another one.
LEMMA LastEndsStep ==
    ASSUME CallInv, LastEnds
    PROVE  CallInv'
<1> DEFINE l == Len(chunks)
<1>1. /\ pc = "oldm" /\ call \in Lasts /\ server # "none" /\ l > asked
      /\ TypeOK /\ CallFits
      /\ size' = asked /\ pc' = "returned" /\ result' = "success"
      /\ UNCHANGED <<call, asked, reply, sent, server, pos, chunks, stored>>
  BY DEF LastEnds, Return, stream, CallInv, CallFits
<1>2. server = "lost"
  <2> SUFFICES ASSUME server # "lost" PROVE FALSE
    OBVIOUS
  <2>1. ReadingLast
    BY <1>1 DEF CallInv, LastFits
  <2>2. PICK n \in 0..asked : Nb = n
    BY <1>1, ReplyShape
  <2>3. n \in Nat /\ l \in Nat /\ asked \in Nat /\ l # 0
    BY <1>1, ClientLibAssumption DEF TypeOK
  <2>4. (\E i \in 0..(n - 1) : chunks[l].from = 161 * i) /\ chunks[l].from >= 161 * (l - 1)
    BY <1>1, <2>1, <2>2, <2>3, LastPlace
  <2>5. PICK i \in 0..(n - 1) : chunks[l].from = 161 * i
    BY <2>4
  <2>6. 161 * i >= 161 * (l - 1)
    BY <2>4, <2>5
  <2> HIDE DEF l
  <2> QED
    BY <1>1, <2>2, <2>3, <2>6
<1>3. Offset(sent)' = Offset(sent)
  BY <1>1 DEF Offset
<1>4. TypeOK'
  <2>1. asked \in Nat
    BY <1>1, ClientLibAssumption DEF TypeOK
  <2> QED
    BY <1>1, <1>3, <2>1 DEF TypeOK
<1>5. CallFits'
  BY <1>1 DEF CallFits, Replies, ListReplies, LastReplies
<1>6. call' \notin Lists
  BY <1>1 DEF Lists, Lasts
<1> QED
  BY <1>1, <1>2, <1>4, <1>5, <1>6 DEF CallInv, LastFits, ListFits

\* A step that changes nothing.
LEMMA CallStutters ==
    ASSUME CallInv, UNCHANGED vars
    PROVE  CallInv'
<1>1. UNCHANGED <<call, asked, pc, reply, sent, server, pos, size, chunks, stored, result>>
  BY DEF vars, stream, locals
<1>2. Offset(sent)' = Offset(sent) /\ \A c : IsCut(c) <=> \A k \in 0..Len(reply) : c.from + c.len # Offset(k)'
  BY <1>1 DEF Offset, IsCut
<1>3. TypeOK'
  BY <1>1, <1>2 DEF CallInv, TypeOK
<1>4. CallFits'
  BY <1>1 DEF CallInv, CallFits, Replies, ListReplies, LastReplies
<1>5. \A c : IsCut(c) => \A k \in 0..Len(reply') : c.from + c.len # Offset(k)'
  BY <1>1, <1>2
<1>6. (\E k \in DOMAIN chunks : IsCut(chunks[k])) => (\E k \in DOMAIN chunks : IsCut(chunks[k]))'
  BY <1>1, <1>5 DEF IsCut
<1>7. LastFits' /\ ListFits'
  BY <1>1, <1>6 DEF CallInv, LastFits, ListFits, ReadingLast, ReadingList, LastChunk, OldmAt,
       ItemAt, Nb
<1> QED
  BY <1>3, <1>4, <1>7 DEF CallInv

-----------------------------------------------------------------------------
(* The theorems.                                                           *)

\* Whatever the server sends and wherever TCP cuts it, what a call has
\* received is what its request is answered with.
THEOREM CallInvariance == Spec => []CallInv
<1>1. Init => CallInv
  BY CallInit
<1>2. CallInv /\ [Next]_vars => CallInv'
  <2> SUFFICES ASSUME CallInv, [Next]_vars PROVE CallInv'
    OBVIOUS
  <2>1. TypeOK /\ CallFits
    BY DEF CallInv
  <2>2. CASE RequestList \/ RequestLast \/ RequestMess
    BY <2>1, <2>2, RequestStep
  <2>3. CASE RequestFails
    BY <2>3, RequestFailsStep
  <2>4. CASE ServerSends \/ ServerStops
    BY <2>4, ServerStep
  <2>5. CASE RecvLinb
    BY <2>5, LinbStep
  <2>6. CASE RecvItem
    BY <2>6, ItemStep
  <2>7. CASE ListEnds
    BY <2>7, ListEndsStep
  <2>8. CASE RecvOldm
    BY <2>8, OldmStep
  <2>9. CASE RecvOldmFails
    BY <2>9, OldmFailsStep
  <2>10. CASE LastEnds
    BY <2>10, LastEndsStep
  <2>11. CASE RecvAckm
    BY <2>11, AckmStep
  <2>12. CASE RecvFails
    BY <2>12, RecvFailsStep
  <2>13. CASE Done \/ UNCHANGED vars
    BY <2>13, CallStutters DEF Done
  <2> QED
    BY <2>2, <2>3, <2>4, <2>5, <2>6, <2>7, <2>8, <2>9, <2>10, <2>11, <2>12, <2>13 DEF Next, Client
<1> QED
  BY <1>1, <1>2, PTL DEF Spec

\* The variables of a call have their types: it never has a place beyond what
\* was sent, nor more messages of LAST than were asked for.
THEOREM ClientLibTypeCorrect == Spec => []TypeOK
<1>1. CallInv => TypeOK
  BY DEF CallInv
<1> QED
  BY <1>1, CallInvariance, PTL

\* A consultation of the last messages that succeeds went as far as ENDM, and
\* get_last_mess has the OLDM messages sent, whole and in order.
THEOREM LastIsWholeCorrect == Spec => []LastIsWhole
<1>1. CallInv => LastIsWhole
  <2> SUFFICES ASSUME CallInv, Succeeded(Lasts), server # "lost"
               PROVE  /\ Starts(chunks[Len(chunks)], Len(reply))
                      /\ call = "get_last_mess" =>
                            /\ size = Len(reply) - 1
                            /\ \A k \in 1..size : IsMessage(chunks[k], k)
    BY DEF LastIsWhole
  <2>1. /\ call \in Lasts /\ result = "success" /\ server # "none"
        /\ CallFits /\ LastFits
    BY DEF CallInv, CallFits, Succeeded
  <2>2. PICK n \in 0..asked : reply = Append(Copies(n, "OLDM"), "ENDM") /\ Nb = n
    BY <2>1, ReplyShape
  <2>3. n \in Nat
    OBVIOUS
  <2>4. /\ Len(reply) = n + 1
        /\ \A k \in 1..n : reply[k] = "OLDM"
        /\ \A k \in 0..n : Offset(k) = 161 * k
    BY <2>2, <2>3, LastPlaces
  <2>5. /\ chunks[Len(chunks)].from = 161 * n
        /\ call = "get_last_mess" =>
              /\ size = n
              /\ \A k \in 1..n : chunks[k].from = 161 * (k - 1) /\ chunks[k].len = 161
    BY <2>1, <2>2, Lengths DEF LastFits, OldmPlace
  <2>6. Starts(chunks[Len(chunks)], Len(reply))
    BY <2>3, <2>4, <2>5 DEF Starts
  <2>7. ASSUME call = "get_last_mess", NEW k \in 1..n PROVE IsMessage(chunks[k], k)
    <3>1. k - 1 \in 0..n
      BY <2>3
    <3>2. Offset(k - 1) = 161 * (k - 1)
      BY <2>4, <3>1
    <3> QED
      BY <2>4, <2>5, <2>7, <3>2, Lengths DEF IsMessage, Starts
  <2> QED
    BY <2>2, <2>5, <2>6, <2>7 DEF Nb
<1> QED
  BY <1>1, CallInvariance, PTL

\* A list of at least one streamer that succeeds has all those the manager
\* sent, each at its place, and all whole but for the last one.
THEOREM ListIsReplyCorrect == Spec => []ListIsReply
<1>1. CallInv => ListIsReply
  <2> SUFFICES ASSUME CallInv, Succeeded(Lists), size > 0
               PROVE  /\ size = Len(reply) - 1
                      /\ \A k \in 1..size : Starts(chunks[k], k + 1)
                      /\ \A k \in 1..(size - 1) : IsMessage(chunks[k], k + 1)
    BY DEF ListIsReply
  <2>1. /\ call \in Lists /\ result = "success" /\ server # "none"
        /\ CallFits /\ ListFits
    BY DEF CallInv, CallFits, Succeeded
  <2>2. PICK n \in 0..MaxListed : reply = <<"LINB">> \o Copies(n, "ITEM") /\ Nb = n
    BY <2>1, ReplyShape
  <2>3. n \in Nat
    BY ClientLibAssumption
  <2>4. /\ \A k \in 2..(n + 1) : reply[k] = "ITEM"
        /\ \A k \in 1..(n + 1) : Offset(k) = 9 + 57 * (k - 1)
    BY <2>2, <2>3, ListPlaces
  <2>5. /\ size = n
        /\ \A k \in 1..n : chunks[k].from = 9 + 57 * (k - 1)
        /\ \A k \in 1..(n - 1) : chunks[k].len = 57
    BY <2>1, <2>2, Lengths DEF ListFits, ItemPlace
  <2>6. ASSUME NEW k \in 1..n
        PROVE  Starts(chunks[k], k + 1) /\ reply[k + 1] = "ITEM"
    <3>1. k \in 1..(n + 1) /\ k + 1 \in 2..(n + 1) /\ (k + 1) - 1 = k
      BY <2>3
    <3> QED
      BY <2>4, <2>5, <3>1 DEF Starts
  <2>7. ASSUME NEW k \in 1..(n - 1) PROVE IsMessage(chunks[k], k + 1)
    <3>1. k \in 1..n
      BY <2>3
    <3> QED
      BY <2>5, <2>6, <3>1, Lengths DEF IsMessage
  <2> QED
    BY <2>2, <2>5, <2>6, <2>7 DEF Nb
<1> QED
  BY <1>1, CallInvariance, PTL

\* get_last_mess gives up a complete reply only when TCP cut a message in two.
THEOREM LastErrorIsCutCorrect == Spec => []LastErrorIsCut
<1>1. CallInv => LastErrorIsCut
  <2> SUFFICES ASSUME CallInv, call = "get_last_mess", result = "error", AllSent
               PROVE  \E c \in {chunks[k] : k \in DOMAIN chunks} :
                          \A k \in 0..Len(reply) : c.from + c.len # Offset(k)
    BY DEF LastErrorIsCut
  <2>1. server \in {"serving", "fin"} /\ sent = Len(reply) /\ sent \in Int
    BY DEF AllSent, CallInv, TypeOK
  <2>2. call \in Lasts
    BY DEF Lasts
  <2>3. PICK k \in DOMAIN chunks : IsCut(chunks[k])
    BY <2>1, <2>2 DEF CallInv, LastFits
  <2> QED
    BY <2>3 DEF IsCut
<1> QED
  BY <1>1, CallInvariance, PTL

=============================================================================
