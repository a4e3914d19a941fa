---------------------------- MODULE JourneyProofs ----------------------------
(***************************************************************************)
(* Proofs about Journey, for fields of any width, integers of any size the *)
(* code can be built with, and any line, address or number typed: what a   *)
(* message built by one side is for the other, and what its last user has. *)
(***************************************************************************)
EXTENDS Journey, FiniteSetTheorems, WellFoundedInduction, TLAPS

-----------------------------------------------------------------------------
(* The places of the fields.                                               *)

\* The first field is at offset 0.
LEMMA StartFirst ==
    ASSUME NEW m
    PROVE  IsFiniteSet(BytesBefore(m, 1)) /\ Start(m, 1) = 0
<1>1. BytesBefore(m, 1) = {}
  BY DEF BytesBefore
<1> QED
  BY <1>1, FS_EmptySet DEF Start

\* Each field starts where the one before ends.
LEMMA StartNext ==
    ASSUME NEW m, NEW i \in Nat \ {0}, m[i].width \in Nat, IsFiniteSet(BytesBefore(m, i))
    PROVE  /\ IsFiniteSet(BytesBefore(m, i + 1))
           /\ Start(m, i + 1) = Start(m, i) + m[i].width
<1> DEFINE B == BytesBefore(m, i)
           F == {i} \X (1..m[i].width)
<1>1. IsFiniteSet(F) /\ Cardinality(F) = m[i].width
  <2>1. IsFiniteSet({i}) /\ Cardinality({i}) = 1
    BY FS_Singleton
  <2>2. IsFiniteSet(1..m[i].width) /\ Cardinality(1..m[i].width) = m[i].width
    <3> DEFINE w == m[i].width
    <3>1. w \in Nat
      OBVIOUS
    <3> HIDE DEF w
    <3>2. IsFiniteSet(1..w) /\ Cardinality(1..w) = IF 1 > w THEN 0 ELSE w - 1 + 1
      <4>1. 1 \in Int /\ w \in Int
        BY <3>1
      <4> QED
        BY ONLY <4>1, FS_Interval, Zenon
    <3>3. Cardinality(1..w) = w
      BY <3>1, <3>2
    <3> QED
      BY <3>2, <3>3 DEF w
  <2>3. IsFiniteSet(F) /\ Cardinality(F) = Cardinality({i}) * Cardinality(1..m[i].width)
    BY <2>1, <2>2, FS_Product
  <2> QED
    BY <2>1, <2>2, <2>3
<1>2. BytesBefore(m, i + 1) = B \cup F
  <2>1. 1..((i + 1) - 1) = (1..(i - 1)) \cup {i}
    OBVIOUS
  <2> QED
    BY <2>1 DEF BytesBefore
<1>3. B \cap F = {}
  BY DEF BytesBefore
<1>4. /\ IsFiniteSet(B \cup F)
      /\ Cardinality(B \cup F) = Cardinality(B) + Cardinality(F) - Cardinality(B \cap F)
  BY <1>1, FS_Union
<1>5. Cardinality(B) \in Nat /\ Cardinality(B \cap F) = 0
  BY <1>3, FS_EmptySet, FS_CardinalityType
<1> QED
  BY <1>1, <1>2, <1>4, <1>5 DEF Start

\* A field at an offset where no other one starts is what is taken there.
LEMMA ExtractField ==
    ASSUME NEW m, NEW i \in DOMAIN m, NEW off, NEW w, Start(m, i) = off, m[i].width = w,
           \A j \in DOMAIN m : Start(m, j) = off => j = i
    PROVE  Extract(m, off, w) = m[i].val
<1> DEFINE here == {j \in DOMAIN m : Start(m, j) = off /\ m[j].width = w}
<1>1. here = {i}
  OBVIOUS
<1>2. (CHOOSE j \in here : TRUE) = i
  BY <1>1
<1> QED
  BY <1>1, <1>2 DEF Extract

\* The fields of a LAST or a LINB.
LEMMA OneField ==
    ASSUME NEW t, NEW a
    PROVE  LET m == Assemble(t, <<a>>)
           IN  /\ DOMAIN m = 1..4 /\ Len(m) = 4
               /\ m[1] = TypeField(t) /\ m[2] = Separator /\ m[3] = a /\ m[4] = End
BY DEF Assemble

\* The fields of a MESS.
LEMMA TwoFields ==
    ASSUME NEW t, NEW a, NEW b
    PROVE  LET m == Assemble(t, <<a, b>>)
           IN  /\ DOMAIN m = 1..6 /\ Len(m) = 6
               /\ m[1] = TypeField(t) /\ m[2] = Separator /\ m[3] = a
               /\ m[4] = Separator /\ m[5] = b /\ m[6] = End
BY DEF Assemble

\* The fields of a DIFF or an OLDM.
LEMMA ThreeFields ==
    ASSUME NEW t, NEW a, NEW b, NEW c
    PROVE  LET m == Assemble(t, <<a, b, c>>)
           IN  /\ DOMAIN m = 1..8 /\ Len(m) = 8
               /\ m[1] = TypeField(t) /\ m[2] = Separator /\ m[3] = a
               /\ m[4] = Separator /\ m[5] = b /\ m[6] = Separator /\ m[7] = c /\ m[8] = End
BY DEF Assemble

\* The fields of a REGI or an ITEM.
LEMMA FiveFields ==
    ASSUME NEW t, NEW a, NEW b, NEW c, NEW d, NEW e
    PROVE  LET m == Assemble(t, <<a, b, c, d, e>>)
           IN  /\ DOMAIN m = 1..12 /\ Len(m) = 12
               /\ m[1] = TypeField(t) /\ m[2] = Separator /\ m[3] = a
               /\ m[4] = Separator /\ m[5] = b /\ m[6] = Separator /\ m[7] = c
               /\ m[8] = Separator /\ m[9] = d /\ m[10] = Separator /\ m[11] = e /\ m[12] = End
BY DEF Assemble

\* Field i of m is at that offset.
IsPlaced(m, i, off) == IsFiniteSet(BytesBefore(m, i)) /\ Start(m, i) = off

\* A message starts with its type.
LEMMA FirstPlace ==
    ASSUME NEW m
    PROVE  IsPlaced(m, 1, 0)
BY StartFirst DEF IsPlaced

\* The place of a field is told from the one before.
LEMMA NextPlace ==
    ASSUME NEW m, NEW i \in Nat \ {0}, NEW off \in Nat, IsPlaced(m, i, off),
           NEW w \in Nat, m[i].width = w, NEW next, next = off + w
    PROVE  IsPlaced(m, i + 1, next) /\ next \in Nat
BY StartNext DEF IsPlaced

-----------------------------------------------------------------------------
(* The four forms of messages.                                             *)

\* A number: LAST and LINB.
NumberForm(m, t, x, w) ==
    /\ DOMAIN m = 1..4 /\ Len(m) = 4
    /\ m[1] = TypeField(t) /\ m[2] = Separator /\ m[3] = x /\ m[4] = End
    /\ Start(m, 1) = 0 /\ Start(m, 2) = 4 /\ Start(m, 3) = 5 /\ Start(m, 4) = 5 + w
    /\ Length(m) = 7 + w

\* A message with a number is laid out as msglen says.
LEMMA NumberPlaces ==
    ASSUME NEW t, NEW x, NEW w \in Nat, x.width = w
    PROVE  NumberForm(Assemble(t, <<x>>), t, x, w)
<1> DEFINE m == Assemble(t, <<x>>)
<1>1. /\ DOMAIN m = 1..4 /\ Len(m) = 4
      /\ m[1] = TypeField(t) /\ m[2] = Separator /\ m[3] = x /\ m[4] = End
  BY OneField
<1> HIDE DEF m
<1>2. m[1].width = 4 /\ m[2].width = 1 /\ m[4].width = 2
  BY <1>1 DEF TypeField, Separator, End, Field, MSG_TYPE_SIZE, MSG_END_SIZE
<1>3. IsPlaced(m, 1, 0)
  BY FirstPlace
<1>4. IsPlaced(m, 2, 4)
  BY <1>2, <1>3, NextPlace, 1 + 1 = 2, 0 + 4 = 4
<1>5. IsPlaced(m, 3, 5)
  BY <1>2, <1>4, NextPlace, 2 + 1 = 3, 4 + 1 = 5
<1>6. IsPlaced(m, 4, 5 + w)
  BY <1>1, <1>5, NextPlace, 3 + 1 = 4
<1>7. IsPlaced(m, 5, 7 + w)
  BY <1>2, <1>6, NextPlace, 4 + 1 = 5, 5 + w \in Nat, (5 + w) + 2 = 7 + w
<1>8. Length(m) = 7 + w
  <2>1. Len(m) + 1 = 5
    BY <1>1
  <2> QED
    BY <1>7, <2>1 DEF IsPlaced, Length
<1>9. NumberForm(m, t, x, w)
  BY <1>1, <1>3, <1>4, <1>5, <1>6, <1>8 DEF NumberForm, IsPlaced
<1> QED
  BY <1>9 DEF m

\* A name and a text: MESS.
MessForm(m, t, x, y) ==
    /\ DOMAIN m = 1..6 /\ Len(m) = 6
    /\ m[1] = TypeField(t) /\ m[2] = Separator /\ m[3] = x
    /\ m[4] = Separator /\ m[5] = y /\ m[6] = End
    /\ Start(m, 1) = 0 /\ Start(m, 2) = 4 /\ Start(m, 3) = 5
    /\ Start(m, 4) = 5 + MSG_ID_SIZE /\ Start(m, 5) = 6 + MSG_ID_SIZE
    /\ Start(m, 6) = 6 + MSG_ID_SIZE + MSG_MESS_SIZE
    /\ Length(m) = 8 + MSG_ID_SIZE + MSG_MESS_SIZE

\* A post is laid out as msglen says.
LEMMA MessPlaces ==
    ASSUME NEW t, NEW x, NEW y, x.width = MSG_ID_SIZE, y.width = MSG_MESS_SIZE
    PROVE  MessForm(Assemble(t, <<x, y>>), t, x, y)
<1> DEFINE m == Assemble(t, <<x, y>>)
<1>1. /\ DOMAIN m = 1..6 /\ Len(m) = 6
      /\ m[1] = TypeField(t) /\ m[2] = Separator /\ m[3] = x
      /\ m[4] = Separator /\ m[5] = y /\ m[6] = End
  BY TwoFields
<1> HIDE DEF m
<1>2. m[1].width = 4 /\ m[2].width = 1 /\ m[4].width = 1 /\ m[6].width = 2
  BY <1>1 DEF TypeField, Separator, End, Field, MSG_TYPE_SIZE, MSG_END_SIZE
<1>0. MSG_ID_SIZE \in Nat /\ MSG_MESS_SIZE \in Nat
  BY MessageAssumption
<1>3. IsPlaced(m, 1, 0)
  BY FirstPlace
<1>4. IsPlaced(m, 2, 4)
  BY <1>2, <1>3, NextPlace, 1 + 1 = 2, 0 + 4 = 4
<1>5. IsPlaced(m, 3, 5)
  BY <1>2, <1>4, NextPlace, 2 + 1 = 3, 4 + 1 = 5
<1>6. IsPlaced(m, 4, 5 + MSG_ID_SIZE) /\ 5 + MSG_ID_SIZE \in Nat
  BY <1>0, <1>1, <1>5, NextPlace, 3 + 1 = 4
<1>7. IsPlaced(m, 5, 6 + MSG_ID_SIZE) /\ 6 + MSG_ID_SIZE \in Nat
  <2>1. 4 + 1 = 5 /\ (5 + MSG_ID_SIZE) + 1 = 6 + MSG_ID_SIZE
    BY <1>0
  <2> QED
    BY <1>2, <1>6, <2>1, NextPlace
<1>8. /\ IsPlaced(m, 6, 6 + MSG_ID_SIZE + MSG_MESS_SIZE)
      /\ 6 + MSG_ID_SIZE + MSG_MESS_SIZE \in Nat
  BY <1>0, <1>1, <1>7, NextPlace, 5 + 1 = 6
<1>9. IsPlaced(m, 7, 8 + MSG_ID_SIZE + MSG_MESS_SIZE)
  <2>1. 6 + 1 = 7 /\ (6 + MSG_ID_SIZE + MSG_MESS_SIZE) + 2 = 8 + MSG_ID_SIZE + MSG_MESS_SIZE
    BY <1>0
  <2> QED
    BY <1>2, <1>8, <2>1, NextPlace
<1>10. Length(m) = 8 + MSG_ID_SIZE + MSG_MESS_SIZE
  <2>1. Len(m) + 1 = 7
    BY <1>1
  <2> QED
    BY <1>9, <2>1 DEF IsPlaced, Length
<1>11. MessForm(m, t, x, y)
  BY <1>1, <1>3, <1>4, <1>5, <1>6, <1>7, <1>8, <1>10 DEF MessForm, IsPlaced
<1> QED
  BY <1>11 DEF m

\* A number, a name and a text: DIFF and OLDM.
DiffForm(m, t, n, x, y) ==
    /\ DOMAIN m = 1..8 /\ Len(m) = 8
    /\ m[1] = TypeField(t) /\ m[2] = Separator /\ m[3] = n
    /\ m[4] = Separator /\ m[5] = x /\ m[6] = Separator /\ m[7] = y /\ m[8] = End
    /\ Start(m, 1) = 0 /\ Start(m, 2) = 4 /\ Start(m, 3) = 5 /\ Start(m, 4) = 9
    /\ Start(m, 5) = 10 /\ Start(m, 6) = 10 + MSG_ID_SIZE /\ Start(m, 7) = 11 + MSG_ID_SIZE
    /\ Start(m, 8) = 11 + MSG_ID_SIZE + MSG_MESS_SIZE
    /\ Length(m) = 13 + MSG_ID_SIZE + MSG_MESS_SIZE

\* A broadcast is laid out as msglen says.
LEMMA DiffPlaces ==
    ASSUME NEW t, NEW n, NEW x, NEW y,
           n.width = MSG_NUM_MESS_SIZE, x.width = MSG_ID_SIZE, y.width = MSG_MESS_SIZE
    PROVE  DiffForm(Assemble(t, <<n, x, y>>), t, n, x, y)
<1> DEFINE m == Assemble(t, <<n, x, y>>)
<1>1. /\ DOMAIN m = 1..8 /\ Len(m) = 8
      /\ m[1] = TypeField(t) /\ m[2] = Separator /\ m[3] = n
      /\ m[4] = Separator /\ m[5] = x /\ m[6] = Separator /\ m[7] = y /\ m[8] = End
  BY ThreeFields
<1> HIDE DEF m
<1>2. m[1].width = 4 /\ m[2].width = 1 /\ m[3].width = 4 /\ m[4].width = 1 /\ m[6].width = 1 /\ m[8].width = 2
  BY <1>1 DEF TypeField, Separator, End, Field, MSG_TYPE_SIZE, MSG_END_SIZE, MSG_NUM_MESS_SIZE
<1>0. MSG_ID_SIZE \in Nat /\ MSG_MESS_SIZE \in Nat
  BY MessageAssumption
<1>3. IsPlaced(m, 1, 0)
  BY FirstPlace
<1>4. IsPlaced(m, 2, 4)
  BY <1>2, <1>3, NextPlace, 1 + 1 = 2, 0 + 4 = 4
<1>5. IsPlaced(m, 3, 5)
  BY <1>2, <1>4, NextPlace, 2 + 1 = 3, 4 + 1 = 5
<1>6. IsPlaced(m, 4, 9)
  BY <1>2, <1>5, NextPlace, 3 + 1 = 4, 5 + 4 = 9
<1>7. IsPlaced(m, 5, 10)
  BY <1>2, <1>6, NextPlace, 4 + 1 = 5, 9 + 1 = 10
<1>8. IsPlaced(m, 6, 10 + MSG_ID_SIZE) /\ 10 + MSG_ID_SIZE \in Nat
  BY <1>0, <1>1, <1>7, NextPlace, 5 + 1 = 6
<1>9. IsPlaced(m, 7, 11 + MSG_ID_SIZE) /\ 11 + MSG_ID_SIZE \in Nat
  <2>1. 6 + 1 = 7 /\ (10 + MSG_ID_SIZE) + 1 = 11 + MSG_ID_SIZE
    BY <1>0
  <2> QED
    BY <1>2, <1>8, <2>1, NextPlace
<1>10. /\ IsPlaced(m, 8, 11 + MSG_ID_SIZE + MSG_MESS_SIZE)
       /\ 11 + MSG_ID_SIZE + MSG_MESS_SIZE \in Nat
  BY <1>0, <1>1, <1>9, NextPlace, 7 + 1 = 8
<1>11. IsPlaced(m, 9, 13 + MSG_ID_SIZE + MSG_MESS_SIZE)
  <2>1. 8 + 1 = 9 /\ (11 + MSG_ID_SIZE + MSG_MESS_SIZE) + 2 = 13 + MSG_ID_SIZE + MSG_MESS_SIZE
    BY <1>0
  <2> QED
    BY <1>2, <1>10, <2>1, NextPlace
<1>12. Length(m) = 13 + MSG_ID_SIZE + MSG_MESS_SIZE
  <2>1. Len(m) + 1 = 9
    BY <1>1
  <2> QED
    BY <1>11, <2>1 DEF IsPlaced, Length
<1>13. DiffForm(m, t, n, x, y)
  BY <1>1, <1>3, <1>4, <1>5, <1>6, <1>7, <1>8, <1>9, <1>10, <1>12 DEF DiffForm, IsPlaced
<1> QED
  BY <1>13 DEF m

\* A name, two addresses and two ports: REGI and ITEM.
AddressForm(m, t, x, i1, p1, i2, p2) ==
    /\ DOMAIN m = 1..12 /\ Len(m) = 12
    /\ m[1] = TypeField(t) /\ m[2] = Separator /\ m[3] = x
    /\ m[4] = Separator /\ m[5] = i1 /\ m[6] = Separator /\ m[7] = p1
    /\ m[8] = Separator /\ m[9] = i2 /\ m[10] = Separator /\ m[11] = p2 /\ m[12] = End
    /\ Start(m, 1) = 0 /\ Start(m, 2) = 4 /\ Start(m, 3) = 5 /\ Start(m, 4) = 5 + MSG_ID_SIZE
    /\ Start(m, 5) = 6 + MSG_ID_SIZE /\ Start(m, 6) = 21 + MSG_ID_SIZE
    /\ Start(m, 7) = 22 + MSG_ID_SIZE /\ Start(m, 8) = 26 + MSG_ID_SIZE
    /\ Start(m, 9) = 27 + MSG_ID_SIZE /\ Start(m, 10) = 42 + MSG_ID_SIZE
    /\ Start(m, 11) = 43 + MSG_ID_SIZE /\ Start(m, 12) = 47 + MSG_ID_SIZE
    /\ Length(m) = 49 + MSG_ID_SIZE

\* A registration is laid out as msglen says.
LEMMA AddressPlaces ==
    ASSUME NEW t, NEW x, NEW i1, NEW p1, NEW i2, NEW p2, x.width = MSG_ID_SIZE,
           i1.width = MSG_IP_SIZE, i2.width = MSG_IP_SIZE,
           p1.width = MSG_PORT_SIZE, p2.width = MSG_PORT_SIZE
    PROVE  AddressForm(Assemble(t, <<x, i1, p1, i2, p2>>), t, x, i1, p1, i2, p2)
<1> DEFINE m == Assemble(t, <<x, i1, p1, i2, p2>>)
<1>1. /\ DOMAIN m = 1..12 /\ Len(m) = 12
      /\ m[1] = TypeField(t) /\ m[2] = Separator /\ m[3] = x
      /\ m[4] = Separator /\ m[5] = i1 /\ m[6] = Separator /\ m[7] = p1
      /\ m[8] = Separator /\ m[9] = i2 /\ m[10] = Separator /\ m[11] = p2 /\ m[12] = End
  BY FiveFields
<1> HIDE DEF m
<1>2. /\ m[1].width = 4 /\ m[2].width = 1 /\ m[3].width = MSG_ID_SIZE
      /\ m[4].width = 1 /\ m[5].width = 15 /\ m[6].width = 1 /\ m[7].width = 4
      /\ m[8].width = 1 /\ m[9].width = 15 /\ m[10].width = 1 /\ m[11].width = 4 /\ m[12].width = 2
  BY <1>1 DEF TypeField, Separator, End, Field, MSG_TYPE_SIZE, MSG_END_SIZE, MSG_IP_SIZE,
       MSG_PORT_SIZE
<1>3. MSG_ID_SIZE \in Nat
  BY MessageAssumption
<1>4. IsPlaced(m, 1, 0)
  BY FirstPlace
<1>5. IsPlaced(m, 2, 4)
  BY <1>2, <1>4, NextPlace, 1 + 1 = 2, 0 + 4 = 4
<1>6. IsPlaced(m, 3, 5)
  BY <1>2, <1>5, NextPlace, 2 + 1 = 3, 4 + 1 = 5
<1>7. IsPlaced(m, 4, 5 + MSG_ID_SIZE) /\ 5 + MSG_ID_SIZE \in Nat
  BY <1>2, <1>3, <1>6, NextPlace, 3 + 1 = 4
<1>8. IsPlaced(m, 5, 6 + MSG_ID_SIZE) /\ 6 + MSG_ID_SIZE \in Nat
  <2>1. 4 + 1 = 5 /\ (5 + MSG_ID_SIZE) + 1 = 6 + MSG_ID_SIZE
    BY <1>3
  <2> QED
    BY <1>2, <1>7, <2>1, NextPlace
<1>9. IsPlaced(m, 6, 21 + MSG_ID_SIZE) /\ 21 + MSG_ID_SIZE \in Nat
  <2>1. 5 + 1 = 6 /\ (6 + MSG_ID_SIZE) + 15 = 21 + MSG_ID_SIZE
    BY <1>3
  <2> QED
    BY <1>2, <1>8, <2>1, NextPlace
<1>10. IsPlaced(m, 7, 22 + MSG_ID_SIZE) /\ 22 + MSG_ID_SIZE \in Nat
  <2>1. 6 + 1 = 7 /\ (21 + MSG_ID_SIZE) + 1 = 22 + MSG_ID_SIZE
    BY <1>3
  <2> QED
    BY <1>2, <1>9, <2>1, NextPlace
<1>11. IsPlaced(m, 8, 26 + MSG_ID_SIZE) /\ 26 + MSG_ID_SIZE \in Nat
  <2>1. 7 + 1 = 8 /\ (22 + MSG_ID_SIZE) + 4 = 26 + MSG_ID_SIZE
    BY <1>3
  <2> QED
    BY <1>2, <1>10, <2>1, NextPlace
<1>12. IsPlaced(m, 9, 27 + MSG_ID_SIZE) /\ 27 + MSG_ID_SIZE \in Nat
  <2>1. 8 + 1 = 9 /\ (26 + MSG_ID_SIZE) + 1 = 27 + MSG_ID_SIZE
    BY <1>3
  <2> QED
    BY <1>2, <1>11, <2>1, NextPlace
<1>13. IsPlaced(m, 10, 42 + MSG_ID_SIZE) /\ 42 + MSG_ID_SIZE \in Nat
  <2>1. 9 + 1 = 10 /\ (27 + MSG_ID_SIZE) + 15 = 42 + MSG_ID_SIZE
    BY <1>3
  <2> QED
    BY <1>2, <1>12, <2>1, NextPlace
<1>14. IsPlaced(m, 11, 43 + MSG_ID_SIZE) /\ 43 + MSG_ID_SIZE \in Nat
  <2>1. 10 + 1 = 11 /\ (42 + MSG_ID_SIZE) + 1 = 43 + MSG_ID_SIZE
    BY <1>3
  <2> QED
    BY <1>2, <1>13, <2>1, NextPlace
<1>15. IsPlaced(m, 12, 47 + MSG_ID_SIZE) /\ 47 + MSG_ID_SIZE \in Nat
  <2>1. 11 + 1 = 12 /\ (43 + MSG_ID_SIZE) + 4 = 47 + MSG_ID_SIZE
    BY <1>3
  <2> QED
    BY <1>2, <1>14, <2>1, NextPlace
<1>16. IsPlaced(m, 13, 49 + MSG_ID_SIZE)
  <2>1. 12 + 1 = 13 /\ (47 + MSG_ID_SIZE) + 2 = 49 + MSG_ID_SIZE
    BY <1>3
  <2> QED
    BY <1>2, <1>15, <2>1, NextPlace
<1>17. Length(m) = 49 + MSG_ID_SIZE
  <2>1. Len(m) + 1 = 13
    BY <1>1
  <2> QED
    BY <1>16, <2>1 DEF IsPlaced, Length
<1>18. AddressForm(m, t, x, i1, p1, i2, p2)
  BY <1>1, <1>4, <1>5, <1>6, <1>7, <1>8, <1>9, <1>10, <1>11, <1>12, <1>13, <1>14, <1>15, <1>17
       DEF AddressForm, IsPlaced
<1> QED
  BY <1>18 DEF m

-----------------------------------------------------------------------------
(* What is read in a message.                                              *)

\* The number of a LAST or a LINB.
LEMMA NumberRead ==
    ASSUME NEW m, NEW t, NEW x, NEW w \in Nat \ {0}, x.width = w, NumberForm(m, t, x, w)
    PROVE  m[1].val = t /\ Extract(m, 5, w) = x.val
<1>1. 3 \in DOMAIN m /\ Start(m, 3) = 5 /\ m[3].width = w /\ m[3] = x
  BY DEF NumberForm
<1>2. \A j \in DOMAIN m : Start(m, j) = 5 => j = 3
  BY DEF NumberForm
<1>3. m[1].val = t
  BY DEF NumberForm, TypeField, Field
<1> QED
  BY <1>1, <1>2, <1>3, ExtractField

\* The name and the text of a MESS.
LEMMA MessRead ==
    ASSUME NEW m, NEW t, NEW x, NEW y, x.width = MSG_ID_SIZE, y.width = MSG_MESS_SIZE,
           MessForm(m, t, x, y)
    PROVE  /\ m[1].val = t
           /\ Extract(m, 5, MSG_ID_SIZE) = x.val
           /\ Extract(m, 6 + MSG_ID_SIZE, MSG_MESS_SIZE) = y.val
<1>1. MSG_ID_SIZE \in Nat \ {0} /\ MSG_MESS_SIZE \in Nat \ {0}
  BY MessageAssumption
<1>2. m[1].val = t
  BY DEF MessForm, TypeField, Field
<1>3. Extract(m, 5, MSG_ID_SIZE) = x.val
  <2>1. 3 \in DOMAIN m /\ Start(m, 3) = 5 /\ m[3] = x
    BY DEF MessForm
  <2>2. \A j \in DOMAIN m : Start(m, j) = 5 => j = 3
    BY <1>1 DEF MessForm
  <2> QED
    BY <2>1, <2>2, ExtractField
<1>4. Extract(m, 6 + MSG_ID_SIZE, MSG_MESS_SIZE) = y.val
  <2>1. 5 \in DOMAIN m /\ Start(m, 5) = 6 + MSG_ID_SIZE /\ m[5] = y
    BY DEF MessForm
  <2>2. \A j \in DOMAIN m : Start(m, j) = 6 + MSG_ID_SIZE => j = 5
    BY <1>1 DEF MessForm
  <2> QED
    BY <2>1, <2>2, ExtractField
<1> QED
  BY <1>2, <1>3, <1>4

\* The number, the name and the text of a DIFF or an OLDM.
LEMMA DiffRead ==
    ASSUME NEW m, NEW t, NEW n, NEW x, NEW y,
           n.width = MSG_NUM_MESS_SIZE, x.width = MSG_ID_SIZE, y.width = MSG_MESS_SIZE,
           DiffForm(m, t, n, x, y)
    PROVE  /\ m[1].val = t
           /\ Extract(m, 5, MSG_NUM_MESS_SIZE) = n.val
           /\ Extract(m, 10, MSG_ID_SIZE) = x.val
           /\ Extract(m, 11 + MSG_ID_SIZE, MSG_MESS_SIZE) = y.val
<1>1. MSG_ID_SIZE \in Nat \ {0} /\ MSG_MESS_SIZE \in Nat \ {0}
  BY MessageAssumption
<1>2. m[1].val = t
  BY DEF DiffForm, TypeField, Field
<1>3. Extract(m, 5, MSG_NUM_MESS_SIZE) = n.val
  <2>1. 3 \in DOMAIN m /\ Start(m, 3) = 5 /\ m[3] = n
    BY DEF DiffForm
  <2>2. \A j \in DOMAIN m : Start(m, j) = 5 => j = 3
    BY <1>1 DEF DiffForm
  <2> QED
    BY <2>1, <2>2, ExtractField
<1>4. Extract(m, 10, MSG_ID_SIZE) = x.val
  <2>1. 5 \in DOMAIN m /\ Start(m, 5) = 10 /\ m[5] = x
    BY DEF DiffForm
  <2>2. \A j \in DOMAIN m : Start(m, j) = 10 => j = 5
    BY <1>1 DEF DiffForm
  <2> QED
    BY <2>1, <2>2, ExtractField
<1>5. Extract(m, 11 + MSG_ID_SIZE, MSG_MESS_SIZE) = y.val
  <2>1. 7 \in DOMAIN m /\ Start(m, 7) = 11 + MSG_ID_SIZE /\ m[7] = y
    BY DEF DiffForm
  <2>2. \A j \in DOMAIN m : Start(m, j) = 11 + MSG_ID_SIZE => j = 7
    BY <1>1 DEF DiffForm
  <2> QED
    BY <2>1, <2>2, ExtractField
<1> QED
  BY <1>2, <1>3, <1>4, <1>5

\* The second address and the second port of a REGI or an ITEM: those of TCP.
LEMMA AddressRead ==
    ASSUME NEW m, NEW t, NEW x, NEW i1, NEW p1, NEW i2, NEW p2,
           i2.width = MSG_IP_SIZE, p2.width = MSG_PORT_SIZE,
           AddressForm(m, t, x, i1, p1, i2, p2)
    PROVE  m[1].val = t /\ TcpAddress(m) = i2.val /\ TcpPort(m) = p2.val
<1>1. MSG_ID_SIZE \in Nat \ {0}
  BY MessageAssumption
<1>2. m[1].val = t
  BY DEF AddressForm, TypeField, Field
<1>3. Extract(m, 27 + MSG_ID_SIZE, MSG_IP_SIZE) = i2.val
  <2>1. 9 \in DOMAIN m /\ Start(m, 9) = 27 + MSG_ID_SIZE /\ m[9] = i2
    BY DEF AddressForm
  <2>2. \A j \in DOMAIN m : Start(m, j) = 27 + MSG_ID_SIZE => j = 9
    BY <1>1 DEF AddressForm
  <2> QED
    BY <2>1, <2>2, ExtractField
<1>4. Extract(m, 43 + MSG_ID_SIZE, MSG_PORT_SIZE) = p2.val
  <2>1. 11 \in DOMAIN m /\ Start(m, 11) = 43 + MSG_ID_SIZE /\ m[11] = p2
    BY DEF AddressForm
  <2>2. \A j \in DOMAIN m : Start(m, j) = 43 + MSG_ID_SIZE => j = 11
    BY <1>1 DEF AddressForm
  <2> QED
    BY <2>1, <2>2, ExtractField
<1>5. /\ MSG_TYPE_SIZE + 4 + MSG_ID_SIZE + MSG_IP_SIZE + MSG_PORT_SIZE = 27 + MSG_ID_SIZE
      /\ MSG_TYPE_SIZE + 5 + MSG_ID_SIZE + 2 * MSG_IP_SIZE + MSG_PORT_SIZE = 43 + MSG_ID_SIZE
  BY <1>1 DEF MSG_TYPE_SIZE, MSG_IP_SIZE, MSG_PORT_SIZE
<1> QED
  BY <1>2, <1>3, <1>4, <1>5 DEF TcpAddress, TcpPort

-----------------------------------------------------------------------------
(* What verify_msg accepts.                                                *)

\* verify_separator accepts a separator.
LEMMA SeparatorFound ==
    ASSUME NEW m, NEW i \in DOMAIN m, NEW off \in Nat, m[i] = Separator, Start(m, i) = off
    PROVE  verify_separator(m, off)
<1>1. m[i].kind = "sep" /\ m[i].width = 1
  BY DEF Separator, Field
<1>2. Covers(m, i, off)
  BY <1>1 DEF Covers
<1> QED
  BY <1>1, <1>2 DEF verify_separator

\* verify_end accepts an end.
LEMMA EndFound ==
    ASSUME NEW m, NEW i \in DOMAIN m, NEW off \in Nat, m[i] = End, Start(m, i) = off
    PROVE  verify_end(m, off)
BY DEF verify_end, IsAt, End, Field

\* Every MESS laid out as one, whatever the name and the text.
LEMMA MessVerified ==
    ASSUME NEW m, NEW x, NEW y, MessForm(m, "MESS", x, y)
    PROVE  verify_msg(m)
<1>1. MSG_ID_SIZE \in Nat /\ MSG_MESS_SIZE \in Nat
  BY MessageAssumption
<1>2. verify_separator(m, 4)
  BY SeparatorFound DEF MessForm
<1>3. verify_separator(m, 5 + MSG_ID_SIZE)
  BY <1>1, SeparatorFound DEF MessForm
<1>4. verify_end(m, 6 + MSG_ID_SIZE + MSG_MESS_SIZE)
  BY <1>1, EndFound DEF MessForm
<1>5. m[1].val = "MESS"
  BY DEF MessForm, TypeField, Field
<1>6. /\ MSG_TYPE_SIZE = 4
      /\ MSG_TYPE_SIZE + 1 + MSG_ID_SIZE = 5 + MSG_ID_SIZE
      /\ MSG_TYPE_SIZE + MSG_ID_SIZE + MSG_MESS_SIZE + 2 = 6 + MSG_ID_SIZE + MSG_MESS_SIZE
  BY <1>1 DEF MSG_TYPE_SIZE
<1>7. Length(m) = msglen("MESS")
  BY <1>1 DEF MessForm, msglen, MSG_TYPE_SIZE, MSG_END_SIZE
<1> QED
  BY <1>2, <1>3, <1>4, <1>5, <1>6, <1>7 DEF verify_msg

\* Every REGI with two addresses and two ports that are not negative.
LEMMA RegiVerified ==
    ASSUME NEW m, NEW x, NEW i1, NEW p1, NEW i2, NEW p2,
           AddressForm(m, "REGI", x, i1, p1, i2, p2),
           i1.kind = "ip", i1.width = MSG_IP_SIZE, i2.kind = "ip", i2.width = MSG_IP_SIZE,
           p1.kind = "int", p1.width = MSG_PORT_SIZE, p2.kind = "int", p2.width = MSG_PORT_SIZE
    PROVE  verify_msg(m)
<1> DEFINE T == MSG_TYPE_SIZE
           ip1 == T + 2 + MSG_ID_SIZE
           port1 == ip1 + MSG_IP_SIZE + 1
           ip2 == port1 + MSG_PORT_SIZE + 1
           port2 == ip2 + MSG_IP_SIZE + 1
<1>1. MSG_ID_SIZE \in Nat
  BY MessageAssumption
<1>2. /\ T = 4 /\ ip1 = 6 + MSG_ID_SIZE /\ port1 = 22 + MSG_ID_SIZE
      /\ ip2 = 27 + MSG_ID_SIZE /\ port2 = 43 + MSG_ID_SIZE
      /\ ip1 - 1 = 5 + MSG_ID_SIZE /\ port1 - 1 = 21 + MSG_ID_SIZE /\ ip2 - 1 = 26 + MSG_ID_SIZE
      /\ port2 + MSG_PORT_SIZE = 47 + MSG_ID_SIZE
  BY <1>1 DEF MSG_TYPE_SIZE, MSG_IP_SIZE, MSG_PORT_SIZE
<1>3. /\ verify_separator(m, 4) /\ verify_separator(m, 5 + MSG_ID_SIZE)
      /\ verify_separator(m, 21 + MSG_ID_SIZE) /\ verify_separator(m, 26 + MSG_ID_SIZE)
  BY <1>1, SeparatorFound DEF AddressForm
<1>4. verify_end(m, 47 + MSG_ID_SIZE)
  BY <1>1, EndFound DEF AddressForm
<1>5. verify_ip_addr(m, 6 + MSG_ID_SIZE) /\ verify_ip_addr(m, 27 + MSG_ID_SIZE)
  BY DEF AddressForm, verify_ip_addr, IsAt
<1>6. verify_int(m, 22 + MSG_ID_SIZE, MSG_PORT_SIZE) /\ verify_int(m, 43 + MSG_ID_SIZE, MSG_PORT_SIZE)
  BY DEF AddressForm, verify_int, IsAt
<1>7. m[1].val = "REGI"
  BY DEF AddressForm, TypeField, Field
<1>10. Length(m) = msglen("REGI")
  BY <1>1 DEF AddressForm, msglen, MSG_TYPE_SIZE, MSG_END_SIZE, MSG_IP_SIZE, MSG_PORT_SIZE
<1> HIDE DEF T, ip1, port1, ip2, port2
<1>8. \A off \in {T, ip1 - 1, port1 - 1, ip2 - 1} : verify_separator(m, off)
  BY <1>2, <1>3
<1>9. /\ verify_ip_addr(m, ip1) /\ verify_int(m, port1, MSG_PORT_SIZE)
      /\ verify_ip_addr(m, ip2) /\ verify_int(m, port2, MSG_PORT_SIZE)
      /\ verify_end(m, port2 + MSG_PORT_SIZE)
  BY <1>2, <1>4, <1>5, <1>6
<1> QED
  BY <1>7, <1>8, <1>9, <1>10 DEF verify_msg, T, ip1, port1, ip2, port2

-----------------------------------------------------------------------------
(* Numbers as digits.                                                      *)

\* The powers that the widths of the fields call for.
LEMMA PowersOfTen == 10 ^ 0 = 1 /\ 10 ^ 2 = 100 /\ 10 ^ 3 = 1000 /\ 10 ^ 4 = 10000
BY SMT

\* The powers that FirstDigits divides by are positive.
LEMMA PowerOfTen ==
    ASSUME NEW k \in 0..9
    PROVE  10 ^ k \in Nat \ {0}
<1> DEFINE S == Nat \ {0}
<1>1. k = 0 \/ k = 1 \/ k = 2 \/ k = 3 \/ k = 4 \/ k = 5 \/ k = 6 \/ k = 7 \/ k = 8 \/ k = 9
  OBVIOUS
<1>2. /\ 10 ^ 0 \in S /\ 10 ^ 1 \in S /\ 10 ^ 2 \in S /\ 10 ^ 3 \in S /\ 10 ^ 4 \in S
      /\ 10 ^ 5 \in S /\ 10 ^ 6 \in S /\ 10 ^ 7 \in S /\ 10 ^ 8 \in S /\ 10 ^ 9 \in S
  OBVIOUS
<1> HIDE DEF S
<1>3. 10 ^ k \in S
  BY ONLY <1>1, <1>2, Zenon
<1> QED
  BY <1>3 DEF S

\* Integer division, as the remainder tells it.
LEMMA DivisionFacts ==
    ASSUME NEW n \in Int, NEW d \in Nat \ {0}
    PROVE  /\ n \div d \in Int /\ n % d \in 0..(d - 1)
           /\ n = d * (n \div d) + (n % d)
<1>1. n \div d \in Int /\ n % d \in 0..(d - 1)
  OBVIOUS
<1>2. n = d * (n \div d) + (n % d)
  OBVIOUS
<1> QED
  BY <1>1, <1>2

\* A quotient is between zero and the dividend.
LEMMA DivisionIsLess ==
    ASSUME NEW n \in Nat, NEW d \in Nat \ {0}
    PROVE  n \div d \in 0..n
OBVIOUS

\* How many digits snprintf drops: as many as it takes, and no more.
IsDropped(n, limit, k) ==
    /\ n \div 10 ^ k < limit
    /\ k > 0 => n \div 10 ^ (k - 1) >= limit

\* A number that fits its field is written whole.
LEMMA WrittenWhole ==
    ASSUME NEW w \in {2, 3, 4}, NEW n \in 0..(10 ^ w - 1)
    PROVE  FirstDigits(n, w) = n
<1> DEFINE limit == 10 ^ w
<1>1. limit \in Nat /\ n \in Nat /\ n < limit
  BY PowersOfTen
<1> HIDE DEF limit
<1>2. n \div 10 ^ 0 = n
  <2>1. n \div 1 = n
    BY <1>1
  <2> QED
    BY <2>1, PowersOfTen
<1>3. \A k \in 0..9 : IsDropped(n, limit, k) <=> k = 0
  <2>1. IsDropped(n, limit, 0)
    BY <1>1, <1>2 DEF IsDropped
  <2>2. ASSUME NEW k \in 1..9, IsDropped(n, limit, k) PROVE FALSE
    <3> DEFINE d == 10 ^ (k - 1)
    <3>1. n \div d >= limit
      BY <2>2 DEF IsDropped
    <3>2. d \in Nat \ {0}
      <4>1. k - 1 \in 0..9
        OBVIOUS
      <4> QED
        BY <4>1, PowerOfTen
    <3> HIDE DEF d
    <3>3. n \div d \in 0..n
      BY <1>1, <3>2, DivisionIsLess
    <3> QED
      BY <1>1, <3>1, <3>3
  <2> QED
    BY <2>1, <2>2
<1>4. (CHOOSE k \in 0..9 : IsDropped(n, limit, k)) = 0
  BY <1>3
<1>5. FirstDigits(n, w) = n \div 10 ^ (CHOOSE k \in 0..9 : IsDropped(n, limit, k))
  BY DEF FirstDigits, IsDropped, limit
<1> QED
  BY <1>2, <1>4, <1>5

\* Some number of digits is dropped when nine are enough.
LEMMA SomeIsDropped ==
    ASSUME NEW n \in Nat, NEW limit \in Nat, n \div 10 ^ 9 < limit
    PROVE  \E k \in 0..9 : IsDropped(n, limit, k)
<1> DEFINE E(k) == n \div 10 ^ k < limit
<1>1. \A k \in 0..9 : n \div 10 ^ k \in 0..n
  BY PowerOfTen, DivisionIsLess
<1>2. \A k \in 0..9 : n \div 10 ^ k >= limit <=> ~E(k)
  <2> SUFFICES ASSUME NEW k \in 0..9 PROVE n \div 10 ^ k >= limit <=> ~E(k)
    OBVIOUS
  <2> DEFINE v == n \div 10 ^ k
  <2>1. v \in 0..n
    BY <1>1
  <2> HIDE DEF v
  <2>2. v >= limit <=> ~(v < limit)
    BY <2>1
  <2> QED
    BY <2>2 DEF v
<1>3. E(9)
  OBVIOUS
<1> HIDE DEF E
<1>4. PICK k \in 0..9 : E(k) /\ (k > 0 => ~E(k - 1))
  BY <1>3
<1>5. k > 0 => n \div 10 ^ (k - 1) >= limit
  <2>1. CASE k > 0
    <3>1. k - 1 \in 0..9
      BY <2>1
    <3> QED
      BY <1>2, <1>4, <2>1, <3>1, Zenon
  <2> QED
    BY <2>1
<1>6. IsDropped(n, limit, k)
  BY <1>4, <1>5, Zenon DEF IsDropped, E
<1> QED
  BY <1>6

\* A number of messages too wide for its field keeps three digits.
LEMMA DigitsKept ==
    ASSUME NEW n \in Nat, n <= INT_MAX + 1
    PROVE  FirstDigits(n, 3) \in 0..999
<1> DEFINE limit == 10 ^ 3
<1>1. limit \in Nat /\ limit = 1000
  BY PowersOfTen
<1>2. n \div 10 ^ 9 <= 10
  <2> DEFINE d == 10 ^ 9
             q == n \div d
             r == n % d
  <2>1. d \in Nat \ {0} /\ d >= 1
    BY PowerOfTen
  <2>2. INT_MAX \in Nat /\ INT_MAX \div d < 10
    BY MessageAssumption
  <2>3. q \in Int /\ r \in 0..(d - 1) /\ n = d * q + r
    BY <2>1, DivisionFacts
  <2> HIDE DEF d, q, r
  <2>4. INT_MAX < 10 * d
    BY <2>1, <2>2, DivisionFacts
  <2>5. ASSUME q > 10 PROVE FALSE
    <3>1. d * q >= d * 11
      BY <2>1, <2>3, <2>5
    <3> QED
      BY <2>1, <2>2, <2>3, <2>4, <3>1
  <2>6. q <= 10
    BY <2>3, <2>5
  <2> QED
    BY <2>6 DEF q, d
<1>3. n \div 10 ^ 9 < limit
  <2>1. n \div 10 ^ 9 \in Int
    BY PowerOfTen, DivisionFacts
  <2> HIDE DEF limit
  <2> QED
    BY <1>1, <1>2, <2>1
<1> DEFINE k == CHOOSE j \in 0..9 : IsDropped(n, limit, j)
           v == n \div 10 ^ k
<1>4. FirstDigits(n, 3) = v
  BY Zenon DEF FirstDigits, IsDropped
<1> HIDE DEF limit
<1>5. k \in 0..9 /\ IsDropped(n, limit, k)
  BY <1>1, <1>3, SomeIsDropped
<1> HIDE DEF k
<1>6. v \in 0..n /\ v < limit
  BY <1>5, PowerOfTen, DivisionIsLess DEF IsDropped
<1> HIDE DEF v
<1> QED
  BY <1>1, <1>4, <1>6

-----------------------------------------------------------------------------
(* Numbers in the types of C.                                              *)

\* The remainder is the part below the divisor.
LEMMA RemainderIs ==
    ASSUME NEW d \in Nat \ {0}, NEW q \in Int, NEW r \in 0..(d - 1)
    PROVE  (d * q + r) % d = r
OBVIOUS

\* What set_uint_from_string returns is an int that is not negative.
LEMMA UintType ==
    ASSUME NEW n \in Int \cup {None}
    PROVE  set_uint_from_string(n) \in 0..INT_MAX \cup {None}
<1> DEFINE values == 2 * (INT_MAX + 1)
           u == strtoul(n)
<1>1. INT_MAX \in Nat /\ ULONG_MAX \in Nat /\ None \notin Int
  BY MessageAssumption
<1>2. CASE n = None \/ u = None \/ ToInt(u) < 0
  BY <1>2 DEF set_uint_from_string
<1>3. CASE n # None /\ u # None /\ ~(ToInt(u) < 0)
  <2>1. set_uint_from_string(n) = ToInt(u)
    BY <1>3 DEF set_uint_from_string
  <2>2. u \in Int
    <3>1. u = n % (ULONG_MAX + 1) /\ n \in Int /\ ULONG_MAX + 1 \in Nat \ {0}
      BY <1>1, <1>3 DEF strtoul
    <3> QED
      BY <3>1, DivisionFacts
  <2> HIDE DEF u
  <2>3. u % values \in 0..(values - 1) /\ values \in Nat \ {0}
    BY <1>1, <2>2, DivisionFacts
  <2>4. ToInt(u) = IF u % values > INT_MAX THEN (u % values) - values ELSE u % values
    BY DEF ToInt
  <2> HIDE DEF values
  <2>5. ToInt(u) \in 0..INT_MAX
    BY <1>1, <1>3, <2>3, <2>4
  <2> QED
    BY <2>1, <2>5
<1> QED
  BY <1>2, <1>3

\* A number that fits an int is read as it is, unless it is negative.
LEMMA IntIsRead ==
    ASSUME NEW n \in Int, Abs(n) <= INT_MAX
    PROVE  set_uint_from_string(n) = IF n >= 0 THEN n ELSE None
<1> DEFINE values == 2 * (INT_MAX + 1)
           longs == ULONG_MAX + 1
           q == longs \div values
<1>1. INT_MAX \in Nat /\ ULONG_MAX \in Nat /\ None \notin Int
  BY MessageAssumption
<1>2. values \in Nat \ {0} /\ longs \in Nat \ {0} /\ INT_MAX < values
  BY <1>1
<1>3. q \in Int /\ longs = values * q
  <2>1. longs % values = 0
    BY MessageAssumption
  <2> HIDE DEF values, longs
  <2>2. q \in Int /\ longs = values * q + (longs % values)
    BY <1>2, DivisionFacts
  <2> HIDE DEF q
  <2> QED
    BY <1>2, <2>1, <2>2
<1>4. ULONG_MAX = longs - 1 /\ values = 2 * INT_MAX + 2
  BY <1>1
<1>5. strtoul(n) = IF Abs(n) > ULONG_MAX THEN None ELSE n % longs
  BY DEF strtoul
<1>6. \A u : ToInt(u) = IF u % values > INT_MAX THEN (u % values) - values ELSE u % values
  BY DEF ToInt
<1> HIDE DEF values, longs, q
<1>7. longs >= values
  <2>1. q >= 1
    BY <1>2, <1>3
  <2> QED
    BY <1>2, <1>3, <2>1
<1>8. CASE n >= 0
  <2>1. n \in 0..INT_MAX
    BY <1>1, <1>8 DEF Abs
  <2>2. strtoul(n) = n
    <3>1. n % longs = n
      BY <1>1, <1>2, <1>7, <2>1
    <3> QED
      BY <1>1, <1>2, <1>4, <1>5, <1>7, <2>1, <3>1 DEF Abs
  <2>3. n % values = n
    BY <1>1, <1>2, <2>1
  <2>4. ToInt(n) = n
    BY <1>1, <1>6, <2>1, <2>3
  <2> QED
    BY <1>1, <1>8, <2>2, <2>4 DEF set_uint_from_string
<1>9. CASE n < 0
  <2>1. n \in -INT_MAX..-1
    BY <1>1, <1>9 DEF Abs
  <2>2. strtoul(n) = longs + n
    <3>1. n % longs = longs + n
      <4>1. n = longs * (-1) + (longs + n) /\ longs + n \in 0..(longs - 1) /\ -1 \in Int
        BY <1>1, <1>2, <1>7, <2>1
      <4> QED
        BY <1>2, <4>1, RemainderIs
    <3> QED
      BY <1>1, <1>2, <1>4, <1>5, <1>7, <2>1, <3>1 DEF Abs
  <2>3. (longs + n) % values = values + n
    <3>1. longs + n = values * (q - 1) + (values + n)
      BY <1>2, <1>3
    <3>2. values + n \in 0..(values - 1) /\ q - 1 \in Int
      BY <1>1, <1>2, <1>3, <2>1
    <3> QED
      BY <1>2, <3>1, <3>2, RemainderIs
  <2>4. ToInt(longs + n) = n
    BY <1>1, <1>2, <1>4, <1>6, <2>1, <2>3
  <2> QED
    BY <1>1, <1>9, <2>2, <2>4 DEF set_uint_from_string
<1> QED
  BY <1>8, <1>9

-----------------------------------------------------------------------------
(* Names and texts, up to a blank or a filler.                             *)

\* The order of the numbers, as a relation.
Below == {p \in Nat \X Nat : p[1] < p[2]}

\* A set of numbers has a least one.
LEMMA SmallestOf ==
    ASSUME NEW T \in SUBSET Nat, T # {}
    PROVE  \E x \in T : \A y \in T : x <= y
<1>1. IsWellFoundedOn(Below, Nat)
  <2>1. IsWellFoundedOn(OpToRel(<, Nat), Nat)
    BY NatLessThanWellFounded
  <2>2. OpToRel(<, Nat) = Below
    BY Zenon DEF OpToRel, Below
  <2> QED
    BY <2>1, <2>2, Zenon
<1>2. PICK x \in T : \A y \in T : <<y, x>> \notin Below
  BY <1>1, WFMin
<1>3. ASSUME NEW y \in T PROVE x <= y
  <2>1. x \in Nat /\ y \in Nat /\ <<y, x>> \notin Below
    BY <1>2
  <2>2. ~(y < x)
    BY <2>1 DEF Below
  <2> QED
    BY <2>1, <2>2
<1> QED
  BY <1>3

\* First is where one of the characters is first, or the end.
LEMMA FirstFacts ==
    ASSUME NEW s \in Line, NEW C
    PROVE  LET f == First(s, C)
           IN  /\ f \in 1..(Len(s) + 1)
               /\ f <= Len(s) => s[f] \in C
               /\ \A i \in 1..Len(s) : i < f => s[i] \notin C
<1> DEFINE here == {i \in DOMAIN s : s[i] \in C}
           f == First(s, C)
<1>1. Len(s) \in Nat /\ DOMAIN s = 1..Len(s)
  BY DEF Line
<1>2. CASE here = {}
  <2>1. f = Len(s) + 1
    BY <1>2 DEF First
  <2> QED
    BY <1>1, <1>2, <2>1
<1>3. CASE here # {}
  <2>1. here \in SUBSET Nat
    BY <1>1
  <2>2. \E i \in here : \A j \in here : i <= j
    BY <1>3, <2>1, SmallestOf
  <2>3. f = CHOOSE i \in here : \A j \in here : i <= j
    BY <1>3 DEF First
  <2>4. f \in here /\ \A j \in here : f <= j
    BY <2>2, <2>3
  <2> HIDE DEF f
  <2>5. \A i \in 1..Len(s) : i < f => s[i] \notin C
    <3> SUFFICES ASSUME NEW i \in 1..Len(s), i < f, s[i] \in C PROVE FALSE
      OBVIOUS
    <3>1. i \in here
      BY <1>1
    <3>2. f <= i /\ f \in Int
      BY <1>1, <2>4, <3>1
    <3> QED
      BY <3>2
  <2>6. f \in 1..(Len(s) + 1) /\ s[f] \in C
    BY <1>1, <2>4
  <2>7. f \in 1..(Len(s) + 1) /\ (f <= Len(s) => s[f] \in C)
    BY <2>6
  <2> QED
    BY <2>5, <2>7, Zenon DEF f
<1> QED
  BY <1>2, <1>3

\* No character of s is one of C.
Without(s, C) == \A i \in DOMAIN s : s[i] \notin C

\* What a reader that stops at the characters of C keeps of s in a field of
\* w characters.
Kept(r, s, w, C) ==
    /\ r \in Line /\ Len(r) <= Len(s) /\ Len(r) <= w
    /\ \A i \in 1..Len(r) : r[i] = s[i] /\ r[i] \notin C
    /\ Len(r) < Len(s) /\ Len(r) < w => s[Len(r) + 1] \in C

\* There is one such text.
LEMMA KeptUnique ==
    ASSUME NEW s \in Line, NEW w \in Nat, NEW C, NEW r, NEW q, Kept(r, s, w, C), Kept(q, s, w, C)
    PROVE  r = q
<1>1. /\ r \in Line /\ q \in Line /\ Len(r) \in Nat /\ Len(q) \in Nat /\ Len(s) \in Nat
      /\ DOMAIN r = 1..Len(r) /\ DOMAIN q = 1..Len(q)
  BY DEF Kept, Line
<1>2. ~(Len(r) < Len(q))
  <2> SUFFICES ASSUME Len(r) < Len(q) PROVE FALSE
    OBVIOUS
  <2>1. Len(r) < Len(s) /\ Len(r) < w /\ Len(r) + 1 \in 1..Len(q)
    BY <1>1 DEF Kept
  <2> QED
    BY <2>1 DEF Kept
<1>3. ~(Len(q) < Len(r))
  <2> SUFFICES ASSUME Len(q) < Len(r) PROVE FALSE
    OBVIOUS
  <2>1. Len(q) < Len(s) /\ Len(q) < w /\ Len(q) + 1 \in 1..Len(r)
    BY <1>1 DEF Kept
  <2> QED
    BY <2>1 DEF Kept
<1>4. Len(r) = Len(q)
  <2>1. Len(r) \in Nat /\ Len(q) \in Nat
    BY <1>1
  <2> QED
    BY ONLY <1>2, <1>3, <2>1
<1>5. \A i \in 1..Len(r) : r[i] = q[i]
  BY <1>4 DEF Kept
<1> QED
  BY <1>1, <1>4, <1>5 DEF Line

\* A clean text that fits is kept whole.
LEMMA CleanIsKept ==
    ASSUME NEW s \in Line, NEW w \in Nat, NEW C, Len(s) <= w, Without(s, C)
    PROVE  Kept(s, s, w, C)
BY DEF Kept, Without, Line

\* What comes before the first of the characters of C.
LEMMA BeforeFirst ==
    ASSUME NEW s \in Line, NEW C, NEW r, r = Before(s, C)
    PROVE  /\ r \in Line /\ Len(r) = First(s, C) - 1
           /\ \A i \in 1..Len(r) : r[i] = s[i] /\ r[i] \notin C
<1> DEFINE f == First(s, C)
           n == f - 1
<1>1. /\ f \in 1..(Len(s) + 1)
      /\ \A i \in 1..Len(s) : i < f => s[i] \notin C
  BY FirstFacts
<1> HIDE DEF f
<1>2. n \in 0..Len(s) /\ Len(s) \in Nat
  BY <1>1 DEF Line
<1>3. /\ SubSeq(s, 1, n) \in Line /\ Len(SubSeq(s, 1, n)) = n
      /\ \A i \in 1..n : SubSeq(s, 1, n)[i] = s[i]
  BY <1>2 DEF Line
<1>4. \A i \in 1..n : s[i] \notin C
  BY <1>1, <1>2
<1>5. r = SubSeq(s, 1, n)
  BY DEF Before, f
<1> QED
  BY <1>3, <1>4, <1>5 DEF f

\* Where removeDefChar, or a reader of a cut text, stops.
LEMMA BeforeIsKept ==
    ASSUME NEW s \in Line, NEW w \in Nat, NEW C, Len(s) <= w
    PROVE  Kept(Before(s, C), s, w, C)
<1> DEFINE f == First(s, C)
           r == Before(s, C)
<1>1. /\ f \in 1..(Len(s) + 1)
      /\ f <= Len(s) => s[f] \in C
  BY FirstFacts
<1>2. /\ r \in Line /\ Len(r) = f - 1
      /\ \A i \in 1..Len(r) : r[i] = s[i] /\ r[i] \notin C
  BY BeforeFirst
<1> HIDE DEF f, r
<1>3. Len(s) \in Nat
  BY DEF Line
<1>4. Len(r) < Len(s) => s[Len(r) + 1] \in C
  BY <1>1, <1>2, <1>3
<1>5. Len(r) <= Len(s) /\ Len(r) <= w
  BY <1>1, <1>2, <1>3
<1>6. Kept(r, s, w, C)
  BY <1>2, <1>4, <1>5 DEF Kept
<1> QED
  BY <1>6 DEF r, f

\* What removeDefChar returns.
LEMMA DefCharRemoved ==
    ASSUME NEW s \in Line, NEW w \in Nat, Len(s) = w
    PROVE  Kept(removeDefChar(s), s, w, {Filler})
<1>1. Kept(Before(s, {Filler}), s, w, {Filler})
  BY BeforeIsKept
<1> QED
  BY <1>1 DEF removeDefChar

\* Two lines of the same characters are one.
LEMMA SameLine ==
    ASSUME NEW s \in Line, NEW q \in Line, Len(s) = Len(q), \A i \in 1..Len(s) : s[i] = q[i]
    PROVE  s = q
BY DEF Line

\* In its field, a text is followed by fillers only.
LEMMA PaddedText ==
    ASSUME NEW s \in Line, NEW w \in Nat, NEW p, p = add_string(s, w).val
    PROVE  /\ p \in Line /\ Len(p) = w /\ DOMAIN p = 1..w
           /\ \A i \in 1..w : p[i] = IF i <= Len(s) THEN s[i] ELSE Filler
<1>1. p = [i \in 1..w |-> IF i <= Len(s) THEN s[i] ELSE Filler]
  BY DEF add_string, Field
<1>2. \A i \in 1..w : (IF i <= Len(s) THEN s[i] ELSE Filler) \in Chars
  <2> SUFFICES ASSUME NEW i \in 1..w PROVE (IF i <= Len(s) THEN s[i] ELSE Filler) \in Chars
    OBVIOUS
  <2>1. CASE i <= Len(s)
    BY <2>1 DEF Line
  <2>2. CASE ~(i <= Len(s))
    BY <2>2 DEF Chars
  <2> QED
    BY <2>1, <2>2
<1> QED
  BY <1>1, <1>2 DEF Line

\* A reader that stops at the filler keeps of a text in its field what it
\* keeps of the text.
LEMMA PaddedKeeps ==
    ASSUME NEW s \in Line, NEW w \in Nat, NEW p, p = add_string(s, w).val,
           NEW C, Filler \in C, NEW r
    PROVE  Kept(r, p, w, C) <=> Kept(r, s, w, C)
<1>1. /\ p \in Line /\ Len(p) = w
      /\ \A i \in 1..w : p[i] = IF i <= Len(s) THEN s[i] ELSE Filler
  BY PaddedText
<1>2. ASSUME Kept(r, p, w, C) PROVE Kept(r, s, w, C)
  <2>1. /\ r \in Line /\ Len(r) \in Nat /\ Len(s) \in Nat /\ Len(r) <= w
        /\ \A i \in 1..Len(r) : r[i] = p[i] /\ r[i] \notin C
        /\ Len(r) < w => p[Len(r) + 1] \in C
    BY <1>1, <1>2 DEF Kept, Line
  <2>2. \A i \in 1..Len(r) : i <= Len(s)
    BY <1>1, <2>1
  <2>3. Len(r) <= Len(s)
    <3>1. CASE Len(r) = 0
      BY <2>1, <3>1
    <3>2. CASE Len(r) # 0
      <4>1. Len(r) \in 1..Len(r)
        BY <2>1, <3>2
      <4> QED
        BY <2>2, <4>1
    <3> QED
      BY <3>1, <3>2
  <2>4. \A i \in 1..Len(r) : r[i] = s[i] /\ r[i] \notin C
    BY <1>1, <2>1, <2>2
  <2>5. Len(r) < Len(s) /\ Len(r) < w => s[Len(r) + 1] \in C
    BY <1>1, <2>1
  <2> QED
    BY <2>1, <2>3, <2>4, <2>5 DEF Kept
<1>3. ASSUME Kept(r, s, w, C) PROVE Kept(r, p, w, C)
  <2>1. /\ r \in Line /\ Len(r) \in Nat /\ Len(s) \in Nat /\ Len(r) <= w /\ Len(r) <= Len(s)
        /\ \A i \in 1..Len(r) : r[i] = s[i] /\ r[i] \notin C
        /\ Len(r) < Len(s) /\ Len(r) < w => s[Len(r) + 1] \in C
    BY <1>3 DEF Kept, Line
  <2>2. \A i \in 1..Len(r) : r[i] = p[i] /\ r[i] \notin C
    BY <1>1, <2>1
  <2>3. ASSUME Len(r) < w PROVE p[Len(r) + 1] \in C
    <3>1. Len(r) + 1 \in 1..w
      BY <2>1, <2>3
    <3>2. CASE Len(r) < Len(s)
      BY <1>1, <2>1, <2>3, <3>1, <3>2
    <3>3. CASE Len(r) = Len(s)
      <4>1. p[Len(r) + 1] = Filler
        BY <1>1, <2>1, <3>1, <3>3
      <4> QED
        BY <4>1
    <3> QED
      BY <2>1, <3>2, <3>3
  <2> QED
    BY <1>1, <2>1, <2>2, <2>3 DEF Kept
<1> QED
  BY <1>2, <1>3

\* A reader that has w characters only keeps of a text cut to w what it
\* keeps of the text.
LEMMA CutKeeps ==
    ASSUME NEW s \in Line, NEW w \in Nat, NEW C, NEW r
    PROVE  /\ Cut(s, w) \in Line /\ Len(Cut(s, w)) <= w
           /\ Kept(r, Cut(s, w), w, C) <=> Kept(r, s, w, C)
<1> DEFINE n == IF Len(s) < w THEN Len(s) ELSE w
           c == Cut(s, w)
<1>1. n \in 0..Len(s) /\ n <= w /\ (n = Len(s) \/ n = w) /\ Len(s) \in Nat
  BY DEF Line
<1>2. c = SubSeq(s, 1, n)
  BY DEF Cut
<1> HIDE DEF n, c
<1>3. c \in Line /\ Len(c) = n /\ \A i \in 1..n : c[i] = s[i]
  BY <1>1, <1>2 DEF Line
<1>4. ASSUME Kept(r, c, w, C) PROVE Kept(r, s, w, C)
  <2>1. /\ r \in Line /\ Len(r) \in Nat /\ Len(r) <= n /\ Len(r) <= w
        /\ \A i \in 1..Len(r) : r[i] = c[i] /\ r[i] \notin C
        /\ Len(r) < n /\ Len(r) < w => c[Len(r) + 1] \in C
    BY <1>3, <1>4 DEF Kept, Line
  <2>2. \A i \in 1..Len(r) : r[i] = s[i] /\ r[i] \notin C
    BY <1>1, <1>3, <2>1
  <2>3. Len(r) < Len(s) /\ Len(r) < w => s[Len(r) + 1] \in C
    BY <1>1, <1>3, <2>1
  <2>4. Len(r) <= Len(s)
    BY <1>1, <2>1
  <2> QED
    BY <2>1, <2>2, <2>3, <2>4 DEF Kept
<1>5. ASSUME Kept(r, s, w, C) PROVE Kept(r, c, w, C)
  <2>1. /\ r \in Line /\ Len(r) \in Nat /\ Len(r) <= w /\ Len(r) <= Len(s)
        /\ \A i \in 1..Len(r) : r[i] = s[i] /\ r[i] \notin C
        /\ Len(r) < Len(s) /\ Len(r) < w => s[Len(r) + 1] \in C
    BY <1>5 DEF Kept, Line
  <2>2. Len(r) <= Len(c)
    BY <1>1, <1>3, <2>1
  <2>3. \A i \in 1..Len(r) : r[i] = c[i] /\ r[i] \notin C
    BY <1>1, <1>3, <2>1, <2>2
  <2>4. Len(r) < Len(c) /\ Len(r) < w => c[Len(r) + 1] \in C
    BY <1>1, <1>3, <2>1
  <2> QED
    BY <2>1, <2>2, <2>3, <2>4 DEF Kept
<1>6. c \in Line /\ Len(c) <= w /\ (Kept(r, c, w, C) <=> Kept(r, s, w, C))
  BY <1>1, <1>3, <1>4, <1>5
<1> QED
  BY <1>6 DEF c

\* A reader that stops at a blank keeps nothing after the first one.
LEMMA NameKeeps ==
    ASSUME NEW s \in Line, NEW i \in Line, Kept(i, s, Len(s), {Space}), NEW w \in Nat, NEW r
    PROVE  Kept(r, i, w, {Space, Filler}) <=> Kept(r, s, w, {Space, Filler})
<1> DEFINE C == {Space, Filler}
<1>0. Space \in C
  OBVIOUS
<1> HIDE DEF C
<1>1. /\ Len(i) \in Nat /\ Len(s) \in Nat /\ Len(i) <= Len(s)
      /\ \A j \in 1..Len(i) : i[j] = s[j]
      /\ Len(i) < Len(s) => s[Len(i) + 1] \in C
  <2>1. Len(i) \in Nat /\ Len(s) \in Nat
    BY DEF Line
  <2>2. /\ Len(i) <= Len(s)
        /\ \A j \in 1..Len(i) : i[j] = s[j]
        /\ Len(i) < Len(s) /\ Len(i) < Len(s) => s[Len(i) + 1] \in {Space}
    BY Zenon DEF Kept
  <2>3. Len(i) < Len(s) => s[Len(i) + 1] \in C
    BY <1>0, <2>2, Zenon
  <2> QED
    BY <2>1, <2>2, <2>3
<1>2. ASSUME Kept(r, i, w, C) PROVE Kept(r, s, w, C)
  <2>1. /\ r \in Line /\ Len(r) \in Nat /\ Len(r) <= Len(i) /\ Len(r) <= w
        /\ \A j \in 1..Len(r) : r[j] = i[j] /\ r[j] \notin C
        /\ Len(r) < Len(i) /\ Len(r) < w => i[Len(r) + 1] \in C
    BY <1>2 DEF Kept, Line
  <2>2. \A j \in 1..Len(r) : r[j] = s[j] /\ r[j] \notin C
    BY <1>1, <2>1
  <2>3. ASSUME Len(r) < Len(s), Len(r) < w PROVE s[Len(r) + 1] \in C
    <3>1. CASE Len(r) < Len(i)
      <4>1. Len(r) + 1 \in 1..Len(i)
        BY <1>1, <2>1, <3>1
      <4> QED
        BY <1>1, <2>1, <2>3, <3>1, <4>1
    <3>2. CASE Len(r) = Len(i)
      BY <1>1, <2>3, <3>2
    <3> QED
      BY <1>1, <2>1, <3>1, <3>2
  <2>4. Len(r) <= Len(s)
    BY <1>1, <2>1
  <2> QED
    BY <2>1, <2>2, <2>3, <2>4 DEF Kept
<1>3. ASSUME Kept(r, s, w, C) PROVE Kept(r, i, w, C)
  <2>1. /\ r \in Line /\ Len(r) \in Nat /\ Len(r) <= Len(s) /\ Len(r) <= w
        /\ \A j \in 1..Len(r) : r[j] = s[j] /\ r[j] \notin C
        /\ Len(r) < Len(s) /\ Len(r) < w => s[Len(r) + 1] \in C
    BY <1>3 DEF Kept, Line
  <2>2. Len(r) <= Len(i)
    <3> SUFFICES ASSUME Len(i) < Len(r) PROVE FALSE
      BY <1>1, <2>1
    <3>1. Len(i) + 1 \in 1..Len(r) /\ Len(i) < Len(s)
      BY <1>1, <2>1
    <3> QED
      BY <1>1, <2>1, <3>1
  <2>3. \A j \in 1..Len(r) : r[j] = i[j] /\ r[j] \notin C
    BY <1>1, <2>1, <2>2
  <2>4. Len(r) < Len(i) /\ Len(r) < w => i[Len(r) + 1] \in C
    BY <1>1, <2>1
  <2> QED
    BY <2>1, <2>2, <2>3, <2>4 DEF Kept
<1> QED
  BY <1>2, <1>3 DEF C

-----------------------------------------------------------------------------
(* What is built is a message, never the error None.                       *)

\* What a field may hold.
Values == MessageTypes \cup Int \cup Line \cup Address \cup {None}

\* A kind, a width and a value make a field.
LEMMA FieldType ==
    ASSUME NEW k \in Kinds, NEW w \in Nat, NEW v \in Values
    PROVE  Field(k, w, v) \in Fields
<1>1. Fields = [kind : Kinds, width : Nat, val : Values]
  BY DEF Fields, Values
<1> QED
  BY <1>1 DEF Field

\* Types, numbers, texts and addresses are values.
LEMMA ValueTypes ==
    ASSUME NEW v
    PROVE  v \in MessageTypes \/ v \in Int \/ v \in Line \/ v \in Address => v \in Values
BY Zenon DEF Values

\* The fields of a type, of a separator and of the end.
LEMMA OwnFields ==
    ASSUME NEW t \in MessageTypes
    PROVE  TypeField(t) \in Fields /\ Separator \in Fields /\ End \in Fields
<1>1. t \in Values /\ 0 \in Values
  BY ValueTypes, 0 \in Int
<1>2. Field("type", 4, t) \in Fields /\ Field("sep", 1, 0) \in Fields /\ Field("end", 2, 0) \in Fields
  <2>1. 4 \in Nat /\ 1 \in Nat /\ 2 \in Nat /\ "type" \in Kinds /\ "sep" \in Kinds /\ "end" \in Kinds
    BY DEF Kinds
  <2> QED
    BY <1>1, <2>1, FieldType
<1> QED
  BY <1>2 DEF TypeField, Separator, End, MSG_TYPE_SIZE, MSG_END_SIZE

\* A text in its field.
LEMMA TextField ==
    ASSUME NEW s \in Line, NEW w \in Nat
    PROVE  /\ add_string(s, w) \in Fields
           /\ add_string(s, w).kind = "text" /\ add_string(s, w).width = w
<1> DEFINE p == add_string(s, w).val
<1>1. add_string(s, w) = Field("text", w, p)
  BY DEF add_string, Field
<1>2. p \in Line
  BY PaddedText
<1> HIDE DEF p
<1>3. Field("text", w, p) \in Fields
  <2>1. p \in Values /\ "text" \in Kinds
    BY <1>2, ValueTypes DEF Kinds
  <2> QED
    BY <2>1, FieldType
<1>4. Field("text", w, p).kind = "text" /\ Field("text", w, p).width = w
  BY DEF Field
<1> QED
  BY <1>1, <1>3, <1>4

\* Fields make a message.
LEMMA Assembled ==
    ASSUME NEW t \in MessageTypes, NEW fs \in Seq(Fields)
    PROVE  Assemble(t, fs) \in Seq(Fields) /\ Assemble(t, fs) # None
<1> DEFINE n == 2 * Len(fs) + 2
           m == Assemble(t, fs)
<1>1. n \in Nat /\ n >= 2 /\ Len(fs) \in Nat
  OBVIOUS
<1>2. ASSUME NEW i \in 1..n PROVE m[i] \in Fields
  <2>1. m[i] = CASE i = 1 -> TypeField(t)
                 [] i = n -> End
                 [] i \in 2..(n - 1) /\ i % 2 = 0 -> Separator
                 [] i \in 2..(n - 1) /\ i % 2 = 1 -> fs[i \div 2]
    BY DEF Assemble
  <2>2. CASE i = 1
    BY <1>1, <2>1, <2>2, OwnFields
  <2>3. CASE i = n
    BY <1>1, <2>1, <2>3, OwnFields
  <2>4. CASE i \in 2..(n - 1) /\ i % 2 = 0
    <3>1. i # 1 /\ i # n
      BY <1>1, <2>4
    <3>2. m[i] = Separator
      BY <2>1, <2>4, <3>1
    <3> QED
      BY <3>2, OwnFields
  <2>5. CASE i \in 2..(n - 1) /\ i % 2 = 1
    <3>1. i # 1 /\ i # n
      BY <1>1, <2>5
    <3>2. m[i] = fs[i \div 2]
      BY <2>1, <2>5, <3>1
    <3>3. i \div 2 \in 1..Len(fs)
      BY <1>1, <2>5
    <3> QED
      BY <3>2, <3>3
  <2>6. i % 2 = 0 \/ i % 2 = 1
    OBVIOUS
  <2>7. i = 1 \/ i = n \/ i \in 2..(n - 1)
    BY <1>1
  <2> QED
    BY <2>2, <2>3, <2>4, <2>5, <2>6, <2>7
<1>3. m = [i \in 1..n |-> m[i]]
  BY DEF Assemble
<1> HIDE DEF n, m
<1>4. m \in Seq(Fields)
  BY <1>1, <1>2, <1>3
<1>5. m # None
  BY <1>4, MessageAssumption
<1> QED
  BY <1>4, <1>5 DEF m

\* The number of a post is 0.
LEMMA ZeroField == add_int(0, MSG_NUM_MESS_SIZE) = Field("int", MSG_NUM_MESS_SIZE, 0)
<1>1. 0 \in 0..(10 ^ 4 - 1)
  BY PowersOfTen, SMT
<1>2. FirstDigits(0, 4) = 0
  BY <1>1, WrittenWhole
<1> QED
  BY <1>2 DEF add_int, MSG_NUM_MESS_SIZE

\* A MESS with a name and a text.
LEMMA MessMade ==
    ASSUME NEW a, a.id \in Line, a.text \in Line, NEW m, m = create_message("MESS", a)
    PROVE  /\ m \in Seq(Fields) /\ m # None
           /\ MessForm(m, "MESS", add_string(a.id, MSG_ID_SIZE), add_string(a.text, MSG_MESS_SIZE))
<1> DEFINE x == add_string(a.id, MSG_ID_SIZE)
           y == add_string(a.text, MSG_MESS_SIZE)
<1>1. MSG_ID_SIZE \in Nat /\ MSG_MESS_SIZE \in Nat
  BY MessageAssumption
<1>2. m = Assemble("MESS", <<x, y>>)
  BY DEF create_message
<1>3. /\ x \in Fields /\ x.width = MSG_ID_SIZE
      /\ y \in Fields /\ y.width = MSG_MESS_SIZE
  BY <1>1, TextField
<1> HIDE DEF x, y
<1>4. <<x, y>> \in Seq(Fields)
  BY <1>3
<1>5. MessForm(m, "MESS", x, y)
  BY <1>2, <1>3, MessPlaces
<1>6. m \in Seq(Fields) /\ m # None
  <2>1. "MESS" \in MessageTypes
    BY DEF MessageTypes
  <2> QED
    BY <1>2, <1>4, <2>1, Assembled, Zenon
<1> QED
  BY <1>5, <1>6 DEF x, y

\* A DIFF or an OLDM with a name and a text, numbered 0.
LEMMA DiffMade ==
    ASSUME NEW t \in {"DIFF", "OLDM"}, NEW a, a.id \in Line, a.text \in Line, a.num = 0,
           NEW m, m = create_message(t, a)
    PROVE  /\ m \in Seq(Fields) /\ m # None
           /\ DiffForm(m, t, Field("int", MSG_NUM_MESS_SIZE, 0),
                       add_string(a.id, MSG_ID_SIZE), add_string(a.text, MSG_MESS_SIZE))
<1> DEFINE n == Field("int", MSG_NUM_MESS_SIZE, 0)
           x == add_string(a.id, MSG_ID_SIZE)
           y == add_string(a.text, MSG_MESS_SIZE)
<1>1. MSG_ID_SIZE \in Nat /\ MSG_MESS_SIZE \in Nat
  BY MessageAssumption
<1>2. m = Assemble(t, <<n, x, y>>)
  BY ZeroField DEF create_message
<1>3. /\ x \in Fields /\ x.width = MSG_ID_SIZE
      /\ y \in Fields /\ y.width = MSG_MESS_SIZE
  BY <1>1, TextField
<1>4. n \in Fields /\ n.width = MSG_NUM_MESS_SIZE
  <2>1. 0 \in Values /\ "int" \in Kinds /\ MSG_NUM_MESS_SIZE \in Nat
    BY ValueTypes, 0 \in Int DEF MSG_NUM_MESS_SIZE, Kinds
  <2>2. n \in Fields
    BY <2>1, FieldType
  <2>3. n.width = MSG_NUM_MESS_SIZE
    BY DEF Field
  <2> QED
    BY <2>2, <2>3
<1> HIDE DEF n, x, y
<1>5. <<n, x, y>> \in Seq(Fields)
  BY <1>3, <1>4
<1>6. DiffForm(m, t, n, x, y)
  BY <1>2, <1>3, <1>4, DiffPlaces
<1>7. m \in Seq(Fields) /\ m # None
  <2>1. t \in MessageTypes
    BY DEF MessageTypes
  <2> QED
    BY <1>2, <1>5, <2>1, Assembled, Zenon
<1> QED
  BY <1>6, <1>7 DEF n, x, y

-----------------------------------------------------------------------------
(* A post, as its readers have it.                                         *)

\* A streamer has of a MESS the name and the text up to their fillers, and
\* the manager the fields themselves.
LEMMA MessShown ==
    ASSUME NEW i \in Line, NEW t \in Line, NEW m,
           MessForm(m, "MESS", add_string(i, MSG_ID_SIZE), add_string(t, MSG_MESS_SIZE))
    PROVE  /\ m[1].val = "MESS"
           /\ Kept(getID(m), i, MSG_ID_SIZE, {Filler})
           /\ Kept(getMsg(m), t, MSG_MESS_SIZE, {Filler})
           /\ Parse(m) = [id |-> add_string(i, MSG_ID_SIZE).val, text |-> add_string(t, MSG_MESS_SIZE).val]
           /\ LineOf(m) = PostLine(add_string(i, MSG_ID_SIZE).val, add_string(t, MSG_MESS_SIZE).val)
<1> DEFINE x == add_string(i, MSG_ID_SIZE)
           y == add_string(t, MSG_MESS_SIZE)
<1>1. MSG_ID_SIZE \in Nat /\ MSG_MESS_SIZE \in Nat
  BY MessageAssumption
<1>2. x.width = MSG_ID_SIZE /\ y.width = MSG_MESS_SIZE
  BY <1>1, TextField
<1>3. /\ x.val \in Line /\ Len(x.val) = MSG_ID_SIZE
      /\ y.val \in Line /\ Len(y.val) = MSG_MESS_SIZE
  BY <1>1, PaddedText
<1>4. /\ m[1].val = "MESS"
      /\ Extract(m, 5, MSG_ID_SIZE) = x.val
      /\ Extract(m, 6 + MSG_ID_SIZE, MSG_MESS_SIZE) = y.val
  BY <1>2, MessRead
<1>5. \A r : /\ Kept(r, x.val, MSG_ID_SIZE, {Filler}) <=> Kept(r, i, MSG_ID_SIZE, {Filler})
             /\ Kept(r, y.val, MSG_MESS_SIZE, {Filler}) <=> Kept(r, t, MSG_MESS_SIZE, {Filler})
  BY <1>1, PaddedKeeps
<1> HIDE DEF x, y
<1>6. /\ MSG_TYPE_SIZE = 4 /\ MSG_TYPE_SIZE + 1 = 5 /\ IdAt("MESS") = 5
      /\ MSG_TYPE_SIZE + 2 + MSG_ID_SIZE = 6 + MSG_ID_SIZE
      /\ MSG_TYPE_SIZE + 1 + MSG_ID_SIZE + 1 = 6 + MSG_ID_SIZE
      /\ 5 + MSG_ID_SIZE + 1 = 6 + MSG_ID_SIZE
  BY <1>1 DEF MSG_TYPE_SIZE, IdAt
<1>7. getID(m) = removeDefChar(x.val) /\ getMsg(m) = removeDefChar(y.val)
  BY <1>4, <1>6 DEF getID, getMsg
<1>8. Kept(getID(m), i, MSG_ID_SIZE, {Filler})
  <2>1. Kept(removeDefChar(x.val), x.val, MSG_ID_SIZE, {Filler})
    BY <1>1, <1>3, DefCharRemoved
  <2> QED
    BY <1>5, <1>7, <2>1
<1>9. Kept(getMsg(m), t, MSG_MESS_SIZE, {Filler})
  <2>1. Kept(removeDefChar(y.val), y.val, MSG_MESS_SIZE, {Filler})
    BY <1>1, <1>3, DefCharRemoved
  <2> QED
    BY <1>5, <1>7, <2>1
<1>10. Parse(m) = [id |-> x.val, text |-> y.val] /\ LineOf(m) = PostLine(x.val, y.val)
  BY <1>4, <1>6 DEF Parse, LineOf
<1> QED
  BY <1>4, <1>8, <1>9, <1>10 DEF x, y

\* Who receives a DIFF or an OLDM has the name and the text up to their
\* fillers, and the number.
LEMMA DiffShown ==
    ASSUME NEW i \in Line, NEW t \in Line, NEW m, NEW type \in {"DIFF", "OLDM"},
           DiffForm(m, type, Field("int", MSG_NUM_MESS_SIZE, 0),
                    add_string(i, MSG_ID_SIZE), add_string(t, MSG_MESS_SIZE))
    PROVE  /\ m[1].val = type /\ getNumMsg(m) = 0
           /\ Kept(getID(m), i, MSG_ID_SIZE, {Filler})
           /\ Kept(getMsg(m), t, MSG_MESS_SIZE, {Filler})
<1> DEFINE n == Field("int", MSG_NUM_MESS_SIZE, 0)
           x == add_string(i, MSG_ID_SIZE)
           y == add_string(t, MSG_MESS_SIZE)
<1>1. MSG_ID_SIZE \in Nat /\ MSG_MESS_SIZE \in Nat
  BY MessageAssumption
<1>2. n.width = MSG_NUM_MESS_SIZE /\ x.width = MSG_ID_SIZE /\ y.width = MSG_MESS_SIZE /\ n.val = 0
  BY <1>1, TextField DEF Field
<1>3. /\ x.val \in Line /\ Len(x.val) = MSG_ID_SIZE
      /\ y.val \in Line /\ Len(y.val) = MSG_MESS_SIZE
  BY <1>1, PaddedText
<1>4. /\ m[1].val = type
      /\ Extract(m, 5, MSG_NUM_MESS_SIZE) = 0
      /\ Extract(m, 10, MSG_ID_SIZE) = x.val
      /\ Extract(m, 11 + MSG_ID_SIZE, MSG_MESS_SIZE) = y.val
  BY <1>2, DiffRead
<1>5. \A r : /\ Kept(r, x.val, MSG_ID_SIZE, {Filler}) <=> Kept(r, i, MSG_ID_SIZE, {Filler})
             /\ Kept(r, y.val, MSG_MESS_SIZE, {Filler}) <=> Kept(r, t, MSG_MESS_SIZE, {Filler})
  BY <1>1, PaddedKeeps
<1> HIDE DEF n, x, y
<1>6. /\ MSG_TYPE_SIZE + 1 = 5 /\ IdAt(type) = 10
      /\ 10 + MSG_ID_SIZE + 1 = 11 + MSG_ID_SIZE
  BY <1>1 DEF MSG_TYPE_SIZE, MSG_NUM_MESS_SIZE, IdAt
<1>7. getID(m) = removeDefChar(x.val) /\ getMsg(m) = removeDefChar(y.val) /\ getNumMsg(m) = 0
  BY <1>4, <1>6 DEF getID, getMsg, getNumMsg
<1>8. Kept(getID(m), i, MSG_ID_SIZE, {Filler})
  <2>1. Kept(removeDefChar(x.val), x.val, MSG_ID_SIZE, {Filler})
    BY <1>1, <1>3, DefCharRemoved
  <2> QED
    BY <1>5, <1>7, <2>1
<1>9. Kept(getMsg(m), t, MSG_MESS_SIZE, {Filler})
  <2>1. Kept(removeDefChar(y.val), y.val, MSG_MESS_SIZE, {Filler})
    BY <1>1, <1>3, DefCharRemoved
  <2> QED
    BY <1>5, <1>7, <2>1
<1> QED
  BY <1>4, <1>7, <1>8, <1>9

\* The line of a post ends its name at the first blank.
LEMMA LineSplit ==
    ASSUME NEW a \in Line, NEW b \in Line, NEW line, line = PostLine(a, b)
    PROVE  LET f == First(line, {Space})
               name == Before(line, {Space})
               text == SubSeq(line, f + 1, Len(line))
           IN  /\ line \in Line /\ f \in 1..Len(line)
               /\ name \in Line /\ text \in Line /\ Kept(name, a, Len(a), {Space})
               /\ Without(a, {Space}) => name = a /\ text = b /\ (IsBlank(line) <=> a = << >> /\ IsBlank(b))
<1> DEFINE f == First(line, {Space})
           name == Before(line, {Space})
           text == SubSeq(line, f + 1, Len(line))
           n == Len(a)
<1>1. n \in Nat /\ Len(b) \in Nat /\ DOMAIN a = 1..n /\ DOMAIN b = 1..Len(b)
  BY DEF Line
<1>2. /\ line \in Line /\ Len(line) = n + 1 + Len(b) /\ DOMAIN line = 1..Len(line)
      /\ \A j \in 1..n : line[j] = a[j]
      /\ line[n + 1] = Space
      /\ \A j \in 1..Len(b) : line[n + 1 + j] = b[j]
  <2>1. Space \in Chars
    BY DEF Chars
  <2> HIDE DEF n
  <2>2. <<Space>> \in Seq(Chars) /\ a \in Seq(Chars) /\ b \in Seq(Chars)
    BY <2>1 DEF Line
  <2>3. line = (a \o <<Space>>) \o b
    BY DEF PostLine
  <2> QED
    BY <1>1, <2>2, <2>3 DEF Line, n
<1>3. /\ f \in 1..(Len(line) + 1)
      /\ f <= Len(line) => line[f] \in {Space}
      /\ \A j \in 1..Len(line) : j < f => line[j] \notin {Space}
  BY <1>2, FirstFacts
<1>4. /\ name \in Line /\ Len(name) = f - 1
      /\ \A j \in 1..Len(name) : name[j] = line[j] /\ name[j] \notin {Space}
  BY <1>2, BeforeFirst
<1> HIDE DEF f, n
<1>5. f <= n + 1
  <2> SUFFICES ASSUME n + 1 < f PROVE FALSE
    BY <1>1, <1>2, <1>3
  <2>1. n + 1 \in 1..Len(line)
    BY <1>1, <1>2
  <2> QED
    BY <1>2, <1>3, <2>1
<1>6. f \in 1..Len(line)
  BY <1>1, <1>2, <1>3, <1>5
<1>7. text \in Line /\ Len(text) = Len(line) - f /\ \A j \in 1..(Len(line) - f) : text[j] = line[f + j]
  <2>1. f + 1 \in 1..(Len(line) + 1) /\ Len(line) \in Nat
    BY <1>1, <1>2, <1>6
  <2>2. line \in Seq(Chars) /\ f \in Int
    BY <1>2, <1>6, <2>1 DEF Line
  <2> DEFINE q == line
             g == f + 1
  <2>3. g \in 1..(Len(q) + 1) /\ q \in Seq(Chars) /\ g \in Int
    BY <2>1, <2>2
  <2> HIDE DEF q, g
  <2>4. /\ SubSeq(q, g, Len(q)) \in Seq(Chars)
        /\ Len(SubSeq(q, g, Len(q))) = Len(q) - g + 1
        /\ \A j \in 1..(Len(q) - g + 1) : SubSeq(q, g, Len(q))[j] = q[g + j - 1]
    BY ONLY <2>3
  <2>5. /\ text \in Line /\ Len(text) = Len(line) - g + 1
        /\ \A j \in 1..(Len(line) - g + 1) : text[j] = line[g + j - 1]
    BY <2>4 DEF q, g, Line
  <2>6. Len(line) - g + 1 = Len(line) - f
    BY <2>1, <2>2 DEF g
  <2>7. ASSUME NEW j \in 1..(Len(line) - f) PROVE g + j - 1 = f + j
    BY <2>2 DEF g
  <2> HIDE DEF text, g
  <2>8. ASSUME NEW j \in 1..(Len(line) - f) PROVE text[j] = line[f + j]
    <3>1. text[j] = line[g + j - 1]
      BY <2>5, <2>6
    <3> QED
      BY <2>7, <3>1
  <2> QED
    BY <2>5, <2>6, <2>8
<1> HIDE DEF name, text
<1>8. Kept(name, a, Len(a), {Space})
  <2>1. Len(name) \in Nat /\ Len(name) <= n
    BY <1>1, <1>3, <1>4, <1>5
  <2>2. \A j \in 1..Len(name) : name[j] = a[j] /\ name[j] \notin {Space}
    BY <1>1, <1>2, <1>4, <2>1
  <2>3. Len(name) < n => a[Len(name) + 1] \in {Space}
    <3> SUFFICES ASSUME Len(name) < n PROVE a[Len(name) + 1] \in {Space}
      OBVIOUS
    <3>1. Len(name) + 1 = f /\ f \in 1..n
      BY <1>1, <1>3, <1>4, <2>1
    <3> QED
      BY <1>2, <1>3, <1>6, <3>1
  <2> QED
    BY <1>4, <2>1, <2>2, <2>3 DEF Kept, n
<1>9. ASSUME Without(a, {Space}) PROVE name = a /\ text = b /\ (IsBlank(line) <=> a = << >> /\ IsBlank(b))
  <2>1. f = n + 1
    <3> SUFFICES ASSUME f < n + 1 PROVE FALSE
      BY <1>1, <1>3, <1>5
    <3>1. f \in 1..n
      BY <1>1, <1>3
    <3> QED
      BY <1>1, <1>2, <1>3, <1>6, <1>9, <3>1 DEF Without
  <2>2. name = a
    <3>1. Len(name) = n
      BY <1>1, <1>4, <2>1
    <3>2. \A j \in 1..n : name[j] = a[j]
      BY <1>2, <1>4, <3>1
    <3> QED
      BY <1>4, <3>1, <3>2, SameLine DEF n
  <2>3. text = b
    <3>1. Len(text) = Len(b)
      BY <1>1, <1>2, <1>7, <2>1
    <3>2. \A j \in 1..Len(b) : text[j] = b[j]
      BY <1>1, <1>2, <1>7, <2>1
    <3> QED
      BY <1>7, <3>1, <3>2, SameLine
  <2>4. ASSUME IsBlank(line) PROVE a = << >> /\ IsBlank(b)
    <3>1. n = 0
      <4> SUFFICES ASSUME n # 0 PROVE FALSE
        OBVIOUS
      <4>1. 1 \in 1..n /\ 1 \in 1..Len(line)
        BY <1>1, <1>2
      <4>2. line[1] = Space /\ a[1] \notin {Space}
        BY <1>1, <1>2, <1>9, <2>4, <4>1 DEF IsBlank, Without
      <4> QED
        BY <1>2, <4>1, <4>2
    <3>2. a = << >>
      BY <3>1 DEF Line, n
    <3>3. \A j \in 1..Len(b) : n + 1 + j \in 1..Len(line)
      BY <1>1, <1>2
    <3> QED
      BY <1>1, <1>2, <2>4, <3>2, <3>3 DEF IsBlank
  <2>5. ASSUME a = << >>, IsBlank(b) PROVE IsBlank(line)
    <3>1. n = 0
      BY <2>5 DEF n
    <3>2. ASSUME NEW j \in 1..Len(line) PROVE line[j] = Space
      <4>1. CASE j = 1
        BY <1>2, <3>1, <4>1
      <4>2. CASE j # 1
        <5>1. j - 1 \in 1..Len(b) /\ n + 1 + (j - 1) = j
          BY <1>1, <1>2, <3>1, <4>2
        <5> QED
          BY <1>1, <1>2, <2>5, <5>1 DEF IsBlank
      <4> QED
        BY <4>1, <4>2
    <3> QED
      BY <1>2, <3>2 DEF IsBlank
  <2> QED
    BY <2>2, <2>3, <2>4, <2>5
<1> QED
  BY <1>2, <1>4, <1>6, <1>7, <1>8, <1>9 DEF name, text, f

-----------------------------------------------------------------------------
(* A post goes through lines and fields.                                   *)

\* A text put in its field again is the same.
LEMMA PaddedTwice ==
    ASSUME NEW s \in Line, NEW w \in Nat, NEW p, p = add_string(s, w).val
    PROVE  add_string(p, w) = add_string(s, w)
<1>1. /\ Len(p) = w
      /\ \A i \in 1..w : p[i] = IF i <= Len(s) THEN s[i] ELSE Filler
  BY PaddedText
<1>2. \A i \in 1..w : (IF i <= Len(p) THEN p[i] ELSE Filler) = (IF i <= Len(s) THEN s[i] ELSE Filler)
  BY <1>1
<1>3. [i \in 1..w |-> IF i <= Len(p) THEN p[i] ELSE Filler] = [i \in 1..w |-> IF i <= Len(s) THEN s[i] ELSE Filler]
  BY <1>2
<1> QED
  BY <1>3 DEF add_string, Field

\* The readers of the name i and the text t have of them what they would have
\* of the name a and the text b: all of the name up to a blank, and the text
\* when the name has no blank.
Carries(i, t, a, b) ==
    /\ \A r : Kept(r, i, MSG_ID_SIZE, {Space, Filler}) <=> Kept(r, a, MSG_ID_SIZE, {Space, Filler})
    /\ Without(a, {Space}) =>
           /\ Without(i, {Space})
           /\ \A r : Kept(r, t, MSG_MESS_SIZE, {Filler}) <=> Kept(r, b, MSG_MESS_SIZE, {Filler})

\* One conversion after another.
LEMMA CarriesOn ==
    ASSUME NEW i, NEW t, NEW j, NEW u, NEW a, NEW b, Carries(i, t, j, u), Carries(j, u, a, b)
    PROVE  Carries(i, t, a, b)
BY Zenon DEF Carries

\* Fields carry what is put in them.
LEMMA FieldsCarry ==
    ASSUME NEW i \in Line, NEW t \in Line
    PROVE  Carries(add_string(i, MSG_ID_SIZE).val, add_string(t, MSG_MESS_SIZE).val, i, t)
<1> DEFINE x == add_string(i, MSG_ID_SIZE).val
           y == add_string(t, MSG_MESS_SIZE).val
           C == {Space, Filler}
           F == {Filler}
<1>1. MSG_ID_SIZE \in Nat /\ MSG_MESS_SIZE \in Nat /\ Filler \in C /\ Filler \in F
  BY MessageAssumption
<1> HIDE DEF C, F
<1>2. \A r : Kept(r, x, MSG_ID_SIZE, C) <=> Kept(r, i, MSG_ID_SIZE, C)
  BY <1>1, PaddedKeeps
<1>3. \A r : Kept(r, y, MSG_MESS_SIZE, F) <=> Kept(r, t, MSG_MESS_SIZE, F)
  BY <1>1, PaddedKeeps
<1>4. ASSUME Without(i, {Space}) PROVE Without(x, {Space})
  <2>1. /\ DOMAIN x = 1..MSG_ID_SIZE
        /\ \A j \in 1..MSG_ID_SIZE : x[j] = IF j <= Len(i) THEN i[j] ELSE Filler
    BY <1>1, PaddedText
  <2>2. Filler # Space
    BY Zenon DEF Filler, Space
  <2>3. \A j \in 1..MSG_ID_SIZE : j <= Len(i) => j \in DOMAIN i
    BY <1>1 DEF Line
  <2> HIDE DEF x
  <2> QED
    BY <1>4, <2>1, <2>2, <2>3 DEF Without
<1> QED
  BY <1>2, <1>3, <1>4, Zenon DEF Carries, x, y, C, F

\* A line carries its name, and its text when the name has no blank.
LEMMA LineCarries ==
    ASSUME NEW a \in Line, NEW b \in Line, NEW i \in Line, NEW t, Kept(i, a, Len(a), {Space}),
           Without(a, {Space}) => i = a /\ t = b
    PROVE  Carries(i, t, a, b) /\ Without(i, {Space})
<1>1. MSG_ID_SIZE \in Nat
  BY MessageAssumption
<1>2. \A r : Kept(r, i, MSG_ID_SIZE, {Space, Filler}) <=> Kept(r, a, MSG_ID_SIZE, {Space, Filler})
  BY <1>1, NameKeeps
<1>3. Without(i, {Space})
  <2>1. DOMAIN i = 1..Len(i)
    BY DEF Line
  <2> QED
    BY <2>1, Zenon DEF Without, Kept
<1> QED
  BY <1>2, <1>3, Zenon DEF Carries

\* What createPost makes of a line: nothing, or the message of a name and a
\* text that the line carries.
LEMMA PostCreated ==
    ASSUME NEW type, NEW a \in Line, NEW b \in Line, NEW m,
           m = createPost(type, 0, PostLine(a, b))
    PROVE  /\ m # None =>
                \E i, t \in Line :
                    /\ m = create_message(type, [num |-> 0, id |-> i, text |-> t])
                    /\ Carries(i, t, a, b) /\ Without(i, {Space})
                    /\ Without(a, {Space}) => i = a /\ t = b
           /\ Without(a, {Space}) /\ Len(a) <= MSG_ID_SIZE =>
                m = IF a = << >> /\ IsBlank(b) THEN None
                    ELSE create_message(type, [num |-> 0, id |-> a, text |-> b])
<1> DEFINE line == PostLine(a, b)
           f == First(line, {Space})
           i == Before(line, {Space})
           t == SubSeq(line, f + 1, Len(line))
           made == create_message(type, [num |-> 0, id |-> i, text |-> t])
<1>1. /\ line \in Line /\ f \in 1..Len(line)
      /\ i \in Line /\ t \in Line /\ Kept(i, a, Len(a), {Space})
      /\ Without(a, {Space}) => i = a /\ t = b /\ (IsBlank(line) <=> a = << >> /\ IsBlank(b))
  BY LineSplit, Zenon
<1>2. m = IF f > Len(line) \/ Len(i) > MSG_ID_SIZE \/ IsBlank(line) THEN None ELSE made
  BY Zenon DEF createPost
<1>3. Carries(i, t, a, b) /\ Without(i, {Space})
  BY <1>1, LineCarries
<1>4. ~(f > Len(line))
  <2>1. Len(line) \in Nat
    BY <1>1 DEF Line
  <2> HIDE DEF line, f
  <2> QED
    BY <1>1, <2>1
<1>5. m # None => m = made
  BY <1>2
<1>6. ASSUME Without(a, {Space}), Len(a) <= MSG_ID_SIZE
      PROVE  m = IF a = << >> /\ IsBlank(b) THEN None
                 ELSE create_message(type, [num |-> 0, id |-> a, text |-> b])
  <2>1. i = a /\ t = b /\ (IsBlank(line) <=> a = << >> /\ IsBlank(b))
    BY <1>1, <1>6
  <2>2. ~(Len(a) > MSG_ID_SIZE)
    BY <1>6, MessageAssumption DEF Line
  <2> HIDE DEF line, f, i, t
  <2> QED
    BY <1>2, <1>4, <2>1, <2>2, Zenon
<1>7. m # None =>
        /\ m = made /\ i \in Line /\ t \in Line
        /\ Carries(i, t, a, b) /\ Without(i, {Space})
        /\ Without(a, {Space}) => i = a /\ t = b
  BY <1>1, <1>3, <1>5
<1> HIDE DEF line, f, i, t
<1> QED
  BY <1>6, <1>7, Zenon

-----------------------------------------------------------------------------
(* The invariant.                                                          *)

\* The places of each kind of journey.
AtFits ==
    \/ /\ job.kind = "post"
       /\ at \in {"typed", "manager", "streamer", "posted", "mute", "diff", "oldm", "lost"}
    \/ job.kind = "file" /\ at \in {"typed", "posted", "mute", "diff", "oldm", "lost"}
    \/ job.kind = "regi" /\ at \in {"typed", "manager", "listed", "reached", "lost"}
    \/ job.kind = "last" /\ at \in {"typed", "streamer", "asked", "lost"}
    \/ job.kind = "main" /\ at \in {"typed", "started", "counted", "lost"}

\* A name that a message gives back as it is.
NameFits(s) == s \in Line /\ Len(s) <= MSG_ID_SIZE /\ Without(s, {Space, Filler})

\* A text that a message gives back as it is.
TextFits(s) == s \in Line /\ Len(s) <= MSG_MESS_SIZE /\ Without(s, {Filler})

\* What is kept of the job, in a name and a text.
KeptOfJob(name, text) ==
    /\ Kept(name, job.id, MSG_ID_SIZE, {Space, Filler})
    /\ Without(job.id, {Space}) => Kept(text, job.text, MSG_MESS_SIZE, {Filler})

\* On the way to the streamer a post is as it was typed; after, it fits its
\* fields, and is not lost for being blank once it was broadcast.
PostFits ==
    job.kind = "post" =>
        /\ at \in {"manager", "streamer"} => Typed # None /\ wire = Typed
        /\ at \in {"posted", "mute"} =>
               NameFits(out.id) /\ TextFits(out.text) /\ KeptOfJob(out.id, out.text)
        /\ at = "mute" => out.id = << >> /\ IsBlank(out.text)
        /\ at \in {"diff", "oldm"} => KeptOfJob(getID(wire), getMsg(wire))
        /\ at = "diff" => ~(getID(wire) = << >> /\ IsBlank(getMsg(wire)))

\* What was posted is a name and a text; what was broadcast fits its fields.
DiffFits ==
    /\ at \in {"posted", "mute"} => out.id \in Line /\ out.text \in Line
    /\ at = "diff" =>
           wire # None /\ getNumMsg(wire) = 0 /\ NameFits(getID(wire)) /\ TextFits(getMsg(wire))

\* The fields of a registration.
RegiFields ==
    << add_string(job.id, MSG_ID_SIZE),
       add_ip_addr(job.ip1), intToCharBytes(job.port1, MSG_PORT_SIZE),
       add_ip_addr(job.ip2), intToCharBytes(job.port2, MSG_PORT_SIZE) >>

\* The register has what the streamer sent, and its ports are not negative.
RegiFits ==
    job.kind = "regi" =>
        /\ at = "manager" => createRegi(job) # None /\ wire = createRegi(job)
        /\ at = "listed" => /\ createRegi(job) # None /\ wire = Assemble("ITEM", RegiFields)
                            /\ job.port1 >= 0 /\ job.port2 >= 0

\* The number a LAST asks for.
AskedFits(n) == (job.nb \in 0..999 => n = job.nb) /\ (n = None \/ n <= 999)

\* The streamer gets the number as it was asked.
LastFits ==
    job.kind = "last" =>
        /\ at = "streamer" => AskedFits(getNbMsg(wire))
        /\ at = "asked" => AskedFits(out)

\* The register of a manager that started has 1 to 99 slots.
MainFits == job.kind = "main" /\ at = "started" => out.capacity \in 1..99

\* What was built last is of the width of its type.
WireFits == wire = None \/ Length(wire) = msglen(wire[1].val)

\* The inductive invariant: what is typed, where, and what is left of it there.
JourneyInv ==
    /\ job \in Jobs /\ AtFits /\ WireFits
    /\ PostFits /\ DiffFits /\ RegiFits /\ LastFits /\ MainFits
    /\ ReachedAsRegistered /\ OptionsAsTyped /\ ListIsAnnounced

-----------------------------------------------------------------------------
(* The steps of a post.                                                    *)

\* What is typed is in one of the sets of the constants.
LEMMA JobTypes ==
    ASSUME job \in Jobs
    PROVE  /\ job.kind = "post" => job.id \in Line /\ job.text \in Line /\ job.client \in {"c", "java"}
           /\ job.kind = "file" => job.id \in Line /\ job.text \in Line
           /\ job.kind = "regi" => /\ job.id \in Line /\ job.port1 \in Int /\ job.port2 \in Int
                                   /\ job.ip1 \in Address /\ job.ip2 \in Address
           /\ job.kind = "last" => job.client \in {"c", "java"} /\ job.nb \in -(INT_MAX + 1)..INT_MAX
           /\ job.kind = "main" => job.delay \in Int \cup {None} /\ job.args \in Seq(Int \cup {None})
           /\ job.kind \in {"post", "file", "regi", "last", "main"}
<1>1. /\ Posts \subseteq [kind : {"post"}, client : {"c", "java"}, via : BOOLEAN, id : Line, text : Line]
      /\ FilePosts \subseteq [kind : {"file"}, id : Line, text : Line]
      /\ Registrations \subseteq [kind : {"regi"}, id : Line, port1 : Int, port2 : Int,
                                  ip1 : Address, ip2 : Address]
      /\ Asked \subseteq [kind : {"last"}, client : {"c", "java"}, nb : -(INT_MAX + 1)..INT_MAX]
      /\ Arguments \subseteq [kind : {"main"}, delay : Int \cup {None}, args : Seq(Int \cup {None})]
  BY JourneyAssumption
<1>2. CASE job \in Posts
  <2>1. job.kind = "post" /\ job.id \in Line /\ job.text \in Line /\ job.client \in {"c", "java"}
    BY <1>1, <1>2
  <2> QED
    BY <2>1
<1>3. CASE job \in FilePosts
  <2>1. job.kind = "file" /\ job.id \in Line /\ job.text \in Line
    BY <1>1, <1>3
  <2> QED
    BY <2>1
<1>4. CASE job \in Registrations
  <2>1. /\ job.kind = "regi" /\ job.id \in Line /\ job.port1 \in Int /\ job.port2 \in Int
        /\ job.ip1 \in Address /\ job.ip2 \in Address
    BY <1>1, <1>4
  <2> QED
    BY <2>1
<1>5. CASE job \in Asked
  <2>1. job.kind = "last" /\ job.client \in {"c", "java"} /\ job.nb \in -(INT_MAX + 1)..INT_MAX
    BY <1>1, <1>5
  <2> QED
    BY <2>1
<1>6. CASE job \in Arguments
  <2>1. job.kind = "main" /\ job.delay \in Int \cup {None} /\ job.args \in Seq(Int \cup {None})
    BY <1>1, <1>6
  <2> QED
    BY <2>1
<1> QED
  BY <1>2, <1>3, <1>4, <1>5, <1>6 DEF Jobs

\* What a client sends is a MESS that carries the name and the text typed.
LEMMA TypedIsMess ==
    ASSUME job \in Jobs, job.kind = "post", Typed # None
    PROVE  \E i, t \in Line :
               /\ Typed = create_message("MESS", [id |-> i, text |-> t])
               /\ Carries(i, t, job.id, job.text)
<1>1. job.id \in Line /\ job.text \in Line /\ job.client \in {"c", "java"}
  BY JobTypes
<1>2. CASE job.client = "c"
  <2>1. Typed = create_message("MESS", [id |-> job.id, text |-> job.text])
    BY <1>2 DEF Typed
  <2>2. Carries(job.id, job.text, job.id, job.text)
    BY Zenon DEF Carries
  <2> QED
    BY <1>1, <2>1, <2>2
<1>3. CASE job.client = "java"
  <2>1. Typed = createPost("MESS", 0, PostLine(job.id, job.text))
    BY <1>3 DEF Typed
  <2>2. PICK i \in Line, t \in Line :
            /\ Typed = create_message("MESS", [num |-> 0, id |-> i, text |-> t])
            /\ Carries(i, t, job.id, job.text)
    <3> DEFINE j == job.id
               k == job.text
    <3>1. j \in Line /\ k \in Line /\ Typed = createPost("MESS", 0, PostLine(j, k))
      BY <1>1, <2>1
    <3> HIDE DEF j, k
    <3>2. \E i, t \in Line :
              /\ Typed = create_message("MESS", [num |-> 0, id |-> i, text |-> t])
              /\ Carries(i, t, j, k)
      BY <3>1, PostCreated, Zenon
    <3> QED
      BY <3>2 DEF j, k
  <2>3. create_message("MESS", [num |-> 0, id |-> i, text |-> t])
          = create_message("MESS", [id |-> i, text |-> t])
    BY DEF create_message
  <2> QED
    BY <2>2, <2>3
<1> QED
  BY <1>1, <1>2, <1>3

\* The manager recognises what a client sends, and builds the same again.
LEMMA TypedIsRelayed ==
    ASSUME job \in Jobs, job.kind = "post", Typed # None
    PROVE  verify_msg(Typed) /\ create_message("MESS", Parse(Typed)) = Typed
<1>1. PICK i \in Line, t \in Line : Typed = create_message("MESS", [id |-> i, text |-> t])
  BY TypedIsMess
<1> DEFINE m == Typed
           x == add_string(i, MSG_ID_SIZE)
           y == add_string(t, MSG_MESS_SIZE)
           a == [id |-> i, text |-> t]
<1>2. m = Assemble("MESS", <<x, y>>)
  BY <1>1 DEF create_message
<1>3. MessForm(m, "MESS", x, y)
  <2>1. a.id = i /\ a.text = t /\ m = create_message("MESS", a)
    BY <1>1
  <2> HIDE DEF a, m
  <2> QED
    BY <2>1, MessMade
<1> HIDE DEF m
<1>4. verify_msg(m)
  BY <1>3, MessVerified
<1>5. Parse(m) = [id |-> x.val, text |-> y.val]
  BY <1>3, MessShown
<1>6. add_string(x.val, MSG_ID_SIZE) = x /\ add_string(y.val, MSG_MESS_SIZE) = y
  BY MessageAssumption, PaddedTwice
<1> HIDE DEF x, y
<1>7. create_message("MESS", Parse(m)) = Assemble("MESS", <<x, y>>)
  BY <1>5, <1>6 DEF create_message
<1> QED
  BY <1>2, <1>4, <1>7 DEF m

\* A name that no blank ends, and a text, as their readers have them.
LEMMA ShownFits ==
    ASSUME NEW i \in Line, NEW t \in Line, NEW a, NEW b, NEW name, NEW text,
           Without(i, {Space}), Carries(i, t, a, b),
           Kept(name, i, MSG_ID_SIZE, {Filler}), Kept(text, t, MSG_MESS_SIZE, {Filler})
    PROVE  /\ NameFits(name) /\ TextFits(text)
           /\ Kept(name, a, MSG_ID_SIZE, {Space, Filler})
           /\ Without(a, {Space}) => Kept(text, b, MSG_MESS_SIZE, {Filler})
<1>1. /\ name \in Line /\ Len(name) <= Len(i) /\ Len(name) <= MSG_ID_SIZE
      /\ \A j \in 1..Len(name) : name[j] = i[j] /\ name[j] \notin {Filler}
      /\ Len(name) < Len(i) /\ Len(name) < MSG_ID_SIZE => i[Len(name) + 1] \in {Filler}
  BY Zenon DEF Kept
<1>2. /\ text \in Line /\ Len(text) <= MSG_MESS_SIZE
      /\ \A j \in 1..Len(text) : text[j] \notin {Filler}
  BY Zenon DEF Kept
<1>3. /\ Len(name) \in Nat /\ Len(i) \in Nat
      /\ DOMAIN name = 1..Len(name) /\ DOMAIN text = 1..Len(text) /\ DOMAIN i = 1..Len(i)
  BY <1>1, <1>2 DEF Line
<1>4. \A j \in 1..Len(name) : name[j] \notin {Space, Filler}
  <2> SUFFICES ASSUME NEW j \in 1..Len(name) PROVE name[j] \notin {Space, Filler}
    OBVIOUS
  <2>1. j \in 1..Len(i)
    BY <1>1, <1>3
  <2>2. name[j] # Space
    BY <1>1, <1>3, <2>1 DEF Without
  <2> QED
    BY <1>1, <2>2
<1>5. NameFits(name)
  BY <1>1, <1>3, <1>4 DEF NameFits, Without
<1>6. TextFits(text)
  BY <1>2, <1>3 DEF TextFits, Without
<1>7. Kept(name, i, MSG_ID_SIZE, {Space, Filler})
  <2>1. Len(name) < Len(i) /\ Len(name) < MSG_ID_SIZE => i[Len(name) + 1] \in {Space, Filler}
    BY <1>1
  <2> QED
    BY <1>1, <1>4, <2>1 DEF Kept
<1> QED
  BY <1>5, <1>6, <1>7, Zenon DEF Carries

\* What the streamer keeps of a post is what the job says.
LEMMA AddedIsKept ==
    ASSUME job \in Jobs, job.kind = "post", Typed # None,
           NEW m, m = createPost("MESS", 0, LineOf(Typed)), m # None
    PROVE  /\ NameFits(getID(m)) /\ TextFits(getMsg(m))
           /\ KeptOfJob(getID(m), getMsg(m))
<1>1. PICK i \in Line, t \in Line :
          /\ Typed = create_message("MESS", [id |-> i, text |-> t])
          /\ Carries(i, t, job.id, job.text)
  BY TypedIsMess
<1> DEFINE sent == Typed
           a == [id |-> i, text |-> t]
           X == add_string(i, MSG_ID_SIZE).val
           Y == add_string(t, MSG_MESS_SIZE).val
<1>2. LineOf(sent) = PostLine(X, Y)
  <2>1. a.id = i /\ a.text = t /\ sent = create_message("MESS", a)
    BY <1>1
  <2> HIDE DEF a, sent
  <2>2. MessForm(sent, "MESS", add_string(i, MSG_ID_SIZE), add_string(t, MSG_MESS_SIZE))
    BY <2>1, MessMade
  <2> QED
    BY <2>2, MessShown
<1>3. X \in Line /\ Y \in Line
  BY MessageAssumption, PaddedText
<1>4. Carries(X, Y, i, t)
  BY FieldsCarry
<1> HIDE DEF X, Y
<1>5. m = createPost("MESS", 0, PostLine(X, Y))
  BY <1>2
<1>6. PICK j \in Line, u \in Line :
          /\ m = create_message("MESS", [num |-> 0, id |-> j, text |-> u])
          /\ Carries(j, u, X, Y) /\ Without(j, {Space})
  BY <1>3, <1>5, PostCreated, Zenon
<1>7. Kept(getID(m), j, MSG_ID_SIZE, {Filler}) /\ Kept(getMsg(m), u, MSG_MESS_SIZE, {Filler})
  <2> DEFINE c == [num |-> 0, id |-> j, text |-> u]
  <2>1. c.id = j /\ c.text = u /\ m = create_message("MESS", c)
    BY <1>6
  <2> HIDE DEF c
  <2>2. MessForm(m, "MESS", add_string(j, MSG_ID_SIZE), add_string(u, MSG_MESS_SIZE))
    BY <2>1, MessMade
  <2> QED
    BY <2>2, MessShown
<1>8. Carries(j, u, job.id, job.text)
  <2>1. Carries(X, Y, job.id, job.text)
    BY <1>1, <1>4, CarriesOn
  <2> QED
    BY <1>6, <2>1, CarriesOn
<1> QED
  BY <1>6, <1>7, <1>8, ShownFits, Zenon DEF KeptOfJob

\* A DIFF or an OLDM made of a line fits its fields.
LEMMA BroadcastFits ==
    ASSUME NEW type \in {"DIFF", "OLDM"}, NEW a \in Line, NEW b \in Line,
           NEW m, m = createPost(type, 0, PostLine(a, b)), m # None
    PROVE  /\ m[1].val = type /\ Length(m) = msglen(type)
           /\ getNumMsg(m) = 0 /\ NameFits(getID(m)) /\ TextFits(getMsg(m))
<1>1. PICK i \in Line, t \in Line :
          /\ m = create_message(type, [num |-> 0, id |-> i, text |-> t])
          /\ Carries(i, t, a, b) /\ Without(i, {Space})
  BY PostCreated, Zenon
<1> DEFINE c == [num |-> 0, id |-> i, text |-> t]
<1>2. c.num = 0 /\ c.id = i /\ c.text = t /\ m = create_message(type, c)
  BY <1>1
<1> HIDE DEF c
<1>3. DiffForm(m, type, Field("int", MSG_NUM_MESS_SIZE, 0),
               add_string(i, MSG_ID_SIZE), add_string(t, MSG_MESS_SIZE))
  BY <1>2, DiffMade
<1>4. /\ m[1].val = type /\ getNumMsg(m) = 0
      /\ Kept(getID(m), i, MSG_ID_SIZE, {Filler})
      /\ Kept(getMsg(m), t, MSG_MESS_SIZE, {Filler})
  BY <1>3, DiffShown
<1>5. NameFits(getID(m)) /\ TextFits(getMsg(m))
  BY <1>1, <1>4, ShownFits, Zenon
<1>6. Length(m) = msglen(type)
  <2>1. MSG_ID_SIZE \in Nat /\ MSG_MESS_SIZE \in Nat
    BY MessageAssumption
  <2>2. Length(m) = 13 + MSG_ID_SIZE + MSG_MESS_SIZE
    BY <1>3 DEF DiffForm
  <2>3. msglen(type) = 13 + MSG_ID_SIZE + MSG_MESS_SIZE
    BY <2>1 DEF msglen, MSG_TYPE_SIZE, MSG_END_SIZE, MSG_NUM_MESS_SIZE
  <2> QED
    BY <2>2, <2>3
<1> QED
  BY <1>4, <1>5, <1>6

\* A name and a text that fit are given back as they are, unless there is
\* nothing but blanks.
LEMMA BroadcastRepeats ==
    ASSUME NEW type \in {"DIFF", "OLDM"}, NEW a, NEW b, NameFits(a), TextFits(b),
           NEW m, m = createPost(type, 0, PostLine(a, b))
    PROVE  /\ m = None <=> a = << >> /\ IsBlank(b)
           /\ m # None => getID(m) = a /\ getMsg(m) = b
<1>1. /\ a \in Line /\ Len(a) <= MSG_ID_SIZE /\ Without(a, {Space}) /\ Without(a, {Filler})
      /\ b \in Line /\ Len(b) <= MSG_MESS_SIZE /\ Without(b, {Filler})
  BY Zenon DEF NameFits, TextFits, Without
<1> DEFINE c == [num |-> 0, id |-> a, text |-> b]
           made == create_message(type, c)
<1>2. m = IF a = << >> /\ IsBlank(b) THEN None ELSE made
  <2>1. a \in Line /\ b \in Line
    BY <1>1
  <2>2. Without(a, {Space}) /\ Len(a) <= MSG_ID_SIZE =>
          m = IF a = << >> /\ IsBlank(b) THEN None
              ELSE create_message(type, [num |-> 0, id |-> a, text |-> b])
    BY <2>1, PostCreated
  <2> QED
    BY <1>1, <2>2, Zenon
<1>3. c.num = 0 /\ c.id = a /\ c.text = b
  OBVIOUS
<1> HIDE DEF c
<1>4. /\ made # None
      /\ DiffForm(made, type, Field("int", MSG_NUM_MESS_SIZE, 0),
                  add_string(a, MSG_ID_SIZE), add_string(b, MSG_MESS_SIZE))
  BY <1>1, <1>3, DiffMade
<1> HIDE DEF made
<1>5. Kept(getID(made), a, MSG_ID_SIZE, {Filler}) /\ Kept(getMsg(made), b, MSG_MESS_SIZE, {Filler})
  BY <1>1, <1>4, DiffShown
<1>6. MSG_ID_SIZE \in Nat /\ MSG_MESS_SIZE \in Nat
  BY MessageAssumption
<1>7. getID(made) = a
  BY <1>1, <1>5, <1>6, CleanIsKept, KeptUnique
<1>8. getMsg(made) = b
  BY <1>1, <1>5, <1>6, CleanIsKept, KeptUnique
<1> QED
  BY <1>2, <1>4, <1>7, <1>8

-----------------------------------------------------------------------------
(* The steps of a registration.                                            *)

\* A port in its field: a number, unless it is negative.
LEMMA PortField ==
    ASSUME NEW n \in Int, NEW p, p = intToCharBytes(n, MSG_PORT_SIZE)
    PROVE  /\ p \in Fields /\ p.width = MSG_PORT_SIZE
           /\ n >= 0 => p.kind = "int" /\ p.val = n
           /\ p.kind = "int" => n >= 0
<1>1. MSG_PORT_SIZE \in Nat /\ n \in Values /\ None \in Values
  BY ValueTypes, Zenon DEF MSG_PORT_SIZE, Values
<1>2. "int" \in Kinds /\ "signed" \in Kinds /\ "junk" \in Kinds
  BY DEF Kinds
<1>3. /\ Field("int", MSG_PORT_SIZE, n) \in Fields
      /\ Field("signed", MSG_PORT_SIZE, n) \in Fields
      /\ Field("junk", MSG_PORT_SIZE, None) \in Fields
  BY <1>1, <1>2, FieldType
<1>4. CASE n >= 0
  <2>1. p = Field("int", MSG_PORT_SIZE, n)
    BY <1>4 DEF intToCharBytes
  <2> QED
    BY <1>3, <1>4, <2>1 DEF Field
<1>5. CASE ~(n >= 0)
  <2>1. p = Field("signed", MSG_PORT_SIZE, n) \/ p = Field("junk", MSG_PORT_SIZE, None)
    BY <1>5, Zenon DEF intToCharBytes
  <2> QED
    BY <1>3, <1>5, <2>1 DEF Field
<1> QED
  BY <1>4, <1>5

\* The fields of a registration are fields, of their widths.
LEMMA RegiFieldTypes ==
    ASSUME job \in Jobs, job.kind = "regi", NEW t \in {"REGI", "ITEM"}
    PROVE  /\ RegiFields \in Seq(Fields)
           /\ AddressForm(Assemble(t, RegiFields), t, add_string(job.id, MSG_ID_SIZE),
                          add_ip_addr(job.ip1), intToCharBytes(job.port1, MSG_PORT_SIZE),
                          add_ip_addr(job.ip2), intToCharBytes(job.port2, MSG_PORT_SIZE))
<1> DEFINE x == add_string(job.id, MSG_ID_SIZE)
           i1 == add_ip_addr(job.ip1)
           i2 == add_ip_addr(job.ip2)
           p1 == intToCharBytes(job.port1, MSG_PORT_SIZE)
           p2 == intToCharBytes(job.port2, MSG_PORT_SIZE)
<1>1. /\ job.id \in Line /\ job.port1 \in Int /\ job.port2 \in Int
      /\ job.ip1 \in Address /\ job.ip2 \in Address
  BY JobTypes
<1>2. x \in Fields /\ x.width = MSG_ID_SIZE
  BY <1>1, MessageAssumption, TextField
<1>3. p1 \in Fields /\ p1.width = MSG_PORT_SIZE /\ p2 \in Fields /\ p2.width = MSG_PORT_SIZE
  BY <1>1, PortField
<1>4. i1 \in Fields /\ i1.width = MSG_IP_SIZE /\ i2 \in Fields /\ i2.width = MSG_IP_SIZE
  <2>1. "ip" \in Kinds /\ MSG_IP_SIZE \in Nat
    BY DEF Kinds, MSG_IP_SIZE
  <2>2. job.ip1 \in Values /\ job.ip2 \in Values
    BY <1>1, ValueTypes
  <2>3. Field("ip", MSG_IP_SIZE, job.ip1) \in Fields /\ Field("ip", MSG_IP_SIZE, job.ip2) \in Fields
    BY <2>1, <2>2, FieldType
  <2>4. \A v : Field("ip", MSG_IP_SIZE, v).width = MSG_IP_SIZE
    BY DEF Field
  <2> QED
    BY <2>3, <2>4 DEF add_ip_addr
<1>5. RegiFields = <<x, i1, p1, i2, p2>>
  BY DEF RegiFields
<1> HIDE DEF x, i1, p1, i2, p2
<1>6. RegiFields \in Seq(Fields)
  BY <1>2, <1>3, <1>4, <1>5
<1>7. AddressForm(Assemble(t, RegiFields), t, x, i1, p1, i2, p2)
  BY <1>2, <1>3, <1>4, <1>5, AddressPlaces
<1> QED
  BY <1>6, <1>7 DEF x, i1, p1, i2, p2

\* Where the ports of a REGI or an ITEM are, and how long it is.
LEMMA PortPlaces ==
    ASSUME NEW m, NEW t \in {"REGI", "ITEM"}, NEW x, NEW i1, NEW p1, NEW i2, NEW p2,
           AddressForm(m, t, x, i1, p1, i2, p2)
    PROVE  /\ \A j \in DOMAIN m : Start(m, j) = 22 + MSG_ID_SIZE => j = 7
           /\ \A j \in DOMAIN m : Start(m, j) = 43 + MSG_ID_SIZE => j = 11
           /\ m[1].val = t /\ Length(m) = msglen(t)
<1>1. MSG_ID_SIZE \in Nat \ {0}
  BY MessageAssumption
<1>2. \A j \in DOMAIN m : Start(m, j) = 22 + MSG_ID_SIZE => j = 7
  BY <1>1 DEF AddressForm
<1>3. \A j \in DOMAIN m : Start(m, j) = 43 + MSG_ID_SIZE => j = 11
  BY <1>1 DEF AddressForm
<1>4. m[1].val = t
  BY DEF AddressForm, TypeField, Field
<1>5. Length(m) = msglen(t)
  <2>1. msglen(t) = 49 + MSG_ID_SIZE
    BY <1>1 DEF msglen, MSG_TYPE_SIZE, MSG_END_SIZE, MSG_IP_SIZE, MSG_PORT_SIZE
  <2>2. Length(m) = 49 + MSG_ID_SIZE
    BY DEF AddressForm
  <2> QED
    BY <2>1, <2>2
<1> QED
  BY <1>2, <1>3, <1>4, <1>5

\* A REGI is recognised when its ports are not negative, and then only.
LEMMA RegiIsRecognised ==
    ASSUME job \in Jobs, job.kind = "regi", NEW m, m = Assemble("REGI", RegiFields)
    PROVE  /\ m # None /\ m[1].val = "REGI" /\ Length(m) = msglen("REGI")
           /\ verify_msg(m) <=> job.port1 >= 0 /\ job.port2 >= 0
<1> DEFINE x == add_string(job.id, MSG_ID_SIZE)
           i1 == add_ip_addr(job.ip1)
           i2 == add_ip_addr(job.ip2)
           p1 == intToCharBytes(job.port1, MSG_PORT_SIZE)
           p2 == intToCharBytes(job.port2, MSG_PORT_SIZE)
<1>1. job.port1 \in Int /\ job.port2 \in Int
  BY JobTypes
<1>2. /\ p1.width = MSG_PORT_SIZE /\ p2.width = MSG_PORT_SIZE
      /\ p1.kind = "int" <=> job.port1 >= 0
      /\ p2.kind = "int" <=> job.port2 >= 0
  BY <1>1, PortField
<1>3. /\ i1.kind = "ip" /\ i1.width = MSG_IP_SIZE
      /\ i2.kind = "ip" /\ i2.width = MSG_IP_SIZE
  BY DEF add_ip_addr, Field
<1>4. AddressForm(m, "REGI", x, i1, p1, i2, p2) /\ RegiFields \in Seq(Fields)
  BY RegiFieldTypes
<1>5. m # None
  <2>1. "REGI" \in MessageTypes
    BY DEF MessageTypes
  <2> QED
    BY <1>4, <2>1, Assembled
<1> HIDE DEF x, i1, i2, p1, p2
<1>6. MSG_ID_SIZE \in Nat
  BY MessageAssumption
<1>7. m[1].val = "REGI" /\ Length(m) = msglen("REGI")
  BY <1>4, PortPlaces
<1>9. ASSUME job.port1 >= 0, job.port2 >= 0 PROVE verify_msg(m)
  BY <1>2, <1>3, <1>4, <1>9, RegiVerified
<1>10. ASSUME verify_msg(m) PROVE job.port1 >= 0 /\ job.port2 >= 0
  <2> DEFINE T == MSG_TYPE_SIZE
             ip1 == T + 2 + MSG_ID_SIZE
             port1 == ip1 + MSG_IP_SIZE + 1
             ip2 == port1 + MSG_PORT_SIZE + 1
             port2 == ip2 + MSG_IP_SIZE + 1
  <2>1. verify_int(m, port1, MSG_PORT_SIZE) /\ verify_int(m, port2, MSG_PORT_SIZE)
    BY <1>7, <1>10 DEF verify_msg
  <2>2. port1 = 22 + MSG_ID_SIZE /\ port2 = 43 + MSG_ID_SIZE
    BY <1>6 DEF MSG_TYPE_SIZE, MSG_IP_SIZE, MSG_PORT_SIZE
  <2> HIDE DEF T, ip1, port1, ip2, port2
  <2>3. \A i \in DOMAIN m : Start(m, i) = 22 + MSG_ID_SIZE => i = 7
    BY <1>4, PortPlaces
  <2>4. \A i \in DOMAIN m : Start(m, i) = 43 + MSG_ID_SIZE => i = 11
    BY <1>4, PortPlaces
  <2>5. m[7] = p1 /\ m[11] = p2
    BY <1>4 DEF AddressForm
  <2>6. p1.kind = "int"
    BY <2>1, <2>2, <2>3, <2>5 DEF verify_int, IsAt
  <2>7. p2.kind = "int"
    BY <2>1, <2>2, <2>4, <2>5 DEF verify_int, IsAt
  <2> QED
    BY <1>2, <2>6, <2>7
<1> QED
  BY <1>5, <1>7, <1>9, <1>10

\* register_broadcaster makes an ITEM of it, whose address and port of TCP
\* are those of the streamer.
LEMMA ItemIsRegi ==
    ASSUME job \in Jobs, job.kind = "regi", createRegi(job) # None,
           job.port1 >= 0, job.port2 >= 0,
           NEW m, m = [createRegi(job) EXCEPT ![1] = TypeField("ITEM")]
    PROVE  /\ m = Assemble("ITEM", RegiFields) /\ m # None
           /\ m[1].val = "ITEM" /\ Length(m) = msglen("ITEM")
           /\ TcpAddress(m) = job.ip2 /\ set_uint_from_string(TcpPort(m)) = job.port2
<1>1. createRegi(job) = Assemble("REGI", RegiFields)
  BY DEF createRegi, RegiFields
<1>2. RegiFields \in Seq(Fields)
  BY RegiFieldTypes
<1>3. m = Assemble("ITEM", RegiFields)
  <2> DEFINE n == 2 * Len(RegiFields) + 2
             r == Assemble("REGI", RegiFields)
             q == Assemble("ITEM", RegiFields)
  <2>1. n \in Nat /\ n >= 2
    BY <1>2
  <2>2. r = [i \in 1..n |-> r[i]] /\ q = [i \in 1..n |-> q[i]]
    BY DEF Assemble
  <2>3. \A i \in 1..n : i # 1 => r[i] = q[i]
    BY DEF Assemble
  <2>4. q[1] = TypeField("ITEM")
    BY <2>1 DEF Assemble
  <2> HIDE DEF n, r, q
  <2>5. m = [r EXCEPT ![1] = TypeField("ITEM")]
    BY <1>1 DEF r
  <2>6. m = q
    BY <2>1, <2>2, <2>3, <2>4, <2>5
  <2> QED
    BY <2>6 DEF q
<1> DEFINE x == add_string(job.id, MSG_ID_SIZE)
           i1 == add_ip_addr(job.ip1)
           i2 == add_ip_addr(job.ip2)
           p1 == intToCharBytes(job.port1, MSG_PORT_SIZE)
           p2 == intToCharBytes(job.port2, MSG_PORT_SIZE)
<1>4. AddressForm(m, "ITEM", x, i1, p1, i2, p2)
  BY <1>3, RegiFieldTypes
<1>5. job.port2 \in Int /\ job.port2 < 10 ^ MSG_PORT_SIZE
  <2>1. job.port2 \in Int
    BY JobTypes
  <2>2. FitsIn(job.port2, MSG_PORT_SIZE)
    BY Zenon DEF createRegi
  <2> QED
    BY <2>1, <2>2, Zenon DEF FitsIn
<1>6. /\ p2.width = MSG_PORT_SIZE /\ p2.val = job.port2
      /\ i2.width = MSG_IP_SIZE /\ i2.val = job.ip2
  BY <1>5, PortField DEF add_ip_addr, Field
<1>7. m # None
  <2>1. "ITEM" \in MessageTypes
    BY DEF MessageTypes
  <2> QED
    BY <1>2, <1>3, <2>1, Assembled
<1> HIDE DEF x, i1, i2, p1, p2
<1>8. m[1].val = "ITEM" /\ TcpAddress(m) = job.ip2 /\ TcpPort(m) = job.port2
  <2>1. m[1].val = "ITEM" /\ TcpAddress(m) = i2.val /\ TcpPort(m) = p2.val
    <3>1. i2.width = MSG_IP_SIZE /\ p2.width = MSG_PORT_SIZE
      BY <1>6
    <3> QED
      BY ONLY <1>4, <3>1, AddressRead, Zenon
  <2> QED
    BY <1>6, <2>1
<1>9. Length(m) = msglen("ITEM")
  BY <1>4, PortPlaces
<1>10. set_uint_from_string(job.port2) = job.port2
  <2> DEFINE limit == 10 ^ MSG_PORT_SIZE
  <2>1. limit <= USHRT_MAX /\ USHRT_MAX < INT_MAX /\ INT_MAX \in Nat /\ USHRT_MAX \in Nat
    BY MessageAssumption
  <2>2. limit \in Int
    BY PowersOfTen DEF MSG_PORT_SIZE
  <2> HIDE DEF limit
  <2>3. Abs(job.port2) <= INT_MAX
    BY <1>5, <2>1, <2>2 DEF Abs, limit
  <2> QED
    BY <1>5, <2>3, IntIsRead
<1> QED
  BY <1>3, <1>7, <1>8, <1>9, <1>10

\* An octet read by inet_aton is the one that was written, unless it starts
\* with a zero and is no octal digit.
LEMMA OctetRead ==
    ASSUME NEW n \in 0..255
    PROVE  ReadOctet(n) = n <=> n \notin 8..99
<1>1. None \notin Int
  BY MessageAssumption
<1>2. n \div 10 \in 0..25 /\ n % 10 \in 0..9 /\ n = 10 * (n \div 10) + (n % 10)
  OBVIOUS
<1> DEFINE q == n \div 10
           r == n % 10
<1>3. ReadOctet(n) = IF n >= 100 THEN n ELSE IF q > 7 \/ r > 7 THEN None ELSE 8 * q + r
  BY DEF ReadOctet
<1> HIDE DEF q, r
<1>4. q \in 0..25 /\ r \in 0..9 /\ n = 10 * q + r
  BY <1>2 DEF q, r
<1>5. CASE n >= 100
  BY <1>3, <1>5
<1>6. CASE n < 100 /\ (q > 7 \/ r > 7)
  <2>1. ReadOctet(n) = None
    BY <1>3, <1>6
  <2>2. n \in 8..99
    BY <1>4, <1>6
  <2> QED
    BY <1>1, <2>1, <2>2
<1>7. CASE n < 100 /\ ~(q > 7 \/ r > 7)
  <2>1. ReadOctet(n) = 8 * q + r
    BY <1>3, <1>7
  <2>2. 8 * q + r = n <=> q = 0
    BY <1>4
  <2>3. q = 0 <=> n \notin 8..99
    BY <1>4, <1>7
  <2> QED
    BY <2>1, <2>2, <2>3
<1> QED
  BY <1>5, <1>6, <1>7

\* An address read by inet_aton is the one written when all its octets are.
LEMMA AddressIsRead ==
    ASSUME NEW ip \in Address, inet_aton(ip) # None
    PROVE  inet_aton(ip) = ip <=> \A i \in 1..4 : ip[i] \notin 8..99
<1>1. DOMAIN ip = 1..4 /\ ip = [i \in 1..4 |-> ip[i]] /\ \A i \in 1..4 : ip[i] \in 0..255
  BY DEF Address
<1>2. inet_aton(ip) = [i \in 1..4 |-> ReadOctet(ip[i])]
  BY <1>1, Zenon DEF inet_aton
<1>3. inet_aton(ip) = ip <=> \A i \in 1..4 : ReadOctet(ip[i]) = ip[i]
  BY <1>1, <1>2
<1>4. ASSUME NEW i \in 1..4 PROVE ReadOctet(ip[i]) = ip[i] <=> ip[i] \notin 8..99
  <2>1. ip[i] \in 0..255
    BY <1>1
  <2> QED
    BY ONLY <2>1, OctetRead
<1> QED
  BY <1>3, <1>4

-----------------------------------------------------------------------------
(* The steps of a number of messages, and of the arguments of the manager. *)

\* A field of three digits as C writes it: the number, or its first digits.
LEMMA NumberOfC ==
    ASSUME NEW n \in -(INT_MAX + 1)..INT_MAX, NEW x, x = add_int(n, 3)
    PROVE  /\ x.width = 3 /\ (n \in 0..999 => x.val = n)
           /\ x.val \in Int /\ x.val <= 999
<1>1. INT_MAX \in Nat /\ n \in Int
  BY MessageAssumption
<1>2. CASE n >= 0
  <2>1. n \in Nat /\ n <= INT_MAX + 1
    BY <1>1, <1>2
  <2>2. x = Field("int", 3, FirstDigits(n, 3))
    BY <1>2 DEF add_int
  <2>3. x.width = 3 /\ x.val = FirstDigits(n, 3)
    BY <2>2 DEF Field
  <2>4. FirstDigits(n, 3) \in 0..999
    BY ONLY <2>1, DigitsKept
  <2>5. ASSUME n \in 0..999 PROVE FirstDigits(n, 3) = n
    <3>1. 10 ^ 3 - 1 = 999
      BY SMT
    <3>2. n \in 0..(10 ^ 3 - 1)
      BY ONLY <2>5, <3>1
    <3> QED
      BY <3>2, WrittenWhole, Zenon
  <2>6. n \in 0..999 => x.val = n
    BY <2>3, <2>5
  <2> QED
    BY <2>3, <2>4, <2>6
<1>3. CASE ~(n >= 0)
  <2> DEFINE d == FirstDigits(-n, 3)
  <2>1. x = Field("signed", 3, -(d \div 10))
    BY <1>3 DEF add_int
  <2>2. x.width = 3 /\ x.val = -(d \div 10)
    BY <2>1 DEF Field
  <2>3. d \in 0..999
    <3>1. -n \in Nat /\ -n <= INT_MAX + 1
      BY <1>1, <1>3
    <3> QED
      BY ONLY <3>1, DigitsKept
  <2> HIDE DEF d
  <2>4. -(d \div 10) \in Int /\ -(d \div 10) <= 999
    BY <2>3
  <2>5. n \notin 0..999
    BY <1>1, <1>3
  <2> QED
    BY <2>2, <2>4, <2>5
<1> QED
  BY <1>2, <1>3

\* The same as Java writes it, when it fits.
LEMMA NumberOfJava ==
    ASSUME NEW n \in Int, FitsIn(n, 3), NEW x, x = intToCharBytes(n, 3)
    PROVE  /\ x.width = 3 /\ (n \in 0..999 => x.val = n)
           /\ x.val = None \/ (x.val \in Int /\ x.val <= 999)
<1>1. CASE n >= 0
  <2>1. x = Field("int", 3, n)
    BY <1>1 DEF intToCharBytes
  <2>2. n < 10 ^ 3
    BY <1>1 DEF FitsIn
  <2>3. n <= 999
    BY <2>2, PowersOfTen
  <2>4. x.width = 3 /\ x.val = n
    BY <2>1 DEF Field
  <2> QED
    BY <2>3, <2>4
<1>2. CASE ~(n >= 0)
  <2>1. x = Field("signed", 3, n) \/ x = Field("junk", 3, None)
    BY <1>2, Zenon DEF intToCharBytes
  <2>2. x.width = 3 /\ (x.val = n \/ x.val = None)
    BY <2>1 DEF Field
  <2>3. n <= 999 /\ n \notin 0..999
    BY <1>2
  <2>4. x.val = None \/ (x.val \in Int /\ x.val <= 999)
    BY <2>2, <2>3
  <2> QED
    BY <2>2, <2>3, <2>4
<1> QED
  BY <1>1, <1>2

\* A LAST is read as it was asked when three digits are enough, and is never
\* above 999.
LEMMA LastMade ==
    ASSUME job \in Jobs, job.kind = "last", NEW m, m # None,
           m = IF job.client = "c" THEN create_message("LAST", [nb |-> job.nb]) ELSE createLast(job.nb)
    PROVE  m[1].val = "LAST" /\ Length(m) = msglen("LAST") /\ AskedFits(getNbMsg(m))
<1> DEFINE n == job.nb
<1>1. job.client \in {"c", "java"} /\ n \in -(INT_MAX + 1)..INT_MAX /\ n \in Int
  BY JobTypes, MessageAssumption
<1>2. \E x : /\ m = Assemble("LAST", <<x>>) /\ x.width = 3
             /\ n \in 0..999 => x.val = n
             /\ x.val = None \/ (x.val \in Int /\ x.val <= 999)
  <2>1. CASE job.client = "c"
    <3> DEFINE x == add_int(n, 3)
    <3>1. m = Assemble("LAST", <<x>>)
      BY <2>1 DEF create_message, MSG_NB_MESS_SIZE
    <3> HIDE DEF n
    <3>2. x.width = 3 /\ (n \in 0..999 => x.val = n) /\ x.val \in Int /\ x.val <= 999
      BY <1>1, NumberOfC
    <3> HIDE DEF x
    <3> QED
      BY <3>1, <3>2
  <2>2. CASE job.client = "java"
    <3> DEFINE x == intToCharBytes(n, 3)
    <3>1. m = Assemble("LAST", <<x>>) /\ FitsIn(n, 3)
      BY <2>2, Zenon DEF createLast, MSG_NB_MESS_SIZE
    <3> HIDE DEF n
    <3>2. /\ x.width = 3 /\ (n \in 0..999 => x.val = n)
          /\ x.val = None \/ (x.val \in Int /\ x.val <= 999)
      BY <1>1, <3>1, NumberOfJava
    <3> HIDE DEF x
    <3> QED
      BY <3>1, <3>2
  <2> QED
    BY <1>1, <2>1, <2>2
<1>3. PICK x : /\ m = Assemble("LAST", <<x>>) /\ x.width = 3
               /\ n \in 0..999 => x.val = n
               /\ x.val = None \/ (x.val \in Int /\ x.val <= 999)
  BY <1>2
<1>4. NumberForm(m, "LAST", x, 3)
  BY <1>3, NumberPlaces
<1> HIDE DEF n
<1>5. m[1].val = "LAST" /\ Extract(m, 5, 3) = x.val
  <2>1. 3 \in Nat \ {0} /\ x.width = 3
    BY <1>3
  <2> QED
    BY ONLY <1>4, <2>1, NumberRead, Zenon
<1>6. Length(m) = msglen("LAST")
  BY <1>4 DEF NumberForm, msglen, MSG_TYPE_SIZE, MSG_END_SIZE, MSG_NB_MESS_SIZE
<1>7. getNbMsg(m) = x.val
  BY <1>5 DEF getNbMsg, MSG_TYPE_SIZE, MSG_NB_MESS_SIZE
<1>8. AskedFits(x.val)
  BY <1>3 DEF AskedFits, n
<1> QED
  BY <1>5, <1>6, <1>7, <1>8

\* The two digits of LINB say how many ITEM follow, up to 99.
LEMMA LinbMade ==
    ASSUME NEW nb \in 0..99, NEW m, m = create_message("LINB", [nb |-> nb])
    PROVE  m[1].val = "LINB" /\ Length(m) = msglen("LINB") /\ getNumDiff(m) = nb
<1> DEFINE x == Field("int", 2, nb)
<1>1. FirstDigits(nb, 2) = nb
  <2>1. 10 ^ 2 - 1 = 99
    BY SMT
  <2> QED
    BY <2>1, WrittenWhole
<1>2. add_int(nb, 2) = x
  BY <1>1 DEF add_int
<1>3. m = Assemble("LINB", <<x>>)
  BY <1>2 DEF create_message, MSG_NUM_DIFF_SIZE
<1>4. x.width = 2 /\ x.val = nb
  BY DEF Field
<1> HIDE DEF x
<1>5. NumberForm(m, "LINB", x, 2)
  BY <1>3, <1>4, NumberPlaces
<1>6. m[1].val = "LINB" /\ Extract(m, 5, 2) = x.val
  <2>1. 2 \in Nat \ {0} /\ x.width = 2
    BY <1>4
  <2> QED
    BY ONLY <1>5, <2>1, NumberRead, Zenon
<1>7. Length(m) = msglen("LINB")
  BY <1>5 DEF NumberForm, msglen, MSG_TYPE_SIZE, MSG_END_SIZE, MSG_NUM_DIFF_SIZE
<1> QED
  BY <1>4, <1>6, <1>7 DEF getNumDiff, MSG_TYPE_SIZE, MSG_NUM_DIFF_SIZE

\* A manager that starts has 1 to 99 slots, and the numbers typed where they
\* fit their types.
LEMMA StartedAsTyped ==
    ASSUME job \in Jobs, job.kind = "main", None \notin {Options.port, Options.capacity, Options.delay},
           NEW o, o = [Options EXCEPT !.port = htons(Options.port)]
    PROVE  /\ o.capacity \in 1..99
           /\ Abs(job.args[2]) <= INT_MAX => o.capacity = job.args[2]
           /\ job.delay # None /\ Abs(job.delay) <= INT_MAX => o.delay = job.delay
           /\ job.args[1] \in 0..USHRT_MAX => o.port = job.args[1]
<1> DEFINE uint(n) == set_uint_from_string(n)
           p == job.args[1]
           c == job.args[2]
           d == job.delay
<1>1. Len(job.args) = 2
  BY Zenon DEF Options
<1>2. p \in Int \cup {None} /\ c \in Int \cup {None} /\ d \in Int \cup {None}
  <2>1. job.args \in Seq(Int \cup {None}) /\ job.delay \in Int \cup {None}
    BY JobTypes
  <2> QED
    BY <1>1, <2>1
<1> HIDE DEF p, c, d
<1>3. Options = [port |-> uint(p), capacity |-> CapacityOf(uint(c)), delay |-> DelayOf(d)]
  BY <1>1 DEF Options, p, c, d
<1>4. uint(p) # None /\ CapacityOf(uint(c)) # None /\ DelayOf(d) # None
  BY <1>3
<1>5. o.capacity = CapacityOf(uint(c)) /\ o.delay = DelayOf(d) /\ o.port = htons(uint(p))
  BY <1>3
<1>6. /\ uint(p) \in 0..INT_MAX \cup {None} /\ uint(c) \in 0..INT_MAX \cup {None}
      /\ uint(d) \in 0..INT_MAX \cup {None}
  BY <1>2, UintType
<1>7. \A n \in Int \cup {None} : n # None /\ Abs(n) <= INT_MAX =>
          uint(n) = IF n >= 0 THEN n ELSE None
  BY IntIsRead
<1>8. uint(None) = None
  BY DEF set_uint_from_string
<1> HIDE DEF uint
<1>9. INT_MAX \in Nat /\ USHRT_MAX \in Nat /\ USHRT_MAX < INT_MAX /\ None \notin Int
  BY MessageAssumption
<1>10. CapacityOf(uint(c)) = uint(c) /\ uint(c) # None /\ ~(uint(c) > 99) /\ ~(uint(c) < 1)
  BY <1>4, Zenon DEF CapacityOf
<1>11. uint(c) \in 1..99
  BY <1>6, <1>9, <1>10
<1>12. ASSUME Abs(c) <= INT_MAX PROVE o.capacity = c
  <2>1. c # None
    BY <1>8, <1>10
  <2>2. uint(c) = IF c >= 0 THEN c ELSE None
    BY <1>2, <1>7, <1>12, <2>1
  <2> QED
    BY <1>5, <1>10, <2>2
<1>13. ASSUME d # None, Abs(d) <= INT_MAX PROVE o.delay = d
  <2>1. uint(d) = IF d >= 0 THEN d ELSE None
    BY <1>2, <1>7, <1>13
  <2>2. DelayOf(d) = IF uint(d) = None \/ uint(d) > MaxDelay THEN None ELSE uint(d)
    BY <1>13, Zenon DEF DelayOf, uint
  <2> QED
    BY <1>4, <1>5, <2>1, <2>2
<1>14. ASSUME p \in 0..USHRT_MAX PROVE o.port = p
  <2>1. p \in Int /\ p >= 0 /\ p # None /\ Abs(p) <= INT_MAX
    BY <1>9, <1>14 DEF Abs
  <2>2. uint(p) = p
    BY <1>7, <2>1
  <2>3. htons(p) = p
    BY <1>9, <1>14 DEF htons
  <2> QED
    BY <1>5, <2>2, <2>3
<1> QED
  BY <1>5, <1>10, <1>11, <1>12, <1>13, <1>14 DEF p, c, d

-----------------------------------------------------------------------------
(* The invariant is kept.                                                  *)

\* The parts of the invariant about the other kinds of journeys.
LEMMA OtherKinds ==
    ASSUME NEW k, job'.kind = k
    PROVE  /\ k # "post" => PostFits'
           /\ k # "regi" => RegiFits'
           /\ k # "last" => LastFits'
           /\ k # "main" => MainFits'
BY DEF PostFits, RegiFits, LastFits, MainFits

\* The parts about the places where a journey is not.
LEMMA OtherPlaces ==
    ASSUME NEW p, at' = p
    PROVE  /\ p \notin {"posted", "mute", "diff"} => DiffFits'
           /\ p # "reached" => ReachedAsRegistered'
           /\ p # "started" => OptionsAsTyped'
           /\ p # "counted" => ListIsAnnounced'
           /\ p \notin {"manager", "streamer", "posted", "mute", "diff", "oldm"} => PostFits'
           /\ p \notin {"manager", "listed"} => RegiFits'
           /\ p \notin {"streamer", "asked"} => LastFits'
           /\ p # "started" => MainFits'
BY DEF DiffFits, ReachedAsRegistered, OptionsAsTyped, ListIsAnnounced, PostFits, RegiFits,
     LastFits, MainFits

\* A journey starts as the invariant says.
LEMMA JourneyInit == Init => JourneyInv
<1> SUFFICES ASSUME Init PROVE JourneyInv
  OBVIOUS
<1>1. job \in Jobs /\ at = "typed" /\ wire = None
  BY DEF Init
<1>2. AtFits
  BY <1>1, JobTypes DEF AtFits
<1>3. WireFits
  BY <1>1 DEF WireFits
<1>4. PostFits /\ DiffFits /\ RegiFits /\ LastFits /\ MainFits
  BY <1>1 DEF PostFits, DiffFits, RegiFits, LastFits, MainFits
<1>5. ReachedAsRegistered /\ OptionsAsTyped /\ ListIsAnnounced
  BY <1>1 DEF ReachedAsRegistered, OptionsAsTyped, ListIsAnnounced
<1> QED
  BY <1>1, <1>2, <1>3, <1>4, <1>5 DEF JourneyInv

\* A step that ends a journey.
LEMMA LostFits ==
    ASSUME JourneyInv, job' = job, wire' = wire, at' = "lost"
    PROVE  JourneyInv'
<1>1. AtFits'
  BY JobTypes DEF AtFits, JourneyInv
<1>2. WireFits'
  BY DEF WireFits, JourneyInv
<1>3. /\ DiffFits' /\ PostFits' /\ RegiFits' /\ LastFits' /\ MainFits'
      /\ ReachedAsRegistered' /\ OptionsAsTyped' /\ ListIsAnnounced'
  BY OtherPlaces
<1> QED
  BY <1>1, <1>2, <1>3 DEF JourneyInv

\* A post that can be built leaves its client as it was typed; another is lost.
LEMMA PostIsSentFits == JourneyInv /\ PostIsSent => JourneyInv'
<1> SUFFICES ASSUME JourneyInv, PostIsSent PROVE JourneyInv'
  OBVIOUS
<1>1. job.kind = "post" /\ at = "typed" /\ job' = job /\ job \in Jobs
  BY DEF PostIsSent, Build, Go, JourneyInv
<1>2. CASE Typed = None
  BY <1>1, <1>2, LostFits DEF PostIsSent, Build, Go
<1>3. CASE Typed # None
  <2>1. wire' = Typed /\ at' \in {"manager", "streamer"} /\ Typed' = Typed
    BY <1>1, <1>3 DEF PostIsSent, Build, Go, Typed
  <2>2. Length(Typed) = msglen(Typed[1].val)
    BY <1>1, <1>3, TypedIsRelayed DEF verify_msg
  <2>3. AtFits'
    BY <1>1, <2>1 DEF AtFits
  <2>4. WireFits'
    BY <2>1, <2>2 DEF WireFits
  <2>5. PostFits'
    BY <1>1, <1>3, <2>1 DEF PostFits
  <2>6. RegiFits' /\ LastFits' /\ MainFits'
    BY <1>1, OtherKinds
  <2>7. DiffFits' /\ ReachedAsRegistered' /\ OptionsAsTyped' /\ ListIsAnnounced'
    BY <2>1, OtherPlaces
  <2> QED
    BY <1>1, <2>3, <2>4, <2>5, <2>6, <2>7 DEF JourneyInv
<1> QED
  BY <1>2, <1>3

\* The manager recognises the post and builds the same message again.
LEMMA ManagerRelaysFits == JourneyInv /\ ManagerRelays => JourneyInv'
<1> SUFFICES ASSUME JourneyInv, ManagerRelays PROVE JourneyInv'
  OBVIOUS
<1>1. job.kind = "post" /\ at = "manager" /\ job' = job /\ job \in Jobs
  BY DEF ManagerRelays, Build, Go, JourneyInv
<1>2. Typed # None /\ wire = Typed
  BY <1>1 DEF JourneyInv, PostFits
<1>3. verify_msg(Typed) /\ create_message("MESS", Parse(Typed)) = Typed
  BY <1>1, <1>2, TypedIsRelayed
<1>4. wire' = wire /\ at' = "streamer" /\ Typed' = Typed
  BY <1>1, <1>2, <1>3 DEF ManagerRelays, Build, Go, Typed
<1>5. AtFits'
  BY <1>1, <1>4 DEF AtFits
<1>6. WireFits'
  BY <1>4 DEF WireFits, JourneyInv
<1>7. PostFits'
  BY <1>1, <1>2, <1>4 DEF PostFits
<1>8. RegiFits' /\ LastFits' /\ MainFits'
  BY <1>1, OtherKinds
<1>9. DiffFits' /\ ReachedAsRegistered' /\ OptionsAsTyped' /\ ListIsAnnounced'
  BY <1>4, OtherPlaces
<1> QED
  BY <1>1, <1>5, <1>6, <1>7, <1>8, <1>9 DEF JourneyInv

\* The line the streamer reads gives it what is kept of the post.
LEMMA PostIsAddedFits == JourneyInv /\ PostIsAdded => JourneyInv'
<1> SUFFICES ASSUME JourneyInv, PostIsAdded PROVE JourneyInv'
  OBVIOUS
<1> DEFINE m == createPost("MESS", 0, LineOf(Typed))
<1>1. job.kind = "post" /\ at = "streamer" /\ job' = job /\ wire' = wire /\ job \in Jobs
  BY DEF PostIsAdded, Go, JourneyInv
<1>2. Typed # None /\ wire = Typed
  BY <1>1 DEF JourneyInv, PostFits
<1>3. /\ at' = IF m = None THEN "lost" ELSE "posted"
      /\ m # None => out' = [id |-> getID(m), text |-> getMsg(m)]
  BY <1>2 DEF PostIsAdded, Go
<1> HIDE DEF m
<1>4. CASE m = None
  BY <1>1, <1>3, <1>4, LostFits
<1>5. CASE m # None
  <2>1. /\ NameFits(getID(m)) /\ TextFits(getMsg(m))
        /\ KeptOfJob(getID(m), getMsg(m))
    BY <1>1, <1>2, <1>5, AddedIsKept DEF m
  <2>2. at' = "posted" /\ out'.id = getID(m) /\ out'.text = getMsg(m)
    BY <1>3, <1>5
  <2>3. AtFits'
    BY <1>1, <2>2 DEF AtFits
  <2>4. WireFits'
    BY <1>1 DEF WireFits, JourneyInv
  <2>5. PostFits'
    BY <1>1, <2>1, <2>2 DEF PostFits, KeptOfJob
  <2>6. RegiFits' /\ LastFits' /\ MainFits'
    BY <1>1, OtherKinds
  <2>7. DiffFits'
    BY <2>1, <2>2 DEF DiffFits, NameFits, TextFits
  <2>8. ReachedAsRegistered' /\ OptionsAsTyped' /\ ListIsAnnounced'
    BY <2>2, OtherPlaces
  <2> QED
    BY <1>1, <2>3, <2>4, <2>5, <2>6, <2>7, <2>8 DEF JourneyInv
<1> QED
  BY <1>4, <1>5

\* A post of the file is taken as it is.
LEMMA PostIsReadFits == JourneyInv /\ PostIsRead => JourneyInv'
<1> SUFFICES ASSUME JourneyInv, PostIsRead PROVE JourneyInv'
  OBVIOUS
<1>1. /\ job.kind = "file" /\ job' = job /\ wire' = wire /\ job \in Jobs
      /\ at' = "posted" /\ out'.id = job.id /\ out'.text = job.text
  BY DEF PostIsRead, Go, JourneyInv
<1>2. job.id \in Line /\ job.text \in Line
  BY <1>1, JobTypes
<1>3. AtFits'
  BY <1>1 DEF AtFits
<1>4. WireFits'
  BY <1>1 DEF WireFits, JourneyInv
<1>5. PostFits' /\ RegiFits' /\ LastFits' /\ MainFits'
  BY <1>1, OtherKinds
<1>6. DiffFits'
  BY <1>1, <1>2 DEF DiffFits
<1>7. ReachedAsRegistered' /\ OptionsAsTyped' /\ ListIsAnnounced'
  BY <1>1, OtherPlaces
<1> QED
  BY <1>1, <1>3, <1>4, <1>5, <1>6, <1>7 DEF JourneyInv

\* The DIFF has what was posted, unless the exception ends the broadcast.
LEMMA PostIsBroadcastFits == JourneyInv /\ PostIsBroadcast => JourneyInv'
<1> SUFFICES ASSUME JourneyInv, PostIsBroadcast PROVE JourneyInv'
  OBVIOUS
<1> DEFINE m == createPost("DIFF", 0, PostLine(out.id, out.text))
<1>1. /\ job.kind \in {"post", "file"} /\ at = "posted" /\ job' = job /\ out' = out /\ job \in Jobs
      /\ at' = IF m = None THEN "mute" ELSE "diff"
      /\ wire' = IF m = None THEN wire ELSE m
  BY DEF PostIsBroadcast, Go, JourneyInv
<1>2. out.id \in Line /\ out.text \in Line
  BY <1>1 DEF JourneyInv, DiffFits
<1>3. job.kind = "post" => NameFits(out.id) /\ TextFits(out.text) /\ KeptOfJob(out.id, out.text)
  BY <1>1 DEF JourneyInv, PostFits
<1>4. job.kind = "post" =>
          /\ m = None <=> out.id = << >> /\ IsBlank(out.text)
          /\ m # None => getID(m) = out.id /\ getMsg(m) = out.text
  BY <1>3, BroadcastRepeats
<1>5. m # None => /\ m[1].val = "DIFF" /\ Length(m) = msglen("DIFF")
                  /\ getNumMsg(m) = 0 /\ NameFits(getID(m)) /\ TextFits(getMsg(m))
  BY <1>2, BroadcastFits
<1> HIDE DEF m
<1>6. AtFits'
  BY <1>1 DEF AtFits
<1>7. WireFits'
  BY <1>1, <1>5 DEF WireFits, JourneyInv
<1>8. RegiFits' /\ LastFits' /\ MainFits'
  BY <1>1, OtherKinds
<1>9. ReachedAsRegistered' /\ OptionsAsTyped' /\ ListIsAnnounced'
  BY <1>1, OtherPlaces
<1>10. CASE m = None
  <2>1. PostFits'
    BY <1>1, <1>3, <1>4, <1>10 DEF PostFits, KeptOfJob
  <2>2. DiffFits'
    BY <1>1, <1>2, <1>10 DEF DiffFits
  <2> QED
    BY <1>1, <1>6, <1>7, <1>8, <1>9, <2>1, <2>2 DEF JourneyInv
<1>11. CASE m # None
  <2>1. PostFits'
    BY <1>1, <1>3, <1>4, <1>11 DEF PostFits, KeptOfJob
  <2>2. DiffFits'
    BY <1>1, <1>5, <1>11 DEF DiffFits
  <2> QED
    BY <1>1, <1>6, <1>7, <1>8, <1>9, <2>1, <2>2 DEF JourneyInv
<1> QED
  BY <1>10, <1>11

\* The OLDM has what the DIFF has.
LEMMA PostIsRepeatedFits == JourneyInv /\ PostIsRepeated => JourneyInv'
<1> SUFFICES ASSUME JourneyInv, PostIsRepeated PROVE JourneyInv'
  OBVIOUS
<1> DEFINE m == createPost("OLDM", 0, PostLine(getID(wire), getMsg(wire)))
<1>1. at = "diff" /\ job \in Jobs /\ job' = job /\ job.kind \in {"post", "file"}
  BY DEF PostIsRepeated, Build, Go, JourneyInv
<1>2. getNumMsg(wire) = 0 /\ NameFits(getID(wire)) /\ TextFits(getMsg(wire))
  BY <1>1 DEF JourneyInv, DiffFits
<1>3. DiffToOldm(wire) = m
  BY <1>2 DEF DiffToOldm
<1>4. /\ at' = IF m = None THEN "lost" ELSE "oldm"
      /\ wire' = IF m = None THEN wire ELSE m
  BY <1>3 DEF PostIsRepeated, Build, Go
<1>5. m # None => getID(m) = getID(wire) /\ getMsg(m) = getMsg(wire)
  BY <1>2, BroadcastRepeats
<1>6. m # None => m[1].val = "OLDM" /\ Length(m) = msglen("OLDM")
  <2>1. getID(wire) \in Line /\ getMsg(wire) \in Line
    BY <1>2 DEF NameFits, TextFits
  <2> QED
    BY <2>1, BroadcastFits
<1>7. job.kind = "post" => KeptOfJob(getID(wire), getMsg(wire))
  BY <1>1 DEF JourneyInv, PostFits
<1> HIDE DEF m
<1>8. CASE m = None
  BY <1>1, <1>4, <1>8, LostFits
<1>9. CASE m # None
  <2>1. at' = "oldm" /\ wire' = m
    BY <1>4, <1>9
  <2>2. AtFits'
    BY <1>1, <2>1 DEF AtFits
  <2>3. WireFits'
    BY <1>6, <1>9, <2>1 DEF WireFits
  <2>4. PostFits'
    BY <1>1, <1>5, <1>7, <1>9, <2>1 DEF PostFits, KeptOfJob
  <2>5. RegiFits' /\ LastFits' /\ MainFits'
    BY <1>1, OtherKinds
  <2>6. DiffFits' /\ ReachedAsRegistered' /\ OptionsAsTyped' /\ ListIsAnnounced'
    BY <2>1, OtherPlaces
  <2> QED
    BY <1>1, <2>2, <2>3, <2>4, <2>5, <2>6 DEF JourneyInv
<1> QED
  BY <1>8, <1>9

\* A registration that can be built is on its way.
LEMMA RegiIsSentFits == JourneyInv /\ RegiIsSent => JourneyInv'
<1> SUFFICES ASSUME JourneyInv, RegiIsSent PROVE JourneyInv'
  OBVIOUS
<1> DEFINE m == createRegi(job)
<1>1. /\ job.kind = "regi" /\ at = "typed" /\ job' = job /\ job \in Jobs
      /\ at' = IF m = None THEN "lost" ELSE "manager"
      /\ wire' = IF m = None THEN wire ELSE m
  BY DEF RegiIsSent, Build, Go, JourneyInv
<1>2. m # None => m = Assemble("REGI", RegiFields)
  BY DEF createRegi, RegiFields
<1>3. m # None => m[1].val = "REGI" /\ Length(m) = msglen("REGI")
  BY <1>1, <1>2, RegiIsRecognised
<1>4. m' = m
  BY <1>1
<1> HIDE DEF m
<1>5. CASE m = None
  BY <1>1, <1>5, LostFits
<1>6. CASE m # None
  <2>1. at' = "manager" /\ wire' = m
    BY <1>1, <1>6
  <2>2. AtFits'
    BY <1>1, <2>1 DEF AtFits
  <2>3. WireFits'
    BY <1>3, <1>6, <2>1 DEF WireFits
  <2>4. RegiFits'
    BY <1>4, <1>6, <2>1 DEF RegiFits, m
  <2>5. PostFits' /\ LastFits' /\ MainFits'
    BY <1>1, OtherKinds
  <2>6. DiffFits' /\ ReachedAsRegistered' /\ OptionsAsTyped' /\ ListIsAnnounced'
    BY <2>1, OtherPlaces
  <2> QED
    BY <1>1, <2>2, <2>3, <2>4, <2>5, <2>6 DEF JourneyInv
<1> QED
  BY <1>5, <1>6

\* The register gets it when its ports are numbers.
LEMMA RegiIsListedFits == JourneyInv /\ RegiIsListed => JourneyInv'
<1> SUFFICES ASSUME JourneyInv, RegiIsListed PROVE JourneyInv'
  OBVIOUS
<1> DEFINE m == [createRegi(job) EXCEPT ![1] = TypeField("ITEM")]
           q == IF verify_msg(createRegi(job)) THEN m ELSE None
<1>1. job.kind = "regi" /\ at = "manager" /\ job' = job /\ job \in Jobs
  BY DEF RegiIsListed, Build, Go, JourneyInv
<1>2. createRegi(job) # None /\ wire = createRegi(job)
  BY <1>1 DEF JourneyInv, RegiFits
<1>3. createRegi(job) = Assemble("REGI", RegiFields)
  BY <1>2 DEF createRegi, RegiFields
<1>4. /\ at' = IF q = None THEN "lost" ELSE "listed"
      /\ wire' = IF q = None THEN wire ELSE q
  BY <1>2 DEF RegiIsListed, Build, Go
<1>5. verify_msg(createRegi(job)) <=> job.port1 >= 0 /\ job.port2 >= 0
  BY <1>1, <1>3, RegiIsRecognised
<1>6. verify_msg(createRegi(job)) =>
          /\ m = Assemble("ITEM", RegiFields) /\ m # None
          /\ m[1].val = "ITEM" /\ Length(m) = msglen("ITEM")
  BY <1>1, <1>2, <1>5, ItemIsRegi
<1>7. RegiFields' = RegiFields /\ createRegi(job)' = createRegi(job)
  BY <1>1 DEF RegiFields
<1> HIDE DEF m
<1>8. CASE ~verify_msg(createRegi(job))
  BY <1>1, <1>4, <1>8, LostFits
<1>9. CASE verify_msg(createRegi(job))
  <2>1. at' = "listed" /\ wire' = m
    BY <1>4, <1>6, <1>9
  <2>2. AtFits'
    BY <1>1, <2>1 DEF AtFits
  <2>3. WireFits'
    BY <1>6, <1>9, <2>1 DEF WireFits
  <2>4. RegiFits'
    <3>1. wire' = Assemble("ITEM", RegiFields') /\ createRegi(job)' # None
      BY <1>2, <1>6, <1>7, <1>9, <2>1
    <3>2. job'.port1 >= 0 /\ job'.port2 >= 0
      BY <1>1, <1>5, <1>9
    <3> QED
      BY <2>1, <3>1, <3>2 DEF RegiFits
  <2>5. PostFits' /\ LastFits' /\ MainFits'
    BY <1>1, OtherKinds
  <2>6. DiffFits' /\ ReachedAsRegistered' /\ OptionsAsTyped' /\ ListIsAnnounced'
    BY <2>1, OtherPlaces
  <2> QED
    BY <1>1, <2>2, <2>3, <2>4, <2>5, <2>6 DEF JourneyInv
<1> QED
  BY <1>8, <1>9

\* Its address and its port are read from the register.
LEMMA StreamerIsReachedFits == JourneyInv /\ StreamerIsReached => JourneyInv'
<1> SUFFICES ASSUME JourneyInv, StreamerIsReached PROVE JourneyInv'
  OBVIOUS
<1>1. job.kind = "regi" /\ at = "listed" /\ job' = job /\ wire' = wire /\ job \in Jobs
  BY DEF StreamerIsReached, Go, JourneyInv
<1>2. /\ createRegi(job) # None /\ job.port1 >= 0 /\ job.port2 >= 0
      /\ wire = Assemble("ITEM", RegiFields)
  BY <1>1 DEF JourneyInv, RegiFits
<1>3. wire = [createRegi(job) EXCEPT ![1] = TypeField("ITEM")]
  BY <1>1, <1>2, ItemIsRegi
<1>4. TcpAddress(wire) = job.ip2 /\ set_uint_from_string(TcpPort(wire)) = job.port2
  BY <1>1, <1>2, <1>3, ItemIsRegi
<1>5. PICK reader \in {"c", "java"} :
          LET ip == IF reader = "c" THEN inet_aton(job.ip2) ELSE job.ip2
          IN  /\ at' = IF ip = None THEN "lost" ELSE "reached"
              /\ out' = [reader |-> reader, ip |-> ip, port |-> job.port2]
  BY <1>4 DEF StreamerIsReached, Go
<1> DEFINE ip == IF reader = "c" THEN inet_aton(job.ip2) ELSE job.ip2
<1>6. /\ at' = IF ip = None THEN "lost" ELSE "reached"
      /\ out'.reader = reader /\ out'.ip = ip /\ out'.port = job.port2
  BY <1>5
<1>7. ip # None => (ip = job.ip2 <=> reader = "java" \/ \A i \in 1..4 : job.ip2[i] \notin 8..99)
  <2>1. job.ip2 \in Address
    BY <1>1, JobTypes
  <2> QED
    BY <2>1, AddressIsRead
<1> HIDE DEF ip
<1>8. CASE ip = None
  BY <1>1, <1>6, <1>8, LostFits
<1>9. CASE ip # None
  <2>1. at' = "reached"
    BY <1>6, <1>9
  <2>2. AtFits'
    BY <1>1, <2>1 DEF AtFits
  <2>3. WireFits'
    BY <1>1 DEF WireFits, JourneyInv
  <2>4. ReachedAsRegistered'
    BY <1>1, <1>6, <1>7, <1>9 DEF ReachedAsRegistered
  <2>5. PostFits' /\ LastFits' /\ MainFits'
    BY <1>1, OtherKinds
  <2>6. DiffFits' /\ RegiFits' /\ OptionsAsTyped' /\ ListIsAnnounced'
    BY <2>1, OtherPlaces
  <2> QED
    BY <1>1, <2>2, <2>3, <2>4, <2>5, <2>6 DEF JourneyInv
<1> QED
  BY <1>8, <1>9

\* A LAST asks for the number, or for what fits of it.
LEMMA LastIsSentFits == JourneyInv /\ LastIsSent => JourneyInv'
<1> SUFFICES ASSUME JourneyInv, LastIsSent PROVE JourneyInv'
  OBVIOUS
<1> DEFINE m == IF job.client = "c" THEN create_message("LAST", [nb |-> job.nb]) ELSE createLast(job.nb)
<1>1. /\ job.kind = "last" /\ at = "typed" /\ job' = job /\ job \in Jobs
      /\ at' = IF m = None THEN "lost" ELSE "streamer"
      /\ wire' = IF m = None THEN wire ELSE m
  BY DEF LastIsSent, Build, Go, JourneyInv
<1>2. m # None => m[1].val = "LAST" /\ Length(m) = msglen("LAST") /\ AskedFits(getNbMsg(m))
  BY <1>1, LastMade
<1> HIDE DEF m
<1>3. CASE m = None
  BY <1>1, <1>3, LostFits
<1>4. CASE m # None
  <2>1. at' = "streamer" /\ wire' = m
    BY <1>1, <1>4
  <2>2. AtFits'
    BY <1>1, <2>1 DEF AtFits
  <2>3. WireFits'
    BY <1>2, <1>4, <2>1 DEF WireFits
  <2>4. LastFits'
    BY <1>1, <1>2, <1>4, <2>1 DEF LastFits, AskedFits
  <2>5. PostFits' /\ RegiFits' /\ MainFits'
    BY <1>1, OtherKinds
  <2>6. DiffFits' /\ ReachedAsRegistered' /\ OptionsAsTyped' /\ ListIsAnnounced'
    BY <2>1, OtherPlaces
  <2> QED
    BY <1>1, <2>2, <2>3, <2>4, <2>5, <2>6 DEF JourneyInv
<1> QED
  BY <1>3, <1>4

\* The streamer takes the number from the LAST.
LEMMA LastIsReadFits == JourneyInv /\ LastIsRead => JourneyInv'
<1> SUFFICES ASSUME JourneyInv, LastIsRead PROVE JourneyInv'
  OBVIOUS
<1>1. /\ job.kind = "last" /\ at = "streamer" /\ at' = "asked" /\ job \in Jobs
      /\ job' = job /\ wire' = wire /\ out' = getNbMsg(wire)
  BY DEF LastIsRead, Go, JourneyInv
<1>2. AtFits'
  BY <1>1 DEF AtFits
<1>3. WireFits'
  BY <1>1 DEF WireFits, JourneyInv
<1>4. LastFits'
  BY <1>1 DEF LastFits, AskedFits, JourneyInv
<1>5. PostFits' /\ RegiFits' /\ MainFits'
  BY <1>1, OtherKinds
<1>6. DiffFits' /\ ReachedAsRegistered' /\ OptionsAsTyped' /\ ListIsAnnounced'
  BY <1>1, OtherPlaces
<1> QED
  BY <1>1, <1>2, <1>3, <1>4, <1>5, <1>6 DEF JourneyInv

\* The parameters are the arguments.
LEMMA ManagerStartsFits == JourneyInv /\ ManagerStarts => JourneyInv'
<1> SUFFICES ASSUME JourneyInv, ManagerStarts PROVE JourneyInv'
  OBVIOUS
<1>1. /\ job.kind = "main" /\ at' = "started" /\ job \in Jobs /\ job' = job /\ wire' = wire
      /\ None \notin {Options.port, Options.capacity, Options.delay}
      /\ out' = [Options EXCEPT !.port = htons(Options.port)]
  BY DEF ManagerStarts, Go, JourneyInv
<1>2. /\ out'.capacity \in 1..99
      /\ Abs(job.args[2]) <= INT_MAX => out'.capacity = job.args[2]
      /\ job.delay # None /\ Abs(job.delay) <= INT_MAX => out'.delay = job.delay
      /\ job.args[1] \in 0..USHRT_MAX => out'.port = job.args[1]
  BY <1>1, StartedAsTyped
<1>3. AtFits'
  BY <1>1 DEF AtFits
<1>4. WireFits'
  BY <1>1 DEF WireFits, JourneyInv
<1>5. MainFits'
  BY <1>2 DEF MainFits
<1>6. OptionsAsTyped'
  BY <1>1, <1>2 DEF OptionsAsTyped
<1>7. PostFits' /\ RegiFits' /\ LastFits'
  BY <1>1, OtherKinds
<1>8. DiffFits' /\ ReachedAsRegistered' /\ ListIsAnnounced'
  BY <1>1, OtherPlaces
<1> QED
  BY <1>1, <1>3, <1>4, <1>5, <1>6, <1>7, <1>8 DEF JourneyInv

\* The usage is all there is.
LEMMA ManagerExitsFits == JourneyInv /\ ManagerExits => JourneyInv'
<1> SUFFICES ASSUME JourneyInv, ManagerExits PROVE JourneyInv'
  OBVIOUS
<1>1. job' = job /\ wire' = wire /\ at' = "lost"
  BY DEF ManagerExits, Go
<1> QED
  BY <1>1, LostFits

\* The register holds no more streamers than two digits say.
LEMMA ListIsCountedFits == JourneyInv /\ ListIsCounted => JourneyInv'
<1> SUFFICES ASSUME JourneyInv, ListIsCounted PROVE JourneyInv'
  OBVIOUS
<1>1. job.kind = "main" /\ at = "started" /\ at' = "counted" /\ job' = job /\ job \in Jobs
  BY DEF ListIsCounted, Go, JourneyInv
<1>2. out.capacity \in 1..99
  BY <1>1 DEF JourneyInv, MainFits
<1>3. PICK nb \in 0..out.capacity :
          /\ wire' = create_message("LINB", [nb |-> nb])
          /\ out' = [listed |-> nb, read |-> getNumDiff(wire')]
  BY DEF ListIsCounted
<1>4. nb \in 0..99
  BY <1>2, <1>3
<1>5. wire'[1].val = "LINB" /\ Length(wire') = msglen("LINB") /\ getNumDiff(wire') = nb
  BY <1>3, <1>4, LinbMade
<1>6. out'.read = out'.listed
  BY <1>3, <1>5
<1>7. AtFits'
  BY <1>1 DEF AtFits
<1>8. WireFits'
  BY <1>5 DEF WireFits
<1>9. ListIsAnnounced'
  BY <1>6 DEF ListIsAnnounced
<1>10. PostFits' /\ RegiFits' /\ LastFits'
  BY <1>1, OtherKinds
<1>11. DiffFits' /\ ReachedAsRegistered' /\ OptionsAsTyped' /\ MainFits'
  BY <1>1, OtherPlaces
<1> QED
  BY <1>1, <1>7, <1>8, <1>9, <1>10, <1>11 DEF JourneyInv

\* Every step keeps the invariant.
LEMMA JourneyNext == JourneyInv /\ [Next]_vars => JourneyInv'
<1> SUFFICES ASSUME JourneyInv, [Next]_vars PROVE JourneyInv'
  OBVIOUS
<1>1. CASE UNCHANGED vars
  <2>1. job' = job /\ at' = at /\ wire' = wire /\ out' = out
    BY <1>1 DEF vars
  <2>2. Typed' = Typed /\ RegiFields' = RegiFields
    BY <2>1 DEF Typed, RegiFields
  <2>3. AtFits' /\ WireFits' /\ DiffFits'
    BY <2>1 DEF JourneyInv, AtFits, WireFits, DiffFits
  <2>8. LastFits' /\ MainFits'
    BY <2>1 DEF JourneyInv, LastFits, AskedFits, MainFits
  <2>4. PostFits'
    BY <2>1, <2>2 DEF JourneyInv, PostFits, KeptOfJob
  <2>5. RegiFits'
    BY <2>1, <2>2 DEF JourneyInv, RegiFits
  <2>6. ReachedAsRegistered' /\ OptionsAsTyped' /\ ListIsAnnounced'
    BY <2>1 DEF JourneyInv, ReachedAsRegistered, OptionsAsTyped, ListIsAnnounced
  <2>7. (job \in Jobs)'
    BY <2>1 DEF JourneyInv
  <2> QED
    BY <2>3, <2>4, <2>5, <2>6, <2>7, <2>8 DEF JourneyInv
<1>2. CASE PostIsSent \/ ManagerRelays \/ PostIsAdded
  BY <1>2, PostIsSentFits, ManagerRelaysFits, PostIsAddedFits
<1>3. CASE PostIsRead \/ PostIsBroadcast \/ PostIsRepeated
  BY <1>3, PostIsReadFits, PostIsBroadcastFits, PostIsRepeatedFits
<1>4. CASE RegiIsSent \/ RegiIsListed \/ StreamerIsReached
  BY <1>4, RegiIsSentFits, RegiIsListedFits, StreamerIsReachedFits
<1>5. CASE LastIsSent \/ LastIsRead
  BY <1>5, LastIsSentFits, LastIsReadFits
<1>6. CASE ManagerStarts \/ ManagerExits \/ ListIsCounted
  BY <1>6, ManagerStartsFits, ManagerExitsFits, ListIsCountedFits
<1> QED
  BY <1>1, <1>2, <1>3, <1>4, <1>5, <1>6, Zenon DEF Next

\* The invariant holds of every journey.
THEOREM JourneyInvariant == Spec => []JourneyInv
<1>1. Init => JourneyInv
  BY JourneyInit
<1>2. JourneyInv /\ [Next]_vars => JourneyInv'
  BY JourneyNext
<1> QED
  BY <1>1, <1>2, PTL DEF Spec

-----------------------------------------------------------------------------
(* What the invariant says.                                                *)

\* A place of a kind of journey is a place, and what was posted are lines.
LEMMA InvTypes == JourneyInv => TypeOK
<1> SUFFICES ASSUME JourneyInv PROVE TypeOK
  OBVIOUS
<1>1. job \in Jobs
  BY DEF JourneyInv
<1>2. at \in {"typed", "manager", "streamer", "posted", "mute", "diff", "oldm", "lost",
              "listed", "reached", "asked", "started", "counted"}
  BY DEF JourneyInv, AtFits
<1>3. wire = None \/ Length(wire) = msglen(wire[1].val)
  BY DEF JourneyInv, WireFits
<1>4. at \in {"posted", "mute"} => out.id \in Line /\ out.text \in Line
  BY DEF JourneyInv, DiffFits
<1> QED
  BY <1>1, <1>2, <1>3, <1>4, Zenon DEF TypeOK

\* What is kept of a post is what the property names.
LEMMA InvKept == JourneyInv => PostKept
<1> SUFFICES ASSUME JourneyInv, job.kind = "post", at \in {"posted", "mute", "diff", "oldm"}
             PROVE  /\ Shown.id = Before(Cut(job.id, MSG_ID_SIZE), {Space, Filler})
                    /\ (\A i \in DOMAIN job.id : job.id[i] # Space) =>
                           Shown.text = removeDefChar(Cut(job.text, MSG_MESS_SIZE))
  BY DEF PostKept
<1>1. job.id \in Line /\ job.text \in Line
  BY JobTypes DEF JourneyInv
<1>2. KeptOfJob(Shown.id, Shown.text)
  <2>1. CASE at \in {"posted", "mute"}
    BY <2>1 DEF JourneyInv, PostFits, Shown
  <2>2. CASE at \in {"diff", "oldm"}
    <3>1. KeptOfJob(getID(wire), getMsg(wire))
      BY <2>2 DEF JourneyInv, PostFits
    <3>2. Shown.id = getID(wire) /\ Shown.text = getMsg(wire)
      BY <2>2 DEF Shown
    <3> QED
      BY <3>1, <3>2
  <2> QED
    BY <2>1, <2>2
<1>3. \A s \in Line, w \in Nat : \A C : Kept(Before(Cut(s, w), C), s, w, C)
  BY CutKeeps, BeforeIsKept
<1>4. \A s \in Line, w \in Nat : \A C, r : Kept(r, s, w, C) => r = Before(Cut(s, w), C)
  BY <1>3, KeptUnique
<1>5. MSG_ID_SIZE \in Nat /\ MSG_MESS_SIZE \in Nat
  BY MessageAssumption
<1>6. Shown.id = Before(Cut(job.id, MSG_ID_SIZE), {Space, Filler})
  BY <1>1, <1>2, <1>4, <1>5, Zenon DEF KeptOfJob
<1>7. ASSUME \A i \in DOMAIN job.id : job.id[i] # Space
      PROVE  Shown.text = removeDefChar(Cut(job.text, MSG_MESS_SIZE))
  <2>1. Without(job.id, {Space})
    BY <1>7, Zenon DEF Without
  <2>2. Kept(Shown.text, job.text, MSG_MESS_SIZE, {Filler})
    BY <1>2, <2>1, Zenon DEF KeptOfJob
  <2>3. Shown.text = Before(Cut(job.text, MSG_MESS_SIZE), {Filler})
    BY <1>1, <1>4, <1>5, <2>2, Zenon
  <2> QED
    BY <2>3, Zenon DEF removeDefChar
<1> QED
  BY <1>6, <1>7

\* On the way to the streamer a post is as its client built it.
LEMMA InvRelay == JourneyInv => RelayTransparent
BY DEF JourneyInv, PostFits, RelayTransparent

\* What is at the manager was built by createRegi or by a client.
LEMMA InvVerify == JourneyInv => VerifyAccepts
<1> SUFFICES ASSUME JourneyInv, at = "manager"
             PROVE  verify_msg(wire) \/ (job.kind = "regi" /\ (job.port1 < 0 \/ job.port2 < 0))
  BY DEF VerifyAccepts
<1>1. job \in Jobs /\ (job.kind = "post" \/ job.kind = "regi")
  BY DEF JourneyInv, AtFits
<1>2. CASE job.kind = "post"
  <2>1. Typed # None /\ wire = Typed
    BY <1>2 DEF JourneyInv, PostFits
  <2> QED
    BY <1>1, <1>2, <2>1, TypedIsRelayed
<1>3. CASE job.kind = "regi"
  <2>1. createRegi(job) # None /\ wire = createRegi(job)
    BY <1>3 DEF JourneyInv, RegiFits
  <2>2. wire = Assemble("REGI", RegiFields)
    BY <2>1 DEF createRegi, RegiFields
  <2>3. verify_msg(wire) <=> job.port1 >= 0 /\ job.port2 >= 0
    BY <1>1, <1>3, <2>2, RegiIsRecognised
  <2>4. job.port1 \in Int /\ job.port2 \in Int
    BY <1>1, <1>3, JobTypes
  <2> QED
    BY <1>3, <2>3, <2>4
<1> QED
  BY <1>1, <1>2, <1>3

\* A broadcast that ends had nothing to show.
LEMMA InvMute == JourneyInv => MuteIsBlank
BY DEF JourneyInv, PostFits, MuteIsBlank

\* What the streamer asks of its ring is what LAST gave.
LEMMA InvLast == JourneyInv => LastRead
<1> SUFFICES ASSUME JourneyInv, at = "asked"
             PROVE  /\ job.nb \in 0..999 => out = job.nb
                    /\ out = None \/ out <= 999
  BY DEF LastRead
<1>1. job.kind = "last"
  BY DEF JourneyInv, AtFits
<1> QED
  BY <1>1 DEF JourneyInv, LastFits, AskedFits

-----------------------------------------------------------------------------
(* The properties.                                                         *)

\* A journey is at a place of its kind, and every message built, whatever
\* is typed, has the length that msglen knows.
THEOREM JourneyTypes == Spec => []TypeOK
BY JourneyInvariant, InvTypes, PTL

\* What a streamer keeps, broadcasts and repeats of a post, from a client in
\* C or in Java, directly or through the manager, is the author's name up to
\* its first blank or filler and, when the name has no blank, the text up to
\* its first filler, for names and texts of any length.
THEOREM PostsAreKept == Spec => []PostKept
BY JourneyInvariant, InvKept, PTL

\* The manager gives a MESS to the streamer as its client built it.
THEOREM RelayIsTransparent == Spec => []RelayTransparent
BY JourneyInvariant, InvRelay, PTL

\* The manager recognises whatever clients and streamers build, but a REGI
\* with a negative port.
THEOREM BuiltIsRecognised == Spec => []VerifyAccepts
BY JourneyInvariant, InvVerify, PTL

\* Nothing but a post without a name and with blanks only ends the
\* broadcast, among the posts of clients.
THEOREM OnlyBlankMutes == Spec => []MuteIsBlank
BY JourneyInvariant, InvMute, PTL

\* A streamer is reached at the port it was configured with, and at its
\* address, unless C reads an octet as octal.
THEOREM StreamersAreReached == Spec => []ReachedAsRegistered
<1>1. JourneyInv => ReachedAsRegistered
  BY DEF JourneyInv
<1> QED
  BY <1>1, JourneyInvariant, PTL

\* A streamer reads the number asked for, and never one above 999.
THEOREM NumberIsRead == Spec => []LastRead
BY JourneyInvariant, InvLast, PTL

\* The manager starts with the numbers that were typed.
THEOREM ArgumentsAreRead == Spec => []OptionsAsTyped
<1>1. JourneyInv => OptionsAsTyped
  BY DEF JourneyInv
<1> QED
  BY <1>1, JourneyInvariant, PTL

\* LINB says how many ITEM follow.
THEOREM LinbIsExact == Spec => []ListIsAnnounced
<1>1. JourneyInv => ListIsAnnounced
  BY DEF JourneyInv
<1> QED
  BY <1>1, JourneyInvariant, PTL

\* The OLDM of a DIFF has its number, its name and its text; a client's
\* post that was broadcast can be repeated.
THEOREM OldmIsDiff == Spec => OldmRepeatsDiff
<1> DEFINE Step ==
       at = "diff" =>
           \/ at' = "lost" /\ job.kind = "file" /\ getID(wire) = << >> /\ IsBlank(getMsg(wire))
           \/ /\ at' = "oldm" /\ wire'[1].val = "OLDM"
              /\ getNumMsg(wire') = getNumMsg(wire)
              /\ getID(wire') = getID(wire)
              /\ getMsg(wire') = getMsg(wire)
<1>1. JourneyInv /\ [Next]_vars => [Step]_vars
  <2> SUFFICES ASSUME JourneyInv, Next, at = "diff" PROVE Step
    OBVIOUS
  <2>1. PostIsRepeated
    <3>1. ~PostIsSent /\ ~ManagerRelays /\ ~PostIsAdded /\ ~PostIsRead /\ ~PostIsBroadcast
      BY DEF PostIsSent, ManagerRelays, PostIsAdded, PostIsRead, PostIsBroadcast, Build, Go
    <3>2. ~RegiIsSent /\ ~RegiIsListed /\ ~StreamerIsReached /\ ~LastIsSent /\ ~LastIsRead
      BY DEF RegiIsSent, RegiIsListed, StreamerIsReached, LastIsSent, LastIsRead, Build, Go
    <3>3. ~ManagerStarts /\ ~ManagerExits /\ ~ListIsCounted
      BY DEF ManagerStarts, ManagerExits, ListIsCounted, Go
    <3> QED
      BY <3>1, <3>2, <3>3, Zenon DEF Next
  <2> DEFINE m == createPost("OLDM", 0, PostLine(getID(wire), getMsg(wire)))
  <2>2. getNumMsg(wire) = 0 /\ NameFits(getID(wire)) /\ TextFits(getMsg(wire))
    BY DEF JourneyInv, DiffFits
  <2>3. DiffToOldm(wire) = m
    BY <2>2 DEF DiffToOldm
  <2>4. /\ at' = IF m = None THEN "lost" ELSE "oldm"
        /\ wire' = IF m = None THEN wire ELSE m
        /\ job.kind \in {"post", "file"}
    BY <2>1, <2>3 DEF PostIsRepeated, Build, Go
  <2>5. /\ m = None <=> getID(wire) = << >> /\ IsBlank(getMsg(wire))
        /\ m # None => getID(m) = getID(wire) /\ getMsg(m) = getMsg(wire)
    BY <2>2, BroadcastRepeats
  <2>6. m # None => m[1].val = "OLDM" /\ getNumMsg(m) = 0
    <3>1. getID(wire) \in Line /\ getMsg(wire) \in Line
      BY <2>2 DEF NameFits, TextFits
    <3> QED
      BY <3>1, BroadcastFits
  <2>7. job.kind = "post" => ~(getID(wire) = << >> /\ IsBlank(getMsg(wire)))
    BY DEF JourneyInv, PostFits
  <2> HIDE DEF m
  <2>8. CASE m = None
    BY <2>4, <2>5, <2>7, <2>8
  <2>9. CASE m # None
    <3>1. at' = "oldm" /\ wire' = m
      BY <2>4, <2>9
    <3> QED
      BY <2>2, <2>5, <2>6, <2>9, <3>1
  <2> QED
    BY <2>8, <2>9
<1>2. [][Step]_vars <=> OldmRepeatsDiff
  BY DEF OldmRepeatsDiff
<1>3. Spec => []JourneyInv /\ [][Next]_vars
  BY JourneyInvariant, PTL DEF Spec
<1> HIDE DEF Step
<1> QED
  BY <1>1, <1>2, <1>3, PTL

=============================================================================
