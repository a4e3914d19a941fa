------------------------------ MODULE Message -------------------------------
(***************************************************************************)
(* The messages as bytes, in C (c/message.c) and in Java                   *)
(* (java/Message.java), and the conversions of their fields: names, texts, *)
(* numbers and addresses.                                                  *)
(*                                                                         *)
(* A message is the sequence of its fields, each with its width in bytes;  *)
(* the code that takes it apart knows offsets only.  A name or a text is a *)
(* sequence of characters, of which three kinds matter: a letter "x", the  *)
(* separator and the filler.                                               *)
(***************************************************************************)
EXTENDS Integers, Sequences, FiniteSets

CONSTANTS
    MSG_ID_SIZE,        \* 8
    MSG_MESS_SIZE,      \* 140
    USHRT_MAX,          \* the largest port: 2^16 - 1
    INT_MAX,            \* the largest int: 2^31 - 1
    ULONG_MAX,          \* the largest unsigned long: 2^64 - 1
    None                \* no value: an error, or an exception

Space  == " "
Filler == "#"

Chars == {"x", Space, Filler}

MSG_TYPE_SIZE     == 4
MSG_NUM_MESS_SIZE == 4
MSG_PORT_SIZE     == 4
MSG_NB_MESS_SIZE  == 3
MSG_NUM_DIFF_SIZE == 2
MSG_IP_SIZE       == 15
MSG_END_SIZE      == 2

MessageTypes == {"ACKM", "DIFF", "ENDM", "IMOK", "ITEM", "LAST", "LINB", "LIST",
                 "MESS", "OLDM", "REGI", "RENO", "REOK", "RUOK"}

Kinds == {"type", "sep", "end", "int", "signed", "junk", "text", "ip"}

\* The value of a field is a type, a number, a text or an address.
Line == Seq(Chars)

Address == [1..4 -> 0..255]

Fields == [kind : Kinds, width : Nat,
           val : MessageTypes \cup Int \cup Line \cup Address \cup {None}]

\* An int has ten digits at most and holds every port; an unsigned long has a
\* whole number of times the values of an int.
ASSUME MessageAssumption ==
    /\ MSG_ID_SIZE \in Nat \ {0} /\ MSG_MESS_SIZE \in Nat \ {0}
    /\ USHRT_MAX \in Nat /\ INT_MAX \in Nat /\ ULONG_MAX \in Nat
    /\ 10 ^ MSG_PORT_SIZE <= USHRT_MAX /\ USHRT_MAX < INT_MAX /\ INT_MAX \div 10 ^ 9 < 10
    /\ (ULONG_MAX + 1) % (2 * (INT_MAX + 1)) = 0
    /\ None \notin Int \cup Seq(Fields)

Field(k, w, v) == [kind |-> k, width |-> w, val |-> v]

TypeField(t) == Field("type", MSG_TYPE_SIZE, t)
Separator    == Field("sep", 1, 0)
End          == Field("end", MSG_END_SIZE, 0)

\* The fields in turn, separated, after the type.
Assemble(type, fields) ==
    LET n == 2 * Len(fields) + 2
    IN  [i \in 1..n |-> CASE i = 1 -> TypeField(type)
                         [] i = n -> End
                         [] i \in 2..(n - 1) /\ i % 2 = 0 -> Separator
                         [] i \in 2..(n - 1) /\ i % 2 = 1 -> fields[i \div 2]]

\* The bytes of the fields before field i: byte b of field j is <<j, b>>.
BytesBefore(m, i) == UNION {{j} \X (1..m[j].width) : j \in 1..(i - 1)}

\* The offset of field i.
Start(m, i) == Cardinality(BytesBefore(m, i))

Length(m) == Start(m, Len(m) + 1)

msglen(type) ==
    LET T == MSG_TYPE_SIZE + MSG_END_SIZE
    IN  CASE type \in {"DIFF", "OLDM"} -> T + MSG_NUM_MESS_SIZE + MSG_ID_SIZE + MSG_MESS_SIZE + 3
          [] type = "MESS"             -> T + MSG_ID_SIZE + MSG_MESS_SIZE + 2
          [] type \in {"ITEM", "REGI"} -> T + MSG_ID_SIZE + 2 * MSG_IP_SIZE + 2 * MSG_PORT_SIZE + 5
          [] type = "LAST"             -> T + MSG_NB_MESS_SIZE + 1
          [] type = "LINB"             -> T + MSG_NUM_DIFF_SIZE + 1
          [] OTHER                     -> T

-----------------------------------------------------------------------------
(* Fields, as message.c writes them.                                       *)

\* What snprintf keeps of a number too wide: its first digits.
FirstDigits(n, w) ==
    n \div 10 ^ (CHOOSE k \in 0..9 : /\ n \div 10 ^ k < 10 ^ w
                                     /\ k > 0 => n \div 10 ^ (k - 1) >= 10 ^ w)

\* Variant: the room for the number is not limited.
add_int_unlimited(n, w) == Field("int", w, n)

\* A minus sign takes the place of a digit.
add_int(n, w) ==
    IF n >= 0
    THEN Field("int", w, FirstDigits(n, w))
    ELSE Field("signed", w, -(FirstDigits(-n, w) \div 10))

\* Variant: a text too long is not cut.
add_string_whole(s, w) ==
    LET width == IF Len(s) > w THEN Len(s) ELSE w
    IN  Field("text", width, [i \in 1..width |-> IF i <= Len(s) THEN s[i] ELSE Filler])

add_string(s, w) ==
    Field("text", w, [i \in 1..w |-> IF i <= Len(s) THEN s[i] ELSE Filler])

add_ip_addr(ip) == Field("ip", MSG_IP_SIZE, ip)

create_message(type, a) ==
    Assemble(type,
        CASE type \in {"DIFF", "OLDM"} ->
                << add_int(a.num, MSG_NUM_MESS_SIZE),
                   add_string(a.id, MSG_ID_SIZE), add_string(a.text, MSG_MESS_SIZE) >>
          [] type = "MESS" ->
                << add_string(a.id, MSG_ID_SIZE), add_string(a.text, MSG_MESS_SIZE) >>
          [] type \in {"ITEM", "REGI"} ->
                << add_string(a.id, MSG_ID_SIZE),
                   add_ip_addr(a.ip1), add_int(a.port1, MSG_PORT_SIZE),
                   add_ip_addr(a.ip2), add_int(a.port2, MSG_PORT_SIZE) >>
          [] type = "LAST" -> << add_int(a.nb, MSG_NB_MESS_SIZE) >>
          [] type = "LINB" -> << add_int(a.nb, MSG_NUM_DIFF_SIZE) >>
          [] OTHER -> << >>)

-----------------------------------------------------------------------------
(* Recognition, at offsets from 0 as in the code.                          *)

Covers(m, i, off) == Start(m, i) <= off /\ off < Start(m, i) + m[i].width

\* Variant: verify_separator looks at the byte before.
verify_separator_before(m, off) ==
    \E i \in DOMAIN m : Covers(m, i, off - 1) /\ m[i].kind = "sep"

verify_separator(m, off) ==
    \E i \in DOMAIN m : Covers(m, i, off) /\
        \/ m[i].kind = "sep"
        \/ m[i].kind = "text" /\ m[i].val[off - Start(m, i) + 1] = Space

IsAt(m, kind, off, w) ==
    \E i \in DOMAIN m : m[i].kind = kind /\ Start(m, i) = off /\ m[i].width = w

verify_int(m, off, w) == IsAt(m, "int", off, w)

verify_ip_addr(m, off) == IsAt(m, "ip", off, MSG_IP_SIZE)

verify_end(m, off) == IsAt(m, "end", off, MSG_END_SIZE)

\* The second separator of DIFF and OLDM is looked for MSG_MESS_SIZE bytes
\* after the first, where the text is.
verify_msg(m) ==
    LET T == MSG_TYPE_SIZE
        type == m[1].val
    IN  /\ Length(m) = msglen(type)
        /\ CASE type \in {"DIFF", "OLDM"} ->
                   /\ verify_separator(m, T)
                   /\ verify_int(m, T + 1, MSG_NUM_MESS_SIZE)
                   /\ verify_separator(m, T + 1 + MSG_NUM_MESS_SIZE)
                   /\ verify_separator(m, T + 2 + MSG_NUM_MESS_SIZE + MSG_MESS_SIZE)
                   /\ verify_end(m, T + MSG_NUM_MESS_SIZE + MSG_ID_SIZE + MSG_MESS_SIZE + 3)
             [] type = "MESS" ->
                   /\ verify_separator(m, T)
                   /\ verify_separator(m, T + 1 + MSG_ID_SIZE)
                   /\ verify_end(m, T + MSG_ID_SIZE + MSG_MESS_SIZE + 2)
             [] type \in {"ITEM", "REGI"} ->
                   LET ip1 == T + 2 + MSG_ID_SIZE
                       port1 == ip1 + MSG_IP_SIZE + 1
                       ip2 == port1 + MSG_PORT_SIZE + 1
                       port2 == ip2 + MSG_IP_SIZE + 1
                   IN  /\ \A off \in {T, ip1 - 1, port1 - 1, ip2 - 1} : verify_separator(m, off)
                       /\ verify_ip_addr(m, ip1) /\ verify_int(m, port1, MSG_PORT_SIZE)
                       /\ verify_ip_addr(m, ip2) /\ verify_int(m, port2, MSG_PORT_SIZE)
                       /\ verify_end(m, port2 + MSG_PORT_SIZE)
             [] type \in {"LAST", "LINB"} ->
                   LET w == IF type = "LAST" THEN MSG_NB_MESS_SIZE ELSE MSG_NUM_DIFF_SIZE
                   IN  verify_separator(m, T) /\ verify_int(m, T + 1, w) /\ verify_end(m, T + 1 + w)
             [] OTHER -> verify_end(m, T)

\* What a memmove or a copyOfRange takes, when it takes a field.
Extract(m, off, w) ==
    LET at == {i \in DOMAIN m : Start(m, i) = off /\ m[i].width = w}
    IN  IF at = {} THEN None ELSE m[CHOOSE i \in at : TRUE].val

-----------------------------------------------------------------------------
(* Message.java.  createMsg takes a line apart at its blanks.              *)

First(s, chars) ==
    LET at == {i \in DOMAIN s : s[i] \in chars}
    IN  IF at = {} THEN Len(s) + 1 ELSE CHOOSE i \in at : \A j \in at : i <= j

Before(s, chars) == SubSeq(s, 1, First(s, chars) - 1)

IsBlank(s) == \A i \in DOMAIN s : s[i] = Space

removeDefChar(s) == Before(s, {Filler})

\* The end of the line of a post.
PostLine(id, text) == id \o <<Space>> \o text

\* Variant: the text of a DIFF or of a MESS starts with the separator.
createPostKeepsBlank(type, num, line) ==
    LET blank == First(line, {Space})
        id == Before(line, {Space})
    IN  IF blank > Len(line) \/ Len(id) > MSG_ID_SIZE \/ IsBlank(line)
        THEN None
        ELSE create_message(type, [num |-> num, id |-> id,
                                   text |-> SubSeq(line, blank, Len(line))])

\* Variant: a DIFF or a MESS needs a text.
createPostNeedsText(type, num, line) ==
    LET blank == First(line, {Space})
        id == Before(line, {Space})
    IN  IF blank >= Len(line) \/ Len(id) > MSG_ID_SIZE \/ IsBlank(line)
        THEN None
        ELSE create_message(type, [num |-> num, id |-> id,
                                   text |-> SubSeq(line, blank + 1, Len(line))])

\* DIFF, OLDM and MESS from the end of the line, an id, a blank and a text:
\* the id ends at the first blank, split drops what is empty at the end, and
\* an id too long does not fit.
createPost(type, num, line) ==
    LET blank == First(line, {Space})
        id == Before(line, {Space})
    IN  IF blank > Len(line) \/ Len(id) > MSG_ID_SIZE \/ IsBlank(line)
        THEN None
        ELSE create_message(type, [num |-> num, id |-> id,
                                   text |-> SubSeq(line, blank + 1, Len(line))])

\* intToCharBytes: a number too wide does not fit.
FitsIn(n, w) == IF n >= 0 THEN n < 10 ^ w ELSE -n < 10 ^ (w - 1)

\* Zeros before a minus sign are no number.
intToCharBytes(n, w) ==
    IF n >= 0 THEN Field("int", w, n)
    ELSE IF -n >= 10 ^ (w - 2) THEN Field("signed", w, n)
    ELSE Field("junk", w, None)

createLast(n) ==
    IF FitsIn(n, MSG_NB_MESS_SIZE)
    THEN Assemble("LAST", <<intToCharBytes(n, MSG_NB_MESS_SIZE)>>)
    ELSE None

\* A blank in the id moves the addresses to the places of the ports, where
\* they do not fit.
createRegi(a) ==
    IF /\ Len(a.id) <= MSG_ID_SIZE /\ First(a.id, {Space}) > Len(a.id)
       /\ FitsIn(a.port1, MSG_PORT_SIZE) /\ FitsIn(a.port2, MSG_PORT_SIZE)
    THEN Assemble("REGI", << add_string(a.id, MSG_ID_SIZE),
                             add_ip_addr(a.ip1), intToCharBytes(a.port1, MSG_PORT_SIZE),
                             add_ip_addr(a.ip2), intToCharBytes(a.port2, MSG_PORT_SIZE) >>)
    ELSE None

\* Where the id and the text of a message are.
IdAt(type) == MSG_TYPE_SIZE + 1 + IF type = "MESS" THEN 0 ELSE MSG_NUM_MESS_SIZE + 1

getID(m) == removeDefChar(Extract(m, IdAt(m[1].val), MSG_ID_SIZE))

getMsg(m) == removeDefChar(Extract(m, IdAt(m[1].val) + MSG_ID_SIZE + 1, MSG_MESS_SIZE))

getNumMsg(m) == Extract(m, MSG_TYPE_SIZE + 1, MSG_NUM_MESS_SIZE)

getNbMsg(m) == Extract(m, MSG_TYPE_SIZE + 1, MSG_NB_MESS_SIZE)

getNumDiff(m) == Extract(m, MSG_TYPE_SIZE + 1, MSG_NUM_DIFF_SIZE)

\* The line that readLine gives to a streamer, after its type.
LineOf(m) ==
    PostLine(Extract(m, MSG_TYPE_SIZE + 1, MSG_ID_SIZE),
             Extract(m, MSG_TYPE_SIZE + 1 + MSG_ID_SIZE + 1, MSG_MESS_SIZE))

\* Variant: the text goes before the id.
DiffToOldmSwapped(m) == createPost("OLDM", getNumMsg(m), PostLine(getMsg(m), getID(m)))

DiffToOldm(m) == createPost("OLDM", getNumMsg(m), PostLine(getID(m), getMsg(m)))

-----------------------------------------------------------------------------
(* Addresses and numbers as texts.                                         *)

\* inet_aton on a field of three digits: one that starts with 0 is octal.
ReadOctet(n) ==
    IF n >= 100 THEN n
    ELSE IF n \div 10 > 7 \/ n % 10 > 7 THEN None
    ELSE 8 * (n \div 10) + (n % 10)

inet_aton(ip) ==
    IF \E i \in DOMAIN ip : ReadOctet(ip[i]) = None
    THEN None
    ELSE [i \in DOMAIN ip |-> ReadOctet(ip[i])]

Abs(n) == IF n < 0 THEN -n ELSE n

strtoul(n) == IF Abs(n) > ULONG_MAX THEN None ELSE n % (ULONG_MAX + 1)

\* Variant: the value is stored in a narrower type.
ToShort(u) == u % ((USHRT_MAX + 1) \div 2)

ToInt(u) ==
    LET values == 2 * (INT_MAX + 1)
        v == u % values
    IN  IF v > INT_MAX THEN v - values ELSE v

\* A text that is no number is None.
set_uint_from_string(n) ==
    IF n = None \/ strtoul(n) = None \/ ToInt(strtoul(n)) < 0 THEN None ELSE ToInt(strtoul(n))

htons(port) == port % (USHRT_MAX + 1)

=============================================================================
