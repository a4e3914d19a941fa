------------------------------ MODULE ClientLib -----------------------------
(***************************************************************************)
(* One call of a function of the C clients: the library c/client.c, which  *)
(* the manager and scenario_many_clients.c call too, and the three         *)
(* conversations of c/client_keyboard.c.  They connect, send one request   *)
(* and take each recv for one message, while TCP is a stream of bytes: a   *)
(* recv returns what has arrived, up to the room it is given, be it less   *)
(* than a message or several of them.                                      *)
(*                                                                         *)
(* A place in the stream is a number of bytes.  What a recv puts in its    *)
(* buffer is a chunk of the stream; of the bytes, only the first four, the *)
(* type, and the number of LINB matter to the code.  A text that contains  *)
(* the name of a type at the place where a chunk starts is left out.       *)
(***************************************************************************)
EXTENDS Integers, Sequences, FiniteSets

CONSTANTS
    MaxAsked,   \* the largest number of messages asked for: 999
    MaxListed,  \* the most streamers a manager lists: 99
    Cuts        \* the offsets at which TCP may cut a message

ASSUME ClientLibAssumption ==
    /\ MaxAsked \in Nat /\ MaxListed \in 0..99
    /\ Cuts \subseteq Nat

VARIABLES
    call,       \* the function that runs
    asked,      \* *nb_mess at the start
    pc,         \* where it stands: before its connection, at a recv, or back
    reply,      \* the types of the messages the server means to send
    sent,       \* how many of them it has sent
    server,     \* the state of the connection at the other end
    pos,        \* how many bytes the call has received
    size,       \* *size, num_diff; for LAST, what *nb_mess has become
    chunks,     \* what it received in its loop, one chunk per recv
    stored,     \* how many pointers it has written in its array
    result      \* whether it ended on a return of success or of error

stream == <<reply, sent, server>>
locals == <<pos, size, chunks, stored, result>>
vars == <<call, asked, pc, stream, locals>>

Lists == {"get_streamer_list", "communication_gest"}
Lasts == {"get_last_mess", "last_diff"}
Posts == {"send_mess_to_streamer", "mess_diff"}

msglen(type) == CASE type = "OLDM" -> 161
                  [] type = "ITEM" -> 57
                  [] type = "LINB" -> 9
                  [] OTHER -> 6

-----------------------------------------------------------------------------
(* The servers, as manager.c and ClientService.java serve these requests.  *)

Copies(n, type) == [k \in 1..n |-> type]

\* LINB and what it announces; what there is, up to what was asked, and
\* ENDM.
ListReplies == {<<"LINB">> \o Copies(n, "ITEM") : n \in 0..MaxListed}
LastReplies == {Append(Copies(n, "OLDM"), "ENDM") : n \in 0..asked}
MessReplies == {<<"ACKM">>}

ServerSends ==
    /\ server = "serving"
    /\ sent < Len(reply)
    /\ sent' = sent + 1
    /\ UNCHANGED <<call, asked, pc, reply, server, locals>>

\* Once everything is sent, or before when the process ends or the thread
\* meets an exception; it may also stay silent for ever.
ServerStops ==
    /\ server = "serving"
    /\ server' \in {"fin", "reset"}
    /\ UNCHANGED <<call, asked, pc, reply, sent, locals>>

-----------------------------------------------------------------------------
(* TCP                                                                     *)

\* Where the message after the k first ones starts.
Offset(k) ==
    LET Count(types) == Cardinality({j \in 1..k : reply[j] \in types})
    IN  msglen("LINB") * Count({"LINB"}) + msglen("ITEM") * Count({"ITEM"})
            + msglen("OLDM") * Count({"OLDM"}) + msglen("ENDM") * Count({"ENDM", "ACKM"})

\* Where TCP may cut the stream: between messages, and inside of them.
CutPoints ==
    {Offset(k) + c : k \in 0..(Len(reply) - 1), c \in Cuts \cup {0}}

\* What was not received when a recv has failed is lost.
Available == IF server = "lost" THEN 0 ELSE Offset(sent) - pos

\* The values a recv may return, with so much room; 0 is the end of the
\* stream.
Received(room) ==
    {r \in {room, Available} \cup {p - pos : p \in CutPoints} :
        r > 0 /\ r <= room /\ r <= Available}
        \cup {r \in {0} : server \in {"fin", "lost"} /\ Available = 0}

Fails == server = "reset" /\ server' = "lost" /\ UNCHANGED <<reply, sent>>

\* get_msg_type on the first r bytes of a chunk.
TypeOf(r) ==
    IF r >= 4 /\ \E k \in DOMAIN reply : pos = Offset(k - 1)
    THEN reply[CHOOSE k \in DOMAIN reply : pos = Offset(k - 1)]
    ELSE "none"

\* get_msg_type on an array that was not written.
Garbage == {"ACKM", "OLDM", "ENDM", "none"}

-----------------------------------------------------------------------------
Init ==
    /\ call \in Lists \cup Lasts \cup Posts
    /\ asked \in IF call \in Lasts THEN 0..MaxAsked ELSE {0}
    /\ pc = "request"
    /\ reply = <<>> /\ sent = 0 /\ server = "none"
    /\ pos = 0
    /\ size = 0
    /\ chunks = <<>>
    /\ stored = 0
    /\ result = "none"

\* The end of a call, on one of the returns of the code.  A caller of the
\* library sees which; one of client_keyboard.c does not, for EXIT_FAILURE is
\* 1 there, as success is: only the screen tells.
Return(outcome) == pc' = "returned" /\ result' = outcome

\* The request has left: the server has one of these replies to give.
Request(functions, replies, label) ==
    /\ pc = "request" /\ pc' = label
    /\ call \in functions
    /\ reply' \in replies
    /\ server' = "serving"
    /\ UNCHANGED <<call, asked, sent, locals>>

RequestList == Request(Lists, ListReplies, "linb")
RequestLast == Request(Lasts, LastReplies, "oldm")
RequestMess == Request(Posts, MessReplies, "ackm")

\* The address, socket, connect or send.
RequestFails ==
    /\ pc = "request"
    /\ Return("error")
    /\ UNCHANGED <<call, asked, stream, pos, size, chunks, stored>>

-----------------------------------------------------------------------------
(* get_streamer_list; communication_gest and recv_message_gest             *)

\* The number read in the r first bytes of LINB, which ends at buf[r] and
\* is not initialised after that; -1 stands for a negative one.
Number(r) ==
    CASE r >= 7 -> {Len(reply) - 1}
      [] r = 6  -> {(Len(reply) - 1) \div 10}
      [] r = 5  -> {0}
      [] OTHER  -> -1..MaxListed

RecvLinb ==
    /\ pc = "linb"
    /\ \E r \in Received(511) :
        /\ pos' = pos + r
        /\ \/ TypeOf(r) = "LINB" /\ size' \in Number(r) /\ pc' = "item" /\ UNCHANGED result
           \/ TypeOf(r) # "LINB" /\ Return("error") /\ UNCHANGED size
    /\ UNCHANGED <<call, asked, stream, chunks, stored>>

ItemRoom == IF call = "get_streamer_list" THEN msglen("ITEM") ELSE 511

\* Takes r bytes in a new chunk; only the library keeps them in an array.
Take(r) ==
    /\ pos' = pos + r
    /\ chunks' = Append(chunks, [from |-> pos, len |-> r])
    /\ stored' = IF call \in {"get_streamer_list", "get_last_mess"} THEN stored + 1 ELSE stored

\* Variant: the type of the message is not tested.
RecvItemUntyped ==
    /\ pc = "item"
    /\ Len(chunks) < size
    /\ \E r \in Received(ItemRoom) : Take(r)
    /\ UNCHANGED <<call, asked, pc, stream, size, result>>

RecvItem ==
    /\ pc = "item"
    /\ Len(chunks) < size
    /\ \E r \in Received(ItemRoom) :
        /\ Take(r)
        /\ \/ TypeOf(r) = "ITEM" /\ UNCHANGED <<pc, result>>
           \/ TypeOf(r) # "ITEM" /\ Return("error")
    /\ UNCHANGED <<call, asked, stream, size>>

\* malloc has no room for a negative number of pointers: NULL.
ListEnds ==
    /\ pc = "item"
    /\ Len(chunks) >= size
    /\ Return(IF call = "get_streamer_list" /\ size < 0 THEN "error" ELSE "success")
    /\ UNCHANGED <<call, asked, stream, pos, size, chunks, stored>>

-----------------------------------------------------------------------------
(* get_last_mess; last_diff                                                *)

\* Variant: the library gives recv the same room as the keyboard.
OldmRoomWide == 511

OldmRoom == IF call = "get_last_mess" THEN msglen("OLDM") ELSE 511

\* What the loop does with a message of that type: the array of the library
\* loses its last element, ENDM, and *nb_mess becomes the index i.
Sort(type) ==
    \/ type = "OLDM" /\ UNCHANGED <<pc, size, result>>
    \/ type = "ENDM" /\ size' = Len(chunks) /\ Return("success")
    \/ type \notin {"OLDM", "ENDM"} /\ Return("error") /\ UNCHANGED size

\* Variant: ENDM is counted.
RecvOldmCountsEndm ==
    /\ pc = "oldm"
    /\ Len(chunks) <= asked
    /\ \E r \in Received(OldmRoom) :
        /\ Take(r)
        /\ \/ TypeOf(r) = "ENDM" /\ size' = Len(chunks') /\ Return("success")
           \/ TypeOf(r) # "ENDM" /\ Sort(TypeOf(r))
    /\ UNCHANGED <<call, asked, stream>>

\* Variant: what is not ENDM is taken for OLDM.
RecvOldmUntyped ==
    /\ pc = "oldm"
    /\ Len(chunks) <= asked
    /\ \E r \in Received(OldmRoom) :
        /\ Take(r)
        /\ Sort(IF TypeOf(r) = "ENDM" THEN "ENDM" ELSE "OLDM")
    /\ UNCHANGED <<call, asked, stream>>

\* Variant: at the end of the stream, recv is called again.
RecvOldmRetries ==
    /\ pc = "oldm"
    /\ Len(chunks) <= asked
    /\ \E r \in Received(OldmRoom) :
        \/ r > 0 /\ Take(r) /\ Sort(TypeOf(r))
        \/ r = 0 /\ UNCHANGED <<pc, locals>>
    /\ UNCHANGED <<call, asked, stream>>

RecvOldm ==
    /\ pc = "oldm"
    /\ Len(chunks) <= asked
    /\ \E r \in Received(OldmRoom) : Take(r) /\ Sort(TypeOf(r))
    /\ UNCHANGED <<call, asked, stream>>

\* The result of recv is not tested: a zero goes before the buffer and the
\* type is read from what the buffer held.
RecvOldmFails ==
    /\ pc = "oldm"
    /\ Len(chunks) <= asked
    /\ Fails
    /\ Take(0)
    /\ \E type \in Garbage : Sort(type)
    /\ UNCHANGED <<call, asked>>

\* The loop ends without ENDM: *nb_mess stays what it was.
LastEnds ==
    /\ pc = "oldm"
    /\ Len(chunks) > asked
    /\ size' = asked
    /\ Return("success")
    /\ UNCHANGED <<call, asked, stream, pos, chunks, stored>>

-----------------------------------------------------------------------------
(* send_mess_to_streamer; mess_diff                                        *)

\* ackm is neither initialised nor ended by a zero, buf is.
AckmType(r) ==
    IF call = "send_mess_to_streamer" /\ r < 4 THEN {"ACKM", "none"} ELSE {TypeOf(r)}

\* mess_diff compares the type with 0, which no message has.
RecvAckm ==
    /\ pc = "ackm"
    /\ \E r \in Received(IF call = "mess_diff" THEN 511 ELSE msglen("ACKM")) :
        /\ pos' = pos + r
        /\ \E type \in AckmType(r) :
            Return(IF call = "send_mess_to_streamer" /\ type = "ACKM" THEN "success" ELSE "error")
    /\ UNCHANGED <<call, asked, stream, size, chunks, stored>>

\* The recv whose failure is tested.
RecvFails ==
    /\ \/ pc \in {"linb", "ackm"}
       \/ pc = "item" /\ Len(chunks) < size
    /\ Fails
    /\ Return("error")
    /\ UNCHANGED <<call, asked, pos, size, chunks, stored>>

-----------------------------------------------------------------------------
Client ==
    \/ RecvLinb \/ RecvItem \/ ListEnds
    \/ RecvOldm \/ RecvOldmFails \/ LastEnds
    \/ RecvAckm \/ RecvFails

\* Nothing is left to do.
Done == pc = "returned" /\ UNCHANGED vars

Next ==
    \/ RequestList \/ RequestLast \/ RequestMess \/ RequestFails
    \/ ServerSends \/ ServerStops
    \/ Client
    \/ Done

Spec == Init /\ [][Next]_vars

\* The caller's thread runs.  Nothing is assumed of the server.
FairSpec == Spec /\ WF_vars(Client)

-----------------------------------------------------------------------------
(* Properties.                                                             *)

TypeOK ==
    /\ call \in Lists \cup Lasts \cup Posts
    /\ asked \in 0..MaxAsked
    /\ pc \in {"request", "linb", "item", "oldm", "ackm", "returned"}
    /\ reply \in Seq({"LINB", "ITEM", "OLDM", "ENDM", "ACKM"})
    /\ sent \in 0..Len(reply)
    /\ server \in {"none", "serving", "fin", "reset", "lost"}
    /\ pos \in 0..Offset(sent)
    /\ size \in -1..(IF call \in Lasts THEN asked ELSE MaxListed)
    /\ chunks \in Seq([from : 0..Offset(sent), len : 0..511])
    /\ stored \in 0..Len(chunks)
    /\ result \in {"none", "success", "error"}

Succeeded(functions) == call \in functions /\ result = "success"

\* Chunk c starts where the k-th message of the reply does, or is all of it.
Starts(c, k) == c.from = Offset(k - 1)
IsMessage(c, k) == Starts(c, k) /\ c.len = msglen(reply[k])

\* However TCP cuts the stream, a consultation of the last messages that
\* succeeds went as far as ENDM, and the array of get_last_mess is the OLDM
\* messages sent, each whole, in their order, with their number: a piece of
\* a message is never taken for a message.  A failed recv, whose
\* result is not tested, is apart.
LastIsWhole ==
    Succeeded(Lasts) /\ server # "lost" =>
        /\ Starts(chunks[Len(chunks)], Len(reply))
        /\ call = "get_last_mess" =>
            /\ size = Len(reply) - 1
            /\ \A k \in 1..size : IsMessage(chunks[k], k)

\* However TCP cuts the stream, a list of at least one streamer that
\* succeeds has as many as the manager sent, each at its place, and only the
\* last one can be incomplete: LINB was received alone.
ListIsReply ==
    Succeeded(Lists) /\ size > 0 =>
        /\ size = Len(reply) - 1
        /\ \A k \in 1..size : Starts(chunks[k], k + 1)
        /\ \A k \in 1..(size - 1) : IsMessage(chunks[k], k + 1)

\* The server sent its whole reply and no recv failed.
AllSent == server \in {"serving", "fin"} /\ sent = Len(reply)

\* get_last_mess gives up a complete reply only when TCP cut a message in
\* two; that messages arrive together is no reason, for the room it gives to
\* recv is that of one OLDM and what is shorter comes last.
LastErrorIsCut ==
    call = "get_last_mess" /\ result = "error" /\ AllSent =>
        \E c \in {chunks[k] : k \in DOMAIN chunks} :
            \A k \in 0..Len(reply) : c.from + c.len # Offset(k)

\* A call whose server is gone, whatever it had sent, comes to an end.
CallReturns ==
    pc \notin {"request", "returned"} /\ server # "serving" ~> pc = "returned"

\* client.h:40 promises the list when all goes well ("Si tout se passe bien
\* un tableau"): one whose messages all left the manager is returned whole.
ListIsReturned ==
    call = "get_streamer_list" /\ pc = "returned" /\ AllSent =>
        /\ result = "success"
        /\ size = Len(reply) - 1

\* client.h:26 promises an array allocated by malloc, for as many messages
\* as were asked for: when all goes well no pointer is written past them.
StaysInArray == AllSent /\ Succeeded({"get_last_mess"}) => stored <= asked

=============================================================================
