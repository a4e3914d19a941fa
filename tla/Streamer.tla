------------------------------ MODULE Streamer ------------------------------
(***************************************************************************)
(* A streamer process ("diffuseur", java/Streamer.java).  Four kinds of    *)
(* threads share the Streamer object, whose monitor they take:             *)
(*   - MulticastService builds the next DIFF message and puts it in the    *)
(*     ring lastStreamed under the monitor, sends it outside of it;        *)
(*   - one ClientService per connection serves one LAST or MESS request,   *)
(*     its replies written under the monitor;                              *)
(*   - ImageMulticastService takes the next image under the monitor, and   *)
(*     sends it outside of it;                                             *)
(*   - the main thread accepts the connections.                            *)
(* The ManagerService thread touches none of this state: see Manager.      *)
(*                                                                         *)
(* A block synchronized on the streamer is one step when nothing in it     *)
(* waits, and one step per write to the socket otherwise: such a write     *)
(* waits for a client that does not read.                                  *)
(***************************************************************************)
EXTENDS Naturals, Sequences, FiniteSets

CONSTANTS
    Conns,          \* the connections clients make to the streamer
    RingSize,       \* lastStreamed.length: 1000
    MAX_NUM_MESS,   \* 9999
    MaxLast,        \* the largest nb-mess of a LAST message: 999
    Window,         \* how many unread messages a connection holds
    Authors,        \* the ids in the file of messages
    ClientTexts,    \* the texts clients post
    InitialPosts,   \* what diffMess and IDs may hold at the start
    ImageFile,      \* the lines of the file of images, or none
    NetworkFails,   \* whether a datagram may be refused by the network
    Blank,          \* the empty id, which is written ########
    None            \* absence of a value: null

Texts == {"plain", "sharp", "cut", "blank"}

ASSUME StreamerAssumption ==
    /\ IsFiniteSet(Conns)
    /\ RingSize \in Nat \ {0}
    /\ MaxLast \in Nat /\ MaxLast < RingSize
    /\ MAX_NUM_MESS \in Nat /\ RingSize <= MAX_NUM_MESS
    /\ Window \in Nat \ {0}
    /\ ClientTexts \subseteq {"plain", "sharp", "blank"}
    /\ InitialPosts \subseteq Seq([id : Authors \cup {Blank}, text : {"plain", "sharp", "blank"}])
    /\ ImageFile \in Seq(STRING)
    /\ NetworkFails \in BOOLEAN
    /\ None \notin Conns
    /\ None \notin [type : {"DIFF"}, num : Nat, id : Authors \cup Conns \cup {Blank}, text : Texts]
    /\ Blank \notin Conns \cup Authors

VARIABLES
    server,         \* the state of the ServerSocket
    monitor,        \* the connection whose thread is in the monitor, or None
    diffMess,       \* the posts: diffMess and IDs, which grow together
    current, num,   \* index of the next post, number of the next DIFF
    lastStreamed,   \* the ring of the last DIFF messages
    lastSend,       \* where the next one goes
    caster,         \* where the MulticastService thread stands
    packet,         \* messB, the message it is about to send
    air,            \* the last datagram sent
    images,         \* the images
    currentImage,   \* index of the next one
    imager, image,  \* where the ImageMulticastService thread stands, its image
    pc,             \* where the thread of a connection stands
    req,            \* the request it read
    last,           \* its array last, what remains of it
    written,        \* what it has written to the client
    unread,         \* how much of it the client has not read
    recent          \* history: the last RingSize messages put in the ring

ring == <<lastStreamed, lastSend, recent>>
casting == <<current, num, caster, packet, air>>
imaging == <<images, currentImage, imager, image>>
clients == <<pc, req, last, written, unread>>
vars == <<server, monitor, diffMess, ring, casting, imaging, clients>>

-----------------------------------------------------------------------------
(* Messages.  A text is "plain", "sharp" (a # after its first character),  *)
(* "cut" (what precedes the # of a sharp one) or "blank".                  *)

Post == [id : Authors \cup Conns \cup {Blank}, text : Texts]

DIFF(n, p) == [type |-> "DIFF", num |-> n, id |-> p.id, text |-> p.text]

\* An array of zero bytes, what new byte[n][] is filled with.
Zero == [type |-> "NUL", num |-> 0, id |-> Blank, text |-> "blank"]

Endm == [type |-> "ENDM"]
Ackm == [type |-> "ACKM"]

removeDefChar(t) == IF t = "sharp" THEN "cut" ELSE t

\* split drops the empty fields at the end: createMsg finds no id in a DIFF
\* or OLDM message whose id and text are empty, and throws.
Encodable(p) == p.id # Blank \/ p.text # "blank"

DiffToOldm(m) == [m EXCEPT !.type = "OLDM", !.text = removeDefChar(@)]

\* DiffToOldm throws on anything else.
Convertible(m) == m.type = "DIFF" /\ Encodable(DiffToOldm(m))

Requests(c) ==
    [type : {"LAST"}, nb : 0..MaxLast]
        \cup [type : {"MESS"}, id : {c, Blank}, text : ClientTexts]
        \cup {[type |-> "OTHER"]}   \* or unreadable, or no request at all

-----------------------------------------------------------------------------
\* The first line is taken for an id, as in the file of messages.
addImagesFromFile == IF ImageFile = <<>> THEN <<>> ELSE Tail(ImageFile)

Init ==
    /\ server = "starting"
    /\ monitor = None
    /\ diffMess \in InitialPosts
    /\ current = 0 /\ num = 0
    /\ lastStreamed = [i \in 0..(RingSize - 1) |-> None]
    /\ lastSend = 0
    /\ caster = "build"
    /\ packet = None
    /\ air = None
    /\ images = addImagesFromFile
    /\ currentImage = 0
    /\ imager = IF images = <<>> THEN "none" ELSE "build"
    /\ image = None
    /\ pc = [c \in Conns |-> "none"]
    /\ req = [c \in Conns |-> None]
    /\ last = [c \in Conns |-> <<>>]
    /\ written = [c \in Conns |-> <<>>]
    /\ unread = [c \in Conns |-> 0]
    /\ recent = <<>>

-----------------------------------------------------------------------------
(* MulticastService.run                                                    *)

Push(s, m) == IF Len(s) < RingSize THEN Append(s, m) ELSE Append(Tail(s), m)

Succ(i, n) == IF i + 1 = n THEN 0 ELSE i + 1

\* The block synchronized on the streamer: it takes the next post, which an
\* exception in getMess or createMsg would prevent before anything changes.
Castable == current < Len(diffMess) /\ Encodable(diffMess[current + 1])

\* Variant: current is not reset after the last post.
NextCurrentNoReset == current + 1

\* Variant: the last post is taken for the end of the list.
NextCurrentSkipsLast == Succ(current, Len(diffMess) - 1)

NextCurrent == Succ(current, Len(diffMess))

\* Variant: the number is not reset after the largest.
NextNumStuck == IF num + 1 = MAX_NUM_MESS THEN num ELSE num + 1

NextNum == Succ(num, MAX_NUM_MESS)

\* Variant: the last place of the ring is not used.
NextSendShort == Succ(lastSend, RingSize - 1)

NextSend == Succ(lastSend, RingSize)

Build ==
    /\ caster = "build" /\ caster' = "send"
    /\ monitor = None
    /\ Castable
    /\ packet' = DIFF(num, diffMess[current + 1])
    /\ num' = NextNum
    /\ current' = NextCurrent
    /\ lastStreamed' = [lastStreamed EXCEPT ![lastSend] = packet']
    /\ lastSend' = NextSend
    /\ recent' = Push(recent, packet')
    /\ UNCHANGED <<server, monitor, diffMess, air, imaging, clients>>

\* The exception is caught outside of the loop: the thread ends.
BuildFails ==
    /\ caster = "build" /\ caster' = "dead"
    /\ monitor = None
    /\ ~Castable
    /\ UNCHANGED <<server, monitor, diffMess, ring, current, num, packet, air, imaging, clients>>

\* After the datagram the thread sleeps, then builds the next one.
SendDatagram ==
    /\ caster = "send" /\ caster' = "build"
    /\ air' = packet
    /\ UNCHANGED <<server, monitor, diffMess, ring, current, num, packet, imaging, clients>>

\* Variant: the exception is caught inside the loop.
SendFailsGoesOn ==
    /\ NetworkFails
    /\ caster = "send" /\ caster' = "build"
    /\ UNCHANGED <<server, monitor, diffMess, ring, current, num, packet, air, imaging, clients>>

SendFails ==
    /\ NetworkFails
    /\ caster = "send" /\ caster' = "dead"
    /\ UNCHANGED <<server, monitor, diffMess, ring, current, num, packet, air, imaging, clients>>

Cast == Build \/ BuildFails \/ SendDatagram \/ SendFails

-----------------------------------------------------------------------------
(* ImageMulticastService.run                                               *)

\* Variant: the last image is taken for the end of the list.
NextImageSkipsLast == Succ(currentImage, Len(images) - 1)

NextImage == Succ(currentImage, Len(images))

TakeImage ==
    /\ imager = "build" /\ imager' = "send"
    /\ monitor = None
    /\ image' = images[currentImage + 1]
    /\ currentImage' = NextImage
    /\ UNCHANGED <<server, monitor, diffMess, ring, casting, images, clients>>

\* The variable of the image ends with the turn of the loop.  An image that
\* the network refuses, one too large for a datagram for instance, ends the
\* thread.
SendImage ==
    /\ imager = "send"
    /\ imager' \in IF NetworkFails THEN {"build", "dead"} ELSE {"build"}
    /\ image' = None
    /\ UNCHANGED <<server, monitor, diffMess, ring, casting, images, currentImage, clients>>

CastImage == TakeImage \/ SendImage

-----------------------------------------------------------------------------
(* Streamer.startStream: the main thread, once the others are started.     *)

\* When the port is taken the exception ends the main thread only: the
\* streamer goes on broadcasting, and stays registered, without serving.
Bind ==
    /\ server = "starting"
    /\ server' \in {"listening", "failed"}
    /\ UNCHANGED <<monitor, diffMess, ring, casting, imaging, clients>>

Accept(c) ==
    /\ server = "listening"
    /\ pc[c] = "none"
    /\ pc' = [pc EXCEPT ![c] = "read"]
    /\ UNCHANGED <<server, monitor, diffMess, ring, casting, imaging, req, last, written, unread>>

-----------------------------------------------------------------------------
(* ClientService.run                                                       *)

Step(c, from, to) ==
    /\ pc[c] = from
    /\ pc' = [pc EXCEPT ![c] = to]
    /\ UNCHANGED <<server, casting, imaging, ring>>

\* synchronized(this.stream)
Enter(c) == monitor = None /\ monitor' = c

Exit == monitor' = None

\* A socket that is left open by an exception, or by the default case, is
\* never closed: its client is left waiting.
ReadRequest(c) ==
    /\ \E r \in Requests(c) :
        /\ req' = [req EXCEPT ![c] = r]
        /\ Step(c, "read", CASE r.type = "LAST" -> "last"
                             [] r.type = "MESS" -> "mess"
                             [] OTHER -> "hung")
    /\ UNCHANGED <<monitor, diffMess, last, written, unread>>

nbElements == Cardinality({i \in DOMAIN lastStreamed : lastStreamed[i] # None})

\* Streamer.getLastMess.  arr and arr2 are the two ends of the ring; the
\* loop that copies arr after arr2 runs from arr2.length to arr.length and
\* indexes arr by the place in ret.
getLastMess(nb) ==
    IF nb > nbElements
    THEN [i \in 1..nbElements |-> lastStreamed[i - 1]]
    ELSE IF nb > lastSend
    THEN [i \in 1..nb |->
            IF i <= nb - lastSend THEN lastStreamed[nbElements - (nb - lastSend) + i - 1]
            ELSE IF i <= lastSend THEN lastStreamed[i - 1]
            ELSE Zero]
    ELSE [i \in 1..nb |-> lastStreamed[lastSend - nb + i - 1]]

\* Variant: the reply to LAST is not synchronized.
EnterLastUnlocked(c) ==
    /\ Step(c, "last", "oldm")
    /\ UNCHANGED monitor
    /\ last' = [last EXCEPT ![c] = getLastMess(req[c].nb)]
    /\ UNCHANGED <<diffMess, req, written, unread>>

EnterLast(c) ==
    /\ Step(c, "last", "oldm")
    /\ Enter(c)
    /\ last' = [last EXCEPT ![c] = getLastMess(req[c].nb)]
    /\ UNCHANGED <<diffMess, req, written, unread>>

\* print and flush.  A write to a client that left returns at once, as to
\* one that reads.
Write(c, m) ==
    /\ unread[c] < Window
    /\ unread' = [unread EXCEPT ![c] = @ + 1]
    /\ written' = [written EXCEPT ![c] = Append(@, m)]

WriteOldm(c) ==
    /\ Step(c, "oldm", "oldm")
    /\ last[c] # <<>> /\ Convertible(Head(last[c]))
    /\ Write(c, DiffToOldm(Head(last[c])))
    /\ last' = [last EXCEPT ![c] = Tail(@)]
    /\ UNCHANGED <<monitor, diffMess, req>>

\* Variant: the exception is caught inside the loop, before the next message.
OldmFailsRetries(c) ==
    /\ Step(c, "oldm", "oldm")
    /\ last[c] # <<>> /\ ~Convertible(Head(last[c]))
    /\ UNCHANGED monitor
    /\ UNCHANGED <<diffMess, req, last, written, unread>>

\* The exception leaves the synchronized block.
OldmFails(c) ==
    /\ Step(c, "oldm", "hung")
    /\ last[c] # <<>> /\ ~Convertible(Head(last[c]))
    /\ Exit
    /\ UNCHANGED <<diffMess, req, last, written, unread>>

WriteEndm(c) ==
    /\ Step(c, "oldm", "close")
    /\ last[c] = <<>>
    /\ Write(c, Endm)
    /\ UNCHANGED <<monitor, diffMess, req, last>>

\* Variant: the new post takes the place of the oldest.
EnterMessReplaces(c) ==
    /\ Step(c, "mess", "ackm")
    /\ Enter(c)
    /\ diffMess' = Append(IF diffMess = <<>> THEN <<>> ELSE Tail(diffMess),
                          [id |-> req[c].id, text |-> removeDefChar(req[c].text)])
    /\ UNCHANGED <<req, last, written, unread>>

EnterMess(c) ==
    /\ Step(c, "mess", "ackm")
    /\ Enter(c)
    /\ diffMess' = Append(diffMess, [id |-> req[c].id, text |-> removeDefChar(req[c].text)])
    /\ UNCHANGED <<req, last, written, unread>>

WriteAckm(c) ==
    /\ Step(c, "ackm", "close")
    /\ Write(c, Ackm)
    /\ UNCHANGED <<monitor, diffMess, req, last>>

Close(c) ==
    /\ Step(c, "close", "served")
    /\ Exit
    /\ UNCHANGED <<diffMess, req, last, written, unread>>

Serve(c) ==
    \/ EnterLast(c) \/ WriteOldm(c) \/ OldmFails(c) \/ WriteEndm(c)
    \/ EnterMess(c) \/ WriteAckm(c) \/ Close(c)

ClientReads(c) ==
    /\ unread[c] > 0
    /\ unread' = [unread EXCEPT ![c] = @ - 1]
    /\ UNCHANGED <<server, monitor, diffMess, ring, casting, imaging, pc, req, last, written>>

-----------------------------------------------------------------------------
\* Nothing is left to do.
Idle ==
    /\ caster = "dead" /\ imager \in {"none", "dead"}
    /\ server = "failed" \/ \A c \in Conns : pc[c] \in {"served", "hung"}
    /\ UNCHANGED vars

Next ==
    \/ Cast \/ CastImage \/ Bind
    \/ \E c \in Conns : Accept(c) \/ ReadRequest(c) \/ Serve(c) \/ ClientReads(c)
    \/ Idle

Spec == Init /\ [][Next]_vars

\* The threads run whenever they can and the clients read what they asked
\* for.  Nobody has to connect or to send a request.
Fairness ==
    /\ WF_vars(Cast) /\ WF_vars(CastImage)
    /\ \A c \in Conns : WF_vars(Serve(c)) /\ WF_vars(ClientReads(c))

FairSpec == Spec /\ Fairness

-----------------------------------------------------------------------------
(* Properties.                                                             *)

Diff == [type : {"DIFF"}, num : 0..(MAX_NUM_MESS - 1),
         id : Authors \cup Conns \cup {Blank}, text : Texts]

Oldm == [type : {"OLDM"}, num : 0..(MAX_NUM_MESS - 1),
         id : Authors \cup Conns \cup {Blank}, text : Texts]

TypeOK ==
    /\ server \in {"starting", "listening", "failed"}
    /\ monitor \in Conns \cup {None}
    /\ diffMess \in Seq(Post)
    /\ current \in Nat
    /\ diffMess # <<>> => current < Len(diffMess)
    /\ num \in 0..(MAX_NUM_MESS - 1)
    /\ lastStreamed \in [0..(RingSize - 1) -> Diff \cup {None}]
    /\ lastSend \in 0..(RingSize - 1)
    /\ caster \in {"build", "send", "dead"}
    /\ packet \in Diff \cup {None}
    /\ air \in Diff \cup {None}
    /\ imager \in {"none", "build", "send", "dead"}
    /\ images # <<>> => currentImage < Len(images) /\ imager # "none"
    /\ image \in {images[i] : i \in DOMAIN images} \cup {None}
    /\ pc \in [Conns -> {"none", "read", "last", "oldm", "mess", "ackm", "close", "served", "hung"}]
    /\ \A c \in Conns : req[c] \in Requests(c) \cup {None}
    /\ last \in [Conns -> Seq(Diff \cup {Zero})]
    /\ written \in [Conns -> Seq(Oldm \cup {Endm, Ackm})]
    /\ unread \in [Conns -> 0..Window]
    /\ recent \in Seq(Diff)

\* The ring holds exactly the last RingSize messages built, the newest just
\* before lastSend and each older one a place before, around the end of the
\* array (MulticastService.run, Streamer.addLast and setLastSend).
RingIsRecent ==
    /\ \A k \in 1..Len(recent) :
        lastStreamed[(lastSend + RingSize - k) % RingSize] = recent[Len(recent) + 1 - k]
    /\ nbElements = Len(recent)

\* No two messages of the ring have the same number, so no two of a reply to
\* LAST have, although numbers start again at 0 (MAX_NUM_MESS).
NumbersDistinct ==
    \A i, j \in DOMAIN lastStreamed :
        i # j /\ lastStreamed[i] # None /\ lastStreamed[j] # None =>
            lastStreamed[i].num # lastStreamed[j].num

\* The newest message of the ring, when there is one, is on the air.
OnAir == air = IF recent = <<>> THEN None ELSE recent[Len(recent)]

\* It is not, but the thread has it, and the one before it is on the air.
Ahead ==
    LET n == Len(recent)
    IN  n > 0 /\ packet = recent[n] /\ (n > 1 => air = recent[n - 1])

\* Of the messages that LAST repeats one at most, the newest, was not yet
\* broadcast.  Its datagram is being sent; or it was refused, and then the
\* thread is dead: the message stays the newest, LAST repeats it for ever, and
\* nobody else will have it.
RingLeadsByOne ==
    /\ caster = "build" => OnAir
    /\ caster = "send" => Ahead
    /\ caster = "dead" => OnAir \/ (NetworkFails /\ Ahead)

LastOf(s, n) == IF n >= Len(s) THEN s ELSE SubSeq(s, Len(s) - n + 1, Len(s))

Olds(s) == [i \in 1..Len(s) |-> DiffToOldm(s[i])]

\* A reply to LAST that reaches its ENDM repeats the last nb-mess messages,
\* or all of them when there are fewer, oldest first and without a gap,
\* whatever was built or posted meanwhile.
AnswerIsRecent ==
    \A c \in Conns : pc[c] = "close" /\ req[c].type = "LAST" =>
        written[c] = Append(Olds(LastOf(recent, req[c].nb)), Endm)

\* The datagrams carry consecutive numbers, 0 after the largest: a receiver
\* that sees a gap has lost a datagram.
DatagramsConsecutive ==
    [][air' # air => air'.num = IF air = None THEN 0 ELSE (air.num + 1) % MAX_NUM_MESS]_vars

Posted(c) == pc[c] = "served" /\ req[c].type = "MESS"

\* m, when there is one, repeats what was posted on c.
Carries(m, c) ==
    /\ Posted(c) /\ m # None
    /\ m.id = req[c].id /\ m.text = removeDefChar(req[c].text)

Doomed == \E i \in DOMAIN diffMess : ~Encodable(diffMess[i])

\* A message acknowledged by ACKM is broadcast, again and again, however
\* many clients add theirs; only a post that createMsg refuses or the network
\* prevents it, by ending the MulticastService thread.  The post is an empty
\* one, or one of the streamer's own file with too long a name, which
\* InitialPosts leaves out.
AckedIsBroadcast ==
    \A c \in Conns :
        Posted(c) ~> Carries(air, c) \/ Doomed \/ NetworkFails

\* A request that was read comes to an end: no client is locked out of the
\* monitor for ever by the broadcasts or by the other clients.
RequestEnds ==
    \A c \in Conns : pc[c] \in {"last", "mess"} ~> pc[c] \in {"served", "hung"}

\* client.h:26 and Streamer.java:244: one who asks for the last messages
\* gets an array of OLDM messages; no LAST is abandoned on the way.
LastIsAnswered ==
    \A c \in Conns : pc[c] = "hung" => req[c].type # "LAST"

\* Every image that was read is broadcast, again and again, whatever the
\* clients do with the monitor; only the network prevents it.
ImagesAreBroadcast ==
    \A i \in DOMAIN addImagesFromFile :
        []<>((imager = "send" /\ image = addImagesFromFile[i]) \/ NetworkFails)

\* Streamer.java:237 announces a message that was added as broadcast
\* ("Un message a ete diffuse par"): it is.
AddedIsBroadcast ==
    \A c \in Conns : Posted(c) ~> Carries(air, c)

-----------------------------------------------------------------------------
(* The streamer as its clients see it: a LAST is answered when its ENDM is *)
(* written, with what the ring held all along.                             *)

AbstractAnswer ==
    [c \in Conns |->
        IF pc[c] \in {"close", "served"} /\ req[c].type = "LAST"
        THEN SubSeq(written[c], 1, Len(written[c]) - 1)
        ELSE None]

Abstract == INSTANCE Feed WITH
    posts <- diffMess,
    latest <- recent,
    answer <- AbstractAnswer,
    History <- RingSize,
    MaxNum <- MAX_NUM_MESS,
    Old <- DiffToOldm

\* The ring and the monitor implement the feed with atomic answers.
ImplementsFeed == Abstract!Spec

=============================================================================
