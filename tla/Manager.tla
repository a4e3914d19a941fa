------------------------------ MODULE Manager ------------------------------
(***************************************************************************)
(* The manager process (c/manager.c): the main thread accepts connections, *)
(* one thread per connection runs handle_tcp, and the threads share the    *)
(* register of broadcasters under register_mutex.  At the other end of a   *)
(* connection is a broadcaster's ManagerService thread                     *)
(* (java/ManagerService.java) or a client.                                 *)
(*                                                                         *)
(* A step of this module is what a thread does between two points where    *)
(* another one can act: one system call, one access to the register, one   *)
(* turn of a loop over the register.                                       *)
(***************************************************************************)
EXTENDS Naturals, Sequences, FiniteSets

CONSTANTS
    Conns,              \* the connections the manager ever takes
    Broadcasters,       \* the contents of REGI messages: id, addresses, ports
    MAX_REGISTERED_BROADCASTER,
    MaxDescriptors,     \* how many sockets the process may hold
    None                \* absence of a value; also the free mutex

ASSUME ManagerAssumption ==
    /\ IsFiniteSet(Conns)
    /\ MAX_REGISTERED_BROADCASTER \in 1..99     \* what main accepts
    /\ MaxDescriptors \in Nat
    /\ None \notin Conns \cup Broadcasters
    /\ None \notin Nat

VARIABLES
    running,    \* the process is alive
    mutex,      \* register_mutex: the connection whose thread holds it
    register,   \* broadcaster_register
    pc,         \* where the thread of a connection stands
    idx,        \* its loop variable i
    canary,     \* its pointer to the slot it was given, or None (NULL)
    req,        \* the message handle_tcp received
    copy,       \* its registered_broadcaster array, as far as it is filled
    link,       \* the connection's socket, seen from the manager
    toManager,  \* bytes sent by the peer and not received yet
    toPeer,     \* bytes sent by the manager and not read yet
    peer        \* the state of the peer

locals == <<pc, idx, canary, req, copy>>
net == <<link, toManager, toPeer, peer>>
vars == <<running, mutex, register, locals, net>>

-----------------------------------------------------------------------------
(* Messages.  A slot of the register is such a message too: it is free     *)
(* when its first character, here its type, is the null character.         *)

Slots == 0..(MAX_REGISTERED_BROADCASTER - 1)

Entry == [type : {"NUL", "REGI", "ITEM"}, id : Broadcasters \cup {None}]

Msg(t) == [type |-> t, id |-> None]

Requests ==     \* "OTHER" is well formed, "MALFORMED" fails verify_msg
    [type : {"REGI"}, id : Broadcasters]
        \cup {Msg(t) : t \in {"LIST", "MESS", "OTHER", "MALFORMED"}}

\* An answer to a RUOK: whole, or what a recv has left of it.
Segments == {Msg(t) : t \in {"IMOK", "REST"}}

Linb(n) == [type |-> "LINB", nb |-> n]

Replies ==      \* what the manager sends: an ITEM is an entry of the register
    {Msg("REOK"), Msg("RENO"), Msg("RUOK")} \cup [type : {"LINB"}, nb : Nat] \cup Entry

Occupied(s) == register[s].type # "NUL"

-----------------------------------------------------------------------------
Init ==
    /\ running = TRUE
    /\ mutex = None
    /\ register = [s \in Slots |-> Msg("NUL")]
    /\ pc = [c \in Conns |-> "none"]
    /\ idx = [c \in Conns |-> 0]
    /\ canary = [c \in Conns |-> None]
    /\ req = [c \in Conns |-> Msg("none")]
    /\ copy = [c \in Conns |-> <<>>]
    /\ link = [c \in Conns |-> "none"]
    /\ toManager = [c \in Conns |-> <<>>]
    /\ toPeer = [c \in Conns |-> <<>>]
    /\ peer = [c \in Conns |-> "none"]

-----------------------------------------------------------------------------
(* System calls.                                                           *)

Step(c, from, to) ==
    /\ running
    /\ pc[c] = from
    /\ pc' = [pc EXCEPT ![c] = to]

Lock(c) ==
    /\ mutex = None
    /\ mutex' = c

Unlock == mutex' = None

\* The peer's end is closed: what is under way still arrives, or a reset
\* throws it away.
Hangup(c) ==
    \/ link' = [link EXCEPT ![c] = "fin"] /\ UNCHANGED toManager
    \/ link' = [link EXCEPT ![c] = "reset"] /\ toManager' = [toManager EXCEPT ![c] = <<>>]

\* A send the kernel takes, or refuses without a signal.  Once the peer has
\* closed, what is sent is answered by a reset, now or later.
Send(c, m) ==
    /\ \/ /\ link[c] = "open"
          /\ toPeer' = [toPeer EXCEPT ![c] = Append(@, m)]
          /\ UNCHANGED <<link, toManager>>
       \/ link[c] = "fin" /\ Hangup(c) /\ UNCHANGED toPeer
       \/ link[c] = "reset" /\ UNCHANGED <<link, toManager, toPeer>>
    /\ UNCHANGED peer

Readable(c) == toManager[c] # <<>>

\* recv returns 0 (end of file) or -1 (reset, or not a socket).
Disconnected(c) == link[c] \in {"fin", "reset", "bad"} /\ ~Readable(c)

Receive(c) ==
    /\ toManager' = [toManager EXCEPT ![c] = Tail(@)]
    /\ UNCHANGED <<link, toPeer, peer>>

-----------------------------------------------------------------------------
(* start_manager: the main thread.                                         *)

\* shutdown does not release a descriptor, and nothing closes one.
Descriptors == Cardinality({c \in Conns : link[c] \notin {"none", "bad"}})

\* accept may fail at any time (no memory, an aborted connection) and does
\* when the descriptors are used up.  The thread is created all the same, on
\* descriptor -1: the test of the error is made on the pointer, never true.
Accept(c) ==
    /\ Step(c, "none", "recv")
    /\ \/ /\ Descriptors < MaxDescriptors
          /\ link' = [link EXCEPT ![c] = "open"]
          /\ peer' = [peer EXCEPT ![c] = "connected"]
       \/ link' = [link EXCEPT ![c] = "bad"] /\ UNCHANGED peer
    /\ UNCHANGED <<mutex, register, idx, canary, req, copy, toManager, toPeer, running>>

\* pthread_create fails: the connection is shut down.
AcceptWithoutThread(c) ==
    /\ Step(c, "none", "done")
    /\ Descriptors < MaxDescriptors
    /\ link' = [link EXCEPT ![c] = "shut"]
    /\ peer' = [peer EXCEPT ![c] = "ended"]
    /\ UNCHANGED <<mutex, register, idx, canary, req, copy, toManager, toPeer, running>>

-----------------------------------------------------------------------------
(* handle_tcp: receive one request and dispatch it.                        *)

FirstStep(m) ==
    CASE m.type = "REGI" -> "regLock"
      [] m.type \in {"LIST", "MESS"} -> "copyLock"
      [] OTHER -> "quit"

RecvRequest(c) ==
    /\ Readable(c)
    /\ Step(c, "recv", FirstStep(Head(toManager[c])))
    /\ req' = [req EXCEPT ![c] = Head(toManager[c])]
    /\ Receive(c)
    /\ UNCHANGED <<mutex, register, idx, canary, copy, running>>

RecvRequestFails(c) ==
    /\ Disconnected(c)
    /\ Step(c, "recv", "quit")
    /\ UNCHANGED <<mutex, register, idx, canary, req, copy, net, running>>

\* Variant: the connection is left open.
QuitWithoutShutdown(c) ==
    /\ Step(c, "quit", "done")
    /\ UNCHANGED link
    /\ toManager' = [toManager EXCEPT ![c] = <<>>]
    /\ UNCHANGED <<mutex, register, idx, canary, req, copy, toPeer, peer, running>>

Quit(c) ==
    /\ Step(c, "quit", "done")
    /\ link' = IF link[c] = "bad" THEN link ELSE [link EXCEPT ![c] = "shut"]
    /\ toManager' = [toManager EXCEPT ![c] = <<>>]
    /\ UNCHANGED <<mutex, register, idx, canary, req, copy, toPeer, peer, running>>

-----------------------------------------------------------------------------
(* handle_regi and register_broadcaster.                                   *)

\* Variant: register_broadcaster does not take the mutex.
RegisterWithoutLock(c) ==
    /\ Step(c, "regLock", "regScan")
    /\ UNCHANGED mutex
    /\ idx' = [idx EXCEPT ![c] = 0]
    /\ UNCHANGED <<register, canary, req, copy, net, running>>

RegisterLock(c) ==
    /\ Step(c, "regLock", "regScan")
    /\ Lock(c)
    /\ idx' = [idx EXCEPT ![c] = 0]
    /\ UNCHANGED <<register, canary, req, copy, net, running>>

\* Variant: the loop goes on without incrementing i.
ScanOccupiedStays(c) ==
    /\ Step(c, "regScan", "regScan")
    /\ idx[c] \in Slots /\ Occupied(idx[c])
    /\ UNCHANGED idx
    /\ UNCHANGED <<mutex, register, canary, req, copy, net, running>>

ScanOccupied(c) ==
    /\ Step(c, "regScan", "regScan")
    /\ idx[c] \in Slots /\ Occupied(idx[c])
    /\ idx' = [idx EXCEPT ![c] = @ + 1]
    /\ UNCHANGED <<mutex, register, canary, req, copy, net, running>>

ScanFree(c) ==
    /\ Step(c, "regScan", "regCopy")
    /\ idx[c] \in Slots /\ ~Occupied(idx[c])
    /\ canary' = [canary EXCEPT ![c] = idx[c]]
    /\ UNCHANGED <<mutex, register, idx, req, copy, net, running>>

\* strcpy of the whole message: the slot reads REGI for a while.
RegisterCopy(c) ==
    /\ Step(c, "regCopy", "regType")
    /\ register' = [register EXCEPT ![canary[c]] = req[c]]
    /\ UNCHANGED <<mutex, idx, canary, req, copy, net, running>>

\* strncpy of the type over it.
RegisterType(c) ==
    /\ Step(c, "regType", "regUnlock")
    /\ register' = [register EXCEPT ![canary[c]].type = "ITEM"]
    /\ UNCHANGED <<mutex, idx, canary, req, copy, net, running>>

\* Variant: the pointer is left past the last slot instead of NULL.
ScanFullPastTheEnd(c) ==
    /\ Step(c, "regScan", "regUnlock")
    /\ idx[c] = MAX_REGISTERED_BROADCASTER
    /\ canary' = [canary EXCEPT ![c] = idx[c]]
    /\ UNCHANGED <<mutex, register, idx, req, copy, net, running>>

ScanFull(c) ==
    /\ Step(c, "regScan", "regUnlock")
    /\ idx[c] = MAX_REGISTERED_BROADCASTER
    /\ UNCHANGED <<mutex, register, idx, canary, req, copy, net, running>>

RegisterUnlock(c) ==
    /\ Step(c, "regUnlock", "regReply")
    /\ Unlock
    /\ UNCHANGED <<register, idx, canary, req, copy, net, running>>

\* Variant: NULL is not tested.
RegisterReplyUnchecked(c) ==
    /\ Step(c, "regReply", "ruok") /\ Send(c, Msg("REOK"))
    /\ UNCHANGED <<mutex, register, idx, canary, req, copy, running>>

RegisterReply(c) ==
    /\ \/ canary[c] = None /\ Step(c, "regReply", "quit") /\ Send(c, Msg("RENO"))
       \/ canary[c] # None /\ Step(c, "regReply", "ruok") /\ Send(c, Msg("REOK"))
    /\ UNCHANGED <<mutex, register, idx, canary, req, copy, running>>

-----------------------------------------------------------------------------
(* monitor_broadcaster, after its sleep of check_delay seconds.            *)

SendRuok(c) ==
    /\ \/ Step(c, "ruok", "imok") /\ link[c] # "reset"
       \/ Step(c, "ruok", "clearLock") /\ link[c] = "reset"
    /\ Send(c, Msg("RUOK"))
    /\ UNCHANGED <<mutex, register, idx, canary, req, copy, running>>

\* TCP has cut the IMOK: the rest of it is read by the next recv.
ReceiveStart(c) ==
    /\ toManager' = [toManager EXCEPT ![c] = <<Msg("REST")>> \o Tail(@)]
    /\ UNCHANGED <<link, toPeer, peer>>

\* recv writes over the RUOK that msg_buf still holds, and puts no zero at
\* the end: 2 to 5 bytes of an IMOK read as IMOK, for RUOK ends as it does.
\* The first byte alone does not, nor does the rest of the answer before,
\* with or without what follows it; after these nothing more is received.
RecvImok(c) ==
    /\ Readable(c)
    /\ \/ /\ Head(toManager[c]) = Msg("IMOK")
          /\ Step(c, "imok", "ruok")
          /\ Receive(c) \/ ReceiveStart(c)
       \/ Step(c, "imok", "clearLock") /\ Receive(c)
    /\ UNCHANGED <<mutex, register, idx, canary, req, copy, running>>

\* Variant: a timeout is followed by another RUOK.
RecvImokRetries(c) ==
    /\ ~Readable(c)
    /\ Step(c, "imok", "ruok")
    /\ UNCHANGED <<mutex, register, idx, canary, req, copy, net, running>>

\* The peer is gone, or TIMEOUT_SEC passed without an answer.
RecvImokFails(c) ==
    /\ ~Readable(c)
    /\ Step(c, "imok", "clearLock")
    /\ UNCHANGED <<mutex, register, idx, canary, req, copy, net, running>>

ClearLock(c) ==
    /\ Step(c, "clearLock", "clear")
    /\ Lock(c)
    /\ UNCHANGED <<register, idx, canary, req, copy, net, running>>

Clear(c) ==
    /\ Step(c, "clear", "clearUnlock")
    /\ register' = [register EXCEPT ![canary[c]].type = "NUL"]
    /\ UNCHANGED <<mutex, idx, canary, req, copy, net, running>>

ClearUnlock(c) ==
    /\ Step(c, "clearUnlock", "quit")
    /\ Unlock
    /\ UNCHANGED <<register, idx, canary, req, copy, net, running>>

-----------------------------------------------------------------------------
(* copy_broadcaster_register, for handle_list and handle_mess.             *)

\* Variant: the register is copied without the mutex.
CopyWithoutLock(c) ==
    /\ Step(c, "copyLock", "copying")
    /\ UNCHANGED mutex
    /\ idx' = [idx EXCEPT ![c] = 0]
    /\ UNCHANGED <<register, canary, req, copy, net, running>>

CopyLock(c) ==
    /\ Step(c, "copyLock", "copying")
    /\ Lock(c)
    /\ idx' = [idx EXCEPT ![c] = 0]
    /\ UNCHANGED <<register, canary, req, copy, net, running>>

\* Variant: one index serves for both arrays: a free slot is not passed.
CopySlotSharedIndex(c) ==
    /\ Step(c, "copying", "copying")
    /\ idx[c] \in Slots
    /\ copy' = IF Occupied(idx[c])
               THEN [copy EXCEPT ![c] = Append(@, register[idx[c]])]
               ELSE copy
    /\ idx' = IF Occupied(idx[c]) THEN [idx EXCEPT ![c] = @ + 1] ELSE idx
    /\ UNCHANGED <<mutex, register, canary, req, net, running>>

CopySlot(c) ==
    /\ Step(c, "copying", "copying")
    /\ idx[c] \in Slots
    /\ copy' = IF Occupied(idx[c])
               THEN [copy EXCEPT ![c] = Append(@, register[idx[c]])]
               ELSE copy
    /\ idx' = [idx EXCEPT ![c] = @ + 1]
    /\ UNCHANGED <<mutex, register, canary, req, net, running>>

CopyEnd(c) ==
    /\ Step(c, "copying", "copyUnlock")
    /\ idx[c] = MAX_REGISTERED_BROADCASTER
    /\ UNCHANGED <<mutex, register, idx, canary, req, copy, net, running>>

\* The callers' loops over the copy start from 0.
CopyUnlock(c) ==
    /\ Step(c, "copyUnlock", IF req[c].type = "LIST" THEN "linb" ELSE "relay")
    /\ Unlock
    /\ idx' = [idx EXCEPT ![c] = 0]
    /\ UNCHANGED <<register, canary, req, copy, net, running>>

\* Variant: the register is counted again after the copy.
SendLinbLive(c) ==
    /\ Step(c, "linb", "item")
    /\ Send(c, Linb(Cardinality({s \in Slots : Occupied(s)})))
    /\ UNCHANGED <<mutex, register, idx, canary, req, copy, running>>

SendLinb(c) ==
    /\ Step(c, "linb", "item")
    /\ Send(c, Linb(Len(copy[c])))
    /\ UNCHANGED <<mutex, register, idx, canary, req, copy, running>>

SendItem(c) ==
    /\ Step(c, "item", "item")
    /\ idx[c] < Len(copy[c])
    /\ Send(c, copy[c][idx[c] + 1])
    /\ idx' = [idx EXCEPT ![c] = @ + 1]
    /\ UNCHANGED <<mutex, register, canary, req, copy, running>>

\* handle_mess: one call of send_mess_to_streamer, which waits for an
\* acknowledgement without a timeout.  Its result is summed and not used.
Relay(c) ==
    /\ Step(c, "relay", "relay")
    /\ idx[c] < Len(copy[c])
    /\ idx' = [idx EXCEPT ![c] = @ + 1]
    /\ UNCHANGED <<mutex, register, canary, req, copy, net, running>>

LoopEnd(c) ==
    /\ Step(c, "item", "quit") \/ Step(c, "relay", "quit")
    /\ idx[c] = Len(copy[c])
    /\ UNCHANGED <<mutex, register, idx, canary, req, copy, net, running>>

\* Only monitor_broadcaster asks for no signal: any other send on a
\* connection that was reset may raise SIGPIPE, which ends the process.
SigPipe(c) ==
    /\ running
    /\ \/ pc[c] \in {"regReply", "linb"}
       \/ pc[c] = "item" /\ idx[c] < Len(copy[c])
    /\ link[c] = "reset"
    /\ running' = FALSE
    /\ UNCHANGED <<mutex, register, locals, net>>

-----------------------------------------------------------------------------
(* The peers: ManagerService.run when the request is REGI, a client that   *)
(* only reads otherwise.                                                   *)

PeerSends(c) ==
    /\ running /\ link[c] = "open" /\ peer[c] = "connected"
    /\ \E m \in Requests :
        /\ toManager' = [toManager EXCEPT ![c] = Append(@, m)]
        /\ peer' = [peer EXCEPT ![c] = IF m.type = "REGI" THEN "registering" ELSE "client"]
    /\ UNCHANGED <<running, mutex, register, locals, link, toPeer>>

PeerReadsVerdict(c) ==
    /\ peer[c] = "registering" /\ toPeer[c] # <<>>
    /\ toPeer' = [toPeer EXCEPT ![c] = Tail(@)]
    /\ \/ /\ Head(toPeer[c]).type = "REOK"
          /\ peer' = [peer EXCEPT ![c] = "online"]
          /\ UNCHANGED link
       \/ /\ Head(toPeer[c]).type = "RENO"
          /\ peer' = [peer EXCEPT ![c] = "ended"]
          /\ link' = IF link[c] = "open" THEN [link EXCEPT ![c] = "fin"] ELSE link
    /\ UNCHANGED <<running, mutex, register, locals, toManager>>

PeerAnswers(c) ==
    /\ peer[c] = "online" /\ toPeer[c] # <<>>
    /\ toPeer' = [toPeer EXCEPT ![c] = Tail(@)]
    /\ toManager' = IF running /\ link[c] = "open"
                    THEN [toManager EXCEPT ![c] = Append(@, Msg("IMOK"))]
                    ELSE toManager
    /\ UNCHANGED <<running, mutex, register, locals, link, peer>>

\* readLine returns null: the NullPointerException ends the thread, which
\* nothing starts again.
PeerSeesEof(c) ==
    /\ peer[c] \in {"registering", "online"} /\ toPeer[c] = <<>>
    /\ link[c] = "shut" \/ ~running
    /\ peer' = [peer EXCEPT ![c] = "ended"]
    /\ UNCHANGED <<running, mutex, register, locals, link, toManager, toPeer>>

\* The peer's process ends; the kernel closes its sockets.
PeerLeaves(c) ==
    /\ running /\ link[c] = "open"
    /\ peer' = [peer EXCEPT ![c] = "ended"]
    /\ toPeer' = [toPeer EXCEPT ![c] = <<>>]
    /\ Hangup(c)
    /\ UNCHANGED <<running, mutex, register, locals>>

-----------------------------------------------------------------------------
Registration(c) ==
    \/ RegisterLock(c) \/ ScanOccupied(c) \/ ScanFree(c) \/ RegisterCopy(c)
    \/ RegisterType(c) \/ ScanFull(c) \/ RegisterUnlock(c) \/ RegisterReply(c)

Monitoring(c) ==
    \/ SendRuok(c) \/ RecvImok(c) \/ RecvImokFails(c)
    \/ ClearLock(c) \/ Clear(c) \/ ClearUnlock(c)

Consultation(c) ==
    \/ CopyLock(c) \/ CopySlot(c) \/ CopyEnd(c) \/ CopyUnlock(c)
    \/ SendLinb(c) \/ SendItem(c) \/ LoopEnd(c)

\* What the thread of c does once it runs, without waiting for a streamer.
Handler(c) ==
    \/ RecvRequest(c) \/ RecvRequestFails(c) \/ Quit(c)
    \/ Registration(c) \/ Monitoring(c) \/ Consultation(c)

PeerReads(c) == PeerReadsVerdict(c) \/ PeerAnswers(c) \/ PeerSeesEof(c)

\* Nothing is left to do but to wait in accept.
Idle ==
    /\ ~running \/ \A c \in Conns : pc[c] = "done"
    /\ UNCHANGED vars

Next ==
    \/ \E c \in Conns :
        \/ Accept(c) \/ AcceptWithoutThread(c)
        \/ Handler(c) \/ Relay(c) \/ SigPipe(c)
        \/ PeerSends(c) \/ PeerReads(c) \/ PeerLeaves(c)
    \/ Idle

Spec == Init /\ [][Next]_vars

\* A thread that can take a step takes one, and so does a ManagerService
\* thread.  Nobody has to connect, to send a request or to leave, and a
\* relay may wait for ever.
Fairness ==
    \A c \in Conns : WF_vars(Handler(c)) /\ WF_vars(PeerReads(c))

FairSpec == Spec /\ Fairness

-----------------------------------------------------------------------------
(* Properties.                                                             *)

Labels ==
    {"none", "recv", "quit", "done",
     "regLock", "regScan", "regCopy", "regType", "regUnlock", "regReply",
     "ruok", "imok", "clearLock", "clear", "clearUnlock",
     "copyLock", "copying", "copyUnlock", "linb", "item", "relay"}

TypeOK ==
    /\ running \in BOOLEAN
    /\ mutex \in Conns \cup {None}
    /\ register \in [Slots -> Entry]
    /\ pc \in [Conns -> Labels]
    /\ idx \in [Conns -> Nat]
    /\ canary \in [Conns -> Slots \cup {None}]
    /\ req \in [Conns -> Requests \cup Segments \cup {Msg("none")}]
    /\ copy \in [Conns -> Seq(Entry)]
    /\ link \in [Conns -> {"none", "bad", "open", "fin", "reset", "shut"}]
    /\ toManager \in [Conns -> Seq(Requests \cup Segments)]
    /\ toPeer \in [Conns -> Seq(Replies)]
    /\ peer \in [Conns -> {"none", "connected", "registering", "online", "client", "ended"}]

\* The labels of the steps made under register_mutex.
Critical ==
    {"regScan", "regCopy", "regType", "regUnlock", "copying", "copyUnlock", "clear", "clearUnlock"}

\* c's thread owns the slot its canary points to.
Holding ==
    {"regCopy", "regType", "regUnlock", "regReply", "ruok", "imok", "clearLock", "clear"}

Holds(c) == pc[c] \in Holding /\ canary[c] # None

\* c's broadcaster is in the register, for those who read it under the mutex.
Listed(c) == Holds(c) /\ pc[c] \notin {"regCopy", "regType"}

\* Every occupied slot belongs to exactly one thread, the one that is
\* monitoring the broadcaster described there: no two registrations ever
\* share a slot, none is overwritten, and none stays after its thread has
\* gone (register_broadcaster, monitor_broadcaster).
SlotOwnership ==
    /\ \A c, d \in Conns :
        Holds(c) /\ Holds(d) /\ canary[c] = canary[d] => c = d
    /\ \A c \in Conns : Listed(c) =>
        register[canary[c]] = [type |-> "ITEM", id |-> req[c].id]
    /\ \A s \in Slots : Occupied(s) => \E c \in Conns : Holds(c) /\ canary[c] = s

\* No copy of the register holds an entry caught between the strcpy of the
\* REGI message and the change of its type, nor one that was being freed:
\* handle_list sends the copied bytes as they are, as ITEM messages.
CopiesAreItems ==
    \A c \in Conns : \A k \in 1..Len(copy[c]) :
        copy[c][k].type = "ITEM" /\ copy[c][k].id # None

\* A streamer that was told REOK and whose connection still stands is in the
\* register, unless its thread has given it up and is on its way to shut the
\* connection down: a streamer never believes for ever that it is listed.
OnlineIsListed ==
    \A c \in Conns : peer[c] = "online" /\ link[c] = "open" =>
        Listed(c) \/ pc[c] \in {"clearUnlock", "quit"}

\* Where in the two queues of c there is a RUOK, or an answer not yet begun.
RuoksUnderWay(c) == {k \in 1..Len(toPeer[c]) : toPeer[c][k] = Msg("RUOK")}

AnswersUnderWay(c) == {k \in 1..Len(toManager[c]) : toManager[c][k] = Msg("IMOK")}

Pending(c) == Cardinality(RuoksUnderWay(c)) + Cardinality(AnswersUnderWay(c))

\* The monitoring goes on after a RUOK on the answer to that RUOK, or on the
\* start of it, never on a late answer to an earlier one that had timed out:
\* of RUOKs and answers at most one is under way, none when a RUOK is about to
\* be sent.  All that may be left then is the end of the answer before, when
\* TCP cut it: it is read after this RUOK, in front of its answer, and is no
\* IMOK, so that the streamer is dropped.
HeartbeatPaired ==
    \A c \in Conns :
        /\ Pending(c) <= 1
        /\ pc[c] = "ruok" => Pending(c) = 0 /\ toManager[c] \in {<<>>, <<Msg("REST")>>}

\* What a client that stays connected has been sent when its LIST is over:
\* one LINB, then exactly the number of ITEM messages the LINB announced.
ListReplyComplete ==
    \A c \in Conns :
        (pc[c] = "quit" /\ req[c].type = "LIST" /\ link[c] = "open") =>
            /\ toPeer[c] # <<>>
            /\ Head(toPeer[c]) = Linb(Len(toPeer[c]) - 1)
            /\ \A k \in 2..Len(toPeer[c]) : toPeer[c][k].type = "ITEM"

\* A broadcaster whose connection is broken leaves the register.
DeadIsUnlisted ==
    \A c \in Conns :
        Listed(c) /\ link[c] \in {"fin", "reset"} ~> ~Listed(c) \/ ~running

\* A broadcaster dropped from the register while it is alive (it answered
\* too late) learns it: its ManagerService thread ends.
DroppedIsTold ==
    \A c \in Conns :
        peer[c] = "online" /\ ~Listed(c) ~> peer[c] = "ended"

\* A thread that has received REGI or LIST comes to its end or to the
\* monitoring of its broadcaster: nobody waits for the mutex for ever.
RequestServed ==
    \A c \in Conns :
        req[c].type \in {"REGI", "LIST"} ~> pc[c] \in {"ruok", "done"} \/ ~running

\* manager.c:108 says of monitor_broadcaster that it watches the broadcaster
\* indefinitely and changes the canary if it cannot be reached: from the
\* monitoring loop, either it goes on or the canary is about to be changed.
Monitored(c) == running /\ pc[c] \in {"ruok", "imok"}

MonitorsIndefinitely ==
    [][\A c \in Conns : Monitored(c) => Monitored(c)' \/ pc'[c] = "clearLock"]_vars

-----------------------------------------------------------------------------
(* The register as its users see it: an entry appears when its type is set *)
(* and goes when its first character is cleared, a consultation happens    *)
(* when the copy is complete.                                              *)

AbstractListed == [c \in Conns |-> IF Listed(c) THEN register[canary[c]].id ELSE None]

AbstractVerdict ==
    [c \in Conns |->
        IF req[c].type # "REGI" \/ pc[c] \in {"regLock", "regScan", "regCopy", "regType"}
        THEN "undecided"
        ELSE IF canary[c] = None THEN "refused" ELSE "accepted"]

AbstractView ==
    [c \in Conns |->
        IF req[c].type \in {"LIST", "MESS"} /\ pc[c] \notin {"copyLock", "copying"}
        THEN [b \in Broadcasters |->
                Cardinality({k \in 1..Len(copy[c]) : copy[c][k].id = b})]
        ELSE None]

Abstract == INSTANCE Registry WITH
    listed <- AbstractListed,
    verdict <- AbstractVerdict,
    view <- AbstractView,
    Capacity <- MAX_REGISTERED_BROADCASTER

\* The threads and the mutex implement the register with atomic operations.
ImplementsRegistry == Abstract!Spec

=============================================================================
