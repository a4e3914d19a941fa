--------------------------- MODULE ManagerProofs ---------------------------
(***************************************************************************)
(* Proofs about Manager, for any number of connections, of broadcasters    *)
(* and of slots: its type invariant, that every occupied slot of the       *)
(* register belongs to one thread, and that a copy of the register holds   *)
(* nothing but complete ITEM entries.                                      *)
(***************************************************************************)
EXTENDS Manager, TLAPS

-----------------------------------------------------------------------------
(* The inductive invariant.                                                *)

\* The labels of a thread that serves REGI, up to the end of the monitoring.
Serving ==
    {"regLock", "regScan", "regCopy", "regType", "regUnlock", "regReply",
     "ruok", "imok", "clearLock", "clear", "clearUnlock"}

\* A thread that serves REGI holds the message it received.
ReqIsRegi == \A c \in Conns : pc[c] \in Serving => req[c].type = "REGI"

\* The mutex is held exactly by the thread that is between lock and unlock.
MutexIsHeld == \A c \in Conns : mutex = c <=> pc[c] \in Critical

\* The pointer is null until a slot is found, and the thread of a broadcaster
\* that was accepted works with the slot it was given.
CanaryIsSet ==
    \A c \in Conns :
        /\ pc[c] \in {"none", "recv", "regLock", "regScan"} => canary[c] = None
        /\ pc[c] \in {"regCopy", "regType", "ruok", "imok", "clearLock", "clear"} =>
              canary[c] # None

\* Between strcpy and strncpy the slot holds the request as it came.
SlotIsWritten == \A c \in Conns : pc[c] = "regType" => register[canary[c]] = req[c]

\* The three parts of SlotOwnership.
OneHolder ==
    \A c, d \in Conns : Holds(c) /\ Holds(d) /\ canary[c] = canary[d] => c = d

SlotIsItem ==
    \A c \in Conns : Listed(c) => register[canary[c]] = [type |-> "ITEM", id |-> req[c].id]

SlotIsHeld ==
    \A s \in Slots : Occupied(s) => \E c \in Conns : Holds(c) /\ canary[c] = s

RegisterInv ==
    /\ SlotIsWritten
    /\ OneHolder
    /\ SlotIsItem
    /\ SlotIsHeld
    /\ CopiesAreItems

IInv ==
    /\ TypeOK
    /\ ReqIsRegi
    /\ MutexIsHeld
    /\ CanaryIsSet
    /\ RegisterInv


-----------------------------------------------------------------------------
(* The type invariant.                                                     *)

\* Whatever is received, a request with type REGI describes a broadcaster.
LEMMA RegiIsEntry ==
    ASSUME NEW m \in Requests \cup Segments \cup {Msg("none")}, m.type = "REGI"
    PROVE  m \in [type : {"REGI"}, id : Broadcasters] /\ m \in Entry
BY DEF Requests, Segments, Msg, Entry

\* An answer comes after what is under way, and the rest of one before.
LEMMA AnswerArrives ==
    ASSUME NEW q \in Seq(Requests \cup Segments)
    PROVE  /\ Append(q, Msg("IMOK")) \in Seq(Requests \cup Segments)
           /\ <<Msg("REST")>> \o q \in Seq(Requests \cup Segments)
<1> DEFINE S == Requests \cup Segments
           x == Msg("IMOK")
           z == Msg("REST")
<1>1. x \in S /\ z \in S
  BY DEF Segments
<1> HIDE DEF S, x, z
<1>2. <<z>> \in Seq(S)
  BY <1>1
<1>3. q \in Seq(S)
  BY DEF S
<1>4. Append(q, x) \in Seq(S) /\ <<z>> \o q \in Seq(S)
  BY <1>1, <1>2, <1>3
<1> QED
  BY <1>4 DEF S, x, z

\* Writing the type of an entry leaves its broadcaster.
LEMMA EntryType ==
    ASSUME NEW e \in Entry, NEW t \in {"NUL", "ITEM"}
    PROVE  [e EXCEPT !.type = t] = [type |-> t, id |-> e.id] /\ [type |-> t, id |-> e.id] \in Entry
BY DEF Entry

\* The types hold at the start (globals of manager.c, init_manager).
LEMMA TypeInit == Init => TypeOK /\ ReqIsRegi
BY ManagerAssumption DEF Init, TypeOK, ReqIsRegi, Serving, Slots, Entry, Requests, Segments, Msg,
     Labels

\* What a hangup, a send and a receive leave of the network is well typed.
NetTypeOK ==
    /\ link \in [Conns -> {"none", "bad", "open", "fin", "reset", "shut"}]
    /\ toManager \in [Conns -> Seq(Requests \cup Segments)]
    /\ toPeer \in [Conns -> Seq(Replies)]
    /\ peer \in [Conns -> {"none", "connected", "registering", "online", "client", "ended"}]

\* The end of a peer leaves the network well typed.
LEMMA HangupType ==
    ASSUME TypeOK, NEW c \in Conns, Hangup(c)
    PROVE  /\ link' \in [Conns -> {"none", "bad", "open", "fin", "reset", "shut"}]
           /\ toManager' \in [Conns -> Seq(Requests \cup Segments)]
<1>1. <<>> \in Seq(Requests \cup Segments)
  OBVIOUS
<1>2. toManager \in [Conns -> Seq(Requests \cup Segments)]
  BY DEF TypeOK
<1>3. toManager' \in [Conns -> Seq(Requests \cup Segments)]
  BY <1>1, <1>2 DEF Hangup
<1> QED
  BY <1>3 DEF Hangup, TypeOK

\* So does a send of the manager, whatever its result.
LEMMA SendType ==
    ASSUME TypeOK, NEW c \in Conns, NEW m \in Replies, Send(c, m)
    PROVE  NetTypeOK'
<1>1. toPeer' \in [Conns -> Seq(Replies)]
  <2>1. toPeer \in [Conns -> Seq(Replies)]
    BY DEF TypeOK
  <2>2. Append(toPeer[c], m) \in Seq(Replies)
    BY <2>1
  <2> QED
    BY <2>1, <2>2 DEF Send
<1>2. CASE link[c] = "fin" /\ Hangup(c)
  BY <1>1, <1>2, HangupType DEF Send, NetTypeOK, TypeOK
<1>3. CASE UNCHANGED <<link, toManager>>
  BY <1>1, <1>3 DEF Send, NetTypeOK, TypeOK
<1> QED
  BY <1>2, <1>3 DEF Send

\* The messages handle_tcp sends are replies.
LEMMA ReplyTypes ==
    /\ Msg("REOK") \in Replies /\ Msg("RENO") \in Replies /\ Msg("RUOK") \in Replies
    /\ \A n \in Nat : Linb(n) \in Replies
    /\ Entry \subseteq Replies
BY DEF Replies, Linb

\* What a peer reads is something the manager sent.
LEMMA PeerReadType ==
    ASSUME TypeOK, NEW c \in Conns, toPeer[c] # <<>>
    PROVE  /\ Head(toPeer[c]) \in Replies
           /\ [toPeer EXCEPT ![c] = Tail(@)] \in [Conns -> Seq(Replies)]
<1>1. toPeer \in [Conns -> Seq(Replies)]
  BY DEF TypeOK
<1>2. Head(toPeer[c]) \in Replies /\ Tail(toPeer[c]) \in Seq(Replies)
  BY <1>1
<1> QED
  BY <1>1, <1>2

\* What a recv of the manager returns is something a peer sent.
LEMMA ReceiveType ==
    ASSUME TypeOK, NEW c \in Conns, Readable(c)
    PROVE  /\ Head(toManager[c]) \in Requests \cup Segments
           /\ Receive(c) \/ ReceiveStart(c) => NetTypeOK'
<1>1. toManager[c] \in Seq(Requests \cup Segments) /\ toManager[c] # <<>>
  BY DEF TypeOK, Readable
<1>2. Tail(toManager[c]) \in Seq(Requests \cup Segments)
  BY <1>1
<1>3. Head(toManager[c]) \in Requests \cup Segments
  BY <1>1
<1>4. Receive(c) => NetTypeOK'
  BY <1>2 DEF Receive, NetTypeOK, TypeOK
<1>5. ReceiveStart(c) => NetTypeOK'
  <2>1. <<Msg("REST")>> \o Tail(toManager[c]) \in Seq(Requests \cup Segments)
    BY <1>2, AnswerArrives
  <2> QED
    BY <2>1 DEF ReceiveStart, NetTypeOK, TypeOK
<1> QED
  BY <1>3, <1>4, <1>5

\* A step from one label of those that serve REGI to another that is one too,
\* or to quit, keeps the labels and the request that goes with them.
LEMMA StepType ==
    ASSUME TypeOK, ReqIsRegi, NEW c \in Conns, NEW from \in Serving, NEW to \in Serving \cup {"quit"},
           Step(c, from, to), UNCHANGED req
    PROVE  pc' \in [Conns -> Labels] /\ ReqIsRegi'
<1>1. pc \in [Conns -> Labels] /\ to \in Labels
  BY DEF TypeOK, Serving, Labels
<1>2. pc' = [pc EXCEPT ![c] = to] /\ pc[c] = from
  BY DEF Step
<1>3. req[c].type = "REGI"
  BY <1>2 DEF ReqIsRegi
<1>4. pc' \in [Conns -> Labels]
  BY <1>1, <1>2
<1>5. ASSUME NEW d \in Conns, pc'[d] \in Serving PROVE req'[d].type = "REGI"
  <2>1. CASE d = c
    BY <1>3, <2>1
  <2>2. CASE d # c
    BY <1>1, <1>2, <1>5, <2>2 DEF ReqIsRegi
  <2> QED
    BY <2>1, <2>2
<1> QED
  BY <1>4, <1>5 DEF ReqIsRegi

\* Every step keeps the types, one case per action of Manager.
LEMMA TypeStep ==
    ASSUME TypeOK, ReqIsRegi, [Next]_vars
    PROVE  TypeOK' /\ ReqIsRegi'
<1> USE DEF TypeOK, ReqIsRegi, Serving, Labels, locals, net
<1>1. ASSUME NEW c \in Conns, Accept(c) PROVE TypeOK' /\ ReqIsRegi'
  BY <1>1 DEF Step, Accept
<1>2. ASSUME NEW c \in Conns, AcceptWithoutThread(c) PROVE TypeOK' /\ ReqIsRegi'
  BY <1>2 DEF Step, AcceptWithoutThread
<1>3. ASSUME NEW c \in Conns, RecvRequest(c) PROVE TypeOK' /\ ReqIsRegi'
  <2>1. NetTypeOK' /\ Head(toManager[c]) \in Requests \cup Segments
    BY <1>3, ReceiveType DEF RecvRequest
  <2> QED
    BY <1>3, <2>1 DEF Step, RecvRequest, FirstStep, NetTypeOK
<1>4. ASSUME NEW c \in Conns, RecvRequestFails(c) PROVE TypeOK' /\ ReqIsRegi'
  BY <1>4 DEF Step, RecvRequestFails
<1>5. ASSUME NEW c \in Conns, Quit(c) PROVE TypeOK' /\ ReqIsRegi'
  BY <1>5 DEF Step, Quit
<1>6. ASSUME NEW c \in Conns, RegisterLock(c) PROVE TypeOK' /\ ReqIsRegi'
  BY <1>6 DEF Step, RegisterLock, Lock
<1>7. ASSUME NEW c \in Conns, ScanOccupied(c) PROVE TypeOK' /\ ReqIsRegi'
  BY <1>7, SMTT(20) DEF Step, ScanOccupied
<1>8. ASSUME NEW c \in Conns, ScanFree(c) PROVE TypeOK' /\ ReqIsRegi'
  BY <1>8 DEF Step, ScanFree
<1>9. ASSUME NEW c \in Conns, RegisterCopy(c) PROVE TypeOK' /\ ReqIsRegi'
  <2>1. req[c] \in Entry
    BY <1>9, RegiIsEntry DEF Step, RegisterCopy
  <2>2. register' \in [Slots -> Entry]
    BY <1>9, <2>1 DEF RegisterCopy
  <2> QED
    BY <1>9, <2>2 DEF Step, RegisterCopy
<1>10. ASSUME NEW c \in Conns, RegisterType(c) PROVE TypeOK' /\ ReqIsRegi'
  <2>1. ASSUME canary[c] \in Slots
        PROVE  [register[canary[c]] EXCEPT !.type = "ITEM"] \in Entry
    <3>1. register[canary[c]] \in Entry
      BY <2>1
    <3> HIDE DEF TypeOK, ReqIsRegi
    <3> QED
      BY <3>1, EntryType, Zenon
  <2>2. register' \in [Slots -> Entry]
    BY <1>10, <2>1 DEF RegisterType
  <2> QED
    BY <1>10, <2>2 DEF Step, RegisterType
<1>11. ASSUME NEW c \in Conns, ScanFull(c) PROVE TypeOK' /\ ReqIsRegi'
  BY <1>11 DEF Step, ScanFull
<1>12. ASSUME NEW c \in Conns, RegisterUnlock(c) PROVE TypeOK' /\ ReqIsRegi'
  BY <1>12 DEF Step, RegisterUnlock, Unlock
<1>13. ASSUME NEW c \in Conns, RegisterReply(c) PROVE TypeOK' /\ ReqIsRegi'
  <2>1. NetTypeOK'
    BY <1>13, SendType, ReplyTypes DEF RegisterReply
  <2>2. /\ \E to \in {"quit", "ruok"} : Step(c, "regReply", to)
        /\ UNCHANGED <<mutex, register, idx, canary, req, copy, running>>
    BY <1>13 DEF RegisterReply
  <2>3. pc' \in [Conns -> Labels] /\ ReqIsRegi'
    <3>1. PICK to \in {"quit", "ruok"} : Step(c, "regReply", to)
      BY <2>2
    <3>2. "regReply" \in Serving /\ to \in Serving \cup {"quit"}
      OBVIOUS
    <3> HIDE DEF TypeOK, ReqIsRegi, Serving, Labels
    <3> QED
      BY <2>2, <3>1, <3>2, StepType
  <2> QED
    <3> HIDE DEF ReqIsRegi, Labels
    <3> QED
      BY <2>1, <2>2, <2>3 DEF NetTypeOK
<1>14. ASSUME NEW c \in Conns, SendRuok(c) PROVE TypeOK' /\ ReqIsRegi'
  <2>1. NetTypeOK'
    BY <1>14, SendType, ReplyTypes DEF SendRuok
  <2>2. /\ \E to \in {"imok", "clearLock"} : Step(c, "ruok", to)
        /\ UNCHANGED <<mutex, register, idx, canary, req, copy, running>>
    BY <1>14 DEF SendRuok
  <2>3. pc' \in [Conns -> Labels] /\ ReqIsRegi'
    <3>1. PICK to \in {"imok", "clearLock"} : Step(c, "ruok", to)
      BY <2>2
    <3>2. "ruok" \in Serving /\ to \in Serving \cup {"quit"}
      OBVIOUS
    <3> HIDE DEF TypeOK, ReqIsRegi, Serving, Labels
    <3> QED
      BY <2>2, <3>1, <3>2, StepType
  <2> QED
    <3> HIDE DEF ReqIsRegi, Labels
    <3> QED
      BY <2>1, <2>2, <2>3 DEF NetTypeOK
<1>15. ASSUME NEW c \in Conns, RecvImok(c) PROVE TypeOK' /\ ReqIsRegi'
  <2>1. NetTypeOK'
    BY <1>15, ReceiveType DEF RecvImok
  <2>2. /\ \E to \in {"ruok", "clearLock"} : Step(c, "imok", to)
        /\ UNCHANGED <<mutex, register, idx, canary, req, copy, running>>
    BY <1>15 DEF RecvImok
  <2>3. pc' \in [Conns -> Labels] /\ ReqIsRegi'
    <3>1. PICK to \in {"ruok", "clearLock"} : Step(c, "imok", to)
      BY <2>2
    <3>2. "imok" \in Serving /\ to \in Serving \cup {"quit"}
      OBVIOUS
    <3> HIDE DEF TypeOK, ReqIsRegi, Serving, Labels
    <3> QED
      BY <2>2, <3>1, <3>2, StepType
  <2> QED
    <3> HIDE DEF ReqIsRegi, Labels
    <3> QED
      BY <2>1, <2>2, <2>3 DEF NetTypeOK
<1>16. ASSUME NEW c \in Conns, RecvImokFails(c) PROVE TypeOK' /\ ReqIsRegi'
  BY <1>16 DEF Step, RecvImokFails
<1>17. ASSUME NEW c \in Conns, ClearLock(c) PROVE TypeOK' /\ ReqIsRegi'
  BY <1>17 DEF Step, ClearLock, Lock
<1>18. ASSUME NEW c \in Conns, Clear(c) PROVE TypeOK' /\ ReqIsRegi'
  <2>1. ASSUME canary[c] \in Slots
        PROVE  [register[canary[c]] EXCEPT !.type = "NUL"] \in Entry
    <3>1. register[canary[c]] \in Entry
      BY <2>1
    <3> HIDE DEF TypeOK, ReqIsRegi
    <3> QED
      BY <3>1, EntryType, Zenon
  <2>2. register' \in [Slots -> Entry]
    BY <1>18, <2>1 DEF Clear
  <2> QED
    BY <1>18, <2>2 DEF Step, Clear
<1>19. ASSUME NEW c \in Conns, ClearUnlock(c) PROVE TypeOK' /\ ReqIsRegi'
  BY <1>19 DEF Step, ClearUnlock, Unlock
<1>20. ASSUME NEW c \in Conns, CopyLock(c) PROVE TypeOK' /\ ReqIsRegi'
  BY <1>20 DEF Step, CopyLock, Lock
<1>21. ASSUME NEW c \in Conns, CopySlot(c) PROVE TypeOK' /\ ReqIsRegi'
  <2>1. copy' \in [Conns -> Seq(Entry)]
    <3>1. ASSUME idx[c] \in Slots PROVE Append(copy[c], register[idx[c]]) \in Seq(Entry)
      BY <3>1
    <3> QED
      BY <1>21, <3>1 DEF CopySlot
  <2>2. idx' \in [Conns -> Nat]
    BY <1>21 DEF CopySlot
  <2> QED
    BY <1>21, <2>1, <2>2 DEF Step, CopySlot
<1>22. ASSUME NEW c \in Conns, CopyEnd(c) PROVE TypeOK' /\ ReqIsRegi'
  BY <1>22 DEF Step, CopyEnd
<1>23. ASSUME NEW c \in Conns, CopyUnlock(c) PROVE TypeOK' /\ ReqIsRegi'
  BY <1>23 DEF Step, CopyUnlock, Unlock
<1>24. ASSUME NEW c \in Conns, SendLinb(c) PROVE TypeOK' /\ ReqIsRegi'
  <2>1. NetTypeOK'
    <3>1. Linb(Len(copy[c])) \in Replies
      BY ReplyTypes
    <3> QED
      BY <1>24, <3>1, SendType DEF SendLinb
  <2> QED
    BY <1>24, <2>1 DEF Step, SendLinb, NetTypeOK
<1>25. ASSUME NEW c \in Conns, SendItem(c) PROVE TypeOK' /\ ReqIsRegi'
  <2>1. NetTypeOK'
    <3>1. copy[c][idx[c] + 1] \in Replies
      BY <1>25, ReplyTypes DEF SendItem
    <3> QED
      BY <1>25, <3>1, SendType DEF SendItem
  <2> QED
    <3>1. idx' \in [Conns -> Nat] /\ pc' \in [Conns -> Labels]
      BY <1>25 DEF SendItem, Step
    <3>2. pc' = pc /\ UNCHANGED <<mutex, register, canary, req, copy, running>>
      BY <1>25 DEF SendItem, Step
    <3> QED
      BY <3>1, <3>2, <2>1 DEF NetTypeOK
<1>26. ASSUME NEW c \in Conns, LoopEnd(c) PROVE TypeOK' /\ ReqIsRegi'
  BY <1>26 DEF Step, LoopEnd
<1>27. ASSUME NEW c \in Conns, Relay(c) PROVE TypeOK' /\ ReqIsRegi'
  BY <1>27, SMTT(20) DEF Step, Relay
<1>28. ASSUME NEW c \in Conns, SigPipe(c) PROVE TypeOK' /\ ReqIsRegi'
  BY <1>28 DEF SigPipe
<1>29. ASSUME NEW c \in Conns, PeerSends(c) PROVE TypeOK' /\ ReqIsRegi'
  BY <1>29, SMTT(20) DEF PeerSends
<1>30. ASSUME NEW c \in Conns, PeerReadsVerdict(c) PROVE TypeOK' /\ ReqIsRegi'
  BY <1>30, PeerReadType DEF PeerReadsVerdict
<1>31. ASSUME NEW c \in Conns, PeerAnswers(c) PROVE TypeOK' /\ ReqIsRegi'
  <2>1. toPeer' \in [Conns -> Seq(Replies)]
    BY <1>31, PeerReadType DEF PeerAnswers
  <2>2. toManager' \in [Conns -> Seq(Requests \cup Segments)]
    <3>1. Append(toManager[c], Msg("IMOK")) \in Seq(Requests \cup Segments)
      BY AnswerArrives
    <3> QED
      BY <1>31, <3>1 DEF PeerAnswers
  <2> QED
    BY <1>31, <2>1, <2>2 DEF PeerAnswers
<1>32. ASSUME NEW c \in Conns, PeerSeesEof(c) PROVE TypeOK' /\ ReqIsRegi'
  BY <1>32 DEF PeerSeesEof
<1>33. ASSUME NEW c \in Conns, PeerLeaves(c) PROVE TypeOK' /\ ReqIsRegi'
  <2>1. NetTypeOK'
    <3>1. <<>> \in Seq(Replies)
      OBVIOUS
    <3> QED
      BY <1>33, <3>1, HangupType DEF PeerLeaves, NetTypeOK
  <2> QED
    BY <1>33, <2>1 DEF PeerLeaves, NetTypeOK
<1>34. CASE UNCHANGED vars
  BY <1>34 DEF vars
<1> QED
  BY <1>1, <1>2, <1>3, <1>4, <1>5, <1>6, <1>7, <1>8, <1>9, <1>10, <1>11, <1>12, <1>13, <1>14,
       <1>15, <1>16, <1>17, <1>18, <1>19, <1>20, <1>21, <1>22, <1>23, <1>24, <1>25, <1>26,
       <1>27, <1>28, <1>29, <1>30, <1>31, <1>32, <1>33, <1>34
  DEF Next, Handler, Registration, Monitoring, Consultation, PeerReads, Idle

\* The variables keep their types: in particular a thread's canary never
\* points outside of the register, nor is anything but an entry written there.
THEOREM TypeCorrect == Spec => []TypeOK
<1>1. TypeOK /\ ReqIsRegi /\ [Next]_vars => TypeOK' /\ ReqIsRegi'
  BY TypeStep
<1> QED
  BY TypeInit, <1>1, PTL DEF Spec

-----------------------------------------------------------------------------
(* The mutex and the pointers.                                             *)

\* At the start the mutex is free and no pointer is set.
LEMMA ControlInit == Init => MutexIsHeld /\ CanaryIsSet
BY ManagerAssumption DEF Init, MutexIsHeld, CanaryIsSet, Critical

\* Every step keeps the mutex with the thread that locked it, and the
\* pointers set by register_broadcaster only.
LEMMA ControlStep ==
    ASSUME TypeOK, MutexIsHeld, CanaryIsSet, [Next]_vars
    PROVE  MutexIsHeld' /\ CanaryIsSet'
<1>0. None \notin Conns /\ None \notin Slots
  BY ManagerAssumption DEF Slots
<1>1. pc \in [Conns -> Labels] /\ canary \in [Conns -> Slots \cup {None}]
  BY DEF TypeOK
<1> USE <1>0, <1>1 DEF MutexIsHeld, CanaryIsSet, Critical, locals, net
<1>2. ASSUME NEW c \in Conns, Accept(c) PROVE MutexIsHeld' /\ CanaryIsSet'
  BY <1>2 DEF Step, Accept
<1>3. ASSUME NEW c \in Conns, AcceptWithoutThread(c) PROVE MutexIsHeld' /\ CanaryIsSet'
  BY <1>3 DEF Step, AcceptWithoutThread
<1>4. ASSUME NEW c \in Conns, RecvRequest(c) PROVE MutexIsHeld' /\ CanaryIsSet'
  BY <1>4 DEF Step, RecvRequest, FirstStep
<1>5. ASSUME NEW c \in Conns, RecvRequestFails(c) PROVE MutexIsHeld' /\ CanaryIsSet'
  BY <1>5 DEF Step, RecvRequestFails
<1>6. ASSUME NEW c \in Conns, Quit(c) PROVE MutexIsHeld' /\ CanaryIsSet'
  BY <1>6 DEF Step, Quit
<1>7. ASSUME NEW c \in Conns, RegisterLock(c) PROVE MutexIsHeld' /\ CanaryIsSet'
  BY <1>7 DEF Step, RegisterLock, Lock
<1>8. ASSUME NEW c \in Conns, ScanOccupied(c) PROVE MutexIsHeld' /\ CanaryIsSet'
  BY <1>8 DEF Step, ScanOccupied
<1>9. ASSUME NEW c \in Conns, ScanFree(c) PROVE MutexIsHeld' /\ CanaryIsSet'
  BY <1>9 DEF Step, ScanFree
<1>10. ASSUME NEW c \in Conns, RegisterCopy(c) PROVE MutexIsHeld' /\ CanaryIsSet'
  BY <1>10 DEF Step, RegisterCopy
<1>11. ASSUME NEW c \in Conns, RegisterType(c) PROVE MutexIsHeld' /\ CanaryIsSet'
  BY <1>11 DEF Step, RegisterType
<1>12. ASSUME NEW c \in Conns, ScanFull(c) PROVE MutexIsHeld' /\ CanaryIsSet'
  BY <1>12 DEF Step, ScanFull
<1>13. ASSUME NEW c \in Conns, RegisterUnlock(c) PROVE MutexIsHeld' /\ CanaryIsSet'
  BY <1>13 DEF Step, RegisterUnlock, Unlock
<1>14. ASSUME NEW c \in Conns, RegisterReply(c) PROVE MutexIsHeld' /\ CanaryIsSet'
  BY <1>14 DEF Step, RegisterReply
<1>15. ASSUME NEW c \in Conns, SendRuok(c) PROVE MutexIsHeld' /\ CanaryIsSet'
  BY <1>15 DEF Step, SendRuok
<1>16. ASSUME NEW c \in Conns, RecvImok(c) PROVE MutexIsHeld' /\ CanaryIsSet'
  BY <1>16 DEF Step, RecvImok
<1>17. ASSUME NEW c \in Conns, RecvImokFails(c) PROVE MutexIsHeld' /\ CanaryIsSet'
  BY <1>17 DEF Step, RecvImokFails
<1>18. ASSUME NEW c \in Conns, ClearLock(c) PROVE MutexIsHeld' /\ CanaryIsSet'
  BY <1>18 DEF Step, ClearLock, Lock
<1>19. ASSUME NEW c \in Conns, Clear(c) PROVE MutexIsHeld' /\ CanaryIsSet'
  BY <1>19 DEF Step, Clear
<1>20. ASSUME NEW c \in Conns, ClearUnlock(c) PROVE MutexIsHeld' /\ CanaryIsSet'
  BY <1>20 DEF Step, ClearUnlock, Unlock
<1>21. ASSUME NEW c \in Conns, CopyLock(c) PROVE MutexIsHeld' /\ CanaryIsSet'
  BY <1>21 DEF Step, CopyLock, Lock
<1>22. ASSUME NEW c \in Conns, CopySlot(c) PROVE MutexIsHeld' /\ CanaryIsSet'
  BY <1>22 DEF Step, CopySlot
<1>23. ASSUME NEW c \in Conns, CopyEnd(c) PROVE MutexIsHeld' /\ CanaryIsSet'
  BY <1>23 DEF Step, CopyEnd
<1>24. ASSUME NEW c \in Conns, CopyUnlock(c) PROVE MutexIsHeld' /\ CanaryIsSet'
  BY <1>24 DEF Step, CopyUnlock, Unlock
<1>25. ASSUME NEW c \in Conns, SendLinb(c) PROVE MutexIsHeld' /\ CanaryIsSet'
  BY <1>25 DEF Step, SendLinb
<1>26. ASSUME NEW c \in Conns, SendItem(c) PROVE MutexIsHeld' /\ CanaryIsSet'
  BY <1>26 DEF Step, SendItem
<1>27. ASSUME NEW c \in Conns, LoopEnd(c) PROVE MutexIsHeld' /\ CanaryIsSet'
  BY <1>27 DEF Step, LoopEnd
<1>28. ASSUME NEW c \in Conns, Relay(c) PROVE MutexIsHeld' /\ CanaryIsSet'
  BY <1>28 DEF Step, Relay
<1>29. ASSUME NEW c \in Conns, SigPipe(c) PROVE MutexIsHeld' /\ CanaryIsSet'
  BY <1>29 DEF SigPipe
<1>30. ASSUME NEW c \in Conns, PeerSends(c) PROVE MutexIsHeld' /\ CanaryIsSet'
  BY <1>30 DEF PeerSends
<1>31. ASSUME NEW c \in Conns, PeerReadsVerdict(c) PROVE MutexIsHeld' /\ CanaryIsSet'
  BY <1>31 DEF PeerReadsVerdict
<1>32. ASSUME NEW c \in Conns, PeerAnswers(c) PROVE MutexIsHeld' /\ CanaryIsSet'
  BY <1>32 DEF PeerAnswers
<1>33. ASSUME NEW c \in Conns, PeerSeesEof(c) PROVE MutexIsHeld' /\ CanaryIsSet'
  BY <1>33 DEF PeerSeesEof
<1>34. ASSUME NEW c \in Conns, PeerLeaves(c) PROVE MutexIsHeld' /\ CanaryIsSet'
  BY <1>34 DEF PeerLeaves
<1>35. CASE UNCHANGED vars
  BY <1>35 DEF vars
<1> QED
  BY <1>2, <1>3, <1>4, <1>5, <1>6, <1>7, <1>8, <1>9, <1>10, <1>11, <1>12, <1>13, <1>14, <1>15,
       <1>16, <1>17, <1>18, <1>19, <1>20, <1>21, <1>22, <1>23, <1>24, <1>25, <1>26, <1>27,
       <1>28, <1>29, <1>30, <1>31, <1>32, <1>33, <1>34, <1>35
  DEF Next, Handler, Registration, Monitoring, Consultation, PeerReads, Idle

-----------------------------------------------------------------------------
(* The register.                                                           *)

\* init_manager frees every slot.
LEMMA RegisterInit == Init => RegisterInv
BY DEF Init, RegisterInv, SlotIsWritten, OneHolder, SlotIsItem, SlotIsHeld,
       CopiesAreItems, Holds, Listed, Holding, Occupied, Msg

\* A step that writes neither the register nor a pointer nor a copy, and lets
\* every thread be a holder, listed or writing as it was.
Quiet ==
    /\ UNCHANGED <<register, canary, copy>>
    /\ \A d \in Conns :
        /\ Holds(d)' <=> Holds(d)
        /\ Listed(d)' <=> Listed(d)
        /\ pc'[d] = "regType" <=> pc[d] = "regType"
        /\ Holds(d) => req'[d] = req[d]

\* A quiet step keeps what is claimed of the register.
LEMMA QuietStep ==
    ASSUME RegisterInv, CanaryIsSet, Quiet
    PROVE  RegisterInv'
<1>1. SlotIsWritten'
  BY DEF RegisterInv, Quiet, SlotIsWritten, CanaryIsSet, Holds, Holding
<1>2. OneHolder'
  BY DEF RegisterInv, Quiet, OneHolder
<1>3. SlotIsItem'
  BY DEF RegisterInv, Quiet, SlotIsItem, Listed
<1>4. SlotIsHeld'
  BY DEF RegisterInv, Quiet, SlotIsHeld, Occupied
<1>5. CopiesAreItems'
  BY DEF RegisterInv, Quiet, CopiesAreItems
<1> QED
  BY <1>1, <1>2, <1>3, <1>4, <1>5 DEF RegisterInv

\* An occupied slot is seen, by a thread that has the mutex and is not
\* writing, as a complete entry.
LEMMA SlotSeen ==
    ASSUME IInv, NEW c \in Conns, pc[c] \in Critical \ {"regCopy", "regType"},
           NEW s \in Slots
    PROVE  /\ \A d \in Conns : Holds(d) => Listed(d)
           /\ Occupied(s) => register[s].type = "ITEM" /\ register[s].id # None
<1>1. ASSUME NEW d \in Conns, Holds(d) PROVE Listed(d)
  BY <1>1 DEF IInv, MutexIsHeld, Listed, Critical
<1>2. ASSUME Occupied(s) PROVE register[s].type = "ITEM" /\ register[s].id # None
  <2>1. PICK d \in Conns : Holds(d) /\ canary[d] = s
    BY <1>2 DEF IInv, RegisterInv, SlotIsHeld
  <2>2. register[s] = [type |-> "ITEM", id |-> req[d].id]
    BY <1>1, <2>1 DEF IInv, RegisterInv, SlotIsItem
  <2>3. pc[d] \in Serving
    BY <2>1 DEF Holds, Holding, Serving
  <2>4. req[d].type = "REGI" /\ req[d] \in Requests \cup Segments \cup {Msg("none")}
    BY <2>3 DEF IInv, ReqIsRegi, TypeOK
  <2>5. req[d].id \in Broadcasters
    BY <2>4, RegiIsEntry
  <2> QED
    BY <2>2, <2>5, ManagerAssumption
<1> QED
  BY <1>1, <1>2

\* A free slot is given to c: nobody else has it.
LEMMA ScanFreeStep ==
    ASSUME IInv, NEW c \in Conns, ScanFree(c)
    PROVE  RegisterInv'
<1>1. pc \in [Conns -> Labels] /\ canary \in [Conns -> Slots \cup {None}]
  BY DEF IInv, TypeOK
<1>2. /\ pc[c] = "regScan" /\ pc' = [pc EXCEPT ![c] = "regCopy"]
      /\ idx[c] \in Slots /\ ~Occupied(idx[c])
      /\ canary' = [canary EXCEPT ![c] = idx[c]]
      /\ register' = register /\ req' = req /\ copy' = copy
  BY DEF ScanFree, Step
<1>3. \A d \in Conns : Holds(d) => Listed(d) /\ canary[d] # idx[c]
  <2>1. ASSUME NEW d \in Conns, Holds(d) PROVE Listed(d)
    BY <1>2, <2>1, SlotSeen DEF Critical
  <2>2. ASSUME NEW d \in Conns, Holds(d) PROVE canary[d] # idx[c]
    <3>1. register[canary[d]] = [type |-> "ITEM", id |-> req[d].id]
      BY <2>1, <2>2 DEF IInv, RegisterInv, SlotIsItem
    <3> QED
      BY <1>2, <3>1 DEF Occupied
  <2> QED
    BY <2>1, <2>2
<1>4. ~Holds(c)
  BY <1>2 DEF Holds, Holding
<1>5. \A d \in Conns : d # c =>
        /\ pc'[d] = pc[d] /\ canary'[d] = canary[d]
        /\ (Holds(d)' <=> Holds(d)) /\ (Listed(d)' <=> Listed(d))
  BY <1>1, <1>2 DEF Holds, Listed
<1>6. pc'[c] = "regCopy" /\ canary'[c] = idx[c] /\ ~Listed(c)'
  BY <1>1, <1>2 DEF Listed
<1>7. SlotIsWritten'
  BY <1>2, <1>5, <1>6 DEF IInv, RegisterInv, SlotIsWritten
<1>8. OneHolder'
  BY <1>3, <1>5, <1>6 DEF IInv, RegisterInv, OneHolder
<1>9. SlotIsItem'
  BY <1>2, <1>5, <1>6 DEF IInv, RegisterInv, SlotIsItem
<1>10. SlotIsHeld'
  BY <1>2, <1>4, <1>5 DEF IInv, RegisterInv, SlotIsHeld, Occupied
<1>11. CopiesAreItems'
  BY <1>2 DEF IInv, RegisterInv, CopiesAreItems
<1> QED
  BY <1>7, <1>8, <1>9, <1>10, <1>11 DEF RegisterInv

\* A step of c that writes one field or all of its own slot disturbs no
\* other holder.
LEMMA OwnSlotStep ==
    ASSUME IInv, NEW c \in Conns, Holds(c), pc[c] \in Critical,
           NEW e \in Entry, register' = [register EXCEPT ![canary[c]] = e],
           NEW to \in Labels, pc' = [pc EXCEPT ![c] = to],
           UNCHANGED <<canary, req, copy>>,
           to = "regType" => e = req[c],
           Listed(c)' => e = [type |-> "ITEM", id |-> req[c].id],
           e.type # "NUL" => Holds(c)'
    PROVE  RegisterInv'
<1>1. pc \in [Conns -> Labels] /\ canary[c] \in Slots /\ register \in [Slots -> Entry]
  BY DEF IInv, TypeOK, Holds
<1>2. pc'[c] = to /\ register'[canary[c]] = e
  BY <1>1
<1>3. \A s \in Slots : s # canary[c] => register'[s] = register[s]
  BY <1>1
<1>4. \A d \in Conns : d # c =>
        /\ pc'[d] = pc[d]
        /\ (Holds(d)' <=> Holds(d)) /\ (Listed(d)' <=> Listed(d))
  BY <1>1 DEF Holds, Listed
<1>5. \A d \in Conns : d # c /\ Holds(d) => canary[d] \in Slots /\ canary[d] # canary[c]
  BY DEF IInv, RegisterInv, OneHolder, TypeOK, Holds
<1>6. \A d \in Conns : d # c => pc[d] # "regType"
  BY DEF IInv, MutexIsHeld, Critical
<1>7. SlotIsWritten'
  BY <1>2, <1>4, <1>6 DEF SlotIsWritten
<1>8. OneHolder'
  <2>1. \A d \in Conns : Holds(d)' => Holds(d)
    BY <1>4
  <2> QED
    BY <2>1 DEF IInv, RegisterInv, OneHolder
<1>9. SlotIsItem'
  <2>1. ASSUME NEW d \in Conns, Listed(d)', d # c
        PROVE  register'[canary'[d]] = [type |-> "ITEM", id |-> req'[d].id]
    <3>1. Listed(d) /\ Holds(d)
      BY <1>4, <2>1 DEF Listed
    <3> QED
      BY <1>3, <1>5, <2>1, <3>1 DEF IInv, RegisterInv, SlotIsItem
  <2> QED
    BY <1>2, <2>1 DEF SlotIsItem
<1>10. SlotIsHeld'
  BY <1>2, <1>3, <1>4 DEF IInv, RegisterInv, SlotIsHeld, Occupied
<1>11. CopiesAreItems'
  BY DEF IInv, RegisterInv, CopiesAreItems
<1> QED
  BY <1>7, <1>8, <1>9, <1>10, <1>11 DEF RegisterInv

\* What is appended to a copy is a complete entry.
LEMMA CopySlotStep ==
    ASSUME IInv, NEW c \in Conns, CopySlot(c)
    PROVE  RegisterInv'
<1>1. pc[c] = "copying" /\ pc' = [pc EXCEPT ![c] = "copying"] /\ idx[c] \in Slots
  BY DEF CopySlot, Step
<1>2. pc' = pc /\ UNCHANGED <<register, canary, req>>
  BY <1>1 DEF IInv, TypeOK, CopySlot
<1>3. SlotIsWritten' /\ OneHolder' /\ SlotIsItem' /\ SlotIsHeld'
  BY <1>2 DEF IInv, RegisterInv, SlotIsWritten, OneHolder, SlotIsItem, SlotIsHeld,
              Holds, Listed, Occupied
<1>4. CASE ~Occupied(idx[c])
  BY <1>3, <1>4 DEF IInv, RegisterInv, CopySlot, CopiesAreItems
<1>5. CASE Occupied(idx[c])
  <2>1. register[idx[c]].type = "ITEM" /\ register[idx[c]].id # None
    BY <1>1, <1>5, SlotSeen DEF Critical
  <2>2. copy[c] \in Seq(Entry) /\ register[idx[c]] \in Entry
    BY <1>1 DEF IInv, TypeOK
  <2>3. /\ copy' = [copy EXCEPT ![c] = Append(copy[c], register[idx[c]])]
        /\ copy \in [Conns -> Seq(Entry)]
    BY <1>5 DEF CopySlot, IInv, TypeOK
  <2>4. \A k \in 1..Len(copy'[c]) : copy'[c][k].type = "ITEM" /\ copy'[c][k].id # None
    BY <2>1, <2>2, <2>3 DEF IInv, RegisterInv, CopiesAreItems
  <2>5. CopiesAreItems'
    BY <2>3, <2>4 DEF IInv, RegisterInv, CopiesAreItems
  <2> QED
    BY <1>3, <2>5 DEF RegisterInv
<1> QED
  BY <1>4, <1>5

\* Every step keeps what is claimed of the register.
LEMMA RegisterStep ==
    ASSUME IInv, [Next]_vars
    PROVE  RegisterInv'
<1>1. /\ pc \in [Conns -> Labels] /\ canary \in [Conns -> Slots \cup {None}]
      /\ req \in [Conns -> Requests \cup Segments \cup {Msg("none")}]
      /\ register \in [Slots -> Entry]
      /\ CanaryIsSet /\ RegisterInv
  BY DEF IInv, TypeOK
<1>2. ASSUME NEW c \in Conns, Accept(c) PROVE Quiet
  BY <1>1, <1>2 DEF Quiet, Step, Accept, CanaryIsSet, Holds, Holding, Listed, locals, net
<1>3. ASSUME NEW c \in Conns, AcceptWithoutThread(c) PROVE Quiet
  BY <1>1, <1>3 DEF Quiet, Step, AcceptWithoutThread, CanaryIsSet, Holds, Holding, Listed,
       locals, net
<1>4. ASSUME NEW c \in Conns, RecvRequest(c) PROVE Quiet
  BY <1>1, <1>4 DEF Quiet, Step, RecvRequest, FirstStep, CanaryIsSet, Holds, Holding, Listed,
       locals, net
<1>5. ASSUME NEW c \in Conns, RecvRequestFails(c) PROVE Quiet
  BY <1>1, <1>5 DEF Quiet, Step, RecvRequestFails, CanaryIsSet, Holds, Holding, Listed, locals, net
<1>6. ASSUME NEW c \in Conns, Quit(c) PROVE Quiet
  BY <1>1, <1>6 DEF Quiet, Step, Quit, CanaryIsSet, Holds, Holding, Listed, locals, net
<1>7. ASSUME NEW c \in Conns, RegisterLock(c) PROVE Quiet
  BY <1>1, <1>7 DEF Quiet, Step, RegisterLock, CanaryIsSet, Holds, Holding, Listed, locals, net
<1>8. ASSUME NEW c \in Conns, ScanOccupied(c) PROVE Quiet
  BY <1>1, <1>8 DEF Quiet, Step, ScanOccupied, CanaryIsSet, Holds, Holding, Listed, locals, net
<1>9. ASSUME NEW c \in Conns, ScanFree(c) PROVE RegisterInv'
  BY <1>9, ScanFreeStep
<1>10. ASSUME NEW c \in Conns, RegisterCopy(c) PROVE RegisterInv'
  <2>1. pc[c] = "regCopy" /\ Holds(c) /\ pc[c] \in Critical
    BY <1>1, <1>10 DEF RegisterCopy, Step, CanaryIsSet, Holds, Holding, Critical
  <2>2. req[c] \in Entry
    BY <1>1, <2>1, RegiIsEntry DEF IInv, ReqIsRegi, Serving
  <2>3. pc'[c] = "regType" /\ "regType" \in Labels /\ Holds(c)' /\ ~Listed(c)'
    BY <1>1, <1>10, <2>1 DEF RegisterCopy, Step, Holds, Holding, Listed, Labels
  <2> QED
    BY <1>10, <2>1, <2>2, <2>3, OwnSlotStep DEF RegisterCopy, Step
<1>11. ASSUME NEW c \in Conns, RegisterType(c) PROVE RegisterInv'
  <2>1. pc[c] = "regType" /\ Holds(c) /\ pc[c] \in Critical /\ canary[c] \in Slots
    BY <1>1, <1>11 DEF RegisterType, Step, CanaryIsSet, Holds, Holding, Critical
  <2> DEFINE e == [type |-> "ITEM", id |-> register[canary[c]].id]
  <2>2. e \in Entry /\ [register[canary[c]] EXCEPT !.type = "ITEM"] = e
    <3>1. register[canary[c]] \in Entry
      BY <1>1, <2>1
    <3> QED
      BY <3>1, EntryType, Zenon
  <2>3. register' = [register EXCEPT ![canary[c]] = e]
    BY <1>11, <2>2 DEF RegisterType
  <2>4. e = [type |-> "ITEM", id |-> req[c].id]
    BY <1>1, <2>1 DEF RegisterInv, SlotIsWritten
  <2>5. pc'[c] = "regUnlock" /\ "regUnlock" \in Labels /\ Holds(c)'
    BY <1>1, <1>11, <2>1 DEF RegisterType, Step, Holds, Holding, Labels
  <2> HIDE DEF e
  <2> QED
    BY <1>11, <2>1, <2>2, <2>3, <2>4, <2>5, OwnSlotStep DEF RegisterType, Step
<1>12. ASSUME NEW c \in Conns, ScanFull(c) PROVE Quiet
  BY <1>1, <1>12 DEF Quiet, Step, ScanFull, CanaryIsSet, Holds, Holding, Listed, locals, net
<1>13. ASSUME NEW c \in Conns, RegisterUnlock(c) PROVE Quiet
  BY <1>1, <1>13 DEF Quiet, Step, RegisterUnlock, CanaryIsSet, Holds, Holding, Listed, locals, net
<1>14. ASSUME NEW c \in Conns, RegisterReply(c) PROVE Quiet
  BY <1>1, <1>14 DEF Quiet, Step, RegisterReply, CanaryIsSet, Holds, Holding, Listed, locals, net
<1>15. ASSUME NEW c \in Conns, SendRuok(c) PROVE Quiet
  BY <1>1, <1>15 DEF Quiet, Step, SendRuok, CanaryIsSet, Holds, Holding, Listed, locals, net
<1>16. ASSUME NEW c \in Conns, RecvImok(c) PROVE Quiet
  BY <1>1, <1>16 DEF Quiet, Step, RecvImok, CanaryIsSet, Holds, Holding, Listed, locals, net
<1>17. ASSUME NEW c \in Conns, RecvImokFails(c) PROVE Quiet
  BY <1>1, <1>17 DEF Quiet, Step, RecvImokFails, CanaryIsSet, Holds, Holding, Listed, locals, net
<1>18. ASSUME NEW c \in Conns, ClearLock(c) PROVE Quiet
  BY <1>1, <1>18 DEF Quiet, Step, ClearLock, CanaryIsSet, Holds, Holding, Listed, locals, net
<1>19. ASSUME NEW c \in Conns, Clear(c) PROVE RegisterInv'
  <2>1. pc[c] = "clear" /\ Holds(c) /\ pc[c] \in Critical /\ canary[c] \in Slots
    BY <1>1, <1>19 DEF Clear, Step, CanaryIsSet, Holds, Holding, Critical
  <2> DEFINE e == [type |-> "NUL", id |-> register[canary[c]].id]
  <2>2. e \in Entry /\ [register[canary[c]] EXCEPT !.type = "NUL"] = e
    <3>1. register[canary[c]] \in Entry
      BY <1>1, <2>1
    <3> QED
      BY <3>1, EntryType, Zenon
  <2>3. register' = [register EXCEPT ![canary[c]] = e]
    BY <1>19, <2>2 DEF Clear
  <2>4. e.type = "NUL"
    OBVIOUS
  <2>5. pc'[c] = "clearUnlock" /\ "clearUnlock" \in Labels /\ ~Listed(c)'
    BY <1>1, <1>19, <2>1 DEF Clear, Step, Listed, Holds, Holding, Labels
  <2> HIDE DEF e
  <2> QED
    BY <1>19, <2>1, <2>2, <2>3, <2>4, <2>5, OwnSlotStep DEF Clear, Step
<1>20. ASSUME NEW c \in Conns, ClearUnlock(c) PROVE Quiet
  BY <1>1, <1>20 DEF Quiet, Step, ClearUnlock, CanaryIsSet, Holds, Holding, Listed, locals, net
<1>21. ASSUME NEW c \in Conns, CopyLock(c) PROVE Quiet
  BY <1>1, <1>21 DEF Quiet, Step, CopyLock, CanaryIsSet, Holds, Holding, Listed, locals, net
<1>22. ASSUME NEW c \in Conns, CopySlot(c) PROVE RegisterInv'
  BY <1>22, CopySlotStep
<1>23. ASSUME NEW c \in Conns, CopyEnd(c) PROVE Quiet
  BY <1>1, <1>23 DEF Quiet, Step, CopyEnd, CanaryIsSet, Holds, Holding, Listed, locals, net
<1>24. ASSUME NEW c \in Conns, CopyUnlock(c) PROVE Quiet
  BY <1>1, <1>24 DEF Quiet, Step, CopyUnlock, CanaryIsSet, Holds, Holding, Listed, locals, net
<1>25. ASSUME NEW c \in Conns, SendLinb(c) PROVE Quiet
  BY <1>1, <1>25 DEF Quiet, Step, SendLinb, CanaryIsSet, Holds, Holding, Listed, locals, net
<1>26. ASSUME NEW c \in Conns, SendItem(c) PROVE Quiet
  BY <1>1, <1>26 DEF Quiet, Step, SendItem, CanaryIsSet, Holds, Holding, Listed, locals, net
<1>27. ASSUME NEW c \in Conns, LoopEnd(c) PROVE Quiet
  BY <1>1, <1>27 DEF Quiet, Step, LoopEnd, CanaryIsSet, Holds, Holding, Listed, locals, net
<1>28. ASSUME NEW c \in Conns, Relay(c) PROVE Quiet
  BY <1>1, <1>28 DEF Quiet, Step, Relay, CanaryIsSet, Holds, Holding, Listed, locals, net
<1>29. ASSUME NEW c \in Conns, SigPipe(c) PROVE Quiet
  BY <1>1, <1>29 DEF Quiet, SigPipe, CanaryIsSet, Holds, Holding, Listed, locals, net
<1>30. ASSUME NEW c \in Conns, PeerSends(c) PROVE Quiet
  BY <1>1, <1>30 DEF Quiet, PeerSends, CanaryIsSet, Holds, Holding, Listed, locals, net
<1>31. ASSUME NEW c \in Conns, PeerReadsVerdict(c) PROVE Quiet
  BY <1>1, <1>31 DEF Quiet, PeerReadsVerdict, CanaryIsSet, Holds, Holding, Listed, locals, net
<1>32. ASSUME NEW c \in Conns, PeerAnswers(c) PROVE Quiet
  BY <1>1, <1>32 DEF Quiet, PeerAnswers, CanaryIsSet, Holds, Holding, Listed, locals, net
<1>33. ASSUME NEW c \in Conns, PeerSeesEof(c) PROVE Quiet
  BY <1>1, <1>33 DEF Quiet, PeerSeesEof, CanaryIsSet, Holds, Holding, Listed, locals, net
<1>34. ASSUME NEW c \in Conns, PeerLeaves(c) PROVE Quiet
  BY <1>1, <1>34 DEF Quiet, PeerLeaves, CanaryIsSet, Holds, Holding, Listed, locals, net
<1>35. CASE UNCHANGED vars
  <2>1. Quiet
    BY <1>35 DEF vars, locals, Quiet, Holds, Listed
  <2> QED
    BY <1>1, <2>1, QuietStep
<1>36. Quiet => RegisterInv'
  BY <1>1, QuietStep
<1> QED
  BY <1>2, <1>3, <1>4, <1>5, <1>6, <1>7, <1>8, <1>9, <1>10, <1>11, <1>12, <1>13, <1>14, <1>15,
       <1>16, <1>17, <1>18, <1>19, <1>20, <1>21, <1>22, <1>23, <1>24, <1>25, <1>26, <1>27,
       <1>28, <1>29, <1>30, <1>31, <1>32, <1>33, <1>34, <1>35, <1>36
  DEF Next, Handler, Registration, Monitoring, Consultation, PeerReads, Idle

-----------------------------------------------------------------------------
(* The theorems.                                                           *)

\* IInv is an invariant of the manager.
THEOREM Invariance == Spec => []IInv
<1>1. Init => IInv
  BY TypeInit, ControlInit, RegisterInit DEF IInv
<1>2. IInv /\ [Next]_vars => IInv'
  BY TypeStep, ControlStep, RegisterStep DEF IInv
<1> QED
  BY <1>1, <1>2, PTL DEF Spec

\* Every occupied slot belongs to exactly one thread, which monitors the
\* broadcaster described there.
THEOREM SlotOwnershipCorrect == Spec => []SlotOwnership
<1>1. IInv => SlotOwnership
  BY DEF IInv, RegisterInv, OneHolder, SlotIsItem, SlotIsHeld, SlotOwnership
<1> QED
  BY Invariance, <1>1, PTL

\* A copy of the register holds complete ITEM entries only.
THEOREM CopiesAreItemsCorrect == Spec => []CopiesAreItems
<1>1. IInv => CopiesAreItems
  BY DEF IInv, RegisterInv
<1> QED
  BY Invariance, <1>1, PTL

=============================================================================
