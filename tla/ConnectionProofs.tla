-------------------------- MODULE ConnectionProofs --------------------------
(***************************************************************************)
(* Proofs about the two ends of a connection in Manager: what the peer     *)
(* believes and what is under way in each direction, for every place the   *)
(* thread of the connection can be at.  From them: a streamer that was     *)
(* told REOK is listed, the start of an answer is never paired with        *)
(* another RUOK than its own, even when TCP cuts the answers in two, and   *)
(* the reply to LIST has the length it announced.                          *)
(***************************************************************************)
EXTENDS ManagerProofs, FiniteSetTheorems, SequenceTheorems

-----------------------------------------------------------------------------
(* The inductive invariant.                                                *)

\* Where a thread stands after a RUOK it has sent, as long as it has not
\* shut the connection: waiting for the answer or giving the streamer up.
Clearing == {"clearLock", "clear", "clearUnlock", "quit"}
Awaiting == {"imok"} \cup Clearing

\* Where a thread stands before it answers LIST or MESS.
Consulting == {"copyLock", "copying", "copyUnlock", "linb", "relay"}

\* The socket follows the thread: it is opened by accept, shut by quit, and
\* the peers that talk to the manager have not closed their end.
LinkFits(c) ==
    /\ link[c] = "none" <=> pc[c] = "none"
    /\ pc[c] = "done" => link[c] \in {"shut", "bad"}
    /\ link[c] = "shut" => pc[c] = "done"
    /\ link[c] = "reset" => toManager[c] = <<>>
    /\ peer[c] = "none" => link[c] \in {"none", "bad"} /\ pc[c] \in {"none", "recv", "quit", "done"}
    /\ peer[c] = "connected" => link[c] = "open" /\ pc[c] = "recv"
    /\ peer[c] \in {"registering", "online", "client"} => link[c] \in {"open", "shut"}
    /\ peer[c] = "ended" => link[c] \notin {"none", "bad"}
    /\ peer[c] = "ended" /\ link[c] = "open" =>
          ~running /\ (pc[c] = "recv" \/ req[c].type = "REGI")

\* An answer, and the end of one whose start was taken for the answer.
Answer == <<Msg("IMOK")>>
Leftover == <<Msg("REST")>>

\* What there may be to receive before the answer to the last RUOK is taken:
\* the end of the answer to the RUOK before comes first.
Unanswered == {Answer, Leftover, <<Msg("REST"), Msg("IMOK")>>}

\* A thread reads one request, then answers to its RUOKs only.
InboxFits(c) ==
    \/ toManager[c] = <<>>
    \/ /\ pc[c] = "recv" /\ peer[c] \in {"registering", "client", "ended"}
       /\ \E m \in Requests :
            /\ toManager[c] = <<m>>
            /\ peer[c] = "registering" => m.type = "REGI"
            /\ peer[c] = "client" => m.type # "REGI"
    \/ /\ peer[c] \in {"online", "ended"}
       /\ \/ pc[c] = "ruok" /\ toManager[c] = Leftover
          \/ pc[c] = "imok" /\ toManager[c] \in Unanswered
          \/ pc[c] \in Clearing /\ toManager[c] = Answer

\* A streamer that waits for the verdict finds it, and at most one RUOK.
RegisteringFits(c) ==
    peer[c] = "registering" =>
        /\ pc[c] \in {"recv", "done", "quit"} \cup Serving
        /\ pc[c] # "recv" => req[c].type = "REGI"
        /\ toPeer[c] =
             IF pc[c] \in {"recv", "regLock", "regScan", "regCopy", "regType", "regUnlock", "regReply"}
             THEN <<>>
             ELSE IF canary[c] = None THEN <<Msg("RENO")>>
             ELSE IF pc[c] = "ruok" THEN <<Msg("REOK")>>
             ELSE <<Msg("REOK"), Msg("RUOK")>>

\* A streamer that was accepted is monitored or given up; of its RUOK and
\* the start of the answer to it, one at most is under way.
OnlineFits(c) ==
    peer[c] = "online" =>
        /\ pc[c] \in {"ruok", "done"} \cup Awaiting
        /\ req[c].type = "REGI" /\ canary[c] # None
        /\ \/ toPeer[c] = <<>>
           \/ /\ toPeer[c] = <<Msg("RUOK")>> /\ pc[c] # "ruok"
              /\ toManager[c] = <<>> \/ (pc[c] = "imok" /\ toManager[c] = Leftover)

\* What handle_list has sent of its copy when it has sent n items.
Reply(c, n) == <<Linb(Len(copy[c]))>> \o SubSeq(copy[c], 1, n)

\* A client has been sent the reply to its LIST as far as the loop is.
ClientFits(c) ==
    peer[c] = "client" =>
        /\ pc[c] \in {"recv", "item", "quit", "done"} \cup Consulting
        /\ pc[c] \in {"recv"} \cup Consulting => toPeer[c] = <<>>
        /\ pc[c] = "relay" => req[c].type # "LIST"
        /\ pc[c] \in {"linb", "item"} => req[c].type = "LIST"
        /\ pc[c] = "item" => toPeer[c] = Reply(c, idx[c])
        /\ pc[c] \in {"quit", "done"} =>
              toPeer[c] = IF req[c].type = "LIST" THEN Reply(c, Len(copy[c])) ELSE <<>>

\* The loop over the copy starts from 0 and stays inside of it.
ItemInCopy(c) ==
    /\ pc[c] = "linb" => idx[c] = 0
    /\ pc[c] = "item" => idx[c] <= Len(copy[c])

\* Nothing is under way to a peer that does not talk to the manager.
SilentFits(c) == peer[c] \in {"none", "connected", "ended"} => toPeer[c] = <<>>

ConnFits(c) ==
    /\ LinkFits(c)
    /\ InboxFits(c)
    /\ RegisteringFits(c)
    /\ OnlineFits(c)
    /\ ClientFits(c)
    /\ ItemInCopy(c)
    /\ SilentFits(c)
    /\ pc[c] = "clearUnlock" => canary[c] # None

ConnInv == \A c \in Conns : ConnFits(c)

-----------------------------------------------------------------------------
(* A step is about one connection.                                         *)

\* The step leaves the thread, the socket and the peer of d alone.
Untouched(d) ==
    /\ pc'[d] = pc[d] /\ idx'[d] = idx[d] /\ canary'[d] = canary[d]
    /\ req'[d] = req[d] /\ copy'[d] = copy[d]
    /\ link'[d] = link[d] /\ toManager'[d] = toManager[d]
    /\ toPeer'[d] = toPeer[d] /\ peer'[d] = peer[d]
    /\ running' => running

\* What holds of a connection holds after a step of another one.
LEMMA UntouchedFits ==
    ASSUME NEW d \in Conns, ConnFits(d), Untouched(d)
    PROVE  ConnFits(d)'
<1>1. LinkFits(d)' /\ InboxFits(d)'
  BY DEF Untouched, ConnFits, LinkFits, InboxFits
<1>2. RegisteringFits(d)' /\ OnlineFits(d)'
  BY DEF Untouched, ConnFits, RegisteringFits, OnlineFits
<1>3. ClientFits(d)'
  <2>1. Reply(d, idx[d])' = Reply(d, idx[d]) /\ Reply(d, Len(copy[d]))' = Reply(d, Len(copy[d]))
    BY DEF Untouched, Reply
  <2> QED
    BY <2>1 DEF Untouched, ConnFits, ClientFits
<1>4. ItemInCopy(d)' /\ SilentFits(d)'
  BY DEF Untouched, ConnFits, ItemInCopy, SilentFits
<1>5. (pc[d] = "clearUnlock" => canary[d] # None)'
  BY DEF Untouched, ConnFits
<1> QED
  BY <1>1, <1>2, <1>3, <1>4, <1>5 DEF ConnFits

\* Every step is a step about one connection.
LEMMA StepTouchesOne ==
    ASSUME TypeOK, NEW c \in Conns, NEW d \in Conns \ {c},
           \/ Accept(c) \/ AcceptWithoutThread(c)
           \/ Handler(c) \/ Relay(c) \/ SigPipe(c)
           \/ PeerSends(c) \/ PeerReads(c) \/ PeerLeaves(c)
    PROVE  Untouched(d)
<1> USE DEF Untouched, TypeOK, Step, locals, net, Hangup, Send, Receive
<1>1. CASE Accept(c)
  BY <1>1 DEF Accept
<1>2. CASE AcceptWithoutThread(c)
  BY <1>2 DEF AcceptWithoutThread
<1>3. CASE RecvRequest(c)
  BY <1>3 DEF RecvRequest
<1>4. CASE RecvRequestFails(c)
  BY <1>4 DEF RecvRequestFails
<1>5. CASE Quit(c)
  BY <1>5 DEF Quit
<1>6. CASE RegisterLock(c)
  BY <1>6 DEF RegisterLock
<1>7. CASE ScanOccupied(c)
  BY <1>7 DEF ScanOccupied
<1>8. CASE ScanFree(c)
  BY <1>8 DEF ScanFree
<1>9. CASE RegisterCopy(c)
  BY <1>9 DEF RegisterCopy
<1>10. CASE RegisterType(c)
  BY <1>10 DEF RegisterType
<1>11. CASE ScanFull(c)
  BY <1>11 DEF ScanFull
<1>12. CASE RegisterUnlock(c)
  BY <1>12 DEF RegisterUnlock
<1>13. CASE RegisterReply(c)
  BY <1>13 DEF RegisterReply
<1>14. CASE SendRuok(c)
  BY <1>14 DEF SendRuok
<1>15. CASE RecvImok(c)
  BY <1>15 DEF RecvImok, ReceiveStart
<1>16. CASE RecvImokFails(c)
  BY <1>16 DEF RecvImokFails
<1>17. CASE ClearLock(c)
  BY <1>17 DEF ClearLock
<1>18. CASE Clear(c)
  BY <1>18 DEF Clear
<1>19. CASE ClearUnlock(c)
  BY <1>19 DEF ClearUnlock
<1>20. CASE CopyLock(c)
  BY <1>20 DEF CopyLock
<1>21. CASE CopySlot(c)
  BY <1>21 DEF CopySlot
<1>22. CASE CopyEnd(c)
  BY <1>22 DEF CopyEnd
<1>23. CASE CopyUnlock(c)
  BY <1>23 DEF CopyUnlock
<1>24. CASE SendLinb(c)
  BY <1>24 DEF SendLinb
<1>25. CASE SendItem(c)
  BY <1>25 DEF SendItem
<1>26. CASE LoopEnd(c)
  BY <1>26 DEF LoopEnd
<1>27. CASE Relay(c)
  BY <1>27 DEF Relay
<1>28. CASE SigPipe(c)
  BY <1>28 DEF SigPipe
<1>29. CASE PeerSends(c)
  BY <1>29 DEF PeerSends
<1>30. CASE PeerReadsVerdict(c)
  BY <1>30 DEF PeerReadsVerdict
<1>31. CASE PeerAnswers(c)
  BY <1>31 DEF PeerAnswers
<1>32. CASE PeerSeesEof(c)
  BY <1>32 DEF PeerSeesEof
<1>33. CASE PeerLeaves(c)
  BY <1>33 DEF PeerLeaves
<1> QED
  BY <1>1, <1>2, <1>3, <1>4, <1>5, <1>6, <1>7, <1>8, <1>9, <1>10, <1>11, <1>12, <1>13, <1>14,
       <1>15, <1>16, <1>17, <1>18, <1>19, <1>20, <1>21, <1>22, <1>23, <1>24, <1>25, <1>26,
       <1>27, <1>28, <1>29, <1>30, <1>31, <1>32, <1>33
  DEF Handler, Registration, Monitoring, Consultation, PeerReads

-----------------------------------------------------------------------------
(* One step of one connection.                                             *)

\* The queues of a connection are short.
LEMMA ShortQueues ==
    ASSUME NEW a, NEW b
    PROVE  /\ <<a>> # <<>> /\ Head(<<a>>) = a /\ Tail(<<a>>) = <<>>
           /\ <<a, b>> # <<>> /\ Head(<<a, b>>) = a /\ Tail(<<a, b>>) = <<b>>
           /\ Append(<<>>, a) = <<a>> /\ Append(<<a>>, b) = <<a, b>>
<1>1. <<a>> # <<>> /\ Head(<<a>>) = a /\ Tail(<<a>>) = <<>>
  OBVIOUS
<1>2. <<a, b>> # <<>> /\ Head(<<a, b>>) = a /\ Tail(<<a, b>>) = <<b>>
  OBVIOUS
<1>3. Append(<<>>, a) = <<a>>
  OBVIOUS
<1>4. Append(<<a>>, b) = <<a, b>>
  <2>1. <<a>> \in Seq({a, b}) /\ Len(<<a>>) = 1
    OBVIOUS
  <2>2. Append(<<a>>, b) \in Seq({a, b}) /\ Len(Append(<<a>>, b)) = 2
    BY <2>1
  <2>3. Append(<<a>>, b)[1] = a /\ Append(<<a>>, b)[2] = b
    BY <2>1
  <2>4. <<a, b>> \in Seq({a, b}) /\ Len(<<a, b>>) = 2
    OBVIOUS
  <2>5. \A i \in 1..2 : Append(<<a>>, b)[i] = <<a, b>>[i]
    BY <2>3
  <2> QED
    BY <2>2, <2>4, <2>5, SeqEqual
<1> QED
  BY <1>1, <1>2, <1>3, <1>4

\* The two segments of an answer differ.
LEMMA SegmentsDiffer == Msg("IMOK") # Msg("REST")
BY DEF Msg

\* What there is to receive after an answer has arrived.
LEMMA AnswerComes ==
    /\ Append(<<>>, Msg("IMOK")) = Answer
    /\ Append(Leftover, Msg("IMOK")) = <<Msg("REST"), Msg("IMOK")>>
<1> DEFINE x == Msg("IMOK")
           z == Msg("REST")
<1> HIDE DEF x, z
<1>1. Append(<<>>, x) = <<x>> /\ Append(<<z>>, x) = <<z, x>>
  BY ShortQueues
<1> QED
  BY <1>1 DEF x, z, Answer, Leftover

\* What a recv takes of the answers, and leaves: the end of one that it takes
\* the start of, or what comes after the end of one.
LEMMA AnswerTaken ==
    /\ Leftover # <<>> /\ Leftover \in Unanswered
    /\ \A q \in Unanswered :
          /\ q # <<>> /\ Tail(q) \in {Answer, <<>>} /\ (q = Leftover => Tail(q) = <<>>)
          /\ Head(q) = Msg("IMOK") =>
                q # Leftover /\ Tail(q) = <<>> /\ <<Msg("REST")>> \o Tail(q) = Leftover
<1> DEFINE x == Msg("IMOK")
           z == Msg("REST")
<1>1. x # z
  BY SegmentsDiffer
<1>2. Unanswered = {<<x>>, <<z>>, <<z, x>>} /\ Answer = <<x>> /\ Leftover = <<z>>
  BY DEF Unanswered, Answer, Leftover
<1> HIDE DEF x, z
<1>3. /\ <<x>> # <<>> /\ Head(<<x>>) = x /\ Tail(<<x>>) = <<>>
      /\ <<z>> # <<>> /\ Head(<<z>>) = z /\ Tail(<<z>>) = <<>>
      /\ <<z, x>> # <<>> /\ Head(<<z, x>>) = z /\ Tail(<<z, x>>) = <<x>>
  BY ShortQueues
<1>4. <<x>> # <<z>> /\ <<z, x>> # <<z>>
  <2>1. <<x>>[1] = x /\ <<z>>[1] = z /\ Len(<<z, x>>) = 2 /\ Len(<<z>>) = 1
    OBVIOUS
  <2> QED
    BY <1>1, <2>1
<1>5. <<z>> \o <<>> = <<z>>
  OBVIOUS
<1>6. \A q \in {<<x>>, <<z>>, <<z, x>>} :
         /\ q # <<>> /\ Tail(q) \in {<<x>>, <<>>} /\ (q = <<z>> => Tail(q) = <<>>)
         /\ Head(q) = x => q # <<z>> /\ Tail(q) = <<>> /\ <<z>> \o Tail(q) = <<z>>
  BY <1>1, <1>3, <1>4, <1>5
<1> QED
  BY <1>2, <1>3, <1>6 DEF x, z

\* The reply to LIST starts without items.
LEMMA ReplyStarts ==
    ASSUME NEW S, NEW s \in Seq(S), NEW x
    PROVE  <<x>> \o SubSeq(s, 1, 0) = <<x>>
<1>1. SubSeq(s, 1, 0) = <<>>
  OBVIOUS
<1>2. <<x>> \o <<>> = <<x>>
  BY <<x>> \in Seq({x})
<1> QED
  BY <1>1, <1>2

\* Appending the next item to the LINB and n items gives n + 1 items.
LEMMA ReplyGrows ==
    ASSUME NEW S, NEW s \in Seq(S), NEW x, NEW n \in 0..(Len(s) - 1)
    PROVE  Append(<<x>> \o SubSeq(s, 1, n), s[n + 1]) = <<x>> \o SubSeq(s, 1, n + 1)
OBVIOUS

\* What is sent to a peer that is there comes after what it has not read.
LEMMA SendAppends ==
    ASSUME NEW c \in Conns, NEW m, DOMAIN toPeer = Conns, Send(c, m), link[c] = "open"
    PROVE  toPeer'[c] = Append(toPeer[c], m)
BY DEF Send

\* The same as ReplyGrows, of the reply of a connection.
LEMMA ReplyNext ==
    ASSUME NEW c \in Conns, copy[c] \in Seq(Entry), NEW n \in 0..(Len(copy[c]) - 1)
    PROVE  Append(Reply(c, n), copy[c][n + 1]) = Reply(c, n + 1)
<1> DEFINE s == copy[c]
           x == Linb(Len(copy[c]))
<1>1. s \in Seq(Entry) /\ n \in 0..(Len(s) - 1)
  OBVIOUS
<1> HIDE DEF s, x
<1>2. Append(<<x>> \o SubSeq(s, 1, n), s[n + 1]) = <<x>> \o SubSeq(s, 1, n + 1)
  BY <1>1, ReplyGrows
<1> QED
  BY <1>2 DEF s, x, Reply

\* The n-th message of the reply is the LINB or the item before.
LEMMA ReplyShape ==
    ASSUME NEW S, NEW s \in Seq(S), NEW x, NEW n \in 0..Len(s)
    PROVE  LET r == <<x>> \o SubSeq(s, 1, n)
           IN  /\ Len(r) = n + 1 /\ r # <<>> /\ Head(r) = x /\ r[1] = x
               /\ \A k \in 2..(n + 1) : k - 1 \in 1..Len(s) /\ r[k] = s[k - 1]
OBVIOUS

\* A step of c keeps what is claimed of its connection.
LEMMA ConnStep ==
    ASSUME IInv, NEW c \in Conns, ConnFits(c),
           \/ Accept(c) \/ AcceptWithoutThread(c)
           \/ Handler(c) \/ Relay(c) \/ SigPipe(c)
           \/ PeerSends(c) \/ PeerReads(c) \/ PeerLeaves(c)
    PROVE  ConnFits(c)'
<1>1. /\ pc \in [Conns -> Labels] /\ idx \in [Conns -> Nat]
      /\ canary \in [Conns -> Slots \cup {None}]
      /\ req \in [Conns -> Requests \cup Segments \cup {Msg("none")}]
      /\ copy \in [Conns -> Seq(Entry)]
      /\ link \in [Conns -> {"none", "bad", "open", "fin", "reset", "shut"}]
      /\ toManager \in [Conns -> Seq(Requests \cup Segments)]
      /\ toPeer \in [Conns -> Seq(Replies)]
      /\ peer \in [Conns -> {"none", "connected", "registering", "online", "client", "ended"}]
  BY DEF IInv, TypeOK
<1>2. None \notin Slots
  BY ManagerAssumption DEF Slots
<1>3. (pc[c] \in Serving => req[c].type = "REGI") /\ CanaryIsSet
  BY DEF IInv, ReqIsRegi
<1> USE <1>1, <1>2, <1>3 DEF ConnFits, LinkFits, InboxFits, RegisteringFits,
        OnlineFits, ClientFits, Reply, ItemInCopy, SilentFits, Step, locals, net, CanaryIsSet,
        Awaiting, Clearing, Consulting, Serving
<1>4. CASE Accept(c)
  BY <1>4 DEF Accept
<1>5. CASE AcceptWithoutThread(c)
  BY <1>5 DEF AcceptWithoutThread
<1>6. CASE RecvRequest(c)
  <2>1. PICK m \in Requests : toManager[c] = <<m>> /\ peer[c] \in {"registering", "client", "ended"}
                /\ (peer[c] = "registering" => m.type = "REGI") /\ (peer[c] = "client" => m.type # "REGI")
    BY <1>6 DEF RecvRequest, Readable
  <2>2. Head(toManager[c]) = m /\ Tail(toManager[c]) = <<>>
    BY <2>1, ShortQueues
  <2>3. /\ pc'[c] = FirstStep(m) /\ req'[c] = m /\ toManager'[c] = <<>>
        /\ UNCHANGED <<idx, canary, copy, link, toPeer, peer, running>>
    BY <1>6, <2>2 DEF RecvRequest, Receive
  <2> QED
    BY <1>6, <2>1, <2>3 DEF RecvRequest, FirstStep
<1>7. CASE RecvRequestFails(c)
  BY <1>7 DEF RecvRequestFails, Disconnected, Readable
<1>8. CASE Quit(c)
  BY <1>8 DEF Quit
<1>9. CASE RegisterLock(c)
  BY <1>9 DEF RegisterLock
<1>10. CASE ScanOccupied(c)
  BY <1>10 DEF ScanOccupied
<1>11. CASE ScanFree(c)
  BY <1>11 DEF ScanFree
<1>12. CASE RegisterCopy(c)
  BY <1>12 DEF RegisterCopy
<1>13. CASE RegisterType(c)
  BY <1>13 DEF RegisterType
<1>14. CASE ScanFull(c)
  BY <1>14 DEF ScanFull
<1>15. CASE RegisterUnlock(c)
  BY <1>15 DEF RegisterUnlock
<1>16. CASE RegisterReply(c)
  <2>1. pc[c] = "regReply" /\ peer[c] \in {"registering", "ended"} /\ toManager[c] = <<>> /\ toPeer[c] = <<>>
    BY <1>16 DEF RegisterReply
  <2>2. CASE link[c] = "open"
    <3>1. peer[c] = "registering"
      BY <1>16, <2>1, <2>2 DEF RegisterReply
    <3>2. pc'[c] = (IF canary[c] = None THEN "quit" ELSE "ruok")
      BY <1>16 DEF RegisterReply
    <3>3. toPeer'[c] = <<Msg(IF canary[c] = None THEN "RENO" ELSE "REOK")>>
      BY <1>16, <2>1, <2>2, ShortQueues DEF RegisterReply, Send
    <3>4. UNCHANGED <<idx, canary, req, copy, link, toManager, peer, running>>
      BY <1>16, <2>2 DEF RegisterReply, Send
    <3> QED
      BY <2>1, <2>2, <3>1, <3>2, <3>3, <3>4
  <2>3. CASE link[c] # "open"
    BY <1>16, <2>1, <2>3 DEF RegisterReply, Send, Hangup
  <2> QED
    BY <2>2, <2>3
<1>17. CASE SendRuok(c)
  <2>1. /\ pc[c] = "ruok" /\ peer[c] \in {"registering", "online", "ended"}
        /\ toManager[c] = <<>> \/ (toManager[c] = Leftover /\ peer[c] # "registering")
    BY <1>17 DEF SendRuok
  <2>2. CASE link[c] = "open"
    <3>1. /\ peer[c] = "registering" => toPeer[c] = <<Msg("REOK")>>
          /\ peer[c] = "online" => toPeer[c] = <<>>
          /\ peer[c] # "ended"
      BY <1>17, <2>1, <2>2 DEF SendRuok
    <3>2. /\ peer[c] = "registering" => toPeer'[c] = <<Msg("REOK"), Msg("RUOK")>>
          /\ peer[c] = "online" => toPeer'[c] = <<Msg("RUOK")>>
      <4>1. toPeer'[c] = Append(toPeer[c], Msg("RUOK"))
        BY <1>17, <2>2 DEF SendRuok, Send
      <4>2. /\ Append(<<Msg("REOK")>>, Msg("RUOK")) = <<Msg("REOK"), Msg("RUOK")>>
            /\ Append(<<>>, Msg("RUOK")) = <<Msg("RUOK")>>
        <5> HIDE DEF Msg
        <5> QED
          BY ShortQueues
      <4> QED
        BY <3>1, <4>1, <4>2
    <3>3. pc'[c] = "imok" /\ UNCHANGED <<idx, canary, req, copy, link, toManager, peer, running>>
      BY <1>17, <2>2 DEF SendRuok, Send
    <3> QED
      BY <2>1, <2>2, <3>1, <3>2, <3>3, AnswerTaken
  <2>3. CASE link[c] # "open"
    BY <1>17, <2>1, <2>3, AnswerTaken DEF SendRuok, Send, Hangup
  <2> QED
    BY <2>2, <2>3
<1>18. CASE RecvImok(c)
  <2>1. pc[c] = "imok" /\ peer[c] \in {"online", "ended"} /\ toManager[c] \in Unanswered
    BY <1>18 DEF RecvImok, Readable
  <2>2. UNCHANGED <<idx, canary, req, copy, link, toPeer, peer, running>>
    BY <1>18 DEF RecvImok, Receive, ReceiveStart
  <2>3. \/ /\ pc'[c] = "ruok" /\ Head(toManager[c]) = Msg("IMOK")
           /\ \/ toManager'[c] = Tail(toManager[c])
              \/ toManager'[c] = <<Msg("REST")>> \o Tail(toManager[c])
        \/ pc'[c] = "clearLock" /\ toManager'[c] = Tail(toManager[c])
    BY <1>18 DEF RecvImok, Receive, ReceiveStart
  <2>4. toManager[c] # <<>>
    BY <2>1, AnswerTaken
  <2>5. CASE pc'[c] = "ruok" /\ Head(toManager[c]) = Msg("IMOK")
    <3>1. toManager[c] # Leftover /\ toManager'[c] \in {<<>>, Leftover}
      BY <2>1, <2>3, <2>5, AnswerTaken
    <3> QED
      BY <2>1, <2>2, <2>4, <2>5, <3>1
  <2>6. CASE pc'[c] = "clearLock" /\ toManager'[c] = Tail(toManager[c])
    <3>1. toManager'[c] \in {Answer, <<>>} /\ (toManager[c] = Leftover => toManager'[c] = <<>>)
      BY <2>1, <2>6, AnswerTaken
    <3> QED
      BY <2>1, <2>2, <2>4, <2>6, <3>1
  <2> QED
    BY <2>3, <2>5, <2>6
<1>19. CASE RecvImokFails(c)
  BY <1>19 DEF RecvImokFails, Readable
<1>20. CASE ClearLock(c)
  BY <1>20 DEF ClearLock
<1>21. CASE Clear(c)
  BY <1>21 DEF Clear
<1>22. CASE ClearUnlock(c)
  BY <1>22 DEF ClearUnlock
<1>23. CASE CopyLock(c)
  BY <1>23 DEF CopyLock
<1>24. CASE CopySlot(c)
  BY <1>24 DEF CopySlot
<1>25. CASE CopyEnd(c)
  BY <1>25 DEF CopyEnd
<1>26. CASE CopyUnlock(c)
  BY <1>26 DEF CopyUnlock
<1>27. CASE SendLinb(c)
  <2>1. CASE link[c] = "open"
    <3>1. peer[c] = "client" /\ toPeer[c] = <<>>
      BY <1>27, <2>1 DEF SendLinb
    <3>2. toPeer'[c] = <<Linb(Len(copy[c]))>>
      BY <1>27, <2>1, <3>1, ShortQueues DEF SendLinb, Send
    <3>3. toPeer'[c] = <<Linb(Len(copy[c]))>> \o SubSeq(copy[c], 1, 0)
      BY <3>2, ReplyStarts
    <3> QED
      BY <1>27, <2>1, <3>1, <3>3 DEF SendLinb, Send
  <2>2. CASE link[c] # "open"
    BY <1>27, <2>2 DEF SendLinb, Send, Hangup
  <2> QED
    BY <2>1, <2>2
<1>28. CASE SendItem(c)
  <2>1. CASE link[c] = "open"
    <3>1. peer[c] = "client" /\ toPeer[c] = Reply(c, idx[c])
      BY <1>28, <2>1 DEF SendItem
    <3>2. idx[c] \in 0..(Len(copy[c]) - 1) /\ copy[c] \in Seq(Entry)
      BY <1>28 DEF SendItem
    <3>3. toPeer'[c] = Append(Reply(c, idx[c]), copy[c][idx[c] + 1])
      <4>1. Send(c, copy[c][idx[c] + 1])
        BY <1>28 DEF SendItem
      <4>2. DOMAIN toPeer = Conns
        OBVIOUS
      <4>3. toPeer'[c] = Append(toPeer[c], copy[c][idx[c] + 1])
        BY ONLY <2>1, <4>1, <4>2, SendAppends, c \in Conns
      <4> QED
        BY <3>1, <4>3
    <3>4. toPeer'[c] = Reply(c, idx[c] + 1) /\ idx'[c] = idx[c] + 1
      BY <1>28, <3>2, <3>3, ReplyNext DEF SendItem
    <3>5. pc' = pc /\ UNCHANGED <<canary, req, copy, link, toManager, peer, running>>
      BY <1>28, <2>1 DEF SendItem, Send
    <3>6. pc[c] = "item" /\ idx'[c] <= Len(copy[c])
      BY <1>28, <3>2, <3>4 DEF SendItem
    <3>7. ClientFits(c)' /\ ItemInCopy(c)'
      BY <3>1, <3>4, <3>5, <3>6
    <3> QED
      BY <3>1, <3>5, <3>6, <3>7
  <2>2. CASE link[c] # "open"
    BY <1>28, <2>2 DEF SendItem, Send, Hangup
  <2> QED
    BY <2>1, <2>2
<1>29. CASE LoopEnd(c)
  BY <1>29 DEF LoopEnd
<1>30. CASE Relay(c)
  BY <1>30 DEF Relay
<1>31. CASE SigPipe(c)
  BY <1>31 DEF SigPipe
<1>32. CASE PeerSends(c)
  BY <1>32 DEF PeerSends
<1>33. CASE PeerReadsVerdict(c)
  <2>1. peer[c] = "registering" /\ pc[c] \in {"ruok", "done"} \cup Awaiting /\ toManager[c] = <<>>
    BY <1>33 DEF PeerReadsVerdict
  <2>2. CASE canary[c] = None
    <3>1. toPeer[c] = <<Msg("RENO")>> /\ pc[c] \in {"quit", "done"}
      BY <1>33, <2>1, <2>2 DEF PeerReadsVerdict
    <3>2. Head(toPeer[c]) = Msg("RENO") /\ toPeer'[c] = <<>>
      BY <1>33, <3>1, ShortQueues DEF PeerReadsVerdict
    <3> QED
      BY <1>33, <2>1, <2>2, <3>1, <3>2 DEF PeerReadsVerdict, Msg
  <2>3. CASE canary[c] # None
    <3>1. toPeer[c] = IF pc[c] = "ruok" THEN <<Msg("REOK")>> ELSE <<Msg("REOK"), Msg("RUOK")>>
      BY <2>1, <2>3
    <3>2. Head(toPeer[c]) = Msg("REOK") /\ toPeer'[c] = IF pc[c] = "ruok" THEN <<>> ELSE <<Msg("RUOK")>>
      BY <1>33, <3>1, ShortQueues DEF PeerReadsVerdict
    <3> QED
      BY <1>33, <2>1, <2>3, <3>2 DEF PeerReadsVerdict, Msg
  <2> QED
    BY <2>2, <2>3
<1>34. CASE PeerAnswers(c)
  <2>1. /\ peer[c] = "online" /\ toPeer[c] = <<Msg("RUOK")>> /\ pc[c] \in Awaiting \cup {"done"}
        /\ toManager[c] = <<>> \/ (pc[c] = "imok" /\ toManager[c] = Leftover)
    BY <1>34 DEF PeerAnswers
  <2>2. toPeer'[c] = <<>>
    BY <1>34, <2>1, ShortQueues DEF PeerAnswers
  <2>3. /\ pc' = pc /\ UNCHANGED <<idx, canary, req, copy, link, peer, running>>
        /\ \/ toManager' = toManager
           \/ link[c] = "open" /\ toManager'[c] = Append(toManager[c], Msg("IMOK"))
    BY <1>34 DEF PeerAnswers
  <2>4. CASE toManager' = toManager
    BY <2>1, <2>2, <2>3, <2>4
  <2>5. CASE link[c] = "open" /\ toManager'[c] = Append(toManager[c], Msg("IMOK"))
    <3>1. pc[c] \in Awaiting
      BY <2>1, <2>5
    <3>2. \/ toManager'[c] = Answer
          \/ pc[c] = "imok" /\ toManager'[c] \in Unanswered
      BY <2>1, <2>5, AnswerComes DEF Unanswered
    <3>3. Answer \in Unanswered
      BY DEF Unanswered
    <3> QED
      BY <2>1, <2>2, <2>3, <3>1, <3>2, <3>3
  <2> QED
    BY <2>3, <2>4, <2>5
<1>35. CASE PeerSeesEof(c)
  BY <1>35 DEF PeerSeesEof
<1>36. CASE PeerLeaves(c)
  BY <1>36 DEF PeerLeaves, Hangup
<1> QED
  BY <1>4, <1>5, <1>6, <1>7, <1>8, <1>9, <1>10, <1>11, <1>12, <1>13, <1>14, <1>15, <1>16, <1>17,
       <1>18, <1>19, <1>20, <1>21, <1>22, <1>23, <1>24, <1>25, <1>26, <1>27, <1>28, <1>29,
       <1>30, <1>31, <1>32, <1>33, <1>34, <1>35, <1>36
  DEF Handler, Registration, Monitoring, Consultation, PeerReads

-----------------------------------------------------------------------------
(* The theorems.                                                           *)

\* At the start no connection has been accepted.
LEMMA ConnInit == Init => ConnInv
BY ManagerAssumption
DEF Init, ConnInv, ConnFits, LinkFits, InboxFits, RegisteringFits, OnlineFits,
    ClientFits, ItemInCopy, SilentFits

\* ConnInv is an invariant of the manager and its peers.
THEOREM ConnectionInvariance == Spec => []ConnInv
<1>1. IInv /\ ConnInv /\ [Next]_vars => ConnInv'
  <2> SUFFICES ASSUME IInv, ConnInv, [Next]_vars, NEW d \in Conns
               PROVE  ConnFits(d)'
    BY DEF ConnInv
  <2>1. ConnFits(d) /\ TypeOK
    BY DEF ConnInv, IInv
  <2>2. CASE UNCHANGED vars
    <3>1. Untouched(d)
      BY <2>2 DEF vars, locals, net, Untouched
    <3> QED
      BY <2>1, <3>1, UntouchedFits
  <2>3. ASSUME NEW c \in Conns,
               \/ Accept(c) \/ AcceptWithoutThread(c)
               \/ Handler(c) \/ Relay(c) \/ SigPipe(c)
               \/ PeerSends(c) \/ PeerReads(c) \/ PeerLeaves(c)
        PROVE  ConnFits(d)'
    <3>1. CASE d = c
      BY <2>1, <2>3, <3>1, ConnStep
    <3>2. CASE d # c
      <4>1. Untouched(d)
        BY <2>1, <2>3, <3>2, StepTouchesOne
      <4> QED
        BY <2>1, <4>1, UntouchedFits
    <3> QED
      BY <3>1, <3>2
  <2> QED
    BY <2>2, <2>3 DEF Next, Idle
<1> QED
  BY Invariance, ConnInit, <1>1, PTL DEF Spec

\* A streamer that was told REOK and whose connection stands is listed, or
\* its thread is about to shut the connection.
THEOREM OnlineIsListedCorrect == Spec => []OnlineIsListed
<1>1. IInv /\ ConnInv => OnlineIsListed
  <2> SUFFICES ASSUME IInv, ConnInv, NEW c \in Conns, peer[c] = "online", link[c] = "open"
               PROVE  Listed(c) \/ pc[c] \in {"clearUnlock", "quit"}
    BY DEF OnlineIsListed
  <2>1. ConnFits(c)
    BY DEF ConnInv
  <2>2. pc[c] \in {"ruok"} \cup Awaiting /\ canary[c] # None
    BY <2>1 DEF ConnFits, LinkFits, OnlineFits
  <2> QED
    BY <2>2 DEF Awaiting, Clearing, Listed, Holds, Holding
<1> QED
  BY Invariance, ConnectionInvariance, <1>1, PTL

\* There is one answer at most in the queue of answers.
LEMMA OneAnswer ==
    ASSUME NEW c \in Conns, toManager[c] \in Unanswered
    PROVE  \E k \in Nat : AnswersUnderWay(c) \subseteq {k}
<1> DEFINE x == Msg("IMOK")
           z == Msg("REST")
<1>1. x # z
  BY SegmentsDiffer
<1>2. toManager[c] \in {<<x>>, <<z>>, <<z, x>>}
  BY DEF Unanswered, Answer, Leftover
<1>3. AnswersUnderWay(c) = {k \in 1..Len(toManager[c]) : toManager[c][k] = x}
  BY DEF AnswersUnderWay
<1> HIDE DEF x, z
<1>4. CASE toManager[c] \in {<<x>>, <<z>>}
  <2>1. AnswersUnderWay(c) \subseteq {1}
    BY <1>3, <1>4
  <2> QED
    BY <2>1
<1>5. CASE toManager[c] = <<z, x>>
  <2>1. AnswersUnderWay(c) \subseteq {2}
    BY <1>1, <1>3, <1>5
  <2> QED
    BY <2>1
<1> QED
  BY <1>2, <1>4, <1>5

\* The end of an answer is none.
LEMMA NoAnswer ==
    ASSUME NEW c \in Conns, toManager[c] \in {<<>>, Leftover}
    PROVE  AnswersUnderWay(c) = {}
<1> DEFINE x == Msg("IMOK")
           z == Msg("REST")
<1>1. x # z
  BY SegmentsDiffer
<1>2. toManager[c] = <<>> \/ toManager[c] = <<z>>
  BY DEF Leftover
<1>3. AnswersUnderWay(c) = {k \in 1..Len(toManager[c]) : toManager[c][k] = x}
  BY DEF AnswersUnderWay
<1> HIDE DEF x, z
<1> QED
  BY <1>1, <1>2, <1>3

\* One answer at most is under way, and before a RUOK only the end of one.
LEMMA AnswersFew ==
    ASSUME IInv, ConnInv, NEW c \in Conns
    PROVE  /\ Cardinality(AnswersUnderWay(c)) \in {0, 1}
           /\ toManager[c] \in {<<>>, Leftover} => Cardinality(AnswersUnderWay(c)) = 0
           /\ pc[c] = "ruok" => toManager[c] \in {<<>>, Leftover}
<1>1. Cardinality({}) = 0
  BY FS_EmptySet
<1>2. pc[c] = "ruok" => toManager[c] \in {<<>>, Leftover}
  BY DEF ConnInv, ConnFits, InboxFits, Clearing
<1>3. CASE toManager[c] \in {<<>>, Leftover}
  BY <1>1, <1>2, <1>3, NoAnswer
<1>4. CASE toManager[c] \in Unanswered
  <2>1. PICK k \in Nat : AnswersUnderWay(c) \subseteq {k}
    BY <1>4, OneAnswer
  <2>2. AnswersUnderWay(c) = {} \/ AnswersUnderWay(c) = {k}
    BY <2>1
  <2> QED
    BY <1>1, <1>2, <1>3, <2>2, FS_Singleton
<1>5. CASE toManager[c] \notin {<<>>, Leftover} \cup Unanswered
  <2>1. PICK m \in Requests : toManager[c] = <<m>>
    BY <1>5 DEF ConnInv, ConnFits, InboxFits, Unanswered
  <2>2. m # Msg("IMOK")
    BY DEF Requests, Msg
  <2>3. AnswersUnderWay(c) = {}
    BY <2>1, <2>2 DEF AnswersUnderWay
  <2> QED
    BY <1>1, <1>2, <2>3
<1> QED
  BY <1>3, <1>4, <1>5

\* Nothing but one RUOK is ever sent before it is answered, and it is the
\* last of the messages under way.
LEMMA RuoksFew ==
    ASSUME IInv, ConnInv, NEW c \in Conns
    PROVE  \/ RuoksUnderWay(c) = {}
           \/ /\ RuoksUnderWay(c) \in {{1}, {2}}
              /\ toManager[c] \in {<<>>, Leftover} /\ pc[c] # "ruok"
<1>1. ConnFits(c) /\ TypeOK
  BY DEF ConnInv, IInv
<1>2. CASE toPeer[c] = <<>>
  BY <1>2 DEF RuoksUnderWay
<1>3. CASE peer[c] = "registering" /\ toPeer[c] # <<>>
  <2>1. pc[c] # "recv" /\ toManager[c] = <<>>
    BY <1>1, <1>3 DEF ConnFits, RegisteringFits, InboxFits
  <2>2. CASE toPeer[c] = <<Msg("RENO")>> \/ toPeer[c] = <<Msg("REOK")>>
    BY <2>2 DEF RuoksUnderWay, Msg
  <2>3. CASE toPeer[c] = <<Msg("REOK"), Msg("RUOK")>> /\ pc[c] # "ruok"
    <3>1. RuoksUnderWay(c) = {2}
      BY <2>3 DEF RuoksUnderWay, Msg
    <3> QED
      BY <2>1, <2>3, <3>1
  <2> QED
    BY <1>1, <1>3, <2>2, <2>3 DEF ConnFits, RegisteringFits
<1>4. CASE peer[c] = "online" /\ toPeer[c] # <<>>
  <2>1. toPeer[c] = <<Msg("RUOK")>> /\ toManager[c] \in {<<>>, Leftover} /\ pc[c] # "ruok"
    BY <1>1, <1>4 DEF ConnFits, OnlineFits
  <2>2. RuoksUnderWay(c) = {1}
    BY <2>1 DEF RuoksUnderWay
  <2> QED
    BY <2>1, <2>2
<1>5. CASE peer[c] = "client" /\ toPeer[c] # <<>>
  <2>1. copy[c] \in Seq(Entry) /\ Len(copy[c]) \in Nat /\ idx[c] \in Nat
    BY <1>1 DEF TypeOK
  <2>2. PICK n \in 0..Len(copy[c]) : toPeer[c] = Reply(c, n)
    BY <1>1, <1>5, <2>1 DEF ConnFits, ClientFits, ItemInCopy, Consulting
  <2>3. /\ Len(toPeer[c]) = n + 1 /\ toPeer[c][1] = Linb(Len(copy[c]))
        /\ \A k \in 2..(n + 1) : k - 1 \in 1..Len(copy[c]) /\ toPeer[c][k] = copy[c][k - 1]
    BY <2>1, <2>2, ReplyShape, SMTT(20) DEF Reply
  <2>4. \A k \in 1..Len(copy[c]) : copy[c][k].type = "ITEM"
    BY DEF IInv, RegisterInv, CopiesAreItems
  <2>5. Msg("RUOK").type = "RUOK" /\ toPeer[c][1].type = "LINB"
    BY <2>3 DEF Msg, Linb
  <2>6. \A k \in 1..(n + 1) : toPeer[c][k] # Msg("RUOK")
    <3>1. ASSUME NEW k \in 2..(n + 1) PROVE toPeer[c][k] # Msg("RUOK")
      <4>1. toPeer[c][k].type = "ITEM"
        BY <2>3, <2>4
      <4> QED
        BY <2>5, <4>1
    <3>2. toPeer[c][1] # Msg("RUOK")
      BY <2>5
    <3>3. \A k \in 1..(n + 1) : k = 1 \/ k \in 2..(n + 1)
      OBVIOUS
    <3> QED
      BY <3>1, <3>2, <3>3
  <2> QED
    BY <2>3, <2>6 DEF RuoksUnderWay
<1> QED
  BY <1>1, <1>2, <1>3, <1>4, <1>5 DEF ConnFits, SilentFits, TypeOK

\* At most one RUOK or answer is under way, and before a RUOK nothing but the
\* end of the answer to the one before.
THEOREM HeartbeatPairedCorrect == Spec => []HeartbeatPaired
<1>1. IInv /\ ConnInv => HeartbeatPaired
  <2> SUFFICES ASSUME IInv, ConnInv, NEW c \in Conns
               PROVE  /\ Pending(c) <= 1
                      /\ pc[c] = "ruok" => Pending(c) = 0 /\ toManager[c] \in {<<>>, Leftover}
    BY DEF HeartbeatPaired, Leftover
  <2>1. Cardinality({}) = 0 /\ Cardinality({1}) = 1 /\ Cardinality({2}) = 1
    BY FS_EmptySet, FS_Singleton
  <2>2. CASE RuoksUnderWay(c) = {}
    BY <2>1, <2>2, AnswersFew DEF Pending
  <2>3. CASE RuoksUnderWay(c) \in {{1}, {2}} /\ toManager[c] \in {<<>>, Leftover} /\ pc[c] # "ruok"
    <3>1. Cardinality(RuoksUnderWay(c)) = 1
      BY <2>1, <2>3
    <3>2. Cardinality(AnswersUnderWay(c)) = 0
      BY <2>3, AnswersFew
    <3> QED
      BY <2>3, <3>1, <3>2 DEF Pending
  <2> QED
    BY <2>2, <2>3, RuoksFew
<1> QED
  BY Invariance, ConnectionInvariance, <1>1, PTL

\* The reply to LIST has the length it announced.
THEOREM ListReplyCompleteCorrect == Spec => []ListReplyComplete
<1>1. IInv /\ ConnInv => ListReplyComplete
  <2> SUFFICES ASSUME IInv, ConnInv, NEW c \in Conns,
                      pc[c] = "quit", req[c].type = "LIST", link[c] = "open"
               PROVE  /\ toPeer[c] # <<>>
                      /\ Head(toPeer[c]) = Linb(Len(toPeer[c]) - 1)
                      /\ \A k \in 2..Len(toPeer[c]) : toPeer[c][k].type = "ITEM"
    BY DEF ListReplyComplete
  <2>1. ConnFits(c) /\ TypeOK
    BY DEF ConnInv, IInv
  <2>2. peer[c] = "client"
    BY <2>1 DEF ConnFits, LinkFits, RegisteringFits, OnlineFits, TypeOK
  <2>3. toPeer[c] = Reply(c, Len(copy[c]))
    BY <2>1, <2>2 DEF ConnFits, ClientFits
  <2>4. copy[c] \in Seq(Entry) /\ Len(copy[c]) \in 0..Len(copy[c])
    BY <2>1 DEF TypeOK
  <2>5. /\ Len(toPeer[c]) = Len(copy[c]) + 1 /\ toPeer[c] # <<>>
        /\ Head(toPeer[c]) = Linb(Len(copy[c]))
        /\ \A k \in 2..(Len(copy[c]) + 1) :
              k - 1 \in 1..Len(copy[c]) /\ toPeer[c][k] = copy[c][k - 1]
    BY <2>3, <2>4, ReplyShape DEF Reply
  <2>6. \A k \in 1..Len(copy[c]) : copy[c][k].type = "ITEM"
    BY DEF IInv, RegisterInv, CopiesAreItems
  <2> QED
    BY <2>4, <2>5, <2>6
<1> QED
  BY Invariance, ConnectionInvariance, <1>1, PTL

=============================================================================
