--------------------------- MODULE RegistryProofs ---------------------------
(***************************************************************************)
(* Proof that the threads of Manager, which share the register under       *)
(* register_mutex, implement Registry, where a registration, its refusal,  *)
(* its end and a consultation are one step each.                           *)
(***************************************************************************)
EXTENDS ConnectionProofs, FunctionTheorems

-----------------------------------------------------------------------------
(* The inductive invariant.                                                *)

\* The places of b in the copy of the register that c has made so far.
CopiedAs(c, b) == {k \in 1..Len(copy[c]) : copy[c][k].id = b}

\* The slots that describe b among those c's loop has passed.
SeenAs(c, b) == {s \in Slots : s < idx[c] /\ Occupied(s) /\ register[s].id = b}

\* Nothing is asked before the request is received, nor copied before the
\* mutex is taken.
StartsEmpty(c) ==
    /\ pc[c] \in {"none", "recv"} => req[c] = Msg("none")
    /\ pc[c] \in {"none", "recv", "copyLock"} => copy[c] = <<>>

\* The scan for a free slot has found the slots before i occupied.
ScanFits(c) ==
    pc[c] = "regScan" =>
        /\ idx[c] <= MAX_REGISTERED_BROADCASTER
        /\ \A s \in Slots : s < idx[c] => Occupied(s)

\* The copy holds each broadcaster as often as the slots before i do.
CopyFits(c) ==
    pc[c] = "copying" =>
        /\ idx[c] <= MAX_REGISTERED_BROADCASTER
        /\ \A b \in Broadcasters :
              Cardinality(CopiedAs(c, b)) = Cardinality(SeenAs(c, b))

LoopFits(c) == StartsEmpty(c) /\ ScanFits(c) /\ CopyFits(c)

LoopInv == \A c \in Conns : LoopFits(c)

-----------------------------------------------------------------------------
(* The loops over the register.                                            *)

\* What any step of the manager is: a step of one connection.
ConnAction(c) ==
    \/ Accept(c) \/ AcceptWithoutThread(c)
    \/ Handler(c) \/ Relay(c) \/ SigPipe(c)
    \/ PeerSends(c) \/ PeerReads(c) \/ PeerLeaves(c)

\* The register is written under the mutex only.
LEMMA WritesUnderMutex ==
    ASSUME NEW c \in Conns, ConnAction(c)
    PROVE  register' = register \/ RegisterCopy(c) \/ RegisterType(c) \/ Clear(c)
<1> USE DEF locals, net
<1> QED
  BY DEF ConnAction, Handler, Registration, Monitoring, Consultation, PeerReads,
         Accept, AcceptWithoutThread, RecvRequest, RecvRequestFails, Quit, RegisterLock,
         ScanOccupied, ScanFree, ScanFull, RegisterUnlock, RegisterReply, SendRuok, RecvImok,
         RecvImokFails, ClearLock, ClearUnlock, CopyLock, CopySlot, CopyEnd, CopyUnlock,
         SendLinb, SendItem, LoopEnd, Relay, SigPipe, PeerSends, PeerReadsVerdict, PeerAnswers,
         PeerSeesEof, PeerLeaves

\* A thread that writes the register keeps the others out of it.
LEMMA WriterIsAlone ==
    ASSUME IInv, NEW c \in Conns, ConnAction(c), NEW d \in Conns \ {c}
    PROVE  register' = register \/ pc[d] \notin Critical
<1>1. CASE RegisterCopy(c) \/ RegisterType(c) \/ Clear(c)
  <2>1. pc[c] \in Critical
    BY <1>1 DEF RegisterCopy, RegisterType, Clear, Step, Critical
  <2> QED
    BY <2>1 DEF IInv, MutexIsHeld
<1> QED
  BY <1>1, WritesUnderMutex

\* What is claimed of a loop holds after a step that is not about it.
LEMMA LoopUntouched ==
    ASSUME NEW d \in Conns, LoopFits(d),
           pc'[d] = pc[d], idx'[d] = idx[d], req'[d] = req[d], copy'[d] = copy[d],
           register' = register \/ pc[d] \notin Critical
    PROVE  LoopFits(d)'
<1>1. StartsEmpty(d)'
  BY DEF LoopFits, StartsEmpty
<1>2. ScanFits(d)'
  BY DEF LoopFits, ScanFits, Critical, Occupied
<1>3. CASE pc[d] = "copying"
  <2>1. ASSUME NEW b \in Broadcasters
        PROVE  Cardinality(CopiedAs(d, b)') = Cardinality(SeenAs(d, b)')
    <3>1. CopiedAs(d, b)' = CopiedAs(d, b)
      BY DEF CopiedAs
    <3>2. SeenAs(d, b)' = SeenAs(d, b)
      BY <1>3 DEF SeenAs, Critical, Occupied
    <3> QED
      BY <1>3, <3>1, <3>2 DEF LoopFits, CopyFits
  <2>2. CopyFits(d)'
    BY <1>3, <2>1 DEF LoopFits, CopyFits
  <2> QED
    BY <1>1, <1>2, <2>2 DEF LoopFits
<1>4. CASE pc[d] # "copying"
  BY <1>1, <1>2, <1>4 DEF LoopFits, CopyFits
<1> QED
  BY <1>3, <1>4

\* The numbers of the slots.
LEMMA SlotNumbers ==
    /\ MAX_REGISTERED_BROADCASTER \in Nat
    /\ \A s \in Slots : s \in Nat /\ s >= 0 /\ s + 1 <= MAX_REGISTERED_BROADCASTER
    /\ \A n \in Nat : n < MAX_REGISTERED_BROADCASTER => n \in Slots
    /\ IsFiniteSet(Slots) /\ Cardinality(Slots) = MAX_REGISTERED_BROADCASTER
<1>1. MAX_REGISTERED_BROADCASTER \in Nat /\ MAX_REGISTERED_BROADCASTER >= 1
  BY ManagerAssumption
<1>2. \A s \in Slots : s \in Nat /\ s >= 0 /\ s + 1 <= MAX_REGISTERED_BROADCASTER
  BY <1>1 DEF Slots
<1>3. \A n \in Nat : n < MAX_REGISTERED_BROADCASTER => n \in Slots
  BY <1>1 DEF Slots
<1>4. IsFiniteSet(Slots) /\ Cardinality(Slots) = MAX_REGISTERED_BROADCASTER
  <2> DEFINE m == MAX_REGISTERED_BROADCASTER - 1
  <2>1. m \in Int /\ 0 \in Int /\ ~(0 > m) /\ m - 0 + 1 = MAX_REGISTERED_BROADCASTER
    BY <1>1
  <2>2. Slots = 0..m
    BY DEF Slots
  <2> HIDE DEF m
  <2> QED
    BY <2>1, <2>2, FS_Interval
<1> QED
  BY <1>1, <1>2, <1>3, <1>4

\* One turn of the loop of copy_broadcaster_register.
LEMMA CopySlotFits ==
    ASSUME IInv, NEW c \in Conns, LoopFits(c), CopySlot(c)
    PROVE  CopyFits(c)'
<1>1. /\ pc[c] = "copying" /\ idx[c] \in Slots /\ register' = register
      /\ idx'[c] = idx[c] + 1 /\ copy[c] \in Seq(Entry)
      /\ MAX_REGISTERED_BROADCASTER \in 1..99
  BY ManagerAssumption DEF CopySlot, Step, IInv, TypeOK
<1>2. idx'[c] <= MAX_REGISTERED_BROADCASTER
  BY <1>1, SlotNumbers
<1> DEFINE e == register[idx[c]]
<1>3. copy'[c] = IF Occupied(idx[c]) THEN Append(copy[c], e) ELSE copy[c]
  BY DEF CopySlot, IInv, TypeOK
<1>4. e \in Entry
  BY <1>1 DEF IInv, TypeOK
<1>5. ASSUME NEW b \in Broadcasters
      PROVE  Cardinality(CopiedAs(c, b)') = Cardinality(SeenAs(c, b)')
  <2>1. Cardinality(CopiedAs(c, b)) = Cardinality(SeenAs(c, b))
    BY <1>1 DEF LoopFits, CopyFits
  <2>2. IsFiniteSet(CopiedAs(c, b)) /\ IsFiniteSet(SeenAs(c, b))
    <3>1. IsFiniteSet(1..Len(copy[c]))
      <4>1. Len(copy[c]) \in Int /\ 1 \in Int
        BY <1>1
      <4> HIDE DEF e
      <4> QED
        BY <4>1, FS_Interval
    <3>2. CopiedAs(c, b) \in SUBSET (1..Len(copy[c])) /\ SeenAs(c, b) \in SUBSET Slots
      BY DEF CopiedAs, SeenAs
    <3> QED
      BY <3>1, <3>2, SlotNumbers, FS_Subset
  <2>3. CASE Occupied(idx[c]) /\ e.id = b
    <3>1. CopiedAs(c, b)' = CopiedAs(c, b) \cup {Len(copy[c]) + 1}
      BY <1>1, <1>3, <1>4, <2>3 DEF CopiedAs
    <3>2. Len(copy[c]) + 1 \notin CopiedAs(c, b)
      BY <1>1 DEF CopiedAs
    <3>3. SeenAs(c, b)' = SeenAs(c, b) \cup {idx[c]}
      BY <1>1, <2>3 DEF SeenAs, Slots, Occupied
    <3>4. idx[c] \notin SeenAs(c, b)
      BY <1>1 DEF SeenAs, Slots
    <3>5. /\ Cardinality(CopiedAs(c, b) \cup {Len(copy[c]) + 1}) = Cardinality(CopiedAs(c, b)) + 1
          /\ Cardinality(SeenAs(c, b) \cup {idx[c]}) = Cardinality(SeenAs(c, b)) + 1
      BY <2>2, <3>2, <3>4, FS_AddElement
    <3> QED
      BY <2>1, <3>1, <3>3, <3>5
  <2>4. CASE ~(Occupied(idx[c]) /\ e.id = b)
    <3>1. CopiedAs(c, b)' = CopiedAs(c, b)
      BY <1>1, <1>3, <1>4, <2>4 DEF CopiedAs
    <3>2. SeenAs(c, b)' = SeenAs(c, b)
      BY <1>1, <2>4 DEF SeenAs, Slots, Occupied
    <3> QED
      BY <2>1, <3>1, <3>2
  <2> QED
    BY <2>3, <2>4
<1> QED
  BY <1>2, <1>5 DEF CopyFits

\* The copy starts empty, with the first slot.
LEMMA CopyLockFits ==
    ASSUME IInv, NEW c \in Conns, LoopFits(c), CopyLock(c)
    PROVE  CopyFits(c)'
<1>1. copy'[c] = <<>> /\ idx'[c] = 0 /\ MAX_REGISTERED_BROADCASTER \in 1..99
  BY ManagerAssumption DEF CopyLock, Step, IInv, TypeOK, LoopFits, StartsEmpty
<1>2. ASSUME NEW b \in Broadcasters
      PROVE  CopiedAs(c, b)' = {} /\ SeenAs(c, b)' = {}
  BY <1>1 DEF CopiedAs, SeenAs, Slots
<1>3. ASSUME NEW b \in Broadcasters
      PROVE  Cardinality(CopiedAs(c, b)') = Cardinality(SeenAs(c, b)')
  BY <1>2
<1>4. idx'[c] <= MAX_REGISTERED_BROADCASTER
  BY <1>1, SlotNumbers
<1> QED
  BY <1>3, <1>4 DEF CopyFits

\* A step of c keeps what is claimed of its loops.
LEMMA LoopStep ==
    ASSUME IInv, NEW c \in Conns, LoopFits(c), ConnAction(c)
    PROVE  LoopFits(c)'
<1>1. /\ pc \in [Conns -> Labels] /\ idx \in [Conns -> Nat]
      /\ req \in [Conns -> Requests \cup Segments \cup {Msg("none")}]
      /\ copy \in [Conns -> Seq(Entry)]
      /\ MAX_REGISTERED_BROADCASTER \in 1..99
  BY ManagerAssumption DEF IInv, TypeOK
<1> USE <1>1 DEF Step, locals, net, LoopFits, StartsEmpty, ScanFits
<1>2. CASE Accept(c)
  BY <1>2 DEF Accept, CopyFits
<1>3. CASE AcceptWithoutThread(c)
  BY <1>3 DEF AcceptWithoutThread, CopyFits
<1>4. CASE RecvRequest(c)
  BY <1>4 DEF RecvRequest, FirstStep, CopyFits
<1>5. CASE RecvRequestFails(c)
  BY <1>5 DEF RecvRequestFails, CopyFits
<1>6. CASE Quit(c)
  BY <1>6 DEF Quit, CopyFits
<1>7. CASE RegisterLock(c)
  BY <1>7 DEF RegisterLock, CopyFits, Slots
<1>8. CASE ScanOccupied(c)
  <2>1. /\ pc[c] = "regScan" /\ idx[c] \in Slots /\ Occupied(idx[c])
        /\ pc' = pc /\ idx'[c] = idx[c] + 1 /\ UNCHANGED <<register, req, copy>>
    BY <1>8 DEF ScanOccupied
  <2>2. \A s \in Slots : s < idx[c] + 1 => s < idx[c] \/ s = idx[c]
    BY <2>1, SlotNumbers
  <2>3. ScanFits(c)'
    BY <2>1, <2>2, SlotNumbers DEF Occupied
  <2> QED
    BY <2>1, <2>3 DEF CopyFits
<1>9. CASE ScanFree(c)
  BY <1>9 DEF ScanFree, CopyFits
<1>10. CASE RegisterCopy(c)
  BY <1>10 DEF RegisterCopy, CopyFits
<1>11. CASE RegisterType(c)
  BY <1>11 DEF RegisterType, CopyFits
<1>12. CASE ScanFull(c)
  BY <1>12 DEF ScanFull, CopyFits
<1>13. CASE RegisterUnlock(c)
  BY <1>13 DEF RegisterUnlock, CopyFits
<1>14. CASE RegisterReply(c)
  BY <1>14 DEF RegisterReply, CopyFits
<1>15. CASE SendRuok(c)
  BY <1>15 DEF SendRuok, CopyFits
<1>16. CASE RecvImok(c)
  BY <1>16 DEF RecvImok, CopyFits
<1>17. CASE RecvImokFails(c)
  BY <1>17 DEF RecvImokFails, CopyFits
<1>18. CASE ClearLock(c)
  BY <1>18 DEF ClearLock, CopyFits
<1>19. CASE Clear(c)
  BY <1>19 DEF Clear, CopyFits
<1>20. CASE ClearUnlock(c)
  BY <1>20 DEF ClearUnlock, CopyFits
<1>21. CASE CopyLock(c)
  BY <1>21, CopyLockFits DEF CopyLock
<1>22. CASE CopySlot(c)
  BY <1>22, CopySlotFits DEF CopySlot
<1>23. CASE CopyEnd(c)
  BY <1>23 DEF CopyEnd, CopyFits
<1>24. CASE CopyUnlock(c)
  BY <1>24 DEF CopyUnlock, CopyFits
<1>25. CASE SendLinb(c)
  BY <1>25 DEF SendLinb, CopyFits
<1>26. CASE SendItem(c)
  BY <1>26 DEF SendItem, CopyFits
<1>27. CASE LoopEnd(c)
  BY <1>27 DEF LoopEnd, CopyFits
<1>28. CASE Relay(c)
  BY <1>28 DEF Relay, CopyFits
<1>29. CASE SigPipe(c)
  BY <1>29 DEF SigPipe, CopyFits
<1>30. CASE PeerSends(c)
  BY <1>30, LoopUntouched DEF PeerSends
<1>31. CASE PeerReadsVerdict(c)
  BY <1>31, LoopUntouched DEF PeerReadsVerdict
<1>32. CASE PeerAnswers(c)
  BY <1>32, LoopUntouched DEF PeerAnswers
<1>33. CASE PeerSeesEof(c)
  BY <1>33, LoopUntouched DEF PeerSeesEof
<1>34. CASE PeerLeaves(c)
  BY <1>34, LoopUntouched DEF PeerLeaves
<1> QED
  BY <1>2, <1>3, <1>4, <1>5, <1>6, <1>7, <1>8, <1>9, <1>10, <1>11, <1>12, <1>13, <1>14, <1>15,
       <1>16, <1>17, <1>18, <1>19, <1>20, <1>21, <1>22, <1>23, <1>24, <1>25, <1>26, <1>27,
       <1>28, <1>29, <1>30, <1>31, <1>32, <1>33, <1>34
  DEF ConnAction, Handler, Registration, Monitoring, Consultation, PeerReads

\* LoopInv is an invariant of the manager.
LEMMA LoopInvariance == Spec => []LoopInv
<1>1. Init => LoopInv
  BY DEF Init, LoopInv, LoopFits, StartsEmpty, ScanFits, CopyFits
<1>2. IInv /\ LoopInv /\ [Next]_vars => LoopInv'
  <2> SUFFICES ASSUME IInv, LoopInv, [Next]_vars, NEW d \in Conns
               PROVE  LoopFits(d)'
    BY DEF LoopInv
  <2>1. LoopFits(d) /\ TypeOK
    BY DEF LoopInv, IInv
  <2>2. CASE UNCHANGED vars
    BY <2>1, <2>2, LoopUntouched DEF vars, locals
  <2>3. ASSUME NEW c \in Conns, ConnAction(c) PROVE LoopFits(d)'
    <3>1. CASE d = c
      BY <2>1, <2>3, <3>1, LoopStep
    <3>2. CASE d # c
      <4>1. Untouched(d)
        BY <2>1, <2>3, <3>2, StepTouchesOne DEF ConnAction
      <4>2. register' = register \/ pc[d] \notin Critical
        BY <2>3, <3>2, WriterIsAlone
      <4> QED
        BY <2>1, <4>1, <4>2, LoopUntouched DEF Untouched
    <3> QED
      BY <3>1, <3>2
  <2> QED
    BY <2>2, <2>3 DEF Next, Idle, ConnAction
<1> QED
  BY Invariance, <1>1, <1>2, PTL DEF Spec

-----------------------------------------------------------------------------
(* What the register looks like from one connection.                       *)

ListedAt(c) == IF Listed(c) THEN register[canary[c]].id ELSE None

VerdictAt(c) ==
    IF req[c].type # "REGI" \/ pc[c] \in {"regLock", "regScan", "regCopy", "regType"}
    THEN "undecided"
    ELSE IF canary[c] = None THEN "refused" ELSE "accepted"

ViewAt(c) ==
    IF req[c].type \in {"LIST", "MESS"} /\ pc[c] \notin {"copyLock", "copying"}
    THEN [b \in Broadcasters |-> Cardinality(CopiedAs(c, b))]
    ELSE None

\* The refinement mapping, connection by connection.
LEMMA Mapping ==
    /\ AbstractListed = [c \in Conns |-> ListedAt(c)]
    /\ AbstractVerdict = [c \in Conns |-> VerdictAt(c)]
    /\ AbstractView = [c \in Conns |-> ViewAt(c)]
    /\ AbstractListed' = [c \in Conns |-> ListedAt(c)']
    /\ AbstractVerdict' = [c \in Conns |-> VerdictAt(c)']
    /\ AbstractView' = [c \in Conns |-> ViewAt(c)']
BY DEF AbstractListed, ListedAt, AbstractVerdict, VerdictAt, AbstractView, ViewAt, CopiedAs

\* A connection that a step does not touch looks the same, and so does its
\* slot if another one's is written.
LEMMA OthersLookSame ==
    ASSUME IInv, NEW c \in Conns, ConnAction(c), NEW d \in Conns \ {c}
    PROVE  ListedAt(d)' = ListedAt(d) /\ VerdictAt(d)' = VerdictAt(d) /\ ViewAt(d)' = ViewAt(d)
<1>1. Untouched(d)
  BY StepTouchesOne DEF ConnAction, IInv
<1>2. VerdictAt(d)' = VerdictAt(d)
  BY <1>1 DEF VerdictAt, Untouched
<1>3. ViewAt(d)' = ViewAt(d)
  <2>1. ASSUME NEW b \in Broadcasters PROVE CopiedAs(d, b)' = CopiedAs(d, b)
    BY <1>1 DEF CopiedAs, Untouched
  <2>2. [b \in Broadcasters |-> Cardinality(CopiedAs(d, b))]'
          = [b \in Broadcasters |-> Cardinality(CopiedAs(d, b))]
    BY <2>1
  <2> QED
    BY <1>1, <2>2 DEF ViewAt, Untouched
<1>4. Listed(d)' <=> Listed(d)
  BY <1>1 DEF Untouched, Listed, Holds
<1>5. ASSUME Listed(d) PROVE register'[canary[d]] = register[canary[d]]
  <2>1. CASE register' = register
    BY <2>1
  <2>2. CASE RegisterCopy(c) \/ RegisterType(c) \/ Clear(c)
    <3>1. Holds(c) /\ Holds(d)
      BY <1>5, <2>2 DEF Listed, Holds, Holding, RegisterCopy, RegisterType, Clear, Step, IInv,
           CanaryIsSet
    <3>2. canary[c] # canary[d]
      BY <3>1 DEF IInv, RegisterInv, OneHolder
    <3>3. canary[d] \in Slots /\ register \in [Slots -> Entry]
      BY <3>1 DEF Holds, IInv, TypeOK
    <3> QED
      BY <2>2, <3>2, <3>3 DEF RegisterCopy, RegisterType, Clear
  <2> QED
    BY <2>1, <2>2, WritesUnderMutex
<1>6. ListedAt(d)' = ListedAt(d)
  BY <1>1, <1>4, <1>5 DEF ListedAt, Untouched
<1> QED
  BY <1>2, <1>3, <1>6

\* A connection that looks the same after its own step leaves the register
\* as its users see it.
LEMMA LooksSame ==
    ASSUME IInv, NEW c \in Conns, ConnAction(c),
           ListedAt(c)' = ListedAt(c), VerdictAt(c)' = VerdictAt(c), ViewAt(c)' = ViewAt(c)
    PROVE  UNCHANGED <<AbstractListed, AbstractVerdict, AbstractView>>
<1>1. \A d \in Conns : ListedAt(d)' = ListedAt(d) /\ VerdictAt(d)' = VerdictAt(d) /\ ViewAt(d)' = ViewAt(d)
  BY OthersLookSame
<1>2. [d \in Conns |-> ListedAt(d)'] = [d \in Conns |-> ListedAt(d)]
  BY <1>1
<1>3. [d \in Conns |-> VerdictAt(d)'] = [d \in Conns |-> VerdictAt(d)]
  BY <1>1
<1>4. [d \in Conns |-> ViewAt(d)'] = [d \in Conns |-> ViewAt(d)]
  BY <1>1
<1> QED
  BY <1>2, <1>3, <1>4, Mapping

\* The steps that no user of the register sees.
LEMMA SilentStep ==
    ASSUME IInv, NEW c \in Conns, LoopFits(c), ConnAction(c),
           ~RegisterType(c), ~ScanFull(c), ~Clear(c), ~CopyEnd(c)
    PROVE  UNCHANGED <<AbstractListed, AbstractVerdict, AbstractView>>
<1>1. /\ pc \in [Conns -> Labels]
      /\ canary \in [Conns -> Slots \cup {None}]
      /\ req \in [Conns -> Requests \cup Segments \cup {Msg("none")}]
      /\ Msg("none").type = "none"
      /\ None \notin Slots
  BY ManagerAssumption DEF IInv, TypeOK, Msg, Slots
<1>2. /\ pc[c] \in Serving => req[c].type = "REGI"
      /\ pc[c] \in {"none", "recv"} => req[c] = Msg("none")
      /\ CanaryIsSet
  BY DEF IInv, ReqIsRegi, LoopFits, StartsEmpty
<1>3. ASSUME copy'[c] = copy[c]
      PROVE  [b \in Broadcasters |-> Cardinality(CopiedAs(c, b)')]
                = [b \in Broadcasters |-> Cardinality(CopiedAs(c, b))]
  <2>1. ASSUME NEW b \in Broadcasters PROVE CopiedAs(c, b)' = CopiedAs(c, b)
    BY <1>3 DEF CopiedAs
  <2> QED
    BY <2>1
<1> DEFINE Same == ListedAt(c)' = ListedAt(c) /\ VerdictAt(c)' = VerdictAt(c) /\ ViewAt(c)' = ViewAt(c)
<1> USE <1>1, <1>2, <1>3 DEF ListedAt, Listed, Holds, Holding, VerdictAt, ViewAt, Serving, CanaryIsSet, Step, locals, net
<1>4. CASE Accept(c)
  <2>1. Same
    BY <1>4 DEF Accept
  <2> QED
    BY <2>1, LooksSame
<1>5. CASE AcceptWithoutThread(c)
  <2>1. Same
    BY <1>5 DEF AcceptWithoutThread
  <2> QED
    BY <2>1, LooksSame
<1>6. CASE RecvRequest(c)
  <2>1. Same
    BY <1>6 DEF RecvRequest, FirstStep
  <2> QED
    BY <2>1, LooksSame
<1>7. CASE RecvRequestFails(c)
  <2>1. Same
    BY <1>7 DEF RecvRequestFails
  <2> QED
    BY <2>1, LooksSame
<1>8. CASE Quit(c)
  <2>1. Same
    BY <1>8 DEF Quit
  <2> QED
    BY <2>1, LooksSame
<1>9. CASE RegisterLock(c)
  <2>1. Same
    BY <1>9 DEF RegisterLock
  <2> QED
    BY <2>1, LooksSame
<1>10. CASE ScanOccupied(c)
  <2>1. Same
    BY <1>10 DEF ScanOccupied
  <2> QED
    BY <2>1, LooksSame
<1>11. CASE ScanFree(c)
  <2>1. Same
    BY <1>11 DEF ScanFree
  <2> QED
    BY <2>1, LooksSame
<1>12. CASE RegisterCopy(c)
  <2>1. Same
    BY <1>12 DEF RegisterCopy
  <2> QED
    BY <2>1, LooksSame
<1>13. CASE RegisterUnlock(c)
  <2>1. Same
    BY <1>13 DEF RegisterUnlock
  <2> QED
    BY <2>1, LooksSame
<1>14. CASE RegisterReply(c)
  <2>1. Same
    BY <1>14 DEF RegisterReply
  <2> QED
    BY <2>1, LooksSame
<1>15. CASE SendRuok(c)
  <2>1. Same
    BY <1>15 DEF SendRuok
  <2> QED
    BY <2>1, LooksSame
<1>16. CASE RecvImok(c)
  <2>1. Same
    BY <1>16 DEF RecvImok
  <2> QED
    BY <2>1, LooksSame
<1>17. CASE RecvImokFails(c)
  <2>1. Same
    BY <1>17 DEF RecvImokFails
  <2> QED
    BY <2>1, LooksSame
<1>18. CASE ClearLock(c)
  <2>1. Same
    BY <1>18 DEF ClearLock
  <2> QED
    BY <2>1, LooksSame
<1>19. CASE ClearUnlock(c)
  <2>1. Same
    BY <1>19 DEF ClearUnlock
  <2> QED
    BY <2>1, LooksSame
<1>20. CASE CopyLock(c)
  <2>1. Same
    BY <1>20 DEF CopyLock
  <2> QED
    BY <2>1, LooksSame
<1>21. CASE CopySlot(c)
  <2>1. Same
    BY <1>21 DEF CopySlot
  <2> QED
    BY <2>1, LooksSame
<1>22. CASE CopyUnlock(c)
  <2>1. Same
    BY <1>22 DEF CopyUnlock
  <2> QED
    BY <2>1, LooksSame
<1>23. CASE SendLinb(c)
  <2>1. Same
    BY <1>23 DEF SendLinb
  <2> QED
    BY <2>1, LooksSame
<1>24. CASE SendItem(c)
  <2>1. Same
    BY <1>24 DEF SendItem
  <2> QED
    BY <2>1, LooksSame
<1>25. CASE LoopEnd(c)
  <2>1. Same
    BY <1>25 DEF LoopEnd
  <2> QED
    BY <2>1, LooksSame
<1>26. CASE Relay(c)
  <2>1. Same
    BY <1>26 DEF Relay
  <2> QED
    BY <2>1, LooksSame
<1>27. CASE SigPipe(c)
  <2>1. Same
    BY <1>27 DEF SigPipe
  <2> QED
    BY <2>1, LooksSame
<1>28. CASE PeerSends(c)
  <2>1. Same
    BY <1>28 DEF PeerSends
  <2> QED
    BY <2>1, LooksSame
<1>29. CASE PeerReadsVerdict(c)
  <2>1. Same
    BY <1>29 DEF PeerReadsVerdict
  <2> QED
    BY <2>1, LooksSame
<1>30. CASE PeerAnswers(c)
  <2>1. Same
    BY <1>30 DEF PeerAnswers
  <2> QED
    BY <2>1, LooksSame
<1>31. CASE PeerSeesEof(c)
  <2>1. Same
    BY <1>31 DEF PeerSeesEof
  <2> QED
    BY <2>1, LooksSame
<1>32. CASE PeerLeaves(c)
  <2>1. Same
    BY <1>32 DEF PeerLeaves
  <2> QED
    BY <2>1, LooksSame
<1> QED
  BY <1>4, <1>5, <1>6, <1>7, <1>8, <1>9, <1>10, <1>11, <1>12, <1>13, <1>14, <1>15, <1>16, <1>17,
       <1>18, <1>19, <1>20, <1>21, <1>22, <1>23, <1>24, <1>25, <1>26, <1>27, <1>28, <1>29,
       <1>30, <1>31, <1>32
  DEF ConnAction, Handler, Registration, Monitoring, Consultation, PeerReads

-----------------------------------------------------------------------------
(* The steps that the users of the register see.                           *)

\* As many threads hold the slots of a set as it has slots, when each of
\* these slots is held by one of these threads.
LEMMA CanaryBijection ==
    ASSUME IInv, NEW D \in SUBSET Conns, NEW T \in SUBSET Slots,
           \A d \in D : Holds(d) /\ canary[d] \in T,
           \A s \in T : \E d \in D : canary[d] = s
    PROVE  IsFiniteSet(D) /\ IsFiniteSet(T) /\ Cardinality(D) = Cardinality(T)
<1> DEFINE f == [d \in D |-> canary[d]]
<1>1. IsFiniteSet(D) /\ IsFiniteSet(T)
  BY ManagerAssumption, SlotNumbers, FS_Subset
<1>2. f \in Bijection(D, T)
  <2>1. f \in [D -> T]
    OBVIOUS
  <2>2. \A a, b \in D : f[a] = f[b] => a = b
    BY DEF IInv, RegisterInv, OneHolder
  <2>3. \A s \in T : \E d \in D : f[d] = s
    OBVIOUS
  <2> QED
    BY <2>1, <2>2, <2>3, Fun_IsBij
<1>3. ExistsBijection(D, T)
  BY <1>2 DEF ExistsBijection
<1> QED
  BY <1>1, <1>3, FS_Bijection

\* What is listed is a broadcaster, and its slot is occupied.
LEMMA ListedIsBroadcaster ==
    ASSUME IInv, NEW c \in Conns, Listed(c)
    PROVE  /\ register[canary[c]].id = req[c].id /\ req[c].id \in Broadcasters
           /\ canary[c] \in Slots /\ Occupied(canary[c]) /\ Holds(c)
<1>1. Holds(c) /\ canary[c] \in Slots /\ pc[c] \in Serving
  BY DEF Listed, Holds, Holding, Serving, IInv, TypeOK
<1>2. req[c] \in [type : {"REGI"}, id : Broadcasters]
  BY <1>1, RegiIsEntry DEF IInv, ReqIsRegi, TypeOK
<1>3. register[canary[c]] = [type |-> "ITEM", id |-> req[c].id]
  BY DEF IInv, RegisterInv, SlotIsItem
<1> QED
  BY <1>1, <1>2, <1>3 DEF Occupied

\* Registry counts as Manager does.
LEMMA SameCardinality == \A S : Abstract!Cardinality(S) = Cardinality(S)
BY DEF Abstract!Cardinality, Cardinality

\* The connections that Registry sees in the register.
LEMMA ListedConnsAre ==
    ASSUME IInv
    PROVE  Abstract!ListedConns = {c \in Conns : Listed(c)}
<1>1. \A c \in Conns : ListedAt(c) # None <=> Listed(c)
  BY ListedIsBroadcaster, ManagerAssumption DEF ListedAt
<1> QED
  BY <1>1, Mapping DEF Abstract!ListedConns

\* The entry of c gets its type: a registration, for which there was room.
LEMMA RegisterTypeStep ==
    ASSUME IInv, NEW c \in Conns, RegisterType(c)
    PROVE  \E b \in Broadcasters : Abstract!Register(c, b)
<1>1. /\ pc[c] = "regType" /\ pc'[c] = "regUnlock" /\ UNCHANGED <<canary, req, copy>>
      /\ register' = [register EXCEPT ![canary[c]].type = "ITEM"]
      /\ register \in [Slots -> Entry] /\ pc \in [Conns -> Labels]
  BY DEF RegisterType, Step, IInv, TypeOK
<1>2. Holds(c) /\ canary[c] \in Slots /\ canary[c] # None /\ ~Listed(c)
  BY <1>1 DEF IInv, TypeOK, CanaryIsSet, Holds, Holding, Listed
<1>3. req[c].type = "REGI" /\ req[c].id \in Broadcasters /\ register[canary[c]].id = req[c].id
  BY <1>1, RegiIsEntry DEF IInv, TypeOK, ReqIsRegi, Serving, RegisterInv, SlotIsWritten
<1>4. ListedAt(c)' = req[c].id /\ VerdictAt(c) = "undecided" /\ VerdictAt(c)' = "accepted" /\ ViewAt(c)' = ViewAt(c)
  <2>1. register'[canary[c]].id = req[c].id
    <3>1. register[canary[c]] \in Entry
      BY <1>1, <1>2
    <3>2. register'[canary[c]] = [register[canary[c]] EXCEPT !.type = "ITEM"]
      BY <1>1, <1>2
    <3> QED
      BY <1>3, <3>1, <3>2 DEF Entry
  <2> QED
    BY <1>1, <1>2, <1>3, <2>1 DEF ListedAt, Listed, Holds, Holding, VerdictAt, ViewAt
<1>5. ConnAction(c)
  BY DEF ConnAction, Handler, Registration
<1>6. /\ AbstractListed' = [AbstractListed EXCEPT ![c] = req[c].id]
      /\ AbstractVerdict' = [AbstractVerdict EXCEPT ![c] = "accepted"]
      /\ AbstractView' = AbstractView
  <2>1. \A d \in Conns \ {c} : ListedAt(d)' = ListedAt(d) /\ VerdictAt(d)' = VerdictAt(d) /\ ViewAt(d)' = ViewAt(d)
    BY <1>5, OthersLookSame
  <2>2. [d \in Conns |-> ListedAt(d)'] = [[d \in Conns |-> ListedAt(d)] EXCEPT ![c] = req[c].id]
    BY <1>4, <2>1
  <2>3. [d \in Conns |-> VerdictAt(d)'] = [[d \in Conns |-> VerdictAt(d)] EXCEPT ![c] = "accepted"]
    BY <1>4, <2>1
  <2>4. [d \in Conns |-> ViewAt(d)'] = [d \in Conns |-> ViewAt(d)]
    BY <1>4, <2>1
  <2> QED
    BY <2>2, <2>3, <2>4, Mapping
<1>7. Cardinality(Abstract!ListedConns) < MAX_REGISTERED_BROADCASTER
  <2> DEFINE D == {d \in Conns : Listed(d)}
             T == {s \in Slots : \E d \in D : canary[d] = s}
  <2>1. \A d \in D : Holds(d) /\ canary[d] \in T
    BY ListedIsBroadcaster
  <2>2. IsFiniteSet(T) /\ Cardinality(D) = Cardinality(T)
    BY <2>1, CanaryBijection
  <2>3. T \subseteq Slots \ {canary[c]}
    BY <1>2, <2>1 DEF IInv, RegisterInv, OneHolder
  <2>4. IsFiniteSet(Slots \ {canary[c]}) /\ Cardinality(Slots \ {canary[c]}) = MAX_REGISTERED_BROADCASTER - 1
    BY <1>2, SlotNumbers, FS_RemoveElement
  <2>5. Cardinality(T) <= MAX_REGISTERED_BROADCASTER - 1
    BY <2>3, <2>4, FS_Subset
  <2>6. Cardinality(T) \in Nat
    BY <2>2, FS_CardinalityType
  <2>7. Abstract!ListedConns = D
    BY ListedConnsAre
  <2> HIDE DEF D, T
  <2> QED
    BY <2>2, <2>5, <2>6, <2>7, SlotNumbers
<1>8. AbstractVerdict[c] = "undecided"
  BY <1>4, Mapping
<1> QED
  BY <1>3, <1>6, <1>7, <1>8, SameCardinality DEF Abstract!Register

\* The scan ends without a free slot: a refusal, by a full register.
LEMMA ScanFullStep ==
    ASSUME IInv, NEW c \in Conns, LoopFits(c), ScanFull(c)
    PROVE  Abstract!Refuse(c)
<1>1. /\ pc[c] = "regScan" /\ pc'[c] = "regUnlock" /\ UNCHANGED <<register, canary, req, copy>>
      /\ idx[c] = MAX_REGISTERED_BROADCASTER /\ pc \in [Conns -> Labels]
  BY DEF ScanFull, Step, IInv, TypeOK
<1>2. canary[c] = None /\ req[c].type = "REGI"
  BY <1>1 DEF IInv, CanaryIsSet, ReqIsRegi, Serving
<1>3. VerdictAt(c) = "undecided" /\ VerdictAt(c)' = "refused" /\ ListedAt(c)' = ListedAt(c) /\ ViewAt(c)' = ViewAt(c)
  BY <1>1, <1>2 DEF ListedAt, Listed, Holds, Holding, VerdictAt, ViewAt
<1>4. ConnAction(c)
  BY DEF ConnAction, Handler, Registration
<1>5. /\ AbstractListed' = AbstractListed
      /\ AbstractVerdict' = [AbstractVerdict EXCEPT ![c] = "refused"]
      /\ AbstractView' = AbstractView
  <2>1. \A d \in Conns \ {c} : ListedAt(d)' = ListedAt(d) /\ VerdictAt(d)' = VerdictAt(d) /\ ViewAt(d)' = ViewAt(d)
    BY <1>4, OthersLookSame
  <2>2. [d \in Conns |-> ListedAt(d)'] = [d \in Conns |-> ListedAt(d)]
    BY <1>3, <2>1
  <2>3. [d \in Conns |-> VerdictAt(d)'] = [[d \in Conns |-> VerdictAt(d)] EXCEPT ![c] = "refused"]
    BY <1>3, <2>1
  <2>4. [d \in Conns |-> ViewAt(d)'] = [d \in Conns |-> ViewAt(d)]
    BY <1>3, <2>1
  <2> QED
    BY <2>2, <2>3, <2>4, Mapping
<1>6. Cardinality(Abstract!ListedConns) = MAX_REGISTERED_BROADCASTER
  <2> DEFINE D == {d \in Conns : Listed(d)}
  <2>1. \A d \in D : Holds(d) /\ canary[d] \in Slots
    BY ListedIsBroadcaster
  <2>2. \A s \in Slots : Occupied(s)
    BY <1>1, SlotNumbers DEF LoopFits, ScanFits
  <2>3. \A d \in Conns : Holds(d) => Listed(d)
    BY <1>1, SlotSeen, SlotNumbers, ManagerAssumption DEF Critical
  <2>4. \A s \in Slots : \E d \in D : canary[d] = s
    BY <2>2, <2>3 DEF IInv, RegisterInv, SlotIsHeld
  <2>5. Cardinality(D) = Cardinality(Slots)
    BY <2>1, <2>4, CanaryBijection
  <2>6. Abstract!ListedConns = D
    BY ListedConnsAre
  <2> QED
    BY <2>5, <2>6, SlotNumbers
<1>7. AbstractVerdict[c] = "undecided"
  BY <1>3, Mapping
<1> QED
  BY <1>5, <1>6, <1>7, SameCardinality DEF Abstract!Refuse

\* The first character of the entry is cleared: the end of a registration.
LEMMA ClearStep ==
    ASSUME IInv, NEW c \in Conns, Clear(c)
    PROVE  Abstract!Unregister(c)
<1>1. /\ pc[c] = "clear" /\ pc'[c] = "clearUnlock" /\ UNCHANGED <<canary, req, copy>>
      /\ pc \in [Conns -> Labels]
  BY DEF Clear, Step, IInv, TypeOK
<1>2. Listed(c) /\ req[c].type = "REGI"
  BY <1>1 DEF IInv, CanaryIsSet, Listed, Holds, Holding, ReqIsRegi, Serving
<1>3. /\ ListedAt(c) # None /\ ListedAt(c)' = None
      /\ VerdictAt(c)' = VerdictAt(c) /\ ViewAt(c)' = ViewAt(c)
  BY <1>1, <1>2, ListedIsBroadcaster, ManagerAssumption
  DEF ListedAt, Listed, Holds, Holding, VerdictAt, ViewAt
<1>4. ConnAction(c)
  BY DEF ConnAction, Handler, Monitoring
<1>5. /\ AbstractListed' = [AbstractListed EXCEPT ![c] = None]
      /\ AbstractVerdict' = AbstractVerdict
      /\ AbstractView' = AbstractView
  <2>1. \A d \in Conns \ {c} : ListedAt(d)' = ListedAt(d) /\ VerdictAt(d)' = VerdictAt(d) /\ ViewAt(d)' = ViewAt(d)
    BY <1>4, OthersLookSame
  <2>2. [d \in Conns |-> ListedAt(d)'] = [[d \in Conns |-> ListedAt(d)] EXCEPT ![c] = None]
    <3>1. \A d \in Conns : ListedAt(d)' = IF d = c THEN None ELSE ListedAt(d)
      BY <1>3, <2>1
    <3> QED
      BY <3>1
  <2>3. [d \in Conns |-> VerdictAt(d)'] = [d \in Conns |-> VerdictAt(d)]
    BY <1>3, <2>1
  <2>4. [d \in Conns |-> ViewAt(d)'] = [d \in Conns |-> ViewAt(d)]
    BY <1>3, <2>1
  <2> QED
    BY <2>2, <2>3, <2>4, Mapping
<1>6. AbstractListed[c] # None
  BY <1>3, Mapping
<1> QED
  BY <1>5, <1>6 DEF Abstract!Unregister

\* The copy is complete: it has each broadcaster as often as it is listed.
LEMMA CopyIsOccurrences ==
    ASSUME IInv, NEW c \in Conns, LoopFits(c), CopyEnd(c), NEW b \in Broadcasters
    PROVE  Cardinality(CopiedAs(c, b)) = Cardinality({d \in Conns : AbstractListed[d] = b})
<1>1. pc[c] = "copying" /\ idx[c] = MAX_REGISTERED_BROADCASTER
  BY DEF CopyEnd, Step
<1> DEFINE D == {d \in Conns : AbstractListed[d] = b}
<1>2. Cardinality(CopiedAs(c, b)) = Cardinality(SeenAs(c, b))
  BY <1>1 DEF LoopFits, CopyFits
<1>3. \A d \in Conns : d \in D <=> Listed(d) /\ register[canary[d]].id = b
  <2>1. b # None
    BY ManagerAssumption
  <2> QED
    BY <2>1, Mapping DEF ListedAt
<1>4. \A d \in D : Holds(d) /\ canary[d] \in SeenAs(c, b)
  BY <1>1, <1>3, ListedIsBroadcaster, SlotNumbers DEF SeenAs
<1>5. \A s \in SeenAs(c, b) : \E d \in D : canary[d] = s
  <2>1. ASSUME NEW s \in SeenAs(c, b) PROVE \E d \in D : canary[d] = s
    <3>1. s \in Slots /\ Occupied(s) /\ register[s].id = b
      BY DEF SeenAs
    <3>2. PICK d \in Conns : Holds(d) /\ canary[d] = s
      BY <3>1 DEF IInv, RegisterInv, SlotIsHeld
    <3>3. Listed(d)
      BY <1>1, <3>1, <3>2, SlotSeen DEF Critical
    <3> QED
      BY <1>3, <3>1, <3>2, <3>3
  <2> QED
    BY <2>1
<1>6. D \in SUBSET Conns /\ SeenAs(c, b) \in SUBSET Slots
  BY DEF SeenAs
<1> HIDE DEF D
<1>7. Cardinality(D) = Cardinality(SeenAs(c, b))
  BY <1>4, <1>5, <1>6, CanaryBijection
<1> QED
  BY <1>2, <1>7 DEF D

\* The copy is complete: a consultation.
LEMMA CopyEndStep ==
    ASSUME IInv, NEW c \in Conns, LoopFits(c), CopyEnd(c)
    PROVE  \/ UNCHANGED <<AbstractListed, AbstractVerdict, AbstractView>>
           \/ Abstract!Consult(c)
<1>1. /\ pc[c] = "copying" /\ pc'[c] = "copyUnlock" /\ UNCHANGED <<register, canary, req, copy>>
      /\ pc \in [Conns -> Labels]
  BY DEF CopyEnd, Step, IInv, TypeOK
<1>2. ConnAction(c)
  BY DEF ConnAction, Handler, Consultation
<1>3. ListedAt(c)' = ListedAt(c) /\ VerdictAt(c)' = VerdictAt(c) /\ ViewAt(c) = None
  BY <1>1 DEF ListedAt, Listed, Holds, Holding, VerdictAt, ViewAt
<1>4. CASE req[c].type \notin {"LIST", "MESS"}
  <2>1. ViewAt(c)' = ViewAt(c)
    BY <1>1, <1>4 DEF ViewAt
  <2> QED
    BY <1>2, <1>3, <2>1, LooksSame
<1>5. CASE req[c].type \in {"LIST", "MESS"}
  <2>1. [b \in Broadcasters |-> Cardinality(CopiedAs(c, b)')] = Abstract!Occurrences
    <3>1. ASSUME NEW b \in Broadcasters
          PROVE  Cardinality(CopiedAs(c, b)') = Abstract!Cardinality({d \in Conns : AbstractListed[d] = b})
      <4>1. CopiedAs(c, b)' = CopiedAs(c, b)
        BY <1>1 DEF CopiedAs
      <4> QED
        BY <4>1, CopyIsOccurrences, SameCardinality
    <3> QED
      BY <3>1 DEF Abstract!Occurrences
  <2>2. ViewAt(c)' = Abstract!Occurrences
    BY <1>1, <1>5, <2>1 DEF ViewAt
  <2>3. \A d \in Conns \ {c} : ListedAt(d)' = ListedAt(d) /\ VerdictAt(d)' = VerdictAt(d) /\ ViewAt(d)' = ViewAt(d)
    BY <1>2, OthersLookSame
  <2>4. [d \in Conns |-> ListedAt(d)'] = [d \in Conns |-> ListedAt(d)]
    BY <1>3, <2>3
  <2>5. [d \in Conns |-> VerdictAt(d)'] = [d \in Conns |-> VerdictAt(d)]
    BY <1>3, <2>3
  <2>6. [d \in Conns |-> ViewAt(d)'] = [[d \in Conns |-> ViewAt(d)] EXCEPT ![c] = Abstract!Occurrences]
    BY <2>2, <2>3
  <2>7. AbstractView[c] = None
    BY <1>3, Mapping
  <2> QED
    BY <2>4, <2>5, <2>6, <2>7, Mapping DEF Abstract!Consult
<1> QED
  BY <1>4, <1>5

-----------------------------------------------------------------------------
(* The theorem.                                                            *)

\* At the start nobody is registered and nothing has been answered.
LEMMA RegistryInit == Init => Abstract!Init
<1> SUFFICES ASSUME Init PROVE Abstract!Init
  OBVIOUS
<1>1. \A c \in Conns : ListedAt(c) = None /\ VerdictAt(c) = "undecided" /\ ViewAt(c) = None
  BY DEF Init, ListedAt, Listed, Holds, Holding, VerdictAt, ViewAt, Msg
<1> QED
  BY <1>1, Mapping DEF Abstract!Init

\* A step of the manager is a step of Registry.
LEMMA RegistryStep ==
    ASSUME IInv, LoopInv, [Next]_vars
    PROVE  [Abstract!Next]_(Abstract!registryVars)
<1>1. ASSUME NEW c \in Conns, ConnAction(c) PROVE Abstract!Next
  <2>1. LoopFits(c)
    BY DEF LoopInv
  <2>2. CASE RegisterType(c)
    BY <2>2, RegisterTypeStep DEF Abstract!Next
  <2>3. CASE ScanFull(c)
    BY <2>1, <2>3, ScanFullStep DEF Abstract!Next
  <2>4. CASE Clear(c)
    BY <2>4, ClearStep DEF Abstract!Next
  <2>5. CASE CopyEnd(c)
    BY <2>1, <2>5, CopyEndStep DEF Abstract!Next, Abstract!registryVars
  <2>6. CASE ~RegisterType(c) /\ ~ScanFull(c) /\ ~Clear(c) /\ ~CopyEnd(c)
    BY <1>1, <2>1, <2>6, SilentStep DEF Abstract!Next, Abstract!registryVars
  <2> QED
    BY <2>2, <2>3, <2>4, <2>5, <2>6
<1>2. CASE UNCHANGED vars
  <2>1. \A d \in Conns : ListedAt(d)' = ListedAt(d) /\ VerdictAt(d)' = VerdictAt(d) /\ ViewAt(d)' = ViewAt(d)
    <3> TAKE d \in Conns
    <3>1. UNCHANGED <<pc, canary, req, copy, register>>
      BY <1>2 DEF vars, locals
    <3>2. [b \in Broadcasters |-> Cardinality(CopiedAs(d, b)')] = [b \in Broadcasters |-> Cardinality(CopiedAs(d, b))]
      BY <3>1 DEF CopiedAs
    <3> QED
      BY <3>1, <3>2 DEF ListedAt, Listed, Holds, VerdictAt, ViewAt
  <2>2. /\ [d \in Conns |-> ListedAt(d)'] = [d \in Conns |-> ListedAt(d)]
        /\ [d \in Conns |-> VerdictAt(d)'] = [d \in Conns |-> VerdictAt(d)]
        /\ [d \in Conns |-> ViewAt(d)'] = [d \in Conns |-> ViewAt(d)]
    BY <2>1
  <2> QED
    BY <2>2, Mapping DEF Abstract!registryVars
<1> QED
  BY <1>1, <1>2 DEF Next, Idle, ConnAction

\* The threads and the mutex implement the register with atomic operations.
THEOREM RegistryImplemented == Spec => ImplementsRegistry
<1>1. IInv /\ LoopInv /\ [Next]_vars => [Abstract!Next]_(Abstract!registryVars)
  BY RegistryStep
<1> QED
  BY Invariance, LoopInvariance, RegistryInit, <1>1, PTL DEF Spec, ImplementsRegistry, Abstract!Spec

=============================================================================
