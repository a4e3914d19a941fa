---------------------------- MODULE RelayProofs -----------------------------
(***************************************************************************)
(* Proofs about Relay, for any number of streamers, addresses and relays:  *)
(* a streamer has a relayed message at most once for each entry of the     *)
(* copy that leads to it, and when it served all along, by the end of the  *)
(* relay once for each of these entries on which no call failed.           *)
(***************************************************************************)
EXTENDS Relay, FiniteSetTheorems, TLAPS

-----------------------------------------------------------------------------
(* The inductive invariant.                                                *)

\* The entries that lead to where s serves and that r has come to.
Passed(r, s) == Entries(r, s) \ todo[r]

\* Those among them on which no call has failed.
Due(r, s) == Passed(r, s) \ failed[r]

\* r is on an entry of its copy.
Busy(r) == pc[r] \in {"send", "wait", "acked"}

\* A message on its way to s, which will add it.
Pending(r, s) ==
    IF link[r] = s /\ pc[r] \in {"send", "wait"} /\ life[s] = "serving" THEN 1 ELSE 0

\* Each message that s has, is about to add or may add after r gave it up is
\* accounted for by an entry that r has come to, and conversely each such
\* entry on which no call failed by a message, when s served all along.
Accounted(r, s) ==
    /\ got[s][r] + late[s][r] + Pending(r, s) <= Cardinality(Passed(r, s))
    /\ s \in steady[r] => got[s][r] + Pending(r, s) >= Cardinality(Due(r, s))

\* What a relay has left is in its copy, and nothing before it has one.
CopyOK ==
    \A r \in Relays :
        /\ pc[r] = "none" =>
            view[r] = None /\ todo[r] = {} /\ steady[r] = {} /\ failed[r] = {}
        /\ \A s \in todo[r] : Copied(r, s) /\ s \notin failed[r]
        /\ pc[r] = "done" => todo[r] = {}
        /\ \A s \in steady[r] : life[s] = "serving"

\* No call has failed yet on the entry that a relay is on; it leads to the
\* streamer of the connection, and to no other that served all along.
EntryOK ==
    \A r \in Relays : Busy(r) =>
        /\ Copied(r, entry[r]) /\ entry[r] \notin todo[r] \cup failed[r]
        /\ \A s \in Streamers : link[r] = s => Leads(entry[r], s)
        /\ \A s \in steady[r] : Leads(entry[r], s) => link[r] = s

Accounts == \A r \in Relays, s \in Streamers : Accounted(r, s)

IInv == TypeOK /\ CopyOK /\ EntryOK /\ Accounts

-----------------------------------------------------------------------------
(* The parts that the actions share.                                       *)

\* Sets of entries are finite (copy_broadcaster_register has an end).
LEMMA PassedFinite ==
    ASSUME NEW r, NEW s
    PROVE  IsFiniteSet(Passed(r, s)) /\ Cardinality(Passed(r, s)) \in Nat
<1>1. Passed(r, s) \in SUBSET Streamers
  BY DEF Passed, Entries
<1>2. IsFiniteSet(Passed(r, s))
  BY <1>1, FS_Subset, RelayAssumption
<1> QED
  BY <1>2, FS_CardinalityType

\* And so are those on which no call failed.
LEMMA DueFinite ==
    ASSUME NEW r, NEW s
    PROVE  IsFiniteSet(Due(r, s)) /\ Cardinality(Due(r, s)) \in Nat
<1>1. Due(r, s) \in SUBSET Passed(r, s)
  BY DEF Due
<1>2. IsFiniteSet(Due(r, s))
  BY <1>1, PassedFinite, FS_Subset
<1> QED
  BY <1>2, FS_CardinalityType

\* A step that leaves a relay, its view and its count alone leaves it
\* accounted for.
LEMMA AccountedFrame ==
    ASSUME NEW r \in Relays, NEW s \in Streamers, Accounted(r, s),
           view'[r] = view[r], todo'[r] = todo[r], got'[s][r] = got[s][r],
           late'[s][r] = late[s][r], Pending(r, s)' = Pending(r, s),
           steady'[r] \subseteq steady[r], failed'[r] = failed[r]
    PROVE  Accounted(r, s)'
<1>1. Passed(r, s)' = Passed(r, s) /\ Due(r, s)' = Due(r, s)
  BY DEF Due, Passed, Entries, Copied, Leads
<1> QED
  BY <1>1 DEF Accounted

-----------------------------------------------------------------------------
(* Types.                                                                  *)

\* The register as each relay sees it is a number of entries per streamer.
LEMMA OccurrencesType == Register!Occurrences \in [Streamers -> Nat]
<1>1. ASSUME NEW s \in Streamers
      PROVE  Cardinality({c \in Streamers \cup Relays : listed[c] = s}) \in Nat
  <2>1. IsFiniteSet(Streamers \cup Relays)
    BY FS_Union, RelayAssumption
  <2>2. {c \in Streamers \cup Relays : listed[c] = s} \in SUBSET (Streamers \cup Relays)
    OBVIOUS
  <2>3. IsFiniteSet({c \in Streamers \cup Relays : listed[c] = s})
    BY <2>1, <2>2, FS_Subset
  <2> QED
    BY <2>3, FS_CardinalityType
<1> QED
  BY <1>1 DEF Register!Occurrences, Register!Cardinality, Cardinality, Register!IsFiniteSet,
       IsFiniteSet

\* The types hold before any streamer has started or any relay begun.
LEMMA TypeInit == Init => TypeOK
<1> SUFFICES ASSUME Init PROVE TypeOK
  OBVIOUS
<1> USE RelayAssumption DEF Init, Register!Init
<1>1. OneOwner /\ LinksServe
  BY DEF OneOwner, LinksServe
<1>2. listed \in [Streamers \cup Relays -> Streamers \cup {None}]
  OBVIOUS
<1>3. verdict \in [Streamers \cup Relays -> {"undecided", "accepted", "refused"}]
  OBVIOUS
<1>4. view \in [Streamers \cup Relays -> [Streamers -> Nat] \cup {None}]
  OBVIOUS
<1> QED
  BY <1>1, <1>2, <1>3, <1>4 DEF TypeOK

\* Every step keeps the types, with one owner for a port: only Bind takes a
\* port, and it looks whether another has it.
LEMMA TypeStep == TypeOK /\ [Next]_vars => TypeOK'
<1> SUFFICES ASSUME TypeOK, [Next]_vars PROVE TypeOK'
  OBVIOUS
<1> USE RelayAssumption DEF TypeOK, OneOwner, LinksServe, register, streamers, relays
<1>1. ASSUME NEW s \in Streamers, StreamerRegisters(s) PROVE TypeOK'
  <2>1. CASE Register!Register(s, s)
    BY <1>1, <2>1 DEF StreamerRegisters, Register!Register
  <2>2. CASE Register!Refuse(s)
    BY <1>1, <2>2 DEF StreamerRegisters, Register!Refuse
  <2> QED
    BY <1>1, <2>1, <2>2 DEF StreamerRegisters
<1>2. ASSUME NEW s \in Streamers, Bind(s) PROVE TypeOK'
  BY <1>2 DEF Bind, SameAddress
<1>3. ASSUME NEW s \in Streamers, Die(s) PROVE TypeOK'
  BY <1>3 DEF Die, Reset, Vanish
<1>4. ASSUME NEW s \in Streamers, ManagerForgets(s) PROVE TypeOK'
  BY <1>4 DEF ManagerForgets, Register!Unregister
<1>5. ASSUME NEW s \in Streamers, LocalEnters(s) PROVE TypeOK'
  BY <1>5 DEF LocalEnters
<1>6. ASSUME NEW s \in Streamers, LocalLeaves(s) PROVE TypeOK'
  BY <1>6 DEF LocalLeaves
<1>7. ASSUME NEW r \in Relays, CopyRegister(r) PROVE TypeOK'
  <2>1. view' \in [Streamers \cup Relays -> [Streamers -> Nat] \cup {None}]
    BY <1>7, OccurrencesType DEF CopyRegister, Register!Consult
  <2>2. /\ todo' \in [Relays -> SUBSET Streamers]
        /\ steady' \in [Relays -> SUBSET Streamers]
        /\ pc' \in [Relays -> {"none", "next", "send", "wait", "acked", "done"}]
    BY <1>7 DEF CopyRegister
  <2>3. UNCHANGED <<listed, verdict, streamers, entry, link, parsable, late, failed>>
    BY <1>7 DEF CopyRegister, Register!Consult
  <2>4. LinksServe'
    BY <1>7, <2>3 DEF CopyRegister
  <2> QED
    BY <2>1, <2>2, <2>3, <2>4
<1>8. ASSUME NEW r \in Relays, Connect(r) PROVE TypeOK'
  BY <1>8 DEF Connect, Go
<1>9. ASSUME NEW r \in Relays, ConnectFails(r) PROVE TypeOK'
  BY <1>9 DEF ConnectFails, Go
<1>10. ASSUME NEW r \in Relays, StreamerAdds(r) PROVE TypeOK'
  BY <1>10 DEF StreamerAdds, Go
<1>11. ASSUME NEW r \in Relays, Send(r) PROVE TypeOK'
  BY <1>11 DEF Send, Go
<1>12. ASSUME NEW r \in Relays, RecvAckm(r) PROVE TypeOK'
  BY <1>12 DEF RecvAckm, Go
<1>13. ASSUME NEW r \in Relays, LinkFails(r) PROVE TypeOK'
  BY <1>13 DEF LinkFails, GiveUp, Go
<1>14. ASSUME NEW r \in Relays, RelayEnd(r) PROVE TypeOK'
  BY <1>14 DEF RelayEnd, Go
<1>15. ASSUME NEW r \in Relays, LinkBreaks(r) PROVE TypeOK'
  <2>1. late' \in [Streamers -> [Relays -> Nat]]
    BY <1>15 DEF LinkBreaks, Forsake
  <2>2. UNCHANGED <<listed, verdict, view, life, held, got, parsable, steady, todo>>
    BY <1>15 DEF LinkBreaks, GiveUp, Go
  <2>3. /\ pc' \in [Relays -> {"none", "next", "send", "wait", "acked", "done"}]
        /\ entry' \in [Relays -> Streamers \cup {None}]
        /\ link' \in [Relays -> Streamers \cup {None}]
        /\ failed' \in [Relays -> SUBSET Streamers]
        /\ LinksServe'
    BY <1>15, <2>2 DEF LinkBreaks, GiveUp, Go
  <2> QED
    BY <2>1, <2>2, <2>3
<1>16. ASSUME NEW s \in Streamers, NEW r \in Relays, StreamerAddsLate(s, r) PROVE TypeOK'
  BY <1>16 DEF StreamerAddsLate
<1>17. CASE UNCHANGED vars
  BY <1>17 DEF vars
<1> QED
  BY <1>1, <1>2, <1>3, <1>4, <1>5, <1>6, <1>7, <1>8, <1>9, <1>10, <1>11, <1>12, <1>13, <1>14, <1>15,
     <1>16, <1>17
  DEF Next, Relay

-----------------------------------------------------------------------------
(* Copies and accounts.                                                    *)

\* What is left of a copy is inside the copy: handle_mess takes entries off it
\* and never adds any.
LEMMA CopyStep == TypeOK /\ CopyOK /\ EntryOK /\ [Next]_vars => CopyOK'
<1> SUFFICES ASSUME TypeOK, CopyOK, EntryOK, [Next]_vars PROVE CopyOK'
  OBVIOUS
<1> USE RelayAssumption DEF CopyOK, Copied, register, streamers, relays
<1>1. ASSUME NEW s \in Streamers, StreamerRegisters(s) PROVE CopyOK'
  BY <1>1 DEF StreamerRegisters, Register!Register, Register!Refuse
<1>2. ASSUME NEW s \in Streamers, Bind(s) PROVE CopyOK'
  BY <1>2 DEF Bind, TypeOK
<1>3. ASSUME NEW s \in Streamers, Die(s) PROVE CopyOK'
  BY <1>3 DEF Die, Reset, Vanish, TypeOK
<1>4. ASSUME NEW s \in Streamers, ManagerForgets(s) PROVE CopyOK'
  BY <1>4 DEF ManagerForgets, Register!Unregister
<1>5. ASSUME NEW s \in Streamers, LocalEnters(s) \/ LocalLeaves(s) PROVE CopyOK'
  BY <1>5 DEF LocalEnters, LocalLeaves
<1>6. ASSUME NEW r \in Relays, CopyRegister(r) PROVE CopyOK'
  <2>1. view'[r] # None
    BY <1>6, OccurrencesType DEF CopyRegister, Register!Consult, TypeOK
  <2>2. \A q \in Relays \ {r} : view'[q] = view[q] /\ pc'[q] = pc[q] /\ todo'[q] = todo[q]
                               /\ steady'[q] = steady[q] /\ failed'[q] = failed[q]
    BY <1>6 DEF CopyRegister, Register!Consult, TypeOK
  <2>3. /\ pc'[r] = "next" /\ todo'[r] = {s \in Streamers : view'[r][s] > 0}
        /\ steady'[r] = {s \in Streamers : life[s] = "serving"}
    BY <1>6 DEF CopyRegister, TypeOK
  <2>4. life' = life /\ failed'[r] = {}
    BY <1>6 DEF CopyRegister
  <2> QED
    BY <2>1, <2>2, <2>3, <2>4
<1>7. ASSUME NEW r \in Relays, Connect(r) PROVE CopyOK'
  BY <1>7 DEF Connect, Go, TypeOK
<1>8. ASSUME NEW r \in Relays, ConnectFails(r) PROVE CopyOK'
  BY <1>8 DEF ConnectFails, Go, TypeOK
<1>9. ASSUME NEW r \in Relays, StreamerAdds(r) PROVE CopyOK'
  BY <1>9 DEF StreamerAdds, Go, TypeOK
<1>10. ASSUME NEW r \in Relays, Send(r) PROVE CopyOK'
  BY <1>10 DEF Send, Go, TypeOK
<1>11. ASSUME NEW r \in Relays, RecvAckm(r) PROVE CopyOK'
  BY <1>11 DEF RecvAckm, Go, TypeOK
<1>12. ASSUME NEW r \in Relays, LinkFails(r) PROVE CopyOK'
  BY <1>12 DEF LinkFails, GiveUp, Go, TypeOK, EntryOK, Busy
<1>13. ASSUME NEW r \in Relays, RelayEnd(r) PROVE CopyOK'
  BY <1>13 DEF RelayEnd, Go, TypeOK
<1>14. ASSUME NEW r \in Relays, LinkBreaks(r) PROVE CopyOK'
  BY <1>14 DEF LinkBreaks, GiveUp, Go, TypeOK, EntryOK, Busy
<1>15. ASSUME NEW s \in Streamers, NEW r \in Relays, StreamerAddsLate(s, r) PROVE CopyOK'
  BY <1>15 DEF StreamerAddsLate
<1>16. CASE UNCHANGED vars
  BY <1>16 DEF vars
<1> QED
  BY <1>1, <1>2, <1>3, <1>4, <1>5, <1>6, <1>7, <1>8, <1>9, <1>10, <1>11, <1>12, <1>13, <1>14, <1>15, <1>16
  DEF Next, Relay

\* What a relay does leaves the other relays alone.
LEMMA OtherRelays ==
    ASSUME TypeOK, NEW r \in Relays, Relay(r) \/ CopyRegister(r) \/ LinkBreaks(r),
           NEW q \in Relays \ {r}
    PROVE  /\ pc'[q] = pc[q] /\ view'[q] = view[q] /\ todo'[q] = todo[q] /\ entry'[q] = entry[q]
           /\ link'[q] = link[q] /\ steady'[q] = steady[q] /\ failed'[q] = failed[q]
           /\ \A s \in Streamers : got'[s][q] = got[s][q] /\ late'[s][q] = late[s][q]
           /\ life' = life
<1> USE DEF TypeOK, register, streamers, relays
<1>1. view'[q] = view[q] /\ steady'[q] = steady[q] /\ life' = life
  BY DEF CopyRegister, Register!Consult, Relay, Connect, ConnectFails, Send, StreamerAdds,
         RecvAckm, LinkFails, LinkBreaks, GiveUp, RelayEnd, Go
<1>2. pc'[q] = pc[q]
  BY DEF CopyRegister, Relay, Connect, ConnectFails, Send, StreamerAdds,
         RecvAckm, LinkFails, LinkBreaks, GiveUp, RelayEnd, Go
<1>3. todo'[q] = todo[q] /\ link'[q] = link[q] /\ entry'[q] = entry[q] /\ failed'[q] = failed[q]
  BY DEF CopyRegister, Relay, Connect, ConnectFails, Send, StreamerAdds,
         RecvAckm, LinkFails, LinkBreaks, GiveUp, RelayEnd
<1>4. ASSUME NEW s \in Streamers PROVE got'[s][q] = got[s][q]
  <2>1. CASE StreamerAdds(r)
    BY <2>1 DEF StreamerAdds
  <2>2. CASE ~StreamerAdds(r)
    BY <2>2 DEF CopyRegister, Relay, Connect, ConnectFails, Send, RecvAckm, LinkFails, LinkBreaks,
                RelayEnd
  <2> QED
    BY <2>1, <2>2
<1>5. ASSUME NEW s \in Streamers PROVE late'[s][q] = late[s][q]
  <2>1. CASE LinkBreaks(r)
    BY <2>1 DEF LinkBreaks, Forsake
  <2>2. CASE ~LinkBreaks(r)
    BY <2>2 DEF CopyRegister, Relay, Connect, ConnectFails, Send, StreamerAdds, RecvAckm,
                LinkFails, RelayEnd
  <2> QED
    BY <2>1, <2>2
<1> QED
  BY <1>1, <1>2, <1>3, <1>4, <1>5

\* The entry that a relay is on leads to its streamer: send_mess_to_streamer
\* connects to nobody else, and a port has one owner.
LEMMA EntryStep == TypeOK /\ CopyOK /\ EntryOK /\ [Next]_vars => EntryOK'
<1> SUFFICES ASSUME TypeOK, CopyOK, EntryOK, [Next]_vars, NEW r \in Relays, Busy(r)'
             PROVE  /\ Copied(r, entry[r])' /\ entry'[r] \notin todo'[r] \cup failed'[r]
                    /\ \A s \in Streamers : link'[r] = s => Leads(entry[r], s)'
                    /\ \A s \in steady'[r] : Leads(entry[r], s)' => link'[r] = s
  BY DEF EntryOK
<1> DEFINE Goal ==
             /\ Copied(r, entry[r])' /\ entry'[r] \notin todo'[r] \cup failed'[r]
             /\ \A s \in Streamers : link'[r] = s => Leads(entry[r], s)'
             /\ \A s \in steady'[r] : Leads(entry[r], s)' => link'[r] = s
<1> USE RelayAssumption DEF register, streamers, relays
<1>0. ASSUME Busy(r), view'[r] = view[r], todo'[r] = todo[r], entry'[r] = entry[r],
             link'[r] = link[r], steady'[r] \subseteq steady[r], failed'[r] = failed[r]
      PROVE  Goal
  BY <1>0 DEF EntryOK, Copied, Leads
<1>1. ASSUME UNCHANGED <<view, relays>> PROVE Goal
  BY <1>0, <1>1 DEF Busy
<1>2. ASSUME NEW s \in Streamers,
             StreamerRegisters(s) \/ Bind(s) \/ ManagerForgets(s) \/ LocalEnters(s) \/ LocalLeaves(s)
      PROVE  Goal
  BY <1>1, <1>2 DEF StreamerRegisters, Register!Register, Register!Refuse, Bind, ManagerForgets,
                    Register!Unregister, LocalEnters, LocalLeaves
<1>3. ASSUME NEW s \in Streamers, Die(s) PROVE Goal
  <2>1. /\ view'[r] = view[r] /\ todo'[r] = todo[r] /\ entry'[r] = entry[r]
        /\ failed'[r] = failed[r] /\ steady'[r] = steady[r] \ {s}
    BY <1>3 DEF Die
  <2>2. Busy(r)
    BY <1>3 DEF Die, Reset, Vanish, Busy, TypeOK
  <2>3. CASE Vanish(s)
    BY <1>0, <2>1, <2>2, <2>3 DEF Vanish
  <2>4. CASE Reset(s)
    <3>1. link'[r] = (IF link[r] = s THEN None ELSE link[r])
      BY <2>4 DEF Reset
    <3> QED
      BY <2>1, <2>2, <3>1 DEF EntryOK, Copied, Leads
  <2> QED
    BY <1>3, <2>3, <2>4 DEF Die
<1>4. ASSUME NEW q \in Relays, q # r, Relay(q) \/ CopyRegister(q) \/ LinkBreaks(q) PROVE Goal
  <2>1. /\ pc'[r] = pc[r] /\ view'[r] = view[r] /\ todo'[r] = todo[r] /\ entry'[r] = entry[r]
        /\ link'[r] = link[r] /\ steady'[r] = steady[r] /\ failed'[r] = failed[r]
    BY <1>4, OtherRelays
  <2> QED
    BY <1>0, <2>1 DEF Busy
<1>5. ASSUME Connect(r) PROVE Goal
  <2>1. PICK e \in todo[r], t \in Streamers :
          /\ Leads(e, t) /\ life[t] = "serving"
          /\ Go(r, "next", "send")
          /\ todo' = [todo EXCEPT ![r] = @ \ {e}]
          /\ entry' = [entry EXCEPT ![r] = e]
          /\ link' = [link EXCEPT ![r] = t]
          /\ UNCHANGED <<got, late, failed>>
    BY <1>5 DEF Connect
  <2>2. /\ todo'[r] = todo[r] \ {e} /\ entry'[r] = e /\ link'[r] = t /\ failed' = failed
        /\ view' = view /\ steady' = steady
    BY <2>1 DEF Go, TypeOK
  <2>3. Copied(r, e) /\ e \notin failed[r]
    BY DEF CopyOK
  <2>4. \A s \in steady[r] : Leads(e, s) => s = t
    BY <2>1 DEF CopyOK, TypeOK, OneOwner, Leads
  <2> QED
    BY <2>1, <2>2, <2>3, <2>4 DEF Copied, Leads
<1>6. ASSUME Send(r) \/ StreamerAdds(r) PROVE Goal
  <2>1. /\ view'[r] = view[r] /\ todo'[r] = todo[r] /\ entry'[r] = entry[r]
        /\ link'[r] = link[r] /\ steady'[r] = steady[r] /\ failed'[r] = failed[r]
    BY <1>6 DEF Send, StreamerAdds, Go
  <2>2. Busy(r)
    BY <1>6 DEF Send, StreamerAdds, Go, Busy
  <2> QED
    BY <1>0, <2>1, <2>2
<1>7. ~(CopyRegister(r) \/ ConnectFails(r) \/ RecvAckm(r) \/ LinkFails(r) \/ LinkBreaks(r) \/ RelayEnd(r))
  BY DEF CopyRegister, ConnectFails, RecvAckm, LinkFails, LinkBreaks, GiveUp, RelayEnd, Go, Busy, TypeOK
<1>8. ASSUME NEW s \in Streamers, NEW q \in Relays, StreamerAddsLate(s, q) PROVE Goal
  <2>1. /\ view'[r] = view[r] /\ todo'[r] = todo[r] /\ entry'[r] = entry[r] /\ pc'[r] = pc[r]
        /\ link'[r] = link[r] /\ steady'[r] = steady[r] /\ failed'[r] = failed[r]
    BY <1>8 DEF StreamerAddsLate
  <2> QED
    BY <1>0, <2>1 DEF Busy
<1>9. CASE UNCHANGED vars
  BY <1>1, <1>9 DEF vars
<1> QED
  BY <1>2, <1>3, <1>4, <1>5, <1>6, <1>7, <1>8, <1>9 DEF Next, Relay

\* handle_mess copies the register: nothing was sent and nothing is passed.
LEMMA AccountedCopy ==
    ASSUME IInv, NEW r \in Relays, CopyRegister(r), NEW s \in Streamers
    PROVE  Accounted(r, s)'
<1> USE RelayAssumption DEF IInv
<1>1. pc[r] = "none" /\ view[r] = None
  BY DEF CopyRegister, CopyOK
<1>2. Passed(r, s) = {}
  BY <1>1 DEF Passed, Entries, Copied
<1>3. got[s][r] = 0 /\ late[s][r] = 0
  <2>1. got[s][r] \in Nat /\ late[s][r] \in Nat /\ Pending(r, s) \in Nat
    BY DEF TypeOK, Pending
  <2>2. got[s][r] + late[s][r] + Pending(r, s) <= 0
    BY <1>2, FS_EmptySet DEF Accounts, Accounted
  <2> QED
    BY <2>1, <2>2
<1>4. Passed(r, s)' = {} /\ Due(r, s)' = {}
  <2>1. todo'[r] = {t \in Streamers : view'[r][t] > 0}
    BY DEF CopyRegister, TypeOK
  <2> QED
    BY <2>1 DEF Due, Passed, Entries, Copied
<1>5. got' = got /\ late' = late /\ Pending(r, s)' = 0
  BY DEF CopyRegister, Pending, TypeOK, streamers
<1> QED
  BY <1>3, <1>4, <1>5, FS_EmptySet DEF Accounted

\* A turn of the loop of handle_mess takes e from the entries to come to.
LEMMA PassedNext ==
    ASSUME TypeOK, CopyOK, NEW r \in Relays, NEW s \in Streamers, NEW e \in todo[r],
           view'[r] = view[r], todo'[r] = todo[r] \ {e}
    PROVE  /\ Passed(r, s)' = Passed(r, s) \cup (IF Leads(e, s) THEN {e} ELSE {})
           /\ e \notin Passed(r, s) /\ e \notin failed[r]
           /\ Cardinality(Passed(r, s))' =
                  Cardinality(Passed(r, s)) + IF Leads(e, s) THEN 1 ELSE 0
<1>1. e \in Streamers /\ Copied(r, e) /\ e \notin Passed(r, s) /\ e \notin failed[r]
  BY DEF TypeOK, CopyOK, Passed
<1>2. Entries(r, s)' = Entries(r, s)
  BY DEF Entries, Copied, Leads
<1>3. CASE Leads(e, s)
  <2>1. Passed(r, s)' = Passed(r, s) \cup {e}
    BY <1>1, <1>2, <1>3 DEF Passed, Entries
  <2> QED
    BY <1>1, <1>3, <2>1, PassedFinite, FS_AddElement
<1>4. CASE ~Leads(e, s)
  <2>1. Passed(r, s)' = Passed(r, s)
    BY <1>2, <1>4 DEF Passed, Entries
  <2> QED
    BY <1>1, <1>4, <2>1, PassedFinite
<1> QED
  BY <1>3, <1>4

\* connect succeeds: with s itself, if s served all along where the entry
\* leads.
LEMMA AccountedConnect ==
    ASSUME IInv, NEW r \in Relays, Connect(r), NEW s \in Streamers
    PROVE  Accounted(r, s)'
<1> USE RelayAssumption DEF IInv
<1>1. PICK e \in todo[r], t \in Streamers :
        /\ Leads(e, t) /\ life[t] = "serving"
        /\ Go(r, "next", "send")
        /\ todo' = [todo EXCEPT ![r] = @ \ {e}]
        /\ link' = [link EXCEPT ![r] = t]
        /\ UNCHANGED <<got, late, failed>>
  BY DEF Connect
<1>2. /\ pc[r] = "next" /\ pc'[r] = "send" /\ link'[r] = t
      /\ todo'[r] = todo[r] \ {e} /\ life' = life
      /\ view' = view /\ got' = got /\ late' = late /\ steady' = steady /\ failed' = failed
  BY <1>1 DEF Go, TypeOK, register
<1>3. Pending(r, s) = 0 /\ Pending(r, s)' = IF s = t THEN 1 ELSE 0
  BY <1>1, <1>2 DEF Pending
<1>4. /\ Passed(r, s)' = Passed(r, s) \cup (IF Leads(e, s) THEN {e} ELSE {})
      /\ e \notin Passed(r, s) /\ e \notin failed[r]
      /\ Cardinality(Passed(r, s))' = Cardinality(Passed(r, s)) + IF Leads(e, s) THEN 1 ELSE 0
  BY <1>2, PassedNext
<1>5. /\ got[s][r] \in Nat /\ late[s][r] \in Nat
      /\ Cardinality(Passed(r, s)) \in Nat /\ Cardinality(Due(r, s)) \in Nat
  BY PassedFinite, DueFinite DEF TypeOK
<1>6. s \in steady[r] /\ Leads(e, s) => s = t
  BY <1>1 DEF CopyOK, TypeOK, OneOwner, Leads
<1>7. s = t => Leads(e, s)
  BY <1>1
<1>8. Cardinality(Due(r, s))' = Cardinality(Due(r, s)) + IF Leads(e, s) THEN 1 ELSE 0
  <2>1. CASE Leads(e, s)
    <3>1. Due(r, s)' = Due(r, s) \cup {e} /\ e \notin Due(r, s)
      BY <1>2, <1>4, <2>1 DEF Due
    <3> QED
      BY <2>1, <3>1, DueFinite, FS_AddElement
  <2>2. CASE ~Leads(e, s)
    <3>1. Due(r, s)' = Due(r, s)
      BY <1>2, <1>4, <2>2 DEF Due
    <3> QED
      BY <2>2, <3>1, DueFinite
  <2> QED
    BY <2>1, <2>2
<1>9. Accounted(r, s)
  BY DEF Accounts
<1> QED
  BY <1>2, <1>3, <1>4, <1>5, <1>6, <1>7, <1>8, <1>9 DEF Accounted

\* inet_aton, socket or connect fails: the entry is passed, and failed.
LEMMA AccountedFails ==
    ASSUME IInv, NEW r \in Relays, ConnectFails(r), NEW s \in Streamers
    PROVE  Accounted(r, s)'
<1> USE RelayAssumption DEF IInv
<1>1. PICK e \in todo[r] :
        /\ Go(r, "next", "next")
        /\ todo' = [todo EXCEPT ![r] = @ \ {e}]
        /\ failed' = [failed EXCEPT ![r] = @ \cup {e}]
        /\ UNCHANGED <<got, entry, link, late>>
  BY DEF ConnectFails
<1>2. /\ pc[r] = "next" /\ pc'[r] = "next"
      /\ todo'[r] = todo[r] \ {e} /\ failed'[r] = failed[r] \cup {e}
      /\ view' = view /\ got' = got /\ late' = late /\ steady' = steady
  BY <1>1 DEF Go, TypeOK, register
<1>3. Pending(r, s) = 0 /\ Pending(r, s)' = 0
  BY <1>2 DEF Pending
<1>4. /\ Passed(r, s)' = Passed(r, s) \cup (IF Leads(e, s) THEN {e} ELSE {})
      /\ e \notin Passed(r, s)
      /\ Cardinality(Passed(r, s))' = Cardinality(Passed(r, s)) + IF Leads(e, s) THEN 1 ELSE 0
  BY <1>2, PassedNext
<1>5. /\ got[s][r] \in Nat /\ late[s][r] \in Nat
      /\ Cardinality(Passed(r, s)) \in Nat /\ Cardinality(Due(r, s)) \in Nat
  BY PassedFinite, DueFinite DEF TypeOK
<1>6. Due(r, s)' = Due(r, s)
  BY <1>2, <1>4 DEF Due
<1>7. Accounted(r, s)
  BY DEF Accounts
<1> QED
  BY <1>2, <1>3, <1>4, <1>5, <1>6, <1>7 DEF Accounted

\* addMess: the message that was pending is in the list.
LEMMA AccountedAdds ==
    ASSUME IInv, NEW r \in Relays, StreamerAdds(r), NEW s \in Streamers
    PROVE  Accounted(r, s)'
<1> USE RelayAssumption DEF IInv
<1>1. PICK t \in Streamers :
        /\ link[r] = t /\ life[t] = "serving"
        /\ Go(r, "wait", "acked")
        /\ got' = [got EXCEPT ![t][r] = @ + 1]
        /\ UNCHANGED <<todo, entry, link, late, failed>>
  BY DEF StreamerAdds
<1>2. /\ pc[r] = "wait" /\ pc'[r] = "acked" /\ late' = late /\ failed' = failed
      /\ view' = view /\ todo' = todo /\ steady' = steady /\ link' = link
  BY <1>1 DEF Go, TypeOK, register
<1>3. /\ Pending(r, s) = (IF s = t THEN 1 ELSE 0) /\ Pending(r, s)' = 0
      /\ got'[s][r] = got[s][r] + IF s = t THEN 1 ELSE 0
      /\ got[s][r] \in Nat /\ late[s][r] \in Nat
  BY <1>1, <1>2 DEF Pending, TypeOK
<1>4. Passed(r, s)' = Passed(r, s) /\ Due(r, s)' = Due(r, s)
  BY <1>2 DEF Due, Passed, Entries, Copied, Leads
<1>5. Accounted(r, s)
  BY DEF Accounts
<1> QED
  BY <1>2, <1>3, <1>4, <1>5, PassedFinite, DueFinite DEF Accounted

\* send or recv fails: the entry the relay was on has failed, and nobody who
\* served all along was expecting a message but for this entry.
LEMMA DueGivenUp ==
    ASSUME IInv, NEW r \in Relays, GiveUp(r), todo' = todo, NEW s \in steady[r]
    PROVE  Cardinality(Due(r, s)') <= Cardinality(Due(r, s)) - IF link[r] = s THEN 1 ELSE 0
<1> USE RelayAssumption DEF IInv
<1>1. /\ view' = view /\ failed'[r] = failed[r] \cup {entry[r]} /\ Busy(r)
      /\ entry[r] \in Streamers /\ s \in Streamers
  BY DEF GiveUp, Go, TypeOK, LinksServe, Busy, register
<1>2. Due(r, s)' = Due(r, s) \ {entry[r]}
  BY <1>1 DEF Due, Passed, Entries, Copied, Leads
<1>3. CASE link[r] = s
  <2>1. entry[r] \in Due(r, s)
    BY <1>1, <1>3 DEF EntryOK, Due, Passed, Entries
  <2>2. Cardinality(Due(r, s) \ {entry[r]}) = Cardinality(Due(r, s)) - 1
    BY <2>1, DueFinite, FS_RemoveElement
  <2> QED
    BY <1>2, <1>3, <2>2, DueFinite
<1>4. CASE link[r] # s
  <2>1. Due(r, s)' \in SUBSET Due(r, s)
    BY <1>2
  <2>2. Cardinality(Due(r, s)') <= Cardinality(Due(r, s))
    BY <2>1, DueFinite, FS_Subset
  <2>3. Cardinality(Due(r, s)') \in Nat
    BY <2>1, DueFinite, FS_Subset, FS_CardinalityType
  <2> QED
    BY <1>4, <2>2, <2>3, DueFinite
<1> QED
  BY <1>3, <1>4

\* The streamer is gone, or the network failed: a message that was pending
\* is given up, and may be added late.
LEMMA AccountedGivenUp ==
    ASSUME IInv, NEW r \in Relays, LinkFails(r) \/ LinkBreaks(r), NEW s \in Streamers
    PROVE  Accounted(r, s)'
<1> USE RelayAssumption DEF IInv
<1>1. /\ GiveUp(r) /\ view' = view /\ todo' = todo /\ got' = got /\ steady' = steady
      /\ life' = life /\ pc[r] \in {"send", "wait"} /\ pc'[r] = "next"
  BY DEF LinkFails, LinkBreaks, GiveUp, Go, TypeOK, register
<1>2. Passed(r, s)' = Passed(r, s)
  BY <1>1 DEF Passed, Entries, Copied, Leads
<1>3. Pending(r, s)' = 0 /\ Pending(r, s) \in 0..1
  BY <1>1 DEF Pending
<1>4. late'[s][r] <= late[s][r] + Pending(r, s) /\ late'[s][r] \in Nat /\ late[s][r] \in Nat
  <2>1. CASE LinkFails(r)
    BY <1>3, <2>1 DEF LinkFails, TypeOK
  <2>2. CASE LinkBreaks(r)
    BY <2>2 DEF LinkBreaks, Forsake, MayAddLate, Pending, TypeOK
  <2> QED
    BY <2>1, <2>2
<1>5. got[s][r] \in Nat
  BY DEF TypeOK
<1>6. Accounted(r, s)
  BY DEF Accounts
<1>7. got'[s][r] + late'[s][r] + Pending(r, s)' <= Cardinality(Passed(r, s)')
  BY <1>1, <1>2, <1>3, <1>4, <1>5, <1>6, PassedFinite DEF Accounted
<1>8. ASSUME s \in steady[r] PROVE got'[s][r] + Pending(r, s)' >= Cardinality(Due(r, s)')
  <2>1. Cardinality(Due(r, s)') <= Cardinality(Due(r, s)) - IF link[r] = s THEN 1 ELSE 0
    BY <1>1, <1>8, DueGivenUp
  <2>2. Pending(r, s) = IF link[r] = s THEN 1 ELSE 0
    BY <1>1, <1>8 DEF Pending, CopyOK
  <2>3. Cardinality(Due(r, s)') \in Nat
    <3>1. Due(r, s)' \in SUBSET Passed(r, s)
      BY <1>2 DEF Due
    <3> QED
      BY <3>1, PassedFinite, FS_Subset, FS_CardinalityType
  <2> QED
    BY <1>1, <1>3, <1>5, <1>6, <1>8, <2>1, <2>2, <2>3, DueFinite DEF Accounted
<1> QED
  BY <1>1, <1>7, <1>8 DEF Accounted

\* addMess of a message that the relay gave up.
LEMMA AccountedLate ==
    ASSUME IInv, NEW t \in Streamers, NEW q \in Relays, StreamerAddsLate(t, q),
           NEW r \in Relays, NEW s \in Streamers
    PROVE  Accounted(r, s)'
<1> USE RelayAssumption DEF IInv
<1>1. UNCHANGED <<view, todo, pc, link, life, steady, failed>>
  BY DEF StreamerAddsLate, register
<1>2. Passed(r, s)' = Passed(r, s) /\ Due(r, s)' = Due(r, s) /\ Pending(r, s)' = Pending(r, s)
  BY <1>1 DEF Due, Passed, Entries, Copied, Leads, Pending
<1>3. /\ got'[s][r] + late'[s][r] = got[s][r] + late[s][r] /\ got'[s][r] >= got[s][r]
      /\ got[s][r] \in Nat /\ late[s][r] \in Nat /\ got'[s][r] \in Nat /\ late'[s][r] \in Nat
  BY DEF StreamerAddsLate, TypeOK
<1>4. Accounted(r, s) /\ Pending(r, s) \in Nat
  BY DEF Accounts, Pending
<1> QED
  BY <1>1, <1>2, <1>3, <1>4, PassedFinite, DueFinite DEF Accounted

\* A streamer ends: nobody expects anything of it any more.
LEMMA AccountedDie ==
    ASSUME IInv, NEW t \in Streamers, Die(t), NEW r \in Relays, NEW s \in Streamers
    PROVE  Accounted(r, s)'
<1> USE RelayAssumption DEF IInv
<1>1. /\ view' = view /\ todo' = todo /\ got' = got /\ failed' = failed
      /\ steady'[r] = steady[r] \ {t}
      /\ late'[s][r] = IF s = t THEN 0 ELSE late[s][r]
      /\ life'[s] = IF s = t THEN "gone" ELSE life[s]
  BY DEF Die, register, TypeOK
<1>2. Passed(r, s)' = Passed(r, s) /\ Due(r, s)' = Due(r, s)
  BY <1>1 DEF Due, Passed, Entries, Copied, Leads
<1>3. Accounted(r, s) /\ got[s][r] \in Nat /\ late[s][r] \in Nat /\ Pending(r, s) \in 0..1
  BY DEF Accounts, TypeOK, Pending
<1>4. CASE s # t
  <2>1. Pending(r, s)' = Pending(r, s)
    <3>1. link'[r] = s <=> link[r] = s
      BY <1>4 DEF Die, Reset, Vanish
    <3>2. link[r] = s => pc'[r] = pc[r]
      BY <1>4 DEF Die, Reset, Vanish, TypeOK
    <3> QED
      BY <1>1, <1>4, <3>1, <3>2 DEF Pending
  <2> QED
    BY <1>1, <1>3, <1>4, <2>1, AccountedFrame
<1>5. CASE s = t
  <2>1. Pending(r, s)' = 0 /\ s \notin steady'[r] /\ late'[s][r] = 0
    BY <1>1, <1>5 DEF Pending
  <2> QED
    BY <1>1, <1>2, <1>3, <2>1, PassedFinite DEF Accounted
<1> QED
  BY <1>4, <1>5

\* Every step of a relay, a streamer or the register keeps the accounts of
\* each relay with each streamer.
LEMMA AccountsStep == IInv /\ [Next]_vars => Accounts'
<1> SUFFICES ASSUME IInv, [Next]_vars, NEW r \in Relays, NEW s \in Streamers
             PROVE  Accounted(r, s)'
  BY DEF Accounts
<1> USE RelayAssumption DEF IInv, register, streamers, relays
<1>0. Accounted(r, s)
  BY DEF Accounts
<1>1. ASSUME UNCHANGED <<view, got, relays>>, life[s] = "serving" <=> life'[s] = "serving"
      PROVE Accounted(r, s)'
  BY <1>0, <1>1, AccountedFrame DEF Pending
<1>2. ASSUME NEW t \in Streamers, StreamerRegisters(t) PROVE Accounted(r, s)'
  BY <1>1, <1>2 DEF StreamerRegisters, Register!Register, Register!Refuse
<1>3. ASSUME NEW t \in Streamers, Bind(t) PROVE Accounted(r, s)'
  <2>1. Pending(r, s)' = Pending(r, s)
    <3>1. link[r] = s => life[s] \in {"serving", "gone"}
      BY DEF TypeOK, LinksServe
    <3>2. link' = link /\ pc' = pc /\ (link[r] = s => life'[s] = life[s])
      BY <1>3, <3>1 DEF Bind, TypeOK
    <3> QED
      BY <3>2 DEF Pending
  <2> QED
    BY <1>0, <1>3, <2>1, AccountedFrame DEF Bind
<1>4. ASSUME NEW t \in Streamers, Die(t) PROVE Accounted(r, s)'
  BY <1>4, AccountedDie
<1>5. ASSUME NEW t \in Streamers, ManagerForgets(t) PROVE Accounted(r, s)'
  BY <1>1, <1>5 DEF ManagerForgets, Register!Unregister
<1>6. ASSUME NEW t \in Streamers, LocalEnters(t) \/ LocalLeaves(t) PROVE Accounted(r, s)'
  BY <1>1, <1>6 DEF LocalEnters, LocalLeaves
<1>7. ASSUME NEW q \in Relays, q # r, Relay(q) \/ CopyRegister(q) \/ LinkBreaks(q)
      PROVE  Accounted(r, s)'
  <2>1. /\ pc'[r] = pc[r] /\ view'[r] = view[r] /\ todo'[r] = todo[r] /\ link'[r] = link[r]
        /\ steady'[r] = steady[r] /\ failed'[r] = failed[r]
        /\ got'[s][r] = got[s][r] /\ late'[s][r] = late[s][r] /\ life' = life
    BY <1>7, OtherRelays
  <2>2. Pending(r, s)' = Pending(r, s)
    BY <2>1 DEF Pending
  <2> QED
    BY <1>0, <2>1, <2>2, AccountedFrame
<1>8. ASSUME Relay(r) \/ LinkBreaks(r) PROVE Accounted(r, s)'
  <2>1. CASE Connect(r) \/ ConnectFails(r) \/ StreamerAdds(r) \/ LinkFails(r) \/ LinkBreaks(r)
    BY <2>1, AccountedConnect, AccountedFails, AccountedAdds, AccountedGivenUp
  <2>2. ASSUME /\ Send(r) \/ RecvAckm(r) \/ RelayEnd(r)
        PROVE  Accounted(r, s)'
    <3>1. Pending(r, s)' = Pending(r, s)
      BY <2>2 DEF Send, RecvAckm, RelayEnd, Go, Pending, TypeOK
    <3>2. UNCHANGED <<view, todo, got, late, steady, failed>>
      BY <2>2 DEF Send, RecvAckm, RelayEnd, Go
    <3> QED
      BY <1>0, <3>1, <3>2, AccountedFrame
  <2> QED
    BY <1>8, <2>1, <2>2 DEF Relay
<1>9. ASSUME NEW t \in Streamers, NEW q \in Relays, StreamerAddsLate(t, q) PROVE Accounted(r, s)'
  BY <1>9, AccountedLate
<1>10. CASE UNCHANGED vars
  BY <1>1, <1>10 DEF vars
<1> QED
  BY <1>2, <1>3, <1>4, <1>5, <1>6, <1>7, <1>8, <1>9, <1>10, AccountedCopy DEF Next

\* The accounts are right before a relay has made its copy.
LEMMA AccountsInit == Init => CopyOK /\ EntryOK /\ Accounts
<1> SUFFICES ASSUME Init PROVE CopyOK /\ EntryOK /\ Accounts
  OBVIOUS
<1>1. CopyOK /\ EntryOK
  BY DEF Init, Register!Init, CopyOK, EntryOK, Busy
<1>2. ASSUME NEW r \in Relays, NEW s \in Streamers PROVE Accounted(r, s)
  <2>1. Passed(r, s) = {} /\ Due(r, s) = {}
    BY <1>2 DEF Init, Register!Init, Due, Passed, Entries, Copied
  <2>2. got[s][r] = 0 /\ late[s][r] = 0 /\ Pending(r, s) = 0
    BY <1>2 DEF Init, Pending
  <2> QED
    BY <2>1, <2>2, FS_EmptySet DEF Accounted
<1> QED
  BY <1>1, <1>2 DEF Accounts

-----------------------------------------------------------------------------
(* The theorems.                                                           *)

\* The inductive invariant: types, ports and connections, copies, the entry a
\* relay is on, and an account of each message for each entry that a relay has
\* come to, whichever calls of the library failed.
THEOREM RelayInvariance == Spec => []IInv
<1>1. Init => IInv
  BY TypeInit, AccountsInit DEF IInv
<1>2. IInv /\ [Next]_vars => IInv'
  BY TypeStep, CopyStep, EntryStep, AccountsStep DEF IInv
<1> QED
  BY <1>1, <1>2, PTL DEF Spec

\* The types; one owner per port, connections with owners only.
THEOREM RelayTypeCorrect == Spec => []TypeOK
<1>1. IInv => TypeOK
  BY DEF IInv
<1> QED
  BY <1>1, RelayInvariance, PTL

\* handle_mess never sends a message to a streamer more often than its copy
\* of the register leads there, and what it gave up and the streamer adds all
\* the same counts.
THEOREM OncePerEntryCorrect == Spec => []OncePerEntry
<1>1. IInv => OncePerEntry
  <2> SUFFICES ASSUME IInv, NEW r \in Relays, NEW s \in Streamers
               PROVE  got[s][r] <= Cardinality(Entries(r, s))
    BY DEF OncePerEntry
  <2>1. Entries(r, s) \in SUBSET Streamers /\ Passed(r, s) \in SUBSET Entries(r, s)
    BY DEF Entries, Passed
  <2>2. IsFiniteSet(Entries(r, s))
    BY <2>1, FS_Subset, RelayAssumption
  <2>3. Cardinality(Passed(r, s)) <= Cardinality(Entries(r, s))
    BY <2>1, <2>2, FS_Subset
  <2>4. /\ got[s][r] \in Nat /\ late[s][r] \in Nat /\ Pending(r, s) \in Nat
        /\ Cardinality(Entries(r, s)) \in Nat /\ Cardinality(Passed(r, s)) \in Nat
    BY <2>2, FS_CardinalityType, PassedFinite DEF IInv, TypeOK, Pending
  <2>5. got[s][r] + late[s][r] + Pending(r, s) <= Cardinality(Passed(r, s))
    BY DEF IInv, Accounts, Accounted
  <2> QED
    BY <2>3, <2>4, <2>5
<1> QED
  BY <1>1, RelayInvariance, PTL

\* handle_mess, when it returns, has sent the message to every streamer that
\* served all along, once for each entry that leads to it and on which no call
\* of the library failed.
THEOREM RelayedToAllCorrect == Spec => []RelayedToAll
<1>1. IInv => RelayedToAll
  <2> SUFFICES ASSUME IInv, NEW r \in Relays, pc[r] = "done", NEW s \in steady[r]
               PROVE  got[s][r] >= Cardinality(Entries(r, s) \ failed[r])
    BY DEF RelayedToAll
  <2>1. s \in Streamers /\ got[s][r] \in Nat
    BY DEF IInv, TypeOK
  <2>2. Due(r, s) = Entries(r, s) \ failed[r]
    BY DEF IInv, CopyOK, Passed, Due
  <2>3. Pending(r, s) = 0
    BY DEF Pending
  <2>4. got[s][r] + Pending(r, s) >= Cardinality(Due(r, s))
    BY <2>1 DEF IInv, Accounts, Accounted
  <2> QED
    BY <2>1, <2>2, <2>3, <2>4
<1> QED
  BY <1>1, RelayInvariance, PTL

=============================================================================
