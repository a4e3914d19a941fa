------------------------------- MODULE Relay --------------------------------
(***************************************************************************)
(* The manager and its streamers together: a MESS sent to the manager is   *)
(* relayed in turn to each streamer of a copy of the register              *)
(* (handle_mess, c/manager.c), each time over a connection of its own      *)
(* (send_mess_to_streamer, c/client.c), while streamers start, register,   *)
(* serve their own clients, leave, or start where another one was.         *)
(*                                                                         *)
(* The register is the one that module Manager is shown to implement.  Of  *)
(* a streamer this keeps its port, its monitor, and how many times its     *)
(* list has the message of a relay; see Streamer for the rest.             *)
(***************************************************************************)
EXTENDS Naturals, FiniteSets

CONSTANTS
    Streamers,      \* the processes: one that restarts is another one
    Relays,         \* the connections on which the manager receives a MESS
    address,        \* address[s]: where s serves, and says it does
    reads,          \* reads[a]: what inet_aton makes of a, or None
    Capacity,       \* MAX_REGISTERED_BROADCASTER
    None            \* absence of a value

ASSUME RelayAssumption ==
    /\ IsFiniteSet(Streamers) /\ IsFiniteSet(Relays)
    /\ Streamers \cap Relays = {}
    /\ DOMAIN address = Streamers
    /\ \A s \in Streamers : address[s] \in DOMAIN reads /\ address[s] # None
    /\ Capacity \in Nat \ {0}
    /\ None \notin Streamers /\ None \notin [Streamers -> Nat]

VARIABLES
    listed, verdict, view,  \* the register: see Registry
    life,       \* the life of a streamer's process
    held,       \* whether one of its own clients has its monitor
    got,        \* got[s][r]: how many times s has the message of r
    pc,         \* where a relay stands
    todo,       \* the streamers of its copy that it has not come to
    entry,      \* the one it is on, or None
    link,       \* the streamer it is connected to, or None
    parsable,   \* whether streamers can take its message apart
    late,       \* late[s][r]: how many messages s may still add that it gave up
    steady,     \* history: those that served from its copy on
    failed      \* history: those of its copy on which a call failed

register == <<listed, verdict, view>>
streamers == <<life, held, got>>
relays == <<pc, todo, entry, link, parsable, late, steady, failed>>
vars == <<register, streamers, relays>>

Register == INSTANCE Registry WITH
    Conns <- Streamers \cup Relays,
    Broadcasters <- Streamers

Init ==
    /\ Register!Init
    /\ life = [s \in Streamers |-> "starting"]
    /\ held = [s \in Streamers |-> FALSE]
    /\ got = [s \in Streamers |-> [r \in Relays |-> 0]]
    /\ pc = [r \in Relays |-> "none"]
    /\ todo = [r \in Relays |-> {}]
    /\ entry = [r \in Relays |-> None]
    /\ link = [r \in Relays |-> None]
    /\ parsable \in [Relays -> BOOLEAN]
    /\ late = [s \in Streamers |-> [r \in Relays |-> 0]]
    /\ steady = [r \in Relays |-> {}]
    /\ failed = [r \in Relays |-> {}]

-----------------------------------------------------------------------------
(* Streamers.                                                              *)

\* The copy of r has s.
Copied(r, s) == view[r] # None /\ view[r][s] > 0

SameAddress(s) == {t \in Streamers : address[t] = address[s]}

\* What the copy has of s leads to where t serves, or would serve.
Leads(s, t) == reads[address[s]] = address[t]

\* The thread of the registration is started before the port is taken.
StreamerRegisters(s) ==
    /\ life[s] # "gone"
    /\ Register!Register(s, s) \/ Register!Refuse(s)
    /\ UNCHANGED <<streamers, relays>>

\* Variant: the port is shared.
BindShares(s) ==
    /\ life[s] = "starting"
    /\ life' = [life EXCEPT ![s] = "serving"]
    /\ UNCHANGED <<register, held, got, relays>>

\* The port may have an owner: the streamer goes on and serves nobody.
Bind(s) ==
    /\ life[s] = "starting"
    /\ life' = [life EXCEPT ![s] =
                    IF \E t \in SameAddress(s) : life[t] = "serving" THEN "deaf" ELSE "serving"]
    /\ UNCHANGED <<register, held, got, relays>>

\* What the end of a streamer leaves of its connections: they are reset, or
\* its host is gone without a word, with the ACKM that was on its way.
Reset(s) ==
    /\ link' = [r \in Relays |-> IF link[r] = s THEN None ELSE link[r]]
    /\ UNCHANGED pc

Vanish(s) ==
    /\ pc' = [r \in Relays |-> IF link[r] = s /\ pc[r] = "acked" THEN "wait" ELSE pc[r]]
    /\ UNCHANGED link

Die(s) ==
    /\ life[s] # "gone"
    /\ life' = [life EXCEPT ![s] = "gone"]
    /\ held' = [held EXCEPT ![s] = FALSE]
    /\ late' = [late EXCEPT ![s] = [r \in Relays |-> 0]]
    /\ steady' = [r \in Relays |-> steady[r] \ {s}]
    /\ Reset(s) \/ Vanish(s)
    /\ UNCHANGED <<register, got, todo, entry, parsable, failed>>

\* A heartbeat fails: the streamer is gone, or late.
ManagerForgets(s) ==
    /\ Register!Unregister(s)
    /\ UNCHANGED <<streamers, relays>>

\* A client of the streamer keeps its monitor until it has read its answer.
LocalEnters(s) ==
    /\ life[s] = "serving" /\ ~held[s]
    /\ held' = [held EXCEPT ![s] = TRUE]
    /\ UNCHANGED <<register, life, got, relays>>

LocalLeaves(s) ==
    /\ held[s]
    /\ held' = [held EXCEPT ![s] = FALSE]
    /\ UNCHANGED <<register, life, got, relays>>

\* A thread with a message that the relay gave up has the monitor at last.
StreamerAddsLate(s, r) ==
    /\ late[s][r] > 0 /\ ~held[s]
    /\ late' = [late EXCEPT ![s][r] = @ - 1]
    /\ got' = [got EXCEPT ![s][r] = @ + 1]
    /\ UNCHANGED <<register, life, held, pc, todo, entry, link, parsable, steady, failed>>

-----------------------------------------------------------------------------
(* handle_mess.                                                            *)

CopyRegister(r) ==
    /\ pc[r] = "none"
    /\ pc' = [pc EXCEPT ![r] = "next"]
    /\ Register!Consult(r)
    /\ todo' = [todo EXCEPT ![r] = {s \in Streamers : view'[r][s] > 0}]
    /\ steady' = [steady EXCEPT ![r] = {s \in Streamers : life[s] = "serving"}]
    /\ UNCHANGED <<streamers, entry, link, parsable, late, failed>>

\* A step of the relay, which leaves the rest alone.
Go(r, from, to) ==
    /\ pc[r] = from
    /\ pc' = [pc EXCEPT ![r] = to]
    /\ UNCHANGED <<register, life, held, parsable, steady>>

\* The connection is with whoever serves at the address of the copy.
Connect(r) ==
    \E s \in todo[r], t \in Streamers :
        /\ Leads(s, t) /\ life[t] = "serving"
        /\ Go(r, "next", "send")
        /\ todo' = [todo EXCEPT ![r] = @ \ {s}]
        /\ entry' = [entry EXCEPT ![r] = s]
        /\ link' = [link EXCEPT ![r] = t]
        /\ UNCHANGED <<got, late, failed>>

\* Variant: the first failure ends the relay.
ConnectFailsEnds(r) ==
    \E s \in todo[r] :
        /\ Go(r, "next", "done")
        /\ failed' = [failed EXCEPT ![r] = @ \cup {s}]
        /\ UNCHANGED <<got, todo, entry, link, late>>

\* Variant: a failure is tried again.
ConnectFailsRetries(r) ==
    \E s \in todo[r] :
        /\ Go(r, "next", "next")
        /\ failed' = [failed EXCEPT ![r] = @ \cup {s}]
        /\ UNCHANGED <<got, todo, entry, link, late>>

\* inet_aton, socket or connect, which may fail even when a streamer serves
\* there: the relay goes on with the next streamer.
ConnectFails(r) ==
    \E s \in todo[r] :
        /\ Go(r, "next", "next")
        /\ todo' = [todo EXCEPT ![r] = @ \ {s}]
        /\ failed' = [failed EXCEPT ![r] = @ \cup {s}]
        /\ UNCHANGED <<got, entry, link, late>>

Send(r) ==
    /\ link[r] # None
    /\ Go(r, "send", "wait")
    /\ UNCHANGED <<got, todo, entry, link, late, failed>>

\* The thread of the streamer: addMess and ACKM, in its monitor.  On a
\* message it cannot take apart it ends, with its socket left open.
StreamerAdds(r) ==
    \E s \in Streamers :
        /\ link[r] = s /\ life[s] = "serving" /\ ~held[s] /\ parsable[r]
        /\ Go(r, "wait", "acked")
        /\ got' = [got EXCEPT ![s][r] = @ + 1]
        /\ UNCHANGED <<todo, entry, link, late, failed>>

RecvAckm(r) ==
    /\ Go(r, "acked", "next")
    /\ entry' = [entry EXCEPT ![r] = None]
    /\ link' = [link EXCEPT ![r] = None]
    /\ UNCHANGED <<got, todo, late, failed>>

\* send or recv fails: the relay goes on with the next streamer.
GiveUp(r) ==
    /\ \E from \in {"send", "wait"} : Go(r, from, "next")
    /\ entry' = [entry EXCEPT ![r] = None]
    /\ link' = [link EXCEPT ![r] = None]
    /\ failed' = [failed EXCEPT ![r] = @ \cup {entry[r]}]

\* It sees that the streamer is gone.
LinkFails(r) ==
    /\ link[r] = None
    /\ GiveUp(r)
    /\ UNCHANGED <<got, todo, late>>

\* A streamer that has the message may add it all the same.
MayAddLate(r, s) == link[r] = s /\ life[s] = "serving" /\ pc[r] = "wait" /\ parsable[r]

Forsake(r) ==
    late' = [s \in Streamers |->
                IF MayAddLate(r, s) THEN [late[s] EXCEPT ![r] = @ + 1] ELSE late[s]]

\* Variant: what was given up is tried again.
LinkBreaksRetries(r) ==
    /\ link[r] # None
    /\ GiveUp(r)
    /\ Forsake(r)
    /\ todo' = [todo EXCEPT ![r] = @ \cup {entry[r]}]
    /\ UNCHANGED got

\* The network fails the relay, or it gives up a host that is gone.
LinkBreaks(r) ==
    /\ link[r] # None
    /\ GiveUp(r)
    /\ Forsake(r)
    /\ UNCHANGED <<got, todo>>

RelayEnd(r) ==
    /\ todo[r] = {}
    /\ Go(r, "next", "done")
    /\ UNCHANGED <<got, todo, entry, link, late, failed>>

Relay(r) ==
    \/ Connect(r) \/ ConnectFails(r) \/ Send(r)
    \/ StreamerAdds(r) \/ RecvAckm(r) \/ LinkFails(r) \/ RelayEnd(r)

-----------------------------------------------------------------------------
Next ==
    \/ \E s \in Streamers :
        \/ StreamerRegisters(s) \/ Bind(s) \/ Die(s) \/ ManagerForgets(s)
        \/ LocalEnters(s) \/ LocalLeaves(s)
    \/ \E r \in Relays : CopyRegister(r) \/ Relay(r) \/ LinkBreaks(r)
    \/ \E s \in Streamers, r \in Relays : StreamerAddsLate(s, r)

Spec == Init /\ [][Next]_vars

\* The threads of the manager and of the streamers run when they can.
\* Nothing makes a client leave a monitor, a network fail, or a streamer do
\* anything else.
FairSpec == Spec /\ \A r \in Relays : WF_vars(Relay(r))

-----------------------------------------------------------------------------
(* Correctness.                                                            *)

\* A port has one owner.
OneOwner ==
    \A s, t \in Streamers :
        life[s] = "serving" /\ life[t] = "serving" /\ address[s] = address[t] => s = t

\* Only owners hold connections, and only a host that vanished leaves one.
LinksServe ==
    \A r \in Relays :
        /\ link[r] # None =>
            life[link[r]] \in {"serving", "gone"} /\ pc[r] \in {"send", "wait", "acked"}
        /\ pc[r] \in {"send", "wait", "acked"} => entry[r] # None

\* The types; a port has one owner, and only owners come to hold connections.
TypeOK ==
    /\ listed \in [Streamers \cup Relays -> Streamers \cup {None}]
    /\ verdict \in [Streamers \cup Relays -> {"undecided", "accepted", "refused"}]
    /\ view \in [Streamers \cup Relays -> [Streamers -> Nat] \cup {None}]
    /\ life \in [Streamers -> {"starting", "serving", "deaf", "gone"}]
    /\ held \in [Streamers -> BOOLEAN]
    /\ got \in [Streamers -> [Relays -> Nat]]
    /\ pc \in [Relays -> {"none", "next", "send", "wait", "acked", "done"}]
    /\ todo \in [Relays -> SUBSET Streamers]
    /\ entry \in [Relays -> Streamers \cup {None}]
    /\ link \in [Relays -> Streamers \cup {None}]
    /\ parsable \in [Relays -> BOOLEAN]
    /\ late \in [Streamers -> [Relays -> Nat]]
    /\ steady \in [Relays -> SUBSET Streamers]
    /\ failed \in [Relays -> SUBSET Streamers]
    /\ OneOwner
    /\ LinksServe

\* What the copy of r has that leads to where s serves.
Entries(r, s) == {t \in Streamers : Copied(r, t) /\ Leads(t, s)}

\* A streamer does not have a message more often than the copy of the
\* register leads to it, whatever takes its port or leaves it meanwhile, and
\* whatever fails: a message whose ACKM did not come may be added all the
\* same, so nothing may be tried again.
OncePerEntry ==
    \A r \in Relays, s \in Streamers : got[s][r] <= Cardinality(Entries(r, s))

\* At the end of a relay, a streamer that served all along has the message
\* once for each entry of the copy that leads to it, but for the entries on
\* which a call failed: a failure costs its own entry and no other, be it of
\* the same streamer, and neither does a streamer that left, never served or
\* took a port over.
RelayedToAll ==
    \A r \in Relays : pc[r] = "done" =>
        \A s \in steady[r] : got[s][r] >= Cardinality(Entries(r, s) \ failed[r])

\* What a relay waits for without a limit of time.
Stuck(r) ==
    link[r] # None /\ (life[link[r]] = "gone" \/ held[link[r]] \/ ~parsable[r])

\* A relay comes to its end, whatever streamers leave or never serve, unless
\* it is again and again on a streamer whose monitor is kept by a client, that
\* could not take its message apart, or whose host is gone without a word.
RelayEnds ==
    \A r \in Relays : <>[]~Stuck(r) => (pc[r] = "next" ~> pc[r] = "done")

=============================================================================
