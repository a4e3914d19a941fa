------------------------------ MODULE Registry ------------------------------
(***************************************************************************)
(* What the manager ("gestionnaire") promises about its register of        *)
(* broadcasters, whatever the threads and the mutex that implement it: a   *)
(* registration, the end of one and a consultation each happen at one      *)
(* instant, at most Capacity broadcasters are registered at a time, a      *)
(* registration is refused only when the register is full, and a           *)
(* consultation returns exactly the broadcasters registered at that        *)
(* instant.                                                                *)
(***************************************************************************)
EXTENDS Naturals, FiniteSets

CONSTANTS
    Conns,          \* the connections made to the manager
    Broadcasters,   \* what a registration describes: id, addresses and ports
    Capacity,       \* how many registrations fit
    None            \* absence of a value

VARIABLES
    listed,     \* listed[c]: the broadcaster c has in the register, or None
    verdict,    \* verdict[c]: the answer to the registration asked on c
    view        \* view[c]: what c's consultation returned, or None

registryVars == <<listed, verdict, view>>

ListedConns == {c \in Conns : listed[c] # None}

Occurrences == [b \in Broadcasters |-> Cardinality({c \in Conns : listed[c] = b})]

Init ==
    /\ listed = [c \in Conns |-> None]
    /\ verdict = [c \in Conns |-> "undecided"]
    /\ view = [c \in Conns |-> None]

Register(c, b) ==
    /\ verdict[c] = "undecided"
    /\ Cardinality(ListedConns) < Capacity
    /\ listed' = [listed EXCEPT ![c] = b]
    /\ verdict' = [verdict EXCEPT ![c] = "accepted"]
    /\ UNCHANGED view

Refuse(c) ==
    /\ verdict[c] = "undecided"
    /\ Cardinality(ListedConns) = Capacity
    /\ verdict' = [verdict EXCEPT ![c] = "refused"]
    /\ UNCHANGED <<listed, view>>

Unregister(c) ==
    /\ listed[c] # None
    /\ listed' = [listed EXCEPT ![c] = None]
    /\ UNCHANGED <<verdict, view>>

Consult(c) ==
    /\ view[c] = None
    /\ view' = [view EXCEPT ![c] = Occurrences]
    /\ UNCHANGED <<listed, verdict>>

\* Most steps of the threads that implement the register leave it alone: this
\* comes first for TLC, and Spec would allow it anyway.
Next ==
    \/ UNCHANGED registryVars
    \/ \E c \in Conns :
        \/ \E b \in Broadcasters : Register(c, b)
        \/ Refuse(c)
        \/ Unregister(c)
        \/ Consult(c)

Spec == Init /\ [][Next]_registryVars

=============================================================================
