-------------------------------- MODULE Feed --------------------------------
(***************************************************************************)
(* What a streamer ("diffuseur") promises, whatever the threads and the    *)
(* ring that implement it: the posts are broadcast one at a time under     *)
(* consecutive numbers, a client may add a post, and a client that asks    *)
(* for the last n broadcasts and is answered gets exactly those, oldest    *)
(* first, as they stood at one instant.                                    *)
(***************************************************************************)
EXTENDS Naturals, Sequences

CONSTANTS
    Conns,          \* the connections clients make to the streamer
    History,        \* how many broadcasts a streamer can repeat
    MaxNum,         \* broadcasts are numbered 0 to MaxNum - 1, then 0 again
    Old(_),         \* a broadcast as it is repeated to a client
    None            \* absence of a value

VARIABLES
    posts,      \* what is broadcast, in the order it was added
    latest,     \* the last broadcasts, oldest first, at most History of them
    answer      \* answer[c]: the broadcasts repeated on c, or None

feedVars == <<posts, latest, answer>>

\* The last n elements of s, or all of them.
LastOf(s, n) == IF n >= Len(s) THEN s ELSE SubSeq(s, Len(s) - n + 1, Len(s))

NumberAfter(s) == IF s = <<>> THEN 0 ELSE (s[Len(s)].num + 1) % MaxNum

\* A streamer starts with any posts.
Init ==
    /\ latest = <<>>
    /\ answer = [c \in Conns |-> None]

Broadcast ==
    /\ \E i \in DOMAIN posts :
        LET b == [type |-> "DIFF", num |-> NumberAfter(latest),
                  id |-> posts[i].id, text |-> posts[i].text]
        IN  latest' = LastOf(Append(latest, b), History)
    /\ UNCHANGED <<posts, answer>>

Post ==
    /\ Len(posts') = Len(posts) + 1
    /\ posts = SubSeq(posts', 1, Len(posts))
    /\ UNCHANGED <<latest, answer>>

Answer(c) ==
    /\ answer[c] = None
    /\ \E n \in 0..History :
        LET last == LastOf(latest, n)
        IN  answer' = [answer EXCEPT ![c] = [i \in 1..Len(last) |-> Old(last[i])]]
    /\ UNCHANGED <<posts, latest>>

Next == Broadcast \/ Post \/ \E c \in Conns : Answer(c)

Spec == Init /\ [][Next]_feedVars

=============================================================================
