----------------------------- MODULE MCStreamer -----------------------------
(* Instances of Streamer for TLC.                                          *)
EXTENDS Streamer, TLC

CONSTANT author

\* An id and no message, or two messages, one of them with a # in it.
MCInitialPosts ==
    { <<>>, << [id |-> author, text |-> "plain"], [id |-> author, text |-> "sharp"] >> }

\* For the runs about what goes on when there is something to broadcast.
OnePost == { << [id |-> author, text |-> "plain"] >> }

NoImages == <<>>

ThreeImages == <<"first", "second", "third">>

Symmetry == Permutations(Conns)

=============================================================================
