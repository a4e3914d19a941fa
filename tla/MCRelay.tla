------------------------------ MODULE MCRelay -------------------------------
(* Two streamers say they serve at one address, and a third one at another *)
(* that inet_aton does not read.                                          *)
EXTENDS Relay, TLC

CONSTANTS s1, s2, s3, here, there

MCStreamers == {s1, s2, s3}

MCAddress == (s1 :> here) @@ (s2 :> here) @@ (s3 :> there)

MCReads == (here :> here) @@ (there :> None)

Symmetry == Permutations({s1, s2})

=============================================================================
