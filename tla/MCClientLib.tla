---------------------------- MODULE MCClientLib -----------------------------
(* Instances of ClientLib for TLC.                                         *)
EXTENDS ClientLib

\* Before, in and after the type, in the number of LINB, inside a message.
AllCuts == {3, 4, 5, 6, 28}

\* TCP may join messages and cuts none.
NoCut == {}

=============================================================================
