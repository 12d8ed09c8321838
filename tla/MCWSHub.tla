------------------------------- MODULE MCWSHub -------------------------------
(***************************************************************************)
(* Values of the constants of WSHub for TLC.                               *)
(***************************************************************************)
EXTENDS WSHub

CONSTANTS a1, a2, s1, s2

OneAgent == {a1}
TwoAgents == {a1, a2}
OneSender == {s1}
TwoSenders == {s1, s2}
=============================================================================
