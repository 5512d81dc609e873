--------------------------- MODULE MCChatDirectory ----------------------------
(***************************************************************************)
(* Values of the constants of ChatDirectory for TLC.                       *)
(***************************************************************************)
EXTENDS ChatDirectory, TLC

CONSTANTS r1, r2, r3, r4, k1, k2

MCRequests2 == {r1, r2}
MCRequests4 == {r1, r2, r3, r4}
MCKeys == {k1, k2}

Symmetry == Permutations(Requests) \cup Permutations(Keys)
===============================================================================
