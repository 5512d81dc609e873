---------------------------- MODULE MCChatService -----------------------------
(***************************************************************************)
(* Values of the constants of ChatService for TLC.                         *)
(***************************************************************************)
EXTENDS ChatService, TLC

CONSTANTS r1, r2

MCRequests2 == {r1, r2}

Symmetry == Permutations(Requests)
===============================================================================
