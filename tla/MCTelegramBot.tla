---------------------------- MODULE MCTelegramBot -----------------------------
(***************************************************************************)
(* Values of the constants of TelegramBot for TLC.                         *)
(***************************************************************************)
EXTENDS TelegramBot, TLC

CONSTANTS u1, u2, u3, u4, u5

MCUpdates4 == {u1, u2, u3, u4}
MCUpdates5 == {u1, u2, u3, u4, u5}

Symmetry == Permutations(Updates)
===============================================================================
