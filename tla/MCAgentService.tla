---------------------------- MODULE MCAgentService ----------------------------
(***************************************************************************)
(* Values of the constants of AgentService for TLC.                        *)
(***************************************************************************)
EXTENDS AgentService, TLC

CONSTANTS r1, r2, r3, r4, t1

MCTools == {"lookup", "send_email"}
MCDangerous == {"send_email"}

(* A plain answer, a harmless call, a harmless call before a dangerous one, *)
(* and two dangerous ones.                                                  *)
MCResponses ==
  {<< >>, <<"lookup">>, <<"lookup", "send_email">>, <<"send_email", "send_email">>}

MCRequests2 == {r1, r2}
MCRequests3 == {r1, r2, r3}
MCRequests4 == {r1, r2, r3, r4}
MCThreads == {t1}
Symmetry == Permutations(Requests)
===============================================================================
