--------------------------- MODULE ApprovalProtocol ---------------------------
(***************************************************************************)
(* What the assistant promises about dangerous actions                     *)
(* (README.md, "real sending only after resume; role full skips the        *)
(* confirmation"; the contract tests/test_agent_persistent.py states for   *)
(* src/app/services/agent_persistent.py): a call is put to a human, then   *)
(* carried out or cancelled, and an answered call is never put to a human  *)
(* or answered again.                                                      *)
(***************************************************************************)
CONSTANTS
  Calls,
  Trusted   \* may calls be carried out without being asked about (role full)?

VARIABLES asked, done, cancelled

Init == asked = {} /\ done = {} /\ cancelled = {}

Open(c) == c \in Calls \ (done \cup cancelled)

(* A human sees the call.                                                   *)
Ask(c) ==
  /\ Open(c)
  /\ asked' = asked \cup {c}
  /\ UNCHANGED <<done, cancelled>>

Perform(c) ==
  /\ Open(c)
  /\ c \in asked \/ Trusted
  /\ done' = done \cup {c}
  /\ UNCHANGED <<asked, cancelled>>

Cancel(c) ==
  /\ Open(c)
  /\ c \in asked
  /\ cancelled' = cancelled \cup {c}
  /\ UNCHANGED <<asked, done>>

Next == \E c \in Calls : Ask(c) \/ Perform(c) \/ Cancel(c)

Spec == Init /\ [][Next]_<<asked, done, cancelled>>
===============================================================================
