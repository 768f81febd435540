--------------------------- MODULE MCAgentMailbox ---------------------------
(***************************************************************************)
(* An instance of AgentMailbox for TLC.  Two callers number their calls    *)
(* from 1, and so does one group; the other has id 2, c3's body has none. *)
(***************************************************************************)
EXTENDS AgentMailbox, TLC

CONSTANTS c1, c2, c3, m1, m2, k1, k2

SharedId == [x \in Items |-> CASE x = c3 -> NoId [] x = m2 -> 2 [] OTHER -> 1]
=============================================================================
