----------------------------- MODULE MCJobPage -----------------------------
(***************************************************************************)
(* An instance of JobPage for TLC: a pull, which the page starts, and a    *)
(* load on the same server.                                                *)
(***************************************************************************)
EXTENDS JobPage, TLC

CONSTANTS p1, l1

OnServer == [j \in Jobs |-> "A"]
=============================================================================
