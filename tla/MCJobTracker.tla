---------------------------- MODULE MCJobTracker ----------------------------
(***************************************************************************)
(* An instance of JobTracker for TLC: two pulls and a load on one server,  *)
(* a pull on another.                                                      *)
(***************************************************************************)
EXTENDS JobTracker, TLC

CONSTANTS p1, p2, p3, l1

OnServers == [j \in Jobs |-> IF j = p3 THEN "B" ELSE "A"]
SwapPulls == Permutations({p1, p2})
=============================================================================
