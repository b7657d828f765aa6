--------------------------- MODULE MCClusterView ---------------------------
(***************************************************************************)
(* Instances of ClusterView for TLC: a cluster of two members that one of  *)
(* them leaves and joins again.                                            *)
(***************************************************************************)
EXTENDS ClusterView

CONSTANTS a, b

MCClusterOf(m) == "old"
MCViewOf(k, v) == IF v % 2 = 1 THEN Members ELSE {a}
=============================================================================
