---------------------------- MODULE MCNearCache ----------------------------
(***************************************************************************)
(* Instances of NearCache for TLC: the keys share a slot of the markers.   *)
(***************************************************************************)
EXTENDS NearCache

OneSlot(k) == 1
=============================================================================
