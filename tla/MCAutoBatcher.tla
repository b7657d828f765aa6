--------------------------- MODULE MCAutoBatcher ---------------------------
(***************************************************************************)
(* Instances of AutoBatcher for TLC.                                       *)
(***************************************************************************)
EXTENDS AutoBatcher

MCBase(b) == 10 * b
=============================================================================
