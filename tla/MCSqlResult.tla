---------------------------- MODULE MCSqlResult ----------------------------
(***************************************************************************)
(* Instances of SqlResult for TLC: up to three pages of up to two rows.    *)
(***************************************************************************)
EXTENDS SqlResult

Pages == UNION {[1..n -> 0..2] : n \in 1..3}
=============================================================================
