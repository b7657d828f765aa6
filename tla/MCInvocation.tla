---------------------------- MODULE MCInvocation ----------------------------
(***************************************************************************)
(* Instances of Invocation for TLC.                                        *)
(***************************************************************************)
EXTENDS Invocation, TLC

CONSTANTS i1, c1, c2, r1, r2

OneInv == {i1}
OneConn == {c1}
TwoConns == {c1, c2}
OneReader == {r1}
TwoReaders == {r1, r2}

Symmetry == Permutations(TwoReaders) \cup Permutations(TwoConns)
=============================================================================
