------------------------- MODULE MCConnectionManager -------------------------
(***************************************************************************)
(* Instances of ConnectionManager for TLC: two members of cluster "A" and, *)
(* at the address of the first, a member of cluster "B".                   *)
(***************************************************************************)
EXTENDS ConnectionManager, TLC

CONSTANTS a1, a2, b1

OneMember == {a1}
OneCluster == {a1, a2}
TwoClusters == {a1, a2, b1}
MCCluster == (a1 :> "A") @@ (a2 :> "A") @@ (b1 :> "B")
MCAddress == (a1 :> "x") @@ (a2 :> "y") @@ (b1 :> "x")
AllSame == [m \in Members |-> 271]
OneDiffers == [m \in Members |-> IF m = a2 THEN 13 ELSE 271]
=============================================================================
