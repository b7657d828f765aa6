------------------------------ MODULE IdSource ------------------------------
(***************************************************************************)
(* What flake_id_generator::new_id() promises to its callers, whatever     *)
(* happens between the client and the cluster: a call is answered once,    *)
(* with an id that no call was ever answered with, or with an error.       *)
(* How ids are fetched in batches and shared out is not visible here.      *)
(***************************************************************************)
CONSTANTS
    Callers,        \* threads that call new_id()
    Ids,            \* the ids of the cluster
    NoId,           \* a caller that has not been answered yet
    Error           \* the answer of a call that failed

VARIABLES
    asking,         \* callers whose future is not resolved
    issued,         \* ids given out so far
    answer          \* per caller: what its last future was resolved with

vars == <<asking, issued, answer>>

Init ==
    /\ asking = {}
    /\ issued = {}
    /\ answer = [c \in Callers |-> NoId]

Ask(c) ==
    /\ c \notin asking
    /\ asking' = asking \cup {c}
    /\ UNCHANGED <<issued, answer>>

Give(c) ==
    /\ c \in asking
    /\ \E id \in Ids \ issued :
        /\ issued' = issued \cup {id}
        /\ answer' = [answer EXCEPT ![c] = id]
    /\ asking' = asking \ {c}

Fail(c) ==
    /\ c \in asking
    /\ asking' = asking \ {c}
    /\ answer' = [answer EXCEPT ![c] = Error]
    /\ UNCHANGED issued

Next == \E c \in Callers : Ask(c) \/ Give(c) \/ Fail(c)

Spec == Init /\ [][Next]_vars
=============================================================================
