-------------------------- MODULE MCInvocationLive --------------------------
(***************************************************************************)
(* Liveness of an invocation, on behaviours of two kinds that together     *)
(* would be too many: connections break, the client may be shut down, and  *)
(* no operation has backups; or backups are awaited and no connection      *)
(* breaks.  part, which never changes, says which kind.                    *)
(***************************************************************************)
EXTENDS Naturals

CONSTANTS Cleaner, i1, c1, r1, r2

VARIABLES
    part,
    running, timer, alive, registry, visiting, lastId, inv, att, proc, scan,
    toFail, inbox

Breaks == INSTANCE Invocation WITH
    Invs <- {i1}, Conns <- {c1}, Readers <- {r1, r2},
    FailOnIndeterminate <- FALSE, Closable <- {c1}, CanShutdown <- TRUE,
    MaxBackups <- 0, MaxId <- 2

Backups == INSTANCE Invocation WITH
    Invs <- {i1}, Conns <- {c1}, Readers <- {r1, r2},
    FailOnIndeterminate <- FALSE, Closable <- {}, CanShutdown <- FALSE,
    MaxBackups <- 2, MaxId <- 2

LiveInit == part \in {"breaks", "backups"} /\ Breaks!Init

LiveNext ==
    \/ /\ part = "breaks" /\ Breaks!Next
       /\ UNCHANGED part
    \/ /\ part = "backups" /\ Backups!Next
       /\ UNCHANGED part

\* the steps that are fair do not depend on the constants in which the two differ
LiveSpec == LiveInit /\ [][LiveNext]_<<part, Breaks!vars>> /\ Breaks!Fairness

-----------------------------------------------------------------------------
\* As PendingSettles of Invocation: a response that waits for its backups
\* completes the future in the end.
PendingSettlesEver == part = "backups" => Backups!PendingSettles

\* As BrokenConnectionNoticed of Invocation: an attempt whose connection
\* breaks does not hang.
BreakNoticedEver == part = "breaks" => Breaks!BrokenConnectionNoticed
=============================================================================
