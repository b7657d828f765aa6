--------------------------- MODULE MCSharedState ---------------------------
(***************************************************************************)
(* One run over the components in which threads, event handlers and a      *)
(* cluster change a shared state: the cluster view, the CP sessions under  *)
(* the fenced lock and under the semaphore, the near cache, the PN counter *)
(* and the transactions. They do not interact: part, which never changes,  *)
(* says which of them a behaviour is about, and the variables of the       *)
(* others keep their initial values. The cluster view is the module this   *)
(* one extends.                                                            *)
(***************************************************************************)
EXTENDS ClusterView, TLC

CONSTANTS t1, t2    \* threads

VARIABLES
    part,
    \* CP sessions, the lock and the semaphore
    session, lastId, lastNode, open, creating, running, late, call,
    lock, locked, held, fence, available, owned,
    \* the near cache
    server, events, registered, marks, owner, records, lent, dead, expired,
    strayed, expirer, t, handler, registration, losses,
    \* the PN counter
    state, up, target, observed, c, received,
    \* transactions
    state_, transaction_exists_, txn_id_, member, requests, failed, overlapped,
    \* bounds
    calls, faults

viewVars == vars
sessionVars == <<session, lastId, lastNode, open, creating, running, late, call>>
cpLockVars == <<lock, locked, held, fence>>
semaphoreVars == <<available, owned>>
cacheVars == <<server, events, registered, marks, owner, records, lent,
               dead, expired, strayed, expirer, t, handler, registration, losses>>
counterVars == <<state, up, target, observed, c, received>>
txnVars == <<state_, transaction_exists_, txn_id_, member, requests, failed,
             overlapped>>
allVars == <<part, viewVars, sessionVars, cpLockVars, semaphoreVars, cacheVars,
             counterVars, txnVars, calls, faults>>

-----------------------------------------------------------------------------
\* a and b form the first cluster, n the one that replaces it.
MCClusterOf(m) == IF m = "n" THEN "new" ELSE "old"
MCViewOf(k, v) == IF k = "new" THEN {"n"}
                  ELSE IF v % 2 = 1 THEN {"a", "b"} ELSE {"a"}

\* The module this one extends is a client that may be moved to the other
\* cluster, with one worker thread; this one stays, with two.
View2 == INSTANCE ClusterView WITH Workers <- {"w1", "w2"}, Members <- {"a", "b"}

Lock == INSTANCE FencedLock WITH
    Threads <- {t1, t2}, NoThread <- "NoThread",
    MaxSession <- 2, MaxCalls <- 3, LockLimit <- 2

Semaphore == INSTANCE SessionSemaphore WITH
    Threads <- {t1, t2}, NoThread <- "NoThread",
    MaxSession <- 2, MaxCalls <- 2, Permits <- 2,
    DRAIN_SESSION_ACQ_COUNT <- 1024

OneSlot(k) == 1

Cache == INSTANCE NearCache WITH
    Threads <- {t1, t2}, Keys <- {"k1"}, get_slot <- OneSlot,
    MaxSize <- 1, EvictionEnabled <- TRUE, MaxVersion <- 2, MaxEvents <- 1,
    MaxLosses <- 1, MaxCalls <- 3

Counter == INSTANCE PNCounter WITH
    Callers <- {"i1", "i2"}, Replicas <- {"r1", "r2"}, MaxAdds <- 2, MaxFaults <- 1,
    MaxCalls <- 3

Txn == INSTANCE Transaction WITH
    MaxTxns <- 3, MaxCalls <- 5, MaxFaults <- 2

\* The threads of a component are interchangeable.
Symmetry == Permutations({t1, t2})

PartsInit ==
    /\ part \in {"view", "view2", "lock", "semaphore", "cache", "counter", "txn"}
    /\ IF part = "view" THEN Init ELSE View2!Init
    /\ Lock!Init /\ Semaphore!Init /\ Cache!Init /\ Counter!Init /\ Txn!Init

PartsNext ==
    \/ /\ part = "view" /\ Next
       /\ UNCHANGED <<part, sessionVars, cpLockVars, semaphoreVars, cacheVars,
                      counterVars, txnVars, calls, faults>>
    \/ /\ part = "view2" /\ View2!Next
       /\ UNCHANGED <<part, sessionVars, cpLockVars, semaphoreVars, cacheVars,
                      counterVars, txnVars, calls, faults>>
    \/ /\ part = "lock" /\ Lock!Next
       /\ UNCHANGED <<part, viewVars, semaphoreVars, cacheVars, counterVars,
                      txnVars, faults>>
    \/ /\ part = "semaphore" /\ Semaphore!Next
       /\ UNCHANGED <<part, viewVars, cpLockVars, cacheVars, counterVars, txnVars,
                      faults>>
    \/ /\ part = "cache" /\ Cache!Next
       /\ UNCHANGED <<part, viewVars, sessionVars, cpLockVars, semaphoreVars,
                      counterVars, txnVars, faults>>
    \/ /\ part = "counter" /\ Counter!Next
       /\ UNCHANGED <<part, viewVars, sessionVars, cpLockVars, semaphoreVars,
                      cacheVars, txnVars>>
    \/ /\ part = "txn" /\ Txn!Next
       /\ UNCHANGED <<part, viewVars, sessionVars, cpLockVars, semaphoreVars,
                      cacheVars, counterVars>>

PartsSpec == PartsInit /\ [][PartsNext]_allVars

-----------------------------------------------------------------------------
\* The type invariant of each component.
TypesOK ==
    CASE part = "view" -> TypeOK
      [] part = "view2" -> View2!TypeOK
      [] part = "lock" -> Lock!TypeOK
      [] part = "semaphore" -> Semaphore!TypeOK
      [] part = "cache" -> Cache!TypeOK
      [] part = "counter" -> Counter!TypeOK
      [] part = "txn" -> Txn!TypeOK

\* Once nothing is under way the member list is the cluster's newest one.
NewestMembers == IF part = "view" THEN MembersCurrent ELSE View2!MembersCurrent

\* A reentrant lock() returns the fence of the first.
SameFence == Lock!SameFence

\* The CP session is in use as long as it holds permits of the semaphore.
InUseWhileHeld == part = "semaphore" => Semaphore!InUseWhileHeld

\* A stale record of the near cache has its removal still to come, unless its
\* get gave back the mark of another one.
StaleIsDoomed == part = "cache" => Cache!StaleIsDoomed

\* The PN counter's observed clock covers all the proxy has read or written,
\* unless two of the answers were concurrent.
SessionKept == part = "counter" => Counter!SessionKept

\* The state of a transaction is that of the member, and no open transaction
\* is lost from sight without a failed call, unless a begin() overlapped others.
StateIsTrue == part = "txn" => Txn!StateIsTrue
=============================================================================
