---------------------------- MODULE AutoBatcher -----------------------------
(***************************************************************************)
(* The flake id generator's auto_batcher (proxy.cpp, auto_batcher.h): ids  *)
(* are served from the current block without a lock; callers that find it  *)
(* spent or expired coalesce on one fetch of the next batch, which runs on *)
(* the user executor and is waited for with continuations.                 *)
(*                                                                         *)
(* A block is known by the number of its batch, 0 being the null pointer.  *)
(* fetches is the history of the shared futures that fetch_in_progress_    *)
(* was set to; its length is fetch_generation_.  The fetch task holds a    *)
(* thread of the user executor while it waits for the answer, and the      *)
(* completion of that answer is itself a task of the user executor         *)
(* (ClientInvocation::complete_call_id_sequence), so the size of the pool  *)
(* is part of the model.  The clock is abstracted: a block may expire at   *)
(* any moment.                                                             *)
(***************************************************************************)
EXTENDS IdBatch, FiniteSets, Sequences

CONSTANTS
    Callers,        \* threads that call new_id()
    PoolSize,       \* threads of the user executor
    MaxCalls,       \* bound: calls of new_id() per caller
    NoId, Error     \* no answer yet; the future was resolved with an exception

VARIABLES
    block,          \* block_
    returned,       \* num_returned_ of every block
    expired,        \* blocks whose invalid_since_ has passed
    batches,        \* external: batches the cluster has handed out
    fetches,        \* the fetches so far: stage and block, oldest first
    fetch_in_progress,    \* fetch_in_progress_.valid()
    at,             \* per caller: where in new_id() it is
    seen,           \* per caller: the block it loaded last
    gen,            \* per caller: the fetch its continuation is attached to
    calls,          \* per caller: calls made
    answer,         \* per caller: what the last future was resolved with
    issued          \* history: all the ids given out

vars == <<block, returned, expired, batches, fetches, fetch_in_progress, at, seen, gen,
          calls, answer, issued>>

Stages == {"queued", "asking", "answered", "failed", "ready"}

TypeOK ==
    /\ block \in 0..MaxBatch
    /\ returned \in [1..MaxBatch -> 0..BatchSize]
    /\ expired \subseteq 1..MaxBatch
    /\ batches \in 0..MaxBatch
    /\ fetches \in Seq([stage : Stages, block : 0..MaxBatch])
    /\ fetch_in_progress \in BOOLEAN
    /\ at \in [Callers -> {"idle", "fast", "load", "try", "lock", "wait", "got", "posted"}]
    /\ seen \in [Callers -> 0..MaxBatch]
    /\ gen \in [Callers -> 0..Len(fetches)]
    /\ calls \in [Callers -> 0..MaxCalls]
    /\ answer \in [Callers -> Ids \cup {NoId, Error}]
    /\ issued \subseteq Ids

Init ==
    /\ block = 0
    /\ returned = [b \in 1..MaxBatch |-> 0]
    /\ expired = {}
    /\ batches = 0
    /\ fetches = <<>>
    /\ fetch_in_progress = FALSE
    /\ at = [c \in Callers |-> "idle"]
    /\ seen = [c \in Callers |-> 0]
    /\ gen = [c \in Callers |-> 0]
    /\ calls = [c \in Callers |-> 0]
    /\ answer = [c \in Callers |-> NoId]
    /\ issued = {}

\* block::usable(), and the tests of block::next()
usable(b) ==
    /\ b \in 1..MaxBatch
    /\ b \notin expired
    /\ returned[b] < BatchSize

\* mutant: the index is read and written in two steps
NextNoCas(c, b) ==
    /\ \E i \in {returned[b], returned[b] - 1} \cap 0..BatchSize :
        /\ answer' = [answer EXCEPT ![c] = Id(b, i)]
        /\ issued' = issued \cup {Id(b, i)}
    /\ returned' = [returned EXCEPT ![b] = @ + 1]
    /\ at' = [at EXCEPT ![c] = "idle"]
    /\ seen' = [seen EXCEPT ![c] = 0]
    /\ gen' = [gen EXCEPT ![c] = 0]

\* block::next() succeeds: the compare-and-set gives one index to one caller
next(c, b) ==
    /\ answer' = [answer EXCEPT ![c] = Id(b, returned[b])]
    /\ issued' = issued \cup {Id(b, returned[b])}
    /\ returned' = [returned EXCEPT ![b] = @ + 1]
    /\ at' = [at EXCEPT ![c] = "idle"]
    /\ seen' = [seen EXCEPT ![c] = 0]
    /\ gen' = [gen EXCEPT ![c] = 0]

\* the caller is answered from block b, or goes on at step "on"
NextOr(c, b, on) ==
    \/ usable(b) /\ next(c, b)
    \/ ~usable(b) /\ at' = [at EXCEPT ![c] = on] /\ UNCHANGED <<answer, issued, returned, seen, gen>>

\* threads of the user executor blocked in supplier(size).get()
Blocked == {g \in 1..Len(fetches) : fetches[g].stage \in {"asking", "answered"}}

FreeThread == Cardinality(Blocked) < PoolSize

\* new_id(): the fast path loads the current block ...
NewId(c) ==
    /\ at[c] = "idle"
    /\ calls[c] < MaxCalls
    /\ calls' = [calls EXCEPT ![c] = @ + 1]
    /\ seen' = [seen EXCEPT ![c] = block]
    /\ at' = [at EXCEPT ![c] = "fast"]
    /\ UNCHANGED <<block, returned, expired, batches, fetches, fetch_in_progress, gen, answer, issued>>

\* ... and asks it for an id
FastNext(c) ==
    /\ at[c] = "fast"
    /\ NextOr(c, seen[c], "load")
    /\ UNCHANGED <<block, expired, batches, fetches, fetch_in_progress, calls>>

\* try_get_id(), on the caller's thread or posted to the user executor
TryGetId(c) ==
    /\ at[c] = "load" \/ (at[c] = "posted" /\ FreeThread)
    /\ seen' = [seen EXCEPT ![c] = block]
    /\ at' = [at EXCEPT ![c] = "try"]
    /\ UNCHANGED <<block, returned, expired, batches, fetches, fetch_in_progress, gen, calls,
                   answer, issued>>

TryNext(c) ==
    /\ at[c] = "try"
    /\ NextOr(c, seen[c], "lock")
    /\ UNCHANGED <<block, expired, batches, fetches, fetch_in_progress, calls>>

\* the slow path elects one fetcher: join the fetch in progress or submit one
JoinFetch(c) ==
    /\ at' = [at EXCEPT ![c] = "wait"]
    /\ fetches' = IF fetch_in_progress THEN fetches
                  ELSE Append(fetches, [stage |-> "queued", block |-> 0])
    /\ gen' = [gen EXCEPT ![c] = Len(fetches')]
    /\ seen' = [seen EXCEPT ![c] = 0]
    /\ fetch_in_progress' = TRUE
    /\ UNCHANGED <<returned, answer, issued>>

\* try_get_id() under mutex_: the block may have been replaced meanwhile
Elect(c) ==
    /\ at[c] = "lock"
    /\ \/ block # seen[c] /\ usable(block) /\ next(c, block)
            /\ UNCHANGED <<fetches, fetch_in_progress>>
       \/ ~(block # seen[c] /\ usable(block)) /\ JoinFetch(c)
    /\ UNCHANGED <<block, expired, batches, calls>>

\* the fetch task starts on a thread of the user executor
StartFetch(g) ==
    /\ fetches[g].stage = "queued"
    /\ FreeThread
    /\ fetches' = [fetches EXCEPT ![g].stage = "asking"]
    /\ UNCHANGED <<block, returned, expired, batches, fetch_in_progress, at, seen, gen, calls,
                   answer, issued>>

\* external: the cluster answers new_id_batch() with a batch or with an error
ClusterAnswers(g) ==
    /\ fetches[g].stage = "asking"
    /\ \/ /\ batches < MaxBatch
          /\ batches' = batches + 1
          /\ fetches' = [fetches EXCEPT ![g] = [stage |-> "answered", block |-> batches + 1]]
       \/ /\ fetches' = [fetches EXCEPT ![g] = [stage |-> "answered", block |-> 0]]
          /\ UNCHANGED batches
    /\ UNCHANGED <<block, returned, expired, fetch_in_progress, at, seen, gen, calls, answer, issued>>

\* the answer is completed by a second thread of the user executor; the fetch
\* task installs the block, asks again if it expired already, or rethrows
FetchReturns(g) ==
    /\ fetches[g].stage = "answered"
    /\ FreeThread
    /\ LET b == fetches[g].block IN
        \/ /\ b = 0
           /\ fetches' = [fetches EXCEPT ![g].stage = "failed"]
           /\ UNCHANGED block
        \/ /\ usable(b)
           /\ block' = b
           /\ fetches' = [fetches EXCEPT ![g].stage = "ready"]
        \/ /\ b # 0 /\ ~usable(b)
           /\ fetches' = [fetches EXCEPT ![g] = [stage |-> "asking", block |-> 0]]
           /\ UNCHANGED block
    /\ UNCHANGED <<returned, expired, batches, fetch_in_progress, at, seen, gen, calls, answer, issued>>

\* mutant: a continuation clears whatever fetch is under way
ClearAnyFetch(c) ==
    /\ at[c] = "wait"
    /\ fetches[gen[c]].stage \in {"ready", "failed"}
    /\ fetch_in_progress' = FALSE
    /\ at' = [at EXCEPT ![c] = "got"]
    /\ UNCHANGED <<block, returned, expired, batches, fetches, seen, gen, calls, answer, issued>>

\* the caller's continuation, under mutex_: only the current fetch is cleared
ClearFetch(c) ==
    /\ at[c] = "wait"
    /\ fetches[gen[c]].stage \in {"ready", "failed"}
    /\ fetch_in_progress' = (fetch_in_progress /\ gen[c] # Len(fetches))
    /\ at' = [at EXCEPT ![c] = "got"]
    /\ UNCHANGED <<block, returned, expired, batches, fetches, seen, gen, calls, answer, issued>>

\* mutant: a continuation that gets no id waits for the same fetch again
LostRoundDropped(c) ==
    /\ at[c] = "got"
    /\ LET f == fetches[gen[c]] IN
        \/ /\ f.stage = "failed"
           /\ answer' = [answer EXCEPT ![c] = Error]
           /\ at' = [at EXCEPT ![c] = "idle"]
           /\ gen' = [gen EXCEPT ![c] = 0]
           /\ UNCHANGED <<issued, returned, seen>>
        \/ f.stage = "ready" /\ NextOr(c, f.block, "wait")
    /\ UNCHANGED <<block, expired, batches, fetches, fetch_in_progress, calls>>

\* ... and then takes an id of the new block, or posts another round
Continue(c) ==
    /\ at[c] = "got"
    /\ LET f == fetches[gen[c]] IN
        \/ /\ f.stage = "failed"
           /\ answer' = [answer EXCEPT ![c] = Error]
           /\ at' = [at EXCEPT ![c] = "idle"]
           /\ gen' = [gen EXCEPT ![c] = 0]
           /\ UNCHANGED <<issued, returned, seen>>
        \/ f.stage = "ready" /\ NextOr(c, f.block, "posted")
    /\ UNCHANGED <<block, expired, batches, fetches, fetch_in_progress, calls>>

\* the validity of a block ends
Expire(b) ==
    /\ b \in 1..batches
    /\ b \notin expired
    /\ expired' = expired \cup {b}
    /\ UNCHANGED <<block, returned, batches, fetches, fetch_in_progress, at, seen, gen, calls,
                   answer, issued>>

CallerStep(c) ==
    \/ FastNext(c) \/ TryGetId(c) \/ TryNext(c) \/ Elect(c) \/ ClearFetch(c) \/ Continue(c)

FetchStep(g) == StartFetch(g) \/ ClusterAnswers(g) \/ FetchReturns(g)

Next ==
    \/ \E c \in Callers : NewId(c) \/ CallerStep(c)
    \/ \E g \in 1..Len(fetches) : FetchStep(g)
    \/ \E b \in 1..MaxBatch : Expire(b)

Spec == Init /\ [][Next]_vars

\* fetches never has more entries than this: a fetch consumes a batch or answers a call
MaxFetch == MaxBatch + MaxCalls * Cardinality(Callers)

\* threads are scheduled, and every invocation is answered (or fails) in the end;
\* calls and the clock have no fairness
FairSpec ==
    /\ Spec
    /\ \A c \in Callers : WF_vars(CallerStep(c))
    /\ \A g \in 1..MaxFetch : WF_vars(g \in 1..Len(fetches) /\ FetchStep(g))
-----------------------------------------------------------------------------
(***************************************************************************)
(* Properties.                                                             *)
(***************************************************************************)

\* auto_batcher.h: "single-flight batch fetch": however the continuations of
\* earlier fetches interleave with new callers, at most one batch is being
\* fetched, and (try_get_id()'s second look at block_ under the mutex) only
\* while the installed block cannot serve, so no valid ids are thrown away.
SingleFlight ==
    \A g \in 1..Len(fetches) :
        fetches[g].stage \notin {"ready", "failed"} => g = Len(fetches) /\ ~usable(block)

Abstract == INSTANCE IdSource WITH asking <- {c \in Callers : at[c] # "idle"}

\* the auto batcher is an id source: every call is answered once, and never
\* with an id that was given out before
ImplementsIdSource == Abstract!Spec

\* auto_batcher.h: "Always returns a valid id": every future new_id() returned
\* is resolved, with an id or with the cluster's error
EveryCallAnswered == \A c \in Callers : at[c] # "idle" ~> at[c] = "idle"
=============================================================================
