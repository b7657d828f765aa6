--------------------------- MODULE CallIdSequence ---------------------------
(***************************************************************************)
(* The call-id sequence of the invocation service (spi.cpp, namespace      *)
(* sequence): it hands out correlation ids and, by counting the slots that *)
(* are taken (head) and given back (tail), limits how many invocations are *)
(* in flight.  next() first reads the two counters and only later          *)
(* increments head, so callers on several threads interleave between the   *)
(* two; force_next() (urgent invocations and retries) never looks at the   *)
(* limit.                                                                  *)
(*                                                                         *)
(* A caller thread is in the middle of next() or outside it (pc).  The     *)
(* invocations that own a slot are known by their call id: live is the set *)
(* of current ids, urgent those started by invoke_urgent(), retrying those *)
(* inside ClientInvocation::execute(), which already took its new slot and *)
(* has not given back the old one.                                         *)
(***************************************************************************)
EXTENDS Integers, FiniteSets

CONSTANTS
    Callers,        \* threads that call next()
    Max,            \* max_concurrent_invocations_
    MaxCallId       \* bound: no id above this one is issued (the code: int64_t)

ASSUME CallersAssumption == IsFiniteSet(Callers)
ASSUME MaxAssumption == Max \in Nat \ {0}
ASSUME MaxCallIdAssumption == MaxCallId \in Nat

VARIABLES
    strategy,       \* the subclass in use: "FailFast" or "Backoff" (with a backoff timeout)
    head,           \* longs_[INDEX_HEAD]
    tail,           \* longs_[INDEX_TAIL]
    pc,             \* per caller: "out" of next(), "waiting" in the idle loop, "granted",
                    \* or out of it again with hazelcast_overload ("overload")
    live,           \* ids of the invocations that own a slot
    urgent,         \* the live ids that never passed the limit (force_next() at birth)
    retrying        \* the live ids that own two slots, inside execute()

vars == <<strategy, head, tail, pc, live, urgent, retrying>>

(***************************************************************************)
(* The spin loop's clock (steady_clock against backoff_timeout_nanos_) is  *)
(* abstracted: the deadline may pass at any evaluation of the loop.        *)
(***************************************************************************)
\* mutant: the limit itself counts as free
HasSpaceOffByOne == head - tail <= Max

has_space == head - tail < Max

Granted == {c \in Callers : pc[c] = "granted"}

\* the application starts a call only while ids are left for the calls under way
IdsLeft == head + Cardinality(Granted) < MaxCallId

Outside(c) == pc[c] \in {"out", "overload"}

\* CallIdFactory::new_call_id_sequence() with backpressure: the backoff timeout
\* selects the subclass
Init ==
    /\ strategy \in {"FailFast", "Backoff"}
    /\ head = 0
    /\ tail = 0
    /\ pc = [c \in Callers |-> "out"]
    /\ live = {}
    /\ urgent = {}
    /\ retrying = {}

\* next(): there is space, the caller will take it
NextSeesSpace(c) ==
    /\ Outside(c)
    /\ IdsLeft
    /\ has_space
    /\ pc' = [pc EXCEPT ![c] = "granted"]
    /\ UNCHANGED <<strategy, head, tail, live, urgent, retrying>>

\* next(): no space; the fail-fast sequence throws hazelcast_overload at once
NextOverload(c) ==
    /\ Outside(c)
    /\ ~has_space
    /\ strategy = "FailFast"
    /\ pc' = [pc EXCEPT ![c] = "overload"]
    /\ UNCHANGED <<strategy, head, tail, live, urgent, retrying>>

\* next(): no space; the sequence with a backoff timeout idles in a loop ...
NextWaits(c) ==
    /\ Outside(c)
    /\ ~has_space
    /\ strategy = "Backoff"
    /\ pc' = [pc EXCEPT ![c] = "waiting"]
    /\ UNCHANGED <<strategy, head, tail, live, urgent, retrying>>

\* ... which it leaves when a look after idling finds space
IdleSeesSpace(c) ==
    /\ pc[c] = "waiting"
    /\ IdsLeft
    /\ has_space
    /\ pc' = [pc EXCEPT ![c] = "granted"]
    /\ UNCHANGED <<strategy, head, tail, live, urgent, retrying>>

\* mutant: the deadline of the wait is not looked at
NeverTimesOut(c) == FALSE /\ UNCHANGED vars

\* ... or with hazelcast_overload when the backoff timeout has passed
IdleTimesOut(c) ==
    /\ pc[c] = "waiting"
    /\ pc' = [pc EXCEPT ![c] = "overload"]
    /\ UNCHANGED <<strategy, head, tail, live, urgent, retrying>>

\* the end of next(): force_next(), without another look at the limit
NextTakesSlot(c) ==
    /\ pc[c] = "granted"
    /\ head' = head + 1
    /\ live' = live \cup {head + 1}
    /\ pc' = [pc EXCEPT ![c] = "out"]
    /\ UNCHANGED <<strategy, tail, urgent, retrying>>

\* ClientInvocation::invoke_urgent(): force_next()
InvokeUrgent ==
    /\ IdsLeft
    /\ head' = head + 1
    /\ live' = live \cup {head + 1}
    /\ urgent' = urgent \cup {head + 1}
    /\ UNCHANGED <<strategy, tail, pc, retrying>>

\* ClientInvocation::execute(), first half: the retried invocation forces a
\* new slot before it releases the old one
RetryTakesSlot(id) ==
    /\ id \in live \ retrying
    /\ IdsLeft
    /\ head' = head + 1
    /\ live' = (live \ {id}) \cup {head + 1}
    /\ urgent' = IF id \in urgent THEN (urgent \ {id}) \cup {head + 1} ELSE urgent
    /\ retrying' = retrying \cup {head + 1}
    /\ UNCHANGED <<strategy, tail, pc>>

\* mutant: the old slot of a retried invocation is not given back
ReleaseForgotten(id) ==
    /\ id \in retrying
    /\ retrying' = retrying \ {id}
    /\ UNCHANGED <<strategy, head, tail, pc, live, urgent>>

\* ClientInvocation::execute(), second half: complete() for the old slot
RetryReleasesSlot(id) ==
    /\ id \in retrying
    /\ tail' = tail + 1
    /\ retrying' = retrying \ {id}
    /\ UNCHANGED <<strategy, head, pc, live, urgent>>

\* the continuation of complete_call_id_sequence(): the future is set, the
\* slot goes back
Complete(id) ==
    /\ id \in live \ retrying
    /\ tail' = tail + 1
    /\ live' = live \ {id}
    /\ urgent' = urgent \ {id}
    /\ UNCHANGED <<strategy, head, pc, retrying>>

NextCall(c) ==
    \/ NextSeesSpace(c)
    \/ NextOverload(c)
    \/ NextWaits(c)
    \/ IdleSeesSpace(c)
    \/ IdleTimesOut(c)
    \/ NextTakesSlot(c)

Next ==
    \/ \E c \in Callers : NextCall(c)
    \/ InvokeUrgent
    \/ \E id \in live : RetryTakesSlot(id) \/ RetryReleasesSlot(id) \/ Complete(id)

Spec == Init /\ [][Next]_vars

\* A caller inside next() is running code, not waiting for anyone: it takes steps.
FairSpec == Spec /\ \A c \in Callers : WF_vars(IdleSeesSpace(c) \/ IdleTimesOut(c))

-----------------------------------------------------------------------------
\* Types; the assertion of complete(), tail <= head, included.
TypeOK ==
    /\ strategy \in {"FailFast", "Backoff"}
    /\ head \in Nat
    /\ tail \in 0 .. head
    /\ pc \in [Callers -> {"out", "waiting", "granted", "overload"}]
    /\ strategy = "FailFast" => \A c \in Callers : pc[c] # "waiting"
    /\ live \subseteq 1 .. head
    /\ urgent \subseteq live
    /\ retrying \subseteq live

\* "For each next() and force_next() there is a matching complete()"
\* (CallIdSequence.h): at every moment the slots taken and not given back are
\* one per live invocation and one more for each that is inside execute().
\* A retried invocation is therefore counted throughout its retry.
SlotAccounting == head - tail = Cardinality(live) + Cardinality(retrying)

\* The limit is exceeded only by the racing callers, the urgent invocations and
\* the retries under way: with n callers, next() admits at most n - 1
\* invocations beyond Max ("a few threads that at the same time see that there
\* is space and do a next", AbstractCallIdSequence.h), however calls and
\* completions interleave.
OvershootBounded ==
    head - tail =< Max + Cardinality(Callers) - 1
                       + Cardinality(urgent) + Cardinality(retrying)

\* A caller in the idle loop of handle_no_space_left() leaves it, with a call id
\* or with hazelcast_overload, even if no slot is ever given back.
WaitingEnds == \A c \in Callers : pc[c] = "waiting" ~> pc[c] # "waiting"
=============================================================================
