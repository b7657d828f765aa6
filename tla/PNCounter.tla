----------------------------- MODULE PNCounter -----------------------------
(***************************************************************************)
(* The PN counter proxy (PNCounterImpl in proxy.cpp, vector_clock in       *)
(* cluster.cpp): calls are sent to one replica, which serves them when its *)
(* state covers the clock the proxy observed, and are sent to another      *)
(* replica when they fail. The replicas are external.                      *)
(***************************************************************************)
EXTENDS Naturals, FiniteSets

CONSTANTS Callers,    \* calls under way at once, of one thread or of several
          Replicas,   \* data members among the first replica_count of the list
          MaxAdds,    \* bound: updates of one replica
          MaxFaults,  \* bound: lost requests, lost answers and crashes
          MaxCalls    \* bound: calls

VARIABLES
    state,    \* the vector clock of each replica: updates it has seen
    up,       \* replicas that are in the member list and answer
    target,   \* current_target_replica_address_
    observed, \* observed_clock_
    c,        \* how far each call is
    received, \* history: the clocks of the answers since the last reset
    calls, faults

vars == <<state, up, target, observed, c, received, calls, faults>>

NoReplica == "NoReplica"
Clocks == [Replicas -> 0..MaxAdds]
NewClock == [r \in Replicas |-> 0]      \* 0: the clock has no such entry
Join(v, w) == [r \in Replicas |-> IF v[r] > w[r] THEN v[r] ELSE w[r]]
Covers(v, w) == \A r \in Replicas : v[r] >= w[r]
Entries(v) == {r \in Replicas : v[r] > 0}
Idle == [pc |-> "idle"]

Init ==
    /\ state = [r \in Replicas |-> NewClock] /\ up = Replicas
    /\ target = NoReplica
    /\ observed = NewClock /\ received = {}
    /\ c = [i \in Callers |-> Idle]
    /\ calls = 0 /\ faults = 0

At(i, pc) == c[i].pc = pc
Become(i, call) == c' = [c EXCEPT ![i] = call]

-----------------------------------------------------------------------------
(* The replicas                                                            *)

Replicate(r, s) ==
    /\ {r, s} \subseteq up /\ state[s] # Join(state[r], state[s])
    /\ state' = [state EXCEPT ![s] = Join(state[r], state[s])]
    /\ UNCHANGED <<up, target, observed, c, received, calls, faults>>

Crash(r) ==
    /\ r \in up /\ faults < MaxFaults
    /\ up' = up \ {r} /\ faults' = faults + 1
    /\ UNCHANGED <<state, target, observed, c, received, calls>>

\* The replica refuses with consistency_lost when it is behind the clock.
Serve(i) ==
    LET r == c[i].target IN
    /\ At(i, "sent") /\ r \in up
    /\ IF Covers(state[r], c[i].clock)
       THEN \E add \in {0, 1} :
                  /\ state[r][r] + add <= MaxAdds
                  /\ state' = [state EXCEPT ![r][r] = @ + add]
                  /\ Become(i, [pc |-> "answered", target |-> r, clock |-> state'[r]])
       ELSE Become(i, [pc |-> "failed", target |-> r]) /\ UNCHANGED state
    /\ UNCHANGED <<up, target, observed, received, calls, faults>>

\* The request or its answer is lost, before or after it was served.
Lost(i) ==
    /\ c[i].pc \in {"sent", "answered"} /\ faults < MaxFaults
    /\ faults' = faults + 1
    /\ Become(i, [pc |-> "failed", target |-> c[i].target])
    /\ UNCHANGED <<state, up, target, observed, received, calls>>

\* The target of the request has left.
Unreachable(i) ==
    /\ At(i, "sent") /\ c[i].target \notin up
    /\ Become(i, [pc |-> "failed", target |-> c[i].target])
    /\ UNCHANGED <<state, up, target, observed, received, calls, faults>>

-----------------------------------------------------------------------------
(* The proxy                                                               *)

\* get_replica_addresses and choose_target_replica
ChooseTargetReplica(excluded) ==
    IF up \subseteq excluded THEN {NoReplica} ELSE up \ excluded

\* The target in use does not serve.
Needed(excluded) == target = NoReplica \/ target \in excluded

\* get_crdt_operation_target: the target in use if it serves.
get_crdt_operation_target(i, excluded) ==
    /\ Become(i, IF Needed(excluded) THEN [pc |-> "choosing", excluded |-> excluded]
                 ELSE [pc |-> "chosen", target |-> target])
    /\ UNCHANGED target

\* Otherwise a new one is chosen under target_selection_mutex_, unless another
\* call has done so.
SelectTarget(i) ==
    /\ At(i, "choosing")
    /\ IF Needed(c[i].excluded) THEN target' \in ChooseTargetReplica(c[i].excluded)
       ELSE UNCHANGED target
    /\ Become(i, [pc |-> "selected"])
    /\ UNCHANGED <<state, up, observed, received, calls, faults>>

\* What is returned is read again after the mutex is released.
ReturnTarget(i) ==
    /\ At(i, "selected")
    /\ Become(i, [pc |-> "chosen", target |-> target])
    /\ UNCHANGED <<state, up, target, observed, received, calls, faults>>

Call(i) ==
    /\ At(i, "idle") /\ calls < MaxCalls
    /\ calls' = calls + 1
    /\ get_crdt_operation_target(i, {})
    /\ UNCHANGED <<state, up, observed, received, faults>>

\* mutant: the target is not looked at
InvokeAnyTarget(i) ==
    /\ At(i, "chosen")
    /\ Become(i, [pc |-> "sent", target |-> c[i].target, clock |-> observed])
    /\ UNCHANGED <<state, up, target, observed, received, calls, faults>>

\* Without a target the call ends: no_data_member_in_cluster, or the last
\* exception. Otherwise the request carries the observed clock.
Invoke(i) ==
    /\ At(i, "chosen")
    /\ Become(i, IF c[i].target = NoReplica THEN Idle
                 ELSE [pc |-> "sent", target |-> c[i].target, clock |-> observed])
    /\ UNCHANGED <<state, up, target, observed, received, calls, faults>>

\* try_choose_a_new_target: the set it fills is its own, so every attempt
\* excludes the replica of the last one only.
TryChooseANewTarget(i) ==
    /\ At(i, "failed")
    /\ get_crdt_operation_target(i, {c[i].target})
    /\ UNCHANGED <<state, up, observed, received, calls, faults>>

\* vector_clock::is_after
is_after(v, w) ==
    /\ \A r \in Entries(w) : v[r] >= w[r]
    /\ \/ \E r \in Entries(w) : v[r] > w[r]
       \/ Cardinality(Entries(w)) < Cardinality(Entries(v))

\* The update is over, and the call returns the value.
Updated(i) ==
    /\ received' = received \cup {c[i].clock}
    /\ Become(i, Idle)

\* get_and_update_timestamps, update_observed_replica_timestamps: a turn of the
\* loop loads the clock and compares.
update_observed_replica_timestamps(i) ==
    /\ c[i].pc \in {"answered", "again"}
    /\ IF is_after(observed, c[i].clock)
       THEN Updated(i)
       ELSE /\ Become(i, [pc |-> "compared", clock |-> c[i].clock,
                          current |-> observed])
            /\ UNCHANGED received
    /\ UNCHANGED <<state, up, target, observed, calls, faults>>

\* mutant: the answer is stored whatever has been stored since it was compared
SetCompared(i) ==
    /\ At(i, "compared")
    /\ observed' = c[i].clock /\ Updated(i)
    /\ UNCHANGED <<state, up, target, calls, faults>>

\* observed_clock_.compare_and_set; when it fails the loop takes another turn.
\* It compares pointers: an equal clock at another address costs one turn more.
CompareAndSet(i) ==
    /\ At(i, "compared")
    /\ IF observed = c[i].current
       THEN observed' = c[i].clock /\ Updated(i)
       ELSE /\ Become(i, [pc |-> "again", clock |-> c[i].clock])
            /\ UNCHANGED <<observed, received>>
    /\ UNCHANGED <<state, up, target, calls, faults>>

Reset(i) ==
    /\ At(i, "idle")
    /\ observed' = NewClock /\ received' = {}
    /\ UNCHANGED <<state, up, target, c, calls, faults>>

-----------------------------------------------------------------------------
Step(i) ==
    \/ Serve(i) \/ Unreachable(i)
    \/ SelectTarget(i) \/ ReturnTarget(i) \/ Invoke(i) \/ TryChooseANewTarget(i)
    \/ update_observed_replica_timestamps(i) \/ CompareAndSet(i)

Next ==
    \/ \E r, s \in Replicas : Replicate(r, s)
    \/ \E r \in Replicas : Crash(r)
    \/ \E i \in Callers : Call(i) \/ Lost(i) \/ Step(i) \/ Reset(i)

Spec == Init /\ [][Next]_vars

\* Threads run; every request is answered or fails.
FairSpec == Spec /\ \A i \in Callers : WF_vars(Step(i))

-----------------------------------------------------------------------------
TypeOK ==
    /\ state \in [Replicas -> Clocks] /\ up \subseteq Replicas
    /\ target \in Replicas \cup {NoReplica}
    /\ \A i \in Callers :
          /\ c[i].pc = "choosing" => c[i].excluded \subseteq Replicas
          /\ c[i].pc = "chosen" => c[i].target \in Replicas \cup {NoReplica}
          /\ c[i].pc \in {"sent", "answered", "failed"} => c[i].target \in Replicas
    /\ observed \in Clocks /\ received \subseteq Clocks
    /\ calls \in 0..MaxCalls /\ faults \in 0..MaxFaults

\* "The read and write methods provide monotonic read and RYW (read-your-write)
\* guarantees" (pn_counter.h:48): the clock the next request carries covers
\* every state the proxy was shown since the last reset, whatever replicas
\* answered.
SessionGuarantee == \A w \in received : Covers(observed, w)

\* The session guarantee holds as long as no two of the answers are concurrent:
\* then neither an older answer that is applied after a newer one, nor two
\* callers in update_observed_replica_timestamps at once, nor a reset between
\* the comparison and the compare_and_set, takes the observed clock back.
SessionKept ==
    (\A v, w \in received : Covers(v, w) \/ Covers(w, v)) => SessionGuarantee

\* "It will invoke client messages recursively on viable replica addresses
\* until successful or the list of viable replicas is exhausted."
CallEnds == \A i \in Callers : ~At(i, "idle") ~> At(i, "idle")
=============================================================================
