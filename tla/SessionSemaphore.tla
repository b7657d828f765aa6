-------------------------- MODULE SessionSemaphore --------------------------
(***************************************************************************)
(* The session-aware semaphore proxy (cp.cpp, session_semaphore) on top of *)
(* the session manager.  A session is used once per permit it holds, so    *)
(* that its heartbeats go on until the last permit is released.  The       *)
(* semaphore itself lives in the CP group and is external: a number of     *)
(* available permits and the permits that each session holds, which return *)
(* when the session is closed.                                             *)
(***************************************************************************)
EXTENDS ProxySessionManager

CONSTANTS
    Permits,        \* external: permits of the semaphore at the start
    DRAIN_SESSION_ACQ_COUNT     \* uses taken while the number of permits is unknown

VARIABLES
    available,      \* external: the permits that are free
    owned           \* external: the permits each session holds

vars == <<mgr, call, calls, available, owned>>

Sessions == 1..MaxSession

Init ==
    /\ ManagerInit
    /\ available = Permits
    /\ owned = [s \in Sessions |-> 0]

TypeOK ==
    /\ ManagerTypeOK
    /\ available \in Int
    /\ owned \in [Sessions -> Nat]

group == <<available, owned>>

\* acquire(), try_acquire() and try_acquire_for(): a use per permit;
\* drain_permits() and do_change_permits(): a fixed number of uses
Acquires(t, op, n) ==
    /\ StartCall(t, op, "start", n, NO_SESSION_ID)
    /\ UNCHANGED <<mgr, group>>

Send(t) ==
    /\ call[t].stage = "acquired"
    /\ call' = [call EXCEPT ![t].stage = "sent"]
    /\ UNCHANGED <<mgr, calls, group>>

\* release(): in the current session, or illegal_state if there is none
Release(t, n) ==
    /\ LockFree
    /\ get_session(session) # NO_SESSION_ID
    /\ StartCall(t, "release", "sent", n, get_session(session))
    /\ UNCHANGED <<mgr, group>>

(***************************************************************************)
(* The CP group (external).                                                *)
(***************************************************************************)
Answer(t, a, v) == call' = [call EXCEPT ![t].stage = "answered", ![t].answer = a, ![t].value = v]

Take(t, n) ==
    /\ available' = available - n
    /\ owned' = [owned EXCEPT ![call[t].sid] = @ + n]

Serve(t) ==
    LET op == call[t].op
        n == call[t].n
    IN  /\ call[t].stage = "sent"
        /\ call[t].sid \in open
        /\ \/ op \in {"acquire", "try_acquire"} /\ n <= available /\ Take(t, n) /\ Answer(t, "acquired", n)
           \/ op = "try_acquire" /\ n > available /\ Answer(t, "refused", 0) /\ UNCHANGED group
           \/ op = "acquire" /\ n > available /\ Answer(t, "wait_key_cancelled", 0) /\ UNCHANGED group
           \/ op = "drain" /\ available >= 0 /\ Take(t, available) /\ Answer(t, "drained", available)
           \/ op = "change" /\ available' \in {available - 1, available + 1} /\ Answer(t, "changed", 0) /\ UNCHANGED owned
           \/ op = "release" /\ n <= owned[call[t].sid] /\ Take(t, 0 - n) /\ Answer(t, "released", n)
           \/ op = "release" /\ n > owned[call[t].sid] /\ Answer(t, "error", 0) /\ UNCHANGED group
        /\ UNCHANGED <<mgr, calls>>

ServeExpired(t) ==
    /\ call[t].stage = "sent"
    /\ call[t].sid \notin open
    /\ Answer(t, "session_expired", 0)
    /\ UNCHANGED <<mgr, calls, group>>

\* the invocation fails, before or after the request took effect
LoseAnswer(t) ==
    /\ \/ call[t].stage = "sent"
       \/ call[t].stage = "answered" /\ call[t].answer # "error"
    /\ Answer(t, "error", 0)
    /\ UNCHANGED <<mgr, calls, group>>

ReturnPermits(s) ==
    /\ open' = open \ {s}
    /\ available' = available + owned[s]
    /\ owned' = [owned EXCEPT ![s] = 0]

CloseSession(s) ==
    /\ s \in open
    /\ ReturnPermits(s)
    /\ UNCHANGED <<session, lastId, lastNode, creating, running, late, call, calls>>

(***************************************************************************)
(* The continuations.                                                      *)
(***************************************************************************)
Keep == UNCHANGED <<lastId, lastNode, open, creating, running, late, calls, group>>

\* session_expired: the operation starts over (an acquire with a timeout only
\* while time is left), do_change_permits() and release() throw illegal_state
Expired(t) ==
    /\ session' = invalidate_session(session, call[t].sid)
    /\ \/ /\ call[t].op \in {"acquire", "try_acquire", "drain"}
          /\ call' = [call EXCEPT ![t] = [NoCall EXCEPT !.op = call[t].op, !.stage = "start", !.n = call[t].n]]
       \/ call[t].op \notin {"acquire", "drain"} /\ Finish(t)

\* a refused try_acquire() gives one use back, whatever it asked for
GivenBack(t) ==
    CASE call[t].answer \in {"wait_key_cancelled", "released"} -> call[t].n
      [] call[t].answer = "drained" -> DRAIN_SESSION_ACQ_COUNT - call[t].value
      [] call[t].answer \in {"refused", "changed"} -> 1
      [] OTHER -> 0

\* mutant: all the uses taken are given back, the permits drained included
DrainGivesAllBack(t) ==
    /\ call[t].stage = "answered"
    /\ LockFree
    /\ session' = release_session(session, call[t].sid, call[t].n)
    /\ Finish(t)
    /\ Keep

\* the end of an operation; an exception that no handler catches gives nothing back
Answered(t) ==
    /\ call[t].stage = "answered"
    /\ LockFree
    /\ \/ call[t].answer = "session_expired" /\ Expired(t)
       \/ /\ call[t].answer # "session_expired"
          /\ session' = release_session(session, call[t].sid, GivenBack(t))
          /\ Finish(t)
    /\ Keep

Shutdown ==
    /\ ManagerShutdown
    /\ IF session.id \in open THEN ReturnPermits(session.id) ELSE UNCHANGED <<open, group>>

Next ==
    \/ ManagerStep /\ UNCHANGED group
    \/ \E t \in Threads :
        \/ \E op \in {"acquire", "try_acquire"}, n \in 1..Permits : Acquires(t, op, n)
        \/ \E op \in {"drain", "change"} : Acquires(t, op, DRAIN_SESSION_ACQ_COUNT)
        \/ \E n \in 1..Permits : Release(t, n)
        \/ Send(t) \/ Serve(t) \/ ServeExpired(t) \/ LoseAnswer(t) \/ Answered(t)
    \/ \E s \in Sessions : CloseSession(s)
    \/ Shutdown

Spec == Init /\ [][Next]_vars
-----------------------------------------------------------------------------
\* cp.h: "liveliness of the caller is tracked via this CP session".  As long as
\* the first session was not replaced, it counts at least one use for every
\* permit it holds in the CP group, so its heartbeats cannot stop too early
InUseWhileHeld == session.id = 1 /\ lastId = 1 => session.count >= owned[1]

\* The same for a session that took the place of another one.
InUseInAnySession ==
    session.id # NO_SESSION_ID => session.count >= owned[session.id]
=============================================================================
