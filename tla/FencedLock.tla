----------------------------- MODULE FencedLock -----------------------------
(***************************************************************************)
(* The fenced lock proxy (cp.cpp) on top of the session manager: lock(),   *)
(* try_lock(), unlock() and the ownership queries of the application's     *)
(* threads, with the continuations that handle the CP group's answers.     *)
(* The lock itself lives in the CP group and is external: it belongs to a  *)
(* pair of session and thread, is reentrant up to a limit, and is freed    *)
(* when its session is closed.                                             *)
(*                                                                         *)
(* held and fence are what the answers have told a thread: how many of its *)
(* lock() calls succeeded and were not undone, and with which token.  A    *)
(* call that ends in an exception about the ownership ends that belief.    *)
(***************************************************************************)
EXTENDS ProxySessionManager

CONSTANT LockLimit  \* external: the reentrant lock limit of the CP group

VARIABLES
    lock,           \* external: session, thread and count of the holder, last fence
    locked,         \* locked_session_ids_ (0: the thread has no entry)
    held,           \* history: successful, not undone lock() calls per thread
    fence           \* history: the fence of the last success per thread

vars == <<mgr, call, calls, lock, locked, held, fence>>

INVALID_FENCE == 0

Init ==
    /\ ManagerInit
    /\ lock = [sid |-> NO_SESSION_ID, thread |-> NoThread, count |-> 0, fence |-> INVALID_FENCE]
    /\ locked = [t \in Threads |-> NO_SESSION_ID]
    /\ held = [t \in Threads |-> 0]
    /\ fence = [t \in Threads |-> INVALID_FENCE]

TypeOK ==
    /\ ManagerTypeOK
    /\ lock \in [sid : 0..MaxSession, thread : Threads \cup {NoThread},
                 count : 0..LockLimit, fence : 0..MaxCalls]
    /\ locked \in [Threads -> 0..MaxSession]
    /\ held \in [Threads -> 0..LockLimit]
    /\ fence \in [Threads -> 0..MaxCalls]

local == <<locked, held, fence>>

\* an exception tells the thread that it does not own the lock
Disown(t) ==
    /\ locked' = [locked EXCEPT ![t] = NO_SESSION_ID]
    /\ held' = [held EXCEPT ![t] = 0]
    /\ UNCHANGED fence

OwnedBy(sid, t) == lock.count > 0 /\ lock.sid = sid /\ lock.thread = t

(***************************************************************************)
(* The operations up to the request.                                       *)
(***************************************************************************)

\* lock_and_get_fence() and try_lock_and_get_fence(): acquire_session() first
Lock(t, op) ==
    /\ StartCall(t, op, "start", 1, NO_SESSION_ID)
    /\ UNCHANGED <<mgr, lock, local>>

\* mutant: the session the lock was taken in is not compared
SkipVerify(t) ==
    /\ call[t].stage = "acquired"
    /\ call' = [call EXCEPT ![t].stage = "sent"]
    /\ UNCHANGED <<mgr, calls, lock, local>>

\* verify_locked_session_id_if_present(): a lock held in another session is lost
Verify(t) ==
    /\ call[t].stage = "acquired"
    /\ IF locked[t] \notin {NO_SESSION_ID, call[t].sid}
       THEN /\ LockFree
            /\ session' = release_session(session, call[t].sid, 1)
            /\ Disown(t)
            /\ Finish(t)
            /\ UNCHANGED <<lastId, lastNode, open, creating, running, late, calls, lock>>
       ELSE /\ call' = [call EXCEPT ![t].stage = "sent"]
            /\ UNCHANGED <<mgr, calls, lock, local>>

\* unlock() and the queries look the session up, without acquiring it; they
\* fail when the lock was taken in another one, and (except is_locked(),
\* is_locked_by_current_thread() and get_lock_count()) when there is none
Ask(t, op) ==
    LET sid == get_session(session)
        lost == locked[t] \notin {NO_SESSION_ID, sid}
        none == sid = NO_SESSION_ID /\ op # "is_locked"
    IN  /\ LockFree
        /\ call[t].op = "none"
        /\ IF lost \/ none
           THEN /\ Disown(t)
                /\ calls < MaxCalls
                /\ calls' = calls + 1
                /\ UNCHANGED call
           ELSE /\ StartCall(t, op, "sent", 0, sid)
                /\ UNCHANGED local
        /\ UNCHANGED <<mgr, lock>>

(***************************************************************************)
(* The CP group (external).                                                *)
(***************************************************************************)
Answer(t, a, v) == call' = [call EXCEPT ![t].stage = "answered", ![t].answer = a, ![t].value = v]

\* a request in a session that is not open is refused
ServeExpired(t) ==
    /\ call[t].stage = "sent"
    /\ call[t].sid \notin open
    /\ call[t].op # "is_locked" /\ call[t].op # "get_fence"
    /\ Answer(t, "session_expired", 0)
    /\ UNCHANGED <<mgr, calls, lock, local>>

\* a lock request is granted, refused at the reentrant limit, or waits for the
\* holder (a try_lock request is refused at once)
ServeLock(t) ==
    /\ call[t].stage = "sent"
    /\ call[t].sid \in open
    /\ call[t].op \in {"lock", "try_lock"}
    /\ LET mine == OwnedBy(call[t].sid, t)
           granted == [sid |-> call[t].sid, thread |-> t, count |-> lock.count + 1,
                       fence |-> IF mine THEN lock.fence ELSE lock.fence + 1]
       IN  \/ /\ mine \/ lock.count = 0
              /\ lock.count < LockLimit
              /\ granted.fence <= MaxCalls
              /\ lock' = granted
              /\ Answer(t, "granted", granted.fence)
           \/ /\ (mine /\ lock.count = LockLimit) \/ (~mine /\ lock.count > 0 /\ call[t].op = "try_lock")
              /\ Answer(t, "refused", INVALID_FENCE)
              /\ UNCHANGED lock
           \/ /\ ~mine /\ lock.count > 0
              /\ Answer(t, "wait_key_cancelled", 0)
              /\ UNCHANGED lock
    /\ UNCHANGED <<mgr, calls, local>>

ServeUnlock(t) ==
    /\ call[t].stage = "sent"
    /\ call[t].sid \in open
    /\ call[t].op = "unlock"
    /\ \/ /\ OwnedBy(call[t].sid, t)
          /\ lock' = [lock EXCEPT !.count = @ - 1]
          /\ Answer(t, IF lock.count > 1 THEN "still_locked" ELSE "unlocked", 0)
       \/ /\ ~OwnedBy(call[t].sid, t)
          /\ Answer(t, "illegal_monitor_state", 0)
          /\ UNCHANGED lock
    /\ UNCHANGED <<mgr, calls, local>>

\* do_get_lock_ownership_state(): who owns the lock, and its fence
ServeQuery(t) ==
    /\ call[t].stage = "sent"
    /\ call[t].op \in {"is_locked", "get_fence"}
    /\ IF OwnedBy(call[t].sid, t) THEN Answer(t, "owner", lock.fence)
                                  ELSE Answer(t, "not_owner", INVALID_FENCE)
    /\ UNCHANGED <<mgr, calls, lock, local>>

\* the invocation fails, before or after the request took effect
LoseAnswer(t) ==
    /\ \/ call[t].stage = "sent"
       \/ call[t].stage = "answered" /\ call[t].answer # "error"
    /\ Answer(t, "error", 0)
    /\ UNCHANGED <<mgr, calls, lock, local>>

FreeSession(s) ==
    /\ open' = open \ {s}
    /\ lock' = IF lock.sid = s THEN [lock EXCEPT !.count = 0] ELSE lock

\* the CP group closes a session that it heard no heartbeat of (a session may
\* be closed whatever the client does: the process may have been paused)
CloseSession(s) ==
    /\ s \in open
    /\ FreeSession(s)
    /\ UNCHANGED <<session, lastId, lastNode, creating, running, late, call, calls, local>>

(***************************************************************************)
(* The continuations.                                                      *)
(***************************************************************************)
Keep == UNCHANGED <<lastId, lastNode, open, creating, running, late, calls, lock>>

Granted(t) ==
    /\ locked' = [locked EXCEPT ![t] = call[t].sid]
    /\ held' = [held EXCEPT ![t] = IF @ < LockLimit THEN @ + 1 ELSE @]
    /\ fence' = [fence EXCEPT ![t] = call[t].value]

\* after session_expired: invalidate_session() and
\* verify_no_locked_session_id_present(); lock() tries once more, and then
\* loops on a result that no longer changes
Expired(t) ==
    /\ session' = invalidate_session(session, call[t].sid)
    /\ IF locked[t] # NO_SESSION_ID
       THEN Disown(t) /\ Finish(t)
       ELSE /\ UNCHANGED local
            /\ IF call[t].op = "lock"
               THEN call' = [call EXCEPT ![t] = IF @.again
                                THEN [NoCall EXCEPT !.op = "lock", !.stage = "spinning"]
                                ELSE [NoCall EXCEPT !.op = "lock", !.stage = "start", !.n = 1,
                                                    !.again = TRUE]]
               ELSE Finish(t)

\* the end of lock_and_get_fence() and try_lock_and_get_fence()
LockAnswered(t) ==
    /\ call[t].stage = "answered"
    /\ call[t].op \in {"lock", "try_lock"}
    /\ call[t].answer # "granted" => LockFree
    /\ CASE call[t].answer = "granted" -> Granted(t) /\ Finish(t) /\ UNCHANGED session
         [] call[t].answer = "session_expired" -> Expired(t)
         [] OTHER -> /\ session' = release_session(session, call[t].sid, 1)
                     /\ Finish(t)
                     /\ UNCHANGED local
    /\ Keep

\* the end of unlock(); after any other exception the thread knows nothing
UnlockAnswered(t) ==
    /\ call[t].stage = "answered"
    /\ call[t].op = "unlock"
    /\ call[t].answer \in {"still_locked", "unlocked", "session_expired"} => LockFree
    /\ CASE call[t].answer \in {"still_locked", "unlocked"} ->
                /\ locked' = [locked EXCEPT ![t] =
                        IF call[t].answer = "still_locked" THEN call[t].sid ELSE NO_SESSION_ID]
                /\ held' = [held EXCEPT ![t] = IF @ > 0 THEN @ - 1 ELSE 0]
                /\ session' = release_session(session, call[t].sid, 1)
                /\ UNCHANGED fence
         [] call[t].answer = "session_expired" ->
                session' = invalidate_session(session, call[t].sid) /\ Disown(t)
         [] call[t].answer = "illegal_monitor_state" -> Disown(t) /\ UNCHANGED session
         [] OTHER -> /\ held' = [held EXCEPT ![t] = 0]
                     /\ UNCHANGED <<session, locked, fence>>
    /\ Finish(t)
    /\ Keep

\* the end of get_fence() and the other queries
QueryAnswered(t) ==
    /\ call[t].stage = "answered"
    /\ call[t].op \in {"is_locked", "get_fence"}
    /\ CASE call[t].answer = "owner" ->
                locked' = [locked EXCEPT ![t] = call[t].sid] /\ UNCHANGED <<held, fence>>
         [] call[t].answer = "not_owner" -> Disown(t)
         [] OTHER -> UNCHANGED local
    /\ Finish(t)
    /\ UNCHANGED session
    /\ Keep

Shutdown ==
    /\ ManagerShutdown
    /\ IF session.id \in open THEN FreeSession(session.id) ELSE UNCHANGED <<open, lock>>
    /\ UNCHANGED local

Served(t) == ServeExpired(t) \/ ServeLock(t) \/ ServeUnlock(t) \/ ServeQuery(t)

Answered(t) == LockAnswered(t) \/ UnlockAnswered(t) \/ QueryAnswered(t)

Next ==
    \/ ManagerStep /\ UNCHANGED <<lock, local>>
    \/ \E t \in Threads :
        \/ \E op \in {"lock", "try_lock"} : Lock(t, op)
        \/ \E op \in {"unlock", "get_fence", "is_locked"} : Ask(t, op)
        \/ Verify(t) \/ Served(t) \/ LoseAnswer(t) \/ Answered(t)
    \/ \E s \in 1..MaxSession : CloseSession(s)
    \/ Shutdown

Spec == Init /\ [][Next]_vars
-----------------------------------------------------------------------------
\* cp.h, lock_and_get_fence(): "If the lock is acquired reentrantly, the same
\* fencing token is returned".  A thread that was never told that it lost the
\* lock gets the token it has: loss of the session in between is reported
SameFence ==
    [][\A t \in Threads : held[t] > 0 /\ held'[t] > held[t] => fence'[t] = fence[t]]_vars

\* cp_impl.h, invalidate_session(): "Invalidates the given session."  A session
\* in which a thread holds the lock stays in use, unless the CP group closed it
HoldKeepsSession ==
    \A t \in Threads :
        held[t] > 0 /\ running /\ locked[t] \in open /\ call[t].op = "none" =>
            session.id = locked[t] /\ is_in_use(session)
=============================================================================
