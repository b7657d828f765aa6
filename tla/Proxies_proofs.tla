--------------------------- MODULE Proxies_proofs ---------------------------
(***************************************************************************)
(* The fenced lock, for any threads, sessions and reentrancy limit, and    *)
(* the near cache, for any threads, keys and slots.                        *)
(* SameFence speaks of the fence that the CP group puts into an answer.    *)
(* The invariant Sound of a thread ties what the thread counts to what the *)
(* group has: Holding while it holds the lock, LockGranted and Unlocking   *)
(* while an answer that the thread has not looked at yet has changed the   *)
(* lock. StaleIsDoomed speaks of what is going to remove a record.  The    *)
(* invariant names it: a record that is behind the cluster has an          *)
(* invalidation event coming or a thread that removes it (CacheLeaving),   *)
(* or has strayed, and a value about to be put under its own mark is fresh *)
(* or has one coming (CacheFresh).                                         *)
(***************************************************************************)
EXTENDS FencedLock, Sequences, TLAPS

\* The operations of a thread and how far they can be.
Stages == {"idle", "start", "creating", "assigned", "ref", "acquired", "sent", "answered",
           "spinning"}

\* The answers of the group, an exception included.
Answers == {"none", "granted", "refused", "wait_key_cancelled", "session_expired", "still_locked",
            "unlocked", "illegal_monitor_state", "owner", "not_owner", "error"}

\* A call under way.
CallTypes ==
    [op : {"none", "lock", "try_lock", "unlock", "get_fence", "is_locked"}, stage : Stages,
     n : Nat, node : Nat, sid : Nat, again : BOOLEAN, answer : Answers, value : Nat]

\* The types of the state: sessions are known by the numbers the cluster gave them.
Types ==
    /\ lastId \in Nat /\ lastNode \in Nat
    /\ session \in [id : 0..lastId, count : Int, stale : BOOLEAN, node : Nat]
    /\ open \subseteq 1..lastId
    /\ lock \in [sid : Nat, thread : Threads \cup {NoThread}, count : Nat, fence : Nat]
    /\ locked \in [Threads -> 0..lastId]
    /\ held \in [Threads -> Nat]
    /\ fence \in [Threads -> Nat]
    /\ call \in [Threads -> CallTypes]
    /\ \A t \in Threads : call[t].sid \in 0..lastId /\ (call[t].op = "none" => call[t].stage = "idle")

\* The group has recorded thread t as the owner in session s, with fence f, at
\* least n times.
Owns(t, s, f, n) == OwnedBy(s, t) /\ lock.fence = f /\ lock.count >= n

\* The unlock() of thread t has been answered.
UnlockDone(t) == call[t].op = "unlock" /\ call[t].stage = "answered"

\* What a thread that holds the lock may rely on.
Holding(t) ==
    held[t] > 0 =>
        /\ locked[t] # NO_SESSION_ID
        /\ call[t].stage \in {"sent", "answered"} => call[t].sid = locked[t]
        /\ locked[t] \in open /\ ~UnlockDone(t) => Owns(t, locked[t], fence[t], held[t])

\* The answer to a lock request: the fence is the one the thread has.
LockGranted(t) ==
    call[t].op \in {"lock", "try_lock"} /\ call[t].stage = "answered" /\ call[t].answer = "granted" =>
        /\ call[t].sid # NO_SESSION_ID
        /\ held[t] > 0 => call[t].value = fence[t]
        /\ call[t].sid \in open => Owns(t, call[t].sid, call[t].value, held[t] + 1)

\* The answer to an unlock request.
Unlocking(t) ==
    UnlockDone(t) /\ held[t] > 0 =>
        /\ call[t].answer = "unlocked" => held[t] = 1
        /\ call[t].answer = "still_locked" /\ locked[t] \in open =>
              Owns(t, locked[t], fence[t], held[t] - 1)

\* All that is said of a thread.
Sound(t) == Holding(t) /\ LockGranted(t) /\ Unlocking(t)

\* The inductive invariant.
IInv == Types /\ \A t \in Threads : Sound(t)

-----------------------------------------------------------------------------
\* What the step of another thread, of the cluster or of the heartbeat task must
\* leave alone for thread u: its call, its entry of locked_session_ids_, and, if
\* the group has it as the owner in a session that stays open, the lock.
Spared(u) ==
    /\ call'[u] = call[u] /\ locked'[u] = locked[u] /\ held'[u] = held[u] /\ fence'[u] = fence[u]
    /\ \A s \in open' : s \in 0..lastId =>
          s \in open /\ (OwnedBy(s, u) => lock' = lock)

\* Then what is said of the thread stays true.
LEMMA SparedIsSound ==
    ASSUME Types, NEW u \in Threads, Sound(u), Spared(u)
    PROVE  Sound(u)'
<1>1. locked[u] \in 0..lastId /\ call[u].sid \in 0..lastId
    BY DEF Types
<1>2. UnlockDone(u)' = UnlockDone(u)
    BY DEF UnlockDone, Spared
<1>3. ASSUME NEW s \in open', s \in 0..lastId, NEW f, NEW n, Owns(u, s, f, n)
      PROVE  OwnedBy(s, u)' /\ lock'.fence = f /\ lock'.count >= n
    BY <1>3 DEF Owns, OwnedBy, Spared
<1>4. Holding(u)'
    BY <1>1, <1>2, <1>3 DEF Holding, Sound, Spared, Owns
<1>5. LockGranted(u)'
    BY <1>1, <1>3 DEF LockGranted, Sound, Spared, Owns
<1>6. Unlocking(u)'
    BY <1>1, <1>2, <1>3 DEF Unlocking, Sound, Spared, Owns
<1>7. QED
    BY <1>4, <1>5, <1>6 DEF Sound

\* Steps of a thread outside of its request: what it holds stays.
LEMMA EarlyIsSound ==
    ASSUME Types, NEW t \in Threads, Sound(t),
           UNCHANGED <<lock, locked, held, fence>>,
           \A s \in open' : s \in 0..lastId => s \in open,
           call[t].stage # "answered", call'[t].stage \notin {"sent", "answered"}
    PROVE  Sound(t)'
<1>1. locked[t] \in 0..lastId
    BY DEF Types
<1>2. ~UnlockDone(t) /\ ~UnlockDone(t)'
    BY DEF UnlockDone
<1>3. Holding(t)'
    BY <1>1, <1>2 DEF Holding, Sound, Owns, OwnedBy
<1>4. LockGranted(t)' /\ Unlocking(t)'
    BY <1>2 DEF LockGranted, Unlocking
<1>5. QED
    BY <1>3, <1>4 DEF Sound

\* No call is a call, in no session.
LEMMA NoCallTyped == NoCall \in CallTypes /\ NoCall.sid = 0 /\ NoCall.stage = "idle" /\ NoCall.op = "none"
BY DEF NoCall, CallTypes, Stages, Answers

\* A call stays a call.
LEMMA CallsTyped ==
    ASSUME Types, NEW t \in Threads, NEW x \in CallTypes, x.sid \in 0..lastId', lastId' >= lastId,
           x.op # "none" \/ x.stage = "idle", lastId' \in Nat, call' = [call EXCEPT ![t] = x]
    PROVE  /\ call' \in [Threads -> CallTypes]
           /\ \A u \in Threads : call'[u].sid \in 0..lastId' /\ (call'[u].op = "none" => call'[u].stage = "idle")
<1>1. \A u \in Threads : call[u].sid \in 0..lastId
    BY DEF Types
<1>2. \A u \in Threads : call'[u] = IF u = t THEN x ELSE call[u]
    BY DEF Types
<1>3. call' \in [Threads -> CallTypes]
    BY DEF Types
<1>4. \A u \in Threads : call'[u].sid \in 0..lastId' /\ (call'[u].op = "none" => call'[u].stage = "idle")
    BY <1>1, <1>2 DEF Types
<1>5. QED
    BY <1>3, <1>4

\* A step of thread t keeps the invariant if it spares the other threads.
LEMMA StepOfThread ==
    ASSUME IInv, NEW t \in Threads, Types', Sound(t)', \A u \in Threads \ {t} : Spared(u)
    PROVE  IInv'
BY SparedIsSound DEF IInv

\* Before its request, a thread changes the session table and its call only.
LEMMA EarlyStep ==
    ASSUME IInv, NEW t \in Threads, Types', UNCHANGED <<lock, local>>,
           \A s \in open' : s \in 0..lastId => s \in open,
           call[t].stage # "answered",
           NEW x, x.stage \notin {"sent", "answered"}, call' = [call EXCEPT ![t] = x]
    PROVE  IInv'
<1>1. \A u \in Threads : call'[u] = IF u = t THEN x ELSE call[u]
    BY DEF IInv, Types
<1>2. Sound(t)'
    BY <1>1, EarlyIsSound DEF IInv, local
<1>3. \A u \in Threads \ {t} : Spared(u)
    BY <1>1 DEF Spared, local
<1>4. QED
    BY <1>2, <1>3, StepOfThread

\* acquire_session(): get_or_create_session() and acquire() do not touch what a
\* thread knows of its lock; a new session has a number no thread knows.
LEMMA AcquireSessionOk ==
    ASSUME IInv, NEW t \in Threads, AcquireSession(t), UNCHANGED <<lock, local>>
    PROVE  IInv'
<1> USE DEF IInv
<1>0. call[t].op # "none"
    BY DEF Types, AcquireSession, RefuseSession, FindSession, AskForSession, NewSession, AssignSession,
           AssignCount, CreateFails, Acquire
<1>01. PICK c \in CallTypes : c = call[t]
    BY DEF Types
<1>02. PICK nd \in Nat : nd = session.node
    BY DEF Types
<1>1. CASE RefuseSession(t)
    <2>1. NoCall \in CallTypes /\ NoCall.sid = 0 /\ NoCall.stage = "idle"
        BY NoCallTyped
    <2>2. call' = [call EXCEPT ![t] = NoCall]
        BY <1>1 DEF RefuseSession, Finish
    <2>3. Types'
        BY <1>1, <2>1, <2>2, CallsTyped DEF RefuseSession, mgr, Types, local
    <2>4. QED
        BY <1>1, <2>1, <2>2, <2>3, EarlyStep, Zenon DEF RefuseSession, mgr
<1>2. CASE FindSession(t)
    <2>x. PICK x : x = [c EXCEPT !.stage = "ref", !.node = nd]
        BY Zenon
    <2>1. x \in CallTypes /\ x.sid = call[t].sid /\ x.stage = "ref" /\ x.op # "none"
        BY <1>0, <1>01, <2>x, Zenon DEF CallTypes, Stages
    <2>2. call' = [call EXCEPT ![t] = x]
        BY <1>2, <1>01, <1>02, <2>x, Zenon DEF FindSession, Types
    <2>3. Types'
        BY <1>2, <2>1, <2>2, CallsTyped DEF FindSession, mgr, Types, local
    <2>4. QED
        BY <1>2, <2>1, <2>2, <2>3, EarlyStep, Zenon DEF FindSession, mgr
<1>3. CASE AskForSession(t)
    <2>x. PICK x : x = [c EXCEPT !.stage = "creating"]
        BY Zenon
    <2>1. x \in CallTypes /\ x.sid = call[t].sid /\ x.stage = "creating" /\ x.op # "none"
        BY <1>0, <1>01, <2>x, Zenon DEF CallTypes, Stages
    <2>2. call' = [call EXCEPT ![t] = x]
        BY <1>3, <1>01, <1>02, <2>x, Zenon DEF AskForSession, Types
    <2>3. Types'
        BY <1>3, <2>1, <2>2, CallsTyped DEF AskForSession, Types, local
    <2>4. QED
        BY <1>3, <2>1, <2>2, <2>3, EarlyStep, Zenon DEF AskForSession
<1>4. CASE NewSession(t)
    <2>1. lastId' = lastId + 1 /\ lastNode' \in Nat /\ lastId' \in Nat
        BY <1>4 DEF NewSession, Types
    <2>n. PICK ln \in Nat : ln = lastNode'
        BY <2>1
    <2>x. PICK x : x = [c EXCEPT !.stage = "ref", !.node = ln]
        BY Zenon
    <2>2. x \in CallTypes /\ x.sid = call[t].sid /\ x.stage = "ref" /\ x.op # "none"
        BY <1>0, <1>01, <2>x, <2>1, Zenon DEF CallTypes, Stages
    <2>3. call' = [call EXCEPT ![t] = x]
        BY <1>4, <1>01, <2>n, <2>x, Zenon DEF NewSession, Types
    <2>4. Types'
        BY <1>4, <2>1, <2>2, <2>3, CallsTyped DEF NewSession, Types, local
    <2>5. \A s \in open' : s \in 0..lastId => s \in open
        BY <1>4, <2>1 DEF NewSession, Types
    <2>6. QED
        BY <1>4, <2>2, <2>3, <2>4, <2>5, EarlyStep, Zenon DEF NewSession
<1>5. CASE AssignSession(t)
    <2>x. PICK x : x = [c EXCEPT !.stage = "assigned"]
        BY Zenon
    <2>1. lastId' = lastId + 1 /\ lastId' \in Nat
        BY <1>5 DEF AssignSession, Types
    <2>2. x \in CallTypes /\ x.sid = call[t].sid /\ x.stage = "assigned" /\ x.op # "none"
        BY <1>0, <1>01, <2>x, Zenon DEF CallTypes, Stages
    <2>3. call' = [call EXCEPT ![t] = x]
        BY <1>5, <1>01, <1>02, <2>x, Zenon DEF AssignSession, Types
    <2>0. session' \in [id : 0..lastId', count : Int, stale : BOOLEAN, node : Nat]
        <3>1. session' = [id |-> lastId', count |-> session.count, stale |-> FALSE, node |-> session.node]
            BY <1>5, Zenon DEF AssignSession, Types
        <3>2. lastId' \in 0..lastId' /\ session.count \in Int /\ session.node \in Nat
            BY <2>1 DEF Types
        <3>3. QED
            BY <3>1, <3>2
    <2>4. Types'
        BY <1>5, <2>0, <2>1, <2>2, <2>3, CallsTyped DEF AssignSession, Types, local
    <2>5. \A s \in open' : s \in 0..lastId => s \in open
        BY <1>5, <2>1 DEF AssignSession, Types
    <2>6. QED
        BY <1>5, <2>2, <2>3, <2>4, <2>5, EarlyStep, Zenon DEF AssignSession
<1>6. CASE AssignCount(t)
    <2>x. PICK x : x = [c EXCEPT !.stage = "ref", !.node = nd]
        BY Zenon
    <2>1. x \in CallTypes /\ x.sid = call[t].sid /\ x.stage = "ref" /\ x.op # "none"
        BY <1>0, <1>01, <2>x, Zenon DEF CallTypes, Stages
    <2>2. call' = [call EXCEPT ![t] = x]
        BY <1>6, <1>01, <1>02, <2>x, Zenon DEF AssignCount, Types
    <2>3. Types'
        BY <1>6, <2>1, <2>2, CallsTyped DEF AssignCount, Types, local
    <2>4. QED
        BY <1>6, <2>1, <2>2, <2>3, EarlyStep, Zenon DEF AssignCount
<1>7. CASE CreateFails(t)
    <2>1. NoCall \in CallTypes /\ NoCall.sid = 0 /\ NoCall.stage = "idle"
        BY NoCallTyped
    <2>2. call' = [call EXCEPT ![t] = NoCall]
        BY <1>7 DEF CreateFails, Finish
    <2>3. Types'
        BY <1>7, <2>1, <2>2, CallsTyped DEF CreateFails, Types, local
    <2>4. QED
        BY <1>7, <2>1, <2>2, <2>3, EarlyStep, Zenon DEF CreateFails
<1>8. CASE Acquire(t)
    <2>1. PICK sid \in 0..lastId : call' = [call EXCEPT ![t].stage = "acquired", ![t].sid = sid]
        BY <1>8 DEF Acquire, Types
    <2>x. PICK x : x = [c EXCEPT !.stage = "acquired", !.sid = sid]
        BY Zenon
    <2>2. sid \in Nat
        BY DEF Types
    <2>3. x \in CallTypes /\ x.sid = sid /\ x.stage = "acquired" /\ x.op # "none"
        BY <1>0, <1>01, <2>x, <2>2, Zenon DEF CallTypes, Stages
    <2>4. call' = [call EXCEPT ![t] = x]
        BY <2>1, <1>01, <1>02, <2>x, Zenon DEF Types
    <2>5. session' \in [id : 0..lastId, count : Int, stale : BOOLEAN, node : Nat]
        BY <1>8 DEF Acquire, Types, CallTypes
    <2>6. Types'
        BY <1>8, <2>3, <2>4, <2>5, CallsTyped, Zenon DEF Acquire, Types, local
    <2>7. QED
        BY <1>8, <2>3, <2>4, <2>6, EarlyStep, Zenon DEF Acquire
<1>9. QED
    BY <1>1, <1>2, <1>3, <1>4, <1>5, <1>6, <1>7, <1>8 DEF AcquireSession

\* The heartbeat task, its answers and the passing of time change the session
\* table only.
LEMMA HeartbeatOk ==
    ASSUME IInv, HeartbeatFails \/ (\E s \in 1..MaxSession : HeartbeatAnswered(s)) \/ SessionAges,
           UNCHANGED <<lock, local>>
    PROVE  IInv'
<1>1. session' \in [id : 0..lastId, count : Int, stale : BOOLEAN, node : Nat]
    <2>1. NoSession \in [id : 0..lastId, count : Int, stale : BOOLEAN, node : Nat]
        BY DEF NoSession, NO_SESSION_ID, IInv, Types
    <2>2. ASSUME SessionAges
          PROVE  session' \in [id : 0..lastId, count : Int, stale : BOOLEAN, node : Nat]
        <3>1. session' = [id |-> session.id, count |-> session.count, stale |-> TRUE, node |-> session.node]
            BY <2>2, Zenon DEF SessionAges, IInv, Types
        <3>2. session.id \in 0..lastId /\ session.count \in Int /\ session.node \in Nat
            BY DEF IInv, Types
        <3>3. QED
            BY <3>1, <3>2
    <2>3. QED
        BY <2>1, <2>2 DEF HeartbeatFails, HeartbeatAnswered, invalidate_session, IInv, Types
<1>2. UNCHANGED <<lastId, lastNode, open, call>>
    BY DEF HeartbeatFails, HeartbeatAnswered, SessionAges
<1>3. Types'
    BY <1>1, <1>2 DEF IInv, Types, local
<1>4. \A u \in Threads : Spared(u)
    BY <1>2 DEF Spared, local
<1>5. QED
    BY <1>3, <1>4, SparedIsSound DEF IInv

\* The step is one of thread t between the start of a call and its end.
Within(t, x) ==
    /\ x \in CallTypes /\ x.sid \in 0..lastId /\ (x.op # "none" \/ x.stage = "idle")
    /\ call' = [call EXCEPT ![t] = x]
    /\ UNCHANGED <<lastId, lastNode, open>>
    /\ session' \in [id : 0..lastId, count : Int, stale : BOOLEAN, node : Nat]

\* Then the types stay if those of the lock do.
LEMMA WithinTyped ==
    ASSUME IInv, NEW t \in Threads, NEW x, Within(t, x),
           locked' \in [Threads -> 0..lastId], held' \in [Threads -> Nat], fence' \in [Threads -> Nat],
           lock' \in [sid : Nat, thread : Threads \cup {NoThread}, count : Nat, fence : Nat]
    PROVE  Types'
<1>1. lastId' \in Nat /\ lastNode' \in Nat /\ lastId' = lastId
    BY DEF IInv, Types, Within
<1>2. /\ x \in CallTypes /\ x.sid \in 0..lastId' /\ (x.op # "none" \/ x.stage = "idle")
      /\ lastId' >= lastId /\ Types /\ call' = [call EXCEPT ![t] = x]
    BY <1>1 DEF IInv, Within
<1>3. /\ call' \in [Threads -> CallTypes]
      /\ \A u \in Threads : call'[u].sid \in 0..lastId' /\ (call'[u].op = "none" => call'[u].stage = "idle")
    BY <1>1, <1>2, CallsTyped, Zenon
<1>4. QED
    BY <1>1, <1>3 DEF IInv, Types, Within

\* A step that changes the call of its thread only.
LEMMA CallOnly ==
    ASSUME IInv, NEW t \in Threads, NEW x, Within(t, x), UNCHANGED <<lock, locked, held, fence>>,
           Sound(t)'
    PROVE  IInv'
<1>1. Types'
    BY WithinTyped DEF IInv, Types
<1>2. \A u \in Threads \ {t} : Spared(u)
    BY DEF Spared, Within, IInv, Types
<1>3. QED
    BY <1>1, <1>2, StepOfThread

\* A step that changes what its thread knows of the lock, and not the lock.
LEMMA LocalOnly ==
    ASSUME IInv, NEW t \in Threads, NEW x, Within(t, x), UNCHANGED lock,
           NEW l \in 0..lastId, NEW h \in Nat, NEW f \in Nat,
           locked' = [locked EXCEPT ![t] = l], held' = [held EXCEPT ![t] = h],
           fence' = [fence EXCEPT ![t] = f], Sound(t)'
    PROVE  IInv'
<1>1. Types'
    BY WithinTyped DEF IInv, Types
<1>2. \A u \in Threads \ {t} : Spared(u)
    BY DEF Spared, Within, IInv, Types
<1>3. QED
    BY <1>1, <1>2, StepOfThread

\* An exception that takes the lock from the thread.
LEMMA DisownOk ==
    ASSUME IInv, NEW t \in Threads, NEW x, Within(t, x), UNCHANGED lock, Disown(t),
           x.stage # "answered"
    PROVE  IInv'
<1>1. 0 \in 0..lastId /\ fence[t] \in Nat
    BY DEF IInv, Types
<1>2. fence' = [fence EXCEPT ![t] = fence[t]]
    BY DEF Disown, IInv, Types
<1>3. held'[t] = 0 /\ call'[t] = x
    BY DEF Disown, IInv, Types, Within
<1>4. Sound(t)'
    BY <1>3 DEF Sound, Holding, LockGranted, Unlocking, UnlockDone
<1>5. QED
    BY <1>1, <1>2, <1>4, LocalOnly, Zenon DEF Disown, NO_SESSION_ID

-----------------------------------------------------------------------------
\* The group answers the call that is under way.
LEMMA AnswerUpdate ==
    ASSUME Types, NEW t \in Threads, NEW a \in Answers, NEW v \in Nat, Answer(t, a, v)
    PROVE  \E x \in CallTypes :
               /\ call' = [call EXCEPT ![t] = x]
               /\ call'[t] = x
               /\ x.sid = call[t].sid /\ x.sid \in 0..lastId /\ x.op = call[t].op
               /\ x.stage = "answered" /\ x.answer = a /\ x.value = v
<1>1. PICK c \in CallTypes : c = call[t]
    BY DEF Types
<1>x. PICK x : x = [c EXCEPT !.stage = "answered", !.answer = a, !.value = v]
    BY Zenon
<1>2. /\ x \in CallTypes /\ x.sid = call[t].sid /\ x.op = call[t].op
      /\ x.stage = "answered" /\ x.answer = a /\ x.value = v
    BY <1>1, <1>x, Zenon DEF CallTypes, Stages
<1>3. call' = [call EXCEPT ![t] = x]
    BY <1>1, <1>x, Zenon DEF Answer, Types
<1>4. call'[t] = x /\ call[t].sid \in 0..lastId
    BY <1>3 DEF Types
<1>5. QED
    BY <1>2, <1>3, <1>4, Zenon

\* A request is answered and the lock stays as it was: nothing is granted, nor
\* given up.
LEMMA AnswerOk ==
    ASSUME IInv, NEW t \in Threads, NEW a \in Answers, NEW v \in Nat, Answer(t, a, v),
           UNCHANGED <<lock, local, mgr>>, call[t].stage \in {"sent", "answered"},
           a \notin {"granted", "still_locked", "unlocked"}
    PROVE  IInv'
<1>1. PICK x \in CallTypes :
               /\ call' = [call EXCEPT ![t] = x]
               /\ call'[t] = x
               /\ x.sid = call[t].sid /\ x.sid \in 0..lastId /\ x.op = call[t].op
               /\ x.stage = "answered" /\ x.answer = a /\ x.value = v
    BY AnswerUpdate DEF IInv
<1>2. Within(t, x)
    BY <1>1 DEF Within, mgr, IInv, Types
<1>4. Holding(t)'
    BY <1>1 DEF IInv, Sound, Holding, UnlockDone, Owns, OwnedBy, mgr, local
<1>5. LockGranted(t)' /\ Unlocking(t)'
    BY <1>1 DEF LockGranted, Unlocking
<1>6. QED
    BY <1>2, <1>4, <1>5, CallOnly DEF Sound, local

\* lock_and_get_fence() and try_lock_and_get_fence() start.
LEMMA LockOk ==
    ASSUME IInv, NEW t \in Threads, NEW op \in {"lock", "try_lock"}, Lock(t, op)
    PROVE  IInv'
<1> DEFINE x == [NoCall EXCEPT !.op = op, !.stage = "start", !.n = 1, !.sid = NO_SESSION_ID]
<1>1. x \in CallTypes /\ x.sid = 0 /\ x.stage = "start" /\ x.op = op
    BY Zenon DEF NoCall, CallTypes, Stages, Answers, NO_SESSION_ID
<1>2. call' = [call EXCEPT ![t] = x]
    BY DEF Lock, StartCall
<1> HIDE DEF x
<1>3. Within(t, x)
    BY <1>1, <1>2 DEF Within, Lock, mgr, IInv, Types
<1>4. Types'
    BY <1>3, WithinTyped DEF Lock, local, IInv, Types
<1>5. call[t].stage # "answered"
    BY DEF Lock, StartCall, IInv, Types
<1>6. QED
    BY <1>1, <1>2, <1>3, <1>4, <1>5, EarlyStep, Zenon DEF Lock, Within

\* verify_locked_session_id_if_present(): a thread that goes on asks in the
\* session it holds the lock in.
LEMMA VerifyOk ==
    ASSUME IInv, NEW t \in Threads, Verify(t)
    PROVE  IInv'
<1>1. CASE locked[t] \notin {NO_SESSION_ID, call[t].sid}
    <2>1. session' \in [id : 0..lastId, count : Int, stale : BOOLEAN, node : Nat]
        BY <1>1 DEF Verify, release_session, IInv, Types
    <2>2. Within(t, NoCall)
        BY <1>1, <2>1, NoCallTyped DEF Verify, Finish, Within, IInv, Types
    <2>3. QED
        BY <1>1, <2>2, NoCallTyped, DisownOk DEF Verify
<1>2. CASE locked[t] \in {NO_SESSION_ID, call[t].sid}
    <2> DEFINE x == [call[t] EXCEPT !.stage = "sent"]
    <2>1. x \in CallTypes /\ x.sid = call[t].sid /\ x.stage = "sent" /\ x.op = call[t].op
        BY ZenonT(30) DEF IInv, Types, CallTypes, Stages
    <2>2. call' = [call EXCEPT ![t] = x]
        BY <1>2 DEF Verify, IInv, Types
    <2> HIDE DEF x
    <2>3. call'[t] = x /\ call[t].sid \in 0..lastId
        BY <2>2 DEF IInv, Types
    <2>4. Within(t, x)
        BY <1>2, <2>1, <2>2, <2>3 DEF Verify, Within, mgr, IInv, Types
    <2>5. UNCHANGED <<lock, locked, held, fence, open>>
        BY <1>2 DEF Verify, local, mgr
    <2>6. Holding(t)'
        BY <1>2, <2>1, <2>3, <2>5 DEF Verify, IInv, Sound, Holding, UnlockDone, Owns, OwnedBy
    <2>7. LockGranted(t)' /\ Unlocking(t)'
        BY <2>1, <2>3 DEF LockGranted, Unlocking, UnlockDone
    <2>8. QED
        BY <2>4, <2>5, <2>6, <2>7, CallOnly DEF Sound
<1>3. QED
    BY <1>1, <1>2

\* unlock() and the queries ask in the session that is current, which is the one
\* the thread holds the lock in, or they report the loss.
LEMMA AskOk ==
    ASSUME IInv, NEW t \in Threads, NEW op \in {"unlock", "get_fence", "is_locked"}, Ask(t, op)
    PROVE  IInv'
<1> DEFINE sid == get_session(session)
           lost == locked[t] \notin {NO_SESSION_ID, sid}
           none == sid = NO_SESSION_ID /\ op # "is_locked"
<1>1. CASE lost \/ none
    <2>1. call' = [call EXCEPT ![t] = call[t]]
        BY <1>1 DEF Ask, IInv, Types
    <2>2. Within(t, call[t])
        BY <1>1, <2>1 DEF Ask, Within, mgr, IInv, Types
    <2>3. call[t].stage # "answered"
        BY DEF Ask, IInv, Types
    <2>4. QED
        BY <1>1, <2>2, <2>3, DisownOk DEF Ask
<1>2. CASE ~(lost \/ none)
    <2>0. sid \in 0..lastId /\ sid \in Nat
        BY DEF get_session, IInv, Types
    <2> DEFINE x == [NoCall EXCEPT !.op = op, !.stage = "sent", !.n = 0, !.sid = sid]
    <2>1. call' = [call EXCEPT ![t] = x]
        BY <1>2 DEF Ask, StartCall
    <2>9. UNCHANGED <<lock, locked, held, fence, open, lastId, lastNode, session>> /\ call[t].op = "none"
        BY <1>2 DEF Ask, local, mgr
    <2> HIDE DEF sid
    <2>2. x \in CallTypes /\ x.sid = sid /\ x.stage = "sent" /\ x.op = op
        BY <2>0, Zenon DEF NoCall, CallTypes, Stages, Answers
    <2> HIDE DEF x
    <2>3. call'[t] = x
        BY <2>1 DEF IInv, Types
    <2>4. Within(t, x)
        BY <2>0, <2>1, <2>2, <2>9 DEF Within, IInv, Types
    <2>6. Holding(t)'
        BY <1>2, <2>2, <2>3, <2>9 DEF IInv, Sound, Holding, UnlockDone, Owns, OwnedBy
    <2>7. LockGranted(t)' /\ Unlocking(t)'
        BY <2>2, <2>3, Zenon DEF LockGranted, Unlocking, UnlockDone
    <2>8. QED
        BY <2>4, <2>6, <2>7, <2>9, CallOnly DEF Sound
<1>3. QED
    BY <1>1, <1>2

\* The group grants the lock: to its owner once more, with the same fence, or, if
\* the lock is free, with a new one; and then the thread does not hold it in this
\* session.
LEMMA GrantOk ==
    ASSUME IInv, NEW t \in Threads, call[t].stage = "sent", call[t].op \in {"lock", "try_lock"},
           call[t].sid \in open, NEW g, OwnedBy(call[t].sid, t) \/ lock.count = 0,
           g = IF OwnedBy(call[t].sid, t) THEN lock.fence ELSE lock.fence + 1,
           lock' = [sid |-> call[t].sid, thread |-> t, count |-> lock.count + 1, fence |-> g],
           Answer(t, "granted", g), UNCHANGED <<mgr, local>>
    PROVE  IInv'
<1>1. g \in Nat /\ lock.count \in Nat /\ call[t].sid \in Nat
    BY DEF IInv, Types
<1>2. "granted" \in Answers
    BY DEF Answers
<1>3. PICK x \in CallTypes :
               /\ call' = [call EXCEPT ![t] = x]
               /\ call'[t] = x
               /\ x.sid = call[t].sid /\ x.sid \in 0..lastId /\ x.op = call[t].op
               /\ x.stage = "answered" /\ x.answer = "granted" /\ x.value = g
    BY <1>1, <1>2, AnswerUpdate DEF IInv
<1>4. Within(t, x)
    BY <1>3, Zenon DEF Within, mgr, IInv, Types
<1>5. UNCHANGED <<locked, held, fence, open>>
    BY DEF local, mgr
<1>6. lock' \in [sid : Nat, thread : Threads \cup {NoThread}, count : Nat, fence : Nat]
    BY <1>1
<1>7. Types'
    BY <1>4, <1>5, <1>6, WithinTyped DEF IInv, Types
<1>8. \A u \in Threads \ {t} : Spared(u)
    <2>1. \A u \in Threads \ {t} : call'[u] = call[u]
        BY <1>3, Zenon DEF IInv, Types
    <2>2. \A s : \A u \in Threads \ {t} : ~OwnedBy(s, u)
        BY DEF OwnedBy
    <2>3. QED
        BY <1>5, <2>1, <2>2 DEF Spared
<1>9. held[t] > 0 => /\ locked[t] = call[t].sid
                     /\ Owns(t, locked[t], fence[t], held[t])
    BY Zenon DEF IInv, Sound, Holding, UnlockDone
<1>10. held[t] > 0 => g = fence[t] /\ lock.count >= held[t]
    BY <1>9 DEF Owns
<1>11. \A n \in Nat : n =< lock.count + 1 => Owns(t, call[t].sid, g, n)'
    BY <1>1, <1>3 DEF Owns, OwnedBy
<1>12. held[t] \in Nat
    BY DEF IInv, Types
<1>13. LockGranted(t)'
    <2>1. call[t].sid # NO_SESSION_ID
        BY DEF NO_SESSION_ID, IInv, Types
    <2>2. QED
        BY <1>1, <1>3, <1>5, <1>10, <1>12, <2>1 DEF LockGranted, Owns, OwnedBy
<1>14. Holding(t)'
    BY <1>1, <1>3, <1>5, <1>9, <1>10, <1>12, SMTT(20) DEF IInv, Sound, Holding, Owns, OwnedBy
<1>15. Unlocking(t)'
    BY <1>3 DEF Unlocking, UnlockDone
<1>16. QED
    BY <1>7, <1>8, <1>13, <1>14, <1>15, StepOfThread, Zenon DEF Sound

\* A lock request is granted, refused, or its wait is cancelled.
LEMMA ServeLockOk ==
    ASSUME IInv, NEW t \in Threads, ServeLock(t)
    PROVE  IInv'
<1> DEFINE mine == OwnedBy(call[t].sid, t)
           granted == [sid |-> call[t].sid, thread |-> t, count |-> lock.count + 1,
                       fence |-> IF mine THEN lock.fence ELSE lock.fence + 1]
<1>1. CASE /\ mine \/ lock.count = 0
           /\ lock' = granted
           /\ Answer(t, "granted", granted.fence)
    BY <1>1, GrantOk DEF ServeLock
<1>2. CASE Answer(t, "refused", INVALID_FENCE) /\ UNCHANGED lock
    BY <1>2, AnswerOk DEF ServeLock, Answers, INVALID_FENCE
<1>3. CASE Answer(t, "wait_key_cancelled", 0) /\ UNCHANGED lock
    BY <1>3, AnswerOk DEF ServeLock, Answers
<1>4. QED
    BY <1>1, <1>2, <1>3 DEF ServeLock

\* A session that is not open, a query, and an answer that is lost.
LEMMA OtherAnswersOk ==
    ASSUME IInv, NEW t \in Threads, ServeExpired(t) \/ ServeQuery(t) \/ LoseAnswer(t)
    PROVE  IInv'
<1>1. lock.fence \in Nat /\ 0 \in Nat
    BY DEF IInv, Types
<1>2. CASE ServeExpired(t)
    BY <1>2, AnswerOk DEF ServeExpired, Answers
<1>3. CASE LoseAnswer(t)
    BY <1>3, AnswerOk DEF LoseAnswer, Answers
<1>4. CASE ServeQuery(t)
    <2>1. CASE Answer(t, "owner", lock.fence)
        BY <1>1, <1>4, <2>1, AnswerOk DEF ServeQuery, Answers
    <2>2. CASE Answer(t, "not_owner", INVALID_FENCE)
        BY <1>1, <1>4, <2>2, AnswerOk DEF ServeQuery, Answers, INVALID_FENCE
    <2>3. QED
        BY <1>4, <2>1, <2>2 DEF ServeQuery
<1>5. QED
    BY <1>2, <1>3, <1>4

\* An unlock request of the owner lowers the count, which is at least the number
\* of times the thread has locked.
LEMMA ServeUnlockOk ==
    ASSUME IInv, NEW t \in Threads, ServeUnlock(t)
    PROVE  IInv'
<1>1. CASE OwnedBy(call[t].sid, t)
    <2> DEFINE a == IF lock.count > 1 THEN "still_locked" ELSE "unlocked"
    <2>1. Answer(t, a, 0) /\ a \in Answers
        BY <1>1 DEF ServeUnlock, Answers
    <2>2. lock' = [lock EXCEPT !.count = @ - 1] /\ lock.count > 0 /\ lock.sid = call[t].sid /\ lock.thread = t
        BY <1>1 DEF ServeUnlock, OwnedBy
    <2>3. (a = "unlocked" => lock.count = 1) /\ (a = "still_locked" => lock.count > 1) /\ a # "granted"
        BY <2>2 DEF IInv, Types
    <2> HIDE DEF a
    <2>4. PICK x \in CallTypes :
               /\ call' = [call EXCEPT ![t] = x]
               /\ call'[t] = x
               /\ x.sid = call[t].sid /\ x.sid \in 0..lastId /\ x.op = call[t].op
               /\ x.stage = "answered" /\ x.answer = a /\ x.value = 0
        BY <2>1, AnswerUpdate DEF IInv
    <2>5. UNCHANGED <<session, lastId, lastNode, locked, held, fence, open>>
        BY DEF ServeUnlock, local, mgr
    <2>6. call[t].stage = "sent" /\ call[t].op = "unlock"
        BY DEF ServeUnlock
    <2>7. Within(t, x)
        BY <2>4, <2>5, <2>6 DEF Within, IInv, Types
    <2>8. /\ lock' \in [sid : Nat, thread : Threads \cup {NoThread}, count : Nat, fence : Nat]
          /\ lock'.sid = lock.sid /\ lock'.thread = t /\ lock'.fence = lock.fence
          /\ lock'.count = lock.count - 1
        BY <2>2 DEF IInv, Types
    <2>9. Types'
        BY <2>5, <2>7, <2>8, WithinTyped, Zenon DEF IInv, Types
    <2>10. \A u \in Threads \ {t} : Spared(u)
        <3>1. \A u \in Threads \ {t} : call'[u] = call[u]
            BY <2>4 DEF IInv, Types
        <3>2. \A s : \A u \in Threads \ {t} : ~OwnedBy(s, u)
            BY <2>2 DEF OwnedBy
        <3>3. QED
            BY <2>5, <3>1, <3>2 DEF Spared
    <2>11. held[t] > 0 => /\ locked[t] = call[t].sid /\ lock.fence = fence[t] /\ lock.count >= held[t]
                          /\ locked[t] # NO_SESSION_ID
        BY <2>6 DEF IInv, Sound, Holding, UnlockDone, Owns, ServeUnlock
    <2>12. held[t] \in Nat /\ lock.count \in Nat
        BY DEF IInv, Types
    <2>13. Holding(t)'
        BY <2>4, <2>5, <2>6, <2>11 DEF Holding, UnlockDone
    <2>14. LockGranted(t)'
        BY <2>4, <2>6 DEF LockGranted
    <2>15. Unlocking(t)'
        BY <2>2, <2>3, <2>4, <2>5, <2>8, <2>11, <2>12 DEF Unlocking, Owns, OwnedBy
    <2>16. QED
        BY <2>9, <2>10, <2>13, <2>14, <2>15, StepOfThread DEF Sound
<1>2. CASE ~OwnedBy(call[t].sid, t)
    BY <1>2, AnswerOk DEF ServeUnlock, Answers
<1>3. QED
    BY <1>1, <1>2

\* The group closes a session: its lock is free, and no thread that holds it in
\* that session relies on the group any more.
LEMMA FreeSessionOk ==
    ASSUME IInv, NEW s, FreeSession(s) \/ UNCHANGED <<open, lock>>,
           session' = session \/ session' = NoSession,
           UNCHANGED <<lastId, lastNode, call, local>>
    PROVE  IInv'
<1>1. NoSession \in [id : 0..lastId, count : Int, stale : BOOLEAN, node : Nat]
    BY DEF NoSession, NO_SESSION_ID, IInv, Types
<1>2. lock' \in [sid : Nat, thread : Threads \cup {NoThread}, count : Nat, fence : Nat]
    BY DEF FreeSession, IInv, Types
<1>3. open' \subseteq open
    BY DEF FreeSession
<1>4. Types'
    BY <1>1, <1>2, <1>3 DEF IInv, Types, local
<1>5. \A u \in Threads : Spared(u)
    BY <1>3 DEF Spared, FreeSession, OwnedBy, local
<1>6. QED
    BY <1>4, <1>5, SparedIsSound DEF IInv

-----------------------------------------------------------------------------
\* What a continuation does to the session table keeps its type.
LEMMA SessionTyped ==
    ASSUME Types, NEW sid, NEW n \in Nat
    PROVE  /\ release_session(session, sid, n) \in [id : 0..lastId, count : Int, stale : BOOLEAN, node : Nat]
           /\ invalidate_session(session, sid) \in [id : 0..lastId, count : Int, stale : BOOLEAN, node : Nat]
<1>1. release_session(session, sid, n) \in [id : 0..lastId, count : Int, stale : BOOLEAN, node : Nat]
    BY DEF release_session, Types
<1>2. QED
    BY <1>1 DEF invalidate_session, NoSession, NO_SESSION_ID, Types

\* The end of a call that leaves alone what the thread knows of the lock, and is
\* not the end of an unlock().
LEMMA FinishOk ==
    ASSUME IInv, NEW t \in Threads, Finish(t), UNCHANGED <<lock, local, lastId, lastNode, open>>,
           call[t].op # "unlock",
           session' \in [id : 0..lastId, count : Int, stale : BOOLEAN, node : Nat]
    PROVE  IInv'
<1>1. Within(t, NoCall)
    BY NoCallTyped DEF Finish, Within, IInv, Types
<1>2. call'[t] = NoCall
    BY Zenon DEF Finish, IInv, Types
<1>3. Sound(t)'
    BY <1>2, NoCallTyped, Zenon DEF IInv, Sound, Holding, LockGranted, Unlocking, UnlockDone, Owns, OwnedBy, local
<1>4. QED
    BY <1>1, <1>3, CallOnly DEF local

\* The lock is granted: the thread has the session and the fence of the answer.
LEMMA GrantedOk ==
    ASSUME IInv, NEW t \in Threads, call[t].stage = "answered", call[t].op \in {"lock", "try_lock"},
           call[t].answer = "granted", Granted(t), Finish(t), UNCHANGED session, Keep
    PROVE  IInv'
<1> DEFINE h == IF held[t] < LockLimit THEN held[t] + 1 ELSE held[t]
<1>1. h \in Nat /\ h =< held[t] + 1 /\ held[t] \in Nat
    BY DEF IInv, Types
<1>2. held' = [held EXCEPT ![t] = h]
    BY DEF Granted, IInv, Types
<1> HIDE DEF h
<1>3. call[t].sid \in 0..lastId /\ call[t].value \in Nat
    BY DEF IInv, Types, CallTypes
<1>4. Within(t, NoCall)
    BY NoCallTyped DEF Finish, Within, Keep, IInv, Types
<1>5. /\ call'[t] = NoCall /\ held'[t] = h /\ locked'[t] = call[t].sid /\ fence'[t] = call[t].value
      /\ lock' = lock /\ open' = open
    BY <1>2 DEF Finish, Granted, Keep, IInv, Types
<1>6. LockGranted(t)
    BY DEF IInv, Sound
<1>7. lock.count \in Nat
    BY Zenon DEF IInv, Types
<1>8. Holding(t)'
    BY <1>1, <1>5, <1>6, <1>7, NoCallTyped DEF Holding, LockGranted, Owns, OwnedBy
<1>9. LockGranted(t)' /\ Unlocking(t)'
    BY <1>5, NoCallTyped DEF LockGranted, Unlocking, UnlockDone
<1>10. QED
    BY <1>1, <1>2, <1>3, <1>4, <1>8, <1>9, LocalOnly, Zenon DEF Sound, Granted, Keep

\* session_expired: a thread that holds the lock is told that it lost it; another
\* one starts over or fails.
LEMMA ExpiredOk ==
    ASSUME IInv, NEW t \in Threads, call[t].stage = "answered", call[t].op \in {"lock", "try_lock"},
           Expired(t), Keep
    PROVE  IInv'
<1>1. session' \in [id : 0..lastId, count : Int, stale : BOOLEAN, node : Nat]
    BY SessionTyped DEF Expired, IInv
<1>2. CASE locked[t] # NO_SESSION_ID
    <2>1. Within(t, NoCall)
        BY <1>1, <1>2, NoCallTyped DEF Expired, Finish, Within, Keep, IInv, Types
    <2>2. QED
        BY <1>2, <2>1, NoCallTyped, DisownOk DEF Expired, Keep
<1>3. CASE locked[t] = NO_SESSION_ID /\ call[t].op # "lock"
    BY <1>1, <1>3, FinishOk DEF Expired, Keep
<1>4. CASE locked[t] = NO_SESSION_ID /\ call[t].op = "lock"
    <2> DEFINE x == IF call[t].again THEN [NoCall EXCEPT !.op = "lock", !.stage = "spinning"]
                    ELSE [NoCall EXCEPT !.op = "lock", !.stage = "start", !.n = 1, !.again = TRUE]
    <2>1. x \in CallTypes /\ x.sid = 0 /\ x.stage \notin {"sent", "answered"} /\ x.op = "lock"
        BY Zenon DEF NoCall, CallTypes, Stages, Answers
    <2>2. call' = [call EXCEPT ![t] = x]
        BY <1>4 DEF Expired, IInv, Types
    <2> HIDE DEF x
    <2>3. Within(t, x)
        BY <1>1, <2>1, <2>2 DEF Within, Keep, IInv, Types
    <2>4. call'[t] = x /\ UNCHANGED <<lock, locked, held, fence>>
        BY <1>4, <2>2, Zenon DEF Expired, Keep, local, IInv, Types
    <2>5. ~(held[t] > 0)
        BY <1>4 DEF IInv, Sound, Holding
    <2>6. Sound(t)'
        BY <2>1, <2>4, <2>5 DEF Sound, Holding, LockGranted, Unlocking, UnlockDone
    <2>7. QED
        BY <2>3, <2>4, <2>6, CallOnly
<1>5. QED
    BY <1>2, <1>3, <1>4

\* The end of lock_and_get_fence() and try_lock_and_get_fence().
LEMMA LockAnsweredOk ==
    ASSUME IInv, NEW t \in Threads, LockAnswered(t)
    PROVE  IInv'
<1>1. CASE call[t].answer = "granted"
    BY <1>1, GrantedOk DEF LockAnswered
<1>2. CASE call[t].answer = "session_expired"
    BY <1>2, ExpiredOk DEF LockAnswered
<1>3. CASE call[t].answer \notin {"granted", "session_expired"}
    <2>1. session' = release_session(session, call[t].sid, 1) /\ Finish(t) /\ UNCHANGED local
        BY <1>3 DEF LockAnswered
    <2>2. session' \in [id : 0..lastId, count : Int, stale : BOOLEAN, node : Nat]
        BY <2>1, SessionTyped DEF IInv
    <2>3. QED
        BY <2>1, <2>2, FinishOk DEF LockAnswered, Keep
<1>4. QED
    BY <1>1, <1>2, <1>3

\* The end of unlock(): one lock less is held, in the same session.
LEMMA UnlockAnsweredOk ==
    ASSUME IInv, NEW t \in Threads, UnlockAnswered(t)
    PROVE  IInv'
<1>1. session' \in [id : 0..lastId, count : Int, stale : BOOLEAN, node : Nat]
    <2>1. \/ session' = release_session(session, call[t].sid, 1)
          \/ session' = invalidate_session(session, call[t].sid)
          \/ session' = session
        BY DEF UnlockAnswered
    <2>2. /\ release_session(session, call[t].sid, 1) \in [id : 0..lastId, count : Int, stale : BOOLEAN, node : Nat]
          /\ invalidate_session(session, call[t].sid) \in [id : 0..lastId, count : Int, stale : BOOLEAN, node : Nat]
        BY SessionTyped DEF IInv
    <2>3. session \in [id : 0..lastId, count : Int, stale : BOOLEAN, node : Nat]
        BY DEF IInv, Types
    <2>4. QED
        BY <2>1, <2>2, <2>3
<1>2. Within(t, NoCall)
    BY <1>1, NoCallTyped DEF UnlockAnswered, Finish, Within, Keep, IInv, Types
<1>3. call'[t] = NoCall /\ lock' = lock /\ open' = open
    BY DEF UnlockAnswered, Finish, Keep, IInv, Types
<1>4. call[t].sid \in 0..lastId /\ 0 \in 0..lastId /\ held[t] \in Nat /\ fence[t] \in Nat /\ locked[t] \in 0..lastId
    BY DEF IInv, Types
<1>5. LockGranted(t)' /\ Unlocking(t)'
    BY <1>3, NoCallTyped DEF LockGranted, Unlocking, UnlockDone
<1>6. CASE call[t].answer \in {"session_expired", "illegal_monitor_state"}
    BY <1>2, <1>3, <1>6, NoCallTyped, DisownOk DEF UnlockAnswered
<1>7. CASE call[t].answer \in {"still_locked", "unlocked"}
    <2> DEFINE l == IF call[t].answer = "still_locked" THEN call[t].sid ELSE NO_SESSION_ID
               h == IF held[t] > 0 THEN held[t] - 1 ELSE 0
    <2>1. l \in 0..lastId /\ h \in Nat
        BY <1>4 DEF NO_SESSION_ID
    <2>2. locked' = [locked EXCEPT ![t] = l] /\ held' = [held EXCEPT ![t] = h] /\ fence' = fence
        BY <1>7 DEF UnlockAnswered, IInv, Types
    <2>3. fence' = [fence EXCEPT ![t] = fence[t]]
        BY <2>2 DEF IInv, Types
    <2>4. locked'[t] = l /\ held'[t] = h /\ fence'[t] = fence[t]
        BY <2>2 DEF IInv, Types
    <2>5. UnlockDone(t) /\ Holding(t) /\ Unlocking(t)
        BY Zenon DEF UnlockAnswered, UnlockDone, IInv, Sound
    <2>6. Holding(t)'
        BY <1>3, <1>4, <1>7, <2>4, <2>5, NoCallTyped DEF Holding, Unlocking, Owns, OwnedBy, UnlockDone
    <2> HIDE DEF l, h
    <2>7. QED
        BY <1>2, <1>3, <1>4, <1>5, <2>1, <2>2, <2>3, <2>6, LocalOnly, Zenon DEF Sound
<1>8. CASE call[t].answer \notin {"session_expired", "illegal_monitor_state", "still_locked", "unlocked"}
    <2>1. held' = [held EXCEPT ![t] = 0] /\ locked' = [locked EXCEPT ![t] = locked[t]]
            /\ fence' = [fence EXCEPT ![t] = fence[t]]
        BY <1>8 DEF UnlockAnswered, IInv, Types
    <2>2. held'[t] = 0
        BY <2>1, Zenon DEF IInv, Types
    <2>3. Holding(t)'
        BY <2>2 DEF Holding
    <2>4. QED
        BY <1>2, <1>3, <1>4, <1>5, <2>1, <2>3, LocalOnly, Zenon DEF Sound
<1>9. QED
    BY <1>6, <1>7, <1>8

\* The end of get_fence() and the other queries.
LEMMA QueryAnsweredOk ==
    ASSUME IInv, NEW t \in Threads, QueryAnswered(t)
    PROVE  IInv'
<1>1. session' \in [id : 0..lastId, count : Int, stale : BOOLEAN, node : Nat]
    BY DEF QueryAnswered, IInv, Types
<1>2. Within(t, NoCall)
    BY <1>1, NoCallTyped DEF QueryAnswered, Finish, Within, Keep, IInv, Types
<1>3. call'[t] = NoCall /\ lock' = lock /\ open' = open
    BY DEF QueryAnswered, Finish, Keep, IInv, Types
<1>4. CASE call[t].answer = "owner"
    <2>1. /\ locked' = [locked EXCEPT ![t] = call[t].sid] /\ held' = [held EXCEPT ![t] = held[t]]
          /\ fence' = [fence EXCEPT ![t] = fence[t]]
        BY <1>4 DEF QueryAnswered, IInv, Types
    <2>2. call[t].sid \in 0..lastId /\ held[t] \in Nat /\ fence[t] \in Nat
        BY DEF IInv, Types
    <2>3. locked'[t] = call[t].sid /\ held'[t] = held[t] /\ fence'[t] = fence[t]
        BY <2>1 DEF IInv, Types
    <2>4. Sound(t)'
        BY <1>3, <2>3, NoCallTyped
        DEF QueryAnswered, IInv, Sound, Holding, LockGranted, Unlocking, UnlockDone, Owns, OwnedBy
    <2>5. QED
        BY <1>2, <1>3, <2>1, <2>2, <2>4, LocalOnly, Zenon
<1>5. CASE call[t].answer = "not_owner"
    BY <1>2, <1>3, <1>5, NoCallTyped, DisownOk DEF QueryAnswered
<1>6. CASE call[t].answer \notin {"owner", "not_owner"}
    BY <1>1, <1>6, FinishOk DEF QueryAnswered, Keep
<1>7. QED
    BY <1>4, <1>5, <1>6

-----------------------------------------------------------------------------
\* No session, no lock, no call.
LEMMA Start == Init => IInv
<1> SUFFICES ASSUME Init PROVE IInv
    OBVIOUS
<1>1. NoSession \in [id : 0..0, count : Int, stale : BOOLEAN, node : Nat]
    BY DEF NoSession, NO_SESSION_ID
<1>2. Types
    BY <1>1, NoCallTyped DEF Init, ManagerInit, Types, NO_SESSION_ID, INVALID_FENCE
<1>3. \A t \in Threads : Sound(t)
    BY NoCallTyped DEF Init, ManagerInit, Sound, Holding, LockGranted, Unlocking, UnlockDone
<1>4. QED
    BY <1>2, <1>3 DEF IInv

\* Every step keeps the invariant.
LEMMA Step == IInv /\ [Next]_vars => IInv'
<1> SUFFICES ASSUME IInv, [Next]_vars PROVE IInv'
    OBVIOUS
<1>1. CASE ManagerStep /\ UNCHANGED <<lock, local>>
    BY <1>1, AcquireSessionOk, HeartbeatOk DEF ManagerStep
<1>2. ASSUME NEW t \in Threads, NEW op \in {"lock", "try_lock"}, Lock(t, op)
      PROVE  IInv'
    BY <1>2, LockOk
<1>3. ASSUME NEW t \in Threads, NEW op \in {"unlock", "get_fence", "is_locked"}, Ask(t, op)
      PROVE  IInv'
    BY <1>3, AskOk
<1>4. ASSUME NEW t \in Threads, Verify(t) \/ Served(t) \/ LoseAnswer(t) \/ Answered(t)
      PROVE  IInv'
    BY <1>4, VerifyOk, ServeLockOk, ServeUnlockOk, OtherAnswersOk, LockAnsweredOk, UnlockAnsweredOk,
       QueryAnsweredOk DEF Served, Answered
<1>5. ASSUME NEW s, CloseSession(s)
      PROVE  IInv'
    BY <1>5, FreeSessionOk DEF CloseSession
<1>6. CASE Shutdown
    BY <1>6, FreeSessionOk DEF Shutdown, ManagerShutdown
<1>7. CASE UNCHANGED vars
    <2>1. Types'
        BY <1>7 DEF vars, mgr, IInv, Types
    <2>2. \A u \in Threads : Spared(u)
        BY <1>7, Zenon DEF vars, mgr, Spared
    <2>3. QED
        BY <2>1, <2>2, SparedIsSound DEF IInv
<1>8. QED
    BY <1>1, <1>2, <1>3, <1>4, <1>5, <1>6, <1>7 DEF Next

\* Only the end of a call changes what a thread holds, and only a granted lock
\* raises it: with the fence of the answer.
LEMMA Raised ==
    ASSUME IInv, [Next]_vars, NEW u \in Threads, held[u] > 0, held'[u] > held[u]
    PROVE  fence'[u] = fence[u]
<1>1. ASSUME NEW t \in Threads, Disown(t)
      PROVE  FALSE
    BY <1>1 DEF Disown, IInv, Types
<1>2. ASSUME NEW t \in Threads, LockAnswered(t)
      PROVE  fence'[u] = fence[u]
    <2>1. CASE call[t].answer = "granted"
        BY <1>2, <2>1 DEF LockAnswered, Granted, IInv, Types, Sound, LockGranted
    <2>2. CASE call[t].answer # "granted"
        BY <1>1, <1>2, <2>2 DEF LockAnswered, Expired, local
    <2>3. QED
        BY <2>1, <2>2
<1>3. ASSUME NEW t \in Threads, UnlockAnswered(t)
      PROVE  FALSE
    BY <1>1, <1>3 DEF UnlockAnswered, IInv, Types
<1>4. ASSUME NEW t \in Threads, QueryAnswered(t)
      PROVE  FALSE
    BY <1>1, <1>4 DEF QueryAnswered, local, IInv, Types
<1>5. ASSUME NEW t \in Threads, NEW op, Ask(t, op)
      PROVE  FALSE
    BY <1>1, <1>5 DEF Ask, local, IInv, Types
<1>6. ASSUME NEW t \in Threads, Verify(t)
      PROVE  FALSE
    BY <1>1, <1>6 DEF Verify, local, IInv, Types
<1>7. ASSUME UNCHANGED local \/ UNCHANGED vars
      PROVE  FALSE
    BY <1>7 DEF local, vars, IInv, Types
<1>8. ASSUME NEW t \in Threads, Served(t) \/ LoseAnswer(t) \/ (\E op \in {"lock", "try_lock"} : Lock(t, op))
      PROVE  FALSE
    BY <1>7, <1>8 DEF Served, ServeExpired, ServeLock, ServeUnlock, ServeQuery, LoseAnswer, Lock
<1>9. ASSUME NEW s, CloseSession(s)
      PROVE  FALSE
    BY <1>7, <1>9 DEF CloseSession
<1>10. CASE Shutdown
    BY <1>7, <1>10 DEF Shutdown
<1>11. CASE ManagerStep /\ UNCHANGED <<lock, local>>
    BY <1>7, <1>11
<1>12. QED
    BY <1>2, <1>3, <1>4, <1>5, <1>6, <1>7, <1>8, <1>9, <1>10, <1>11 DEF Next, Answered

\* A thread that acquires a fenced_lock it holds gets the fencing token it has, or
\* is told that it lost the lock: for any number of threads, sessions and calls,
\* whatever sessions the group closes and answers are lost in between.
THEOREM FenceIsKept == Spec => SameFence
<1> DEFINE Kept == \A t \in Threads : held[t] > 0 /\ held'[t] > held[t] => fence'[t] = fence[t]
<1>1. IInv /\ [Next]_vars => Kept
    BY Raised
<1>2. QED
    BY <1>1, Start, Step, PTL DEF Spec, SameFence

-----------------------------------------------------------------------------
(***************************************************************************)
(* The near cache of a map.                                                *)
(***************************************************************************)
CONSTANTS Keys, get_slot(_), MaxSize, EvictionEnabled, MaxVersion, MaxEvents, MaxLosses

VARIABLES
    server, events, registered, marks, owner, records, lent,
    dead, expired, strayed, expirer, t, handler, registration, losses

\* The near cache of a map, for any keys, slots and size.
Cache == INSTANCE NearCache

\* The calls that read,
CacheOps == {"get", "getAll"}

\* one of them without an answer,
CacheAsked == [pc : {"sent", "reset", "invalidate", "drop", "force"},
               op : CacheOps, key : Keys, marked : BOOLEAN]

\* one of them after its answer,
CacheFull == [pc : {"answered", "put", "unmark", "move", "invalidate", "drop", "force"},
              op : CacheOps, key : Keys, marked : BOOLEAN, value : Nat]

\* an updating call after its request,
CacheUpdates == [pc : {"invalidate", "drop"}, op : {"put"}, key : Keys]

\* and all that a user thread may be doing.
CacheCalls ==
         [pc : {"idle", "clear"}]
    \cup [pc : {"missed"}, op : CacheOps, key : Keys]
    \cup CacheAsked \cup CacheFull \cup CacheUpdates

\* Who lent an object to the near cache.
CacheLenders == Threads \cup {Cache!NoThread}

\* What a record may hold.
CacheValues == Nat \cup {Cache!Empty}

\* The types of the state.
CacheTypes ==
    /\ server \in [Keys -> Nat]
    /\ events \in Seq(Keys \cup {Cache!AllKeys})
    /\ marks \in [Cache!Slots -> {"UNMARKED", "MARKED", "REMOVED"}]
    /\ owner \in [Cache!Slots -> CacheLenders]
    /\ records \in [Keys -> CacheValues]
    /\ lent \in [Keys -> [key : CacheLenders, value : CacheLenders]]
    /\ t \in [Threads -> CacheCalls]

\* An invalidation of k is under way.
CacheComing(k) == \E i \in DOMAIN events : events[i] \in {k, Cache!AllKeys}

\* Thread u has the mark of the slot of k, and nobody has touched it.
CacheHasMark(u, k) == marks[get_slot(k)] = "MARKED" /\ owner[get_slot(k)] = u

\* A value on its way into the near cache is the cluster's, or an invalidation is
\* under way, or the marks will be cleared.
CacheFresh ==
    \A u \in Threads : t[u].pc \in {"answered", "put"} /\ CacheHasMark(u, t[u].key) =>
        \/ t[u].value = server[t[u].key]
        \/ CacheComing(t[u].key)
        \/ ~registered \/ registration \notin {"onClear", "done"}

\* Thread u is going to remove the record of k: a get that lost its mark will not
\* find it, and the objects a get_all put are moved away.
CacheRemoves(u, k) ==
    \/ t[u].pc = "clear"
    \/ t[u].pc \in {"invalidate", "drop"} /\ t[u].key = k
    \/ t[u].pc = "unmark" /\ t[u].key = k /\ ~CacheHasMark(u, k)
    \/ t[u].pc = "move" /\ t[u].key = k /\ lent[k].value = u

\* What will remove the record of k.
CacheLeaving(k) ==
    \/ CacheComing(k)
    \/ handler.pc = "handle" /\ handler.key \in {k, Cache!AllKeys}
    \/ ~registered \/ registration # "done"
    \/ \E u \in Threads : CacheRemoves(u, k)

\* The inductive invariant.
CacheIInv ==
    /\ CacheTypes /\ CacheFresh
    /\ \A k \in Keys : Cache!Stale(k) => CacheLeaving(k) \/ k \in strayed

-----------------------------------------------------------------------------
\* No record is new: it stays, goes or is left with an empty value.
CacheFewer ==
    \A k \in Keys : \/ records'[k] = records[k] /\ lent'[k] = lent[k] /\ (k \in strayed => k \in strayed')
                    \/ records'[k] \in {Cache!NoRecord, Cache!Empty}

\* What a step that puts no record may do to thread u: a value it has is the one
\* it had, or has just been read; what it was going to remove it still is, or the
\* record is gone or has strayed; and it gets no mark while it waits for an answer.
CacheGoes(u) ==
    /\ t'[u].pc \in {"answered", "put"} =>
          \/ t'[u].value = server[t'[u].key]
          \/ t[u].pc \in {"answered", "put"} /\ t'[u].key = t[u].key /\ t'[u].value = t[u].value
    /\ t'[u].pc \in {"answered", "put", "unmark"} => \A k \in Keys : CacheHasMark(u, k)' => CacheHasMark(u, k)
    /\ \A k \in Keys : CacheRemoves(u, k) =>
          CacheRemoves(u, k)' \/ records'[k] \in {Cache!NoRecord, Cache!Empty} \/ k \in strayed'

\* A thread with a value has a key.
LEMMA CacheKeyKnown ==
    ASSUME CacheTypes, NEW u \in Threads, t[u].pc \notin {"idle", "clear"}
    PROVE  t[u].key \in Keys
BY DEF CacheTypes, CacheCalls, CacheAsked, CacheFull, CacheUpdates

\* Threads that do not move go on, as long as no mark becomes theirs.
LEMMA CacheSameThread ==
    ASSUME NEW u \in Threads, t'[u] = t[u], CacheFewer, \A k \in Keys : CacheHasMark(u, k)' => CacheHasMark(u, k)
    PROVE  CacheGoes(u)
<1>1. \A k \in Keys : CacheRemoves(u, k) => CacheRemoves(u, k)' \/ records'[k] \in {Cache!NoRecord, Cache!Empty}
    BY DEF CacheRemoves, CacheFewer
<1>2. QED
    BY <1>1 DEF CacheGoes

\* A step that puts no record and leaves the cluster alone keeps the invariant.
LEMMA CacheQuiet ==
    ASSUME CacheIInv, CacheTypes', UNCHANGED <<server, events, registered, registration, handler>>,
           CacheFewer, \A u \in Threads : CacheGoes(u)
    PROVE  CacheIInv'
<1>1. CacheFresh /\ \A k \in Keys : Cache!Stale(k) => CacheLeaving(k) \/ k \in strayed
    BY DEF CacheIInv
<1>2. \A k \in Keys : CacheComing(k)' <=> CacheComing(k)
    BY DEF CacheComing
<1>3. CacheFresh'
    <2> SUFFICES ASSUME NEW u \in Threads, t'[u].pc \in {"answered", "put"}, CacheHasMark(u, t[u].key)',
                        t'[u].value # server[t'[u].key]
                 PROVE  \/ CacheComing(t[u].key)'
                        \/ ~registered' \/ registration' \notin {"onClear", "done"}
        BY SMTT(20) DEF CacheFresh
    <2>1. t'[u].key \in Keys
        BY DEF CacheTypes, CacheCalls, CacheAsked, CacheFull, CacheUpdates
    <2>2. t[u].pc \in {"answered", "put"} /\ t'[u].value = t[u].value /\ t'[u].key = t[u].key
        BY Zenon DEF CacheGoes
    <2>3. CacheHasMark(u, t[u].key)
        BY <2>1, <2>2, ZenonT(30) DEF CacheGoes, CacheHasMark
    <2>4. CacheComing(t[u].key) \/ ~registered \/ registration \notin {"onClear", "done"}
        BY <1>1, <2>2, <2>3 DEF CacheFresh
    <2>5. QED
        BY <2>2, <2>4 DEF CacheComing
<1>4. ASSUME NEW k \in Keys, Cache!Stale(k)'
      PROVE  CacheLeaving(k)' \/ k \in strayed'
    <2>1. records'[k] \notin {Cache!NoRecord, Cache!Empty}
        BY <1>4 DEF Cache!Stale, Cache!Cached
    <2>2. Cache!Stale(k) /\ (k \in strayed => k \in strayed')
        BY <1>4, <2>1, Zenon DEF Cache!Stale, Cache!Cached, CacheFewer
    <2>3. \A u \in Threads : CacheRemoves(u, k) => CacheRemoves(u, k)' \/ k \in strayed'
        BY <2>1 DEF CacheGoes
    <2>4. QED
        BY <1>1, <1>2, <2>2, <2>3, Zenon DEF CacheLeaving
<1>5. QED
    BY <1>3, <1>4, Zenon DEF CacheIInv

\* Records are removed, and nothing else.
LEMMA CacheDropped ==
    ASSUME CacheTypes, NEW K, Cache!DropRecords(K)
    PROVE  /\ records' \in [Keys -> CacheValues]
           /\ lent' \in [Keys -> [key : CacheLenders, value : CacheLenders]]
           /\ CacheFewer
           /\ \A k \in Keys : k \in K => records'[k] = Cache!NoRecord
BY DEF CacheTypes, Cache!DropRecords, CacheFewer, Cache!NotLent, Cache!NoRecord, CacheLenders, CacheValues

\* A step of thread v that puts no record keeps the invariant.
LEMMA CacheThreadMoves ==
    ASSUME CacheIInv, NEW v \in Threads, NEW x \in CacheCalls, t' = [t EXCEPT ![v] = x],
           UNCHANGED <<Cache!cluster, Cache!listener>>, CacheFewer, CacheGoes(v),
           marks' \in [Cache!Slots -> {"UNMARKED", "MARKED", "REMOVED"}], owner' \in [Cache!Slots -> CacheLenders],
           records' \in [Keys -> CacheValues], lent' \in [Keys -> [key : CacheLenders, value : CacheLenders]],
           \A u \in Threads \ {v}, k \in Keys : CacheHasMark(u, k)' => CacheHasMark(u, k)
    PROVE  CacheIInv'
<1>1. CacheTypes'
    BY DEF CacheIInv, CacheTypes, Cache!cluster
<1>2. \A u \in Threads \ {v} : t'[u] = t[u]
    BY DEF CacheIInv, CacheTypes
<1>3. \A u \in Threads : CacheGoes(u)
    BY <1>2, CacheSameThread
<1>4. QED
    BY <1>1, <1>3, CacheQuiet DEF Cache!cluster, Cache!listener

\* The slot of a key.
LEMMA CacheSlotKnown == ASSUME NEW k \in Keys PROVE get_slot(k) \in Cache!Slots
BY DEF Cache!Slots

\* Marks that are left alone, removed or cleared are nobody's that were not.
LEMMA CacheMarksKept ==
    ASSUME CacheTypes,
           \/ UNCHANGED Cache!marking
           \/ \E k \in Keys : Cache!TryRemoveMark(k)
           \/ Cache!InitMarks
    PROVE  /\ marks' \in [Cache!Slots -> {"UNMARKED", "MARKED", "REMOVED"}] /\ owner' \in [Cache!Slots -> CacheLenders]
           /\ \A u, k : k \in Keys /\ CacheHasMark(u, k)' => CacheHasMark(u, k)
<1>1. CASE UNCHANGED Cache!marking
    BY <1>1 DEF Cache!marking, CacheTypes, CacheHasMark
<1>2. ASSUME NEW k \in Keys, Cache!TryRemoveMark(k)
      PROVE  /\ marks' \in [Cache!Slots -> {"UNMARKED", "MARKED", "REMOVED"}] /\ owner' = owner
               /\ \A s \in Cache!Slots : marks'[s] = "MARKED" => marks[s] = "MARKED"
    BY <1>2, CacheSlotKnown DEF Cache!TryRemoveMark, CacheTypes
<1>3. ASSUME Cache!InitMarks
      PROVE  /\ marks' \in [Cache!Slots -> {"UNMARKED", "MARKED", "REMOVED"}] /\ owner' = owner
               /\ \A s \in Cache!Slots : marks'[s] = "MARKED" => marks[s] = "MARKED"
    BY <1>3 DEF Cache!InitMarks
<1>4. QED
    BY <1>1, <1>2, <1>3, CacheSlotKnown DEF CacheHasMark, CacheTypes

\* A call goes on to its next step.
LEMMA CacheGotoTyped ==
    ASSUME CacheTypes, NEW u \in Threads, NEW p, Cache!Goto(u, p),
           \/ t[u] \in CacheFull /\ p \in {"answered", "put", "unmark", "move", "invalidate", "drop", "force"}
           \/ t[u] \in CacheAsked /\ p \in {"reset", "invalidate", "drop", "force"}
           \/ t[u] \in CacheUpdates /\ p = "drop"
    PROVE  \E x \in CacheCalls :
               /\ x.pc = p /\ x.key = t[u].key /\ x.op = t[u].op
               /\ t[u] \in CacheFull => x \in CacheFull /\ x.value = t[u].value
               /\ t' = [t EXCEPT ![u] = x] /\ t'[u] = x
<1> DEFINE x == [t[u] EXCEPT !.pc = p]
<1>1. t' = [t EXCEPT ![u] = x] /\ t'[u] = x
    BY DEF Cache!Goto, CacheTypes
<1>2. t[u] \in CacheAsked => t[u] \notin CacheFull
    BY DEF CacheAsked, CacheFull
<1>3. CASE t[u] \in CacheFull /\ p \in {"answered", "put", "unmark", "move", "invalidate", "drop", "force"}
    BY <1>1, <1>3, Zenon DEF CacheCalls, CacheFull
<1>4. CASE t[u] \in CacheUpdates /\ t[u] \notin CacheFull /\ p = "drop"
    BY <1>1, <1>4, Zenon DEF CacheCalls, CacheUpdates
<1>5. CASE t[u] \in CacheAsked /\ t[u] \notin CacheFull /\ p \in {"reset", "invalidate", "drop", "force"}
    BY <1>1, <1>5, Zenon DEF CacheCalls, CacheAsked
<1>6. QED
    BY <1>2, <1>3, <1>4, <1>5

\* Which steps only a get or get_all makes.
LEMMA CacheFullKnown ==
    ASSUME CacheTypes, NEW u \in Threads, t[u].pc \in {"answered", "put", "unmark", "move"}
    PROVE  t[u] \in CacheFull
BY Zenon DEF CacheTypes, CacheCalls, CacheAsked, CacheFull, CacheUpdates

\* The end of a call.
LEMMA CacheIdleTyped == Cache!Idle \in CacheCalls /\ Cache!Idle.pc = "idle"
BY DEF Cache!Idle, CacheCalls

-----------------------------------------------------------------------------
\* The store is left alone.
LEMMA CacheStoreKept ==
    ASSUME CacheTypes, UNCHANGED Cache!store
    PROVE  /\ records' \in [Keys -> CacheValues] /\ lent' \in [Keys -> [key : CacheLenders, value : CacheLenders]]
           /\ CacheFewer
BY DEF CacheTypes, Cache!store, CacheFewer

\* near_cache_->get finds nothing.
LEMMA CacheLookupOk ==
    ASSUME CacheIInv, NEW u \in Threads, NEW k \in Keys, NEW op \in CacheOps, Cache!Lookup(u, k, op)
    PROVE  CacheIInv'
<1> DEFINE x == [pc |-> "missed", op |-> op, key |-> k]
<1>1. x \in CacheCalls /\ x.pc = "missed" /\ t' = [t EXCEPT ![u] = x]
    BY Zenon DEF CacheCalls, Cache!Lookup, Cache!Begin
<1> HIDE DEF x
<1>2. t'[u].pc = "missed" /\ t[u].pc = "idle"
    BY <1>1 DEF Cache!Lookup, Cache!Begin, Cache!At, CacheIInv, CacheTypes
<1>3. CacheGoes(u)
    BY <1>2 DEF CacheGoes, CacheRemoves
<1>4. QED
    BY <1>1, <1>3, CacheMarksKept, CacheDropped, CacheThreadMoves, Zenon DEF Cache!Lookup, CacheIInv

\* try_mark: nobody has the mark of the slot, or nothing changes.
LEMMA CacheTryMarkOk ==
    ASSUME CacheIInv, NEW u \in Threads, Cache!TryMark(u)
    PROVE  CacheIInv'
<1> DEFINE free == marks[get_slot(t[u].key)] = "UNMARKED"
           x == [pc |-> "sent", op |-> t[u].op, key |-> t[u].key, marked |-> free]
<1>1. t[u].key \in Keys /\ t[u].op \in CacheOps /\ t[u].pc = "missed"
    BY ZenonT(30) DEF Cache!TryMark, Cache!At, CacheIInv, CacheTypes, CacheCalls, CacheAsked, CacheFull, CacheUpdates
<1>2. x \in CacheCalls /\ x.pc = "sent"
    BY <1>1 DEF CacheCalls, CacheAsked
<1>3. t' = [t EXCEPT ![u] = x]
    BY DEF Cache!TryMark, Cache!Become
<1>4. /\ marks' = IF free THEN [marks EXCEPT ![get_slot(t[u].key)] = "MARKED"] ELSE marks
      /\ owner' = IF free THEN [owner EXCEPT ![get_slot(t[u].key)] = u] ELSE owner
    BY DEF Cache!TryMark
<1> HIDE DEF x, free
<1>5. marks' \in [Cache!Slots -> {"UNMARKED", "MARKED", "REMOVED"}] /\ owner' \in [Cache!Slots -> CacheLenders]
    BY <1>4, Zenon DEF CacheIInv, CacheTypes, CacheLenders
<1>6. \A v \in Threads \ {u}, k \in Keys : CacheHasMark(v, k)' => CacheHasMark(v, k)
    BY <1>1, <1>4, CacheSlotKnown DEF CacheHasMark, CacheIInv, CacheTypes
<1>7. t'[u].pc = "sent"
    BY <1>2, <1>3, Zenon DEF CacheIInv, CacheTypes
<1>8. CacheGoes(u)
    BY <1>1, <1>7 DEF CacheGoes, CacheRemoves
<1>9. QED
    BY <1>2, <1>3, <1>4, <1>5, <1>6, <1>8, CacheStoreKept, CacheThreadMoves, Zenon DEF Cache!TryMark, CacheIInv

\* The member reads the value.
LEMMA CacheServedOk ==
    ASSUME CacheIInv, NEW u \in Threads, Cache!Served(u)
    PROVE  CacheIInv'
<1> DEFINE x == [pc |-> "answered", op |-> t[u].op, key |-> t[u].key, marked |-> t[u].marked,
                 value |-> server[t[u].key]]
<1>1. t[u].key \in Keys /\ t[u].op \in CacheOps /\ t[u].pc = "sent" /\ t[u].marked \in BOOLEAN
    BY Zenon DEF Cache!Served, Cache!At, CacheIInv, CacheTypes, CacheCalls, CacheAsked, CacheFull, CacheUpdates
<1>2. server[t[u].key] \in Nat
    BY <1>1 DEF CacheIInv, CacheTypes
<1>3. x \in CacheCalls /\ x.pc = "answered" /\ x.key = t[u].key /\ x.value = server[x.key]
    BY <1>1, <1>2, Zenon DEF CacheCalls, CacheFull
<1>4. t' = [t EXCEPT ![u] = x]
    BY DEF Cache!Served, Cache!Become
<1> HIDE DEF x
<1>5. t'[u] = x
    BY <1>4 DEF CacheIInv, CacheTypes
<1>6. UNCHANGED Cache!marking
    BY Zenon DEF Cache!Served
<1>7. CacheGoes(u)
    BY <1>1, <1>3, <1>5, <1>6 DEF CacheGoes, CacheRemoves, CacheHasMark, Cache!marking
<1>8. QED
    BY <1>3, <1>4, <1>6, <1>7, CacheStoreKept, CacheMarksKept, CacheThreadMoves, Zenon DEF Cache!Served, CacheIInv

\* A call ends that was not going to remove a record, or has removed it or left it
\* astray.
LEMMA CacheEndOk ==
    ASSUME CacheIInv, NEW u \in Threads, Cache!Finish(u), UNCHANGED <<Cache!cluster, Cache!listener>>,
           CacheFewer,
           marks' \in [Cache!Slots -> {"UNMARKED", "MARKED", "REMOVED"}], owner' \in [Cache!Slots -> CacheLenders],
           records' \in [Keys -> CacheValues], lent' \in [Keys -> [key : CacheLenders, value : CacheLenders]],
           \A v \in Threads, k \in Keys : CacheHasMark(v, k)' => CacheHasMark(v, k),
           \A k \in Keys : CacheRemoves(u, k) => records'[k] = Cache!NoRecord \/ k \in strayed'
    PROVE  CacheIInv'
<1>1. t' = [t EXCEPT ![u] = Cache!Idle] /\ t'[u] = Cache!Idle
    BY DEF Cache!Finish, Cache!Become, CacheIInv, CacheTypes
<1>2. CacheGoes(u)
    BY <1>1, CacheIdleTyped, Zenon DEF CacheGoes
<1>3. QED
    BY <1>1, <1>2, CacheIdleTyped, CacheThreadMoves, Zenon

\* The request fails.
LEMMA CacheRequestFailsOk ==
    ASSUME CacheIInv, NEW u \in Threads, Cache!RequestFails(u)
    PROVE  CacheIInv'
<1>1. \A k \in Keys : ~CacheRemoves(u, k)
    BY DEF Cache!RequestFails, Cache!At, CacheRemoves
<1>2. QED
    BY <1>1, CacheEndOk, CacheStoreKept, CacheMarksKept DEF Cache!RequestFails, CacheIInv

\* A call goes to its next step.
LEMMA CacheGotoOk ==
    ASSUME CacheIInv, NEW u \in Threads, NEW p, Cache!Goto(u, p), UNCHANGED <<Cache!cluster, Cache!listener>>,
           \/ t[u] \in CacheFull /\ p \in {"put", "invalidate", "drop", "force"}
           \/ t[u] \in CacheAsked /\ p \in {"reset", "invalidate", "drop", "force"}
           \/ t[u] \in CacheUpdates /\ p = "drop",
           p = "put" => t[u].pc = "answered",
           CacheFewer,
           marks' \in [Cache!Slots -> {"UNMARKED", "MARKED", "REMOVED"}], owner' \in [Cache!Slots -> CacheLenders],
           records' \in [Keys -> CacheValues], lent' \in [Keys -> [key : CacheLenders, value : CacheLenders]],
           \A v \in Threads, k \in Keys : CacheHasMark(v, k)' => CacheHasMark(v, k),
           \A k \in Keys : CacheRemoves(u, k) =>
               (t[u].key = k /\ p \in {"invalidate", "drop"}) \/ records'[k] \in {Cache!NoRecord, Cache!Empty}
    PROVE  CacheIInv'
<1>1. PICK x \in CacheCalls :
               /\ x.pc = p /\ x.key = t[u].key /\ x.op = t[u].op
               /\ t[u] \in CacheFull => x \in CacheFull /\ x.value = t[u].value
               /\ t' = [t EXCEPT ![u] = x] /\ t'[u] = x
    BY CacheGotoTyped, ZenonT(30) DEF CacheIInv
<1>2. \A k \in Keys : CacheRemoves(u, k) => CacheRemoves(u, k)' \/ records'[k] \in {Cache!NoRecord, Cache!Empty}
    BY <1>1, Zenon DEF CacheRemoves
<1>3. x.pc = "put" => t[u].pc = "answered" /\ x.value = t[u].value
    BY <1>1, Zenon DEF CacheAsked, CacheUpdates
<1>4. CacheGoes(u)
    BY <1>1, <1>2, <1>3, Zenon DEF CacheGoes
<1>5. QED
    BY <1>1, <1>4, CacheThreadMoves, Zenon

\* The request cannot be sent.
LEMMA CacheInvokeThrowsOk ==
    ASSUME CacheIInv, NEW u \in Threads, Cache!InvokeThrows(u)
    PROVE  CacheIInv'
<1> DEFINE p == IF t[u].op = "get" THEN "reset" ELSE "force"
<1>1. t[u] \in CacheAsked /\ \A k \in Keys : ~CacheRemoves(u, k)
    <2>1. t[u].pc = "sent" /\ t[u] \in CacheCalls
        BY Zenon DEF Cache!InvokeThrows, Cache!At, CacheIInv, CacheTypes
    <2>2. QED
        BY <2>1 DEF CacheCalls, CacheFull, CacheUpdates, CacheRemoves
<1>2. p \in {"reset", "force"} /\ p # "put"
    BY Zenon
<1>3. Cache!Goto(u, p) /\ UNCHANGED <<Cache!cluster, Cache!marking, Cache!store, Cache!listener>>
    BY Zenon DEF Cache!InvokeThrows
<1> HIDE DEF p
<1>4. QED
    BY <1>1, <1>2, <1>3, CacheGotoOk, CacheStoreKept, CacheMarksKept, Zenon DEF CacheIInv

\* do_eviction_if_required removes records only.
LEMMA CacheEvictOk ==
    ASSUME CacheTypes, Cache!Evict
    PROVE  /\ records' \in [Keys -> CacheValues] /\ lent' \in [Keys -> [key : CacheLenders, value : CacheLenders]]
           /\ CacheFewer
<1>1. CASE \E k \in Cache!Cached : Cache!DropRecords({k})
    BY <1>1, CacheDropped
<1>2. CASE UNCHANGED <<records, lent, strayed>>
    BY <1>2 DEF CacheTypes, CacheFewer
<1>3. QED
    BY <1>1, <1>2, Zenon DEF Cache!Evict, Cache!store

\* The answer is returned, or goes to the near cache.
LEMMA CacheAnswerOk ==
    ASSUME CacheIInv, NEW u \in Threads, Cache!Answer(u)
    PROVE  CacheIInv'
<1>1. t[u] \in CacheFull /\ t[u].pc = "answered" /\ \A k \in Keys : ~CacheRemoves(u, k)
    BY CacheFullKnown DEF Cache!Answer, Cache!At, CacheRemoves, CacheIInv
<1>2. CASE Cache!Finish(u) /\ UNCHANGED Cache!store
    BY <1>1, <1>2, CacheEndOk, CacheStoreKept, CacheMarksKept, Zenon DEF Cache!Answer, CacheIInv
<1>3. CASE Cache!Goto(u, "put") /\ Cache!Evict
    BY <1>1, <1>3, CacheGotoOk, CacheEvictOk, CacheMarksKept, Zenon DEF Cache!Answer, CacheIInv
<1>4. QED
    BY <1>2, <1>3, Zenon DEF Cache!Answer

\* reset_to_unmarked_state: a get that finds its mark has nothing to remove, one
\* that finds another's mark gives that back and leaves its record astray.
LEMMA CacheResetOk ==
    ASSUME CacheIInv, NEW u \in Threads, Cache!reset_to_unmarked_state(u)
    PROVE  CacheIInv'
<1> DEFINE s == get_slot(t[u].key)
<1>1. t[u].pc \in {"unmark", "reset"} /\ t[u] \in CacheFull \cup CacheAsked /\ t[u].key \in Keys
    <2>1. t[u].pc \in {"unmark", "reset"} /\ t[u] \in CacheCalls /\ CacheTypes
        BY Zenon DEF Cache!reset_to_unmarked_state, CacheIInv, CacheTypes
    <2>2. t[u] \in CacheFull \cup CacheAsked
        BY <2>1 DEF CacheCalls, CacheUpdates
    <2>3. QED
        BY <2>1, <2>2, CacheKeyKnown
<1>2. UNCHANGED <<Cache!cluster, Cache!listener>> /\ owner' = owner /\ UNCHANGED <<records, lent>>
    BY Zenon DEF Cache!reset_to_unmarked_state
<1>3. CASE marks[s] = "MARKED"
    <2>1. /\ marks' = [marks EXCEPT ![s] = "UNMARKED"] /\ Cache!Finish(u)
          /\ strayed' = IF t[u].pc = "unmark" /\ owner[s] # u
                        THEN strayed \cup {t[u].key} ELSE strayed
        BY <1>3, Zenon DEF Cache!reset_to_unmarked_state, Cache!At
    <2>2. marks' \in [Cache!Slots -> {"UNMARKED", "MARKED", "REMOVED"}] /\ owner' \in [Cache!Slots -> CacheLenders]
        BY <1>2, <2>1, Zenon DEF CacheIInv, CacheTypes
    <2>3. \A v \in Threads, k \in Keys : CacheHasMark(v, k)' => CacheHasMark(v, k)
        BY <1>2, <2>1, <2>2, CacheSlotKnown DEF CacheHasMark, CacheIInv, CacheTypes
    <2>4. /\ records' \in [Keys -> CacheValues] /\ lent' \in [Keys -> [key : CacheLenders, value : CacheLenders]]
          /\ CacheFewer
        BY <1>2, <2>1, Zenon DEF CacheFewer, CacheIInv, CacheTypes
    <2>5. ASSUME NEW k \in Keys, CacheRemoves(u, k) PROVE k \in strayed'
        <3>1. t[u].pc = "unmark" /\ t[u].key = k /\ ~CacheHasMark(u, k)
            BY <1>1, <2>5 DEF CacheRemoves
        <3>2. owner[s] # u
            BY <1>3, <3>1, Zenon DEF CacheHasMark
        <3>3. QED
            BY <2>1, <3>1, <3>2, SMTT(20)
    <2>6. QED
        BY <1>2, <2>1, <2>2, <2>3, <2>4, <2>5, CacheEndOk, Zenon
<1>4. CASE marks[s] # "MARKED"
    <2>1. Cache!Goto(u, "invalidate") /\ UNCHANGED Cache!marking /\ strayed' = strayed
        BY <1>2, <1>4, Zenon DEF Cache!reset_to_unmarked_state, Cache!marking
    <2>2. \A k \in Keys : CacheRemoves(u, k) => t[u].key = k
        BY <1>1 DEF CacheRemoves
    <2>3. /\ records' \in [Keys -> CacheValues] /\ lent' \in [Keys -> [key : CacheLenders, value : CacheLenders]]
          /\ CacheFewer
        BY <1>2, <2>1, Zenon DEF CacheFewer, CacheIInv, CacheTypes
    <2>4. QED
        BY <1>1, <1>2, <2>1, <2>2, <2>3, CacheGotoOk, CacheMarksKept, Zenon DEF CacheIInv
<1>5. QED
    BY <1>3, <1>4, Zenon

\* force_unmark.
LEMMA CacheForceUnmarkOk ==
    ASSUME CacheIInv, NEW u \in Threads, Cache!ForceUnmark(u)
    PROVE  CacheIInv'
<1>1. t[u].pc = "force" /\ \A k \in Keys : ~CacheRemoves(u, k)
    BY DEF Cache!ForceUnmark, Cache!At, CacheRemoves
<1>2. marks' \in [Cache!Slots -> {"UNMARKED", "MARKED", "REMOVED"}] /\ owner' = owner
    BY Zenon DEF Cache!ForceUnmark, CacheIInv, CacheTypes
<1>3. \A v \in Threads, k \in Keys : CacheHasMark(v, k)' => CacheHasMark(v, k)
    BY <1>2, CacheSlotKnown DEF Cache!ForceUnmark, CacheHasMark, CacheIInv, CacheTypes
<1>4. QED
    BY <1>1, <1>2, <1>3, CacheEndOk, CacheStoreKept, ZenonT(30) DEF Cache!ForceUnmark, CacheIInv, CacheTypes

\* get_all moves the key and the value it lent away: the record is found no more,
\* or is left empty.
LEMMA CacheMoveOutOk ==
    ASSUME CacheIInv, NEW u \in Threads, Cache!MoveOut(u)
    PROVE  CacheIInv'
<1> DEFINE k0 == t[u].key
<1>1. t[u] \in CacheFull /\ t[u].pc = "move" /\ k0 \in Keys /\ Cache!Goto(u, "force")
    BY CacheFullKnown, CacheKeyKnown DEF Cache!MoveOut, Cache!At, CacheIInv
<1>2. \A k \in Keys : CacheRemoves(u, k) => k = k0 /\ lent[k].value = u
    BY <1>1, Zenon DEF CacheRemoves
<1>3. CASE Cache!DropRecords({k0})
    <2>1. \A k \in Keys : CacheRemoves(u, k) => records'[k] \in {Cache!NoRecord, Cache!Empty}
        BY <1>2, <1>3, CacheDropped, Zenon DEF CacheIInv
    <2>2. QED
        BY <1>1, <1>3, <2>1, CacheGotoOk, CacheDropped, CacheMarksKept, Zenon DEF Cache!MoveOut, CacheIInv
<1>4. CASE records' = [records EXCEPT ![k0] = Cache!Empty] /\ UNCHANGED <<lent, strayed>>
    <2>1. Cache!Empty \in CacheValues
        BY DEF CacheValues
    <2>2. records' \in [Keys -> CacheValues] /\ lent' \in [Keys -> [key : CacheLenders, value : CacheLenders]] /\ CacheFewer
        BY <1>4, <2>1, Zenon DEF CacheFewer, CacheIInv, CacheTypes
    <2>3. records'[k0] = Cache!Empty
        BY <1>1, <1>4 DEF CacheIInv, CacheTypes
    <2>4. QED
        BY <1>1, <1>2, <2>2, <2>3, CacheGotoOk, CacheMarksKept, Zenon DEF Cache!MoveOut, CacheIInv
<1>5. CASE UNCHANGED Cache!store /\ u \notin {lent[k0].key, lent[k0].value}
    BY <1>1, <1>2, <1>5, CacheGotoOk, CacheStoreKept, CacheMarksKept, Zenon DEF Cache!MoveOut, CacheIInv
<1>6. QED
    BY <1>3, <1>4, <1>5, Zenon DEF Cache!MoveOut

\* put: the value of a get that has its mark is the cluster's or is removed by an
\* invalidation under way; without the mark the get removes it; a get_all moves it
\* away.
LEMMA CachePutOk ==
    ASSUME CacheIInv, NEW u \in Threads, Cache!Put(u)
    PROVE  CacheIInv'
<1> DEFINE k0 == t[u].key
           p == IF t[u].op = "get" THEN "unmark" ELSE "move"
           l == IF t[u].op = "get" THEN Cache!NoThread ELSE u
<1>1. t[u] \in CacheFull /\ t[u].pc = "put" /\ k0 \in Keys
    BY CacheFullKnown, CacheKeyKnown, Zenon DEF Cache!Put, Cache!At, CacheIInv
<1>2. Cache!Goto(u, p) /\ Cache!PutRecord(k0, t[u].value, l)
    BY DEF Cache!Put
<1>3. p \in {"unmark", "move"} /\ (p = "move" => l = u) /\ l \in CacheLenders
    BY Zenon DEF CacheLenders
<1> HIDE DEF p, l
<1>4. UNCHANGED <<Cache!cluster, Cache!marking, Cache!listener>>
    BY Zenon DEF Cache!Put
<1>5. PICK x \in CacheCalls : x.pc = p /\ x.key = k0 /\ t' = [t EXCEPT ![u] = x] /\ t'[u] = x
    BY <1>1, <1>2, <1>3, CacheGotoTyped DEF CacheIInv
<1>6. \A k \in Keys : ~CacheRemoves(u, k)
    BY <1>1 DEF CacheRemoves
<1>7. CASE UNCHANGED <<records, lent, strayed>>
    <2>1. CacheGoes(u)
        BY <1>3, <1>4, <1>5, <1>6, Zenon DEF CacheGoes, CacheHasMark, Cache!marking
    <2>2. /\ records' \in [Keys -> CacheValues] /\ lent' \in [Keys -> [key : CacheLenders, value : CacheLenders]]
          /\ CacheFewer
        BY <1>7 DEF CacheIInv, CacheTypes, CacheFewer
    <2>3. QED
        BY <1>4, <1>5, <2>1, <2>2, CacheMarksKept, CacheThreadMoves, Zenon DEF CacheIInv
<1>8. CASE ~UNCHANGED <<records, lent, strayed>>
    <2> DEFINE e == [key |-> IF k0 \in Cache!Cached THEN lent[k0].key ELSE l, value |-> l]
    <2>1. /\ records' = [records EXCEPT ![k0] = t[u].value] /\ lent' = [lent EXCEPT ![k0] = e]
          /\ strayed' = strayed \ {k0}
        BY <1>2, <1>8, Zenon DEF Cache!PutRecord
    <2>2. e \in [key : CacheLenders, value : CacheLenders] /\ e.value = l
        BY <1>1, <1>3, Zenon DEF CacheIInv, CacheTypes
    <2> HIDE DEF e
    <2>3. t[u].value \in CacheValues
        BY <1>1 DEF CacheFull, CacheValues
    <2>4. CacheTypes'
        BY <1>4, <1>5, <2>1, <2>2, <2>3, CacheMarksKept, Zenon DEF CacheIInv, CacheTypes, Cache!cluster
    <2>5. \A v \in Threads : v # u => t'[v] = t[v]
        BY <1>5, SMTT(20) DEF CacheIInv, CacheTypes
    <2>6. \A v \in Threads, k \in Keys : CacheHasMark(v, k)' <=> CacheHasMark(v, k)
        BY <1>4 DEF CacheHasMark, Cache!marking
    <2>7. \A k \in Keys : CacheComing(k)' <=> CacheComing(k)
        BY <1>4 DEF CacheComing, Cache!cluster
    <2>8. CacheFresh /\ \A k \in Keys : Cache!Stale(k) => CacheLeaving(k) \/ k \in strayed
        BY <1>4, Zenon DEF CacheIInv, Cache!marking
    <2>9. CacheFresh'
        <3> SUFFICES ASSUME NEW v \in Threads, t'[v].pc \in {"answered", "put"}, CacheHasMark(v, t[v].key)',
                            t'[v].value # server'[t'[v].key]
                     PROVE  \/ CacheComing(t[v].key)'
                            \/ ~registered' \/ registration' \notin {"onClear", "done"}
            BY ZenonT(30) DEF CacheFresh
        <3>1. v # u /\ t'[v] = t[v]
            BY <1>3, <1>5, <2>5
        <3>2. t[v].key \in Keys
            BY <3>1, CacheKeyKnown, Zenon DEF CacheIInv
        <3>3. CacheHasMark(v, t[v].key)
            BY <1>4, <3>1, Zenon DEF CacheHasMark, Cache!marking
        <3>4. CacheComing(t[v].key) \/ ~registered \/ registration \notin {"onClear", "done"}
            BY <1>4, <2>8, <3>1, <3>3, Zenon DEF CacheFresh, Cache!cluster
        <3>5. QED
            BY <1>4, <3>1, <3>4, Zenon DEF CacheComing, Cache!cluster, Cache!listener
    <2>10. ASSUME NEW k \in Keys, Cache!Stale(k)', k # k0
           PROVE  CacheLeaving(k)' \/ k \in strayed'
        <3>1. records'[k] = records[k] /\ lent'[k] = lent[k]
            BY <2>1, <2>10 DEF CacheIInv, CacheTypes
        <3>2. Cache!Stale(k)
            BY <1>4, <2>10, <3>1, Zenon DEF Cache!Stale, Cache!Cached, Cache!cluster
        <3>3. \A v \in Threads : CacheRemoves(v, k) => CacheRemoves(v, k)'
            BY <1>6, <2>5, <2>6, <3>1, Zenon DEF CacheRemoves
        <3>4. QED
            BY <1>4, <2>1, <2>7, <2>8, <2>10, <3>2, <3>3, Zenon DEF CacheLeaving, Cache!cluster, Cache!listener
    <2>11. ASSUME NEW k \in Keys, Cache!Stale(k)', k = k0
           PROVE  CacheLeaving(k)'
        <3>1. t[u].value # server[k]
            BY <1>4, <2>1, <2>11 DEF Cache!Stale, Cache!cluster, CacheIInv, CacheTypes
        <3>2. CASE CacheHasMark(u, k) /\ p = "unmark"
            <4>1. CacheComing(k) \/ ~registered \/ registration # "done"
                BY <1>1, <2>8, <2>11, <3>1, <3>2 DEF CacheFresh
            <4>2. QED
                BY <1>4, <2>7, <4>1, ZenonT(30) DEF CacheLeaving, Cache!cluster, Cache!listener
        <3>3. CASE ~CacheHasMark(u, k) /\ p = "unmark"
            <4>1. CacheRemoves(u, k)'
                BY <1>5, <2>6, <2>11, <3>3 DEF CacheRemoves
            <4>2. QED
                BY <4>1, Zenon DEF CacheLeaving
        <3>4. CASE p = "move"
            <4>1. lent'[k].value = u
                BY <1>3, <2>1, <2>2, <2>11, <3>4, Zenon DEF CacheIInv, CacheTypes
            <4>2. CacheRemoves(u, k)'
                BY <1>5, <2>11, <3>4, <4>1, Zenon DEF CacheRemoves
            <4>3. QED
                BY <4>2 DEF CacheLeaving
        <3>5. QED
            BY <1>3, <3>2, <3>3, <3>4
    <2>12. QED
        BY <2>4, <2>9, <2>10, <2>11, Zenon DEF CacheIInv
<1>9. QED
    BY <1>7, <1>8, Zenon

\* An updating call begins its invalidation when its request is answered.
LEMMA CacheUpdateOk ==
    ASSUME CacheIInv, NEW u \in Threads, NEW k \in Keys, Cache!Update(u, k)
    PROVE  CacheIInv'
<1> DEFINE x == [pc |-> "invalidate", op |-> "put", key |-> k]
<1>1. x \in CacheCalls /\ x.pc = "invalidate" /\ t' = [t EXCEPT ![u] = x]
    BY Zenon DEF CacheCalls, CacheUpdates, Cache!Update, Cache!Begin
<1> HIDE DEF x
<1>2. t'[u].pc = "invalidate" /\ t[u].pc = "idle"
    BY <1>1, Zenon DEF Cache!Update, Cache!Begin, Cache!At, CacheIInv, CacheTypes
<1>3. CacheGoes(u)
    BY <1>2 DEF CacheGoes, CacheRemoves
<1>4. QED
    BY <1>1, <1>3, CacheMarksKept, CacheStoreKept, CacheThreadMoves, Zenon DEF Cache!Update, CacheIInv

\* A call that invalidates is an updating one or a get that found its mark removed.
LEMMA CacheInvalidatesKnown ==
    ASSUME CacheTypes, NEW u \in Threads, t[u].pc \in {"invalidate", "drop"}
    PROVE  \/ t[u] \in CacheFull \cup CacheAsked /\ t[u].op # "put"
           \/ t[u] \in CacheUpdates /\ t[u].op = "put"
BY Zenon DEF CacheTypes, CacheCalls, CacheAsked, CacheFull, CacheUpdates, CacheOps

\* try_remove.
LEMMA CacheInvalidateOk ==
    ASSUME CacheIInv, NEW u \in Threads, Cache!Invalidate(u)
    PROVE  CacheIInv'
<1>1. /\ t[u].pc = "invalidate" /\ t[u].key \in Keys /\ t[u] \in CacheFull \cup CacheAsked \cup CacheUpdates
      /\ \A k \in Keys : CacheRemoves(u, k) => t[u].key = k
    BY CacheInvalidatesKnown, CacheKeyKnown DEF Cache!Invalidate, Cache!At, CacheIInv, CacheRemoves
<1>2. QED
    BY <1>1, CacheGotoOk, CacheStoreKept, CacheMarksKept, Zenon DEF Cache!Invalidate, CacheIInv

\* The record goes.
LEMMA CacheDropOk ==
    ASSUME CacheIInv, NEW u \in Threads, Cache!Drop(u)
    PROVE  CacheIInv'
<1>1. /\ t[u].pc = "drop" /\ t[u].key \in Keys
      /\ \A k \in Keys : CacheRemoves(u, k) => t[u].key = k
    BY CacheKeyKnown, Zenon DEF Cache!Drop, Cache!At, CacheIInv, CacheRemoves
<1>2. \A k \in Keys : CacheRemoves(u, k) => records'[k] = Cache!NoRecord
    BY <1>1, CacheDropped, Zenon DEF Cache!Drop, CacheIInv
<1>3. CASE t[u].op = "put"
    BY <1>2, <1>3, CacheEndOk, CacheDropped, CacheMarksKept, Zenon DEF Cache!Drop, CacheIInv
<1>4. CASE t[u].op # "put"
    <2>1. t[u] \in CacheFull \cup CacheAsked
        BY <1>1, <1>4, CacheInvalidatesKnown, Zenon DEF CacheIInv
    <2>2. QED
        BY <1>1, <1>2, <1>4, <2>1, CacheGotoOk, CacheDropped, CacheMarksKept, Zenon DEF Cache!Drop, CacheIInv
<1>5. QED
    BY <1>3, <1>4, Zenon

\* remove_all clears the marks,
LEMMA CacheRemoveAllOk ==
    ASSUME CacheIInv, NEW u \in Threads, Cache!RemoveAll(u)
    PROVE  CacheIInv'
<1> DEFINE x == [pc |-> "clear"]
<1>1. x \in CacheCalls /\ x.pc = "clear" /\ t' = [t EXCEPT ![u] = x]
    BY DEF CacheCalls, Cache!RemoveAll, Cache!Begin
<1> HIDE DEF x
<1>2. t'[u].pc = "clear" /\ t[u].pc = "idle"
    BY <1>1, Zenon DEF Cache!RemoveAll, Cache!Begin, Cache!At, CacheIInv, CacheTypes
<1>3. CacheGoes(u)
    BY <1>2, Zenon DEF CacheGoes, CacheRemoves
<1>4. QED
    BY <1>1, <1>3, CacheMarksKept, CacheStoreKept, CacheThreadMoves, Zenon DEF Cache!RemoveAll, CacheIInv

\* then the records.
LEMMA CacheClearOk ==
    ASSUME CacheIInv, NEW u \in Threads, Cache!Clear(u)
    PROVE  CacheIInv'
<1>1. \A k \in Keys : CacheRemoves(u, k) => records'[k] = Cache!NoRecord
    BY CacheDropped, Zenon DEF Cache!Clear, Cache!ClearRecords, CacheIInv
<1>2. QED
    BY <1>1, CacheEndOk, CacheDropped, CacheMarksKept DEF Cache!Clear, Cache!ClearRecords, CacheIInv

-----------------------------------------------------------------------------
\* The value thread u has may stay in the near cache.
CacheMayStay(u) ==
    \/ t[u].value = server[t[u].key]
    \/ CacheComing(t[u].key)
    \/ ~registered \/ registration \notin {"onClear", "done"}

\* Not a user thread, but the cluster or the listener removes the record of k.
CacheInvalidated(k) ==
    \/ CacheComing(k)
    \/ handler.pc = "handle" /\ handler.key \in {k, Cache!AllKeys}
    \/ ~registered \/ registration # "done"

\* A step of the cluster, the listener or the expiration task.
LEMMA CacheOutside ==
    ASSUME CacheIInv, CacheTypes', UNCHANGED t, CacheFewer,
           \A u \in Threads, k \in Keys : CacheHasMark(u, k)' => CacheHasMark(u, k),
           \A u \in Threads : /\ t[u].pc \in {"answered", "put"} /\ t[u].key \in Keys
                              /\ CacheHasMark(u, t[u].key)' /\ CacheMayStay(u)
                              => CacheMayStay(u)',
           \A k \in Keys : Cache!Stale(k)' /\ ~CacheInvalidated(k)' => Cache!Stale(k) /\ ~CacheInvalidated(k)
    PROVE  CacheIInv'
<1>1. CacheFresh /\ \A k \in Keys : Cache!Stale(k) => CacheLeaving(k) \/ k \in strayed
    BY Zenon DEF CacheIInv
<1>2. CacheFresh'
    <2> SUFFICES ASSUME NEW u \in Threads, t'[u].pc \in {"answered", "put"}, CacheHasMark(u, t[u].key)'
                 PROVE  CacheMayStay(u)'
        BY Zenon DEF CacheFresh, CacheMayStay
    <2>1. t[u].pc \in {"answered", "put"} /\ t[u].key \in Keys
        BY CacheKeyKnown, Zenon DEF CacheIInv
    <2>2. CacheHasMark(u, t[u].key)
        BY <2>1, Zenon DEF CacheHasMark
    <2>3. CacheMayStay(u)
        BY <1>1, <2>1, <2>2, Zenon DEF CacheFresh, CacheMayStay
    <2>4. QED
        BY <2>1, <2>3, Zenon
<1>3. ASSUME NEW k \in Keys, Cache!Stale(k)'
      PROVE  CacheLeaving(k)' \/ k \in strayed'
    <2>1. CASE CacheInvalidated(k)'
        BY <2>1, Zenon DEF CacheInvalidated, CacheLeaving
    <2>2. CASE ~CacheInvalidated(k)'
        <3>1. Cache!Stale(k) /\ ~CacheInvalidated(k)
            BY <1>3, <2>2, Zenon
        <3>2. records'[k] \notin {Cache!NoRecord, Cache!Empty}
            BY <1>3, Zenon DEF Cache!Stale, Cache!Cached
        <3>3. CASE k \in strayed
            BY <3>2, <3>3, Zenon DEF CacheFewer
        <3>4. ASSUME NEW u \in Threads, CacheRemoves(u, k)
              PROVE  CacheLeaving(k)' \/ k \in strayed'
            BY <3>2, <3>4, CacheSameThread, Zenon DEF CacheGoes, CacheLeaving
        <3>5. QED
            BY <1>1, <3>1, <3>3, <3>4, Zenon DEF CacheLeaving, CacheInvalidated
    <2>3. QED
        BY <2>1, <2>2, Zenon
<1>4. QED
    BY <1>2, <1>3, Zenon DEF CacheIInv

\* The marks and the store are left alone.
LEMMA CacheUntouched ==
    ASSUME CacheTypes, UNCHANGED <<Cache!marking, Cache!store>>
    PROVE  /\ marks' \in [Cache!Slots -> {"UNMARKED", "MARKED", "REMOVED"}] /\ owner' \in [Cache!Slots -> CacheLenders]
           /\ \A u, k : k \in Keys /\ CacheHasMark(u, k)' => CacheHasMark(u, k)
           /\ records' \in [Keys -> CacheValues] /\ lent' \in [Keys -> [key : CacheLenders, value : CacheLenders]]
           /\ CacheFewer
BY CacheMarksKept, CacheStoreKept

\* What Send appends comes.
LEMMA CacheSendComes ==
    ASSUME CacheTypes, NEW e \in Keys \cup {Cache!AllKeys}, Cache!Send(e)
    PROVE  /\ events' \in Seq(Keys \cup {Cache!AllKeys})
           /\ \A k : CacheComing(k) => CacheComing(k)'
           /\ \A k : e \in {k, Cache!AllKeys} => CacheComing(k)' \/ ~registered
<1>1. CASE registered
    <2>1. events' = Append(events, e) /\ events \in Seq(Keys \cup {Cache!AllKeys})
        BY <1>1, Zenon DEF Cache!Send, CacheTypes
    <2>2. /\ events' \in Seq(Keys \cup {Cache!AllKeys}) /\ events'[Len(events) + 1] = e
          /\ Len(events) + 1 \in DOMAIN events'
          /\ \A i \in DOMAIN events : i \in DOMAIN events' /\ events'[i] = events[i]
        BY <2>1
    <2>3. QED
        BY <2>2 DEF CacheComing
<1>2. CASE ~registered
    BY <1>2, Zenon DEF Cache!Send, CacheTypes, CacheComing
<1>3. QED
    BY <1>1, <1>2, Zenon

\* A write of one key.
LEMMA CacheChangeOk ==
    ASSUME CacheIInv, NEW k0 \in Keys, Cache!Change(k0)
    PROVE  CacheIInv'
<1>1. /\ server' = [server EXCEPT ![k0] = @ + 1] /\ Cache!Send(k0) /\ UNCHANGED <<t, registered, Cache!listener>>
      /\ UNCHANGED <<Cache!marking, Cache!store>>
    BY DEF Cache!Change
<1>2. server' \in [Keys -> Nat] /\ \A k \in Keys : k # k0 => server'[k] = server[k]
    BY <1>1 DEF CacheIInv, CacheTypes
<1>3. CacheTypes'
    BY <1>1, <1>2, CacheSendComes, CacheUntouched DEF CacheIInv, CacheTypes
<1>4. ASSUME NEW u \in Threads, t[u].key \in Keys, CacheMayStay(u)
      PROVE  CacheMayStay(u)'
    <2>1. \A k : (CacheComing(k) => CacheComing(k)') /\ (k = k0 => CacheComing(k)' \/ ~registered)
        <3>1. k0 \in Keys \cup {Cache!AllKeys} /\ CacheTypes /\ Cache!Send(k0)
            BY <1>1 DEF CacheIInv
        <3>2. QED
            BY <3>1, CacheSendComes
    <2>2. registered' = registered /\ registration' = registration /\ t'[u] = t[u]
        BY <1>1, Zenon DEF Cache!listener
    <2>3. CASE t[u].key = k0
        BY <2>1, <2>2, <2>3, Zenon DEF CacheMayStay
    <2>4. CASE t[u].key # k0
        BY <1>2, <1>4, <2>1, <2>2, <2>4, Zenon DEF CacheMayStay
    <2>5. QED
        BY <2>3, <2>4
<1>5. ASSUME NEW k \in Keys, Cache!Stale(k)', ~CacheInvalidated(k)'
      PROVE  Cache!Stale(k) /\ ~CacheInvalidated(k)
    <2>1. ~CacheComing(k)' /\ registered
        BY <1>1, <1>5 DEF CacheInvalidated
    <2>2. k # k0 /\ ~CacheComing(k)
        BY <1>1, <2>1, CacheSendComes DEF CacheIInv
    <2>3. Cache!Stale(k)
        BY <1>1, <1>2, <1>5, <2>2 DEF Cache!Stale, Cache!Cached, Cache!store
    <2>4. QED
        BY <1>1, <1>5, <2>2, <2>3 DEF CacheInvalidated, Cache!listener
<1>6. QED
    BY <1>1, <1>3, <1>4, <1>5, CacheUntouched, CacheOutside, Zenon DEF CacheIInv

\* A map-wide change.
LEMMA CacheChangeAllOk ==
    ASSUME CacheIInv, Cache!ChangeAll
    PROVE  CacheIInv'
<1>1. /\ server' = [k \in Keys |-> server[k] + 1] /\ Cache!Send(Cache!AllKeys)
      /\ UNCHANGED <<t, registered, Cache!listener>> /\ UNCHANGED <<Cache!marking, Cache!store>>
    BY Zenon DEF Cache!ChangeAll
<1>2. CacheTypes'
    BY <1>1, CacheSendComes, CacheUntouched DEF CacheIInv, CacheTypes
<1>3. \A k : CacheComing(k)' \/ ~registered'
    BY <1>1, CacheSendComes DEF CacheIInv
<1>4. (\A u \in Threads : CacheMayStay(u)') /\ (\A k \in Keys : CacheInvalidated(k)')
    BY <1>1, <1>3, Zenon DEF CacheMayStay, CacheInvalidated
<1>5. QED
    BY <1>1, <1>2, <1>4, CacheUntouched, CacheOutside, Zenon DEF CacheIInv

\* The handler takes the next invalidation: no get keeps the mark of its key.
LEMMA CacheHandleEventOk ==
    ASSUME CacheIInv, Cache!HandleEvent
    PROVE  CacheIInv'
<1> DEFINE e == Head(events)
<1>1. events \in Seq(Keys \cup {Cache!AllKeys}) /\ events # <<>> /\ events' = Tail(events)
    BY DEF Cache!HandleEvent, CacheIInv, CacheTypes
<1>2. /\ e \in Keys \cup {Cache!AllKeys} /\ events' \in Seq(Keys \cup {Cache!AllKeys}) /\ e = events[1]
      /\ \A i \in DOMAIN events : i # 1 => i - 1 \in DOMAIN events' /\ events'[i - 1] = events[i]
    BY <1>1
<1>3. \A k : CacheComing(k) => CacheComing(k)' \/ e \in {k, Cache!AllKeys}
    BY <1>2 DEF CacheComing
<1>4. /\ handler.pc = "idle" /\ handler'.pc = "handle" /\ handler'.key = e
      /\ UNCHANGED <<server, registered, registration, t, Cache!store>>
      /\ IF e = Cache!AllKeys THEN Cache!InitMarks ELSE Cache!TryRemoveMark(e)
    BY Zenon DEF Cache!HandleEvent
<1> HIDE DEF e
<1>5. /\ marks' \in [Cache!Slots -> {"UNMARKED", "MARKED", "REMOVED"}] /\ owner' \in [Cache!Slots -> CacheLenders]
      /\ \A u, k : k \in Keys /\ CacheHasMark(u, k)' => CacheHasMark(u, k)
    BY <1>2, <1>4, CacheMarksKept, Zenon DEF CacheIInv
<1>6. CacheTypes'
    BY <1>2, <1>4, <1>5, CacheStoreKept, Zenon DEF CacheIInv, CacheTypes
<1>7. \A u, k : k \in Keys /\ e \in {k, Cache!AllKeys} => ~CacheHasMark(u, k)'
    <2>1. CASE e = Cache!AllKeys
        BY <1>4, <2>1, CacheSlotKnown DEF Cache!InitMarks, CacheHasMark
    <2>2. CASE e # Cache!AllKeys /\ e \in Keys
        BY <1>4, <2>2, CacheSlotKnown, Zenon DEF Cache!TryRemoveMark, CacheHasMark, CacheIInv, CacheTypes
    <2>3. QED
        BY <1>2, <2>1, <2>2
<1>8. ASSUME NEW u \in Threads, t[u].key \in Keys, CacheHasMark(u, t[u].key)', CacheMayStay(u)
      PROVE  CacheMayStay(u)'
    <2>1. e \notin {t[u].key, Cache!AllKeys}
        BY <1>4, <1>7, <1>8 DEF CacheHasMark
    <2>2. QED
        BY <1>3, <1>4, <1>8, <2>1, Zenon DEF CacheMayStay
<1>9. ASSUME NEW k \in Keys, Cache!Stale(k)', ~CacheInvalidated(k)'
      PROVE  Cache!Stale(k) /\ ~CacheInvalidated(k)
    <2>1. Cache!Stale(k)
        BY <1>4, <1>9, Zenon DEF Cache!Stale, Cache!Cached, Cache!store
    <2>2. ~CacheInvalidated(k)
        BY <1>3, <1>4, <1>9 DEF CacheInvalidated
    <2>3. QED
        BY <2>1, <2>2, Zenon
<1>10. QED
    BY <1>4, <1>5, <1>6, <1>8, <1>9, CacheStoreKept, CacheOutside, Zenon DEF CacheIInv

\* The handler removes the record, or all.
LEMMA CacheFinishEventOk ==
    ASSUME CacheIInv, Cache!FinishEvent
    PROVE  CacheIInv'
<1>1. handler.pc = "handle" /\ UNCHANGED <<server, events, registered, registration, Cache!marking, t>>
    BY DEF Cache!FinishEvent, Cache!cluster
<1>2. PICK K : Cache!DropRecords(K) /\ \A k \in Keys : handler.key \in {k, Cache!AllKeys} => k \in K
    <2>1. CASE handler.key = Cache!AllKeys
        BY <2>1 DEF Cache!FinishEvent, Cache!ClearRecords
    <2>2. CASE handler.key # Cache!AllKeys
        BY <2>2, Zenon DEF Cache!FinishEvent
    <2>3. QED
        BY <2>1, <2>2
<1>3. CacheTypes'
    BY <1>1, <1>2, CacheMarksKept, CacheDropped DEF CacheIInv, CacheTypes
<1>4. \A k : CacheComing(k)' <=> CacheComing(k)
    BY <1>1, Zenon DEF CacheComing
<1>5. \A u \in Threads : CacheMayStay(u) => CacheMayStay(u)'
    BY <1>1, <1>4, Zenon DEF CacheMayStay
<1>6. ASSUME NEW k \in Keys, Cache!Stale(k)', ~CacheInvalidated(k)'
      PROVE  Cache!Stale(k) /\ ~CacheInvalidated(k)
    <2>1. records'[k] \notin {Cache!NoRecord, Cache!Empty}
        BY <1>6 DEF Cache!Stale, Cache!Cached
    <2>2. handler.key \notin {k, Cache!AllKeys} /\ records'[k] = records[k]
        BY <1>2, <2>1, CacheDropped, Zenon DEF CacheFewer, CacheIInv
    <2>3. QED
        BY <1>1, <1>4, <1>6, <2>2, Zenon DEF Cache!Stale, Cache!Cached, CacheInvalidated
<1>7. QED
    BY <1>1, <1>2, <1>3, <1>5, <1>6, CacheMarksKept, CacheDropped, CacheOutside, Zenon DEF CacheIInv

\* The listener is lost: until it is registered again, everything is cleared.
LEMMA CacheLoseListenerOk ==
    ASSUME CacheIInv, Cache!LoseListener
    PROVE  CacheIInv'
<1>1. ~registered' /\ events' = <<>> /\ UNCHANGED <<server, t>> /\ UNCHANGED <<Cache!marking, Cache!store>>
    BY DEF Cache!LoseListener
<1>2. events' \in Seq(Keys \cup {Cache!AllKeys})
    BY <1>1
<1>3. CacheTypes'
    BY <1>1, <1>2, CacheUntouched, Zenon DEF CacheIInv, CacheTypes
<1>4. (\A u \in Threads : CacheMayStay(u)') /\ (\A k \in Keys : CacheInvalidated(k)')
    BY <1>1, Zenon DEF CacheMayStay, CacheInvalidated
<1>5. QED
    BY <1>1, <1>3, <1>4, CacheUntouched, CacheOutside, Zenon DEF CacheIInv

\* The listener is registered again: on_listener_register clears the marks and
\* then the records after the cluster sends events, so that nothing old stays.
LEMMA CacheReregisterOk ==
    ASSUME CacheIInv, Cache!Reregister
    PROVE  CacheIInv'
<1>1. UNCHANGED <<server, events, t, handler>>
    BY DEF Cache!Reregister, Cache!RegistrationStep
<1>2. /\ marks' \in [Cache!Slots -> {"UNMARKED", "MARKED", "REMOVED"}] /\ owner' \in [Cache!Slots -> CacheLenders]
      /\ \A u, k : k \in Keys /\ CacheHasMark(u, k)' => CacheHasMark(u, k)
    BY CacheMarksKept, Zenon DEF Cache!Reregister, CacheIInv
<1>3. /\ records' \in [Keys -> CacheValues] /\ lent' \in [Keys -> [key : CacheLenders, value : CacheLenders]]
      /\ CacheFewer
    BY CacheStoreKept, CacheDropped DEF Cache!Reregister, Cache!ClearRecords, CacheIInv
<1>4. CacheTypes'
    BY <1>1, <1>2, <1>3, Zenon DEF CacheIInv, CacheTypes
<1>5. CASE registration' \in {"beforeClear", "request", "on"}
    <2>1. (\A u \in Threads : CacheMayStay(u)') /\ (\A k \in Keys : CacheInvalidated(k)')
        BY <1>5, Zenon DEF CacheMayStay, CacheInvalidated
    <2>2. QED
        BY <1>1, <1>2, <1>3, <1>4, <2>1, CacheOutside, Zenon
<1>6. CASE registration' = "onClear" /\ Cache!InitMarks
    <2>1. \A u, k : k \in Keys => ~CacheHasMark(u, k)'
        BY <1>6, CacheSlotKnown DEF Cache!InitMarks, CacheHasMark
    <2>2. \A k \in Keys : CacheInvalidated(k)'
        BY <1>6 DEF CacheInvalidated
    <2>3. \A u \in Threads : t[u].key \in Keys => ~CacheHasMark(u, t[u].key)'
        BY <1>1, <2>1, Zenon DEF CacheHasMark
    <2>4. QED
        BY <1>1, <1>2, <1>3, <1>4, <2>2, <2>3, CacheOutside, Zenon
<1>7. CASE registration = "onClear" /\ registration' = "done" /\ Cache!ClearRecords /\ registered' = registered
    <2>1. \A k \in Keys : ~Cache!Stale(k)'
        BY <1>7, CacheDropped, Zenon DEF Cache!ClearRecords, Cache!Stale, Cache!Cached, CacheIInv
    <2>2. \A u \in Threads : CacheMayStay(u) => CacheMayStay(u)'
        BY <1>1, <1>7, Zenon DEF CacheMayStay, CacheComing
    <2>3. QED
        BY <1>1, <1>2, <1>3, <1>4, <2>1, <2>2, CacheOutside, Zenon
<1>8. QED
    BY <1>5, <1>6, <1>7, Zenon DEF Cache!Reregister, Cache!RegistrationStep

\* Expiration removes records only.
LEMMA CacheExpirationOk ==
    ASSUME CacheIInv, Cache!do_expiration \/ \E k \in Keys : Cache!Age(k)
    PROVE  CacheIInv'
<1>1. UNCHANGED <<Cache!cluster, Cache!marking, Cache!listener, t>>
    BY DEF Cache!do_expiration, Cache!Age
<1>2. /\ records' \in [Keys -> CacheValues] /\ lent' \in [Keys -> [key : CacheLenders, value : CacheLenders]]
      /\ CacheFewer
    <2>1. CASE Cache!do_expiration
        BY <2>1, CacheDropped, Zenon DEF Cache!do_expiration, CacheIInv
    <2>2. CASE \E k \in Keys : Cache!Age(k)
        BY <2>2, Zenon DEF Cache!Age, CacheIInv, CacheTypes, CacheFewer
    <2>3. QED
        BY <2>1, <2>2
<1>3. CacheTypes'
    BY <1>1, <1>2, CacheMarksKept DEF CacheIInv, CacheTypes, Cache!cluster
<1>4. \A u \in Threads : CacheGoes(u)
    BY <1>1, <1>2, CacheMarksKept, CacheSameThread, Zenon DEF CacheIInv
<1>5. QED
    BY <1>1, <1>2, <1>3, <1>4, CacheMarksKept, CacheQuiet DEF CacheIInv, Cache!cluster, Cache!listener

\* Every step keeps the invariant.
LEMMA CacheStepOk ==
    ASSUME CacheIInv, [Cache!Next]_(Cache!vars)
    PROVE  CacheIInv'
<1>1. CASE UNCHANGED Cache!vars
    <2>1. UNCHANGED <<server, events, registered, registration, handler, t, Cache!marking, Cache!store>>
        BY <1>1, Zenon DEF Cache!vars, Cache!marking, Cache!store
    <2>2. CacheTypes'
        BY <2>1, CacheUntouched, Zenon DEF CacheIInv, CacheTypes
    <2>3. \A u \in Threads : CacheGoes(u)
        BY <2>1, CacheUntouched, CacheSameThread, Zenon DEF CacheIInv
    <2>4. QED
        BY <2>1, <2>2, <2>3, CacheUntouched, CacheQuiet DEF CacheIInv
<1>2. ASSUME NEW u \in Threads, Cache!ThreadStep(u) \/ Cache!InvokeThrows(u) \/ Cache!RequestFails(u) \/ Cache!RemoveAll(u)
      PROVE  CacheIInv'
    BY <1>2, CacheTryMarkOk, CacheServedOk, CacheAnswerOk, CachePutOk, CacheResetOk, CacheForceUnmarkOk, CacheMoveOutOk, CacheInvalidateOk,
       CacheDropOk, CacheClearOk, CacheInvokeThrowsOk, CacheRequestFailsOk, CacheRemoveAllOk, Zenon DEF Cache!ThreadStep
<1>3. ASSUME NEW u \in Threads, NEW k \in Keys,
             Cache!Update(u, k) \/ \E op \in {"get", "getAll"} : Cache!Lookup(u, k, op)
      PROVE  CacheIInv'
    BY <1>3, CacheUpdateOk, CacheLookupOk DEF CacheOps
<1>4. QED
    BY <1>1, <1>2, <1>3, CacheChangeOk, CacheChangeAllOk, CacheHandleEventOk, CacheFinishEventOk, CacheLoseListenerOk,
       CacheReregisterOk, CacheExpirationOk, Zenon DEF Cache!Next

\* The invariant holds at the start.
LEMMA CacheInitOk == Cache!Init => CacheIInv
<1> SUFFICES ASSUME Cache!Init
             PROVE  CacheIInv
    BY Zenon
<1>1. CacheTypes
    BY CacheIdleTyped DEF Cache!Init, CacheTypes, CacheLenders, Cache!NotLent, Cache!NoRecord, CacheValues
<1>2. \A u \in Threads : t[u].pc = "idle"
    BY CacheIdleTyped, Zenon DEF Cache!Init
<1>3. CacheFresh
    BY <1>2 DEF CacheFresh
<1>4. \A k \in Keys : ~Cache!Stale(k)
    BY Zenon DEF Cache!Init, Cache!Stale, Cache!Cached
<1>5. QED
    BY <1>1, <1>3, <1>4 DEF CacheIInv

\* The invariant says more than StaleIsDoomed.
LEMMA CacheFollows == CacheIInv => Cache!StaleIsDoomed
BY Zenon DEF CacheIInv, Cache!StaleIsDoomed, CacheLeaving, CacheComing, CacheRemoves, Cache!Doomed, Cache!At

\* For any threads, keys, slots and size of the store, whatever order requests,
\* answers, invalidations, refused requests, clears and registrations take: a
\* value of the near cache that differs from the cluster's is about to be removed,
\* but for a record whose get found the mark of a later get in place of its own.
THEOREM StaleIsRemoved == Cache!Spec => []Cache!StaleIsDoomed
<1>1. CacheIInv /\ [Cache!Next]_(Cache!vars) => CacheIInv'
    BY CacheStepOk
<1>2. QED
    BY <1>1, CacheInitOk, CacheFollows, PTL DEF Cache!Spec
=============================================================================
