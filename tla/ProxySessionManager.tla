------------------------ MODULE ProxySessionManager -------------------------
(***************************************************************************)
(* The client's table of CP sessions (cp_impl.cpp), for one CP group: the  *)
(* lock and semaphore proxies of the group share one session, count their  *)
(* uses of it, and the client sends heartbeats for it while it is in use.  *)
(*                                                                         *)
(* The manager's own operations run under lock_; a thread that creates a   *)
(* session keeps it while it waits for the cluster (creating).  What does  *)
(* not run under lock_ is session_state::acquire(), which                  *)
(* acquire_session() calls through a reference into the map: a reference   *)
(* is known by its map node, and dangles once the node was erased.         *)
(*                                                                         *)
(* call holds the operation every thread has under way, for the modules of *)
(* the proxies that extend this one: its stage goes "start" -> ("creating" *)
(* -> ("assigned" ->)) "ref" -> "acquired" -> "sent" -> "answered".        *)
(***************************************************************************)
EXTENDS Integers, FiniteSets

CONSTANTS
    Threads,        \* threads of the application
    NoThread,       \* nobody is creating a session
    MaxSession,     \* bound: sessions the cluster creates
    MaxCalls        \* bound: operations started

VARIABLES
    session,        \* the group's entry of sessions_ (id 0: none): count is
                    \* acquire_count, stale says that the ttl has passed
    lastId,         \* external: sessions created so far, known by number
    lastNode,       \* map nodes allocated so far
    open,           \* external: the sessions that are open in the CP group
    creating,       \* the thread inside create_new_session(), holding lock_
    running,        \* running_
    late,           \* sessions whose failed heartbeat is not handled yet
    call,           \* per thread: the operation under way
    calls           \* operations started so far

mgr == <<session, lastId, lastNode, open, creating, running, late>>

NO_SESSION_ID == 0

NoSession == [id |-> NO_SESSION_ID, count |-> 0, stale |-> FALSE, node |-> 0]

NoCall == [op |-> "none", stage |-> "idle", n |-> 0, node |-> 0, sid |-> 0,
           again |-> FALSE, answer |-> "none", value |-> 0]

ManagerInit ==
    /\ session = NoSession
    /\ lastId = 0
    /\ lastNode = 0
    /\ open = {}
    /\ creating = NoThread
    /\ running = TRUE
    /\ late = {}
    /\ call = [t \in Threads |-> NoCall]
    /\ calls = 0

ManagerTypeOK ==
    /\ session \in [id : 0..MaxSession, count : Int, stale : BOOLEAN, node : 0..MaxSession]
    /\ lastId \in 0..MaxSession
    /\ lastNode \in 0..MaxSession
    /\ open \subseteq 1..lastId
    /\ creating \in Threads \cup {NoThread}
    /\ running \in BOOLEAN
    /\ late \subseteq 1..lastId
    /\ calls \in 0..MaxCalls

\* no thread holds lock_ (all other holders let go of it within a step)
LockFree == creating = NoThread

is_in_use(s) == s.count > 0

is_valid(s) == s.id # NO_SESSION_ID /\ (is_in_use(s) \/ ~s.stale)

release_session(s, sid, n) ==
    IF s.id # NO_SESSION_ID /\ s.id = sid THEN [s EXCEPT !.count = @ - n] ELSE s

\* the session id is a parameter the code does not look at
invalidate_session(s, sid) == NoSession

get_session(s) == s.id

Finish(t) == call' = [call EXCEPT ![t] = NoCall]

StartCall(t, op, stage, n, sid) ==
    /\ call[t].op = "none"
    /\ calls < MaxCalls
    /\ calls' = calls + 1
    /\ call' = [call EXCEPT ![t] = [NoCall EXCEPT !.op = op, !.stage = stage, !.n = n, !.sid = sid]]

\* get_or_create_session() when the manager is shut down: it throws
RefuseSession(t) ==
    /\ call[t].stage = "start"
    /\ LockFree
    /\ ~running
    /\ Finish(t)
    /\ UNCHANGED <<mgr, calls>>

\* get_or_create_session() returns a reference to the entry of the group
FindSession(t) ==
    /\ call[t].stage = "start"
    /\ LockFree
    /\ running
    /\ is_valid(session)
    /\ call' = [call EXCEPT ![t].stage = "ref", ![t].node = session.node]
    /\ UNCHANGED <<mgr, calls>>

\* ... or keeps lock_ and asks the cluster for a session
AskForSession(t) ==
    /\ call[t].stage = "start"
    /\ LockFree
    /\ running
    /\ ~is_valid(session)
    /\ creating' = t
    /\ call' = [call EXCEPT ![t].stage = "creating"]
    /\ UNCHANGED <<session, lastId, lastNode, open, running, late, calls>>

\* create_new_session(): no entry yet, emplace() makes a node ...
NewSession(t) ==
    /\ call[t].stage = "creating"
    /\ lastId < MaxSession
    /\ session.id = NO_SESSION_ID
    /\ lastId' = lastId + 1
    /\ open' = open \cup {lastId'}
    /\ lastNode' = lastNode + 1
    /\ session' = [id |-> lastId', count |-> 0, stale |-> FALSE, node |-> lastNode']
    /\ creating' = NoThread
    /\ call' = [call EXCEPT ![t].stage = "ref", ![t].node = lastNode']
    /\ UNCHANGED <<running, late, calls>>

\* ... or the entry is assigned to, member by member: acquire_count is the last
AssignSession(t) ==
    /\ call[t].stage = "creating"
    /\ lastId < MaxSession
    /\ session.id # NO_SESSION_ID
    /\ lastId' = lastId + 1
    /\ open' = open \cup {lastId'}
    /\ session' = [session EXCEPT !.id = lastId', !.stale = FALSE]
    /\ call' = [call EXCEPT ![t].stage = "assigned"]
    /\ UNCHANGED <<lastNode, creating, running, late, calls>>

AssignCount(t) ==
    /\ call[t].stage = "assigned"
    /\ session' = [session EXCEPT !.count = 0]
    /\ creating' = NoThread
    /\ call' = [call EXCEPT ![t].stage = "ref", ![t].node = session.node]
    /\ UNCHANGED <<lastId, lastNode, open, running, late, calls>>

\* request_new_session() throws: lock_ is released, the operation fails
CreateFails(t) ==
    /\ call[t].stage = "creating"
    /\ creating' = NoThread
    /\ Finish(t)
    /\ UNCHANGED <<session, lastId, lastNode, open, running, late, calls>>

\* session_state::acquire(), without lock_; through a dangling reference the
\* increment is lost and the id is whatever the freed node still holds
Acquire(t) ==
    /\ call[t].stage = "ref"
    /\ \/ /\ call[t].node = session.node
          /\ session' = [session EXCEPT !.count = @ + call[t].n]
          /\ call' = [call EXCEPT ![t].stage = "acquired", ![t].sid = session.id]
       \/ /\ call[t].node # session.node
          /\ \E sid \in 1..lastId :
                call' = [call EXCEPT ![t].stage = "acquired", ![t].sid = sid]
          /\ UNCHANGED session
    /\ UNCHANGED <<lastId, lastNode, open, creating, running, late, calls>>

\* the heartbeat task finds the session in use; the cluster answers that it is closed ...
HeartbeatFails ==
    /\ LockFree
    /\ running
    /\ is_in_use(session)
    /\ session.id \in 1..lastId \ (open \cup late)
    /\ late' = late \cup {session.id}
    /\ UNCHANGED <<session, lastId, lastNode, open, creating, running, call, calls>>

\* ... and the continuation of the heartbeat invalidates
HeartbeatAnswered(s) ==
    /\ s \in late
    /\ LockFree
    /\ session' = invalidate_session(session, s)
    /\ late' = late \ {s}
    /\ UNCHANGED <<lastId, lastNode, open, creating, running, call, calls>>

\* the ttl of the session passes on the client's clock
SessionAges ==
    /\ session.id # NO_SESSION_ID
    /\ ~session.stale
    /\ session' = [session EXCEPT !.stale = TRUE]
    /\ UNCHANGED <<lastId, lastNode, open, creating, running, late, call, calls>>

AcquireSession(t) ==
    \/ RefuseSession(t) \/ FindSession(t) \/ AskForSession(t) \/ NewSession(t)
    \/ AssignSession(t) \/ AssignCount(t) \/ CreateFails(t) \/ Acquire(t)

ManagerStep ==
    \/ \E t \in Threads : AcquireSession(t)
    \/ HeartbeatFails
    \/ \E s \in 1..MaxSession : HeartbeatAnswered(s)
    \/ SessionAges

\* shutdown(): close the session in the cluster, forget it, refuse new ones
\* (what the closing does in the cluster is in the proxies' modules)
ManagerShutdown ==
    /\ LockFree
    /\ running
    /\ running' = FALSE
    /\ session' = NoSession
    /\ UNCHANGED <<lastId, lastNode, creating, late, call, calls>>
=============================================================================
