-------------------------- MODULE ConnectionManager --------------------------
(***************************************************************************)
(* ClientConnectionManagerImpl (network.cpp): which connections are        *)
(* active, the client's state, and the tasks that open connections.        *)
(* A block that holds client_state_mutex_ is one step; what happens        *)
(* between two blocks interleaves.  Three kinds of threads open            *)
(* connections: the task of submit_connect_to_cluster_task() (Task), the   *)
(* thread that starts the client (Main), and one task per member, posted   *)
(* by connect_to_all_members().  Members, network and the application are  *)
(* external.                                                               *)
(***************************************************************************)
EXTENDS Integers

CONSTANTS
    Members,        \* member uuids, of all clusters the client may meet
    Cluster,        \* the cluster id each member belongs to
    Address,        \* the address each member listens on: a restarted member
                    \* has a new uuid at the old address
    PartitionCount, \* the partition count each member reports
    ReconnectMode,  \* "OFF", "ON" or "ASYNC"
    AsyncStart,     \* is_async_start()
    Smart,          \* smart_routing_enabled_
    HasSchemas,     \* has_any_schemas(): there is client state to send
    CanShutdown,    \* whether the application may shut the client down
    MaxConn         \* bound: connections opened

None == 0           \* no connection
Nil == "nil"        \* no member, no cluster id
Task == "reconnect"
Main == "start"
Dialers == {Task, Main}
Timer == "timer"    \* the loop of connect_to_all_members()
Procs == Dialers \cup Members
Conns == 1 .. MaxConn
Loops == {Main, Timer}

ASSUME MembersAssumption == Members \cap (Dialers \cup {Timer, Nil}) = {}
ASSUME PartitionsAssumption == PartitionCount \in [Members -> Nat \ {0}]
ASSUME ClusterAssumption == \A m \in Members : Cluster[m] # Nil
ASSUME ModeAssumption == ReconnectMode \in {"OFF", "ON", "ASYNC"}
ASSUME FlagsAssumption == AsyncStart \in BOOLEAN /\ Smart \in BOOLEAN
                          /\ HasSchemas \in BOOLEAN /\ CanShutdown \in BOOLEAN
ASSUME MaxConnAssumption == MaxConn \in Nat

VARIABLES
    running,        \* lifecycle_service::active_
    stopping,       \* how far ClientConnectionManagerImpl::shutdown() got
    stopper,        \* shutdown_with_external_thread() was called
    client_state,   \* client_state_
    active,         \* active_connections_: per member a connection or None
    cluster_id,     \* cluster_id_
    established,    \* established_initial_cluster_connection
    submitted,      \* connect_to_cluster_task_submitted_
    partition_count,\* ClientPartitionServiceImpl::partition_count_
    lastConn,       \* connection_id_gen_
    conn,           \* the connections, see NewConnection
    proc,           \* program counter of the threads that open connections
    members,        \* the member list of the cluster service
    connecting,     \* connecting_members_
    walk,           \* members the loops over the member list have not come to yet
    init,           \* tasks of initialize_client_on_cluster(), by the posting connection
    epoch,          \* history: the first connection since there was none
    synced          \* history: the epochs whose cluster got the client's state

vars == <<running, stopping, stopper, client_state, active, cluster_id, established, submitted,
          partition_count, lastConn, conn, proc, members, connecting, walk, init,
          epoch, synced>>

NewConnection ==
    [stage  |-> "unused",   \* of connect(), authenticate_on_cluster(), on_authenticated()
     by     |-> Nil,        \* the thread that opens it
     to     |-> Nil,        \* the member it reaches
     alive  |-> FALSE,      \* Connection::alive_
     remote |-> FALSE,      \* remote_address_ and remote_uuid_ are set
     closer |-> "none"]     \* how far Connection::close() got

Init ==
    /\ running = TRUE
    /\ stopping = "no"
    /\ stopper = FALSE
    /\ client_state = "INITIAL"
    /\ active = [m \in Members |-> None]
    /\ cluster_id = Nil
    /\ established = FALSE
    /\ submitted = AsyncStart
    /\ partition_count = 0
    /\ lastConn = 0
    /\ conn = [k \in Conns |-> NewConnection]
    /\ proc = [p \in Procs \cup {Timer} |->
                IF p = (IF AsyncStart THEN Task ELSE Main) THEN "try" ELSE "idle"]
    /\ members = {}
    /\ connecting = {}
    /\ walk = [l \in Loops |-> {}]
    /\ init = [k \in Conns |-> [pc |-> "none", from |-> None]]
    /\ epoch = None
    /\ synced = {}

-----------------------------------------------------------------------------
Empty(act) == \A m \in Members : act[m] = None

\* trigger_cluster_reconnection() and submit_connect_to_cluster_task()
Submits == ReconnectMode # "OFF" /\ running /\ ~submitted
WithTask(pr) == IF Submits THEN [pr EXCEPT ![Task] = "try"] ELSE pr

\* what on_connection_close() does once the last connection was removed
Disconnected ==
    /\ client_state' = "DISCONNECTED"
    /\ submitted' = (submitted \/ Submits)
    /\ stopper' = (stopper \/ ReconnectMode = "OFF")

\* mutant: whatever connection the member has is removed, not this one only
RemoveByMember(k, pr) ==
    IF active[conn[k].to] = None
      THEN /\ proc' = pr
           /\ UNCHANGED <<active, client_state, submitted, stopper>>
      ELSE /\ active' = [active EXCEPT ![conn[k].to] = None]
           /\ IF Empty(active')
                THEN Disconnected /\ proc' = WithTask(pr)
                ELSE proc' = pr /\ UNCHANGED <<client_state, submitted, stopper>>

\* on_connection_close(): the locked block; pr is proc as the caller leaves it
RemoveConnection(k, pr) ==
    IF active[conn[k].to] # k
      THEN /\ proc' = pr
           /\ UNCHANGED <<active, client_state, submitted, stopper>>
      ELSE /\ active' = [active EXCEPT ![conn[k].to] = None]
           /\ IF Empty(active')
                THEN Disconnected /\ proc' = WithTask(pr)
                ELSE proc' = pr /\ UNCHANGED <<client_state, submitted, stopper>>

-----------------------------------------------------------------------------
\* Connection::close(), by a broken socket, the heartbeat or a caller

Break(k) ==
    /\ conn[k].alive
    /\ conn' = [conn EXCEPT ![k].alive = FALSE, ![k].closer = "begun"]
    /\ UNCHANGED <<running, stopping, stopper, client_state, active, cluster_id, established,
                   submitted, partition_count, lastConn, proc, members, connecting, walk, init,
                   epoch, synced>>

\* on_connection_close() reads the remote end before it takes the lock
CloseReads(k) ==
    /\ conn[k].closer = "begun"
    /\ conn' = [conn EXCEPT ![k].closer = IF conn[k].remote THEN "remove" ELSE "done"]
    /\ UNCHANGED <<running, stopping, stopper, client_state, active, cluster_id, established,
                   submitted, partition_count, lastConn, proc, members, connecting, walk, init,
                   epoch, synced>>

CloseRemoves(k) ==
    /\ conn[k].closer = "remove"
    /\ RemoveConnection(k, proc)
    /\ conn' = [conn EXCEPT ![k].closer = "done"]
    /\ UNCHANGED <<running, stopping, cluster_id, established, partition_count, lastConn,
                   members, connecting, walk, init, epoch, synced>>

-----------------------------------------------------------------------------
\* Opening a connection: get_or_connect(), connect(), authenticate_on_cluster()

\* where a thread goes on when its connection attempt succeeds or fails
Succeeded(p) ==
    IF p \in Members THEN "idle" ELSE IF proc[p] = "dial_all" THEN "walk" ELSE "done"
Failed(p) ==
    IF p \in Members THEN "idle" ELSE IF proc[p] = "dial_all" THEN "walk" ELSE "try"
\* a task of connect_to_all_members() leaves connecting_members_ either way
Left(p) == connecting \ {p}

\* the member a thread reaches: the task for one member dials its address
Reaches(p, m) == p \in Members => Address[m] = Address[p]

\* connect() creates the connection
Opens(p, m) ==
    LET k == lastConn + 1 IN
    /\ k \in Conns
    /\ lastConn' = k
    /\ conn' = [conn EXCEPT ![k] = [NewConnection EXCEPT !.stage = "dialing", !.by = p,
                                                         !.to = m, !.alive = TRUE]]

\* check_client_active() precedes each attempt of do_connect_to_cluster()
Dial(p, m) ==
    /\ proc[p] = "try"
    /\ p \in Dialers => running
    /\ Reaches(p, m)
    /\ Opens(p, m)
    /\ proc' = [proc EXCEPT ![p] = "dial"]
    /\ UNCHANGED <<running, stopping, stopper, client_state, active, cluster_id, established,
                   submitted, partition_count, members, connecting, walk, init, epoch,
                   synced>>

\* get_or_connect() finds a connection
UseExisting(p, m) ==
    /\ proc[p] = "try"
    /\ p = m \/ (p \in Dialers /\ running /\ m \in members)
    /\ active[m] # None
    /\ proc' = [proc EXCEPT ![p] = Succeeded(p)]
    /\ connecting' = Left(p)
    /\ UNCHANGED <<running, stopping, stopper, client_state, active, cluster_id, established,
                   submitted, partition_count, lastConn, conn, members, walk, init,
                   epoch, synced>>

\* the socket cannot be opened or the member does not let the client in
DialFails(k) ==
    LET p == conn[k].by IN
    /\ conn[k].stage = "dialing"
    /\ conn' = [conn EXCEPT ![k].stage = "ended", ![k].alive = FALSE,
                            ![k].closer = IF conn[k].alive THEN "done" ELSE @]
    /\ proc' = [proc EXCEPT ![p] = Failed(p)]
    /\ connecting' = Left(p)
    /\ UNCHANGED <<running, stopping, stopper, client_state, active, cluster_id, established,
                   submitted, partition_count, lastConn, members, walk, init, epoch,
                   synced>>

-----------------------------------------------------------------------------
\* on_authenticated()

\* check_partition_count() throws
Refused(k) ==
    LET p == conn[k].by IN
    /\ conn[k].stage = "dialing"
    /\ partition_count \notin {0, PartitionCount[conn[k].to]}
    /\ conn' = [conn EXCEPT ![k].stage = "refused"]
    /\ proc' = [proc EXCEPT ![p] = Failed(p)]
    /\ connecting' = Left(p)
    /\ UNCHANGED <<running, stopping, stopper, client_state, active, cluster_id, established,
                   submitted, partition_count, lastConn, members, walk, init, epoch,
                   synced>>

Admitted(k) ==
    /\ conn[k].stage = "dialing"
    /\ partition_count \in {0, PartitionCount[conn[k].to]}
    /\ partition_count' = PartitionCount[conn[k].to]

\* a second connection to the same member is closed
Duplicate(k) ==
    LET p == conn[k].by IN
    /\ Admitted(k)
    /\ active[conn[k].to] # None
    /\ conn' = [conn EXCEPT ![k].stage = "ended", ![k].remote = TRUE, ![k].alive = FALSE,
                            ![k].closer = IF conn[k].alive THEN "done" ELSE @]
    /\ proc' = [proc EXCEPT ![p] = Succeeded(p)]
    /\ connecting' = Left(p)
    /\ UNCHANGED <<running, stopping, stopper, client_state, active, cluster_id, established,
                   submitted, lastConn, members, walk, init, epoch, synced>>

ClusterChanges(k) == cluster_id \notin {Nil, Cluster[conn[k].to]}

\* on_cluster_restart() clears the member list, which closes the listed members' connections
ClosedByRestart(k) ==
    {j \in Conns : ClusterChanges(k) /\ conn[j].alive
                     /\ \E m \in members : active[m] = j}

\* the connection is registered; the first one of an epoch sets the cluster id and the state
Register(k) ==
    LET closed == ClosedByRestart(k)
        left == [m \in Members |-> IF active[m] \in closed THEN None ELSE active[m]]
        emptied == closed # {} /\ Empty(left)
        first == Empty(left)
    IN
    /\ Admitted(k)
    /\ active[conn[k].to] = None
    /\ active' = [left EXCEPT ![conn[k].to] = k]
    /\ members' = IF ClusterChanges(k) THEN {} ELSE members
    /\ conn' = [j \in Conns |->
                  IF j = k THEN [conn[k] EXCEPT !.stage = "added", !.remote = TRUE]
                  ELSE IF j \in closed THEN [conn[j] EXCEPT !.alive = FALSE, !.closer = "done"]
                  ELSE conn[j]]
    /\ proc' = IF emptied THEN WithTask(proc) ELSE proc
    /\ submitted' = (submitted \/ (emptied /\ Submits))
    /\ stopper' = (stopper \/ (emptied /\ ReconnectMode = "OFF"))
    /\ cluster_id' = IF first THEN Cluster[conn[k].to] ELSE cluster_id
    /\ epoch' = IF first THEN k ELSE epoch
    /\ established' = (established \/ first)
    /\ client_state' = IF ~first THEN client_state
                       ELSE IF established THEN "CONNECTED" ELSE "INITIALIZED"
    /\ synced' = IF first /\ ~established THEN synced \cup {k} ELSE synced
    /\ init' = IF first /\ established THEN [init EXCEPT ![k].pc = "posted"] ELSE init
    /\ UNCHANGED <<running, stopping, lastConn, connecting, walk>>

\* mutant: a connection that was closed before it was registered is not removed
DeadStays(k) ==
    LET p == conn[k].by IN
    /\ conn[k].stage = "added"
    /\ ~conn[k].alive
    /\ proc' = [proc EXCEPT ![p] = Failed(p)]
    /\ conn' = [conn EXCEPT ![k].stage = "ended"]
    /\ connecting' = Left(p)
    /\ UNCHANGED <<running, stopping, stopper, client_state, active, cluster_id, established,
                   submitted, partition_count, lastConn, members, walk, init, epoch,
                   synced>>

\* "this connection is already closed and on_connection_close() is called even before"
RecheckDead(k) ==
    LET p == conn[k].by IN
    /\ conn[k].stage = "added"
    /\ ~conn[k].alive
    /\ RemoveConnection(k, [proc EXCEPT ![p] = Failed(p)])
    /\ conn' = [conn EXCEPT ![k].stage = "ended"]
    /\ connecting' = Left(p)
    /\ UNCHANGED <<running, stopping, cluster_id, established, partition_count, lastConn,
                   members, walk, init, epoch, synced>>

RecheckAlive(k) ==
    /\ conn[k].stage = "added"
    /\ conn[k].alive
    /\ conn' = [conn EXCEPT ![k].stage = "checked"]
    /\ UNCHANGED <<running, stopping, stopper, client_state, active, cluster_id, established,
                   submitted, partition_count, lastConn, proc, members, connecting, walk, init,
                   epoch, synced>>

\* mutant: no look at the lifecycle after the connection is registered
NoLifecycleCheck(k) ==
    LET p == conn[k].by IN
    /\ conn[k].stage = "checked"
    /\ conn' = [conn EXCEPT ![k].stage = "ended"]
    /\ proc' = [proc EXCEPT ![p] = Succeeded(p)]
    /\ connecting' = Left(p)
    /\ UNCHANGED <<running, stopping, stopper, client_state, active, cluster_id, established,
                   submitted, partition_count, lastConn, members, walk, init, epoch,
                   synced>>

\* the client may have been shut down meanwhile: close the new connection
RecheckRunning(k) ==
    LET p == conn[k].by
        closes == ~running /\ conn[k].alive
    IN
    /\ conn[k].stage = "checked"
    /\ conn' = [conn EXCEPT ![k].stage = "ended",
                            ![k].alive = conn[k].alive /\ ~closes,
                            ![k].closer = IF closes THEN "begun" ELSE @]
    /\ proc' = [proc EXCEPT ![p] = Succeeded(p)]
    /\ connecting' = Left(p)
    /\ UNCHANGED <<running, stopping, stopper, client_state, active, cluster_id, established,
                   submitted, partition_count, lastConn, members, walk, init, epoch,
                   synced>>

-----------------------------------------------------------------------------
\* do_connect_to_cluster() gives up: the client is stopped, or wait_strategy::sleep()
\* says that cluster_connect_timeout has passed; or start() gets no member list in time
GiveUp(p) ==
    /\ p \in Dialers
    /\ proc[p] = "try" \/ (p = Main /\ proc[p] = "done")
    /\ proc' = [proc EXCEPT ![p] = "idle"]
    /\ stopper' = TRUE
    /\ UNCHANGED <<running, stopping, client_state, active, cluster_id, established, submitted,
                   partition_count, lastConn, conn, members, connecting, walk, init,
                   epoch, synced>>

\* mutant: the task only resets its flag
TaskEndsBlindly ==
    /\ proc[Task] = "done"
    /\ submitted' = FALSE
    /\ proc' = [proc EXCEPT ![Task] = "idle"]
    /\ UNCHANGED <<running, stopping, stopper, client_state, active, cluster_id, established,
                   partition_count, lastConn, conn, members, connecting, walk, init,
                   epoch, synced>>

\* the end of the task of submit_connect_to_cluster_task(): it looks again
TaskEnds ==
    /\ proc[Task] = "done"
    /\ submitted' = Empty(active)
    /\ proc' = [proc EXCEPT ![Task] = IF Empty(active) THEN "try" ELSE "idle"]
    /\ UNCHANGED <<running, stopping, stopper, client_state, active, cluster_id, established,
                   partition_count, lastConn, conn, members, connecting, walk, init,
                   epoch, synced>>

\* the starting thread has a connection: connect_to_all_cluster_members()
StartWalks ==
    /\ proc[Main] = "done"
    /\ proc' = [proc EXCEPT ![Main] = "walk"]
    /\ walk' = [walk EXCEPT ![Main] = IF Smart THEN members ELSE {}]
    /\ UNCHANGED <<running, stopping, stopper, client_state, active, cluster_id, established,
                   submitted, partition_count, lastConn, conn, members, connecting, init,
                   epoch, synced>>

StartSkips(m) ==
    /\ proc[Main] = "walk"
    /\ m \in walk[Main] /\ active[m] # None
    /\ walk' = [walk EXCEPT ![Main] = @ \ {m}]
    /\ UNCHANGED <<running, stopping, stopper, client_state, active, cluster_id, established,
                   submitted, partition_count, lastConn, conn, proc, members, connecting, init,
                   epoch, synced>>

\* member n answers at the address the list has for m
StartConnects(m, n) ==
    /\ proc[Main] = "walk"
    /\ m \in walk[Main] /\ active[m] = None
    /\ Address[n] = Address[m]
    /\ Opens(Main, n)
    /\ walk' = [walk EXCEPT ![Main] = @ \ {m}]
    /\ proc' = [proc EXCEPT ![Main] = "dial_all"]
    /\ UNCHANGED <<running, stopping, stopper, client_state, active, cluster_id, established,
                   submitted, partition_count, members, connecting, init, epoch,
                   synced>>

StartEnds ==
    /\ proc[Main] = "walk"
    /\ walk[Main] = {}
    /\ proc' = [proc EXCEPT ![Main] = "idle"]
    /\ UNCHANGED <<running, stopping, stopper, client_state, active, cluster_id, established,
                   submitted, partition_count, lastConn, conn, members, connecting, walk, init,
                   epoch, synced>>

-----------------------------------------------------------------------------
\* connect_to_all_members(), every second

WalkBegins ==
    /\ Smart /\ running /\ ~Empty(active)
    /\ walk[Timer] = {}
    /\ walk' = [walk EXCEPT ![Timer] = members]
    /\ UNCHANGED <<running, stopping, stopper, client_state, active, cluster_id, established,
                   submitted, partition_count, lastConn, conn, proc, members, connecting, init,
                   epoch, synced>>

\* under the mutex: no new connections once the client is disconnected
WalkChecks ==
    /\ walk[Timer] # {}
    /\ proc[Timer] = "idle"
    /\ IF client_state = "DISCONNECTED"
         THEN walk' = [walk EXCEPT ![Timer] = {}] /\ UNCHANGED proc
         ELSE proc' = [proc EXCEPT ![Timer] = "checked"] /\ UNCHANGED walk
    /\ UNCHANGED <<running, stopping, stopper, client_state, active, cluster_id, established,
                   submitted, partition_count, lastConn, conn, members, connecting, init,
                   epoch, synced>>

\* the mutex was released since
WalkVisits(m) ==
    LET posts == running /\ active[m] = None /\ m \notin connecting
        next == [proc EXCEPT ![Timer] = "idle"]
    IN
    /\ proc[Timer] = "checked"
    /\ m \in walk[Timer]
    /\ walk' = [walk EXCEPT ![Timer] = @ \ {m}]
    /\ connecting' = IF posts THEN connecting \cup {m} ELSE connecting
    /\ proc' = IF posts THEN [next EXCEPT ![m] = "posted"] ELSE next
    /\ UNCHANGED <<running, stopping, stopper, client_state, active, cluster_id, established,
                   submitted, partition_count, lastConn, conn, members, init, epoch,
                   synced>>

\* the task for one member: it ends at once in a stopped client, or if there is a connection
MemberTask(m) ==
    /\ proc[m] = "posted"
    /\ proc' = [proc EXCEPT ![m] = IF running /\ active[m] = None THEN "try" ELSE "idle"]
    /\ connecting' = IF running /\ active[m] # None THEN Left(m) ELSE connecting
    /\ UNCHANGED <<running, stopping, stopper, client_state, active, cluster_id, established,
                   submitted, partition_count, lastConn, conn, members, walk, init,
                   epoch, synced>>

-----------------------------------------------------------------------------
\* initialize_client_on_cluster(), posted by connection k

InitBegins(k) ==
    /\ init[k].pc = "posted"
    /\ init' = [init EXCEPT ![k] =
                  IF running /\ Cluster[conn[k].to] = cluster_id
                    THEN [pc |-> "sending", from |-> IF Empty(active) THEN None ELSE epoch]
                    ELSE [pc |-> "none", from |-> None]]
    /\ UNCHANGED <<running, stopping, stopper, client_state, active, cluster_id, established,
                   submitted, partition_count, lastConn, conn, proc, members, connecting, walk,
                   epoch, synced>>

\* send_state_to_cluster() returned: the state, if any, is in the cluster the client is
\* connected to, unless the connection was lost and made again since it was sent
InitSent(k) ==
    /\ init[k].pc = "sending"
    /\ HasSchemas => \E m \in Members : active[m] # None /\ conn[active[m]].alive
    /\ init' = [init EXCEPT ![k].pc = "sent"]
    /\ synced' = IF init[k].from \in {None, epoch} /\ ~Empty(active)
                   THEN synced \cup {epoch} ELSE synced
    /\ UNCHANGED <<running, stopping, stopper, client_state, active, cluster_id, established,
                   submitted, partition_count, lastConn, conn, proc, members, connecting, walk,
                   epoch>>

InitEnds(k) ==
    /\ init[k].pc = "sent"
    /\ init' = [init EXCEPT ![k] = [pc |-> "none", from |-> None]]
    /\ IF Cluster[conn[k].to] = cluster_id
         THEN client_state' = "INITIALIZED"
         ELSE UNCHANGED client_state
    /\ UNCHANGED <<running, stopping, stopper, active, cluster_id, established, submitted,
                   partition_count, lastConn, conn, proc, members, connecting, walk, epoch,
                   synced>>

\* mutant: the failure is only logged
InitGivesUp(k) ==
    /\ init[k].pc = "sending"
    /\ init' = [init EXCEPT ![k] = [pc |-> "none", from |-> None]]
    /\ UNCHANGED <<running, stopping, stopper, client_state, active, cluster_id, established,
                   submitted, partition_count, lastConn, conn, proc, members, connecting, walk,
                   epoch, synced>>

\* send_state_to_cluster() throws: the task is posted again for the same cluster
InitFails(k) ==
    /\ init[k].pc = "sending"
    /\ init' = [init EXCEPT ![k] =
                  [pc |-> IF Cluster[conn[k].to] = cluster_id THEN "posted" ELSE "none",
                   from |-> None]]
    /\ UNCHANGED <<running, stopping, stopper, client_state, active, cluster_id, established,
                   submitted, partition_count, lastConn, conn, proc, members, connecting, walk,
                   epoch, synced>>

-----------------------------------------------------------------------------
\* shutdown(), by the application or shutdown_with_external_thread()

Shutdown ==
    /\ running
    /\ CanShutdown \/ stopper
    /\ running' = FALSE
    /\ UNCHANGED <<stopping, stopper, client_state, active, cluster_id, established, submitted,
                   partition_count, lastConn, conn, proc, members, connecting, walk, init,
                   epoch, synced>>

\* ClientConnectionManagerImpl::shutdown() goes through the connections the map holds now
ShutdownLists ==
    /\ ~running
    /\ stopping = "no"
    /\ stopping' = "closing"
    /\ conn' = [k \in Conns |->
                  IF conn[k].alive /\ \E m \in Members : active[m] = k
                    THEN [conn[k] EXCEPT !.closer = "listed"]
                    ELSE conn[k]]
    /\ UNCHANGED <<running, stopper, client_state, active, cluster_id, established, submitted,
                   partition_count, lastConn, proc, members, connecting, walk, init,
                   epoch, synced>>

ShutdownCloses(k) ==
    /\ conn[k].closer = "listed"
    /\ conn' = [conn EXCEPT ![k].alive = FALSE, ![k].closer = "begun"]
    /\ UNCHANGED <<running, stopping, stopper, client_state, active, cluster_id, established,
                   submitted, partition_count, lastConn, proc, members, connecting, walk, init,
                   epoch, synced>>

\* the thread pool is joined, the I/O threads end, the map is cleared
ShutdownEnds ==
    /\ stopping = "closing"
    /\ \A p \in Procs \ {Main} : proc[p] = "idle"
    /\ \A k \in Conns : init[k].pc = "none" /\ conn[k].closer \in {"none", "done"}
    /\ stopping' = "done"
    /\ active' = [m \in Members |-> None]
    /\ UNCHANGED <<running, stopper, client_state, cluster_id, established, submitted,
                   partition_count, lastConn, conn, proc, members, connecting, walk, init,
                   epoch, synced>>

\* ClientClusterServiceImpl::handle_event() for a members view that some member sends:
\* the connections to members that left are closed
MembersView(view) ==
    /\ \E m \in view : active[m] # None /\ \A n \in view : Cluster[n] = Cluster[m]
    /\ members' = view
    /\ conn' = [k \in Conns |->
                  IF conn[k].alive /\ \E m \in members \ view : active[m] = k
                    THEN [conn[k] EXCEPT !.alive = FALSE, !.closer = "begun"]
                    ELSE conn[k]]
    /\ UNCHANGED <<running, stopping, stopper, client_state, active, cluster_id, established,
                   submitted, partition_count, lastConn, proc, connecting, walk, init,
                   epoch, synced>>

-----------------------------------------------------------------------------
Close(k) == CloseReads(k) \/ CloseRemoves(k)

OnAuthenticated(k) ==
    \/ Refused(k) \/ Duplicate(k) \/ Register(k)
    \/ RecheckDead(k) \/ RecheckAlive(k) \/ RecheckRunning(k)

Open(p) ==
    \/ \E m \in Members : Dial(p, m) \/ UseExisting(p, m)
    \/ GiveUp(p)

InitTask(k) == InitBegins(k) \/ InitSent(k) \/ InitEnds(k) \/ InitFails(k)

Next ==
    \/ \E k \in Conns : Break(k) \/ Close(k) \/ DialFails(k) \/ OnAuthenticated(k) \/ InitTask(k)
                         \/ ShutdownCloses(k)
    \/ \E p \in Procs : Open(p)
    \/ \E m \in Members : StartSkips(m) \/ WalkVisits(m) \/ MemberTask(m)
    \/ \E m, n \in Members : StartConnects(m, n)
    \/ TaskEnds \/ StartWalks \/ StartEnds \/ WalkBegins \/ WalkChecks
    \/ Shutdown \/ ShutdownLists \/ ShutdownEnds
    \/ \E view \in SUBSET Members : MembersView(view)

Spec == Init /\ [][Next]_vars

-----------------------------------------------------------------------------
\* Properties

Connection ==
    [stage  : {"unused", "dialing", "refused", "added", "checked", "ended"},
     by     : Procs \cup {Nil},
     to     : Members \cup {Nil},
     alive  : BOOLEAN,
     remote : BOOLEAN,
     closer : {"none", "begun", "remove", "listed", "done"}]

\* The type invariant, with what on_connection_close() relies on: a connection in
\* active_connections_ has its remote uuid set, and to that member.
TypeOK ==
    /\ running \in BOOLEAN /\ stopper \in BOOLEAN
    /\ stopping \in {"no", "closing", "done"}
    /\ client_state \in {"INITIAL", "CONNECTED", "INITIALIZED", "DISCONNECTED"}
    /\ established \in BOOLEAN /\ submitted \in BOOLEAN
    /\ lastConn \in 0 .. MaxConn
    /\ active \in [Members -> 0 .. lastConn]
    /\ conn \in [Conns -> Connection]
    /\ proc \in [Procs \cup {Timer} ->
                {"checked", "idle", "posted", "try", "dial", "dial_all", "walk", "done"}]
    /\ members \subseteq Members /\ connecting \subseteq Members
    /\ walk \in [Loops -> SUBSET Members]
    /\ \A m \in Members : active[m] # None => conn[active[m]].to = m /\ conn[active[m]].remote

\* A client without connections is on its way to reconnect, or to stop: the task of
\* submit_connect_to_cluster_task() clears its flag and looks at active_connections_
\* under the mutex, so that no trigger of on_connection_close() is lost.
NoLostReconnect ==
    established /\ running /\ Empty(active) => proc[Task] # "idle" \/ stopper

\* No dead connection stays in active_connections_: whoever closed it, or the thread
\* in on_authenticated() that registered it, is still going to remove it.
DeadConnectionsLeave ==
    \A m \in Members :
        LET k == active[m] IN
        k # None /\ ~conn[k].alive => conn[k].closer \in {"begun", "remove"}
                                       \/ conn[k].stage = "added"

\* No connection is open behind the manager's back: once on_authenticated() is
\* through with a connection it accepted, the connection is active or closed.
NoOrphan ==
    \A k \in Conns : conn[k].stage = "ended" /\ conn[k].alive => active[conn[k].to] = k

\* shutdown() and a thread that registers a connection at the same time leave no
\* connection open: one of the two closes it.
ClosedAfterShutdown ==
    \A k \in Conns : stopping # "no" /\ conn[k].stage = "ended" =>
                        ~conn[k].alive \/ conn[k].closer = "listed"

\* A client that waits to be initialized (it refuses all invocations) has a task that
\* sends its state to the current cluster.
InitPending ==
    client_state = "CONNECTED" /\ running =>
        \E k \in Conns : init[k].pc # "none" /\ Cluster[conn[k].to] = cluster_id

\* "the invariant that the schema must come to cluster before the data" (spi.cpp,
\* check_urgent_invocation_allowed): invocations are let through only when the state
\* was sent to what the client is connected to now.
SchemasBeforeData ==
    HasSchemas /\ client_state = "INITIALIZED" /\ ~Empty(active) => epoch \in synced

\* "The first connection that opens a connection to the new cluster should set
\* clusterId" (network.cpp, on_authenticated): all active connections are to the
\* cluster whose id the manager holds.
ActiveConnectionsAgree ==
    \A m \in Members : active[m] # None => Cluster[m] = cluster_id
=============================================================================
