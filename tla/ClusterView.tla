---------------------------- MODULE ClusterView ----------------------------
(***************************************************************************)
(* How the client follows the cluster: the cluster view listener (which    *)
(* connection carries it), the member list with its versions, the events   *)
(* given to membership listeners and the partition table                   *)
(* (cluster_view_listener, ClientClusterServiceImpl and                    *)
(* ClientPartitionServiceImpl in spi.cpp), driven by the connections that  *)
(* ClientConnectionManagerImpl adds and removes (network.cpp).             *)
(*                                                                         *)
(* The calls nest: a member view closes connections, a closed connection   *)
(* re-registers the listener, a registration resets the list version, all  *)
(* under two mutexes.  A worker (an event, I/O or connecting thread) is    *)
(* therefore a stack of steps, todo[w]: the head is executed, and a call   *)
(* pushes the callee's steps in front of what is left.                     *)
(***************************************************************************)
EXTENDS Integers, Sequences, FiniteSets

CONSTANTS
    Workers,        \* threads that run event handlers, closes and handshakes
    Members,        \* uuids of the members of all the clusters
    ClusterOf(_),   \* the cluster a member belongs to
    ViewOf(_, _),   \* the members of cluster k at version v of its list
    MaxVersion,     \* bound: a cluster's list has versions 1..MaxVersion
    MaxConn,        \* bound: connections have ids 1..MaxConn
    Refusals        \* bound: registrations a live member answers with an error

Conns == 1..MaxConn
Clusters == {ClusterOf(m) : m \in Members}
None == "none"
NoConn == 0         \* stands for -1 in listener_added_connection_id_
EMPTY_SNAPSHOT == [version |-> -1, members |-> {}]

VARIABLES
    alive,          \* connections whose alive_ flag is set
    peer,           \* the member a connection authenticated with
    active,         \* active_connections_
    cluster_id,     \* cluster_id_ of the connection manager
    switched,       \* history: an on_cluster_restart has happened
    listener,       \* listener_added_connection_id_
    asked,          \* connections with a registration request under way
    accepted,       \* connections whose member sends views
    refused,        \* registrations answered with an error so far
    world,          \* the version each cluster's member list has reached
    inbox,          \* views received and not yet handled
    snapshot,       \* member_list_snapshot_
    latch,          \* initial_list_fetched_latch_ is counted down
    told,           \* the members a membership listener has been told of
    table,          \* partition_table_: where it came from, and its version
    cluster_view_lock,  \* the worker that holds it
    client_state_mutex, \* the worker that holds it, and how many times
    todo            \* todo[w]: what worker w has still to do

connVars == <<alive, peer, active, cluster_id, switched>>
serverVars == <<asked, accepted, refused, world, inbox>>
listVars == <<snapshot, latch, told, table>>
lockVars == <<cluster_view_lock, client_state_mutex>>
vars == <<connVars, listener, serverVars, listVars, lockVars, todo>>

\* The current members of cluster k, and the live connections to such members:
\* a member that has left a cluster sends nothing.
Current(k) == ViewOf(k, world[k])
Serving == {c \in alive : peer[c] # None /\ peer[c] \in Current(ClusterOf(peer[c]))}

Idle(w) == todo[w] = <<>>
Top(w) == Head(todo[w])
At(w, step) == ~Idle(w) /\ Top(w).do = step

\* The worker's step is done and steps are to run before the rest.
Then(w, steps) == todo' = [todo EXCEPT ![w] = steps \o Tail(@)]
Begin(w, steps) == todo' = [todo EXCEPT ![w] = steps]

MayLockState(w) == client_state_mutex.owner \in {None, w}
LockState(w) == client_state_mutex' =
    [owner |-> w, depth |-> client_state_mutex.depth + 1]

Init ==
    /\ alive = Conns
    /\ peer = [c \in Conns |-> None]
    /\ active = {}
    /\ cluster_id = None
    /\ switched = FALSE
    /\ listener = NoConn
    /\ asked = {} /\ accepted = {} /\ refused = 0
    /\ world = [k \in Clusters |-> 1]
    /\ inbox = {}
    /\ snapshot = EMPTY_SNAPSHOT
    /\ latch = FALSE
    /\ told = {}
    /\ table = [conn |-> NoConn, version |-> -1]
    /\ cluster_view_lock = None
    /\ client_state_mutex = [owner |-> None, depth |-> 0]
    /\ todo = [w \in Workers |-> <<>>]

-----------------------------------------------------------------------------
(* Connections: ClientConnectionManagerImpl::on_authenticated and          *)
(* on_connection_close, as far as the view listener sees them.             *)

\* on_authenticated up to on_cluster_restart: the mutex is taken, a second
\* connection to the same member is closed, a new cluster id restarts.
OnAuthenticated(w, c, m) ==
    /\ Idle(w)
    /\ peer[c] = None /\ \A d \in Conns : d < c => peer[d] # None
    /\ m \in Current(ClusterOf(m))
    /\ client_state_mutex.owner = None
    /\ peer' = [peer EXCEPT ![c] = m]
    /\ IF \E d \in active : peer[d] = m
         THEN /\ alive' = alive \ {c}
              /\ UNCHANGED <<client_state_mutex, switched, todo>>
         ELSE /\ LockState(w)
              /\ switched' = (switched \/ cluster_id \notin {None, ClusterOf(m)})
              /\ Begin(w, (IF cluster_id \notin {None, ClusterOf(m)}
                             THEN <<[do |-> "clear"]>> ELSE <<>>)
                          \o <<[do |-> "put", conn |-> c],
                               [do |-> "register", conn |-> c],
                               [do |-> "unlock state"],
                               [do |-> "check", conn |-> c]>>)
              /\ UNCHANGED alive
    /\ UNCHANGED <<active, cluster_id, listener, serverVars, listVars,
                   cluster_view_lock>>

\* The connection enters the maps; the first one sets the cluster id.
PutConnection(w) ==
    /\ At(w, "put")
    /\ cluster_id' = IF active = {} THEN ClusterOf(peer[Top(w).conn])
                                    ELSE cluster_id
    /\ active' = active \cup {Top(w).conn}
    /\ Then(w, <<>>)
    /\ UNCHANGED <<alive, peer, switched, listener, serverVars, listVars, lockVars>>

\* The final is_alive check of on_authenticated.
CheckAlive(w) ==
    /\ At(w, "check")
    /\ Then(w, IF Top(w).conn \in alive
                 THEN <<>> ELSE <<[do |-> "closed", conn |-> Top(w).conn]>>)
    /\ UNCHANGED <<connVars, listener, serverVars, listVars, lockVars>>

\* Connection::close from the I/O side: the socket fails.
SocketFails(w, c) ==
    /\ Idle(w)
    /\ c \in alive
    /\ alive' = alive \ {c}
    /\ Begin(w, <<[do |-> "closed", conn |-> c]>>)
    /\ UNCHANGED <<peer, active, cluster_id, switched, listener, serverVars,
                   listVars, lockVars>>

\* on_connection_close.  A connection that never authenticated is left alone;
\* otherwise the recursive mutex is taken and, when the connection was in the
\* maps, connection_removed runs under it.
OnConnectionClose(w) ==
    LET c == Top(w).conn IN
    /\ At(w, "closed")
    /\ peer[c] = None \/ MayLockState(w)
    /\ IF c \in active
         THEN /\ active' = active \ {c}
              /\ LockState(w)
              /\ Then(w, <<[do |-> "reregister", conn |-> c],
                           [do |-> "unlock state"]>>)
         ELSE /\ Then(w, <<>>)
              /\ UNCHANGED <<active, client_state_mutex>>
    /\ UNCHANGED <<alive, peer, cluster_id, switched, listener, serverVars,
                   listVars, cluster_view_lock>>

UnlockState(w) ==
    /\ At(w, "unlock state")
    /\ client_state_mutex' = IF client_state_mutex.depth = 1
                               THEN [owner |-> None, depth |-> 0]
                               ELSE [client_state_mutex EXCEPT !.depth = @ - 1]
    /\ Then(w, <<>>)
    /\ UNCHANGED <<connVars, listener, serverVars, listVars, cluster_view_lock>>

-----------------------------------------------------------------------------
(* cluster_view_listener                                                   *)

\* get_random_connection: with smart routing the load balancer picks a member
\* of the list, and an empty list gives none even while connections exist.
get_random_connection ==
    LET to(m) == {c \in active : peer[c] = m}
    IN  UNION {IF to(m) # {} THEN to(m) ELSE active : m \in snapshot.members}

\* Mutant: a registration takes the listener over from another connection.
TryRegisterAlways(w) ==
    /\ At(w, "register")
    /\ listener' = Top(w).conn
    /\ Then(w, <<[do |-> "invoke", conn |-> Top(w).conn]>>)
    /\ UNCHANGED <<connVars, serverVars, listVars, lockVars>>

\* try_register, up to before_listener_register.
try_register(w) ==
    /\ At(w, "register")
    /\ IF listener = NoConn
         THEN /\ listener' = Top(w).conn
              /\ Then(w, <<[do |-> "invoke", conn |-> Top(w).conn]>>)
         ELSE /\ UNCHANGED listener
              /\ Then(w, <<>>)
    /\ UNCHANGED <<connVars, serverVars, listVars, lockVars>>

\* before_listener_register (clear_member_list_version) and invoke_urgent.
clear_member_list_version(w) ==
    /\ At(w, "invoke")
    /\ cluster_view_lock = None
    /\ snapshot' = IF snapshot = EMPTY_SNAPSHOT
                     THEN snapshot ELSE [snapshot EXCEPT !.version = 0]
    /\ asked' = asked \cup {Top(w).conn}
    /\ Then(w, <<>>)
    /\ UNCHANGED <<connVars, listener, accepted, refused, world, inbox, latch,
                   told, table, lockVars>>

\* try_reregister_to_random_connection.
try_reregister_to_random_connection(w) ==
    /\ At(w, "reregister")
    /\ IF listener = Top(w).conn
         THEN /\ listener' = NoConn
              /\ IF get_random_connection = {}
                   THEN Then(w, <<>>)
                   ELSE \E d \in get_random_connection :
                          Then(w, <<[do |-> "register", conn |-> d]>>)
         ELSE /\ UNCHANGED listener
              /\ Then(w, <<>>)
    /\ UNCHANGED <<connVars, serverVars, listVars, lockVars>>

-----------------------------------------------------------------------------
(* ClientClusterServiceImpl                                                *)

\* The events between two lists, given to the membership listener.
Fire(old, new) == [do |-> "fire", left |-> old \ new, joined |-> new \ old]

\* What follows a stored list, the lock still held: the connections of the
\* members that left are closed, the lock is released, the events are fired.
detect_membership_events(old, new) ==
    <<[do |-> "leave", members |-> old \ new], Fire(old, new)>>

\* handle_event: the unlocked read that decides which branch is tried.
HandleMembersView(w, e) ==
    /\ Idle(w)
    /\ e \in inbox /\ e.kind = "members"
    /\ inbox' = inbox \ {e}
    /\ Begin(w, CASE snapshot = EMPTY_SNAPSHOT ->
                       <<[do |-> "initial", view |-> e]>>
                  [] snapshot # EMPTY_SNAPSHOT /\ e.version >= snapshot.version ->
                       <<[do |-> "apply", view |-> e]>>
                  [] OTHER -> <<>>)
    /\ UNCHANGED <<connVars, listener, asked, accepted, refused, world,
                   listVars, lockVars>>

\* The EMPTY_SNAPSHOT branch: checked again under the lock, apply_initial_state.
apply_initial_state(w) ==
    LET e == Top(w).view IN
    /\ At(w, "initial")
    /\ cluster_view_lock = None
    /\ IF snapshot = EMPTY_SNAPSHOT
         THEN /\ snapshot' = [version |-> e.version, members |-> e.members]
              /\ told' = e.members
              /\ latch' = TRUE
              /\ Then(w, <<>>)
         ELSE /\ Then(w, IF e.version >= snapshot.version
                           THEN <<[do |-> "apply", view |-> e]>> ELSE <<>>)
              /\ UNCHANGED <<snapshot, told, latch>>
    /\ UNCHANGED <<connVars, listener, serverVars, table, lockVars>>

\* Mutant: the version read before the lock decides.
ApplyUnchecked(w) ==
    LET e == Top(w).view IN
    /\ At(w, "apply")
    /\ cluster_view_lock = None
    /\ snapshot' = [version |-> e.version, members |-> e.members]
    /\ cluster_view_lock' = w
    /\ Then(w, detect_membership_events(snapshot.members, e.members))
    /\ UNCHANGED <<connVars, listener, serverVars, latch, told, table,
                   client_state_mutex>>

\* The second branch: the version is checked again under the lock.
ApplyView(w) ==
    LET e == Top(w).view IN
    /\ At(w, "apply")
    /\ cluster_view_lock = None
    /\ IF e.version >= snapshot.version
         THEN /\ snapshot' = [version |-> e.version, members |-> e.members]
              /\ cluster_view_lock' = w
              /\ Then(w, detect_membership_events(snapshot.members, e.members))
         ELSE /\ Then(w, <<>>)
              /\ UNCHANGED <<snapshot, cluster_view_lock>>
    /\ UNCHANGED <<connVars, listener, serverVars, latch, told, table,
                   client_state_mutex>>

\* clear_member_list, from on_cluster_restart.
clear_member_list(w) ==
    /\ At(w, "clear")
    /\ cluster_view_lock = None
    /\ snapshot' = [version |-> 0, members |-> {}]
    /\ cluster_view_lock' = w
    /\ Then(w, detect_membership_events(snapshot.members, {}))
    /\ UNCHANGED <<connVars, listener, serverVars, latch, told, table,
                   client_state_mutex>>

\* The loop of detect_membership_events over the members that left; after the
\* last one the lock is released.
CloseConnectionOfLeft(w) ==
    /\ At(w, "leave")
    /\ IF Top(w).members = {}
         THEN /\ cluster_view_lock' = None
              /\ Then(w, <<>>)
              /\ UNCHANGED alive
         ELSE \E m \in Top(w).members :
                LET c == {d \in active : peer[d] = m}
                    rest == <<[do |-> "leave", members |-> Top(w).members \ {m}]>>
                IN  /\ alive' = alive \ c
                    /\ UNCHANGED cluster_view_lock
                    /\ Then(w, IF c \cap alive = {} THEN rest
                               ELSE <<[do |-> "closed",
                                       conn |-> CHOOSE d \in c : TRUE]>> \o rest)
    /\ UNCHANGED <<peer, active, cluster_id, switched, listener, serverVars,
                   listVars, client_state_mutex>>

\* fire_events: a batch is given to the listeners under listeners_lock_.
fire_events(w) ==
    /\ At(w, "fire")
    /\ told' = (told \ Top(w).left) \cup Top(w).joined
    /\ Then(w, <<>>)
    /\ UNCHANGED <<connVars, listener, serverVars, snapshot, latch, table, lockVars>>

-----------------------------------------------------------------------------
(* ClientPartitionServiceImpl::handle_event: the compare-and-swap loop      *)
(* makes the test and the store one step.                                   *)

should_be_applied(e) ==
    /\ e.members # {}
    /\ \/ table.conn # e.conn
       \/ e.version > table.version

HandlePartitionsView(e) ==
    /\ e \in inbox /\ e.kind = "partitions"
    /\ inbox' = inbox \ {e}
    /\ table' = IF should_be_applied(e)
                  THEN [conn |-> e.conn, version |-> e.version] ELSE table
    /\ UNCHANGED <<connVars, listener, asked, accepted, refused, world, snapshot,
                   latch, told, lockVars, todo>>

-----------------------------------------------------------------------------
(* The members (outside the client): they accept or refuse the listener and *)
(* send it every new view; what a dead connection has not read is lost.     *)

Views(c, v) ==
    [kind : {"members", "partitions"}, conn : {c}, version : {v},
     members : {ViewOf(ClusterOf(peer[c]), v)}]

Accept(c) ==
    /\ c \in asked \cap Serving
    /\ asked' = asked \ {c}
    /\ accepted' = accepted \cup {c}
    /\ inbox' = inbox \cup Views(c, world[ClusterOf(peer[c])])
    /\ UNCHANGED <<connVars, listener, refused, world, listVars, lockVars, todo>>

\* The registration fails: f.get() in the continuation throws whatever failed
\* out of it, so nothing of the client changes.
RegistrationFails(c) ==
    /\ c \in asked
    /\ c \in Serving => refused < Refusals
    /\ refused' = IF c \in Serving THEN refused + 1 ELSE refused
    /\ asked' = asked \ {c}
    /\ UNCHANGED <<connVars, listener, accepted, world, inbox, listVars,
                   lockVars, todo>>

ClusterChanges(k) ==
    /\ world[k] < MaxVersion
    /\ world' = [world EXCEPT ![k] = @ + 1]
    /\ inbox' = inbox \cup UNION {Views(c, world'[k]) : c \in
                    {d \in accepted \cap alive : peer[d] \in ViewOf(k, world'[k])}}
    /\ UNCHANGED <<connVars, listener, asked, accepted, refused, listVars,
                   lockVars, todo>>

ViewLost(e) ==
    /\ e \in inbox /\ e.conn \notin alive
    /\ inbox' = inbox \ {e}
    /\ UNCHANGED <<connVars, listener, asked, accepted, refused, world, listVars,
                   lockVars, todo>>

-----------------------------------------------------------------------------
WorkerStep(w) ==
    \/ PutConnection(w) \/ CheckAlive(w) \/ OnConnectionClose(w) \/ UnlockState(w)
    \/ try_register(w) \/ clear_member_list_version(w)
    \/ try_reregister_to_random_connection(w)
    \/ apply_initial_state(w) \/ ApplyView(w) \/ clear_member_list(w)
    \/ CloseConnectionOfLeft(w) \/ fire_events(w)

Next ==
    \/ \E w \in Workers : WorkerStep(w)
    \/ \E w \in Workers, c \in Conns, m \in Members : OnAuthenticated(w, c, m)
    \/ \E w \in Workers, c \in Conns : SocketFails(w, c)
    \/ \E w \in Workers, e \in inbox : HandleMembersView(w, e)
    \/ \E e \in inbox : HandlePartitionsView(e) \/ ViewLost(e)
    \/ \E c \in Conns : Accept(c) \/ RegistrationFails(c)
    \/ \E k \in Clusters : ClusterChanges(k)

Spec == Init /\ [][Next]_vars
-----------------------------------------------------------------------------
(* Properties                                                              *)

\* The members' views that are on their way or being handled.
UnderWay == inbox # {} \/ asked # {} \/ \E w \in Workers : ~Idle(w)

\* Nothing is under way and a live member sends the views.
Settled == ~UnderWay /\ listener \in accepted \cap Serving

\* Types, and: the mutex is held exactly while its depth is positive, and a
\* worker that holds cluster_view_lock_ is still in detect_membership_events.
TypeOK ==
    /\ alive \subseteq Conns /\ active \subseteq Conns
    /\ peer \in [Conns -> Members \cup {None}]
    /\ cluster_id \in Clusters \cup {None} /\ switched \in BOOLEAN
    /\ listener \in Conns \cup {NoConn}
    /\ asked \subseteq Conns /\ accepted \subseteq Conns /\ refused \in 0..Refusals
    /\ world \in [Clusters -> 1..MaxVersion]
    /\ snapshot.version \in -1..MaxVersion /\ snapshot.members \subseteq Members
    /\ latch \in BOOLEAN /\ told \subseteq Members
    /\ table.conn \in Conns \cup {NoConn} /\ table.version \in -1..MaxVersion
    /\ client_state_mutex.owner = None <=> client_state_mutex.depth = 0
    /\ \A w \in Workers : cluster_view_lock = w =>
          \E i \in DOMAIN todo[w] : todo[w][i].do = "leave"

\* At most one live member sends views, the one listener_added_connection_id_
\* names: the compare-and-swaps of try_register and of
\* try_reregister_to_random_connection keep connections that are added and
\* removed by different threads from registering the listener twice.
OneViewSource ==
    \A c \in (asked \cup accepted) \cap alive : listener = c

\* The version of the member list goes back only by a reset to zero: two
\* threads that handle views of one connection in either order (events have no
\* partition id and run on any event thread) leave the newer one in place,
\* because handle_event looks at the version again under the lock.  The
\* partition table's version does not fall while its views come from one
\* connection.
VersionsNeverFall ==
    [][/\ snapshot'.version >= snapshot.version \/ snapshot'.version = 0
       /\ table'.conn = table.conn => table'.version >= table.version]_vars

\* As long as the client has met one cluster id only, the member list is the
\* cluster's current one whenever nothing is under way: views that arrive late
\* from a connection that was lost, before or after the version is reset for
\* the next registration, do not displace the newer list for good.
MembersCurrent ==
    Settled /\ ~switched =>
        snapshot.members = Current(ClusterOf(peer[listener]))

\* Threads run, the members answer, and received views are handled.
Fairness ==
    /\ \A w \in Workers : WF_vars(WorkerStep(w))
    /\ \A c \in Conns : WF_vars(Accept(c) \/ RegistrationFails(c))
    /\ WF_vars(\E w \in Workers, e \in inbox : HandleMembersView(w, e))
FairSpec == Spec /\ Fairness

\* "completes with exception, listener needs to be reregistered"
\* (spi.cpp:3402): a registration that fails is followed by another one, as
\* long as there is a connection to register on.
ListenerReregistered ==
    []<>(\/ active = {}
         \/ listener \in accepted \cap alive)

\* "Set an handler function to be invoked when an existing member leaves the
\* cluster" (membership_listener.h:81): a thread that has put a new list in
\* place gives its events to the listeners sooner or later.
EventsFired ==
    \A w \in Workers :
        (\E i \in DOMAIN todo[w] : todo[w][i].do = "fire") ~> Idle(w)
=============================================================================
