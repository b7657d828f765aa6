----------------------------- MODULE Invocation -----------------------------
(***************************************************************************)
(* The life of a client invocation (spi.cpp: ClientInvocation,             *)
(* ClientInvocationServiceImpl, ClientResponseHandler; network.cpp:        *)
(* Connection::close), at the grain of the atomics it is written with.     *)
(*                                                                         *)
(* Each attempt has a correlation id of its own.  Five kinds of threads    *)
(* meet on one invocation, each with a program counter in proc:            *)
(*   - the thread that makes attempt id (the caller, later an executor     *)
(*     task): process id;                                                  *)
(*   - the response threads (Readers), which handle responses and the      *)
(*     acknowledgements of backups;                                        *)
(*   - whoever closes connection c: process c;                             *)
(*   - the periodic check_backup_timeouts(): process Cleaner.              *)
(* The registry of invocations (boost::concurrent_flat_map) is external:   *)
(* an entry that erase_if() is visiting is locked for every other access,  *)
(* and the lock is not reentrant.  The members and the network are         *)
(* external too.                                                           *)
(***************************************************************************)
EXTENDS Integers, FiniteSets

CONSTANTS
    Invs,               \* invocations the application starts
    Conns,              \* connections
    Readers,            \* response threads
    Cleaner,            \* the thread of check_backup_timeouts()
    FailOnIndeterminate,\* fail_on_indeterminate_operation_state_
    Closable,           \* connections that may break
    CanShutdown,        \* whether the client may be shut down
    MaxBackups,         \* bound: backups a member announces in a response
    MaxId               \* bound: correlation ids issued

NoConn == "no connection"

ASSUME ClosableAssumption == Closable \subseteq Conns
ASSUME FlagsAssumption == FailOnIndeterminate \in BOOLEAN /\ CanShutdown \in BOOLEAN
ASSUME BoundsAssumption == MaxBackups \in Nat /\ MaxId \in Nat \ {0}

Ids == 1 .. MaxId
None == 0           \* no id, a null pointer
Procs == Ids \cup Readers \cup Conns \cup {Cleaner}
ASSUME ProcsAssumption ==
    /\ Readers \cap Conns = {} /\ Cleaner \notin Readers \cup Conns
    /\ Ids \cap (Readers \cup Conns \cup {Cleaner}) = {}
    /\ NoConn \notin Conns /\ None \notin Invs

VARIABLES
    running,    \* lifecycle_service::active_
    timer,      \* the periodic task of check_backup_timeouts() is armed
    alive,      \* Connection::alive_
    registry,   \* ids in ClientInvocationServiceImpl::invocations_
    visiting,   \* id whose entry erase_if() holds locked, or None
    lastId,     \* correlation ids issued so far
    inv,        \* the ClientInvocation objects, see NewInvocation
    att,        \* the attempts, see NewAttempt
    proc,       \* program counter and locals of each thread, see Idle
    scan,       \* per closing connection: entries of the registry still to visit
    toFail,     \* per closing connection: to_fail of notify_connection_closed()
    inbox       \* messages in the queues of the response threads

vars == <<running, timer, alive, registry, visiting, lastId, inv, att, proc, scan, toFail, inbox>>

Unset == [kind |-> "unset", id |-> None, via |-> "none"]

NewInvocation ==
    [bound    |-> NoConn,   \* connection_: the single connection it is bound to
     retryable|-> FALSE,    \* the message is_retryable(), or redo_operation is configured
     msgId    |-> None,     \* correlation id in client_message_
     sendPtr  |-> -1,       \* send_connection_, named by the attempt that stored it;
                            \* -1: the constructor's pointer to no connection
     acks     |-> 0,        \* backup_acks_received_
     expected |-> -1,       \* backup_acks_expected_
     pending  |-> None,     \* pending_response_: the id it answers
     ripe     |-> FALSE,    \* backup_timeout_ has passed since pending_response_received_time_
     future   |-> Unset]    \* invocation_promise_

NewAttempt ==
    [owner    |-> None,     \* the invocation
     target   |-> NoConn,   \* the connection it is sent to
     wire     |-> "none",   \* how far the message got
     backups  |-> 0,        \* backups the member announces in its response
     ackLeft  |-> 0]        \* their acknowledgements that are not delivered (yet)

Idle == [pc |-> "idle", inv |-> None, id |-> None, ptr |-> None, exc |-> "none", n |-> 0]

Init ==
    /\ running = TRUE
    /\ timer = TRUE
    /\ alive = [c \in Conns |-> TRUE]
    /\ registry = {}
    /\ visiting = None
    /\ lastId = 0
    /\ inv = [i \in Invs |-> NewInvocation]
    /\ att = [id \in Ids |-> NewAttempt]
    /\ proc = [p \in Procs |-> Idle]
    /\ scan = [c \in Conns |-> {}]
    /\ toFail = [c \in Conns |-> {}]
    /\ inbox = {}

-----------------------------------------------------------------------------
\* Steps of a thread.  A step that ends a call returns to the caller's loop.

At(p, pc) == proc[p].pc = pc
Goto(p, pc) == proc' = [proc EXCEPT ![p].pc = pc]

AfterNotify(p) ==
    IF p \in Conns THEN [proc[p] EXCEPT !.pc = "fail_next"]
    ELSE IF p = Cleaner THEN [proc[p] EXCEPT !.pc = "bt_erase"]
    ELSE Idle
Return(p) == proc' = [proc EXCEPT ![p] = AfterNotify(p)]

\* a step that touches the invocation and the thread's locals only
OnInvocation ==
    UNCHANGED <<running, timer, alive, registry, visiting, lastId, att, scan, toFail, inbox>>

\* the entry for id can be accessed: erase_if() is not visiting it
Unlocked(id) == visiting # id

Register(id) == Unlocked(id) /\ registry' = registry \cup {id}
Deregister(id) == Unlocked(id) /\ registry' = registry \ {id}

\* promise.set_value() and set_exception(): the first one counts, a later one
\* throws promise_already_satisfied, which is caught
Settle(i, result) == inv' = [inv EXCEPT ![i].future = IF @ = Unset THEN result ELSE @]

\* the thread calls notify_exception(id, exc) or notify(response with n backups) on i
Call(p, pc, i, id, exc, n) ==
    proc' = [proc EXCEPT ![p] = [pc |-> pc, inv |-> i, id |-> id, ptr |-> None,
                                 exc |-> exc, n |-> n]]

-----------------------------------------------------------------------------
\* get_permission_to_notify(): the right to notify goes to the one thread that
\* swaps send_connection_ from the pointer it loaded to null

LoadPointer(p) ==
    LET i == proc[p].inv IN
    /\ At(p, "perm_load")
    /\ IF inv[i].sendPtr = None
         THEN Return(p)
         ELSE proc' = [proc EXCEPT ![p].ptr = inv[i].sendPtr, ![p].pc = "perm_id"]
    /\ UNCHANGED inv /\ OnInvocation

\* mutant: the correlation id of the answer is not compared
AnyCorrelationId(p) ==
    /\ At(p, "perm_id")
    /\ Goto(p, "perm_cas")
    /\ UNCHANGED inv /\ OnInvocation

CheckCorrelationId(p) ==
    /\ At(p, "perm_id")
    /\ IF proc[p].id # inv[proc[p].inv].msgId THEN Return(p) ELSE Goto(p, "perm_cas")
    /\ UNCHANGED inv /\ OnInvocation

\* mutant: a plain store of null instead of the compare-and-swap
StoreNull(p) ==
    LET i == proc[p].inv IN
    /\ At(p, "perm_cas")
    /\ inv' = [inv EXCEPT ![i].sendPtr = None]
    /\ Goto(p, IF proc[p].exc = "none" THEN "resp_check" ELSE "exc_erase")
    /\ OnInvocation

SwapPointer(p) ==
    LET i == proc[p].inv IN
    /\ At(p, "perm_cas")
    /\ IF inv[i].sendPtr # proc[p].ptr
         THEN Return(p) /\ UNCHANGED inv
         ELSE /\ inv' = [inv EXCEPT ![i].sendPtr = None]
              /\ Goto(p, IF proc[p].exc = "none" THEN "resp_check" ELSE "exc_erase")
    /\ OnInvocation

-----------------------------------------------------------------------------
\* notify_response() and complete()

ResponseCheck(p) ==
    /\ At(p, "resp_check")
    /\ Goto(p, IF proc[p].n > inv[proc[p].inv].acks THEN "resp_expected" ELSE "set_value")
    /\ UNCHANGED inv /\ OnInvocation

\* mutant: the primary is counted among the backups
StoreExpectedPlusOne(p) ==
    /\ At(p, "resp_expected")
    /\ inv' = [inv EXCEPT ![proc[p].inv].expected = proc[p].n + 1]
    /\ Goto(p, "resp_pending")
    /\ OnInvocation

StoreExpected(p) ==
    /\ At(p, "resp_expected")
    /\ inv' = [inv EXCEPT ![proc[p].inv].expected = proc[p].n]
    /\ Goto(p, "resp_pending")
    /\ OnInvocation

StorePending(p) ==
    /\ At(p, "resp_pending")
    /\ inv' = [inv EXCEPT ![proc[p].inv].pending = proc[p].id]
    /\ Goto(p, "resp_recheck")
    /\ OnInvocation

\* mutant: the acks are not read again
NoRecheck(p) ==
    /\ At(p, "resp_recheck")
    /\ Return(p)
    /\ UNCHANGED inv /\ OnInvocation

ResponseRecheck(p) ==
    /\ At(p, "resp_recheck")
    /\ IF inv[proc[p].inv].acks # proc[p].n THEN Return(p) ELSE Goto(p, "set_value")
    /\ UNCHANGED inv /\ OnInvocation

\* complete(): a reader sets its message or the pending response, the cleaner the latter
SetValue(p) ==
    /\ At(p, "set_value")
    /\ Settle(proc[p].inv, [kind |-> "value", id |-> proc[p].id,
                            via |-> IF p = Cleaner THEN "timeout" ELSE "acked"])
    /\ Goto(p, IF p = Cleaner THEN "bt_erase" ELSE "erase")
    /\ OnInvocation

\* mutant: a completed invocation stays registered
CompletedStays(p) ==
    /\ At(p, "erase")
    /\ Return(p)
    /\ UNCHANGED inv /\ OnInvocation

EraseCompleted(p) ==
    /\ At(p, "erase")
    /\ Deregister(inv[proc[p].inv].msgId)
    /\ Return(p)
    /\ UNCHANGED <<running, timer, alive, visiting, lastId, inv, att, scan, toFail, inbox>>

-----------------------------------------------------------------------------
\* notify_backup()

CountAck(p) ==
    /\ At(p, "ack_count")
    /\ inv' = [inv EXCEPT ![proc[p].inv].acks = @ + 1]
    /\ Goto(p, "ack_pending")
    /\ OnInvocation

AckSeesPending(p) ==
    /\ At(p, "ack_pending")
    /\ IF inv[proc[p].inv].pending = None THEN Return(p) ELSE Goto(p, "ack_last")
    /\ UNCHANGED inv /\ OnInvocation

LastAck(p) ==
    LET i == proc[p].inv IN
    /\ At(p, "ack_last")
    /\ IF inv[i].expected # inv[i].acks
         THEN Return(p)
         ELSE proc' = [proc EXCEPT ![p].id = inv[i].pending, ![p].pc = "set_value"]
    /\ UNCHANGED inv /\ OnInvocation

-----------------------------------------------------------------------------
\* notify_exception_with_owned_permission(), set_exception() and execute()

\* mutant: a broken connection is a reason to retry whatever the operation
RetryWhenDisconnected(i, exc) ==
    \/ exc \in {"io", "disconnected"} /\ inv[i].bound = NoConn
    \/ exc = "retryable"

should_retry(i, exc) ==
    \/ exc = "io" /\ inv[i].bound = NoConn
    \/ exc = "retryable"
    \/ exc = "disconnected" /\ inv[i].bound = NoConn /\ inv[i].retryable

EraseFailed(p) ==
    /\ At(p, "exc_erase")
    /\ Deregister(inv[proc[p].inv].msgId)
    /\ Goto(p, "exc_decide")
    /\ UNCHANGED <<running, timer, alive, visiting, lastId, inv, att, scan, toFail, inbox>>

\* execute(): a new correlation id, and a task that makes the next attempt
Retry(p) ==
    LET i == proc[p].inv
        id == lastId + 1
    IN
    /\ At(p, "exc_decide")
    /\ running
    /\ should_retry(i, proc[p].exc)
    /\ id \in Ids
    /\ lastId' = id
    /\ inv' = [inv EXCEPT ![i].msgId = id]
    /\ att' = [att EXCEPT ![id].owner = i]
    /\ proc' = [proc EXCEPT ![p] = AfterNotify(p),
                            ![id] = [Idle EXCEPT !.pc = "select", !.inv = i]]
    /\ UNCHANGED <<running, timer, alive, registry, visiting, scan, toFail, inbox>>

\* set_exception(): the client shuts down, the exception is not one to retry,
\* or invocation_timeout_ has passed since start_time_
GiveUp(p) ==
    /\ At(p, "exc_decide")
    /\ LET exc == IF ~running THEN "not_active"
                  ELSE IF ~should_retry(proc[p].inv, proc[p].exc) THEN proc[p].exc
                  ELSE "timeout"
       IN proc' = [proc EXCEPT ![p].exc = exc, ![p].pc = "exc_dereg"]
    /\ UNCHANGED inv /\ OnInvocation

DeregisterFailed(p) ==
    /\ At(p, "exc_dereg")
    /\ Deregister(inv[proc[p].inv].msgId)
    /\ Goto(p, "exc_promise")
    /\ UNCHANGED <<running, timer, alive, visiting, lastId, inv, att, scan, toFail, inbox>>

SetException(p) ==
    /\ At(p, "exc_promise")
    /\ Settle(proc[p].inv, [kind |-> "error", id |-> inv[proc[p].inv].msgId, via |-> proc[p].exc])
    /\ Return(p)
    /\ OnInvocation

Notify(p) ==
    \/ LoadPointer(p) \/ CheckCorrelationId(p) \/ SwapPointer(p)
    \/ ResponseCheck(p) \/ StoreExpected(p) \/ StorePending(p) \/ ResponseRecheck(p)
    \/ SetValue(p) \/ EraseCompleted(p)
    \/ CountAck(p) \/ AckSeesPending(p) \/ LastAck(p)
    \/ EraseFailed(p) \/ Retry(p) \/ GiveUp(p) \/ DeregisterFailed(p) \/ SetException(p)

-----------------------------------------------------------------------------
\* The attempt: invoke(), retry(), invoke_on_selection(), send()

Invoke(i, bound, retryable) ==
    LET id == lastId + 1 IN
    /\ inv[i].msgId = None
    /\ id \in Ids
    /\ lastId' = id
    /\ inv' = [inv EXCEPT ![i].msgId = id, ![i].bound = bound, ![i].retryable = retryable]
    /\ att' = [att EXCEPT ![id].owner = i]
    /\ proc' = [proc EXCEPT ![id] = [Idle EXCEPT !.pc = "select", !.inv = i]]
    /\ UNCHANGED <<running, timer, alive, registry, visiting, scan, toFail, inbox>>

\* invoke_on_selection(): a live connection is found and send() goes on with it
Select(d, c) ==
    /\ At(d, "select")
    /\ alive[c]
    /\ inv[proc[d].inv].bound \in {c, NoConn}
    /\ att' = [att EXCEPT ![d].target = c]
    /\ Goto(d, "register")
    /\ UNCHANGED <<running, timer, alive, registry, visiting, lastId, inv, scan, toFail, inbox>>

\* invoke_on_selection(): the chosen connection is dead, there is none, or
\* check_(urgent_)invocation_allowed() throws; nothing was registered or sent
NotInvoked(d) ==
    /\ At(d, "select")
    /\ \E exc \in {"io", "offline", "retryable"} : Call(d, "exc_erase", proc[d].inv, None, exc, 0)
    /\ UNCHANGED inv /\ OnInvocation

SendRegisters(d) ==
    /\ At(d, "register")
    /\ Register(inv[proc[d].inv].msgId)
    /\ Goto(d, "set_conn")
    /\ UNCHANGED <<running, timer, alive, visiting, lastId, inv, att, scan, toFail, inbox>>

\* set_send_connection(): from here on other threads may notify the invocation
SendSetsConnection(d) ==
    /\ At(d, "set_conn")
    /\ inv' = [inv EXCEPT ![proc[d].inv].sendPtr = d]
    /\ Goto(d, "recheck")
    /\ OnInvocation

\* mutant: send() does not look at alive_ again after set_send_connection()
NoSecondLook(d) ==
    /\ At(d, "recheck")
    /\ Goto(d, "write")
    /\ UNCHANGED inv /\ OnInvocation

SendRechecks(d) ==
    /\ At(d, "recheck")
    /\ IF alive[att[d].target]
         THEN Goto(d, "write")
         ELSE Call(d, "perm_load", proc[d].inv, d, "disconnected", 0)
    /\ UNCHANGED inv /\ OnInvocation

SendWrites(d) ==
    /\ At(d, "write")
    /\ att' = [att EXCEPT ![d].wire = "written"]
    /\ Return(d)
    /\ UNCHANGED <<running, timer, alive, registry, visiting, lastId, inv, scan, toFail, inbox>>

Attempt(d) ==
    \/ \E c \in Conns : Select(d, c)
    \/ NotInvoked(d)
    \/ SendRegisters(d) \/ SendSetsConnection(d) \/ SendRechecks(d) \/ SendWrites(d)
    \/ Notify(d)

-----------------------------------------------------------------------------
\* ClientResponseHandler::process_response(): a message whose invocation is not
\* registered (any more) is dropped

Process(r, m) ==
    /\ At(r, "idle")
    /\ Unlocked(m.id)
    /\ inbox' = inbox \ {m}
    /\ IF m.id \notin registry
         THEN UNCHANGED proc
         ELSE CASE m.kind = "ack" ->
                       Call(r, "ack_count", att[m.id].owner, m.id, "none", 0)
                [] m.kind = "value" ->
                       Call(r, "perm_load", att[m.id].owner, m.id, "none", m.n)
                [] OTHER ->
                       Call(r, "perm_load", att[m.id].owner, m.id, m.kind, 0)
    /\ UNCHANGED <<running, timer, alive, registry, visiting, lastId, inv, att, scan, toFail>>

Respond(r) == Notify(r) \/ \E m \in inbox : Process(r, m)

-----------------------------------------------------------------------------
\* Connection::close() and notify_connection_closed()

Close(c) ==
    /\ alive[c]
    /\ c \in Closable \/ ~running
    /\ alive' = [alive EXCEPT ![c] = FALSE]
    /\ Goto(c, "scan_begin")
    /\ UNCHANGED <<running, timer, registry, visiting, lastId, inv, att, scan, toFail, inbox>>

\* cvisit_all() visits every entry that is there when it begins ...
ScanBegin(c) ==
    /\ At(c, "scan_begin")
    /\ scan' = [scan EXCEPT ![c] = registry]
    /\ Goto(c, "scan")
    /\ UNCHANGED <<running, timer, alive, registry, visiting, lastId, inv, att, toFail, inbox>>

SentOn(id, c) ==
    /\ id \in registry
    /\ inv[att[id].owner].sendPtr \in Ids
    /\ att[inv[att[id].owner].sendPtr].target = c

\* ... and, or not, those inserted meanwhile
ScanVisit(c, id) ==
    /\ At(c, "scan")
    /\ Unlocked(id)
    /\ id \in scan[c] \/ (id \in registry \ toFail[c] /\ SentOn(id, c))
    /\ scan' = [scan EXCEPT ![c] = @ \ {id}]
    /\ toFail' = [toFail EXCEPT ![c] = IF SentOn(id, c) THEN @ \cup {id} ELSE @]
    /\ UNCHANGED <<running, timer, alive, registry, visiting, lastId, inv, att, proc, inbox>>

ScanEnd(c) ==
    /\ At(c, "scan")
    /\ scan[c] = {}
    /\ Goto(c, "fail_next")
    /\ UNCHANGED inv /\ OnInvocation

\* the entry is erased first, then the invocation is notified
FailNext(c, id) ==
    /\ At(c, "fail_next")
    /\ id \in toFail[c]
    /\ Deregister(id)
    /\ toFail' = [toFail EXCEPT ![c] = @ \ {id}]
    /\ Call(c, "perm_load", att[id].owner, id, "disconnected", 0)
    /\ UNCHANGED <<running, timer, alive, visiting, lastId, inv, att, scan, inbox>>

Closing(c) ==
    \/ ScanBegin(c) \/ ScanEnd(c)
    \/ \E id \in Ids : ScanVisit(c, id) \/ FailNext(c, id)
    \/ Notify(c)

-----------------------------------------------------------------------------
\* check_backup_timeouts(): erase_if() with detect_and_handle_backup_timeout()

CleanerVisit(id) ==
    /\ At(Cleaner, "idle")
    /\ timer
    /\ id \in registry
    /\ visiting' = id
    /\ Call(Cleaner, "bt_acks", att[id].owner, id, "indeterminate", 0)
    /\ UNCHANGED <<running, timer, alive, registry, lastId, inv, att, scan, toFail, inbox>>

\* nothing to do for this entry: the visitor returns false
Leave ==
    /\ proc' = [proc EXCEPT ![Cleaner] = Idle]
    /\ visiting' = None

BackupsComplete(i) == inv[i].expected = inv[i].acks

CleanerReadsAcks ==
    LET i == proc[Cleaner].inv IN
    /\ At(Cleaner, "bt_acks")
    /\ IF BackupsComplete(i) THEN Leave ELSE Goto(Cleaner, "bt_pending") /\ UNCHANGED visiting
    /\ UNCHANGED <<running, timer, alive, registry, lastId, inv, att, scan, toFail, inbox>>

\* mutant: the comparison of the elapsed time is the wrong way round
CleanerReadsPendingEarly ==
    LET i == proc[Cleaner].inv IN
    /\ At(Cleaner, "bt_pending")
    /\ IF inv[i].pending = None \/ inv[i].ripe
         THEN Leave
         ELSE /\ proc' = [proc EXCEPT ![Cleaner].id = inv[i].pending, ![Cleaner].pc = "set_value"]
              /\ UNCHANGED visiting
    /\ UNCHANGED <<running, timer, alive, registry, lastId, inv, att, scan, toFail, inbox>>

CleanerReadsPending ==
    LET i == proc[Cleaner].inv IN
    /\ At(Cleaner, "bt_pending")
    /\ IF inv[i].pending = None \/ ~inv[i].ripe
         THEN Leave
         ELSE /\ proc' = [proc EXCEPT ![Cleaner].id = inv[i].pending,
                                      ![Cleaner].pc = IF FailOnIndeterminate THEN "exc_decide"
                                                                             ELSE "set_value"]
              /\ UNCHANGED visiting
    /\ UNCHANGED <<running, timer, alive, registry, lastId, inv, att, scan, toFail, inbox>>

\* the visitor returned true: erase_if() erases the entry it holds
CleanerErases ==
    /\ At(Cleaner, "bt_erase")
    /\ registry' = registry \ {visiting}
    /\ Leave
    /\ UNCHANGED <<running, timer, alive, lastId, inv, att, scan, toFail, inbox>>

\* schedule_with_repetition_internal() does not rearm the timer once the client stops
TimerEnds ==
    /\ At(Cleaner, "idle")
    /\ timer /\ ~running
    /\ timer' = FALSE
    /\ UNCHANGED <<running, alive, registry, visiting, lastId, inv, att, proc, scan, toFail, inbox>>

Clean == TimerEnds \/ CleanerReadsAcks \/ CleanerReadsPending \/ CleanerErases \/ Notify(Cleaner)

-----------------------------------------------------------------------------
\* External: time, the application, the members and the network

BackupTimeoutPasses(i) ==
    /\ inv[i].pending # None
    /\ ~inv[i].ripe
    /\ inv' = [inv EXCEPT ![i].ripe = TRUE]
    /\ UNCHANGED proc /\ OnInvocation

\* lifecycle_service::shutdown(): active_ is cleared first, then the connections are closed
Shutdown ==
    /\ CanShutdown
    /\ running
    /\ running' = FALSE
    /\ UNCHANGED <<timer, alive, registry, visiting, lastId, inv, att, proc, scan, toFail, inbox>>

\* the member runs the operation and replicates it to n backups; a message may have
\* reached the member before its connection broke
MemberApplies(id, n) ==
    /\ att[id].wire = "written"
    /\ att' = [att EXCEPT ![id].wire = "applied", ![id].backups = n, ![id].ackLeft = n]
    /\ UNCHANGED <<running, timer, alive, registry, visiting, lastId, inv, proc, scan, toFail, inbox>>

\* the response is read from the connection (handle_client_message, accept)
MemberReplies(id) ==
    /\ att[id].wire = "applied"
    /\ alive[att[id].target]
    /\ att' = [att EXCEPT ![id].wire = "answered"]
    /\ inbox' = inbox \cup {[kind |-> "value", id |-> id, n |-> att[id].backups]}
    /\ UNCHANGED <<running, timer, alive, registry, visiting, lastId, inv, proc, scan, toFail>>

\* the member did not run the operation: a retryable exception or another one
MemberRefuses(id, kind) ==
    /\ att[id].wire = "written"
    /\ alive[att[id].target]
    /\ att' = [att EXCEPT ![id].wire = "refused"]
    /\ inbox' = inbox \cup {[kind |-> kind, id |-> id, n |-> 0]}
    /\ UNCHANGED <<running, timer, alive, registry, visiting, lastId, inv, proc, scan, toFail>>

\* a backup event for attempt id is read from some connection
BackupAcks(id) ==
    /\ att[id].ackLeft > 0
    /\ att' = [att EXCEPT ![id].ackLeft = @ - 1]
    /\ inbox' = inbox \cup {[kind |-> "ack", id |-> id, n |-> att[id].ackLeft]}
    /\ UNCHANGED <<running, timer, alive, registry, visiting, lastId, inv, proc, scan, toFail>>

Member(id) ==
    \/ \E n \in 0 .. MaxBackups : MemberApplies(id, n)
    \/ MemberReplies(id)
    \/ \E kind \in {"retryable", "fatal"} : MemberRefuses(id, kind)
    \/ BackupAcks(id)

-----------------------------------------------------------------------------
Next ==
    \/ \E i \in Invs, bound \in Conns \cup {NoConn}, retryable \in BOOLEAN :
            Invoke(i, bound, retryable)
    \/ \E i \in Invs : BackupTimeoutPasses(i)
    \/ \E id \in Ids : Attempt(id) \/ CleanerVisit(id) \/ Member(id)
    \/ \E r \in Readers : Respond(r)
    \/ \E c \in Conns : Close(c) \/ Closing(c)
    \/ Clean
    \/ Shutdown

Spec == Init /\ [][Next]_vars

(***************************************************************************)
(* Fairness: a thread in the middle of a call takes its next step, and a   *)
(* thread that spins on an entry's lock gets it when the lock is released  *)
(* again and again (SF); a queued message is handled; the backup timeout   *)
(* passes; the timer task visits every registered invocation again and     *)
(* again; shutdown closes the connections.  Members, network and           *)
(* application promise nothing.                                            *)
(***************************************************************************)
Fairness ==
    /\ \A d \in Ids : SF_vars(Attempt(d))
    /\ \A r \in Readers : SF_vars(Respond(r))
    /\ \A c \in Conns : SF_vars(Closing(c)) /\ WF_vars(~running /\ Close(c))
    /\ WF_vars(Clean)
    /\ \A id \in Ids : SF_vars(CleanerVisit(id))
    /\ \A i \in Invs : WF_vars(BackupTimeoutPasses(i))

FairSpec == Spec /\ Fairness

-----------------------------------------------------------------------------
\* Properties

Results ==
    [kind : {"value"}, id : Ids, via : {"acked", "timeout"}]
        \cup [kind : {"error"}, id : Ids, via : {"io", "offline", "disconnected", "retryable",
                                "fatal", "indeterminate", "timeout", "not_active"}]

\* The type invariant, with the ranges the code relies on: only issued correlation ids
\* are registered, and a response announces backup_acks_expected_.
TypeOK ==
    /\ running \in BOOLEAN /\ timer \in BOOLEAN
    /\ alive \in [Conns -> BOOLEAN]
    /\ registry \subseteq 1 .. lastId
    /\ visiting \in Ids \cup {None}
    /\ lastId \in 0 .. MaxId
    /\ \A i \in Invs :
         /\ inv[i].bound \in Conns \cup {NoConn} /\ inv[i].retryable \in BOOLEAN
         /\ inv[i].msgId \in 0 .. lastId
         /\ inv[i].sendPtr \in -1 .. lastId
         /\ inv[i].acks \in Nat
         /\ inv[i].expected \in -1 .. MaxBackups
         /\ inv[i].pending \in 0 .. lastId
         /\ inv[i].ripe \in BOOLEAN
         /\ inv[i].future \in Results \cup {Unset}
    /\ \A id \in Ids :
         /\ att[id].owner \in IF id =< lastId THEN Invs ELSE {None}
         /\ att[id].target \in Conns \cup {NoConn}
         /\ att[id].wire \in {"none", "written", "applied", "answered", "refused"}
    /\ \A c \in Conns : scan[c] \subseteq Ids /\ toFail[c] \subseteq Ids

Settled(i) == inv[i].future # Unset

\* threads inside notify_exception_with_owned_permission(), and threads that make an attempt
Failing(i) == {p \in Procs : proc[p].inv = i /\ proc[p].pc \in
                    {"exc_erase", "exc_decide", "exc_dereg", "exc_promise"}}
Attempting(i) == {d \in Ids : proc[d].inv = i /\ proc[d].pc \in
                    {"select", "register", "set_conn"}}
Answering(i) == {p \in Readers : proc[p].inv = i /\ proc[p].pc \in
                    {"resp_check", "resp_expected", "resp_pending"}}

\* "This method can not be called from multiple threads per invocation at the same
\* time. Only ones that can set a null on send_connection can notify the invocation"
\* (ClientInvocation.h): whatever responses, closing connections, retries and the
\* backup timeout do, one thread at a time fails, answers or attempts an invocation.
OneNotifier == \A i \in Invs : Cardinality(Failing(i) \cup Attempting(i) \cup Answering(i)) =< 1

\* A late answer to an abandoned attempt never completes the invocation: the value
\* in the future answers the attempt that is current, and that attempt was answered.
NoStaleAnswer ==
    \A i \in Invs : inv[i].future.kind = "value" =>
        /\ inv[i].future.id = inv[i].msgId
        /\ att[inv[i].msgId].wire = "answered"

\* notify_response() stores the pending response and looks at the acks again;
\* notify_backup() counts and then looks for the pending response: whatever the
\* order, when all expected acks are counted somebody is about to complete the
\* future.  (check_backup_timeouts() skips such an invocation, nobody else would.)
LastAckCompletes ==
    \A i \in Invs :
        inv[i].pending # None /\ BackupsComplete(i) /\ ~Settled(i) =>
            \E r \in Readers : proc[r].inv = i /\ proc[r].pc \in
                {"resp_recheck", "ack_pending", "ack_last", "set_value"}

\* "If it is not certain whether the operation has run on the member, then the
\* non-idempotent operations are not retried" (Reference_Manual.md, 7.3.2): however
\* connections break, members apply an operation that is not retryable once at most.
AtMostOnce ==
    \A i \in Invs : ~inv[i].retryable =>
        Cardinality({id \in Ids : att[id].owner = i /\ att[id].wire \in {"applied", "answered"}}) =< 1

\* No entry of the registry outlives its invocation: when no thread is at work on a
\* settled invocation, none of its ids is registered.
NoLeak ==
    \A id \in registry :
        Settled(att[id].owner) => \E p \in Procs : proc[p].inv = att[id].owner /\ ~At(p, "idle")

\* A future that is completed with a response otherwise than by the backup timeout is
\* completed when "all its backups have completed" (spi.cpp, notify_response): no
\* acknowledgement of the attempt that is answered is missing.
AckedByItsBackups ==
    \A i \in Invs : inv[i].future.via = "acked" => att[inv[i].future.id].ackLeft = 0

\* "when the backups complete, the response will be sent by the last backup or
\* backup-timeout-handle mechanism kicks on" (spi.cpp, notify_response): a response
\* that waits for backups completes the future in the end, acks or no acks.
PendingSettles == \A i \in Invs : inv[i].pending # None ~> Settled(i)

\* An attempt whose connection breaks does not hang: notify_connection_closed() or the
\* second look at alive_ in send() settles the invocation or starts another attempt,
\* whatever the order in which sending and closing meet.
BrokenConnectionNoticed ==
    \A i \in Invs : \A id \in Ids :
        (inv[i].msgId = id /\ \E c \in Conns : att[id].target = c /\ ~alive[c])
            ~> (Settled(i) \/ inv[i].msgId # id)
=============================================================================
