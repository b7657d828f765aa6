# A TLA+ verification of the Hazelcast C++ client

This directory holds TLA+ models of the parts of the client whose state is
shared between threads, callbacks or members, the TLC configurations that check
them on small instances, and proofs that TLAPS checks. File names refer to
`hazelcast/src/hazelcast/client/` or `hazelcast/include/hazelcast/client/`.

## 1. The system

| Part | Module | Talks to |
|---|---|---|
| Call id sequence (spi.cpp, `sequence`) | `CallIdSequence` | invocations |
| Invocation, invocation service, response handler (spi.cpp) | `Invocation` | call ids, connections |
| Connection manager, lifecycle (network.cpp, spi.cpp) | `ConnectionManager` | cluster service, invocations |
| Cluster view listener, member list, partition table (spi.cpp) | `ClusterView` | connection manager |
| Listener service (spi.cpp) | `ListenerService` | invocations, connections |
| Socket, write side (`internal/socket/BaseSocket.h`) | `SocketWriter` | connection |
| Socket, read side (`BaseSocket.h`, network.cpp, protocol.cpp) | `MessageReader` | response handler |
| Near cache (`map/NearCachedClientMapProxy.h`, near_cache.cpp) | `NearCache` | listener service, invocations |
| CP sessions, fenced lock, semaphore (cp_impl.cpp, cp.cpp) | `ProxySessionManager`, `FencedLock`, `SessionSemaphore` | invocations |
| Flake id generator (proxy.cpp, `auto_batcher`) | `AutoBatcher`, `IdBatch`, `IdSource` | executor, invocations |
| PN counter (proxy.cpp, cluster.cpp) | `PNCounter` | invocations, member list |
| Transactions (transactions.cpp) | `Transaction` | one connection |
| SQL results (sql.cpp) | `SqlResult` | invocations |
| Reliable topic (`reliable_topic.h`) | `ReliableTopic` | ringbuffer |

Five kinds of threads (application threads, I/O strands, response threads,
executor tasks and timers) meet on the same objects through atomics and a few
mutexes: answers race with closing connections and with retries, connections
break while they are being registered, caches are filled while they are
invalidated, the client is shut down in the middle of any of it. `PROJECT.json`
lists the hazards at their lines, with the properties that would notice.

## 2. Modules: how state and actions correspond to the code

Variables keep the names of the fields they stand for. Variables marked
*history* in a module exist only for the properties. Members, network, timers
of the operating system and the application are external: they may do anything
their interface allows, up to a named bound.

### The core: calls and connections

**CallIdSequence.** `head`, `tail` are the two counters; `pc` says where each
caller is inside `next()`. The check of the limit and the increment are two
steps, as in the code. `strategy`, fixed by `Init`, is the subclass that handles
a full sequence. `live`, `urgent` and `retrying` record who owns slots. The
deadline of the spin loop may have passed at any turn.

**Invocation.** One `ClientInvocation` is a record (`inv`), each of its attempts
another (`att`), named by its correlation id; `send_connection_` is named by the
attempt that stored it, because the code compares pointers to freshly allocated
objects. Every thread has a program counter in `proc`; each atomic read, write
or compare-and-swap is a step. The registry is a
`boost::concurrent_flat_map`: `erase_if()` locks the entry it visits
(`visiting`), and every other access of that entry waits, its own thread
included. A message may have been applied although its connection broke; acks
may arrive before the response, late, or never. `should_retry()` sees classes of
errors. `invocation_timeout_` may have passed at any retry.

**ConnectionManager.** A block under `client_state_mutex_` is one step; what
happens between two blocks interleaves. `conn[k].stage` follows a connection
through `connect()`, `authenticate_on_cluster()` and `on_authenticated()`,
`conn[k].closer` follows `Connection::close()`. The reconnect task, the starting
thread and one task per member open connections. `Cluster`, `Address` and
`PartitionCount` describe the members the client may meet, so that a restarted
member (another uuid at the same address) and a second cluster can appear. The
half of `close()` that notifies invocations is in `Invocation`; the two modules
meet in `alive_` only. The member list is a set here; its versions and locks are
in `ClusterView`.

**ClusterView.** The calls nest: a member view closes connections, a closed
connection re-registers the view listener, a registration resets the version of
the list, under two mutexes. A worker is therefore a stack of steps (`todo`);
a step that calls pushes the callee's steps. `cluster_view_lock_` is not
reentrant, `client_state_mutex_` is. Views are handled in any order.

### The wire

**SocketWriter.** `enqueue_write()` is a push and a post (two steps: other
threads may push in between); the strand runs one posted task at a time.
`BatchGoesOut` is the operating system: the bytes of a batch can be on the wire
before the completion handler runs, and the socket can be closed in between.

**MessageReader.** A read brings any number of bytes that fit the buffer. A
byte is known by its packet, frame and offset, so the builder's cuts at frame
headers, frame ends and message ends are those of the code. Fragments of
messages are put together by their fragmentation id.

**ListenerService.** `posted` is the queue of the one registration thread, which
waits for each request it sends (`call`). `server` is what the members hold. A
listener may be deregistered again; the second call finds no registration.

### Data structures

**NearCache.** A user thread's call is a record with a program counter: mark the
key, ask the cluster, put, unmark. A request may be refused before it is sent
(`InvokeThrows`: `get()` then resets the slot's mark, whoever took it) or fail
later (the mark stays). Invalidations travel in `events`; the listener's
registration may be lost and made again. A value is its version. `lent` follows
the pointers that `get_all()` shares with the record store. Marks do not say who
took them; the history `owner` does, and `strayed` has the records whose `get()`
gave back a mark that another one had taken.

**ProxySessionManager, FencedLock, SessionSemaphore.** `session` is the group's
entry of the session table. What does not run under `lock_` is
`session_state::acquire()`, through a reference into the map: a reference is
known by its map node and dangles once the node was erased. The two proxies
extend the manager with their calls and with the CP group's lock or semaphore
(external), which the group may take back by closing the session at any time.

**AutoBatcher, IdBatch, IdSource.** A block is known by the number of its batch;
`fetches` is the history of `fetch_in_progress_`. The fetch task holds a thread
of the executor while it waits, and the completion of its answer is itself a
task of that executor, so the size of the pool is part of the model. `IdSource`
says what callers may rely on: a call is answered once, with an id that was
never given out, or with an error.

**PNCounter.** Calls, several at once, go to the target replica, which serves
them if its state covers the clock they carry; replicas crash, and requests or
answers are lost. The choice of a target is the code's double check around
`target_selection_mutex_`, and a turn of the loop in
`update_observed_replica_timestamps()` is two steps, the comparison and the
compare-and-set. **Transaction.** `begin`, `commit` and `rollback` with their
checks, called by the thread that owns the transaction or by another one, also
while requests are under way; a request may be refused, or handled and its
answer lost. **SqlResult.** The loop `for (auto& row : result)`
over `row_iterator_sync`, `page_iterator_sync` and `page_iterator`; the
application may close the result between two calls. **ReliableTopic.** The
`MessageRunner`'s loop against a ringbuffer that overwrites, may be lost, and
refuses reads; a durable listener may be restarted with the sequence it stored.

## 3. Runs

The MC modules give constants their values. All bounds are CONSTANTS that end
behaviours by running out (of ids, calls, connections, faults), which is why the
configurations say `CHECK_DEADLOCK FALSE`: apart from that, a client that was
shut down or has nothing left to do may stop.

Components that do not interact share a run: a variable `part`, which never
changes, says which of them a behaviour is about; the variables of the others
keep their initial values. The states of such a run are the union, not the
product, of the components' states, and a run's property is the conjunction of
the component's property over the instances (for example `TypesOK`).

**inv_retry.** One invocation, bound to a connection or not, retryable or not, 2
attempts, 2 breaking connections, 2 response threads, 1 backup; the client may
be shut down; symmetry over connections and over readers. One thread at a time notifies (`OneNotifier`); an
operation that is not retryable is applied once at most (`AtMostOnce`); an
answer belongs to the current attempt (`NoStaleAnswer`); when the last ack and
the response race, one of them completes (`LastAckCompletes`); settled
invocations leave the registry (`NoLeak`).

**inv_live.** Two instances, with fairness. *breaks*: a breaking connection,
shutdown, 2 attempts, no backups: no attempt hangs on a broken connection
(`BreakNoticedEver`). *backups*: connections hold, 2 backups: a pending response
is completed by the last ack or by the backup timeout (`PendingSettlesEver`).

**cm_reconnect.** Unisocket, mode ON, shutdown, 3 members of 2 clusters, one
of them with a partition count of its own (so that a connection is refused), 3
connections. A client without connections has its reconnect task under way
(`NoLostReconnect`); a dead connection does not stay registered
(`DeadConnectionsLeave`); nothing is open once shutdown is over
(`ClosedAfterShutdown`); a client that is not initialized has a task that will
try again (`InitPending`).

**cm_start.** A smart client whose start is waited for, mode OFF, 1 member, 3
connections. The starting thread's walk over the member list, the periodic walk
and the member tasks it posts connect to the same member at the same time, while
earlier connections break. No connection stays open and unregistered
(`NoOrphan`).

**shared_state.** Safety and action properties of the data structures, with
symmetry over the two threads.

| part | instance | properties |
|---|---|---|
| view | 1 worker, members a, b and n of two clusters, 2 list versions, 2 connections, 1 refusal | `OneViewSource`, `NewestMembers`, `VersionsNeverFall` |
| view2 | 2 workers, one cluster | the same |
| lock | 2 threads, 2 sessions, 3 calls, reentrancy limit 2 | `SameFence` |
| semaphore | 2 threads, 2 sessions, 2 calls, 2 permits | `InUseWhileHeld` |
| cache | 2 threads, 1 key, size 1, 2 versions, 1 event under way, 1 lost registration, 3 calls | `StaleIsDoomed` |
| counter | 2 callers, 2 replicas, 2 updates, 1 fault, 3 calls | `SessionKept` |
| txn | 3 transactions, 5 calls, 2 faults | `StateIsTrue` |

**delivery.** Components that hand things over, with fairness; no symmetry.

| part | instance | properties |
|---|---|---|
| ids | 3 callers, limit 2, 5 ids, both strategies | `SlotAccounting`, `OvershootBounded`, `WaitsEnd` |
| writer | 2 writers, 2 entries each | `InPushOrder`, `NothingLeftBehind` |
| reader | header of 2 bytes, buffer of 5, whole and fragmented messages | `AsSent`, `AllHandled` |
| listener | 1 listener, 2 connections, 1 refused add, 1 refused remove | `ListenersInPlace`, `GoneMeansGone`, `EveryCallReturns` |
| batcher | 3 callers, pool of 2, 2 batches of 2 ids (1 batch for liveness) | `SingleFlight`, `ImplementsIdSource`, `EveryCallAnswered` |
| rows | up to 3 pages of 0 to 2 rows, 1 timeout, 1 fault | `RowsInOrder`, `LoopEnds` |
| topic | ring of 2, batches of 2, 4 messages, 2 faults | `InOrder`, `KeepsUp` |

Why the bounds are enough: a second correlation id brings in everything that an
abandoned attempt can do to its successor, and two response threads let two
messages of one invocation be handled at once. A third connection lets the
client lose its connection, get another one and lose that while tasks of the
first are still under way. One caller more than there are ids in a batch
makes one of them find the new block spent again. A buffer of 5 bytes against headers of 2 lets a read
end inside a header, inside a frame and at its end. Two versions are enough for
a stale value or view; a ring of 2 with 4 messages laps a slow runner. Three
calls of the near cache let a refused get, or a clear, reset the mark of a get
under way and a third get take the slot. Two callers of the counter meet in the
loop that updates the clock. Every
property has a mutant, a plausible bug in one of the definitions, with which TLC
finds it violated under the same configuration.

### Disagreements found

These runs are expected to be violated. Each checks what a comment or the
manual says; `PROJECT.json` quotes it.

- **inv_close_race**: `notify_connection_closed()` erases the entry before it
  asks for the permission to notify. If a response thread has just taken the
  permission and parked the response until its backups answer, neither ack nor
  backup timeout finds the invocation any more.
- **inv_indeterminate**: with `fail.on.indeterminate.state`, the backup timeout
  handler runs inside `erase_if()` and erases the same entry again through
  `set_exception()`; the entry's lock is not reentrant.
- **inv_retry_acks**: `backup_acks_received_` is not reset for a retry.
- **cm_stale_state**: `initialize_client_on_cluster()` compares cluster ids only.
  One that was begun for an earlier connection opens a reconnected client for
  invocations before the state was sent again.
- **cm_mixed_clusters**: a connection to a new cluster registered while one to
  the old cluster is still in the map does not change `cluster_id_`.
- **view_events**: a thread that applies a member view closes the connection of
  a member that left while it holds `cluster_view_lock_`; if that connection
  carried the view listener, the same thread registers it elsewhere and locks
  `cluster_view_lock_` again. Membership events are never fired.

Further counterexamples. TLC finds these with the configurations named, which
are kept beside the runs:

| Configuration | Property | What happens |
|---|---|---|
| `ClusterView_reregistered` | `ListenerReregistered` | `f.get()` (spi.cpp:3394) rethrows all but one kind of exception, so the re-registration that the comment at spi.cpp:3402 announces is not reached |
| `NearCache_none` | `NoneOnlyIfAbsent` | `get_all()` moves the value out of the pointer that the record store holds as well (NearCachedClientMapProxy.h:413): a later `get()` finds an empty value |
| `NearCache_expired` | `ExpiredLeave` | the expiration task makes one pass and then spins: `expirationInProgress` stays set (DefaultNearCache.h:177), so what expires later is only removed when it is read |
| `PNCounter_ends` | `CallEnds` | each failure starts a new exclusion list (proxy.cpp:674): with two unreachable replicas a call goes back and forth |
| `PNCounter_session` | `SessionGuarantee` | the answers of two calls at once may be concurrent; the later one then takes the place of the other in `observed_clock_` (proxy.cpp:797), without a merge, and reads are no longer monotonic, although pn_counter.h:48 has no such condition |
| `NearCache_strayed` | `StaleAlwaysDoomed` | a clear, or a `get()` that is refused (NearCachedClientMapProxy.h:170), resets the mark of a `get()` under way; a third `get()` marks the slot again, and the first takes that mark for its own and leaves a value that was invalidated before it was put, which InvalidationAwareWrapper.h:28 rules out |
| `Transaction_nested` | `NotNested` | a refused `begin()` clears `transaction_exists_` (transactions.cpp:120), so that the next one is sent while the first is under way; "Nested transactions are not allowed!" (transactions.cpp:96) |
| `SessionSemaphore_replaced` | `InUseInAnySession` | a use counted through a reference while the session is replaced field by field (cp_impl.cpp:44) is overwritten: the new session holds more permits than it counts |
| `SqlResult_range_for` | `RangeForEnds` | `begin()` of a result without rows does not equal `end()` (sql.cpp:859) |
| `FencedLock_session` | `HoldKeepsSession` | `invalidate_session()` ignores the id it is given (cp_impl.cpp:173): a late failure of an old session erases its successor |
| `AutoBatcher_one_thread` | `EveryCallAnswered` | with an executor of one thread, the fetch (proxy.cpp:1220) waits for a task behind itself |

## 4. Fairness

Fairness is that of the operating system's scheduler and of the code's own
loops; nothing is assumed of network and application. Of a member it is assumed
that a request ends, with an answer or an error, because an invocation does.

- Call ids: a caller in the spin loop takes its next turn.
- Invocation: a thread inside a call goes on (strong fairness where it spins on
  the lock of an entry that is held again and again), queued messages are
  handled, time passes, the armed timer visits every registered invocation again
  and again, and shutdown closes the connections.
- Writer: a writer that pushed posts its flush, the strand runs its tasks, a
  write ends. Nothing makes a writer write, nor a connection close.
- Reader: what the member sent is read and handled.
- Listener service: the registration thread goes on; a request ends.
- Batcher: callers and fetch tasks go on. Rows: the loop goes on and a fetch
  ends. Topic: the runner goes on; nobody needs to publish. `KeepsUp` takes a
  runner that has ended for one that rests, also one ended by an exception that
  nobody catches (`dead`: `head_sequence()` failed, or the listener threw).
- `ClusterView!FairSpec` (view_events): workers go on unless they wait for a
  lock, registrations end, received views are handled.

`ConnectionManager` has safety properties only: `NoLostReconnect` and
`InitPending` say that the task which has to act exists.

## 5. Proofs

Proved for every value of the constants, from the named assumptions of the
modules they extend.

**ConnectionManager_proofs** (all members, clusters, modes, numbers of
connections): `ReconnectNotLost`, the invariant `NoLostReconnect`. It needs
`FlagMeansTask` (`connect_to_cluster_task_submitted_` is set only while the task
is under way, so a trigger that finds it set may rely on it), `StoppedFirst`
(`shutdown()` clears the map only after `active_` was reset) and `Shapes` (a
connection is filed under the member it reaches). `RemovalTriggers` is the lemma
about `on_connection_close()` that its two callers share.

Its second part proves `NoDeadConnectionStays`
(`DeadConnectionsLeave`), `NoConnectionOrphaned` (`NoOrphan`) and
`NothingSurvivesShutdown` (`ClosedAfterShutdown`). None of the three is inductive
without the others. `shutdown()` closes what is in the map, so every open
connection must be in the map, or its opener must still have to look at
`running`; that no open connection drops out of the map needs that a closer
removes only its own (`RemovesItsOwn`), hence that a registered connection is
filed under the member it reaches, with its remote end set. The invariant `CInv`
says this of every connection (`Ok`), and uses `StoppedFirst` and `Shapes` of
the proof above. `ConnectionsTyped` adds the types of the remaining variables
(`RestTyped`) and gives `TypeOK`, which no run checks for this module.

Its third part proves `StateIsOnItsWay` (`InitPending`). What it adds is
`InitTasks`: a task of `initialize_client_on_cluster()` is known by a connection
that was opened (`CInv`), so no later `connect()` changes which cluster it is for.

**Invocation_proofs** (all invocations, connections, response threads, bounds on
attempts and backups, both settings of `fail.on.indeterminate.state`): the
inductive invariant `IInv` and from it all six invariants of run inv_retry:
`TypeCorrect` (`TypeOK`), `OneThreadNotifies` (`OneNotifier`),
`AppliedAtMostOnce` (`AtMostOnce`), `AnswersAreCurrent` (`NoStaleAnswer`),
`SomebodyCompletes` (`LastAckCompletes`) and `EntriesAreErased` (`NoLeak`). No one
of them is inductive. The argument treats the right to notify as a token:

- `OneHolder`: it is with `send_connection_`, which then names the last attempt,
  or with one thread, or it is gone (`Over`: a response is stored or the promise
  is set) and only the backup timeout may still act.
- The compare-and-swap of `get_permission_to_notify()` is safe although the id is
  compared before it, because the pointer a thread loaded is at most the last
  attempt and the id it compared is no smaller than the pointer (`PermissionOk`).
- What a thread carries from one step to the next stays true while others run:
  the operation was not applied (`ErrorOk`, for errors after which it is sent
  again), its message is not yet written (`AttemptOk`), its response is the one
  to the last attempt (`ResponseOk`), its entry is locked (`CleanerOk`).
- `Completed` and `Registered` name the thread that will complete a response or
  erase an entry.

The invariant was model-checked before it was proved. The proof is split by what
the steps are about. `InvocationInvariant_proofs` has the invariant and the
lemmas that most steps share: what a step of one thread on one invocation must
leave alone for the others to keep what they know (`Local`, `LocalStep`), and from
it the kinds of steps (`QuietStep`, `TouchingStep`, `KeepingStep`, `ErasingStep`,
`ThreadStep`, `EnvironmentStep`), and the steps of a notification.
`InvocationAttempt_proofs` has the steps that start an attempt or, after an error,
end the invocation, and `Invocation_proofs` all others and the theorems.

`IndeterminateIsNotReported` is the general form of what
`Invocation_indeterminate.cfg` shows of one instance: in no instance does a future fail
with `indeterminate_operation_state_exception`, because the thread that would set
it waits for the entry that it holds itself.

**Delivery_proofs**, three components of run delivery, one after the other.

*Auto batcher* (all callers, batches and pool sizes):

- `BatcherIsIdSource`: the batcher implements `IdSource`: every
  step maps to a step of the id source or to a stutter, so no id is given twice
  and no call is answered twice. The invariant `BatcherIdsInv` says that the ids
  given out are those below `num_returned_` of each block (`BatcherServed`), with
  the shapes that this needs; `BatchesDisjoint` of `IdBatch` then makes the next
  id new.
- `FetchInSingleFlight`: at most one fetch is under way, and only while the
  installed block cannot serve. The invariant adds `BatcherFlag` (while
  `fetch_in_progress_` is not set no fetch is unsettled) and `BatcherLooked` (a
  caller on its way to the mutex saw a block that cannot serve, and such a block
  never serves again, which `BatcherSpentForEver` states).

*Call ids* (every finite set of callers, positive limit and bound on ids):
`TypeCorrect` (`TypeOK`, with `tail <= head`), `SlotsAccounted`,
`OvershootIsBounded`. `TypeOK` is not inductive alone: `tail <= head` follows
from the accounting of slots, which needs the types (cardinalities of finite
sets of ids). The overshoot needs, in addition, what a granted caller knows:
granted callers and used slots together never exceed the limit by more than the
other callers.

*Socket writer* (all writers, any number of entries each):
`WriterWrittenInOrder` (`InPushOrder`) and `WriterDeletedOnce` (the writer's
`TypeOK`, whose last conjunct says that no entry is deleted twice). That a
deletion is the first one needs `WriterWhole`: what is queued or in the batch
was pushed and is not deleted, and nothing is in both. A push keeps that only if
its entry is new (`WriterNumbered`), and a close keeps the order only because it
runs when `alive_` is already reset (`WriterClosing`).

**Listeners_proofs**, the two components that call an application's listener.

*Listener service* (all listeners and connections, any number of refused
requests): `RegisteredInPlace` (`ListenersInPlace`) and `GoneIsGone`
(`GoneMeansGone`), with `TypeCorrect`. Both properties speak of what is left
when a call or the strand is done, so the invariant has to say who still has
something to do:

- `OneTask`: each listener being added or removed has one task in the strand, the
  one its caller waits for; `Events`: what a connection event in the queue says
  of its connection.
- `Asked`: the request under way belongs to the first task, and an answer of a
  connection that closed meanwhile is followed by that connection's removal.
- `Held`, of a listener and a connection: what a member holds is recorded, or the
  answer that will record it is there; what is recorded is held by the member,
  unless the removal of the connection is still to be handled, or a removal was
  refused or is under way.
- `InPlace`, of a listener: what is recorded, by what the application was told
  (nothing is, for a listener removed once, which may be deregistered again);
  a listener told added misses an active connection only while its added event is
  queued or the request is to be sent, under way, or was refused.

*Reliable topic* (every capacity and batch size from 1 on, any number of
messages and faults): `TopicCalledInOrder` (`InOrder`). Messages are numbered in
the order of publication, sequences start again with a new ringbuffer, so the
invariant relates the two by `Topicshift`, the messages of lost ringbuffers.
`TopicRing` says what the ringbuffer holds; `TopicKept`, `TopicReading` and
`TopicBatch` bound the message received last by the stored sequence, by the
sequence read next and by the batch in hand. A restart takes the runner from the
first bound to the second, a read to the third and processing back to the first.
A sequence ahead of the tail is possible only after a loss, and then nothing
received is from the present ringbuffer.

**SharedState_proofs**, three components of run shared_state.

*Cluster view* (all members, clusters, worker threads and connections; the
assumption `Setting` says that connections are numbered, that no member is the
value `None`, and that a member list holds members): `OneSourceOfViews`
(`OneViewSource`) and `VersionsKept` (`VersionsNeverFall`). Two threads are
between the steps of opening and of closing connections, so the first needs
`Closing` (a connection whose closing is being handled is dead) and `Registering`
(a registration about to be sent over a live connection is for the one that the
listener names). For the second the types suffice: a view is compared with the
stored one when it is applied.

*PN counter* (every finite set of replicas): `CounterSessionIsKept`
(`SessionKept`, any number of callers) and `CounterSessionOfOne`
(`SessionGuarantee`, the guarantee of pn_counter.h without a condition, one
caller). The first is inductive with `CounterObserved`, that the observed clock
is that of an answer, and with what a call remembers: the clock it compared with
is not after its answer. Of two answers that can be compared the newer one then
stays, whatever the compare-and-set met. For one caller all can be compared,
because the request under way carries the observed clock, so its answer covers
that clock (`CounterCarried`).

*Transaction* (any number of transactions, calls and failures): `TxnStateTrue`
(`StateIsTrue`), as long as no create was sent while another request was under
way or the other way round (`overlapped`). Until then a create is alone
(`TxnAlone`); `TxnOwn` says what `state_` claims of the transaction on the
member, `TxnAsked` what the requests under way are about and what their answers
tell, `TxnOthers` that any other open transaction is being created or had a
failed call, and `TxnNumbered` that the member numbers transactions in the order
it creates them, so that a new one was not there before.

**Proxies_proofs**, two more components of run shared_state.

*Fenced lock* (all threads, any number of sessions and calls, any reentrancy
limit): `FenceIsKept` (`SameFence`): a thread that acquires the lock again while it
holds it gets the fence it has. The fence comes from the CP group, and what the
thread holds and what the group says it owns drift apart: the session may be closed
behind the thread's back, answers get lost, and an unlock takes effect in the group
before the thread hears of it. The invariant `Sound` of a thread has three parts:

- `Holding`: a thread that holds the lock knows the session it took it in, its
  requests are made in that session, and while the session is open and no unlock
  was answered the group has the thread as owner, with the same fence and at least
  as many acquisitions.
- `LockGranted`: an answer that grants the lock carries the fence the thread has, if
  it holds the lock, and one acquisition more than it knows of.
- `Unlocking`: an answer to an unlock leaves the group one acquisition behind what
  the thread still counts, and an answer that the lock is free comes for the last
  one only.

Other threads cannot disturb this (`SparedIsSound`), because the group changes the
lock of an open session only for its owner, and a new session has a number that no
thread knows.

*Near cache* (all threads, keys, assignments of keys to slots and sizes, with and
without eviction): `StaleIsRemoved` (`StaleIsDoomed`). The property says that
something is on its way that will remove a stale record; the invariant says who
really will, and why a value may be stale before it is put:

- `CacheFresh`: the value a get has in its hands, while it still has its mark, is
  the cluster's, or an invalidation of its key is under way, or the registration of
  the listener has still to clear the marks. An invalidation takes the mark when
  the handler begins with it, so a get keeps its mark only past invalidations of
  other slots.
- `CacheRemoves`: a user thread removes the record: it invalidates or clears, or it
  is a get about to find that its mark is gone, or a get_all whose objects are in
  the record and will be moved away. Only with the mark can a get leave its record,
  so a get on its way to `try_unmark` does not count while it has it, although
  `Doomed` lets it.
- `CacheLeaving`: one of those, an event, the handler, or a registration that is not
  finished.

Every stale record is leaving, or has strayed: its get gave back a mark of
another one in place of its own (`strayed`). `CacheFresh` holds all the same,
since it speaks of gets that have their own mark.

These properties are stated in the modules of the components; the runs check
them for instances of those modules, the theorems for the modules themselves.

What stays with TLC:

- All liveness: the prover does not handle fairness.
- `NewestMembers`: that the member list is the newest one that arrived compares it
  with a history over every view in the inbox and every worker's steps; the
  invariant for all interleavings of the workers is as large as the model.
- `InUseWhileHeld`: it does not hold for every value of the constants. `drain_permits()`
  takes DRAIN_SESSION_ACQ_COUNT (1024) uses of the session before it knows how many
  permits it gets, so with more free permits than that the session holds more than
  it counts until the answer was handled. The run stays below that number. Its proof
  would also need sums over threads, hence induction.
- `AsSent` and `RowsInOrder`: they compare what was handled with a recursively
  defined flattening of the stream or of the pages.
- The types of the reader, the rows, the semaphore and the counter (`TypesOK` of the
  two runs has one conjunct per component): what the proofs above need of types is
  part of their invariants.

## 6. Not modelled

- Serialization, field encoding and generated codecs, query and predicate
  classes, configuration: data conversion without shared state.
- Discovery, address providers and translation, TLS, connecting a socket and its
  timer: I/O against external services. A dialer may reach any member or fail.
- Load balancers: any choice of a connection is allowed, which covers them.
- Pipelining: single-threaded by contract, a loop over futures.
- Wait strategy and heartbeat schedule: their verdict (give up, break) may come
  at any time. The backoff itself is floating point with random jitter.
- Statistics, metrics and logging: written, never read.
- Proxies that forward one request and keep no state: maps, collections,
  transactional collections, atomic longs and references, latches, the
  sessionless semaphore.
- Of the modelled parts: the per-thread queues of responses (messages are
  handled in any order, which includes the code's), the event handlers of
  listeners, replication of a single schema, `sql_service::execute()`, tasks
  posted to a pool that is already closed, the order in which services other
  than the connection manager stop, and the call id sequence without
  backpressure (one atomic counter). Lifecycle events are outputs that nothing
  reads.
- Compositions: `Invocation` and `ConnectionManager` share `alive_` only, and
  their product is out of TLC's reach; each lets the other do anything to it.
