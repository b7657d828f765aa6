----------------------------- MODULE NearCache -----------------------------
(***************************************************************************)
(* The near cache of a map with invalidate-on-change                       *)
(* (NearCachedClientMapProxy.h): get, get_all and the updating calls of    *)
(* user threads, the invalidation events of the cluster, the registration  *)
(* of their listener, the key state marker (near_cache.cpp) and the record *)
(* store (AbstractNearCacheRecordStore.h) with its eviction and expiration.*)
(* Every key always has a mapping on the cluster; a value is its version.  *)
(***************************************************************************)
EXTENDS Naturals, Sequences, FiniteSets

CONSTANTS Threads,          \* user threads
          Keys,
          get_slot(_),      \* hash_to_index of a key: keys may share a slot
          MaxSize,          \* eviction_config::size
          EvictionEnabled,  \* eviction_policy is not NONE
          MaxVersion,       \* bound: versions of a key
          MaxEvents,        \* bound: invalidation events under way
          MaxLosses,        \* bound: how often the listener is lost
          MaxCalls          \* bound: calls of the user threads

VARIABLES
    server,      \* the value of each key on the cluster
    events,      \* invalidations under way: a key, or AllKeys for a null key
    registered,  \* the cluster sends this client invalidations
    marks,       \* marks_ of KeyStateMarkerImpl
    owner,       \* history: the thread whose try_mark last took the slot
    records,     \* the records a lookup finds
    lent,        \* the get_all call whose key or value object a record holds
    dead,        \* number of records whose key was moved away
    expired,     \* keys of records past their time to live
    strayed,     \* history: keys of records whose get gave back a mark of another
    expirer,     \* the task of schedule_expiration_task
    t,           \* what each user thread is doing
    handler,     \* what the event thread is doing
    registration,\* what the thread registering the listener is doing
    losses, calls

vars == <<server, events, registered, marks, owner, records, lent, dead,
          expired, strayed, expirer, t, handler, registration, losses, calls>>

NoRecord == 0
Empty == MaxVersion + 1          \* a data whose bytes were moved away
AllKeys == "AllKeys"
Slots == {get_slot(k) : k \in Keys}
NoThread == "NoThread"
Idle == [pc |-> "idle"]
NotLent == [key |-> NoThread, value |-> NoThread]

Cached == {k \in Keys : records[k] # NoRecord}
Size == Cardinality(Cached) + dead

Init ==
    /\ server = [k \in Keys |-> 1]
    /\ events = <<>> /\ registered = TRUE
    /\ marks = [s \in Slots |-> "UNMARKED"]
    /\ owner = [s \in Slots |-> NoThread]
    /\ records = [k \in Keys |-> NoRecord] /\ dead = 0
    /\ lent = [k \in Keys |-> NotLent]
    /\ expired = {} /\ strayed = {} /\ expirer = "scheduled"
    /\ t = [u \in Threads |-> Idle]
    /\ handler = Idle /\ registration = "done" /\ losses = 0
    /\ calls = 0

cluster == <<server, events, registered>>
marking == <<marks, owner>>
store == <<records, lent, dead, expired, strayed>>
listener == <<handler, registration, losses>>

At(u, pc) == t[u].pc = pc
Begin(u, call) ==
    /\ At(u, "idle") /\ calls < MaxCalls
    /\ calls' = calls + 1
    /\ t' = [t EXCEPT ![u] = call]
Become(u, call) == t' = [t EXCEPT ![u] = call] /\ UNCHANGED calls
Goto(u, pc) == t' = [t EXCEPT ![u].pc = pc] /\ UNCHANGED calls
Finish(u) == Become(u, Idle)

-----------------------------------------------------------------------------
(* The cluster                                                             *)

Send(e) == events' = IF registered THEN Append(events, e) ELSE events

\* A write of any client, this one included, reaches the cluster; the event
\* is sent whoever wrote, and the handler does not look at its source_uuid.
Change(k) ==
    /\ server[k] < MaxVersion /\ Len(events) < MaxEvents
    /\ server' = [server EXCEPT ![k] = @ + 1]
    /\ Send(k)
    /\ UNCHANGED <<registered, marking, store, listener, expirer, t, calls>>

\* A map-wide change: the event carries no key.
ChangeAll ==
    /\ \A k \in Keys : server[k] < MaxVersion
    /\ Len(events) < MaxEvents
    /\ server' = [k \in Keys |-> server[k] + 1]
    /\ Send(AllKeys)
    /\ UNCHANGED <<registered, marking, store, listener, expirer, t, calls>>

-----------------------------------------------------------------------------
(* KeyStateMarkerImpl and the record store                                 *)

TryRemoveMark(k) ==
    /\ marks' = IF marks[get_slot(k)] = "MARKED"
                THEN [marks EXCEPT ![get_slot(k)] = "REMOVED"] ELSE marks
    /\ UNCHANGED owner

InitMarks ==
    /\ marks' = [s \in Slots |-> "UNMARKED"]
    /\ UNCHANGED owner

DropRecords(K) ==
    /\ records' = [k \in Keys |-> IF k \in K THEN NoRecord ELSE records[k]]
    /\ lent' = [k \in Keys |-> IF k \in K THEN NotLent ELSE lent[k]]
    /\ expired' = expired \ K /\ strayed' = strayed \ K

ClearRecords == DropRecords(Keys) /\ dead' = 0

\* do_eviction_if_required: when the store is full one sampled record goes.
Evict ==
    IF EvictionEnabled /\ Size >= MaxSize
    THEN \/ /\ dead > 0 /\ dead' = dead - 1
            /\ UNCHANGED <<records, lent, expired, strayed>>
         \/ /\ \E k \in Cached : DropRecords({k})
            /\ UNCHANGED dead
    ELSE UNCHANGED store

\* put_internal: without eviction a full store takes no new key. A record
\* that is there keeps its key object.
PutRecord(k, v, lender) ==
    /\ IF ~EvictionEnabled /\ Size >= MaxSize /\ k \notin Cached
       THEN UNCHANGED <<records, lent, expired, strayed>>
       ELSE /\ records' = [records EXCEPT ![k] = v]
            /\ lent' = [lent EXCEPT ![k] =
                  [key |-> IF k \in Cached THEN @.key ELSE lender, value |-> lender]]
            /\ expired' = expired \ {k} /\ strayed' = strayed \ {k}
    /\ UNCHANGED dead

-----------------------------------------------------------------------------
(* get_internal and get_all_internal. The latter is modelled for one key:  *)
(* it treats the keys of a call one after the other.                       *)

\* near_cache_->get finds nothing, or a record past its time, which goes.
Lookup(u, k, op) ==
    /\ k \in Cached => k \in expired
    /\ Begin(u, [pc |-> "missed", op |-> op, key |-> k])
    /\ DropRecords({k} \cap expired)
    /\ UNCHANGED <<cluster, marking, dead, listener, expirer>>

\* try_mark, then the request is sent.
TryMark(u) ==
    LET s == get_slot(t[u].key)
        free == marks[s] = "UNMARKED" IN
    /\ At(u, "missed")
    /\ marks' = IF free THEN [marks EXCEPT ![s] = "MARKED"] ELSE marks
    /\ owner' = IF free THEN [owner EXCEPT ![s] = u] ELSE owner
    /\ Become(u, [pc |-> "sent", op |-> t[u].op, key |-> t[u].key, marked |-> free])
    /\ UNCHANGED <<cluster, store, listener, expirer>>

\* The member reads the value; the answer is on its way.
Served(u) ==
    /\ At(u, "sent")
    /\ Become(u, [pc |-> "answered", op |-> t[u].op, key |-> t[u].key,
                  marked |-> t[u].marked, value |-> server[t[u].key]])
    /\ UNCHANGED <<cluster, marking, store, listener, expirer>>

\* imap::get_internal or get_all_internal throws: no call id is free, or the
\* client is not active. A get then resets the mark whether it took it or not,
\* get_all gives back the marks it took.
InvokeThrows(u) ==
    /\ At(u, "sent")
    /\ Goto(u, IF t[u].op = "get" THEN "reset" ELSE "force")
    /\ UNCHANGED <<cluster, marking, store, listener, expirer>>

\* The request fails: f.get() throws in the continuation, the mark stays.
RequestFails(u) ==
    /\ At(u, "sent")
    /\ Finish(u)
    /\ UNCHANGED <<cluster, marking, store, listener, expirer>>

\* The answer of a get without the mark is only returned. All others go to
\* the near cache: get_all does not find its mark again, because the key in
\* its MARKER_MAP was moved away, and puts without one.
Answer(u) ==
    /\ At(u, "answered")
    /\ IF t[u].op = "get" /\ ~t[u].marked
       THEN Finish(u) /\ UNCHANGED store
       ELSE Goto(u, "put") /\ Evict
    /\ UNCHANGED <<cluster, marking, listener, expirer>>

Put(u) ==
    /\ At(u, "put")
    /\ IF t[u].op = "get"
       THEN PutRecord(t[u].key, t[u].value, NoThread) /\ Goto(u, "unmark")
       ELSE PutRecord(t[u].key, t[u].value, u) /\ Goto(u, "move")
    /\ UNCHANGED <<cluster, marking, listener, expirer>>

\* mutant: the mark is reset without a look at its state
UnmarkAnyState(u) ==
    /\ t[u].pc \in {"unmark", "reset"}
    /\ marks' = [marks EXCEPT ![get_slot(t[u].key)] = "UNMARKED"]
    /\ Finish(u)
    /\ UNCHANGED <<cluster, owner, store, listener, expirer>>

\* reset_to_unmarked_state, after the put or after a throw: try_unmark, else
\* invalidate and force_unmark. A mark that another get has taken since is
\* given back as well, and the record that was put stays.
reset_to_unmarked_state(u) ==
    LET s == get_slot(t[u].key) IN
    /\ t[u].pc \in {"unmark", "reset"}
    /\ IF marks[s] = "MARKED"
       THEN /\ marks' = [marks EXCEPT ![s] = "UNMARKED"]
            /\ strayed' = IF At(u, "unmark") /\ owner[s] # u
                          THEN strayed \cup {t[u].key} ELSE strayed
            /\ Finish(u)
       ELSE Goto(u, "invalidate") /\ UNCHANGED <<marks, strayed>>
    /\ UNCHANGED <<cluster, owner, records, lent, dead, expired, listener, expirer>>

\* force_unmark; get_all does it for the marks it took.
ForceUnmark(u) ==
    /\ At(u, "force")
    /\ marks' = IF t[u].op = "get" \/ t[u].marked
                THEN [marks EXCEPT ![get_slot(t[u].key)] = "UNMARKED"] ELSE marks
    /\ Finish(u)
    /\ UNCHANGED <<cluster, owner, store, listener, expirer>>

\* allEntries.push_back(std::move(*key), std::move(*value)): the objects the
\* near cache shares. A record with this key object is found no more; one
\* that was there before keeps its key and is left with an empty value.
MoveOut(u) ==
    LET k == t[u].key IN
    /\ At(u, "move")
    /\ \/ /\ lent[k].key = u
          /\ DropRecords({k}) /\ dead' = dead + 1
       \/ /\ lent[k].key # u /\ lent[k].value = u
          /\ records' = [records EXCEPT ![k] = Empty]
          /\ UNCHANGED <<lent, dead, expired, strayed>>
       \/ /\ u \notin {lent[k].key, lent[k].value}
          /\ UNCHANGED store
    /\ Goto(u, "force")
    /\ UNCHANGED <<cluster, marking, listener, expirer>>

-----------------------------------------------------------------------------
(* The updating calls: the request is sent, then the key is invalidated,   *)
(* or, for remove_all, everything is cleared.                              *)

Update(u, k) ==
    /\ Begin(u, [pc |-> "invalidate", op |-> "put", key |-> k])
    /\ UNCHANGED <<cluster, marking, store, listener, expirer>>

\* InvalidationAwareWrapper::invalidate: try_remove, then the record goes.
Invalidate(u) ==
    /\ At(u, "invalidate")
    /\ TryRemoveMark(t[u].key)
    /\ Goto(u, "drop")
    /\ UNCHANGED <<cluster, store, listener, expirer>>

Drop(u) ==
    /\ At(u, "drop")
    /\ DropRecords({t[u].key})
    /\ IF t[u].op = "put" THEN Finish(u) ELSE Goto(u, "force")
    /\ UNCHANGED <<cluster, marking, dead, listener, expirer>>

\* InvalidationAwareWrapper::clear: init of the marks, then of the records.
RemoveAll(u) ==
    /\ Begin(u, [pc |-> "clear"])
    /\ InitMarks
    /\ UNCHANGED <<cluster, store, listener, expirer>>

Clear(u) ==
    /\ At(u, "clear")
    /\ ClearRecords
    /\ Finish(u)
    /\ UNCHANGED <<cluster, marking, listener, expirer>>

-----------------------------------------------------------------------------
(* handle_imapinvalidation, on the thread that runs the event handlers     *)

HandleEvent ==
    /\ handler.pc = "idle" /\ events # <<>>
    /\ handler' = [pc |-> "handle", key |-> Head(events)]
    /\ events' = Tail(events)
    /\ IF Head(events) = AllKeys THEN InitMarks ELSE TryRemoveMark(Head(events))
    /\ UNCHANGED <<server, registered, store, registration, losses, expirer, t, calls>>

FinishEvent ==
    /\ handler.pc = "handle"
    /\ IF handler.key = AllKeys THEN ClearRecords
       ELSE DropRecords({handler.key}) /\ UNCHANGED dead
    /\ handler' = Idle
    /\ UNCHANGED <<cluster, marking, registration, losses, expirer, t, calls>>

-----------------------------------------------------------------------------
(* The connection of the listener is lost and it is registered again on    *)
(* another one: before_listener_register and on_listener_register clear.   *)

LoseListener ==
    /\ registered /\ registration = "done" /\ losses < MaxLosses
    /\ registered' = FALSE /\ events' = <<>>
    /\ registration' = "before" /\ losses' = losses + 1
    /\ UNCHANGED <<server, marking, store, handler, expirer, t, calls>>

RegistrationStep(from, to) ==
    /\ registration = from
    /\ registration' = to
    /\ UNCHANGED <<server, events, handler, losses, expirer, t, calls>>

Reregister ==
    \/ /\ RegistrationStep("before", "beforeClear") \/ RegistrationStep("on", "onClear")
       /\ InitMarks
       /\ UNCHANGED <<registered, store>>
    \/ /\ RegistrationStep("beforeClear", "request") \/ RegistrationStep("onClear", "done")
       /\ ClearRecords
       /\ UNCHANGED <<registered, marking>>
    \/ /\ RegistrationStep("request", "on")
       /\ registered' = TRUE
       /\ UNCHANGED <<marking, store>>

-----------------------------------------------------------------------------
(* Time to live. The task enters its loop once: expirationInProgress stays *)
(* true after a pass without an exception, so the loop spins.              *)

Age(k) ==
    /\ k \in Cached \ expired
    /\ expired' = expired \cup {k}
    /\ UNCHANGED <<cluster, marking, records, lent, dead, strayed, listener, expirer,
                   t, calls>>

do_expiration ==
    /\ expirer = "scheduled"
    /\ expirer' = "spinning"
    /\ DropRecords(expired)
    /\ UNCHANGED <<cluster, marking, dead, listener, t, calls>>

-----------------------------------------------------------------------------
ThreadStep(u) ==
    \/ TryMark(u) \/ Served(u) \/ Answer(u) \/ Put(u)
    \/ reset_to_unmarked_state(u) \/ ForceUnmark(u) \/ MoveOut(u)
    \/ Invalidate(u) \/ Drop(u) \/ Clear(u)

Next ==
    \/ \E k \in Keys : Change(k) \/ Age(k)
    \/ ChangeAll
    \/ \E u \in Threads :
          \/ ThreadStep(u) \/ InvokeThrows(u) \/ RequestFails(u) \/ RemoveAll(u)
          \/ \E k \in Keys : Update(u, k) \/ \E op \in {"get", "getAll"} : Lookup(u, k, op)
    \/ HandleEvent \/ FinishEvent
    \/ LoseListener \/ Reregister
    \/ do_expiration

Spec == Init /\ [][Next]_vars

\* The expiration task is scheduled and its pool thread runs.
FairSpec == Spec /\ WF_vars(do_expiration)

-----------------------------------------------------------------------------
TypeOK ==
    /\ server \in [Keys -> 1..MaxVersion]
    /\ \A i \in DOMAIN events : events[i] \in Keys \cup {AllKeys}
    /\ marks \in [Slots -> {"UNMARKED", "MARKED", "REMOVED"}]
    /\ owner \in [Slots -> Threads \cup {NoThread}]
    /\ records \in [Keys -> 0..Empty]
    /\ dead \in Nat
    /\ expired \subseteq Cached /\ strayed \subseteq Keys

Stale(k) == k \in Cached /\ records[k] \notin {server[k], Empty}

\* Something on its way will still remove the record of k.
Doomed(k) ==
    \/ \E i \in DOMAIN events : events[i] \in {k, AllKeys}
    \/ handler.pc = "handle" /\ handler.key \in {k, AllKeys}
    \/ ~registered \/ registration # "done"
    \/ \E u \in Threads :
          \/ t[u].pc \in {"unmark", "invalidate", "drop", "move"}
             /\ t[u].key = k
          \/ At(u, "clear")

\* "if an invalidation for a key comes before put to cache, cached value will
\* be removed": a cached value that differs from the cluster's is about to be
\* removed by an event, a clear or the get that put it, whatever order the
\* request, its answer and the invalidation take; but for a record whose get
\* found, in place of its own mark, that of a get which came later. Its own was
\* then reset by a clear, or by a get that was refused and reset a mark which it
\* had not taken.
StaleIsDoomed == \A k \in Keys : Stale(k) => Doomed(k) \/ k \in strayed

\* The same for every record.
StaleAlwaysDoomed == \A k \in Keys : Stale(k) => Doomed(k)

\* "get the value ... if there is no mapping for key then returns boost::none":
\* every key has a mapping, so no lookup may find an empty value.
NoneOnlyIfAbsent == \A k \in Keys : records[k] # Empty

\* "Entries that are older than time-to-live-seconds will get automatically
\* evicted from the Near Cache."
ExpiredLeave == \A k \in Keys : k \in expired ~> k \notin expired
=============================================================================
