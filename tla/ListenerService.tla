-------------------------- MODULE ListenerService --------------------------
(***************************************************************************)
(* listener_service_impl (spi.cpp): user listeners are registered on every *)
(* connection.  All the work is posted to registration_executor_, which    *)
(* has one thread; registrations and connection events arrive from any     *)
(* thread in between.                                                      *)
(***************************************************************************)
EXTENDS Naturals, Sequences, FiniteSets

CONSTANTS
    Listeners,      \* user_registration_ids
    Conns,          \* connections that may open
    AddErrors,      \* bound: add requests a live member answers with an error
    RemoveErrors    \* bound: remove requests answered so

VARIABLES
    active,         \* the connections get_active_connections returns
    unopened,       \* connections that have not opened yet
    posted,         \* tasks of registration_executor_, the running one first
    registrations,  \* registrations_: per listener, the connections recorded
    call,           \* the request the registration thread waits for
    server,         \* server[c][l]: registrations of l the member holds
    told,         \* what the caller of register or deregister was told
    errors          \* errors answered so far, per kind of request

vars == <<active, unopened, posted, registrations, call, server, told, errors>>

NoCall == [kind |-> "none"]
Absent == [in |-> FALSE, on |-> {}]

Init ==
    /\ active = {} /\ unopened = Conns
    /\ posted = <<>>
    /\ registrations = [l \in Listeners |-> Absent]
    /\ call = NoCall
    /\ server = [c \in Conns |-> [l \in Listeners |-> 0]]
    /\ told = [l \in Listeners |-> "new"]
    /\ errors = [add |-> 0, remove |-> 0]

Post(t) == posted' = Append(posted, t)

-----------------------------------------------------------------------------
(* Callers and connection events                                           *)

register_listener(l) ==
    /\ told[l] = "new"
    /\ told' = [told EXCEPT ![l] = "adding"]
    /\ Post([do |-> "register", of |-> l])
    /\ UNCHANGED <<active, unopened, registrations, call, server, errors>>

\* A caller may also deregister a listener that is gone already.
deregister_listener(l) ==
    /\ told[l] \in {"added", "kept", "removed"}
    /\ told' = [told EXCEPT ![l] = "removing"]
    /\ Post([do |-> "deregister", of |-> l])
    /\ UNCHANGED <<active, unopened, registrations, call, server, errors>>

connection_added(c) ==
    /\ c \in unopened
    /\ unopened' = unopened \ {c}
    /\ active' = active \cup {c}
    /\ Post([do |-> "added", of |-> c])
    /\ UNCHANGED <<registrations, call, server, told, errors>>

\* The member forgets the listeners of a connection that closes.
connection_removed(c) ==
    /\ c \in active
    /\ active' = active \ {c}
    /\ server' = [server EXCEPT ![c] = [l \in Listeners |-> 0]]
    /\ Post([do |-> "removed", of |-> c])
    /\ UNCHANGED <<unopened, registrations, call, told, errors>>

-----------------------------------------------------------------------------
(* The registration thread                                                 *)

Running(kind) == posted # <<>> /\ Head(posted).do = kind
Task == Head(posted)

\* The head task goes on as t.
Become(t) == posted' = <<t>> \o Tail(posted)
Done == posted' = Tail(posted)

\* register_listener_internal and connection_added_internal start: the
\* registration is stored, the requests to make are fixed.
StartRegister ==
    /\ Running("register")
    /\ registrations' = [registrations EXCEPT ![Task.of] = [in |-> TRUE, on |-> {}]]
    /\ Become([do |-> "invoke", for |-> "register", of |-> Task.of,
               left |-> {<<Task.of, c>> : c \in active}])
    /\ UNCHANGED <<active, unopened, call, server, told, errors>>

connection_added_internal ==
    /\ Running("added")
    /\ Become([do |-> "invoke", for |-> "added", of |-> Task.of,
               left |-> {<<l, Task.of>> :
                            l \in {k \in Listeners : registrations[k].in}}])
    /\ UNCHANGED <<active, unopened, registrations, call, server, told, errors>>

\* Mutant: a closed connection stays recorded.
RemovedIgnored ==
    /\ Running("removed")
    /\ Done
    /\ UNCHANGED <<active, unopened, registrations, call, server, told, errors>>

connection_removed_internal ==
    /\ Running("removed")
    /\ registrations' = [l \in Listeners |->
                            [registrations[l] EXCEPT !.on = @ \ {Task.of}]]
    /\ Done
    /\ UNCHANGED <<active, unopened, call, server, told, errors>>

\* invoke: nothing to do when the connection is recorded, else the request.
invoke(l, c) ==
    /\ Running("invoke") /\ call = NoCall /\ <<l, c>> \in Task.left
    /\ Become([Task EXCEPT !.left = @ \ {<<l, c>>}])
    /\ call' = IF c \in registrations[l].on THEN NoCall
               ELSE [kind |-> "add", listener |-> l, conn |-> c, answer |-> "none"]
    /\ UNCHANGED <<active, unopened, registrations, server, told, errors>>

\* Mutant: the error of a connection that is gone ends the task too, and
\* nothing tells the caller.
AnyErrorEndsTask ==
    /\ call.kind = "add" /\ call.answer # "none"
    /\ call' = NoCall
    /\ IF call.answer = "ok"
         THEN registrations' = [registrations EXCEPT ![call.listener].on = @ \cup {call.conn}]
         ELSE UNCHANGED registrations
    /\ IF call.answer = "error" THEN Done ELSE UNCHANGED posted
    /\ UNCHANGED <<active, unopened, server, told, errors>>

\* invoke, the answer: recorded; or an exception, which register_listener
\* turns into a deregistration when the connection lives and ignores otherwise.
AddAnswered ==
    /\ call.kind = "add" /\ call.answer # "none"
    /\ call' = NoCall
    /\ IF call.answer = "ok"
         THEN registrations' = [registrations EXCEPT ![call.listener].on = @ \cup {call.conn}]
         ELSE UNCHANGED registrations
    /\ IF call.answer = "error" /\ Task.for = "register" /\ call.conn \in active
         THEN Become([do |-> "remove", for |-> "failed", of |-> Task.of,
                      left |-> registrations[Task.of].on, successful |-> TRUE])
         ELSE UNCHANGED posted
    /\ UNCHANGED <<active, unopened, server, told, errors>>

InvokeDone ==
    /\ Running("invoke") /\ call = NoCall /\ Task.left = {}
    /\ told' = IF Task.for = "register"
                   THEN [told EXCEPT ![Task.of] = "added"] ELSE told
    /\ Done
    /\ UNCHANGED <<active, unopened, registrations, call, server, errors>>

\* deregister_listener_internal: an unknown id returns at once, else the
\* connections recorded now are asked to remove the listener.
StartDeregister ==
    /\ Running("deregister")
    /\ IF registrations[Task.of].in
         THEN /\ Become([do |-> "remove", for |-> "deregister", of |-> Task.of,
                         left |-> registrations[Task.of].on, successful |-> TRUE])
              /\ UNCHANGED told
         ELSE /\ Done
              /\ told' = [told EXCEPT ![Task.of] = "removed"]
    /\ UNCHANGED <<active, unopened, registrations, call, server, errors>>

InvokeRemove(c) ==
    /\ Running("remove") /\ call = NoCall /\ c \in Task.left
    /\ Become([Task EXCEPT !.left = @ \ {c}])
    /\ call' = [kind |-> "remove", listener |-> Task.of, conn |-> c, answer |-> "none"]
    /\ UNCHANGED <<active, unopened, registrations, server, told, errors>>

\* A failed removal counts only while the connection lives.
RemoveAnswered ==
    /\ call.kind = "remove" /\ call.answer # "none"
    /\ call' = NoCall
    /\ Become([Task EXCEPT !.successful =
                  @ /\ ~(call.answer = "error" /\ call.conn \in active)])
    /\ UNCHANGED <<active, unopened, registrations, server, told, errors>>

\* Mutant: the registration goes even when a member kept its part.
ForgetAlways ==
    /\ Running("remove") /\ call = NoCall /\ Task.left = {}
    /\ registrations' = [registrations EXCEPT ![Task.of] = Absent]
    /\ told' = [told EXCEPT ![Task.of] =
                    IF Task.for = "failed" THEN "failed" ELSE "removed"]
    /\ Done
    /\ UNCHANGED <<active, unopened, call, server, errors>>

RemoveDone ==
    /\ Running("remove") /\ call = NoCall /\ Task.left = {}
    /\ registrations' = IF Task.successful
                          THEN [registrations EXCEPT ![Task.of] = Absent]
                          ELSE registrations
    /\ told' = [told EXCEPT ![Task.of] =
                    IF Task.for = "failed" THEN "failed"
                    ELSE IF Task.successful THEN "removed" ELSE "kept"]
    /\ Done
    /\ UNCHANGED <<active, unopened, call, server, errors>>

-----------------------------------------------------------------------------
(* The member (outside the client) answers, or the connection is gone.     *)

Serve ==
    /\ call # NoCall /\ call.answer = "none" /\ call.conn \in active
    /\ call' = [call EXCEPT !.answer = "ok"]
    /\ server' = [server EXCEPT ![call.conn][call.listener] =
                    IF call.kind = "add" THEN @ + 1 ELSE IF @ = 0 THEN 0 ELSE @ - 1]
    /\ UNCHANGED <<active, unopened, posted, registrations, told, errors>>

Refuse ==
    /\ call # NoCall /\ call.answer = "none"
    /\ call.conn \in active =>
          errors[call.kind] < (IF call.kind = "add" THEN AddErrors ELSE RemoveErrors)
    /\ call' = [call EXCEPT !.answer = "error"]
    /\ errors' = IF call.conn \in active
                   THEN [errors EXCEPT ![call.kind] = @ + 1] ELSE errors
    /\ UNCHANGED <<active, unopened, posted, registrations, server, told>>

ThreadStep ==
    \/ StartRegister \/ connection_added_internal \/ connection_removed_internal
    \/ \E l \in Listeners, c \in Conns : invoke(l, c)
    \/ AddAnswered \/ InvokeDone \/ StartDeregister
    \/ \E c \in Conns : InvokeRemove(c)
    \/ RemoveAnswered \/ RemoveDone

Next ==
    \/ \E l \in Listeners : register_listener(l) \/ deregister_listener(l)
    \/ \E c \in Conns : connection_added(c) \/ connection_removed(c)
    \/ ThreadStep \/ Serve \/ Refuse

\* The thread runs its tasks, and every request is answered or fails.
Spec == Init /\ [][Next]_vars
FairSpec == Spec /\ WF_vars(ThreadStep) /\ WF_vars(Serve \/ Refuse)

-----------------------------------------------------------------------------
(* Properties                                                              *)

Quiet == posted = <<>>

\* Types, and: the thread waits for an answer only inside a task that asks.
TypeOK ==
    /\ active \subseteq Conns /\ unopened \subseteq Conns
    /\ registrations \in [Listeners -> [in : BOOLEAN, on : SUBSET Conns]]
    /\ \A c \in Conns, l \in Listeners : server[c][l] \in 0..1
    /\ told \in [Listeners -> {"new", "adding", "added", "failed", "removing",
                                 "removed", "kept"}]
    /\ call # NoCall => Running("invoke") \/ Running("remove")

\* With nothing left to do, the connections recorded for a listener cover the
\* members that hold it, and are exactly those unless a removal was refused
\* (deregister_listener_internal erases from a copy): a connection that opened
\* or closed while a listener was being registered or deregistered is neither
\* missed nor kept, so a later deregistration reaches every member.  And, as
\* long as no live member answered an add request with an error, a registered
\* listener is on every active connection.
ListenersInPlace ==
    Quiet => \A l \in Listeners :
        LET served == {c \in Conns : server[c][l] = 1}
        IN  /\ served \subseteq registrations[l].on
            /\ errors.remove = 0 => registrations[l].on = served
            /\ errors.add = 0 /\ told[l] = "added" => active \subseteq served

\* A listener whose deregistration returned true, or whose registration threw
\* (and the clean-up was not itself refused), is on no member: later
\* connections do not get it.
GoneMeansGone ==
    \A l \in Listeners :
        \/ told[l] = "removed"
        \/ told[l] = "failed" /\ errors.remove = 0
        => \A c \in Conns : server[c][l] = 0

\* Every register or deregister call returns: the one thread is never stuck.
EveryCallReturns ==
    \A l \in Listeners : told[l] \in {"adding", "removing"} ~>
                            told[l] \notin {"adding", "removing"}
=============================================================================
