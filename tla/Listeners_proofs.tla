-------------------------- MODULE Listeners_proofs --------------------------
(***************************************************************************)
(* The listener service, for any listeners and connections, and the runner *)
(* of a reliable topic, for any capacity and batch size.                   *)
(* ListenersInPlace speaks of the moments when nothing is left to do.  The *)
(* invariant says what holds in between: what a member holds of a listener *)
(* is on record or in an answer on its way (Held), and a listener told     *)
(* added is on every active connection, apart from those that an added     *)
(* event, the task under way or a request under way is going to serve      *)
(* (InPlace). InOrder needs where the runner is: the sequence it reads     *)
(* next follows the last message it called the listener with, and the      *)
(* batch in its hands is a stretch of the ringbuffer (module               *)
(* ReliableTopic, second half).                                            *)
(***************************************************************************)
EXTENDS ListenerService, Integers, TLAPS

-----------------------------------------------------------------------------
\* Types

\* What the application was told of a listener.
Told == {"new", "adding", "added", "failed", "removing", "removed", "kept"}

\* The tasks of the registration strand: calls and connection events to be
\* started,
Waiting == [do : {"register", "deregister"}, of : Listeners]
             \cup [do : {"added", "removed"}, of : Conns]
\* a register or an added event that invokes its add requests,
Invoking == [do : {"invoke"}, for : {"register"}, of : Listeners, left : SUBSET (Listeners \X Conns)]
              \cup [do : {"invoke"}, for : {"added"}, of : Conns, left : SUBSET (Listeners \X Conns)]
\* and a deregister, or a failed register, that invokes its remove requests.
Removing == [do : {"remove"}, for : {"failed", "deregister"}, of : Listeners,
             left : SUBSET Conns, successful : BOOLEAN]

\* All of them.
Tasks == Waiting \cup Invoking \cup Removing

\* A request under way and its answer.
Calls == [kind : {"add", "remove"}, listener : Listeners, conn : Conns,
          answer : {"none", "ok", "error"}]

\* The types of the state.
Types ==
    /\ active \subseteq Conns /\ unopened \subseteq Conns /\ active \cap unopened = {}
    /\ posted \in Seq(Tasks)
    /\ \A i \in 2 .. Len(posted) : posted[i] \in Waiting
    /\ registrations \in [Listeners -> [in : BOOLEAN, on : SUBSET Conns]]
    /\ call \in Calls \cup {NoCall}
    /\ server \in [Conns -> [Listeners -> 0 .. 1]]
    /\ told \in [Listeners -> Told]
    /\ errors \in [add : Nat, remove : Nat]

-----------------------------------------------------------------------------
\* The inductive invariant

\* A task as it is posted.
Event(k, c) == [do |-> k, of |-> c]
\* The task is posted and not finished.
InQueue(t) == \E i \in 1 .. Len(posted) : posted[i] = t

\* The listener that a task adds or removes.
IsFor(t, l) ==
    /\ t.of = l
    /\ t.do \in {"register", "deregister", "remove"} \/ (t.do = "invoke" /\ t.for = "register")

\* What the caller waits for while t is in the queue.
Promised(t) ==
    IF t.do = "register" \/ (t.do \in {"invoke", "remove"} /\ t.for \in {"register", "failed"})
      THEN "adding" ELSE "removing"

\* Each caller waits for one task.
OneTask ==
    \A i \in 1 .. Len(posted), l \in Listeners : IsFor(posted[i], l) =>
        /\ told[l] = Promised(posted[i])
        /\ \A j \in 1 .. Len(posted) : IsFor(posted[j], l) => i = j

\* What connection events in the queue say of their connections.
Events ==
    \A i \in 1 .. Len(posted) :
        /\ posted[i].do = "added" => posted[i].of \notin unopened
        /\ posted[i].do = "removed" => posted[i].of \notin active \cup unopened
        /\ posted[i].do = "invoke" => \A x \in posted[i].left : x[2] \notin unopened
        /\ posted[i].do = "remove" => \A c \in posted[i].left : c \notin unopened

\* The removal of connection c is still to be handled.
Leaves(c) == InQueue(Event("removed", c))
\* The added event of the connection is to be processed.
Comes(c) == InQueue(Event("added", c))

\* The request under way is this one.
Asks(kind, l, c) == call # NoCall /\ call.kind = kind /\ call.listener = l /\ call.conn = c

\* The registration thread waits for an answer inside the task that asked.
Asked ==
    /\ call # NoCall =>
          /\ posted # <<>>
          /\ call.conn \notin unopened
          /\ call.kind = "add" => /\ Task.do = "invoke" /\ call.conn \notin registrations[call.listener].on
                                  /\ registrations[call.listener].in
                                  /\ Task.for = "register" => Task.of = call.listener
          /\ call.kind = "remove" => Task.do = "remove" /\ Task.of = call.listener
          /\ call.answer = "ok" /\ call.conn \notin active => Leaves(call.conn)
          /\ call.answer = "error" /\ call.conn \in active => errors[call.kind] > 0
    /\ Running("invoke") => \A x \in Task.left :
          /\ registrations[x[1]].in
          /\ Task.for = "register" => Task.of = x[1]
    /\ Running("remove") => registrations[Task.of].in
          /\ (~Task.successful => errors.remove > 0)

\* Of listener l and connection c: what the member holds and what is recorded.
Held(l, c) ==
    /\ server[c][l] = 1 =>
          /\ c \in active
          /\ \/ c \in registrations[l].on
             \/ Asks("add", l, c) /\ call.answer = "ok"
    /\ Asks("add", l, c) /\ call.answer # "ok" => server[c][l] = 0
    /\ Asks("add", l, c) /\ call.answer = "ok" /\ c \in active => server[c][l] = 1
    /\ Asks("remove", l, c) /\ call.answer = "ok" => server[c][l] = 0
    /\ c \in registrations[l].on =>
          /\ c \in active \/ Leaves(c)
          /\ c \in active /\ (errors.remove = 0 \/ told[l] \in {"adding", "added"}) =>
                server[c][l] = 1 \/ (Running("remove") /\ Task.of = l)
    \* a removal that goes well leaves nothing
    /\ Running("remove") /\ Task.of = l /\ Task.successful /\ server[c][l] = 1 =>
          c \in Task.left \/ (Asks("remove", l, c) /\ call.answer # "ok")

\* A listener that the caller was told is added.
Serving(l) ==
    told[l] = "added" \/ (Running("invoke") /\ Task.for = "register" /\ Task.of = l)

\* What the registry records of a listener, by what the application was told.
InPlace(l) ==
    /\ ~registrations[l].in => registrations[l].on = {}
    /\ \/ told[l] \in {"new", "removed"}
       \/ told[l] = "failed" /\ errors.remove = 0
       \/ InQueue(Event("register", l))
       => ~registrations[l].in
    /\ told[l] \in {"added", "kept"} => registrations[l].in
    /\ Running("invoke") /\ Task.for = "register" /\ Task.of = l => registrations[l].in
    /\ Serving(l) /\ errors.add = 0 => \A c \in active :
          \/ server[c][l] = 1
          \/ Comes(c)
          \/ Running("invoke") /\ <<l, c>> \in Task.left
          \/ Asks("add", l, c) /\ call.answer = "none"

\* The inductive invariant.
IInv ==
    /\ Types /\ OneTask /\ Events /\ Asked
    /\ \A l \in Listeners : InPlace(l) /\ \A c \in Conns : Held(l, c)

-----------------------------------------------------------------------------
\* The queue

\* What a task is, by its kind.
LEMMA Kinds ==
    ASSUME NEW t \in Tasks
    PROVE  /\ t.do = "invoke" => t \in Invoking
           /\ t.do = "remove" => t \in Removing
           /\ t.do \in {"register", "deregister"} => t.of \in Listeners /\ t = Event(t.do, t.of)
           /\ t.do \in {"added", "removed"} => t.of \in Conns /\ t = Event(t.do, t.of)
           /\ t.do \in {"register", "deregister", "added", "removed", "invoke", "remove"}
  <1>1. CASE t \in Waiting
    BY <1>1 DEF Waiting, Event
  <1>2. CASE t \in Invoking
    BY <1>2 DEF Invoking
  <1>3. CASE t \in Removing
    BY <1>3 DEF Removing
  <1> QED BY <1>1, <1>2, <1>3, Zenon DEF Tasks

\* The first task, and the others, which have not begun.
LEMMA First ==
    ASSUME Types, posted # <<>>
    PROVE  /\ 1 \in 1 .. Len(posted) /\ Len(posted) \in Nat
           /\ Task = posted[1] /\ Task \in Tasks
           /\ \A i \in 1 .. Len(posted) : i # 1 =>
                 posted[i].do \notin {"invoke", "remove"}
  <1>1. posted \in Seq(Tasks) /\ Len(posted) \in Nat /\ Len(posted) > 0
    BY DEF Types, Tasks
  <1>2. 1 \in 1 .. Len(posted) /\ Task = posted[1] /\ Task \in Tasks
    BY <1>1 DEF Task
  <1>3. ASSUME NEW i \in 1 .. Len(posted), i # 1
        PROVE  posted[i].do \notin {"invoke", "remove"}
    <2>1. posted[i] \in Waiting
      BY <1>1, <1>3 DEF Types
    <2> QED BY <2>1 DEF Waiting
  <1> QED BY <1>1, <1>2, <1>3

\* A task is posted.
LEMMA Posting ==
    ASSUME Types, NEW t \in Waiting, Post(t)
    PROVE  /\ posted' \in Seq(Tasks) /\ \A i \in 2 .. Len(posted') : posted'[i] \in Waiting
           /\ Len(posted) \in Nat /\ Len(posted') = Len(posted) + 1
           /\ posted'[Len(posted) + 1] = t
           /\ \A i \in 1 .. Len(posted) : posted'[i] = posted[i]
           /\ Running("invoke")' = Running("invoke") /\ Running("remove")' = Running("remove")
           /\ posted # <<>> => posted' # <<>> /\ Task' = Task
           /\ InQueue(t)' /\ \A x : InQueue(x) => InQueue(x)'
           /\ \A x : InQueue(x)' => InQueue(x) \/ x = t
  <1>1. posted \in Seq(Tasks) /\ Len(posted) \in Nat /\ t \in Tasks
    BY DEF Types, Tasks
  <1>2. /\ posted' \in Seq(Tasks) /\ Len(posted') = Len(posted) + 1
        /\ posted'[Len(posted) + 1] = t
        /\ \A i \in 1 .. Len(posted) : posted'[i] = posted[i]
    BY <1>1 DEF Post
  <1>3. \A i \in 2 .. Len(posted') : posted'[i] \in Waiting
    <2>1. ASSUME NEW i \in 2 .. Len(posted') PROVE posted'[i] \in Waiting
      <3>1. CASE i = Len(posted) + 1
        BY <1>2, <3>1
      <3>2. CASE i # Len(posted) + 1
        <4>1. i \in 2 .. Len(posted) /\ i \in 1 .. Len(posted)
          BY <1>1, <1>2, <2>1, <3>2
        <4> QED BY <1>2, <4>1 DEF Types
      <3> QED BY <3>1, <3>2
    <2> QED BY <2>1
  <1>4. posted' # <<>> /\ Head(posted') = posted'[1]
    BY <1>1, <1>2
  <1>5. posted # <<>> => Task' = Task
    BY <1>1, <1>2, <1>4 DEF Task
  <1>6. posted = <<>> => Task' = t
    BY <1>1, <1>2, <1>4 DEF Task
  <1>7. t.do \notin {"invoke", "remove"}
    BY DEF Waiting
  <1>8. Running("invoke")' = Running("invoke") /\ Running("remove")' = Running("remove")
    BY <1>4, <1>5, <1>6, <1>7 DEF Running, Task
  <1>9. Len(posted) + 1 \in 1 .. Len(posted') /\ 1 .. Len(posted) \subseteq 1 .. Len(posted')
        /\ \A i \in 1 .. Len(posted') : i \in 1 .. Len(posted) \/ i = Len(posted) + 1
    BY <1>1, <1>2
  <1>10. InQueue(t)' /\ (\A x : InQueue(x) => InQueue(x)')
         /\ \A x : InQueue(x)' => InQueue(x) \/ x = t
    BY <1>2, <1>9, Zenon DEF InQueue
  <1> QED BY <1>1, <1>2, <1>3, <1>4, <1>5, <1>8, <1>10

\* The first task goes on as t.
LEMMA Becoming ==
    ASSUME Types, posted # <<>>, NEW t \in Invoking \cup Removing, Become(t)
    PROVE  /\ posted' \in Seq(Tasks) /\ \A i \in 2 .. Len(posted') : posted'[i] \in Waiting
           /\ Len(posted) \in Nat /\ Len(posted') = Len(posted) /\ posted' # <<>>
           /\ Task' = t /\ posted'[1] = t
           /\ \A i \in 1 .. Len(posted) : i # 1 => posted'[i] = posted[i]
           /\ Running("invoke")' = (t.do = "invoke") /\ Running("remove")' = (t.do = "remove")
           /\ \A x : InQueue(x) => InQueue(x)' \/ x = Task
           /\ \A x : InQueue(x)' => InQueue(x) \/ x = t
  <1>1. posted \in Seq(Tasks) /\ Len(posted) \in Nat /\ Len(posted) > 0 /\ t \in Tasks
    BY DEF Types, Tasks
  <1>2. posted' \in Seq(Tasks)
    BY <1>1 DEF Become
  <1>3. Len(posted') = Len(posted) /\ posted'[1] = t
        /\ \A i \in 2 .. Len(posted) : posted'[i] = posted[i]
    BY <1>1 DEF Become
  <1>4. posted' # <<>> /\ Task' = t
    BY <1>1, <1>2, <1>3 DEF Task
  <1>5. \A i \in 1 .. Len(posted) : i # 1 => posted'[i] = posted[i] /\ i \in 2 .. Len(posted)
    BY <1>1, <1>3
  <1>6. \A i \in 2 .. Len(posted') : posted'[i] \in Waiting
    BY <1>3 DEF Types
  <1>7. Running("invoke")' = (t.do = "invoke") /\ Running("remove")' = (t.do = "remove")
    BY <1>4 DEF Running, Task
  <1>8. Task = posted[1] /\ 1 \in 1 .. Len(posted)
    BY <1>1 DEF Task
  <1>9. (\A x : InQueue(x) => InQueue(x)' \/ x = Task)
        /\ \A x : InQueue(x)' => InQueue(x) \/ x = t
    BY <1>3, <1>5, <1>8, Zenon DEF InQueue
  <1> QED BY <1>1, <1>2, <1>3, <1>4, <1>5, <1>6, <1>7, <1>9, Zenon

\* The first task ends.
LEMMA Ending ==
    ASSUME Types, posted # <<>>, Done
    PROVE  /\ posted' \in Seq(Tasks) /\ \A i \in 2 .. Len(posted') : posted'[i] \in Waiting
           /\ Len(posted) \in Nat /\ Len(posted') = Len(posted) - 1
           /\ \A i \in 1 .. Len(posted') : posted'[i] = posted[i + 1] /\ i + 1 \in 1 .. Len(posted)
           /\ ~Running("invoke")' /\ ~Running("remove")'
           /\ \A x : InQueue(x) => InQueue(x)' \/ x = Task
           /\ \A x : InQueue(x)' => InQueue(x)
  <1>1. posted \in Seq(Tasks) /\ Len(posted) \in Nat /\ Len(posted) > 0
    BY DEF Types, Tasks
  <1>2. posted' \in Seq(Tasks) /\ Len(posted') = Len(posted) - 1
        /\ \A i \in 1 .. Len(posted') : posted'[i] = posted[i + 1]
    BY <1>1 DEF Done
  <1>3. \A i \in 1 .. Len(posted') : i + 1 \in 2 .. Len(posted) /\ i + 1 \in 1 .. Len(posted)
    BY <1>1, <1>2
  <1>4. \A i \in 1 .. Len(posted') : posted'[i] \in Waiting
    BY <1>2, <1>3 DEF Types
  <1>5. \A i \in 2 .. Len(posted') : posted'[i] \in Waiting
    BY <1>1, <1>2, <1>4
  <1>6. posted' # <<>> => Head(posted') = posted'[1] /\ 1 \in 1 .. Len(posted')
    BY <1>1, <1>2
  <1>7. \A w \in Waiting : w.do \notin {"invoke", "remove"}
    BY DEF Waiting
  <1>8. ~Running("invoke")' /\ ~Running("remove")'
    BY <1>4, <1>6, <1>7 DEF Running
  <1>9. Task = posted[1]
    BY <1>1 DEF Task
  <1>10. \A x : InQueue(x)' => InQueue(x)
    BY <1>2, <1>3, Zenon DEF InQueue
  <1>11. ASSUME NEW x, InQueue(x), x # Task PROVE InQueue(x)'
    <2>1. PICK i \in 1 .. Len(posted) : posted[i] = x
      BY <1>11 DEF InQueue
    <2>2. i # 1
      BY <1>9, <1>11, <2>1
    <2>3. i - 1 \in 1 .. Len(posted') /\ (i - 1) + 1 = i
      BY <1>1, <1>2, <2>1, <2>2
    <2> QED BY <1>2, <2>1, <2>3, Zenon DEF InQueue
  <1> QED BY <1>1, <1>2, <1>3, <1>5, <1>8, <1>10, <1>11, Zenon

-----------------------------------------------------------------------------
\* What a step of the queue does to the tasks and events in it

\* A posted task keeps the events in the queue.
LEMMA PostingKeeps ==
    ASSUME Types, NEW t \in Waiting, Post(t)
    PROVE  /\ \A c \in Conns : (Leaves(c) => Leaves(c)') /\ (Comes(c) => Comes(c)')
           /\ \A c \in Conns : t = Event("removed", c) => Leaves(c)'
           /\ \A c \in Conns : t = Event("added", c) => Comes(c)'
           /\ \A l \in Listeners : InQueue(Event("register", l))' =>
                 InQueue(Event("register", l)) \/ Event("register", l) = t
  BY Posting, Zenon DEF Leaves, Comes

\* Two events are the same only when they say the same of the same thing.
LEMMA EventsDiffer ==
    ASSUME NEW k, NEW x
    PROVE  Event(k, x).do = k /\ Event(k, x).of = x
  BY DEF Event

\* A task that goes on to its requests leaves the events of the others in the
\* queue.
LEMMA BecomingKeeps ==
    ASSUME Types, posted # <<>>, NEW t \in Invoking \cup Removing, Become(t)
    PROVE  /\ \A c \in Conns : Leaves(c) => Leaves(c)' \/ (Task.do = "removed" /\ Task.of = c)
           /\ \A c \in Conns : Comes(c) => Comes(c)' \/ (Task.do = "added" /\ Task.of = c)
           /\ \A l \in Listeners : InQueue(Event("register", l))' => InQueue(Event("register", l))
  <1>1. t.do # "register"
    BY DEF Invoking, Removing
  <1>2. ASSUME NEW c \in Conns, Leaves(c) PROVE Leaves(c)' \/ (Task.do = "removed" /\ Task.of = c)
    <2>1. InQueue(Event("removed", c))' \/ Event("removed", c) = Task
      BY <1>2, Becoming, Zenon DEF Leaves
    <2>2. Event("removed", c).do = "removed" /\ Event("removed", c).of = c
      BY EventsDiffer
    <2> QED BY <2>1, <2>2, Zenon DEF Leaves
  <1>3. ASSUME NEW c \in Conns, Comes(c) PROVE Comes(c)' \/ (Task.do = "added" /\ Task.of = c)
    <2>1. InQueue(Event("added", c))' \/ Event("added", c) = Task
      BY <1>3, Becoming, Zenon DEF Comes
    <2>2. Event("added", c).do = "added" /\ Event("added", c).of = c
      BY EventsDiffer
    <2> QED BY <2>1, <2>2, Zenon DEF Comes
  <1>4. ASSUME NEW l \in Listeners, InQueue(Event("register", l))' PROVE InQueue(Event("register", l))
    <2>1. Event("register", l).do = "register"
      BY EventsDiffer
    <2> QED BY <1>1, <1>4, <2>1, Becoming, Zenon
  <1> QED BY <1>2, <1>3, <1>4, Zenon

\* A task that ends takes only its own event from the queue.
LEMMA EndingKeeps ==
    ASSUME Types, posted # <<>>, Done
    PROVE  /\ \A c \in Conns : Leaves(c) => Leaves(c)' \/ (Task.do = "removed" /\ Task.of = c)
           /\ \A c \in Conns : Comes(c) => Comes(c)' \/ (Task.do = "added" /\ Task.of = c)
           /\ \A l \in Listeners : InQueue(Event("register", l))' => InQueue(Event("register", l))
  <1>1. ASSUME NEW c \in Conns, Leaves(c) PROVE Leaves(c)' \/ (Task.do = "removed" /\ Task.of = c)
    <2>1. InQueue(Event("removed", c))' \/ Event("removed", c) = Task
      BY <1>1, Ending, Zenon DEF Leaves
    <2>2. Event("removed", c).do = "removed" /\ Event("removed", c).of = c
      BY EventsDiffer
    <2> QED BY <2>1, <2>2, Zenon DEF Leaves
  <1>2. ASSUME NEW c \in Conns, Comes(c) PROVE Comes(c)' \/ (Task.do = "added" /\ Task.of = c)
    <2>1. InQueue(Event("added", c))' \/ Event("added", c) = Task
      BY <1>2, Ending, Zenon DEF Comes
    <2>2. Event("added", c).do = "added" /\ Event("added", c).of = c
      BY EventsDiffer
    <2> QED BY <2>1, <2>2, Zenon DEF Comes
  <1> QED BY <1>1, <1>2, Ending, Zenon

\* A caller that waits for nothing may post a task.
LEMMA PostingOne ==
    ASSUME Types, OneTask, NEW t \in Waiting, Post(t),
           \A l \in Listeners : IsFor(t, l) =>
               told[l] \notin {"adding", "removing"} /\ told'[l] = Promised(t),
           \A l \in Listeners : ~IsFor(t, l) => told'[l] = told[l]
    PROVE  OneTask'
  <1>1. ASSUME NEW x PROVE Promised(x) \in {"adding", "removing"}
    BY DEF Promised
  <1>2. \A i \in 1 .. Len(posted') : i \in 1 .. Len(posted) \/ i = Len(posted) + 1
    BY Posting
  <1>3. /\ posted'[Len(posted) + 1] = t
        /\ \A i \in 1 .. Len(posted) : posted'[i] = posted[i]
    BY Posting, Zenon
  <1>4. ASSUME NEW i \in 1 .. Len(posted'), NEW l \in Listeners, IsFor(posted'[i], l)
        PROVE  /\ told'[l] = Promised(posted'[i])
               /\ \A j \in 1 .. Len(posted') : IsFor(posted'[j], l) => i = j
    <2>1. CASE i = Len(posted) + 1
      <3>1. IsFor(t, l)
        BY <1>3, <1>4, <2>1, Zenon
      <3>2. ASSUME NEW j \in 1 .. Len(posted), IsFor(posted[j], l) PROVE FALSE
        BY <1>1, <3>1, <3>2, Zenon DEF OneTask
      <3> QED BY <1>2, <1>3, <2>1, <3>1, <3>2, Zenon
    <2>2. CASE i \in 1 .. Len(posted)
      <3>1. IsFor(posted[i], l)
        BY <1>3, <1>4, <2>2, Zenon
      <3>2. told[l] = Promised(posted[i]) /\ ~IsFor(t, l)
        BY <1>1, <2>2, <3>1, Zenon DEF OneTask
      <3> QED BY <1>2, <1>3, <2>2, <3>1, <3>2, Zenon DEF OneTask
    <2> QED BY <1>2, <2>1, <2>2
  <1> QED BY <1>4, Zenon DEF OneTask, IsFor, Promised

\* The first task goes on for the same caller.
LEMMA BecomingOne ==
    ASSUME Types, OneTask, posted # <<>>, NEW t \in Invoking \cup Removing, Become(t),
           told' = told,
           \A l \in Listeners : IsFor(t, l) => IsFor(Task, l) /\ Promised(t) = Promised(Task)
    PROVE  OneTask'
  <1>1. /\ Len(posted') = Len(posted) /\ posted'[1] = t
        /\ \A i \in 1 .. Len(posted) : i # 1 => posted'[i] = posted[i]
    BY Becoming, Zenon
  <1>2. Task = posted[1]
    BY First, Zenon
  <1>3. ASSUME NEW i \in 1 .. Len(posted), NEW l \in Listeners, IsFor(posted'[i], l)
        PROVE  IsFor(posted[i], l) /\ Promised(posted'[i]) = Promised(posted[i])
    BY <1>1, <1>2, <1>3, Zenon
  <1>4. ASSUME NEW i \in 1 .. Len(posted'), NEW l \in Listeners, IsFor(posted'[i], l)
        PROVE  /\ told'[l] = Promised(posted'[i])
               /\ \A j \in 1 .. Len(posted') : IsFor(posted'[j], l) => i = j
    BY <1>1, <1>3, <1>4, Zenon DEF OneTask
  <1> QED BY <1>4, Zenon DEF OneTask, IsFor, Promised

\* The first task ends and only its caller is told something.
LEMMA EndingOne ==
    ASSUME Types, OneTask, posted # <<>>, Done,
           \A l \in Listeners : ~IsFor(Task, l) => told'[l] = told[l]
    PROVE  OneTask'
  <1>1. /\ \A i \in 1 .. Len(posted') : posted'[i] = posted[i + 1] /\ i + 1 \in 1 .. Len(posted)
        /\ Task = posted[1] /\ 1 \in 1 .. Len(posted)
    BY Ending, First, Zenon
  <1>2. \A i, j \in 1 .. Len(posted') : i + 1 # 1 /\ (i + 1 = j + 1 => i = j)
    OBVIOUS
  <1>3. ASSUME NEW i \in 1 .. Len(posted'), NEW l \in Listeners, IsFor(posted'[i], l)
        PROVE  /\ told'[l] = Promised(posted'[i])
               /\ \A j \in 1 .. Len(posted') : IsFor(posted'[j], l) => i = j
    <2>1. posted'[i] = posted[i + 1] /\ i + 1 \in 1 .. Len(posted) /\ IsFor(posted[i + 1], l)
      BY <1>1, <1>3, Zenon
    <2>2. told[l] = Promised(posted[i + 1]) /\ ~IsFor(Task, l)
      BY <1>1, <1>2, <2>1, Zenon DEF OneTask
    <2>3. ASSUME NEW j \in 1 .. Len(posted'), IsFor(posted'[j], l) PROVE i = j
      <3>1. j + 1 \in 1 .. Len(posted) /\ IsFor(posted[j + 1], l)
        BY <1>1, <2>3, Zenon
      <3> QED BY <1>2, <2>1, <3>1, Zenon DEF OneTask
    <2> QED BY <2>1, <2>2, <2>3, Zenon
  <1> QED BY <1>3, Zenon DEF OneTask, IsFor, Promised

\* Connections open once, and close after that.
LEMMA PostingEvents ==
    ASSUME Types, Events, NEW t \in Waiting, Post(t),
           t.do = "added" => t.of \notin unopened',
           t.do = "removed" => t.of \notin active' \cup unopened',
           unopened' \subseteq unopened, active' \subseteq active \cup unopened
    PROVE  Events'
  <1>1. /\ \A i \in 1 .. Len(posted') : i \in 1 .. Len(posted) \/ i = Len(posted) + 1
    BY Posting
  <1>2. /\ posted'[Len(posted) + 1] = t /\ t.do # "invoke" /\ t.do # "remove"
        /\ \A i \in 1 .. Len(posted) : posted'[i] = posted[i]
    BY Posting, Zenon DEF Waiting
  <1> QED BY <1>1, <1>2, Zenon DEF Events

\* Events keep their meaning when a task goes on,
LEMMA BecomingEvents ==
    ASSUME Types, Events, posted # <<>>, NEW t \in Invoking \cup Removing, Become(t),
           t.do = "invoke" => \A x \in t.left : x[2] \notin unopened,
           t.do = "remove" => \A c \in t.left : c \notin unopened,
           unopened' = unopened, active' = active
    PROVE  Events'
  <1>1. /\ Len(posted') = Len(posted) /\ posted'[1] = t
        /\ \A i \in 1 .. Len(posted) : i # 1 => posted'[i] = posted[i]
    BY Becoming, Zenon
  <1>2. t.do \notin {"added", "removed"}
    BY DEF Invoking, Removing
  <1> QED BY <1>1, <1>2, Zenon DEF Events

\* and when it ends.
LEMMA EndingEvents ==
    ASSUME Types, Events, posted # <<>>, Done, unopened' = unopened, active' = active
    PROVE  Events'
  BY Ending, Zenon DEF Events

-----------------------------------------------------------------------------
\* Callers and connection events

\* The registry is right for every listener,
Placed == \A l \in Listeners : InPlace(l)
\* and the members hold what it records.
Members == \A l \in Listeners, c \in Conns : Held(l, c)

\* A request names its kind, listener and connection.
LEMMA CallFacts ==
    ASSUME Types
    PROVE  /\ call # NoCall => call \in Calls
           /\ call.kind \in {"add", "remove"} => call # NoCall
           /\ call # NoCall => call.kind \in {"add", "remove"} /\ call.listener \in Listeners
                               /\ call.conn \in Conns /\ call.answer \in {"none", "ok", "error"}
  BY DEF Types, Calls, NoCall

\* A task that is posted does not disturb the one that runs.
LEMMA PostingAsked ==
    ASSUME Types, Asked, NEW t \in Waiting, Post(t),
           registrations' = registrations, call' = call, errors' = errors,
           unopened' \subseteq unopened,
           call # NoCall /\ call.conn \in active' => call.conn \in active,
           call # NoCall /\ call.conn \in active /\ call.conn \notin active' => Leaves(call.conn)'
    PROVE  Asked'
  <1>1. /\ Running("invoke")' = Running("invoke") /\ Running("remove")' = Running("remove")
        /\ posted # <<>> => posted' # <<>> /\ Task' = Task
    BY Posting, Zenon
  <1>2. Running("invoke") \/ Running("remove") => posted # <<>>
    BY DEF Running
  <1>3. call # NoCall /\ Leaves(call.conn) => Leaves(call.conn)'
    BY PostingKeeps, CallFacts, Zenon
  <1>4. ASSUME call' # NoCall
        PROVE  /\ posted' # <<>>
               /\ call'.conn \notin unopened'
               /\ call'.kind = "add" => /\ Task'.do = "invoke"
                                        /\ call'.conn \notin registrations'[call'.listener].on
                                        /\ registrations'[call'.listener].in
                                        /\ Task'.for = "register" => Task'.of = call'.listener
               /\ call'.kind = "remove" => Task'.do = "remove" /\ Task'.of = call'.listener
               /\ call'.answer = "ok" /\ call'.conn \notin active' => Leaves(call.conn)'
               /\ call'.answer = "error" /\ call'.conn \in active' => errors'[call'.kind] > 0
    BY <1>1, <1>3, <1>4, Zenon DEF Asked
  <1>5. Running("invoke")' => \A x \in Task'.left :
          /\ registrations'[x[1]].in
          /\ Task'.for = "register" => Task'.of = x[1]
    BY <1>1, <1>2, Zenon DEF Asked
  <1>6. Running("remove")' => registrations'[Task'.of].in
          /\ (~Task'.successful => errors'.remove > 0)
    BY <1>1, <1>2, Zenon DEF Asked
  <1> QED BY <1>4, <1>5, <1>6, Zenon DEF Asked

\* register_listener posts its task.
LEMMA RegisterOk ==
    ASSUME IInv, NEW l \in Listeners, register_listener(l)
    PROVE  IInv'
  <1> DEFINE t == Event("register", l)
  <1>1. Types /\ OneTask /\ Events /\ Asked /\ Placed /\ Members
    BY Zenon DEF IInv, Placed, Members
  <1>2. t \in Waiting /\ t.do = "register" /\ t.of = l
    BY DEF Waiting, Event
  <1>3. /\ active' = active /\ unopened' = unopened /\ registrations' = registrations
        /\ call' = call /\ server' = server /\ errors' = errors
        /\ told[l] = "new" /\ told' = [told EXCEPT ![l] = "adding"] /\ Post(t)
    BY DEF register_listener, Event
  <1> HIDE DEF t
  <1>4. told' \in [Listeners -> Told] /\ told'[l] = "adding"
        /\ \A k \in Listeners : k # l => told'[k] = told[k]
    BY <1>1, <1>3 DEF Types, Told
  <1>5. posted' \in Seq(Tasks) /\ \A i \in 2 .. Len(posted') : posted'[i] \in Waiting
    BY <1>1, <1>2, <1>3, Posting, Zenon
  <1>6. Types'
    BY <1>1, <1>3, <1>4, <1>5, Zenon DEF Types
  <1>7. OneTask'
    <2>1. \A k \in Listeners : IsFor(t, k) => k = l
      BY <1>2, Zenon DEF IsFor
    <2>2. IsFor(t, l) /\ Promised(t) = "adding"
      BY <1>2 DEF IsFor, Promised
    <2>3. told[l] \notin {"adding", "removing"}
      BY <1>3
    <2> QED BY <1>1, <1>2, <1>3, <1>4, <2>1, <2>2, <2>3, PostingOne, Zenon
  <1>8. Events'
    <2>1. t.do # "added" /\ t.do # "removed"
      BY <1>2
    <2> QED BY <1>1, <1>2, <1>3, <2>1, PostingEvents, Zenon
  <1>9. Asked'
    BY <1>1, <1>2, <1>3, PostingAsked, Zenon
  <1>10. /\ Running("invoke")' = Running("invoke") /\ Running("remove")' = Running("remove")
         /\ posted # <<>> => posted' # <<>> /\ Task' = Task
    BY <1>1, <1>2, <1>3, Posting, Zenon
  <1>11. Running("invoke") \/ Running("remove") => posted # <<>>
    BY DEF Running
  <1>12. /\ \A c \in Conns : (Leaves(c) => Leaves(c)') /\ (Comes(c) => Comes(c)')
         /\ \A k \in Listeners : InQueue(Event("register", k))' =>
                 InQueue(Event("register", k)) \/ Event("register", k) = t
    BY <1>1, <1>2, <1>3, PostingKeeps, Zenon
  <1>13. ASSUME NEW k \in Listeners, NEW c \in Conns PROVE Held(k, c)'
    <2>1. Held(k, c)
      BY <1>1, Zenon DEF Members
    <2>2. told'[k] \in {"adding", "added"} => told[k] \in {"adding", "added"} \/ c \notin registrations[k].on
      BY <1>1, <1>3, <1>4, Zenon DEF Placed, InPlace
    <2> QED BY <1>3, <1>10, <1>11, <1>12, <2>1, <2>2, Zenon DEF Held, Asks
  <1>14. ASSUME NEW k \in Listeners PROVE InPlace(k)'
    <2>1. InPlace(k)
      BY <1>1, Zenon DEF Placed
    <2>2. CASE k = l
      BY <1>1, <1>3, <1>4, <1>10, <1>11, <1>12, <2>1, <2>2, Zenon DEF InPlace, Serving, Asks, Types
    <2>3. CASE k # l
      <3>1. Event("register", k) # t
        <4>1. Event("register", k).of = k
          BY EventsDiffer
        <4> QED BY <1>2, <2>3, <4>1, Zenon
      <3> QED BY <1>1, <1>3, <1>4, <1>10, <1>11, <1>12, <2>1, <2>3, <3>1, Zenon DEF InPlace, Serving, Asks, Types
    <2> QED BY <2>2, <2>3
  <1> QED BY <1>6, <1>7, <1>8, <1>9, <1>13, <1>14, Zenon DEF IInv

\* deregister_listener posts its task.
LEMMA DeregisterOk ==
    ASSUME IInv, NEW l \in Listeners, deregister_listener(l)
    PROVE  IInv'
  <1> DEFINE t == Event("deregister", l)
  <1>1. Types /\ OneTask /\ Events /\ Asked /\ Placed /\ Members
    BY Zenon DEF IInv, Placed, Members
  <1>2. t \in Waiting /\ t.do = "deregister" /\ t.of = l
    BY DEF Waiting, Event
  <1>3. /\ active' = active /\ unopened' = unopened /\ registrations' = registrations
        /\ call' = call /\ server' = server /\ errors' = errors
        /\ told[l] \in {"added", "kept", "removed"} /\ told' = [told EXCEPT ![l] = "removing"] /\ Post(t)
    BY DEF deregister_listener, Event
  <1> HIDE DEF t
  <1>4. told' \in [Listeners -> Told] /\ told'[l] = "removing"
        /\ \A k \in Listeners : k # l => told'[k] = told[k]
    BY <1>1, <1>3 DEF Types, Told
  <1>5. posted' \in Seq(Tasks) /\ \A i \in 2 .. Len(posted') : posted'[i] \in Waiting
    BY <1>1, <1>2, <1>3, Posting, Zenon
  <1>6. Types'
    BY <1>1, <1>3, <1>4, <1>5, Zenon DEF Types
  <1>7. OneTask'
    <2>1. \A k \in Listeners : IsFor(t, k) => k = l
      BY <1>2, Zenon DEF IsFor
    <2>2. IsFor(t, l) /\ Promised(t) = "removing"
      BY <1>2 DEF IsFor, Promised
    <2>3. told[l] \notin {"adding", "removing"}
      BY <1>3
    <2> QED BY <1>1, <1>2, <1>3, <1>4, <2>1, <2>2, <2>3, PostingOne, Zenon
  <1>8. Events'
    <2>1. t.do # "added" /\ t.do # "removed"
      BY <1>2
    <2> QED BY <1>1, <1>2, <1>3, <2>1, PostingEvents, Zenon
  <1>9. Asked'
    BY <1>1, <1>2, <1>3, PostingAsked, Zenon
  <1>10. /\ Running("invoke")' = Running("invoke") /\ Running("remove")' = Running("remove")
         /\ posted # <<>> => posted' # <<>> /\ Task' = Task
    BY <1>1, <1>2, <1>3, Posting, Zenon
  <1>11. Running("invoke") \/ Running("remove") => posted # <<>>
    BY DEF Running
  <1>12. /\ \A c \in Conns : (Leaves(c) => Leaves(c)') /\ (Comes(c) => Comes(c)')
         /\ \A k \in Listeners : InQueue(Event("register", k))' =>
                 InQueue(Event("register", k)) \/ Event("register", k) = t
    BY <1>1, <1>2, <1>3, PostingKeeps, Zenon
  <1>13. ASSUME NEW k \in Listeners, NEW c \in Conns PROVE Held(k, c)'
    <2>1. Held(k, c)
      BY <1>1, Zenon DEF Members
    <2>2. told'[k] \in {"adding", "added"} => told[k] \in {"adding", "added"}
      BY <1>4
    <2> QED BY <1>3, <1>10, <1>11, <1>12, <2>1, <2>2, Zenon DEF Held, Asks
  <1>14. ASSUME NEW k \in Listeners PROVE InPlace(k)'
    <2>1. InPlace(k)
      BY <1>1, Zenon DEF Placed
    <2>2. Event("register", k) # t
      <3>1. Event("register", k).do = "register"
        BY EventsDiffer
      <3> QED BY <1>2, <3>1, Zenon
    <2>3. CASE k = l
      BY <1>1, <1>3, <1>4, <1>10, <1>11, <1>12, <2>1, <2>2, <2>3, Zenon DEF InPlace, Serving, Asks, Types
    <2>4. CASE k # l
      BY <1>1, <1>3, <1>4, <1>10, <1>11, <1>12, <2>1, <2>2, <2>4, Zenon DEF InPlace, Serving, Asks, Types
    <2> QED BY <2>3, <2>4
  <1> QED BY <1>6, <1>7, <1>8, <1>9, <1>13, <1>14, Zenon DEF IInv

\* connection_added posts its task.
LEMMA AddedOk ==
    ASSUME IInv, NEW d \in Conns, connection_added(d)
    PROVE  IInv'
  <1> DEFINE t == Event("added", d)
  <1>1. Types /\ OneTask /\ Events /\ Asked /\ Placed /\ Members
    BY Zenon DEF IInv, Placed, Members
  <1>2. t \in Waiting /\ t.do = "added" /\ t.of = d
    BY Zenon DEF Waiting, Event
  <1>3. /\ registrations' = registrations /\ call' = call /\ server' = server
        /\ errors' = errors /\ told' = told /\ Post(t)
        /\ d \in unopened /\ unopened' = unopened \ {d} /\ active' = active \cup {d}
    BY Zenon DEF connection_added, Event
  <1> HIDE DEF t
  <1>4. active' \subseteq Conns /\ unopened' \subseteq Conns /\ active' \cap unopened' = {}
    BY <1>1, <1>3 DEF Types
  <1>5. posted' \in Seq(Tasks) /\ \A i \in 2 .. Len(posted') : posted'[i] \in Waiting
    BY <1>1, <1>2, <1>3, Posting, Zenon
  <1>6. Types'
    BY <1>1, <1>3, <1>4, <1>5, Zenon DEF Types
  <1>7. OneTask'
    <2>1. \A k \in Listeners : ~IsFor(t, k)
      BY <1>2 DEF IsFor
    <2> QED BY <1>1, <1>2, <1>3, <2>1, PostingOne, Zenon
  <1>10. /\ Running("invoke")' = Running("invoke") /\ Running("remove")' = Running("remove")
         /\ posted # <<>> => posted' # <<>> /\ Task' = Task
    BY <1>1, <1>2, <1>3, Posting, Zenon
  <1>11. Running("invoke") \/ Running("remove") => posted # <<>>
    BY DEF Running
  <1>12. /\ \A c \in Conns : (Leaves(c) => Leaves(c)') /\ (Comes(c) => Comes(c)')
         /\ Comes(d)'
         /\ \A k \in Listeners : InQueue(Event("register", k))' =>
                 InQueue(Event("register", k)) \/ Event("register", k) = t
    BY <1>1, <1>2, <1>3, PostingKeeps, Zenon DEF t
  <1>13. ASSUME NEW k \in Listeners PROVE InQueue(Event("register", k))' => InQueue(Event("register", k))
    <2>1. Event("register", k).do = "register"
      BY EventsDiffer
    <2> QED BY <1>2, <1>12, <2>1, Zenon
  <1>8. Events'
    <2>1. t.of \notin unopened' /\ unopened' \subseteq unopened /\ active' \subseteq active \cup unopened
      BY <1>2, <1>3, Zenon
    <2>2. t.do # "removed"
      BY <1>2
    <2> QED BY <1>1, <1>2, <1>3, <2>1, <2>2, PostingEvents, Zenon
  <1>9. Asked'
    <2>1. unopened' \subseteq unopened /\ active \subseteq active'
      BY <1>3
    <2>2. call # NoCall /\ call.conn \in active' => call.conn \in active
      BY <1>1, <1>3, Zenon DEF Asked
    <2> QED BY <1>1, <1>2, <1>3, <2>1, <2>2, PostingAsked, Zenon
  <1>14. ~Leaves(d)
    <2>1. Event("removed", d).do = "removed" /\ Event("removed", d).of = d
      BY EventsDiffer
    <2> QED BY <1>1, <1>3, <2>1, Zenon DEF Leaves, InQueue, Events
  <1>15. ASSUME NEW k \in Listeners, NEW c \in Conns PROVE Held(k, c)'
    <2>1. Held(k, c)
      BY <1>1, Zenon DEF Members
    <2>2. CASE c # d
      BY <1>3, <1>10, <1>11, <1>12, <2>1, <2>2, Zenon DEF Held, Asks
    <2>3. CASE c = d
      <3>1. d \notin active
        BY <1>1, <1>3 DEF Types
      <3>2. ~Asks("add", k, d) /\ ~Asks("remove", k, d)
        BY <1>1, <1>3, Zenon DEF Asks, Asked
      <3>3. server[c][k] # 1 /\ c \notin registrations[k].on
        BY <1>14, <2>1, <2>3, <3>1, <3>2, Zenon DEF Held
      <3> QED BY <1>3, <2>3, <3>2, <3>3, Zenon DEF Held, Asks
    <2> QED BY <2>2, <2>3
  <1>16. ASSUME NEW k \in Listeners PROVE InPlace(k)'
    <2>1. InPlace(k)
      BY <1>1, Zenon DEF Placed
    <2>2. active' \subseteq Conns
      BY <1>4
    <2> QED BY <1>3, <1>4, <1>10, <1>11, <1>12, <1>13, <2>1, Zenon DEF InPlace, Serving, Asks
  <1> QED BY <1>6, <1>7, <1>8, <1>9, <1>15, <1>16, Zenon DEF IInv

\* connection_removed posts its task; the member drops what the connection
\* registered.
LEMMA RemovedOk ==
    ASSUME IInv, NEW d \in Conns, connection_removed(d)
    PROVE  IInv'
  <1> DEFINE t == Event("removed", d)
  <1>1. Types /\ OneTask /\ Events /\ Asked /\ Placed /\ Members
    BY Zenon DEF IInv, Placed, Members
  <1>2. t \in Waiting /\ t.do = "removed" /\ t.of = d
    BY Zenon DEF Waiting, Event
  <1>3. /\ registrations' = registrations /\ call' = call
        /\ server' = [server EXCEPT ![d] = [l \in Listeners |-> 0]]
        /\ errors' = errors /\ told' = told /\ Post(t)
        /\ d \in active /\ unopened' = unopened /\ active' = active \ {d}
    BY Zenon DEF connection_removed, Event
  <1> HIDE DEF t
  <1>4. /\ active' \subseteq Conns /\ active' \cap unopened' = {}
        /\ server' \in [Conns -> [Listeners -> 0 .. 1]]
        /\ \A l \in Listeners : server'[d][l] = 0
        /\ \A c \in Conns : c # d => server'[c] = server[c]
    BY <1>1, <1>3 DEF Types
  <1>5. posted' \in Seq(Tasks) /\ \A i \in 2 .. Len(posted') : posted'[i] \in Waiting
    BY <1>1, <1>2, <1>3, Posting, Zenon
  <1>6. Types'
    BY <1>1, <1>3, <1>4, <1>5, Zenon DEF Types
  <1>7. OneTask'
    <2>1. \A k \in Listeners : ~IsFor(t, k)
      BY <1>2 DEF IsFor
    <2> QED BY <1>1, <1>2, <1>3, <2>1, PostingOne, Zenon
  <1>10. /\ Running("invoke")' = Running("invoke") /\ Running("remove")' = Running("remove")
         /\ posted # <<>> => posted' # <<>> /\ Task' = Task
    BY <1>1, <1>2, <1>3, Posting, Zenon
  <1>11. Running("invoke") \/ Running("remove") => posted # <<>>
    BY DEF Running
  <1>12. /\ \A c \in Conns : (Leaves(c) => Leaves(c)') /\ (Comes(c) => Comes(c)')
         /\ Leaves(d)'
         /\ \A k \in Listeners : InQueue(Event("register", k))' =>
                 InQueue(Event("register", k)) \/ Event("register", k) = t
    BY <1>1, <1>2, <1>3, PostingKeeps, Zenon DEF t
  <1>13. ASSUME NEW k \in Listeners PROVE InQueue(Event("register", k))' => InQueue(Event("register", k))
    <2>1. Event("register", k).do = "register"
      BY EventsDiffer
    <2> QED BY <1>2, <1>12, <2>1, Zenon
  <1>8. Events'
    <2>1. t.of \notin active' \cup unopened' /\ unopened' \subseteq unopened /\ active' \subseteq active \cup unopened
      BY <1>1, <1>2, <1>3, Zenon DEF Types
    <2>2. t.do # "added"
      BY <1>2
    <2> QED BY <1>1, <1>2, <1>3, <2>1, <2>2, PostingEvents, Zenon
  <1>9. Asked'
    <2>1. unopened' \subseteq unopened /\ active' \subseteq active
      BY <1>3, Zenon
    <2>2. call # NoCall /\ call.conn \in active /\ call.conn \notin active' => Leaves(call.conn)'
      BY <1>3, <1>12, Zenon
    <2> QED BY <1>1, <1>2, <1>3, <2>1, <2>2, PostingAsked, Zenon
  <1>15. ASSUME NEW k \in Listeners, NEW c \in Conns PROVE Held(k, c)'
    <2>1. Held(k, c)
      BY <1>1, Zenon DEF Members
    <2>2. CASE c # d
      BY <1>3, <1>4, <1>10, <1>11, <1>12, <2>1, <2>2, Zenon DEF Held, Asks
    <2>3. CASE c = d
      <3>1. c \notin active' /\ server'[c][k] = 0 /\ Leaves(c)'
        BY <1>3, <1>4, <1>12, <2>3, Zenon
      <3> QED BY <3>1 DEF Held
    <2> QED BY <2>2, <2>3
  <1>16. ASSUME NEW k \in Listeners PROVE InPlace(k)'
    <2>1. InPlace(k)
      BY <1>1, Zenon DEF Placed
    <2>2. \A c \in active' : c \in active /\ c \in Conns /\ c # d
      BY <1>3, <1>4, Zenon
    <2> QED BY <1>3, <1>4, <1>10, <1>11, <1>12, <1>13, <2>1, <2>2, Zenon DEF InPlace, Serving, Asks
  <1> QED BY <1>6, <1>7, <1>8, <1>9, <1>15, <1>16, Zenon DEF IInv

-----------------------------------------------------------------------------
\* The registration thread

\* The task that runs; between requests there is no call.
LEMMA HeadFacts ==
    ASSUME Types, Asked, NEW k, Running(k)
    PROVE  /\ posted # <<>> /\ Task.do = k /\ Task \in Tasks /\ InQueue(Task)
           /\ k \notin {"invoke", "remove"} => call = NoCall
           /\ \A j : Running(j) => j = k
  <1>1. posted # <<>> /\ Task.do = k
    BY DEF Running, Task
  <1>2. Task \in Tasks /\ InQueue(Task)
    BY <1>1, First, Zenon DEF InQueue
  <1>3. k \notin {"invoke", "remove"} => call = NoCall
    BY <1>1, CallFacts, Zenon DEF Asked
  <1>4. \A j : Running(j) => j = k
    BY <1>1 DEF Running, Task
  <1> QED BY <1>1, <1>2, <1>3, <1>4, Zenon

\* The caller of a task that runs waits for it.
LEMMA HeadPromised ==
    ASSUME Types, OneTask, posted # <<>>, NEW l \in Listeners, IsFor(Task, l)
    PROVE  told[l] = Promised(Task)
  BY First, ZenonT(30) DEF OneTask

\* The registration is recorded and its add requests are to be sent.
LEMMA StartRegisterOk ==
    ASSUME IInv, StartRegister
    PROVE  IInv'
  <1>1. Types /\ OneTask /\ Events /\ Asked /\ Placed /\ Members
    BY Zenon DEF IInv, Placed, Members
  <1>2. Running("register")
    BY Zenon DEF StartRegister
  <1>3. /\ posted # <<>> /\ Task.do = "register" /\ Task \in Tasks /\ InQueue(Task)
        /\ call = NoCall
        /\ ~Running("invoke") /\ ~Running("remove")
    BY <1>1, <1>2, HeadFacts
  <1>4. PICK r \in Listeners : r = Task.of /\ Task = Event("register", r)
    BY <1>3, Kinds, Zenon
  <1> DEFINE t == [do |-> "invoke", for |-> "register", of |-> r, left |-> {<<r, c>> : c \in active}]
  <1>5. t \in Invoking /\ t.do = "invoke" /\ t.for = "register" /\ t.of = r
        /\ \A x \in t.left : x[1] = r /\ x[2] \in active
    BY <1>1, <1>4 DEF Invoking, Types
  <1>6. \A c \in active : <<r, c>> \in t.left
    BY Zenon
  <1>7. /\ active' = active /\ unopened' = unopened /\ told' = told
        /\ call' = call /\ server' = server /\ errors' = errors
        /\ registrations' = [registrations EXCEPT ![r] = [in |-> TRUE, on |-> {}]]
        /\ Become(t)
    BY <1>4, Zenon DEF StartRegister
  <1> HIDE DEF t
  <1>8. /\ registrations' \in [Listeners -> [in : BOOLEAN, on : SUBSET Conns]]
        /\ registrations'[r].in /\ registrations'[r].on = {}
        /\ \A k \in Listeners : k # r => registrations'[k] = registrations[k]
    BY <1>1, <1>4, <1>7, Zenon DEF Types
  <1>9. ~registrations[r].in /\ registrations[r].on = {}
    BY <1>1, <1>3, <1>4, Zenon DEF Placed, InPlace
  <1>10. /\ posted' \in Seq(Tasks) /\ \A i \in 2 .. Len(posted') : posted'[i] \in Waiting
         /\ posted' # <<>> /\ Task' = t /\ 1 \in 1 .. Len(posted') /\ posted'[1] = t
    BY <1>1, <1>3, <1>5, <1>7, Becoming, First, Zenon
  <1>11. Running("invoke")' /\ ~Running("remove")'
    BY <1>1, <1>3, <1>5, <1>7, Becoming, Zenon
  <1>12. Types'
    BY <1>1, <1>7, <1>8, <1>10, Zenon DEF Types
  <1>13. IsFor(t, r) /\ Promised(t) = "adding" /\ IsFor(Task, r) /\ Promised(Task) = "adding"
         /\ \A l \in Listeners : IsFor(t, l) => l = r
    BY <1>3, <1>4, <1>5, Zenon DEF IsFor, Promised
  <1>14. OneTask'
    BY <1>1, <1>3, <1>5, <1>7, <1>13, BecomingOne, Zenon
  <1>15. Events'
    <2>1. \A x \in t.left : x[2] \notin unopened
      BY <1>1, <1>5, Zenon DEF Types
    <2>2. t.do # "remove"
      BY <1>5, Zenon
    <2> QED BY <1>1, <1>3, <1>5, <1>7, <2>1, <2>2, BecomingEvents, Zenon
  <1>16. Asked'
    BY <1>3, <1>5, <1>7, <1>8, <1>10, <1>11, Zenon DEF Asked
  <1>17. \A c \in Conns : (Leaves(c) => Leaves(c)') /\ (Comes(c) => Comes(c)')
    BY <1>1, <1>3, <1>5, <1>7, BecomingKeeps, Zenon
  <1>18. \A k \in Listeners : InQueue(Event("register", k))' => InQueue(Event("register", k))
    BY <1>1, <1>3, <1>5, <1>7, BecomingKeeps, Zenon
  <1>19. ASSUME InQueue(Event("register", r))' PROVE FALSE
    <2>1. PICK i \in 1 .. Len(posted') : posted'[i] = Event("register", r)
      BY <1>19, Zenon DEF InQueue
    <2>2. Event("register", r).do = "register" /\ Event("register", r).of = r
      BY EventsDiffer, Zenon
    <2>3. IsFor(posted'[i], r)
      BY <2>1, <2>2, Zenon DEF IsFor
    <2>4. i = 1
      BY <1>4, <1>10, <1>13, <1>14, <2>1, <2>3, Zenon DEF OneTask, IsFor
    <2> QED BY <1>5, <1>10, <2>1, <2>2, <2>4, Zenon
  <1>20. ASSUME NEW k \in Listeners, NEW c \in Conns PROVE Held(k, c)'
    <2>1. Held(k, c)
      BY <1>1, Zenon DEF Members
    <2>2. registrations'[k].on = registrations[k].on
      BY <1>8, <1>9, Zenon
    <2> QED BY <1>3, <1>7, <1>11, <1>17, <2>1, <2>2, Zenon DEF Held, Asks
  <1>21. ASSUME NEW k \in Listeners PROVE InPlace(k)'
    <2>1. InPlace(k)
      BY <1>1, Zenon DEF Placed
    <2>2. active \subseteq Conns /\ told[r] = "adding"
      BY <1>1, <1>3, <1>4, <1>13, HeadPromised, Zenon DEF Types
    <2>3. CASE k = r
      BY <1>6, <1>7, <1>8, <1>10, <1>11, <1>19, <2>2, <2>3, Zenon DEF InPlace
    <2>4. CASE k # r
      BY <1>3, <1>5, <1>7, <1>8, <1>10, <1>17, <1>18, <2>1, <2>2, <2>4, Zenon DEF InPlace, Serving, Asks
    <2> QED BY <2>3, <2>4, Zenon
  <1> QED BY <1>12, <1>14, <1>15, <1>16, <1>20, <1>21, Zenon DEF IInv

\* connection_added_internal: every listener is to be added on the
\* connection.
LEMMA AddedInternalOk ==
    ASSUME IInv, connection_added_internal
    PROVE  IInv'
  <1>1. Types /\ OneTask /\ Events /\ Asked /\ Placed /\ Members
    BY Zenon DEF IInv, Placed, Members
  <1>2. Running("added")
    BY Zenon DEF connection_added_internal
  <1>3. /\ posted # <<>> /\ Task.do = "added" /\ Task \in Tasks
        /\ call = NoCall
        /\ ~Running("invoke") /\ ~Running("remove")
    BY <1>1, <1>2, HeadFacts
  <1>4. PICK d \in Conns : d = Task.of
    BY <1>3, Kinds, Zenon
  <1> DEFINE t == [do |-> "invoke", for |-> "added", of |-> d,
                   left |-> {<<l, d>> : l \in {k \in Listeners : registrations[k].in}}]
  <1>5. t \in Invoking /\ t.do = "invoke" /\ t.for = "added" /\ t.of = d
        /\ \A x \in t.left : x[1] \in Listeners /\ registrations[x[1]].in /\ x[2] = d
    BY <1>4 DEF Invoking
  <1>6. \A k \in Listeners : registrations[k].in => <<k, d>> \in t.left
    BY Zenon
  <1>7. /\ active' = active /\ unopened' = unopened /\ told' = told
        /\ call' = call /\ server' = server /\ errors' = errors
        /\ registrations' = registrations
        /\ Become(t)
    BY <1>4, Zenon DEF connection_added_internal
  <1> HIDE DEF t
  <1>8. /\ posted' \in Seq(Tasks) /\ \A i \in 2 .. Len(posted') : posted'[i] \in Waiting
        /\ posted' # <<>> /\ Task' = t
    BY <1>1, <1>3, <1>5, <1>7, Becoming, Zenon
  <1>9. Running("invoke")' /\ ~Running("remove")'
    BY <1>1, <1>3, <1>5, <1>7, Becoming, Zenon
  <1>10. Types'
    BY <1>1, <1>7, <1>8, Zenon DEF Types
  <1>11. \A l \in Listeners : ~IsFor(t, l)
    BY <1>5, Zenon DEF IsFor
  <1>12. OneTask'
    BY <1>1, <1>3, <1>5, <1>7, <1>11, BecomingOne, Zenon
  <1>13. Events'
    <2>1. d \notin unopened
      BY <1>1, <1>3, <1>4, First, Zenon DEF Events
    <2>2. t.do # "remove"
      BY <1>5, Zenon
    <2> QED BY <1>1, <1>3, <1>5, <1>7, <2>1, <2>2, BecomingEvents, Zenon
  <1>14. Asked'
    BY <1>3, <1>5, <1>7, <1>8, <1>9, Zenon DEF Asked
  <1>15. /\ \A c \in Conns : Leaves(c) => Leaves(c)'
         /\ \A c \in Conns : Comes(c) => Comes(c)' \/ c = d
    BY <1>1, <1>3, <1>4, <1>5, <1>7, BecomingKeeps, Zenon
  <1>16. \A k \in Listeners : InQueue(Event("register", k))' => InQueue(Event("register", k))
    BY <1>1, <1>3, <1>5, <1>7, BecomingKeeps, Zenon
  <1>17. ASSUME NEW k \in Listeners, NEW c \in Conns PROVE Held(k, c)'
    <2>1. Held(k, c)
      BY <1>1, Zenon DEF Members
    <2> QED BY <1>3, <1>7, <1>9, <1>15, <2>1, Zenon DEF Held, Asks
  <1>18. ASSUME NEW k \in Listeners PROVE InPlace(k)'
    <2>1. InPlace(k)
      BY <1>1, Zenon DEF Placed
    <2>2. active \subseteq Conns
      BY <1>1 DEF Types
    <2> QED BY <1>3, <1>5, <1>6, <1>7, <1>8, <1>9, <1>15, <1>16, <2>1, <2>2, Zenon DEF InPlace, Serving, Asks
  <1> QED BY <1>10, <1>12, <1>13, <1>14, <1>17, <1>18, Zenon DEF IInv

\* connection_removed_internal: the records of the connection are erased.
LEMMA RemovedInternalOk ==
    ASSUME IInv, connection_removed_internal
    PROVE  IInv'
  <1>1. Types /\ OneTask /\ Events /\ Asked /\ Placed /\ Members
    BY Zenon DEF IInv, Placed, Members
  <1>2. Running("removed")
    BY DEF connection_removed_internal
  <1>3. /\ posted # <<>> /\ Task.do = "removed" /\ Task \in Tasks
        /\ call = NoCall
        /\ ~Running("invoke") /\ ~Running("remove")
    BY <1>1, <1>2, HeadFacts
  <1>4. PICK d \in Conns : d = Task.of
    BY <1>3, Kinds
  <1>5. /\ active' = active /\ unopened' = unopened /\ told' = told
        /\ call' = call /\ server' = server /\ errors' = errors /\ Done
        /\ registrations' = [l \in Listeners |-> [registrations[l] EXCEPT !.on = @ \ {d}]]
    BY <1>4, Zenon DEF connection_removed_internal
  <1>6. /\ registrations' \in [Listeners -> [in : BOOLEAN, on : SUBSET Conns]]
        /\ \A k \in Listeners : /\ registrations'[k].in = registrations[k].in
                                /\ registrations'[k].on = registrations[k].on \ {d}
    BY <1>1, <1>5, Zenon DEF Types
  <1>7. /\ posted' \in Seq(Tasks) /\ \A i \in 2 .. Len(posted') : posted'[i] \in Waiting
        /\ ~Running("invoke")' /\ ~Running("remove")'
    BY <1>1, <1>3, <1>5, Ending, Zenon
  <1>8. Types'
    BY <1>1, <1>5, <1>6, <1>7, Zenon DEF Types
  <1>9. OneTask' /\ Events'
    BY <1>1, <1>3, <1>5, EndingOne, EndingEvents, Zenon
  <1>10. Asked'
    BY <1>3, <1>5, <1>7, Zenon DEF Asked
  <1>11. /\ \A c \in Conns : Leaves(c) => Leaves(c)' \/ c = d
         /\ \A c \in Conns : Comes(c) => Comes(c)'
    BY <1>1, <1>3, <1>4, <1>5, EndingKeeps, Zenon
  <1>12. \A k \in Listeners : InQueue(Event("register", k))' => InQueue(Event("register", k))
    BY <1>1, <1>3, <1>5, EndingKeeps, Zenon
  <1>13. d \notin active
    BY <1>1, <1>3, <1>4, First, Zenon DEF Events
  <1>14. ASSUME NEW k \in Listeners, NEW c \in Conns PROVE Held(k, c)'
    <2>1. Held(k, c)
      BY <1>1, Zenon DEF Members
    <2> QED BY <1>3, <1>5, <1>6, <1>7, <1>11, <1>13, <2>1, Zenon DEF Held, Asks
  <1>15. ASSUME NEW k \in Listeners PROVE InPlace(k)'
    <2>1. InPlace(k)
      BY <1>1, Zenon DEF Placed
    <2>2. active \subseteq Conns
      BY <1>1 DEF Types
    <2> QED BY <1>3, <1>5, <1>6, <1>7, <1>11, <1>12, <2>1, <2>2, Zenon DEF InPlace, Serving, Asks
  <1> QED BY <1>8, <1>9, <1>10, <1>14, <1>15, Zenon DEF IInv

\* invoke: an add request is sent, or skipped where the listener is.
LEMMA InvokeOk ==
    ASSUME IInv, NEW l \in Listeners, NEW d \in Conns, invoke(l, d)
    PROVE  IInv'
  <1> DEFINE t == [Task EXCEPT !.left = @ \ {<<l, d>>}]
  <1>1. Types /\ OneTask /\ Events /\ Asked /\ Placed /\ Members
    BY Zenon DEF IInv, Placed, Members
  <1>2. Running("invoke") /\ call = NoCall /\ <<l, d>> \in Task.left
    BY Zenon DEF invoke
  <1>3. posted # <<>> /\ Task.do = "invoke" /\ Task \in Tasks /\ ~Running("remove")
    BY <1>1, <1>2, HeadFacts
  <1>4. Task \in Invoking
    BY <1>3, Kinds, Zenon
  <1>5. t \in Invoking /\ t.do = "invoke" /\ t.for = Task.for /\ t.of = Task.of
        /\ t.left = Task.left \ {<<l, d>>}
    BY <1>4 DEF Invoking
  <1>6. /\ active' = active /\ unopened' = unopened /\ told' = told
        /\ server' = server /\ errors' = errors /\ registrations' = registrations
        /\ call' = IF d \in registrations[l].on THEN NoCall
                   ELSE [kind |-> "add", listener |-> l, conn |-> d, answer |-> "none"]
        /\ Become(t)
    BY DEF invoke
  <1> HIDE DEF t
  <1>7. /\ call' \in Calls \cup {NoCall}
        /\ call' # NoCall => /\ d \notin registrations[l].on /\ call'.kind = "add"
                             /\ call'.listener = l /\ call'.conn = d /\ call'.answer = "none"
        /\ call' = NoCall => d \in registrations[l].on
    BY <1>6, Zenon DEF Calls, NoCall
  <1>8. /\ posted' \in Seq(Tasks) /\ \A i \in 2 .. Len(posted') : posted'[i] \in Waiting
        /\ posted' # <<>> /\ Task' = t
    BY <1>1, <1>3, <1>5, <1>6, Becoming, Zenon
  <1>9. Running("invoke")' /\ ~Running("remove")'
    BY <1>1, <1>3, <1>5, <1>6, Becoming, Zenon
  <1>10. Types'
    BY <1>1, <1>6, <1>7, <1>8, Zenon DEF Types
  <1>11. OneTask'
    <2>1. \A k \in Listeners : IsFor(t, k) => IsFor(Task, k) /\ Promised(t) = Promised(Task)
      BY <1>3, <1>5 DEF IsFor, Promised
    <2> QED BY <1>1, <1>3, <1>5, <1>6, <2>1, BecomingOne, Zenon
  <1>12. \A x \in Task.left : x[2] \notin unopened
    BY <1>1, <1>3, First, Zenon DEF Events
  <1>13. Events'
    <2>1. t.do # "remove" /\ \A x \in t.left : x[2] \notin unopened
      BY <1>5, <1>12, Zenon
    <2> QED BY <1>1, <1>3, <1>5, <1>6, <2>1, BecomingEvents, Zenon
  <1>14. Asked'
    <2>1. /\ \A x \in Task.left : registrations[x[1]].in /\ (Task.for = "register" => Task.of = x[1])
          /\ registrations[l].in /\ (Task.for = "register" => Task.of = l) /\ d \notin unopened
      BY <1>1, <1>2, <1>12, Zenon DEF Asked
    <2> QED BY <1>5, <1>6, <1>7, <1>8, <1>9, <2>1, Zenon DEF Asked
  <1>15. \A c \in Conns : (Leaves(c) => Leaves(c)') /\ (Comes(c) => Comes(c)')
    BY <1>1, <1>3, <1>5, <1>6, BecomingKeeps, Zenon
  <1>16. \A k \in Listeners : InQueue(Event("register", k))' => InQueue(Event("register", k))
    BY <1>1, <1>3, <1>5, <1>6, BecomingKeeps, Zenon
  <1>17. ASSUME NEW k \in Listeners, NEW c \in Conns PROVE Held(k, c)'
    <2>1. Held(k, c)
      BY <1>1, Zenon DEF Members
    <2>2. server[c][k] = 1 => c \in registrations[k].on
      BY <1>2, <2>1, Zenon DEF Held, Asks
    <2>3. server[c][k] \in 0 .. 1
      BY <1>1, Zenon DEF Types
    <2> QED BY <1>2, <1>3, <1>6, <1>7, <1>9, <1>15, <2>1, <2>2, <2>3 DEF Held, Asks
  <1>18. ASSUME NEW k \in Listeners PROVE InPlace(k)'
    <2>1. InPlace(k)
      BY <1>1, Zenon DEF Placed
    <2>2. active \subseteq Conns
      BY <1>1, Zenon DEF Types
    <2>3. Serving(k)' => Serving(k)
      BY <1>2, <1>5, <1>6, <1>8, Zenon DEF Serving
    <2>4. Running("invoke") /\ Task.for = "register" /\ Task.of = k => told[k] = "adding"
      BY <1>1, <1>3, HeadPromised, Zenon DEF IsFor, Promised
    <2>5. ASSUME Serving(k), k = l, d \in active, d \in registrations[l].on
          PROVE  server[d][k] = 1
      <3>1. Held(k, d)
        BY <1>1, Zenon DEF Members
      <3>2. told[k] \in {"adding", "added"}
        BY <2>4, <2>5, Zenon DEF Serving
      <3> QED BY <1>3, <2>5, <3>1, <3>2, Zenon DEF Held
    <2>6. ASSUME Serving(k), errors.add = 0, NEW c \in active
          PROVE  \/ server[c][k] = 1 \/ Comes(c)'
                 \/ <<k, c>> \in Task'.left
                 \/ Asks("add", k, c)' /\ call'.answer = "none"
      <3>1. server[c][k] = 1 \/ Comes(c) \/ <<k, c>> \in Task.left
        BY <1>2, <2>1, <2>6, Zenon DEF InPlace, Asks
      <3>2. CASE <<k, c>> = <<l, d>>
        <4>1. k = l /\ c = d
          BY <3>2, Zenon
        <4> QED BY <1>7, <2>5, <2>6, <4>1, Zenon DEF Asks
      <3>3. CASE <<k, c>> # <<l, d>>
        BY <1>5, <1>8, <1>15, <2>2, <3>1, <3>3, Zenon
      <3> QED BY <3>2, <3>3, Zenon
    <2> QED BY <1>2, <1>5, <1>6, <1>8, <1>9, <1>16, <2>1, <2>3, <2>6, Zenon DEF InPlace
  <1> QED BY <1>10, <1>11, <1>13, <1>14, <1>17, <1>18, Zenon DEF IInv

\* The queue is left alone.
LEMMA QueueSame ==
    ASSUME posted' = posted
    PROVE  /\ Task' = Task /\ Running("invoke")' = Running("invoke")
           /\ Running("remove")' = Running("remove")
           /\ \A x : InQueue(x)' = InQueue(x)
           /\ \A c \in Conns : Leaves(c)' = Leaves(c) /\ Comes(c)' = Comes(c)
           /\ (Types /\ active' \subseteq active /\ unopened' = unopened /\ Events => Events')
           /\ (OneTask /\ told' = told => OneTask')
  <1>1. Task' = Task /\ Running("invoke")' = Running("invoke") /\ Running("remove")' = Running("remove")
    BY DEF Task, Running
  <1>2. ASSUME NEW x PROVE InQueue(x)' = InQueue(x)
    BY Zenon DEF InQueue
  <1>3. ASSUME NEW c \in Conns PROVE Leaves(c)' = Leaves(c) /\ Comes(c)' = Comes(c)
    BY <1>2 DEF Leaves, Comes
  <1>4. active' \subseteq active /\ unopened' = unopened /\ Events => Events'
    BY Zenon DEF Events
  <1>5. OneTask /\ told' = told => OneTask'
    BY DEF OneTask, IsFor, Promised
  <1> QED BY <1>1, <1>2, <1>3, <1>4, <1>5, Zenon

\* A connection that is recorded has opened.
LEMMA RecordedOpened ==
    ASSUME IInv, NEW l \in Listeners, NEW c \in registrations[l].on
    PROVE  c \in Conns /\ c \notin unopened
  <1>1. c \in Conns /\ Held(l, c) /\ Types /\ Events
    BY DEF IInv, Types
  <1>2. c \in active \/ Leaves(c)
    BY <1>1, Zenon DEF Held
  <1>3. Event("removed", c).do = "removed" /\ Event("removed", c).of = c
    BY EventsDiffer, Zenon
  <1>4. Leaves(c) => c \notin unopened
    BY <1>1, <1>3, Zenon DEF Leaves, InQueue, Events
  <1> QED BY <1>1, <1>2, <1>4, Zenon DEF Types

\* The answer of a member that refuses ends the registration.
LEMMA AddFailedOk ==
    ASSUME IInv, AddAnswered,
           call.answer = "error" /\ Task.for = "register" /\ call.conn \in active
    PROVE  IInv'
  <1>1. Types /\ OneTask /\ Events /\ Asked /\ Placed /\ Members
    BY Zenon DEF IInv, Placed, Members
  <1>2. call # NoCall /\ call.kind = "add" /\ call \in Calls /\ call.listener \in Listeners
    BY <1>1, CallFacts, Zenon DEF AddAnswered
  <1>3. posted # <<>> /\ Task.do = "invoke" /\ Task.of = call.listener
        /\ registrations[call.listener].in
    BY <1>1, <1>2, Zenon DEF Asked
  <1>4. PICK l \in Listeners : l = call.listener
    BY <1>2, Zenon
  <1>5. PICK on \in SUBSET Conns : on = registrations[l].on
    BY <1>1, <1>4, Zenon DEF Types
  <1> DEFINE t == [do |-> "remove", for |-> "failed", of |-> l, left |-> on, successful |-> TRUE]
  <1>6. t \in Removing /\ t.do = "remove" /\ t.for = "failed" /\ t.of = l /\ t.left = on /\ t.successful
    BY <1>4, <1>5, Zenon DEF Removing
  <1>7. /\ active' = active /\ unopened' = unopened /\ told' = told
        /\ server' = server /\ errors' = errors /\ registrations' = registrations
        /\ call' = NoCall /\ Become(t)
    BY <1>3, <1>4, <1>5, Zenon DEF AddAnswered
  <1> HIDE DEF t
  <1>8. /\ posted' \in Seq(Tasks) /\ \A i \in 2 .. Len(posted') : posted'[i] \in Waiting
        /\ posted' # <<>> /\ Task' = t
    BY <1>1, <1>3, <1>6, <1>7, Becoming, Zenon
  <1>9. ~Running("invoke")' /\ Running("remove")'
    BY <1>1, <1>3, <1>6, <1>7, Becoming, Zenon
  <1>10. Types'
    BY <1>1, <1>7, <1>8, Zenon DEF Types
  <1>11. OneTask'
    <2>1. \A k \in Listeners : IsFor(t, k) => IsFor(Task, k) /\ Promised(t) = Promised(Task)
      BY <1>3, <1>4, <1>6, Zenon DEF IsFor, Promised
    <2> QED BY <1>1, <1>3, <1>6, <1>7, <2>1, BecomingOne, Zenon
  <1>12. \A c \in on : c \notin unopened
    BY <1>5, RecordedOpened, Zenon
  <1>13. Events'
    <2>1. t.do # "invoke"
      BY <1>6
    <2> QED BY <1>1, <1>3, <1>6, <1>7, <1>12, <2>1, BecomingEvents, Zenon
  <1>14. Asked'
    BY <1>3, <1>4, <1>6, <1>7, <1>8, <1>9, Zenon DEF Asked
  <1>15. \A c \in Conns : (Leaves(c) => Leaves(c)') /\ (Comes(c) => Comes(c)')
    BY <1>1, <1>3, <1>6, <1>7, BecomingKeeps, Zenon
  <1>16. \A k \in Listeners : InQueue(Event("register", k))' => InQueue(Event("register", k))
    BY <1>1, <1>3, <1>6, <1>7, BecomingKeeps, Zenon
  <1>17. ASSUME NEW k \in Listeners, NEW c \in Conns PROVE Held(k, c)'
    <2>1. Held(k, c)
      BY <1>1, Zenon DEF Members
    <2>2. ~Running("remove")
      BY <1>3, Zenon DEF Running, Task
    <2>3. ~(Asks("add", k, c) /\ call.answer = "ok") /\ ~Asks("add", k, c)' /\ ~Asks("remove", k, c)'
      BY <1>7, Zenon DEF Asks
    <2> QED BY <1>5, <1>6, <1>7, <1>8, <1>9, <1>15, <2>1, <2>2, <2>3, Zenon DEF Held
  <1>18. ASSUME NEW k \in Listeners PROVE InPlace(k)'
    <2>1. InPlace(k)
      BY <1>1, Zenon DEF Placed
    <2>2. errors.add > 0
      BY <1>1, <1>2, Zenon DEF Asked
    <2>3. errors.add # 0
      BY <2>2
    <2> QED BY <1>7, <1>9, <1>16, <2>1, <2>3, Zenon DEF InPlace
  <1> QED BY <1>10, <1>11, <1>13, <1>14, <1>17, <1>18, Zenon DEF IInv

\* Any other answer leaves the task as it is.
LEMMA AddRecordedOk ==
    ASSUME IInv, AddAnswered,
           ~(call.answer = "error" /\ Task.for = "register" /\ call.conn \in active)
    PROVE  IInv'
  <1>1. Types /\ OneTask /\ Events /\ Asked /\ Placed /\ Members
    BY Zenon DEF IInv, Placed, Members
  <1>2. call # NoCall /\ call.kind = "add" /\ call.answer \in {"ok", "error"}
        /\ call.listener \in Listeners /\ call.conn \in Conns
    BY <1>1, CallFacts, Zenon DEF AddAnswered
  <1>3. posted # <<>> /\ Task.do = "invoke" /\ registrations[call.listener].in
        /\ call.conn \notin registrations[call.listener].on
    BY <1>1, <1>2, Zenon DEF Asked
  <1>4. PICK l \in Listeners, d \in Conns : l = call.listener /\ d = call.conn
    BY <1>2
  <1>5. /\ active' = active /\ unopened' = unopened /\ told' = told
        /\ server' = server /\ errors' = errors /\ posted' = posted /\ call' = NoCall
        /\ registrations' = IF call.answer = "ok"
                              THEN [registrations EXCEPT ![l].on = @ \cup {d}]
                              ELSE registrations
    BY <1>4, Zenon DEF AddAnswered
  <1>6. /\ registrations' \in [Listeners -> [in : BOOLEAN, on : SUBSET Conns]]
        /\ \A k \in Listeners :
              /\ registrations'[k].in = registrations[k].in
              /\ registrations[k].on \subseteq registrations'[k].on
              /\ \A c \in registrations'[k].on :
                    c \in registrations[k].on \/ (k = l /\ c = d /\ call.answer = "ok")
        /\ call.answer = "ok" => d \in registrations'[l].on
    BY <1>1, <1>4, <1>5 DEF Types
  <1>7. /\ Task' = Task /\ Running("invoke")' = Running("invoke")
        /\ Running("remove")' = Running("remove")
        /\ \A k \in Listeners : InQueue(Event("register", k))' = InQueue(Event("register", k))
        /\ \A c \in Conns : Leaves(c)' = Leaves(c) /\ Comes(c)' = Comes(c)
        /\ Events' /\ OneTask'
    BY <1>1, <1>5, QueueSame, Zenon
  <1>8. ~Running("remove") /\ Running("invoke")
    BY <1>3, Zenon DEF Running, Task
  <1>9. Types'
    BY <1>1, <1>5, <1>6, Zenon DEF Types
  <1>10. Asked'
    <2>1. Task \in Tasks
      BY <1>1, <1>3, First, Zenon
    <2>2. Task.left \subseteq Listeners \X Conns
      BY <1>3, <2>1, Kinds, Zenon DEF Invoking
    <2>3. \A x \in Task.left : x[1] \in Listeners
      BY <2>2, Zenon
    <2> QED BY <1>1, <1>5, <1>6, <1>7, <1>8, <2>3 DEF Asked
  <1>11. ASSUME NEW k \in Listeners, NEW c \in Conns PROVE Held(k, c)'
    <2>1. Held(k, c)
      BY <1>1, Zenon DEF Members
    <2>2. call.answer = "ok" /\ d \notin active => Leaves(d)
      BY <1>1, <1>2, <1>4, Zenon DEF Asked
    <2>3. ~Asks("add", k, c)' /\ ~Asks("remove", k, c)'
      BY <1>5, Zenon DEF Asks
    <2>4. Asks("add", k, c) /\ call.answer = "ok" => c \in registrations'[k].on
      BY <1>4, <1>6, Zenon DEF Asks
    <2>5. c \in registrations'[k].on => c \in registrations[k].on \/ (Asks("add", k, c) /\ call.answer = "ok")
      BY <1>2, <1>4, <1>6, Zenon DEF Asks
    <2> QED BY <1>4, <1>5, <1>6, <1>7, <1>8, <2>1, <2>2, <2>3, <2>4, <2>5, Zenon DEF Held, Asks
  <1>12. ASSUME NEW k \in Listeners PROVE InPlace(k)'
    <2>1. InPlace(k)
      BY <1>1, Zenon DEF Placed
    <2>2. Serving(k)' = Serving(k) /\ active \subseteq Conns
      BY <1>1, <1>5, <1>7, Zenon DEF Serving, Types
    <2>3. call.answer # "none"
      BY <1>2, Zenon
    <2>4. ~registrations'[k].in => registrations'[k].on = registrations[k].on
      BY <1>3, <1>4, <1>5, <1>6, Zenon
    <2> QED BY <1>5, <1>6, <1>7, <2>1, <2>2, <2>3, <2>4, Zenon DEF InPlace
  <1> QED BY <1>7, <1>9, <1>10, <1>11, <1>12, Zenon DEF IInv

\* The add requests of a task are done.
LEMMA InvokeDoneOk ==
    ASSUME IInv, InvokeDone
    PROVE  IInv'
  <1>1. Types /\ OneTask /\ Events /\ Asked /\ Placed /\ Members
    BY Zenon DEF IInv, Placed, Members
  <1>2. Running("invoke") /\ call = NoCall /\ Task.left = {}
    BY Zenon DEF InvokeDone
  <1>3. posted # <<>> /\ Task.do = "invoke" /\ Task \in Tasks /\ ~Running("remove")
    BY <1>1, <1>2, HeadFacts
  <1>4. Task \in Invoking
    BY <1>3, Kinds, Zenon
  <1>5. /\ active' = active /\ unopened' = unopened /\ call' = call
        /\ server' = server /\ errors' = errors /\ registrations' = registrations /\ Done
        /\ told' = IF Task.for = "register" THEN [told EXCEPT ![Task.of] = "added"] ELSE told
    BY Zenon DEF InvokeDone
  <1>6. /\ told' \in [Listeners -> Told]
        /\ \A k \in Listeners : ~IsFor(Task, k) => told'[k] = told[k]
        /\ \A k \in Listeners : IsFor(Task, k) => told'[k] = "added"
    <2>1. CASE Task.for = "register"
      <3>1. Task.of \in Listeners
        BY <1>4, <2>1, Zenon DEF Invoking
      <3> QED BY <1>1, <1>3, <1>5, <2>1, <3>1, Zenon DEF Types, Told, IsFor
    <2>2. CASE Task.for # "register"
      BY <1>1, <1>3, <1>5, <2>2, Zenon DEF Types, IsFor
    <2> QED BY <2>1, <2>2, Zenon
  <1>7. /\ posted' \in Seq(Tasks) /\ \A i \in 2 .. Len(posted') : posted'[i] \in Waiting
        /\ ~Running("invoke")' /\ ~Running("remove")'
    BY <1>1, <1>3, <1>5, Ending, Zenon
  <1>8. Types'
    BY <1>1, <1>5, <1>6, <1>7, Zenon DEF Types
  <1>9. OneTask' /\ Events'
    BY <1>1, <1>3, <1>5, <1>6, EndingOne, EndingEvents, Zenon
  <1>10. Asked'
    BY <1>2, <1>5, <1>7, Zenon DEF Asked
  <1>11. \A c \in Conns : (Leaves(c) => Leaves(c)') /\ (Comes(c) => Comes(c)')
    BY <1>1, <1>3, <1>5, EndingKeeps, Zenon
  <1>12. \A k \in Listeners : InQueue(Event("register", k))' => InQueue(Event("register", k))
    BY <1>1, <1>3, <1>5, EndingKeeps, Zenon
  <1>13. \A k \in Listeners : IsFor(Task, k) =>
            told[k] = "adding" /\ Task.for = "register" /\ Task.of = k
    BY <1>1, <1>3, HeadPromised, Zenon DEF IsFor, Promised
  <1>14. ASSUME NEW k \in Listeners, NEW c \in Conns PROVE Held(k, c)'
    <2>1. Held(k, c)
      BY <1>1, Zenon DEF Members
    <2>2. told'[k] \in {"adding", "added"} => told[k] \in {"adding", "added"}
      BY <1>6, <1>13, Zenon
    <2> QED BY <1>2, <1>3, <1>5, <1>7, <1>11, <2>1, <2>2, Zenon DEF Held, Asks
  <1>15. ASSUME NEW k \in Listeners PROVE InPlace(k)'
    <2>1. InPlace(k)
      BY <1>1, Zenon DEF Placed
    <2>2. active \subseteq Conns
      BY <1>1, Zenon DEF Types
    <2>3. Serving(k)' => Serving(k)
      BY <1>2, <1>6, <1>7, <1>13, Zenon DEF Serving
    <2>4. CASE IsFor(Task, k)
      BY <1>2, <1>5, <1>6, <1>7, <1>11, <1>12, <1>13, <2>1, <2>2, <2>3, <2>4, Zenon DEF InPlace, Asks
    <2>5. CASE ~IsFor(Task, k)
      BY <1>2, <1>5, <1>6, <1>7, <1>11, <1>12, <2>1, <2>2, <2>3, <2>5, Zenon DEF InPlace, Asks
    <2> QED BY <2>4, <2>5, Zenon
  <1> QED BY <1>8, <1>9, <1>10, <1>14, <1>15, Zenon DEF IInv

\* The connections on record are to be asked to remove the listener.
LEMMA StartRemovingOk ==
    ASSUME IInv, StartDeregister, registrations[Task.of].in
    PROVE  IInv'
  <1>1. Types /\ OneTask /\ Events /\ Asked /\ Placed /\ Members
    BY Zenon DEF IInv, Placed, Members
  <1>2. Running("deregister")
    BY Zenon DEF StartDeregister
  <1>3. /\ posted # <<>> /\ Task.do = "deregister" /\ Task \in Tasks
        /\ call = NoCall
        /\ ~Running("invoke") /\ ~Running("remove")
    BY <1>1, <1>2, HeadFacts
  <1>4. PICK l \in Listeners : l = Task.of
    BY <1>3, Kinds, Zenon
  <1>5. PICK on \in SUBSET Conns : on = registrations[l].on
    BY <1>1, <1>4 DEF Types
  <1> DEFINE t == [do |-> "remove", for |-> "deregister", of |-> l, left |-> on, successful |-> TRUE]
  <1>6. t \in Removing /\ t.do = "remove" /\ t.for = "deregister" /\ t.of = l /\ t.left = on /\ t.successful
    BY <1>4, <1>5, Zenon DEF Removing
  <1>7. /\ active' = active /\ unopened' = unopened /\ told' = told
        /\ server' = server /\ errors' = errors /\ registrations' = registrations
        /\ call' = call /\ Become(t)
    BY <1>4, <1>5, Zenon DEF StartDeregister
  <1> HIDE DEF t
  <1>8. /\ posted' \in Seq(Tasks) /\ \A i \in 2 .. Len(posted') : posted'[i] \in Waiting
        /\ posted' # <<>> /\ Task' = t
    BY <1>1, <1>3, <1>6, <1>7, Becoming, Zenon
  <1>9. ~Running("invoke")' /\ Running("remove")'
    BY <1>1, <1>3, <1>6, <1>7, Becoming, Zenon
  <1>10. Types'
    BY <1>1, <1>7, <1>8, Zenon DEF Types
  <1>11. /\ IsFor(Task, l) /\ Promised(Task) = "removing"
         /\ \A k \in Listeners : IsFor(t, k) => IsFor(Task, k) /\ Promised(t) = Promised(Task)
    BY <1>3, <1>4, <1>6, Zenon DEF IsFor, Promised
  <1>12. OneTask'
    BY <1>1, <1>3, <1>6, <1>7, <1>11, BecomingOne, Zenon
  <1>13. Events'
    <2>1. t.do # "invoke" /\ \A c \in on : c \notin unopened
      BY <1>5, <1>6, RecordedOpened, Zenon
    <2> QED BY <1>1, <1>3, <1>6, <1>7, <2>1, BecomingEvents, Zenon
  <1>14. Asked'
    <2>1. registrations[l].in
      BY <1>4, Zenon
    <2> QED BY <1>3, <1>6, <1>7, <1>8, <1>9, <2>1, Zenon DEF Asked
  <1>15. \A c \in Conns : (Leaves(c) => Leaves(c)') /\ (Comes(c) => Comes(c)')
    BY <1>1, <1>3, <1>6, <1>7, BecomingKeeps, Zenon
  <1>16. \A k \in Listeners : InQueue(Event("register", k))' => InQueue(Event("register", k))
    BY <1>1, <1>3, <1>6, <1>7, BecomingKeeps, Zenon
  <1>17. ASSUME NEW k \in Listeners, NEW c \in Conns PROVE Held(k, c)'
    <2>1. Held(k, c)
      BY <1>1, Zenon DEF Members
    <2> QED BY <1>3, <1>5, <1>6, <1>7, <1>8, <1>9, <1>15, <2>1, Zenon DEF Held, Asks
  <1>18. ASSUME NEW k \in Listeners PROVE InPlace(k)'
    <2>1. InPlace(k)
      BY <1>1, Zenon DEF Placed
    <2>2. active \subseteq Conns
      BY <1>1, Zenon DEF Types
    <2> QED BY <1>3, <1>7, <1>9, <1>15, <1>16, <2>1, <2>2, Zenon DEF InPlace, Serving, Asks
  <1> QED BY <1>10, <1>12, <1>13, <1>14, <1>17, <1>18, Zenon DEF IInv

\* A listener that is not registered: the task ends.
LEMMA UnknownOk ==
    ASSUME IInv, StartDeregister, ~registrations[Task.of].in
    PROVE  IInv'
  <1>1. Types /\ OneTask /\ Events /\ Asked /\ Placed /\ Members
    BY Zenon DEF IInv, Placed, Members
  <1>2. Running("deregister")
    BY Zenon DEF StartDeregister
  <1>3. /\ posted # <<>> /\ Task.do = "deregister" /\ Task \in Tasks
        /\ call = NoCall
        /\ ~Running("invoke") /\ ~Running("remove")
    BY <1>1, <1>2, HeadFacts
  <1>4. PICK l \in Listeners : l = Task.of
    BY <1>3, Kinds, Zenon
  <1>5. /\ active' = active /\ unopened' = unopened /\ call' = call
        /\ server' = server /\ errors' = errors /\ registrations' = registrations
        /\ Done /\ told' = [told EXCEPT ![l] = "removed"]
    BY <1>4, Zenon DEF StartDeregister
  <1>6. /\ told' \in [Listeners -> Told] /\ told'[l] = "removed"
        /\ \A k \in Listeners : k # l => told'[k] = told[k]
    BY <1>1, <1>5 DEF Types, Told
  <1>7. /\ posted' \in Seq(Tasks) /\ \A i \in 2 .. Len(posted') : posted'[i] \in Waiting
        /\ ~Running("invoke")' /\ ~Running("remove")'
    BY <1>1, <1>3, <1>5, Ending, Zenon
  <1>8. Types'
    BY <1>1, <1>5, <1>6, <1>7, Zenon DEF Types
  <1>9. OneTask' /\ Events'
    <2>1. IsFor(Task, l)
      BY <1>3, <1>4, Zenon DEF IsFor
    <2> QED BY <1>1, <1>3, <1>5, <1>6, <2>1, EndingOne, EndingEvents, Zenon
  <1>10. Asked'
    BY <1>3, <1>5, <1>7, Zenon DEF Asked
  <1>11. /\ \A c \in Conns : (Leaves(c) => Leaves(c)') /\ (Comes(c) => Comes(c)')
         /\ \A k \in Listeners : InQueue(Event("register", k))' => InQueue(Event("register", k))
    BY <1>1, <1>3, <1>5, EndingKeeps, Zenon
  <1>12. ~registrations[l].in /\ registrations[l].on = {}
    BY <1>1, <1>4, Zenon DEF Placed, InPlace
  <1>13. ASSUME NEW k \in Listeners, NEW c \in Conns PROVE Held(k, c)'
    <2>1. Held(k, c)
      BY <1>1, Zenon DEF Members
    <2>2. CASE k # l
      BY <1>3, <1>5, <1>6, <1>7, <1>11, <2>1, <2>2, Zenon DEF Held, Asks
    <2>3. CASE k = l
      BY <1>3, <1>5, <1>7, <1>12, <2>1, <2>3, Zenon DEF Held, Asks
    <2> QED BY <2>2, <2>3
  <1>14. ASSUME NEW k \in Listeners PROVE InPlace(k)'
    <2>1. InPlace(k) /\ active \subseteq Conns
      BY <1>1, Zenon DEF Placed, Types
    <2>2. CASE k # l
      BY <1>3, <1>5, <1>6, <1>7, <1>11, <2>1, <2>2, Zenon DEF InPlace, Serving, Asks
    <2>3. CASE k = l
      <3>1. told'[k] \notin {"new", "added", "kept"}
        BY <1>6, <2>3
      <3> QED BY <1>5, <1>7, <1>12, <2>1, <2>3, <3>1, Zenon DEF InPlace, Serving
    <2> QED BY <2>2, <2>3
  <1> QED BY <1>8, <1>9, <1>10, <1>13, <1>14, Zenon DEF IInv

\* deregister_listener_internal starts.
LEMMA StartDeregisterOk ==
    ASSUME IInv, StartDeregister
    PROVE  IInv'
  BY StartRemovingOk, UnknownOk, Zenon

\* A remove request is sent.
LEMMA InvokeRemoveOk ==
    ASSUME IInv, NEW d \in Conns, InvokeRemove(d)
    PROVE  IInv'
  <1> DEFINE t == [Task EXCEPT !.left = @ \ {d}]
  <1>1. Types /\ OneTask /\ Events /\ Asked /\ Placed /\ Members
    BY Zenon DEF IInv, Placed, Members
  <1>2. Running("remove") /\ call = NoCall /\ d \in Task.left
    BY Zenon DEF InvokeRemove
  <1>3. posted # <<>> /\ Task.do = "remove" /\ Task \in Tasks /\ ~Running("invoke")
    BY <1>1, <1>2, HeadFacts
  <1>4. Task \in Removing /\ Task.of \in Listeners
    BY <1>3, Kinds, Zenon DEF Removing
  <1>5. t \in Removing /\ t.do = "remove" /\ t.for = Task.for /\ t.of = Task.of
        /\ t.left = Task.left \ {d} /\ t.successful = Task.successful
    BY <1>4 DEF Removing
  <1>6. /\ active' = active /\ unopened' = unopened /\ told' = told
        /\ server' = server /\ errors' = errors /\ registrations' = registrations
        /\ call' = [kind |-> "remove", listener |-> Task.of, conn |-> d, answer |-> "none"]
        /\ Become(t)
    BY DEF InvokeRemove
  <1> HIDE DEF t
  <1>7. /\ call' \in Calls /\ call' # NoCall /\ call'.kind = "remove" /\ call'.listener = Task.of
        /\ call'.conn = d /\ call'.answer = "none"
    BY <1>4, <1>6, Zenon DEF Calls, NoCall
  <1>8. /\ posted' \in Seq(Tasks) /\ \A i \in 2 .. Len(posted') : posted'[i] \in Waiting
        /\ posted' # <<>> /\ Task' = t
    BY <1>1, <1>3, <1>5, <1>6, Becoming, Zenon
  <1>9. ~Running("invoke")' /\ Running("remove")'
    BY <1>1, <1>3, <1>5, <1>6, Becoming, Zenon
  <1>10. Types'
    BY <1>1, <1>6, <1>7, <1>8, Zenon DEF Types
  <1>11. OneTask'
    <2>1. \A k \in Listeners : IsFor(t, k) => IsFor(Task, k) /\ Promised(t) = Promised(Task)
      BY <1>3, <1>5, Zenon DEF IsFor, Promised
    <2> QED BY <1>1, <1>3, <1>5, <1>6, <2>1, BecomingOne, Zenon
  <1>12. \A c \in Task.left : c \notin unopened
    BY <1>1, <1>3, First, Zenon DEF Events
  <1>13. Events'
    <2>1. t.do # "invoke" /\ \A c \in t.left : c \notin unopened
      BY <1>5, <1>12, Zenon
    <2> QED BY <1>1, <1>3, <1>5, <1>6, <2>1, BecomingEvents, Zenon
  <1>14. Asked'
    BY <1>1, <1>2, <1>5, <1>6, <1>7, <1>8, <1>9, <1>12, Zenon DEF Asked
  <1>15. \A c \in Conns : (Leaves(c) => Leaves(c)') /\ (Comes(c) => Comes(c)')
    BY <1>1, <1>3, <1>5, <1>6, BecomingKeeps, Zenon
  <1>16. \A k \in Listeners : InQueue(Event("register", k))' => InQueue(Event("register", k))
    BY <1>1, <1>3, <1>5, <1>6, BecomingKeeps, Zenon
  <1>17. ASSUME NEW k \in Listeners, NEW c \in Conns PROVE Held(k, c)'
    <2>1. Held(k, c)
      BY <1>1, Zenon DEF Members
    <2> QED BY <1>2, <1>5, <1>6, <1>7, <1>8, <1>9, <1>15, <2>1, Zenon DEF Held, Asks
  <1>18. ASSUME NEW k \in Listeners PROVE InPlace(k)'
    <2>1. InPlace(k)
      BY <1>1, Zenon DEF Placed
    <2>2. active \subseteq Conns
      BY <1>1 DEF Types
    <2> QED BY <1>2, <1>3, <1>6, <1>9, <1>15, <1>16, <2>1, <2>2, Zenon DEF InPlace, Serving, Asks
  <1> QED BY <1>10, <1>11, <1>13, <1>14, <1>17, <1>18, Zenon DEF IInv

\* The answer of a remove request.
LEMMA RemoveAnsweredOk ==
    ASSUME IInv, RemoveAnswered
    PROVE  IInv'
  <1> DEFINE fails == call.answer = "error" /\ call.conn \in active
             t == [Task EXCEPT !.successful = @ /\ ~fails]
  <1>1. Types /\ OneTask /\ Events /\ Asked /\ Placed /\ Members
    BY Zenon DEF IInv, Placed, Members
  <1>2. call # NoCall /\ call.kind = "remove" /\ call.answer \in {"ok", "error"}
        /\ call.listener \in Listeners /\ call.conn \in Conns
    BY <1>1, CallFacts DEF RemoveAnswered
  <1>3. posted # <<>> /\ Task.do = "remove" /\ Task.of = call.listener
    BY <1>1, <1>2, Zenon DEF Asked
  <1>4. Running("remove") /\ ~Running("invoke")
    BY <1>3, Zenon DEF Running, Task
  <1>5. Task \in Removing
    BY <1>1, <1>3, First, Kinds, Zenon
  <1>6. t \in Removing /\ t.do = "remove" /\ t.for = Task.for /\ t.of = Task.of
        /\ t.left = Task.left /\ t.successful = (Task.successful /\ ~fails)
    BY <1>5, Zenon DEF Removing
  <1>7. /\ active' = active /\ unopened' = unopened /\ told' = told
        /\ server' = server /\ errors' = errors /\ registrations' = registrations
        /\ call' = NoCall /\ Become(t)
    BY Zenon DEF RemoveAnswered
  <1>8. fails => errors.remove > 0
    BY <1>1, <1>2, Zenon DEF Asked
  <1> HIDE DEF t
  <1>9. /\ posted' \in Seq(Tasks) /\ \A i \in 2 .. Len(posted') : posted'[i] \in Waiting
        /\ posted' # <<>> /\ Task' = t
    BY <1>1, <1>3, <1>6, <1>7, Becoming, Zenon
  <1>10. ~Running("invoke")' /\ Running("remove")'
    BY <1>1, <1>3, <1>6, <1>7, Becoming, Zenon
  <1>11. Types'
    BY <1>1, <1>7, <1>9, Zenon DEF Types
  <1>12. OneTask'
    <2>1. \A k \in Listeners : IsFor(t, k) => IsFor(Task, k) /\ Promised(t) = Promised(Task)
      BY <1>3, <1>6, Zenon DEF IsFor, Promised
    <2> QED BY <1>1, <1>3, <1>6, <1>7, <2>1, BecomingOne, Zenon
  <1>13. Events'
    <2>1. t.do # "invoke" /\ \A c \in t.left : c \notin unopened
      BY <1>1, <1>3, <1>6, First, Zenon DEF Events
    <2> QED BY <1>1, <1>3, <1>6, <1>7, <2>1, BecomingEvents, Zenon
  <1>14. Asked'
    BY <1>1, <1>4, <1>6, <1>7, <1>8, <1>9, <1>10, Zenon DEF Asked
  <1>15. \A c \in Conns : (Leaves(c) => Leaves(c)') /\ (Comes(c) => Comes(c)')
    BY <1>1, <1>3, <1>6, <1>7, BecomingKeeps, Zenon
  <1>16. \A k \in Listeners : InQueue(Event("register", k))' => InQueue(Event("register", k))
    BY <1>1, <1>3, <1>6, <1>7, BecomingKeeps, Zenon
  <1>17. ASSUME NEW k \in Listeners, NEW c \in Conns PROVE Held(k, c)'
    <2>1. Held(k, c)
      BY <1>1, Zenon DEF Members
    <2>2. ~Asks("add", k, c) /\ ~Asks("add", k, c)' /\ ~Asks("remove", k, c)'
      BY <1>2, <1>7, Zenon DEF Asks
    <2>3. Asks("remove", k, c) /\ call.answer # "ok" /\ c \in active => fails
      BY <1>2, Zenon DEF Asks
    <2> QED BY <1>4, <1>6, <1>7, <1>9, <1>10, <1>15, <2>1, <2>2, <2>3, Zenon DEF Held
  <1>18. ASSUME NEW k \in Listeners PROVE InPlace(k)'
    <2>1. InPlace(k)
      BY <1>1, Zenon DEF Placed
    <2>2. active \subseteq Conns
      BY <1>1 DEF Types
    <2> QED BY <1>2, <1>4, <1>7, <1>10, <1>15, <1>16, <2>1, <2>2, Zenon DEF InPlace, Serving, Asks
  <1> QED BY <1>11, <1>12, <1>13, <1>14, <1>17, <1>18, Zenon DEF IInv

\* The remove requests of a task are done.
LEMMA RemoveDoneOk ==
    ASSUME IInv, RemoveDone
    PROVE  IInv'
  <1>1. Types /\ OneTask /\ Events /\ Asked /\ Placed /\ Members
    BY Zenon DEF IInv, Placed, Members
  <1>2. Running("remove") /\ call = NoCall /\ Task.left = {}
    BY Zenon DEF RemoveDone
  <1>3. posted # <<>> /\ Task.do = "remove" /\ Task \in Tasks /\ ~Running("invoke")
    BY <1>1, <1>2, HeadFacts
  <1>4. Task \in Removing
    BY <1>3, Kinds, Zenon
  <1>5. PICK l \in Listeners : l = Task.of
    BY <1>4 DEF Removing
  <1>6. registrations[l].in /\ (~Task.successful => errors.remove > 0)
    BY <1>1, <1>2, <1>5, Zenon DEF Asked
  <1>7. /\ active' = active /\ unopened' = unopened /\ call' = call
        /\ server' = server /\ errors' = errors /\ Done
        /\ registrations' = IF Task.successful THEN [registrations EXCEPT ![l] = Absent]
                            ELSE registrations
        /\ told' = [told EXCEPT ![l] = IF Task.for = "failed" THEN "failed"
                                       ELSE IF Task.successful THEN "removed" ELSE "kept"]
    BY <1>5, Zenon DEF RemoveDone
  <1>8. /\ registrations' \in [Listeners -> [in : BOOLEAN, on : SUBSET Conns]]
        /\ \A k \in Listeners : k # l => registrations'[k] = registrations[k]
        /\ Task.successful => ~registrations'[l].in /\ registrations'[l].on = {}
        /\ ~Task.successful => registrations'[l] = registrations[l]
    BY <1>1, <1>7, Zenon DEF Types, Absent
  <1>9. /\ told' \in [Listeners -> Told]
        /\ \A k \in Listeners : k # l => told'[k] = told[k]
        /\ told'[l] \in {"failed", "removed", "kept"}
        /\ told'[l] = "removed" => Task.successful
        /\ told'[l] = "kept" => ~Task.successful
    BY <1>1, <1>7, Zenon DEF Types, Told
  <1>10. /\ posted' \in Seq(Tasks) /\ \A i \in 2 .. Len(posted') : posted'[i] \in Waiting
         /\ ~Running("invoke")' /\ ~Running("remove")'
    BY <1>1, <1>3, <1>7, Ending, Zenon
  <1>11. Types'
    BY <1>1, <1>7, <1>8, <1>9, <1>10, Zenon DEF Types
  <1>12. OneTask' /\ Events'
    <2>1. IsFor(Task, l)
      BY <1>3, <1>5, Zenon DEF IsFor
    <2> QED BY <1>1, <1>3, <1>7, <1>9, <2>1, EndingOne, EndingEvents, Zenon
  <1>13. Asked'
    BY <1>2, <1>7, <1>10, Zenon DEF Asked
  <1>14. \A c \in Conns : (Leaves(c) => Leaves(c)') /\ (Comes(c) => Comes(c)')
    BY <1>1, <1>3, <1>7, EndingKeeps, Zenon
  <1>15. \A k \in Listeners : InQueue(Event("register", k))' => InQueue(Event("register", k))
    BY <1>1, <1>3, <1>7, EndingKeeps, Zenon
  <1>16. ASSUME NEW k \in Listeners, NEW c \in Conns PROVE Held(k, c)'
    <2>1. Held(k, c)
      BY <1>1, Zenon DEF Members
    <2>2. ~Asks("add", k, c) /\ ~Asks("add", k, c)' /\ ~Asks("remove", k, c) /\ ~Asks("remove", k, c)'
      BY <1>2, <1>7, Zenon DEF Asks
    <2>3. CASE k # l
      BY <1>5, <1>7, <1>8, <1>9, <1>10, <1>14, <2>1, <2>2, <2>3, Zenon DEF Held
    <2>4. CASE k = l /\ Task.successful
      BY <1>2, <1>5, <1>7, <1>8, <1>10, <2>1, <2>2, <2>4, Zenon DEF Held
    <2>5. CASE k = l /\ ~Task.successful
      <3>1. errors.remove # 0
        BY <1>6, <2>5
      <3> QED BY <1>7, <1>8, <1>9, <1>10, <1>14, <2>1, <2>2, <2>5, <3>1, Zenon DEF Held
    <2> QED BY <2>3, <2>4, <2>5, Zenon
  <1>17. ASSUME NEW k \in Listeners PROVE InPlace(k)'
    <2>1. InPlace(k)
      BY <1>1, Zenon DEF Placed
    <2>2. active \subseteq Conns
      BY <1>1 DEF Types
    <2>3. CASE k # l
      BY <1>2, <1>3, <1>7, <1>8, <1>9, <1>10, <1>14, <1>15, <2>1, <2>2, <2>3, Zenon DEF InPlace, Serving, Asks
    <2>4. CASE k = l
      <3>1. ~InQueue(Event("register", k))'
        BY <1>6, <1>15, <2>1, <2>4, Zenon DEF InPlace
      <3>2. ~Serving(k)'
        BY <1>9, <1>10, <2>4, Zenon DEF Serving
      <3>3. ~Task.successful => errors.remove # 0
        BY <1>6
      <3>4. told'[l] \notin {"new", "added", "removing"} /\ (told'[l] = "failed" => told'[l] # "removed")
        BY <1>9
      <3> QED BY <1>6, <1>7, <1>8, <1>9, <1>10, <2>4, <3>1, <3>2, <3>3, <3>4, Zenon DEF InPlace
    <2> QED BY <2>3, <2>4
  <1> QED BY <1>11, <1>12, <1>13, <1>16, <1>17, Zenon DEF IInv

-----------------------------------------------------------------------------
\* The member

\* The member of the connection serves the request.
LEMMA ServeOk ==
    ASSUME IInv, Serve
    PROVE  IInv'
  <1>1. Types /\ OneTask /\ Events /\ Asked /\ Placed /\ Members
    BY Zenon DEF IInv, Placed, Members
  <1>2. call # NoCall /\ call.answer = "none" /\ call \in Calls /\ call.kind \in {"add", "remove"}
        /\ call.listener \in Listeners /\ call.conn \in Conns /\ call.conn \in active
    BY <1>1, CallFacts, Zenon DEF Serve
  <1>3. PICK l \in Listeners, d \in Conns : l = call.listener /\ d = call.conn
    BY <1>2, Zenon
  <1>4. /\ active' = active /\ unopened' = unopened /\ told' = told
        /\ posted' = posted /\ errors' = errors /\ registrations' = registrations
        /\ call' = [call EXCEPT !.answer = "ok"]
        /\ server' = [server EXCEPT ![d][l] =
                         IF call.kind = "add" THEN @ + 1 ELSE IF @ = 0 THEN 0 ELSE @ - 1]
    BY <1>3, Zenon DEF Serve
  <1>5. /\ call' \in Calls /\ call' # NoCall /\ call'.kind = call.kind
        /\ call'.listener = l /\ call'.conn = d /\ call'.answer = "ok"
    BY <1>2, <1>3, <1>4, Zenon DEF Calls, NoCall
  <1>6. server[d][l] \in 0 .. 1 /\ (call.kind = "add" => server[d][l] = 0)
    <2>1. Held(l, d)
      BY <1>1, Zenon DEF Members
    <2> QED BY <1>1, <1>2, <1>3, <2>1, Zenon DEF Held, Asks, Types
  <1>7. /\ server' \in [Conns -> [Listeners -> 0 .. 1]]
        /\ server'[d][l] = (IF call.kind = "add" THEN 1 ELSE 0)
        /\ \A k \in Listeners, c \in Conns : k # l \/ c # d => server'[c][k] = server[c][k]
    <2>1. server'[d][l] = (IF call.kind = "add" THEN 1 ELSE 0)
      BY <1>1, <1>4, <1>6 DEF Types
    <2> QED BY <1>1, <1>4, <1>6, <2>1 DEF Types
  <1>8. /\ Task' = Task /\ Running("invoke")' = Running("invoke")
        /\ Running("remove")' = Running("remove")
        /\ \A k \in Listeners : InQueue(Event("register", k))' = InQueue(Event("register", k))
        /\ \A c \in Conns : Leaves(c)' = Leaves(c) /\ Comes(c)' = Comes(c)
        /\ Events' /\ OneTask'
    BY <1>1, <1>4, QueueSame, Zenon
  <1>9. Types'
    BY <1>1, <1>4, <1>5, <1>7, Zenon DEF Types
  <1>10. Asked'
    BY <1>1, <1>2, <1>3, <1>4, <1>5, <1>8 DEF Asked
  <1>11. ASSUME NEW k \in Listeners, NEW c \in Conns PROVE Held(k, c)'
    <2>1. Held(k, c)
      BY <1>1, Zenon DEF Members
    <2>2. CASE k # l \/ c # d
      BY <1>2, <1>3, <1>4, <1>5, <1>7, <1>8, <2>1, <2>2, Zenon DEF Held, Asks
    <2>3. CASE k = l /\ c = d /\ call.kind = "add"
      <3>1. c \notin registrations[k].on /\ ~Running("remove")
        BY <1>1, <1>2, <1>3, <2>3, Zenon DEF Asked, Running, Task
      <3> QED BY <1>2, <1>3, <1>4, <1>5, <1>7, <1>8, <2>3, <3>1, Zenon DEF Held, Asks
    <2>4. CASE k = l /\ c = d /\ call.kind = "remove"
      <3>1. Running("remove") /\ Task.of = l
        BY <1>1, <1>2, <1>3, <2>4, Zenon DEF Asked, Running, Task
      <3>2. server'[c][k] = 0 /\ 0 # 1 /\ "remove" # "add"
        BY <1>7, <2>4
      <3> QED BY <1>2, <1>3, <1>4, <1>5, <1>8, <2>1, <2>4, <3>1, <3>2, Zenon DEF Held, Asks
    <2> QED BY <1>2, <2>2, <2>3, <2>4, Zenon
  <1>12. ASSUME NEW k \in Listeners PROVE InPlace(k)'
    <2>1. InPlace(k)
      BY <1>1, Zenon DEF Placed
    <2>2. Serving(k)' = Serving(k) /\ active \subseteq Conns
      BY <1>1, <1>4, <1>8, Zenon DEF Serving, Types
    <2>3. CASE call.kind = "add"
      <3>1. server'[d][l] = 1 /\ \A c \in Conns : server[c][k] = 1 => server'[c][k] = 1
        BY <1>7, <2>3, Zenon
      <3> QED BY <1>2, <1>3, <1>4, <1>5, <1>8, <2>1, <2>2, <2>3, <3>1, ZenonT(30) DEF InPlace, Asks
    <2>4. CASE call.kind = "remove"
      <3>1. posted # <<>> /\ Task.do = "remove" /\ Task.of = l
        BY <1>1, <1>2, <1>3, <2>4, Zenon DEF Asked
      <3>2. told[l] \in {"adding", "removing"} /\ ~Running("invoke")
        BY <1>1, <1>3, <3>1, HeadPromised, Zenon DEF IsFor, Promised, Running, Task
      <3>3. Serving(k) => k # l
        BY <3>2, Zenon DEF Serving
      <3> QED BY <1>2, <1>3, <1>4, <1>5, <1>7, <1>8, <2>1, <2>2, <2>4, <3>2, <3>3 DEF InPlace, Asks
    <2> QED BY <1>2, <2>3, <2>4, Zenon
  <1> QED BY <1>8, <1>9, <1>10, <1>11, <1>12, Zenon DEF IInv

\* The request fails at the member or with its connection.
LEMMA RefuseOk ==
    ASSUME IInv, Refuse
    PROVE  IInv'
  <1>1. Types /\ OneTask /\ Events /\ Asked /\ Placed /\ Members
    BY Zenon DEF IInv, Placed, Members
  <1>2. call # NoCall /\ call.answer = "none" /\ call \in Calls /\ call.kind \in {"add", "remove"}
        /\ call.listener \in Listeners /\ call.conn \in Conns
    BY <1>1, CallFacts, Zenon DEF Refuse
  <1>3. /\ active' = active /\ unopened' = unopened /\ told' = told
        /\ posted' = posted /\ server' = server /\ registrations' = registrations
        /\ call' = [call EXCEPT !.answer = "error"]
        /\ errors' = IF call.conn \in active THEN [errors EXCEPT ![call.kind] = @ + 1] ELSE errors
    BY DEF Refuse
  <1>4. /\ call' \in Calls /\ call' # NoCall /\ call'.kind = call.kind
        /\ call'.listener = call.listener /\ call'.conn = call.conn /\ call'.answer = "error"
    BY <1>2, <1>3, Zenon DEF Calls, NoCall
  <1>5. /\ errors' \in [add : Nat, remove : Nat]
        /\ errors'.add = 0 => errors.add = 0
        /\ errors'.remove = 0 => errors.remove = 0
        /\ errors.remove > 0 => errors'.remove > 0
        /\ call.conn \in active => errors'[call.kind] > 0
        /\ call.conn \in active /\ call.kind = "add" => errors'.add # 0
    BY <1>1, <1>2, <1>3 DEF Types
  <1>6. /\ Task' = Task /\ Running("invoke")' = Running("invoke")
        /\ Running("remove")' = Running("remove")
        /\ \A k \in Listeners : InQueue(Event("register", k))' = InQueue(Event("register", k))
        /\ \A c \in Conns : Leaves(c)' = Leaves(c) /\ Comes(c)' = Comes(c)
        /\ Events' /\ OneTask'
    BY <1>1, <1>3, QueueSame, Zenon
  <1>7. Types'
    BY <1>1, <1>3, <1>4, <1>5, Zenon DEF Types
  <1>8. Asked'
    BY <1>1, <1>2, <1>3, <1>4, <1>5, <1>6 DEF Asked
  <1>9. ASSUME NEW k \in Listeners, NEW c \in Conns PROVE Held(k, c)'
    <2>1. Held(k, c)
      BY <1>1, Zenon DEF Members
    <2> QED BY <1>2, <1>3, <1>4, <1>5, <1>6, <2>1, Zenon DEF Held, Asks
  <1>10. ASSUME NEW k \in Listeners PROVE InPlace(k)'
    <2>1. InPlace(k)
      BY <1>1, Zenon DEF Placed
    <2>2. Serving(k)' = Serving(k) /\ active \subseteq Conns
      BY <1>1, <1>3, <1>6, Zenon DEF Serving, Types
    <2> QED BY <1>2, <1>3, <1>4, <1>5, <1>6, <2>1, <2>2, Zenon DEF InPlace, Asks
  <1> QED BY <1>6, <1>7, <1>8, <1>9, <1>10, Zenon DEF IInv

-----------------------------------------------------------------------------
\* The theorems

\* The invariant holds before the first call.
LEMMA InitOk == Init => IInv
  <1> SUFFICES ASSUME Init PROVE IInv
    BY Zenon
  <1>1. /\ active = {} /\ unopened = Conns /\ posted = <<>> /\ call = NoCall
        /\ registrations = [l \in Listeners |-> Absent]
        /\ server = [c \in Conns |-> [l \in Listeners |-> 0]]
        /\ told = [l \in Listeners |-> "new"]
        /\ errors = [add |-> 0, remove |-> 0]
    BY Zenon DEF Init
  <1>2. Len(posted) = 0 /\ 1 .. Len(posted) = {} /\ 2 .. Len(posted) = {} /\ posted \in Seq(Tasks)
    BY <1>1
  <1>3. registrations \in [Listeners -> [in : BOOLEAN, on : SUBSET Conns]]
        /\ \A l \in Listeners : ~registrations[l].in /\ registrations[l].on = {}
    BY <1>1, Zenon DEF Absent
  <1>4. server \in [Conns -> [Listeners -> 0 .. 1]]
        /\ \A c \in Conns, l \in Listeners : server[c][l] = 0
    BY <1>1
  <1>5. told \in [Listeners -> Told] /\ \A l \in Listeners : told[l] = "new"
    BY <1>1, Zenon DEF Told
  <1>6. ~Running("invoke") /\ ~Running("remove")
    BY <1>1, Zenon DEF Running
  <1>7. Types
    BY <1>1, <1>2, <1>3, <1>4, <1>5, Zenon DEF Types
  <1>8. OneTask /\ Events
    BY <1>2, Zenon DEF OneTask, Events
  <1>9. Asked
    BY <1>1, <1>6, Zenon DEF Asked
  <1>10. ASSUME NEW l \in Listeners PROVE InPlace(l)
    BY <1>1, <1>3, <1>5, <1>6, Zenon DEF InPlace, Serving
  <1>11. ASSUME NEW l \in Listeners, NEW c \in Conns PROVE Held(l, c)
    BY <1>1, <1>3, <1>4, <1>6 DEF Held, Asks
  <1> QED BY <1>7, <1>8, <1>9, <1>10, <1>11, Zenon DEF IInv

\* A step that changes nothing.
LEMMA StutterOk ==
    ASSUME IInv, UNCHANGED vars
    PROVE  IInv'
  <1>1. /\ active' = active /\ unopened' = unopened /\ posted' = posted
        /\ registrations' = registrations /\ call' = call /\ server' = server
        /\ told' = told /\ errors' = errors
    BY Zenon DEF vars
  <1>2. /\ Task' = Task /\ Running("invoke")' = Running("invoke")
        /\ Running("remove")' = Running("remove")
        /\ \A k \in Listeners : InQueue(Event("register", k))' = InQueue(Event("register", k))
        /\ \A c \in Conns : Leaves(c)' = Leaves(c) /\ Comes(c)' = Comes(c)
        /\ Events' /\ OneTask'
    BY <1>1, QueueSame, Zenon DEF IInv
  <1>3. Types'
    BY <1>1, Zenon DEF IInv, Types
  <1>4. Asked'
    BY <1>1, <1>2, CallFacts, Zenon DEF IInv, Asked
  <1>5. ASSUME NEW l \in Listeners, NEW c \in Conns PROVE Held(l, c)'
    <2>1. Held(l, c)
      BY Zenon DEF IInv
    <2> QED BY <1>1, <1>2, <2>1, Zenon DEF Held, Asks
  <1>6. ASSUME NEW l \in Listeners PROVE InPlace(l)'
    <2>1. InPlace(l)
      BY Zenon DEF IInv
    <2>2. active \subseteq Conns
      BY DEF IInv, Types
    <2> QED BY <1>1, <1>2, <2>1, <2>2, Zenon DEF InPlace, Serving, Asks
  <1> QED BY <1>2, <1>3, <1>4, <1>5, <1>6, Zenon DEF IInv

\* The steps of the registration strand.
LEMMA ThreadOk ==
    ASSUME IInv, ThreadStep
    PROVE  IInv'
  <1>1. CASE AddAnswered
    BY <1>1, AddFailedOk, AddRecordedOk, Zenon
  <1> QED BY <1>1, StartRegisterOk, AddedInternalOk, RemovedInternalOk, InvokeOk, InvokeDoneOk,
             StartDeregisterOk, InvokeRemoveOk, RemoveAnsweredOk, RemoveDoneOk, Zenon DEF ThreadStep

\* The records of the registry, the tasks of the strand, the request under
\* way and what the members hold agree in every state.
THEOREM Invariant == Spec => []IInv
  <1>1. IInv /\ [Next]_vars => IInv'
    BY RegisterOk, DeregisterOk, AddedOk, RemovedOk, ThreadOk, ServeOk, RefuseOk, StutterOk, Zenon
       DEF Next
  <1> QED BY <1>1, InitOk, PTL DEF Spec

\* TypeOK, which also says that the registration thread waits for an answer only inside a task.
THEOREM TypeCorrect == Spec => []TypeOK
  <1>1. IInv => TypeOK
    <2> SUFFICES ASSUME IInv PROVE TypeOK
      OBVIOUS
    <2>1. Types /\ Asked
      BY Zenon DEF IInv
    <2>2. call # NoCall => Running("invoke") \/ Running("remove")
      BY <2>1, CallFacts, Zenon DEF Asked, Running, Task
    <2>3. \A c \in Conns, l \in Listeners : server[c][l] \in 0..1
      BY <2>1 DEF Types
    <2> QED BY <2>1, <2>2, <2>3, Zenon DEF TypeOK, Types, Told
  <1> QED BY <1>1, Invariant, PTL

\* However calls of register_listener and deregister_listener, connections
\* that open and close and requests that fail interleave: with nothing left to
\* do, the connections recorded for a listener cover the members that hold it,
\* and are exactly those unless a removal was refused; and if no live member
\* refused an add, a listener told added is on every active connection.
THEOREM RegisteredInPlace == Spec => []ListenersInPlace
  <1>1. IInv => ListenersInPlace
    <2> DEFINE served(l) == {c \in Conns : server[c][l] = 1}
    <2> SUFFICES ASSUME IInv, Quiet, NEW l \in Listeners
                 PROVE  /\ served(l) \subseteq registrations[l].on
                        /\ errors.remove = 0 => registrations[l].on = served(l)
                        /\ errors.add = 0 /\ told[l] = "added" => active \subseteq served(l)
      BY Zenon DEF ListenersInPlace
    <2>1. posted = <<>> /\ Len(posted) = 0 /\ 1 .. Len(posted) = {}
      BY DEF Quiet
    <2>2. Types /\ Asked /\ InPlace(l) /\ \A c \in Conns : Held(l, c)
      BY Zenon DEF IInv
    <2>3. call = NoCall /\ ~Running("invoke") /\ ~Running("remove")
      BY <2>1, <2>2, Zenon DEF Asked, Running
    <2>4. \A c \in Conns : ~Leaves(c) /\ ~Comes(c)
      BY <2>1, Zenon DEF Leaves, Comes, InQueue
    <2>5. active \subseteq Conns /\ registrations[l].on \subseteq Conns
      BY <2>2 DEF Types
    <2>6. \A c \in Conns : server[c][l] = 1 => c \in registrations[l].on
      BY <2>2, <2>3, Zenon DEF Held, Asks
    <2>7. errors.remove = 0 => \A c \in registrations[l].on : server[c][l] = 1
      BY <2>2, <2>3, <2>4, <2>5, Zenon DEF Held
    <2>8. errors.add = 0 /\ told[l] = "added" => \A c \in active : server[c][l] = 1
      BY <2>2, <2>3, <2>4, <2>5, Zenon DEF InPlace, Serving, Asks
    <2> QED BY <2>5, <2>6, <2>7, <2>8, Zenon
  <1> QED BY <1>1, Invariant, PTL

\* A listener whose deregister_listener returned true, or whose
\* register_listener threw and no clean-up was refused, is on no member.
THEOREM GoneIsGone == Spec => []GoneMeansGone
  <1>1. IInv => GoneMeansGone
    <2> SUFFICES ASSUME IInv, NEW l \in Listeners, NEW c \in Conns,
                        told[l] = "removed" \/ (told[l] = "failed" /\ errors.remove = 0)
                 PROVE  server[c][l] = 0
      BY DEF GoneMeansGone
    <2>1. Types /\ Asked /\ InPlace(l) /\ Held(l, c)
      BY Zenon DEF IInv
    <2>2. ~registrations[l].in /\ registrations[l].on = {}
      BY <2>1, Zenon DEF InPlace
    <2>3. ~Asks("add", l, c)
      BY <2>1, <2>2, Zenon DEF Asks, Asked
    <2>4. server[c][l] # 1 /\ server[c][l] \in 0 .. 1
      BY <2>1, <2>2, <2>3, ZenonT(30) DEF Held, Types
    <2> QED BY <2>4
  <1> QED BY <1>1, Invariant, PTL

-----------------------------------------------------------------------------
(***************************************************************************)
(* The listener of a reliable topic.                                       *)
(***************************************************************************)
CONSTANTS Capacity, batch_size_, MaxMessages, MaxFaults

VARIABLES
    ring_head, items, published, ringLost, loss_tolerant, addOne,
    stored, doing, sequence_, cancelled_, batch, next_sequence,
    registered, removing, received, faults

\* The runner of a reliable topic's listener.
Topic == INSTANCE ReliableTopic

\* The number of a message is its sequence plus one, plus the messages of the
\* ringbuffers that were lost.
Topicshift == published - (ring_head + Len(items))

\* The message the listener was called with last.
Topicnewest == IF received = <<>> THEN 0 ELSE received[Len(received)]

\* A listener that resumes from the stored sequence may get that message again.
Topicagain == IF addOne THEN 0 ELSE 1

\* No message may be missed.
TopicGapless == ~loss_tolerant /\ ~addOne /\ ~ringLost

\* A ringbuffer and a batch hold at least one message.
TopicSizes == Capacity \in Nat \ {0} /\ batch_size_ \in Nat \ {0}

\* The types of the state, with the conditions on the constants.
TopicTypes ==
    /\ TopicSizes
    /\ ring_head \in Nat /\ items \in Seq(Nat) /\ published \in Nat
    /\ loss_tolerant \in BOOLEAN /\ addOne \in BOOLEAN /\ ringLost \in BOOLEAN
    /\ stored \in Nat \cup {-1} /\ sequence_ \in Nat /\ next_sequence \in Nat
    /\ doing \in {"none", "reading", "seek", "batch", "process", "stopped", "dead"}
    /\ batch \in Seq(Nat \X Nat) /\ received \in Seq(Nat)

\* The ringbuffer holds the messages published last, in order.
TopicRing ==
    /\ Len(items) =< Capacity /\ (ring_head > 0 => Len(items) > 0)
    /\ \A i \in 1..Len(items) : items[i] = published - Len(items) + i
    /\ Topicshift >= 0 /\ (~ringLost => Topicshift = 0)

\* What the stored sequence says of the messages received.
TopicKept ==
    /\ Topicnewest =< published
    /\ stored >= 0 =>
          /\ Topicnewest =< stored + 1 + Topicshift
          /\ stored > Topic!tail => Topicnewest =< Topicshift
    /\ TopicGapless /\ received # <<>> => stored >= 0 /\ stored =< Topicnewest

\* What the runner reads next is not behind what was received.
TopicReading ==
    /\ doing = "reading" =>
          /\ Topicnewest < sequence_ + 1 + Topicshift + Topicagain \/ Topicnewest < ring_head + 1 + Topicshift + Topicagain
          /\ sequence_ > Topic!tail + 1 => Topicnewest =< Topicshift
          /\ TopicGapless /\ received # <<>> => sequence_ =< Topicnewest
    /\ doing = "seek" => Topicnewest =< Topicshift

\* The messages left of a batch are consecutive, and they come after those
\* received.
TopicBatch ==
    doing \in {"batch", "process"} =>
        /\ \A i \in 1..Len(batch) :
              /\ batch[i][1] = next_sequence - Len(batch) + i - 1
              /\ batch[i][2] = batch[1][2] + i - 1
              /\ batch[i][2] =< batch[i][1] + 1 + Topicshift /\ batch[i][2] =< published
        /\ batch # <<>> => Topicnewest < batch[1][2] + Topicagain
        /\ batch = <<>> => Topicnewest =< next_sequence + Topicshift
        /\ next_sequence > Topic!tail + 1 =>
              Topicnewest =< Topicshift /\ \A i \in 1..Len(batch) : batch[i][2] =< Topicshift
        /\ TopicGapless =>
              /\ \A i \in 1..Len(batch) : batch[i][2] = batch[i][1] + 1
              /\ received # <<>> /\ batch # <<>> => batch[1][2] =< Topicnewest + 1
              /\ batch = <<>> => received # <<>> /\ next_sequence =< Topicnewest
        /\ doing = "process" => batch # <<>> /\ stored = batch[1][1]

\* The inductive invariant.
TopicIInv == TopicTypes /\ TopicRing /\ TopicKept /\ TopicReading /\ TopicBatch /\ Topic!InOrder

-----------------------------------------------------------------------------
\* The numbers the invariant speaks of.
LEMMA TopicNumbers ==
    ASSUME TopicTypes
    PROVE  /\ Len(items) \in Nat /\ Topicshift \in Int /\ Topic!tail \in Int /\ Topic!tail = ring_head + Len(items) - 1
           /\ Topicnewest \in Nat /\ Topicagain \in 0..1 /\ (addOne => Topicagain = 0) /\ (~addOne => Topicagain = 1)
           /\ TopicGapless \in BOOLEAN
  <1>1. Len(items) \in Nat /\ Topicshift \in Int /\ Topic!tail \in Int /\ Topic!tail = ring_head + Len(items) - 1
    BY DEF TopicTypes, Topicshift, Topic!tail
  <1>2. Topicnewest \in Nat
    BY DEF TopicTypes, Topicnewest
  <1> QED
    BY <1>1, <1>2 DEF Topicagain, TopicGapless

\* A step that leaves the ringbuffer, what is stored and what was received alone.
LEMMA TopicQuiet ==
    ASSUME TopicTypes, TopicRing, TopicKept, Topic!InOrder, UNCHANGED Topic!ring, UNCHANGED Topic!setup, stored' = stored,
           received' = received
    PROVE  /\ TopicRing' /\ TopicKept' /\ Topic!InOrder'
           /\ Topicshift' = Topicshift /\ Topic!tail' = Topic!tail /\ Topicnewest' = Topicnewest /\ Topicagain' = Topicagain
           /\ TopicGapless' = TopicGapless /\ ring_head' = ring_head
           /\ items' = items /\ published' = published /\ ringLost' = ringLost
           /\ loss_tolerant' = loss_tolerant /\ addOne' = addOne
  <1>1. /\ ring_head' = ring_head /\ items' = items /\ published' = published /\ ringLost' = ringLost
        /\ loss_tolerant' = loss_tolerant /\ addOne' = addOne
    BY DEF Topic!ring, Topic!setup
  <1>2. /\ Topicshift' = Topicshift /\ Topic!tail' = Topic!tail /\ Topicnewest' = Topicnewest /\ Topicagain' = Topicagain /\ TopicGapless' = TopicGapless
    BY <1>1 DEF Topicshift, Topic!tail, Topicnewest, Topicagain, TopicGapless
  <1>3. TopicRing'
    BY <1>1, <1>2 DEF TopicRing
  <1>4. TopicKept'
    BY <1>1, <1>2 DEF TopicKept
  <1>5. Topic!InOrder'
    BY <1>1 DEF Topic!InOrder
  <1> QED
    BY <1>1, <1>2, <1>3, <1>4, <1>5

\* The invariant holds before anything is published.
LEMMA TopicInitOk ==
    ASSUME TopicSizes, Topic!Init
    PROVE  TopicIInv
  <1>1. /\ <<>> \in Seq(Nat) /\ <<>> \in Seq(Nat \X Nat) /\ Len(<<>>) = 0
    OBVIOUS
  <1>2. TopicTypes
    BY <1>1, Zenon DEF Topic!Init, TopicTypes
  <1>3. Topicshift = 0 /\ Topicnewest = 0 /\ received = <<>> /\ Len(items) = 0 /\ ring_head = 0
    <2>1. /\ received = <<>> /\ items = <<>> /\ ring_head = 0 /\ published = 0
      BY DEF Topic!Init
    <2>2. Len(items) = 0
      BY <1>1, <2>1, Zenon
    <2>3. Topicnewest = 0
      BY <2>1 DEF Topicnewest
    <2>4. Topicshift = 0
      <3>1. ring_head = 0 /\ published = 0
        BY <2>1
      <3> QED
        BY <2>2, <3>1 DEF Topicshift
    <2> QED
      BY <2>1, <2>2, <2>3, <2>4, Zenon
  <1>4. TopicRing
    BY <1>2, <1>3 DEF Topic!Init, TopicRing, TopicTypes, TopicSizes
  <1>5. TopicKept
    BY <1>3 DEF Topic!Init, TopicKept
  <1>6. TopicReading /\ TopicBatch /\ Topic!InOrder
    BY <1>3 DEF Topic!Init, TopicReading, TopicBatch, Topic!InOrder
  <1> QED
    BY <1>2, <1>4, <1>5, <1>6 DEF TopicIInv

\* The steps after which the runner is neither reading, nor seeking, nor has a
\* batch, and that call the listener with nothing.
LEMMA TopicResignOk ==
    ASSUME TopicIInv, Topic!ReadCancelled \/ Topic!ReadFails \/ Topic!SeekFails \/ Topic!Restart
    PROVE  TopicIInv'
  <1>1. TopicTypes /\ TopicRing /\ TopicKept /\ TopicReading /\ TopicBatch /\ Topic!InOrder
    BY DEF TopicIInv
  <1>2. /\ UNCHANGED Topic!ring /\ UNCHANGED Topic!setup /\ stored' = stored /\ received' = received
        /\ doing' \in {"none", "stopped", "dead"}
        /\ sequence_' \in {sequence_, 0} /\ next_sequence' \in {next_sequence, 0}
        /\ batch' = batch \/ batch' = <<>>
    BY DEF Topic!ReadCancelled, Topic!ReadFails, Topic!SeekFails, Topic!Restart
  <1>3. /\ TopicRing' /\ TopicKept' /\ Topic!InOrder' /\ ring_head' = ring_head
        /\ items' = items /\ published' = published /\ ringLost' = ringLost
        /\ loss_tolerant' = loss_tolerant /\ addOne' = addOne
    BY <1>1, <1>2, TopicQuiet
  <1>4. TopicTypes'
    <2>1. <<>> \in Seq(Nat \X Nat) /\ batch \in Seq(Nat \X Nat)
      BY <1>1 DEF TopicTypes
    <2>2. batch' \in Seq(Nat \X Nat)
      BY <1>2, <2>1, Zenon
    <2> QED
      BY <1>1, <1>2, <1>3, <2>2 DEF TopicTypes
  <1>5. TopicReading' /\ TopicBatch'
    BY <1>2 DEF TopicReading, TopicBatch
  <1> QED
    BY <1>3, <1>4, <1>5 DEF TopicIInv

\* remove_message_listener and a runner that rests.
LEMMA TopicAsideOk ==
    ASSUME TopicIInv, Topic!remove_message_listener \/ UNCHANGED Topic!vars
    PROVE  TopicIInv'
  <1>1. TopicTypes /\ TopicRing /\ TopicKept /\ TopicReading /\ TopicBatch /\ Topic!InOrder
    BY DEF TopicIInv
  <1>2. /\ UNCHANGED Topic!ring /\ UNCHANGED Topic!setup /\ stored' = stored /\ received' = received
        /\ doing' = doing /\ sequence_' = sequence_ /\ next_sequence' = next_sequence
        /\ batch' = batch
    BY DEF Topic!remove_message_listener, Topic!vars, Topic!runner
  <1>3. /\ TopicRing' /\ TopicKept' /\ Topic!InOrder' /\ Topicshift' = Topicshift /\ Topic!tail' = Topic!tail /\ Topicnewest' = Topicnewest
        /\ Topicagain' = Topicagain /\ TopicGapless' = TopicGapless /\ ring_head' = ring_head
        /\ items' = items /\ published' = published /\ ringLost' = ringLost
        /\ loss_tolerant' = loss_tolerant /\ addOne' = addOne
    BY <1>1, <1>2, TopicQuiet
  <1>4. TopicTypes'
    BY <1>1, <1>2, <1>3 DEF TopicTypes
  <1>5. TopicReading'
    BY <1>1, <1>2, <1>3 DEF TopicReading
  <1>6. TopicBatch'
    BY <1>1, <1>2, <1>3 DEF TopicBatch
  <1> QED
    BY <1>3, <1>4, <1>5, <1>6 DEF TopicIInv

\* add_message_listener: the runner starts after the tail, or from the stored
\* sequence.
LEMMA TopicAddOk ==
    ASSUME TopicIInv, Topic!add_message_listener
    PROVE  TopicIInv'
  <1>1. TopicTypes /\ TopicRing /\ TopicKept /\ TopicReading /\ TopicBatch /\ Topic!InOrder
    BY DEF TopicIInv
  <1>2. /\ UNCHANGED Topic!ring /\ UNCHANGED Topic!setup /\ stored' = stored /\ received' = received
        /\ doing' = "reading" /\ next_sequence' = next_sequence /\ batch' = batch
        /\ sequence_' = IF stored = -1 THEN Topic!tail + 1 ELSE IF addOne THEN stored + 1 ELSE stored
    BY DEF Topic!add_message_listener
  <1>3. /\ TopicRing' /\ TopicKept' /\ Topic!InOrder' /\ Topicshift' = Topicshift /\ Topic!tail' = Topic!tail /\ Topicnewest' = Topicnewest
        /\ Topicagain' = Topicagain /\ TopicGapless' = TopicGapless /\ ring_head' = ring_head
        /\ items' = items /\ published' = published /\ ringLost' = ringLost
        /\ loss_tolerant' = loss_tolerant /\ addOne' = addOne
    BY <1>1, <1>2, TopicQuiet
  <1>4. /\ Len(items) \in Nat /\ Topicshift \in Int /\ Topic!tail \in Int /\ Topic!tail = ring_head + Len(items) - 1
        /\ Topicnewest \in Nat /\ Topicagain \in 0..1 /\ (addOne => Topicagain = 0) /\ (~addOne => Topicagain = 1)
    BY <1>1, TopicNumbers
  <1>5. /\ ring_head \in Nat /\ published \in Nat /\ stored \in Nat \cup {-1} /\ addOne \in BOOLEAN
        /\ Topicnewest =< published /\ Topicshift = published - (ring_head + Len(items))
    BY <1>1 DEF TopicTypes, TopicKept, Topicshift
  <1>6. /\ stored >= 0 =>
              /\ Topicnewest =< stored + 1 + Topicshift
              /\ stored > Topic!tail => Topicnewest =< Topicshift
        /\ TopicGapless /\ received # <<>> => stored >= 0 /\ stored =< Topicnewest
        /\ TopicGapless => ~addOne
    BY <1>1 DEF TopicKept, TopicGapless
  <1>7. sequence_' \in Nat
    BY <1>2, <1>4, <1>5
  <1>8. TopicTypes'
    BY <1>1, <1>2, <1>3, <1>7 DEF TopicTypes
  <1>9. /\ Topicnewest < sequence_' + 1 + Topicshift + Topicagain
        /\ sequence_' > Topic!tail + 1 => Topicnewest =< Topicshift
        /\ TopicGapless /\ received # <<>> => sequence_' =< Topicnewest
    <2>1. CASE stored = -1
      BY <1>2, <1>4, <1>5, <1>6, <2>1
    <2>2. CASE stored >= 0
      BY <1>2, <1>4, <1>5, <1>6, <2>2
    <2> QED
      BY <1>5, <2>1, <2>2
  <1>10. TopicReading' /\ TopicBatch'
    BY <1>2, <1>3, <1>9 DEF TopicReading, TopicBatch
  <1> QED
    BY <1>3, <1>8, <1>10 DEF TopicIInv

\* A read beyond the tail is refused: everything received is from an earlier
\* ringbuffer.
LEMMA TopicRefusedOk ==
    ASSUME TopicIInv, Topic!ReadRefused
    PROVE  TopicIInv'
  <1>1. TopicTypes /\ TopicRing /\ TopicKept /\ TopicReading /\ TopicBatch /\ Topic!InOrder
    BY DEF TopicIInv
  <1>2. /\ UNCHANGED Topic!ring /\ UNCHANGED Topic!setup /\ stored' = stored /\ received' = received
        /\ doing = "reading" /\ doing' = "seek" /\ next_sequence' = next_sequence /\ batch' = batch
        /\ sequence_' = sequence_ /\ sequence_ > Topic!tail + 1
    BY DEF Topic!ReadRefused
  <1>3. /\ TopicRing' /\ TopicKept' /\ Topic!InOrder' /\ Topicshift' = Topicshift /\ Topicnewest' = Topicnewest
        /\ ring_head' = ring_head /\ items' = items /\ published' = published
        /\ ringLost' = ringLost /\ loss_tolerant' = loss_tolerant /\ addOne' = addOne
    BY <1>1, <1>2, TopicQuiet
  <1>4. TopicTypes'
    BY <1>1, <1>2, <1>3 DEF TopicTypes
  <1>5. TopicReading' /\ TopicBatch'
    BY <1>1, <1>2, <1>3 DEF TopicReading, TopicBatch
  <1> QED
    BY <1>3, <1>4, <1>5 DEF TopicIInv

\* handle_illegal_argument_exception: all that was received was in a ringbuffer
\* that is lost, so its head is not behind it.
LEMMA TopicSeekOk ==
    ASSUME TopicIInv, Topic!handle_illegal_argument_exception
    PROVE  TopicIInv'
  <1>1. TopicTypes /\ TopicRing /\ TopicKept /\ TopicReading /\ TopicBatch /\ Topic!InOrder
    BY DEF TopicIInv
  <1>2. /\ UNCHANGED Topic!ring /\ UNCHANGED Topic!setup /\ stored' = stored /\ received' = received
        /\ doing = "seek" /\ next_sequence' = next_sequence /\ batch' = batch
        /\ \/ loss_tolerant /\ sequence_' = ring_head /\ doing' \in {"stopped", "reading"}
           \/ doing' = "stopped" /\ sequence_' = sequence_
    BY DEF Topic!handle_illegal_argument_exception
  <1>3. /\ TopicRing' /\ TopicKept' /\ Topic!InOrder' /\ Topicshift' = Topicshift /\ Topic!tail' = Topic!tail /\ Topicnewest' = Topicnewest
        /\ Topicagain' = Topicagain /\ TopicGapless' = TopicGapless /\ ring_head' = ring_head
        /\ items' = items /\ published' = published /\ ringLost' = ringLost
        /\ loss_tolerant' = loss_tolerant /\ addOne' = addOne
    BY <1>1, <1>2, TopicQuiet
  <1>4. TopicTypes'
    BY <1>1, <1>2, <1>3 DEF TopicTypes
  <1>5. Topicnewest =< Topicshift
    BY <1>1, <1>2 DEF TopicReading
  <1>6. ring_head \in Nat /\ Topicshift \in Int /\ Topicnewest \in Nat /\ Topicagain \in Nat
    BY <1>1, TopicNumbers DEF TopicTypes
  <1>7. doing' = "reading" =>
          /\ Topicnewest < ring_head + 1 + Topicshift + Topicagain /\ ~TopicGapless
          /\ sequence_' > Topic!tail + 1 => Topicnewest =< Topicshift
    BY <1>2, <1>5, <1>6 DEF TopicGapless
  <1>8. TopicReading' /\ TopicBatch'
    BY <1>2, <1>3, <1>7 DEF TopicReading, TopicBatch
  <1> QED
    BY <1>3, <1>4, <1>8 DEF TopicIInv

\* read_many: the batch starts at the runner's sequence or at the ringbuffer's
\* head, whichever is newer.
LEMMA TopicReadOk ==
    ASSUME TopicIInv, Topic!Read
    PROVE  TopicIInv'
  <1>1. TopicTypes /\ TopicRing /\ TopicKept /\ TopicReading /\ TopicBatch /\ Topic!InOrder
    BY DEF TopicIInv
  <1>2. /\ UNCHANGED Topic!ring /\ UNCHANGED Topic!setup /\ stored' = stored /\ received' = received
        /\ doing = "reading" /\ sequence_' = sequence_ /\ sequence_ =< Topic!tail
    BY DEF Topic!Read
  <1>3. /\ TopicRing' /\ TopicKept' /\ Topic!InOrder' /\ Topicshift' = Topicshift /\ Topic!tail' = Topic!tail /\ Topicnewest' = Topicnewest
        /\ Topicagain' = Topicagain /\ TopicGapless' = TopicGapless /\ ring_head' = ring_head
        /\ items' = items /\ published' = published /\ ringLost' = ringLost
        /\ loss_tolerant' = loss_tolerant /\ addOne' = addOne
    BY <1>1, <1>2, TopicQuiet
  <1>4. CASE doing' = "stopped" /\ batch' = batch /\ next_sequence' = next_sequence
    <2>1. TopicTypes'
      BY <1>1, <1>2, <1>3, <1>4 DEF TopicTypes
    <2>2. TopicReading' /\ TopicBatch'
      BY <1>4 DEF TopicReading, TopicBatch
    <2> QED
      BY <1>3, <2>1, <2>2 DEF TopicIInv
  <1>5. CASE doing' = "batch"
    <2>1. PICK from, count :
             /\ from = IF sequence_ < ring_head THEN ring_head ELSE sequence_
             /\ count = Topic!Least(batch_size_, Topic!tail - from + 1)
             /\ from - sequence_ = 0 \/ loss_tolerant
             /\ next_sequence' = from + count
             /\ batch' = [i \in 1..count |-> <<from + i - 1, items[from - ring_head + i]>>]
      BY <1>5 DEF Topic!Read
    <2>2. /\ Len(items) \in Nat /\ Topicshift \in Int /\ Topic!tail \in Int /\ Topic!tail = ring_head + Len(items) - 1
          /\ Topicnewest \in Nat /\ Topicagain \in 0..1
      BY <1>1, TopicNumbers
    <2>3. /\ ring_head \in Nat /\ published \in Nat /\ sequence_ \in Nat /\ batch_size_ \in Nat \ {0}
          /\ Topicshift = published - (ring_head + Len(items)) /\ items \in Seq(Nat)
      BY <1>1 DEF TopicTypes, TopicSizes, Topicshift
    <2>4. /\ from \in Nat /\ from >= ring_head /\ from >= sequence_ /\ from =< Topic!tail
          /\ from = sequence_ \/ from = ring_head
      BY <1>1, <1>2, <2>1, <2>2, <2>3 DEF TopicRing
    <2>5. count \in Nat /\ count >= 1 /\ from + count =< Topic!tail + 1
      <3>1. Topic!tail - from + 1 \in Nat /\ Topic!tail - from + 1 >= 1
        BY <2>2, <2>4
      <3>2. (count = batch_size_ /\ batch_size_ < Topic!tail - from + 1) \/ count = Topic!tail - from + 1
        BY <2>1 DEF Topic!Least
      <3> QED
        BY <2>2, <2>3, <2>4, <3>1, <3>2
    <2>6. \A i \in 1..count : /\ from - ring_head + i \in 1..Len(items)
                              /\ items[from - ring_head + i] = from + i + Topicshift
                              /\ from + i + Topicshift \in Nat
      <3> TAKE i \in 1..count
      <3>2. PICK j \in 1..Len(items) : j = from - ring_head + i
        BY <2>2, <2>3, <2>4, <2>5
      <3>3. items[j] = published - Len(items) + j /\ Topicshift >= 0
        BY <1>1 DEF TopicRing
      <3>4. published - Len(items) + j = from + i + Topicshift
        BY <2>2, <2>3, <2>4, <2>5, <3>2
      <3> QED
        BY <2>2, <2>4, <2>5, <3>2, <3>3, <3>4
    <2>7. /\ batch' \in Seq(Nat \X Nat) /\ Len(batch') = count
          /\ \A i \in 1..count : batch'[i][1] = from + i - 1 /\ batch'[i][2] = from + i + Topicshift
      <3>1. batch' = [i \in 1..count |-> <<from + i - 1, from + i + Topicshift>>]
        BY <2>1, <2>6
      <3>2. \A i \in 1..count : from + i - 1 \in Nat
        BY <2>4, <2>5
      <3> QED
        BY <2>5, <2>6, <3>1, <3>2
    <2>8. /\ Topicnewest < from + 1 + Topicshift + Topicagain
          /\ TopicGapless /\ received # <<>> => from =< Topicnewest
          /\ TopicGapless => Topicshift = 0
      <3>1. Topicnewest < sequence_ + 1 + Topicshift + Topicagain \/ Topicnewest < ring_head + 1 + Topicshift + Topicagain
        BY <1>1, <1>2 DEF TopicReading
      <3>2. TopicGapless /\ received # <<>> => sequence_ =< Topicnewest /\ sequence_ = from
        BY <1>1, <1>2, <2>1, <2>3, <2>4 DEF TopicReading, TopicGapless
      <3>3. TopicGapless => Topicshift = 0
        BY <1>1 DEF TopicRing, TopicGapless
      <3> QED
        BY <2>2, <2>3, <2>4, <3>1, <3>2, <3>3
    <2>9. next_sequence' \in Nat /\ next_sequence' = from + count
      BY <2>1, <2>4, <2>5
    <2>10. TopicTypes'
      BY <1>1, <1>2, <1>3, <1>5, <2>7, <2>9 DEF TopicTypes
    <2>11. TopicReading'
      BY <1>5, Zenon DEF TopicReading
    <2>12. TopicBatch'
      <3>1. \A i \in 1..count :
              /\ batch'[i][1] = next_sequence' - count + i - 1
              /\ batch'[i][2] = batch'[1][2] + i - 1
              /\ batch'[i][2] =< batch'[i][1] + 1 + Topicshift /\ batch'[i][2] =< published
              /\ (TopicGapless => batch'[i][2] = batch'[i][1] + 1)
        <4>1. TAKE i \in 1..count
        <4>2. 1 \in 1..count
          BY <2>5
        <4>3. /\ batch'[i][1] = from + i - 1 /\ batch'[i][2] = from + i + Topicshift
              /\ batch'[1][2] = from + 1 + Topicshift
          BY <2>7, <4>2
        <4>4. from + i + Topicshift =< published
          BY <2>2, <2>3, <2>4, <2>5
        <4>5. i \in Int /\ count \in Int /\ from \in Int /\ Topicshift \in Int /\ published \in Int
          BY <2>2, <2>3, <2>4, <2>5
        <4> QED
          BY <2>8, <2>9, <4>3, <4>4, <4>5
      <3>2. /\ batch' # <<>> /\ Topicnewest < batch'[1][2] + Topicagain /\ ~(next_sequence' > Topic!tail + 1)
            /\ (TopicGapless /\ received # <<>> => batch'[1][2] =< Topicnewest + 1)
        <4>1. batch'[1][2] = from + 1 + Topicshift /\ batch' # <<>>
          BY <2>5, <2>7
        <4> QED
          BY <2>2, <2>4, <2>5, <2>8, <2>9, <4>1
      <3> QED
        BY <1>2, <1>3, <1>5, <2>7, <3>1, <3>2, Zenon DEF TopicBatch
    <2> QED
      BY <1>3, <2>10, <2>11, <2>12 DEF TopicIInv
  <1> QED
    BY <1>4, <1>5 DEF Topic!Read

\* The batch is done: the runner reads on from the sequence after it.
LEMMA TopicBatchDoneOk ==
    ASSUME TopicIInv, Topic!BatchDone
    PROVE  TopicIInv'
  <1>1. TopicTypes /\ TopicRing /\ TopicKept /\ TopicReading /\ TopicBatch /\ Topic!InOrder
    BY DEF TopicIInv
  <1>2. /\ UNCHANGED Topic!ring /\ UNCHANGED Topic!setup /\ stored' = stored /\ received' = received
        /\ doing = "batch" /\ batch = <<>> /\ doing' \in {"stopped", "reading"}
        /\ next_sequence' = next_sequence /\ batch' = batch /\ sequence_' = next_sequence
    BY DEF Topic!BatchDone
  <1>3. /\ TopicRing' /\ TopicKept' /\ Topic!InOrder' /\ Topicshift' = Topicshift /\ Topic!tail' = Topic!tail /\ Topicnewest' = Topicnewest
        /\ Topicagain' = Topicagain /\ TopicGapless' = TopicGapless /\ ring_head' = ring_head
        /\ items' = items /\ published' = published /\ ringLost' = ringLost
        /\ loss_tolerant' = loss_tolerant /\ addOne' = addOne
    BY <1>1, <1>2, TopicQuiet
  <1>4. TopicTypes'
    BY <1>1, <1>2, <1>3 DEF TopicTypes
  <1>5. /\ Topicnewest =< next_sequence + Topicshift
        /\ next_sequence > Topic!tail + 1 => Topicnewest =< Topicshift
        /\ TopicGapless => next_sequence =< Topicnewest
    BY <1>1, <1>2 DEF TopicBatch
  <1>6. Topicnewest < next_sequence + 1 + Topicshift + Topicagain
    <2>1. next_sequence \in Nat /\ Topicshift \in Int /\ Topicnewest \in Nat /\ Topicagain \in 0..1
      BY <1>1, TopicNumbers, Zenon DEF TopicTypes
    <2> QED
      BY <1>5, <2>1
  <1>7. TopicReading' /\ TopicBatch'
    BY <1>2, <1>3, <1>5, <1>6, Zenon DEF TopicReading, TopicBatch
  <1> QED
    BY <1>3, <1>4, <1>7 DEF TopicIInv

\* The facts about the message a batch starts with.
LEMMA TopicFirstOfBatch ==
    ASSUME TopicTypes, TopicBatch, doing \in {"batch", "process"}, batch # <<>>
    PROVE  /\ Len(batch) \in Nat /\ Len(batch) >= 1 /\ Head(batch) = batch[1]
           /\ batch[1][1] \in Nat /\ batch[1][2] \in Nat
           /\ batch[1][1] = next_sequence - Len(batch)
           /\ batch[1][2] =< batch[1][1] + 1 + Topicshift /\ batch[1][2] =< published
           /\ Topicnewest < batch[1][2] + Topicagain
           /\ next_sequence > Topic!tail + 1 => Topicnewest =< Topicshift /\ batch[1][2] =< Topicshift
           /\ TopicGapless => /\ batch[1][2] = batch[1][1] + 1
                              /\ received # <<>> => batch[1][2] =< Topicnewest + 1
  <1>1. /\ Len(batch) \in Nat /\ Len(batch) >= 1 /\ Head(batch) = batch[1] /\ 1 \in 1..Len(batch)
        /\ batch[1] \in Nat \X Nat /\ next_sequence \in Nat
    BY DEF TopicTypes
  <1>2. /\ batch[1][1] = next_sequence - Len(batch) + 1 - 1
        /\ batch[1][2] =< batch[1][1] + 1 + Topicshift /\ batch[1][2] =< published
        /\ next_sequence > Topic!tail + 1 => Topicnewest =< Topicshift /\ batch[1][2] =< Topicshift
        /\ TopicGapless => /\ batch[1][2] = batch[1][1] + 1
                           /\ received # <<>> => batch[1][2] =< Topicnewest + 1
        /\ Topicnewest < batch[1][2] + Topicagain
    BY <1>1 DEF TopicBatch
  <1> QED
    BY <1>1, <1>2

\* store_sequence_id is called before the message is processed.
LEMMA TopicStoreOk ==
    ASSUME TopicIInv, Topic!Store
    PROVE  TopicIInv'
  <1>1. TopicTypes /\ TopicRing /\ TopicKept /\ TopicReading /\ TopicBatch /\ Topic!InOrder
    BY DEF TopicIInv
  <1>2. /\ UNCHANGED Topic!ring /\ UNCHANGED Topic!setup /\ received' = received
        /\ doing = "batch" /\ batch # <<>> /\ doing' = "process" /\ stored' = Head(batch)[1]
        /\ next_sequence' = next_sequence /\ batch' = batch /\ sequence_' = sequence_
    BY DEF Topic!Store
  <1>3. /\ ring_head' = ring_head /\ items' = items /\ published' = published
        /\ ringLost' = ringLost /\ loss_tolerant' = loss_tolerant /\ addOne' = addOne
    BY <1>2 DEF Topic!ring, Topic!setup
  <1>4. /\ Topicshift' = Topicshift /\ Topic!tail' = Topic!tail /\ Topicnewest' = Topicnewest /\ Topicagain' = Topicagain /\ TopicGapless' = TopicGapless
    BY <1>2, <1>3, Zenon DEF Topicshift, Topic!tail, Topicnewest, Topicagain, TopicGapless
  <1>5. /\ Len(batch) \in Nat /\ Len(batch) >= 1 /\ Head(batch) = batch[1]
        /\ batch[1][1] \in Nat /\ batch[1][2] \in Nat
        /\ batch[1][1] = next_sequence - Len(batch)
        /\ batch[1][2] =< batch[1][1] + 1 + Topicshift /\ batch[1][2] =< published
        /\ Topicnewest < batch[1][2] + Topicagain
        /\ next_sequence > Topic!tail + 1 => Topicnewest =< Topicshift /\ batch[1][2] =< Topicshift
        /\ TopicGapless => /\ batch[1][2] = batch[1][1] + 1
                           /\ received # <<>> => batch[1][2] =< Topicnewest + 1
    BY <1>1, <1>2, TopicFirstOfBatch
  <1>6. Topicshift \in Int /\ Topic!tail \in Int /\ Topicnewest \in Nat /\ Topicagain \in 0..1 /\ next_sequence \in Nat
    BY <1>1, TopicNumbers DEF TopicTypes
  <1>7. stored' = batch[1][1] /\ stored' \in Nat
    BY <1>2, <1>5
  <1>8. /\ Topicnewest =< batch[1][1] + 1 + Topicshift
        /\ batch[1][1] > Topic!tail => Topicnewest =< Topicshift
        /\ TopicGapless /\ received # <<>> => batch[1][1] =< Topicnewest
    BY <1>5, <1>6, SMTT(20)
  <1>9. TopicTypes'
    BY <1>1, <1>2, <1>3, <1>7, Zenon DEF TopicTypes
  <1>10. TopicRing' /\ Topic!InOrder'
    BY <1>1, <1>2, <1>3, <1>4, Zenon DEF TopicRing, Topic!InOrder
  <1>11. TopicKept'
    <2>1. Topicnewest =< published
      BY <1>1 DEF TopicKept
    <2>2. batch[1][1] >= 0
      BY <1>5
    <2> QED
      BY <1>2, <1>3, <1>4, <1>7, <1>8, <2>1, <2>2, Zenon DEF TopicKept
  <1>12. TopicReading'
    BY <1>2, Zenon DEF TopicReading
  <1>13. TopicBatch'
    BY <1>1, <1>2, <1>3, <1>4, <1>7, Zenon DEF TopicBatch
  <1> QED
    BY <1>9, <1>10, <1>11, <1>12, <1>13 DEF TopicIInv

\* The listener is called with the first message of the batch.
LEMMA TopicCalling ==
    ASSUME TopicIInv, doing = "process", received' = Append(received, Head(batch)[2]),
           UNCHANGED Topic!ring, UNCHANGED Topic!setup, stored' = stored
    PROVE  /\ received' \in Seq(Nat) /\ received' # <<>> /\ Topicnewest' = batch[1][2]
           /\ TopicRing' /\ TopicKept' /\ Topic!InOrder'
           /\ Topicshift' = Topicshift /\ Topic!tail' = Topic!tail /\ Topicagain' = Topicagain /\ TopicGapless' = TopicGapless
           /\ ring_head' = ring_head /\ items' = items /\ published' = published
           /\ ringLost' = ringLost /\ loss_tolerant' = loss_tolerant /\ addOne' = addOne
  <1>1. TopicTypes /\ TopicRing /\ TopicKept /\ TopicReading /\ TopicBatch /\ Topic!InOrder /\ batch # <<>> /\ stored = batch[1][1]
    BY DEF TopicIInv, TopicBatch
  <1>2. /\ ring_head' = ring_head /\ items' = items /\ published' = published
        /\ ringLost' = ringLost /\ loss_tolerant' = loss_tolerant /\ addOne' = addOne
    BY DEF Topic!ring, Topic!setup
  <1>3. /\ Topicshift' = Topicshift /\ Topic!tail' = Topic!tail /\ Topicagain' = Topicagain /\ TopicGapless' = TopicGapless
    BY <1>2, Zenon DEF Topicshift, Topic!tail, Topicagain, TopicGapless
  <1>4. /\ Len(batch) \in Nat /\ Len(batch) >= 1 /\ Head(batch) = batch[1]
        /\ batch[1][1] \in Nat /\ batch[1][2] \in Nat
        /\ batch[1][1] = next_sequence - Len(batch)
        /\ batch[1][2] =< batch[1][1] + 1 + Topicshift /\ batch[1][2] =< published
        /\ Topicnewest < batch[1][2] + Topicagain
        /\ next_sequence > Topic!tail + 1 => Topicnewest =< Topicshift /\ batch[1][2] =< Topicshift
        /\ TopicGapless => /\ batch[1][2] = batch[1][1] + 1
                           /\ received # <<>> => batch[1][2] =< Topicnewest + 1
    BY <1>1, TopicFirstOfBatch, Zenon
  <1>5. PICK n \in Nat : n = batch[1][2]
    BY <1>4
  <1>6. /\ received' = Append(received, n) /\ received \in Seq(Nat) /\ received' \in Seq(Nat)
        /\ Len(received') = Len(received) + 1 /\ received'[Len(received) + 1] = n
        /\ \A i \in 1..Len(received) : received'[i] = received[i]
        /\ Len(received) \in Nat /\ received' # <<>>
    <2>1. received' = Append(received, n) /\ received \in Seq(Nat)
      BY <1>1, <1>4, <1>5, Zenon DEF TopicTypes
    <2> QED
      BY <2>1
  <1>7. Topicnewest' = n
    BY <1>6, Zenon DEF Topicnewest
  <1>8. Topicshift \in Int /\ Topic!tail \in Int /\ Topicnewest \in Nat /\ next_sequence \in Nat
    BY <1>1, TopicNumbers, Zenon DEF TopicTypes
  <1>9. TopicRing'
    BY <1>1, <1>2, <1>3, Zenon DEF TopicRing
  <1>10. TopicKept'
    <2>1. /\ n =< published /\ n =< stored + 1 + Topicshift /\ (stored > Topic!tail => n =< Topicshift)
          /\ (TopicGapless => stored >= 0 /\ stored =< n)
      BY <1>1, <1>4, <1>5, <1>8
    <2> QED
      BY <1>2, <1>3, <1>7, <2>1, Zenon DEF TopicKept
  <1>11. Topic!InOrder'
    <2> SUFFICES ASSUME NEW i \in 1..(Len(received') - 1)
                 PROVE  /\ \/ received'[i] < received'[i + 1]
                           \/ ~addOne' /\ received'[i] = received'[i + 1]
                        /\ ~loss_tolerant' /\ ~addOne' /\ ~ringLost' =>
                              received'[i + 1] =< received'[i] + 1
      BY Zenon DEF Topic!InOrder
    <2>1. CASE i < Len(received)
      <3>1. i \in 1..(Len(received) - 1) /\ i \in 1..Len(received) /\ i + 1 \in 1..Len(received)
        BY <1>6, <2>1
      <3>2. received'[i] = received[i] /\ received'[i + 1] = received[i + 1]
        BY <1>6, <3>1
      <3> QED
        BY <1>1, <1>2, <3>1, <3>2, Zenon DEF Topic!InOrder
    <2>2. CASE i = Len(received)
      <3>1. received # <<>> /\ Topicnewest = received[i] /\ received'[i] = received[i] /\ received'[i + 1] = n
        BY <1>6, <2>2 DEF Topicnewest
      <3>2. /\ Topicnewest < n \/ (~addOne /\ Topicnewest = n)
            /\ TopicGapless => n =< Topicnewest + 1
        <4>1. addOne \in BOOLEAN /\ (addOne => Topicagain = 0) /\ (~addOne => Topicagain = 1)
          BY <1>1, TopicNumbers, Zenon DEF TopicTypes
        <4> QED
          BY <1>4, <1>5, <1>8, <3>1, <4>1, SMTT(20)
      <3> QED
        BY <1>2, <3>1, <3>2, Zenon DEF TopicGapless
    <2> QED
      BY <1>6, <2>1, <2>2
  <1> QED
    BY <1>2, <1>3, <1>5, <1>6, <1>7, <1>9, <1>10, <1>11, Zenon

\* What is left of a batch.
LEMMA TopicRest ==
    ASSUME NEW S, NEW b \in Seq(S), b # <<>>
    PROVE  /\ Tail(b) \in Seq(S) /\ Len(Tail(b)) = Len(b) - 1
           /\ \A i \in 1..Len(Tail(b)) : i + 1 \in 1..Len(b) /\ Tail(b)[i] = b[i + 1]
           /\ Tail(b) # <<>> => 1 \in 1..Len(Tail(b))
           /\ Tail(b) = <<>> => Len(b) = 1
  <1>1. /\ Tail(b) \in Seq(S) /\ Len(Tail(b)) = Len(b) - 1
        /\ \A i \in 1..Len(Tail(b)) : Tail(b)[i] = b[i + 1]
    OBVIOUS
  <1>2. Len(b) \in Nat
    OBVIOUS
  <1>3. PICK n \in Nat : n = Len(b)
    BY <1>2
  <1>4. \A i \in 1..(n - 1) : i + 1 \in 1..n
    OBVIOUS
  <1>5. Tail(b) = <<>> <=> Len(Tail(b)) = 0
    BY <1>1
  <1>6. (n - 1 # 0 /\ n - 1 \in Nat => 1 \in 1..(n - 1)) /\ (n - 1 = 0 => n = 1)
    OBVIOUS
  <1>7. Len(Tail(b)) \in Nat
    BY <1>1
  <1> QED
    BY <1>1, <1>3, <1>4, <1>5, <1>6, <1>7

\* The listener is called with the first message of the batch.
LEMMA TopicProcessOk ==
    ASSUME TopicIInv, Topic!process
    PROVE  TopicIInv'
  <1>1. TopicTypes /\ TopicRing /\ TopicKept /\ TopicReading /\ TopicBatch /\ Topic!InOrder
    BY DEF TopicIInv
  <1>2. /\ UNCHANGED Topic!ring /\ UNCHANGED Topic!setup /\ stored' = stored /\ doing = "process"
        /\ received' = Append(received, Head(batch)[2])
        /\ batch' = Tail(batch) /\ doing' = "batch"
        /\ next_sequence' = next_sequence /\ sequence_' = sequence_
    BY DEF Topic!process
  <1>3. /\ received' \in Seq(Nat) /\ received' # <<>> /\ Topicnewest' = batch[1][2]
        /\ TopicRing' /\ TopicKept' /\ Topic!InOrder'
        /\ Topicshift' = Topicshift /\ Topic!tail' = Topic!tail /\ Topicagain' = Topicagain /\ TopicGapless' = TopicGapless
        /\ ring_head' = ring_head /\ items' = items /\ published' = published
        /\ ringLost' = ringLost /\ loss_tolerant' = loss_tolerant /\ addOne' = addOne
    BY <1>2, TopicCalling, Zenon
  <1>4. batch # <<>>
    BY <1>1, <1>2, Zenon DEF TopicBatch
  <1>5. /\ batch' \in Seq(Nat \X Nat) /\ Len(batch') = Len(batch) - 1
        /\ \A i \in 1..Len(batch') : i + 1 \in 1..Len(batch) /\ batch'[i] = batch[i + 1]
        /\ batch' # <<>> => 1 \in 1..Len(batch')
        /\ batch' = <<>> => Len(batch) = 1
    BY <1>1, <1>2, <1>4, TopicRest, Zenon DEF TopicTypes
  <1>6. /\ Len(batch) \in Nat /\ Len(batch) >= 1 /\ batch[1][1] \in Nat /\ batch[1][2] \in Nat
        /\ batch[1][1] = next_sequence - Len(batch)
        /\ batch[1][2] =< batch[1][1] + 1 + Topicshift
        /\ next_sequence > Topic!tail + 1 => Topicnewest =< Topicshift /\ batch[1][2] =< Topicshift
        /\ TopicGapless => batch[1][2] = batch[1][1] + 1
    BY <1>1, <1>2, <1>4, TopicFirstOfBatch
  <1>7. Topicshift \in Int /\ Topic!tail \in Int /\ Topicagain \in 0..1 /\ next_sequence \in Nat
    BY <1>1, TopicNumbers, Zenon DEF TopicTypes
  <1>8. TopicTypes'
    BY <1>1, <1>2, <1>3, <1>5 DEF TopicTypes
  <1>9. TopicReading'
    BY <1>2, Zenon DEF TopicReading
  <1>10. \A i \in 1..Len(batch') :
            /\ batch'[i][1] = next_sequence - Len(batch) + i
            /\ batch'[i][2] = batch[1][2] + i
            /\ batch'[i][2] =< batch'[i][1] + 1 + Topicshift /\ batch'[i][2] =< published
            /\ next_sequence > Topic!tail + 1 => batch'[i][2] =< Topicshift
            /\ TopicGapless => batch'[i][2] = batch'[i][1] + 1
    <2> TAKE i \in 1..Len(batch')
    <2>1. i + 1 \in 1..Len(batch) /\ batch'[i] = batch[i + 1]
      BY <1>5, Zenon
    <2>2. /\ batch[i + 1][1] = next_sequence - Len(batch) + (i + 1) - 1
          /\ batch[i + 1][2] = batch[1][2] + (i + 1) - 1
          /\ batch[i + 1][2] =< batch[i + 1][1] + 1 + Topicshift /\ batch[i + 1][2] =< published
          /\ next_sequence > Topic!tail + 1 => batch[i + 1][2] =< Topicshift
          /\ TopicGapless => batch[i + 1][2] = batch[i + 1][1] + 1
      BY <1>1, <1>2, <2>1 DEF TopicBatch
    <2>3. (i + 1) - 1 = i
      OBVIOUS
    <2> QED
      BY <1>6, <1>7, <2>1, <2>2, <2>3, Zenon
  <1>11. TopicBatch'
    <2>1. \A i \in 1..Len(batch') :
              /\ batch'[i][1] = next_sequence - Len(batch') + i - 1
              /\ batch'[i][2] = batch'[1][2] + i - 1
              /\ batch'[i][2] =< batch'[i][1] + 1 + Topicshift /\ batch'[i][2] =< published
      <3> TAKE i \in 1..Len(batch')
      <3>1. 1 \in 1..Len(batch')
        BY <1>5
      <3>2. batch'[1][2] = batch[1][2] + 1
        BY <1>10, <3>1
      <3>3. \A n, l \in Nat, f \in Nat : /\ n - l + i = n - (l - 1) + i - 1
                                        /\ f + i = (f + 1) + i - 1
        OBVIOUS
      <3>4. /\ next_sequence - Len(batch) + i = next_sequence - Len(batch') + i - 1
            /\ batch[1][2] + i = (batch[1][2] + 1) + i - 1
        BY <1>5, <1>6, <1>7, <3>3, SMTT(20)
      <3> QED
        BY <1>10, <3>2, <3>4, Zenon
    <2>2. batch' # <<>> => Topicnewest' < batch'[1][2] + Topicagain /\ batch'[1][2] =< Topicnewest' + 1
      <3> SUFFICES ASSUME batch' # <<>>
                   PROVE  Topicnewest' < batch'[1][2] + Topicagain /\ batch'[1][2] =< Topicnewest' + 1
        OBVIOUS
      <3>1. batch'[1][2] = batch[1][2] + 1
        BY <1>5, <1>10, Zenon
      <3>2. \A f \in Nat : f < (f + 1) + Topicagain /\ f + 1 =< f + 1
        BY <1>7
      <3> QED
        BY <1>3, <1>6, <3>1, <3>2, Zenon
    <2>3. batch' = <<>> => /\ Topicnewest' =< next_sequence + Topicshift
                           /\ TopicGapless => next_sequence =< Topicnewest'
      <3> SUFFICES ASSUME batch' = <<>>
                   PROVE  /\ Topicnewest' =< next_sequence + Topicshift
                          /\ TopicGapless => next_sequence =< Topicnewest'
        OBVIOUS
      <3>1. batch[1][1] = next_sequence - 1
        BY <1>5, <1>6, Zenon
      <3>2. \A f \in Nat : /\ f =< (next_sequence - 1) + 1 + Topicshift => f =< next_sequence + Topicshift
                           /\ f = (next_sequence - 1) + 1 => next_sequence =< f
        BY <1>7
      <3> QED
        BY <1>3, <1>6, <3>1, <3>2, Zenon
    <2>4. next_sequence > Topic!tail + 1 => Topicnewest' =< Topicshift
      BY <1>3, <1>6
    <2> QED
      BY <1>2, <1>3, <1>10, <2>1, <2>2, <2>3, <2>4, Zenon DEF TopicBatch
  <1> QED
    BY <1>3, <1>8, <1>9, <1>11, Zenon DEF TopicIInv

\* The listener throws: it was called all the same.
LEMMA TopicThrowsOk ==
    ASSUME TopicIInv, Topic!processThrows
    PROVE  TopicIInv'
  <1>1. TopicTypes
    BY DEF TopicIInv
  <1>2. /\ UNCHANGED Topic!ring /\ UNCHANGED Topic!setup /\ stored' = stored /\ doing = "process"
        /\ received' = Append(received, Head(batch)[2])
        /\ batch' = batch /\ doing' \in {"stopped", "dead"}
        /\ next_sequence' = next_sequence /\ sequence_' = sequence_
    BY Zenon DEF Topic!processThrows
  <1>3. /\ received' \in Seq(Nat) /\ TopicRing' /\ TopicKept' /\ Topic!InOrder'
        /\ ring_head' = ring_head /\ items' = items /\ published' = published
        /\ ringLost' = ringLost /\ loss_tolerant' = loss_tolerant /\ addOne' = addOne
    BY <1>2, TopicCalling
  <1>4. TopicTypes'
    BY <1>1, <1>2, <1>3, Zenon DEF TopicTypes
  <1>5. TopicReading' /\ TopicBatch'
    BY <1>2 DEF TopicReading, TopicBatch
  <1> QED
    BY <1>3, <1>4, <1>5 DEF TopicIInv

\* The ringbuffer is lost: all that was published before came from it.
LEMMA TopicLoseRingOk ==
    ASSUME TopicIInv, Topic!LoseRing
    PROVE  TopicIInv'
  <1>1. TopicTypes /\ TopicRing /\ TopicKept /\ TopicReading /\ TopicBatch /\ Topic!InOrder
    BY DEF TopicIInv
  <1>2. /\ UNCHANGED Topic!setup /\ UNCHANGED Topic!runner /\ published' = published /\ stored' = stored
        /\ received' = received /\ ring_head' = 0 /\ items' = <<>> /\ ringLost' = TRUE
    BY DEF Topic!LoseRing
  <1>3. /\ doing' = doing /\ batch' = batch /\ next_sequence' = next_sequence
        /\ sequence_' = sequence_ /\ loss_tolerant' = loss_tolerant /\ addOne' = addOne
    BY <1>2 DEF Topic!setup, Topic!runner
  <1>4. items' \in Seq(Nat) /\ Len(items') = 0
    <2>1. <<>> \in Seq(Nat) /\ Len(<<>>) = 0
      OBVIOUS
    <2> QED
      BY <1>2, <2>1, Zenon
  <1>5. /\ Topicshift \in Int /\ Topic!tail \in Int /\ Topicnewest \in Nat /\ Topicagain \in 0..1
        /\ published \in Nat /\ next_sequence \in Nat /\ sequence_ \in Nat
        /\ Len(items) \in Nat /\ ring_head \in Nat
    BY <1>1, TopicNumbers DEF TopicTypes
  <1>6. published - (0 + 0) = published /\ 0 + 0 - 1 = -1
    BY <1>5
  <1>7. Topicshift' = published /\ Topic!tail' = -1
    BY <1>2, <1>4, <1>6, Zenon DEF Topicshift, Topic!tail
  <1>8. Topicnewest' = Topicnewest /\ Topicagain' = Topicagain /\ ~TopicGapless'
    BY <1>2, <1>3 DEF Topicnewest, Topicagain, TopicGapless
  <1>9. Topicnewest =< published /\ Topicshift =< published
    BY <1>1, <1>5 DEF TopicKept, Topicshift
  <1>10. TopicTypes'
    BY <1>1, <1>2, <1>3, <1>4 DEF TopicTypes
  <1>11. TopicRing'
    <2>1. Capacity \in Nat
      BY <1>1 DEF TopicTypes, TopicSizes
    <2>2. published >= 0 /\ 0 =< Capacity /\ ~(0 > 0) /\ 1..0 = {}
      BY <1>5, <2>1
    <2>3. \A i \in 1..Len(items') : items'[i] = published' - Len(items') + i
      BY <1>4, <2>2, Zenon
    <2> QED
      BY <1>2, <1>4, <1>7, <2>2, <2>3 DEF TopicRing
  <1>12. TopicKept'
    <2>1. \A s \in Nat : Topicnewest =< s + 1 + published
      BY <1>5, <1>9
    <2>2. stored \in Nat \cup {-1}
      BY <1>1 DEF TopicTypes
    <2>3. stored >= 0 => Topicnewest =< stored + 1 + published
      BY <2>1, <2>2
    <2> QED
      BY <1>2, <1>7, <1>8, <1>9, <2>3 DEF TopicKept
  <1>13. TopicReading'
    <2>1. Topicnewest < sequence_ + 1 + published + Topicagain
      BY <1>5, <1>9
    <2> QED
      BY <1>3, <1>7, <1>8, <1>9, <2>1 DEF TopicReading
  <1>14. TopicBatch'
    <2> SUFFICES ASSUME doing \in {"batch", "process"}
                 PROVE  TopicBatch'
      BY <1>3, Zenon DEF TopicBatch
    <2>1. \A i \in 1..Len(batch) :
              /\ batch[i][1] = next_sequence - Len(batch) + i - 1
              /\ batch[i][2] = batch[1][2] + i - 1
              /\ batch[i][2] =< batch[i][1] + 1 + published /\ batch[i][2] =< published
      <3> TAKE i \in 1..Len(batch)
      <3>1. /\ batch[i][1] = next_sequence - Len(batch) + i - 1
            /\ batch[i][2] = batch[1][2] + i - 1
            /\ batch[i][2] =< batch[i][1] + 1 + Topicshift /\ batch[i][2] =< published
        BY <1>1, Zenon DEF TopicBatch
      <3>2. batch[i] \in Nat \X Nat
        BY <1>1 DEF TopicTypes
      <3>3. batch[i][2] =< batch[i][1] + 1 + published
        BY <1>5, <1>9, <3>1, <3>2
      <3> QED
        BY <3>1, <3>3, Zenon
    <2>2. /\ batch # <<>> => Topicnewest < batch[1][2] + Topicagain
          /\ doing = "process" => batch # <<>> /\ stored = batch[1][1]
      BY <1>1, Zenon DEF TopicBatch
    <2>3. Topicnewest =< next_sequence + published
      BY <1>5, <1>9
    <2> QED
      BY <1>2, <1>3, <1>7, <1>8, <1>9, <2>1, <2>2, <2>3, Zenon DEF TopicBatch
  <1>15. Topic!InOrder'
    BY <1>1, <1>2, <1>3 DEF Topic!InOrder
  <1> QED
    BY <1>10, <1>11, <1>12, <1>13, <1>14, <1>15 DEF TopicIInv

\* A ringbuffer with one message more, the oldest dropped if it was full.
LEMMA TopicGrowing ==
    ASSUME TopicTypes, TopicRing, Topic!publish
    PROVE  /\ items' \in Seq(Nat) /\ ring_head' \in Nat /\ published' = published + 1
           /\ ring_head' >= ring_head /\ Topic!tail' = Topic!tail + 1 /\ Topicshift' = Topicshift /\ TopicRing'
           /\ ringLost' = ringLost
  <1>1. /\ Capacity \in Nat \ {0} /\ items \in Seq(Nat) /\ ring_head \in Nat /\ published \in Nat
        /\ Len(items) \in Nat
    BY DEF TopicTypes, TopicSizes
  <1>2. /\ Len(items) =< Capacity /\ Topicshift >= 0 /\ (~ringLost => Topicshift = 0)
        /\ \A i \in 1..Len(items) : items[i] = published - Len(items) + i
    BY DEF TopicRing
  <1>3. ringLost' = ringLost /\ published' = published + 1 /\ published + 1 \in Nat
    BY <1>1 DEF Topic!publish
  <1>4. PICK n \in Nat : n = Len(items)
    BY <1>1
  <1>5. PICK kept \in Seq(Nat) :
            /\ items' = Append(kept, published + 1)
            /\ \/ n = Capacity /\ Len(kept) = n - 1 /\ ring_head' = ring_head + 1
               \/ n < Capacity /\ Len(kept) = n /\ ring_head' = ring_head
            /\ \A i \in 1..Len(kept) : kept[i] = published - Len(kept) + i
    <2>1. CASE n = Capacity
      <3>1. items # <<>>
        <4>1. Len(<<>>) = 0
          OBVIOUS
        <4> QED
          BY <1>1, <1>4, <2>1, <4>1, Zenon
      <3>2. /\ Tail(items) \in Seq(Nat) /\ Len(Tail(items)) = n - 1
            /\ \A i \in 1..Len(Tail(items)) : i + 1 \in 1..n /\ Tail(items)[i] = items[i + 1]
        BY <1>1, <1>4, <3>1, TopicRest
      <3>3. items' = Append(Tail(items), published + 1) /\ ring_head' = ring_head + 1
        BY <1>4, <2>1 DEF Topic!publish
      <3>4. \A i \in 1..(n - 1) : published - n + (i + 1) = published - (n - 1) + i
        BY <1>1
      <3>5. \A i \in 1..Len(Tail(items)) : Tail(items)[i] = published - Len(Tail(items)) + i
        BY <1>2, <1>4, <3>2, <3>4
      <3> QED
        BY <2>1, <3>2, <3>3, <3>5, Zenon
    <2>2. CASE n # Capacity
      <3>1. items' = Append(items, published + 1) /\ ring_head' = ring_head
        BY <1>4, <2>2, Zenon DEF Topic!publish
      <3>2. n < Capacity
        BY <1>1, <1>2, <1>4, <2>2
      <3> QED
        BY <1>1, <1>2, <1>4, <3>1, <3>2
    <2> QED
      BY <2>1, <2>2
  <1>6. PICK m \in Nat : m = Len(kept)
    BY <1>5
  <1>7. /\ items' \in Seq(Nat) /\ Len(items') = m + 1 /\ items'[m + 1] = published + 1
        /\ \A i \in 1..m : items'[i] = kept[i]
    BY <1>3, <1>5, <1>6
  <1>8. /\ ring_head' \in Nat /\ ring_head' >= ring_head /\ m + 1 =< Capacity
        /\ ring_head' + m = ring_head + n
    <2>1. CASE n = Capacity /\ m = n - 1 /\ ring_head' = ring_head + 1
      BY <1>1, <2>1
    <2>2. CASE n < Capacity /\ m = n /\ ring_head' = ring_head
      BY <1>1, <2>2
    <2> QED
      BY <1>5, <1>6, <2>1, <2>2, Zenon
  <1>9. Topic!tail' = Topic!tail + 1 /\ Topicshift' = Topicshift
    <2>1. /\ Topic!tail' = ring_head' + (m + 1) - 1 /\ Topic!tail = ring_head + n - 1
          /\ Topicshift' = (published + 1) - (ring_head' + (m + 1)) /\ Topicshift = published - (ring_head + n)
      BY <1>3, <1>4, <1>7 DEF Topic!tail, Topicshift
    <2>2. PICK h \in Nat : h = ring_head' /\ h + m = ring_head + n
      BY <1>8
    <2>3. /\ h + (m + 1) - 1 = (ring_head + n - 1) + 1
          /\ (published + 1) - (h + (m + 1)) = published - (ring_head + n)
      <3>1. \A g, p \in Nat : h + m = g + n => /\ h + (m + 1) - 1 = (g + n - 1) + 1
                                              /\ (p + 1) - (h + (m + 1)) = p - (g + n)
        OBVIOUS
      <3> QED
        BY <1>1, <2>2, <3>1, Zenon
    <2> QED
      BY <2>1, <2>2, <2>3, Zenon
  <1>10. TopicRing'
    <2>1. \A i \in 1..(m + 1) : items'[i] = (published + 1) - (m + 1) + i
      <3> TAKE i \in 1..(m + 1)
      <3>1. CASE i = m + 1
        BY <1>1, <1>7, <3>1
      <3>2. CASE i \in 1..m
        <4>1. items'[i] = published - m + i
          BY <1>5, <1>6, <1>7, <3>2
        <4> QED
          BY <1>1, <4>1
      <3> QED
        BY <3>1, <3>2
    <2>2. m + 1 > 0
      OBVIOUS
    <2> QED
      BY <1>2, <1>3, <1>7, <1>8, <1>9, <2>1, <2>2, Zenon DEF TopicRing
  <1> QED
    BY <1>3, <1>7, <1>8, <1>9, <1>10, Zenon

\* A message is published.
LEMMA TopicPublishOk ==
    ASSUME TopicIInv, Topic!publish
    PROVE  TopicIInv'
  <1>1. TopicTypes /\ TopicRing /\ TopicKept /\ TopicReading /\ TopicBatch /\ Topic!InOrder
    BY DEF TopicIInv
  <1>2. /\ items' \in Seq(Nat) /\ ring_head' \in Nat /\ published' = published + 1
        /\ ring_head' >= ring_head /\ Topic!tail' = Topic!tail + 1 /\ Topicshift' = Topicshift /\ TopicRing'
        /\ ringLost' = ringLost
    BY <1>1, TopicGrowing, Zenon
  <1>3. /\ UNCHANGED Topic!setup /\ UNCHANGED Topic!runner /\ stored' = stored /\ received' = received
    BY DEF Topic!publish
  <1>4. /\ doing' = doing /\ batch' = batch /\ next_sequence' = next_sequence
        /\ sequence_' = sequence_ /\ loss_tolerant' = loss_tolerant /\ addOne' = addOne
    BY <1>3, Zenon DEF Topic!setup, Topic!runner
  <1>5. /\ Topicshift \in Int /\ Topic!tail \in Int /\ Topicnewest \in Nat /\ Topicagain \in 0..1
        /\ published \in Nat /\ next_sequence \in Nat /\ sequence_ \in Nat /\ ring_head \in Nat
        /\ stored \in Int
    BY <1>1, TopicNumbers DEF TopicTypes
  <1>6. Topicnewest' = Topicnewest /\ Topicagain' = Topicagain /\ TopicGapless' = TopicGapless
    BY <1>2, <1>3, <1>4 DEF Topicnewest, Topicagain, TopicGapless
  <1>7. /\ \A n \in Int : n =< published => n =< published + 1
        /\ \A n \in Int : n > Topic!tail + 1 => n > Topic!tail
        /\ \A n \in Int : n > Topic!tail + 1 + 1 => n > Topic!tail + 1
    BY <1>5
  <1>8. TopicTypes'
    <2>1. published + 1 \in Nat
      BY <1>5
    <2> QED
      BY <1>1, <1>2, <1>3, <1>4, <2>1 DEF TopicTypes
  <1>9. TopicKept'
    BY <1>1, <1>2, <1>3, <1>5, <1>6, <1>7 DEF TopicKept
  <1>10. TopicReading'
    <2>1. \A h, n, s, a \in Int, g \in Nat :
             h >= g /\ n < g + 1 + s + a => n < h + 1 + s + a
      OBVIOUS
    <2>2. Topicnewest < ring_head + 1 + Topicshift + Topicagain => Topicnewest < ring_head' + 1 + Topicshift + Topicagain
      <3>1. ring_head' \in Int /\ Topicnewest \in Int /\ Topicshift \in Int /\ Topicagain \in Int /\ ring_head \in Nat
        BY <1>2, <1>5
      <3>2. ring_head' >= ring_head
        BY <1>2
      <3> QED
        BY <2>1, <3>1, <3>2, Zenon
    <2>3. sequence_ > Topic!tail + 1 + 1 => sequence_ > Topic!tail + 1
      BY <1>5
    <2>4. ASSUME doing = "reading"
          PROVE  /\ Topicnewest < sequence_ + 1 + Topicshift + Topicagain \/ Topicnewest < ring_head' + 1 + Topicshift + Topicagain
                 /\ sequence_ > Topic!tail + 1 + 1 => Topicnewest =< Topicshift
                 /\ TopicGapless /\ received # <<>> => sequence_ =< Topicnewest
      BY <1>1, <2>2, <2>3, <2>4 DEF TopicReading
    <2>5. doing = "seek" => Topicnewest =< Topicshift
      BY <1>1, ZenonT(30) DEF TopicReading
    <2> QED
      BY <1>2, <1>3, <1>4, <1>6, <2>4, <2>5 DEF TopicReading
  <1>11. TopicBatch'
    <2>1. \A i \in 1..Len(batch) : batch[i][2] \in Int
      BY <1>1 DEF TopicTypes
    <2>2. \A i \in 1..Len(batch) : batch[i][2] =< published => batch[i][2] =< published + 1
      BY <1>7, <2>1, Zenon
    <2>3. next_sequence > Topic!tail + 1 + 1 => next_sequence > Topic!tail + 1
      BY <1>5
    <2> QED
      BY <1>1, <1>2, <1>3, <1>4, <1>5, <1>6, <1>7, <2>2, SMTT(20) DEF TopicBatch
  <1>12. Topic!InOrder'
    BY <1>1, <1>2, <1>3, <1>4, Zenon DEF Topic!InOrder
  <1> QED
    BY <1>2, <1>8, <1>9, <1>10, <1>11, <1>12 DEF TopicIInv

\* Every step of the topic preserves the invariant.
LEMMA TopicNextOk ==
    ASSUME TopicIInv, [Topic!Next]_(Topic!vars)
    PROVE  TopicIInv'
  <1>1. CASE Topic!add_message_listener
    BY <1>1, TopicAddOk
  <1>2. CASE Topic!ReadCancelled \/ Topic!ReadFails \/ Topic!SeekFails \/ Topic!Restart
    BY <1>2, TopicResignOk
  <1>3. CASE Topic!Read
    BY <1>3, TopicReadOk
  <1>4. CASE Topic!ReadRefused
    BY <1>4, TopicRefusedOk
  <1>5. CASE Topic!handle_illegal_argument_exception
    BY <1>5, TopicSeekOk
  <1>6. CASE Topic!Store
    BY <1>6, TopicStoreOk
  <1>7. CASE Topic!process
    BY <1>7, TopicProcessOk
  <1>8. CASE Topic!processThrows
    BY <1>8, TopicThrowsOk
  <1>9. CASE Topic!BatchDone
    BY <1>9, TopicBatchDoneOk
  <1>10. CASE Topic!publish
    BY <1>10, TopicPublishOk
  <1>11. CASE Topic!LoseRing
    BY <1>11, TopicLoseRingOk
  <1>12. CASE Topic!remove_message_listener \/ UNCHANGED Topic!vars
    BY <1>12, TopicAsideOk
  <1>13. Topic!Next \/ UNCHANGED Topic!vars
    OBVIOUS
  <1> QED
    BY <1>1, <1>2, <1>3, <1>4, <1>5, <1>6, <1>7, <1>8, <1>9, <1>10, <1>11, <1>12, <1>13, Zenon
       DEF Topic!Next, Topic!Step, Topic!Idle

\* Whatever the capacity and the batch size are, and however publishers,
\* restarts, failing calls and a lost ringbuffer interleave with the runner,
\* its listener is called in the order of publication, without a repetition
\* if it resumes from the stored sequence plus one, and without a gap if it
\* is not loss tolerant and resumes from the stored sequence itself.
THEOREM TopicCalledInOrder ==
    ASSUME TopicSizes
    PROVE  Topic!Spec => []Topic!InOrder
  <1>1. Topic!Init => TopicIInv
    BY TopicInitOk
  <1>2. TopicIInv /\ [Topic!Next]_(Topic!vars) => TopicIInv'
    BY TopicNextOk
  <1>3. TopicIInv => Topic!InOrder
    BY DEF TopicIInv
  <1> QED
    BY <1>1, <1>2, <1>3, PTL DEF Topic!Spec
=============================================================================
