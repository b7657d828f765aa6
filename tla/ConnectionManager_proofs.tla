----------------------- MODULE ConnectionManager_proofs -----------------------
(***************************************************************************)
(* No reconnection is lost, for any members, clusters and modes.           *)
(* NoLostReconnect alone is not inductive: on_connection_close() relies on *)
(* the flag connect_to_cluster_task_submitted_, which may stand for a task *)
(* only while that task has not ended (FlagMeansTask); the cleared map of  *)
(* shutdown() is allowed because the client is not running by then         *)
(* (StoppedFirst); and a registered connection makes the map non-empty     *)
(* because it is filed under the member it reaches (Shapes).               *)
(***************************************************************************)
EXTENDS ConnectionManager, TLAPS

Shapes ==
    /\ DOMAIN proc = Procs \cup {Timer}
    /\ DOMAIN active = Members
    /\ conn \in [Conns -> Connection]
    /\ \A k \in Conns : conn[k].stage = "dialing" => conn[k].to \in Members

StoppedFirst == stopping # "no" => ~running

FlagMeansTask == submitted => proc[Task] # "idle" \/ stopper

IInv == Shapes /\ StoppedFirst /\ FlagMeansTask /\ NoLostReconnect

\* The reconnect task is none of the other threads.
LEMMA TaskIsItself ==
    Task \in Procs /\ Task # Main /\ Task # Timer /\ Task \notin Members
  BY MembersAssumption DEF Procs, Dialers, Task, Main, Timer

\* A connection attempt of the reconnect task, good or bad, does not end the task.
LEMMA AttemptKeepsTask ==
    ASSUME Shapes, NEW p, NEW pr,
           pr = [proc EXCEPT ![p] = Succeeded(p)] \/ pr = [proc EXCEPT ![p] = Failed(p)]
    PROVE  DOMAIN pr = Procs \cup {Timer} /\ (proc[Task] # "idle" => pr[Task] # "idle")
  BY TaskIsItself DEF Shapes, Succeeded, Failed

\* Closing a connection leaves its stage and the member it reaches alone.
LEMMA Closing ==
    ASSUME NEW c \in Connection, NEW x \in {"begun", "done"}, NEW d,
           d = [c EXCEPT !.alive = FALSE, !.closer = x]
    PROVE  d \in Connection /\ d.stage = c.stage /\ d.to = c.to
  <1>1. d \in Connection
    BY Zenon DEF Connection
  <1>2. d.stage = c.stage /\ d.to = c.to
    BY DEF Connection
  <1> QED BY <1>1, <1>2

\* So does listing it for shutdown().
LEMMA Listing ==
    ASSUME NEW c \in Connection, NEW d, d = [c EXCEPT !.closer = "listed"]
    PROVE  d \in Connection /\ d.stage = c.stage /\ d.to = c.to
  <1>1. d \in Connection
    BY DEF Connection
  <1>2. d.stage = c.stage /\ d.to = c.to
    BY DEF Connection
  <1> QED BY <1>1, <1>2

\* A registered connection is not being dialed any more.
LEMMA Adding ==
    ASSUME NEW c \in Connection, NEW d, d = [c EXCEPT !.stage = "added", !.remote = TRUE]
    PROVE  d \in Connection /\ d.stage = "added"
  <1>1. d \in Connection
    BY Zenon DEF Connection
  <1>2. d.stage = "added"
    BY DEF Connection
  <1> QED BY <1>1, <1>2

\* on_connection_close(): whoever empties the map submits the task, finds it
\* submitted, or stops the client.
LEMMA RemovalTriggers ==
    ASSUME Shapes, FlagMeansTask, NoLostReconnect,
           NEW k, NEW pr, RemoveConnection(k, pr),
           DOMAIN pr = Procs \cup {Timer}, proc[Task] # "idle" => pr[Task] # "idle",
           UNCHANGED <<running, established>>
    PROVE  /\ DOMAIN proc' = Procs \cup {Timer} /\ DOMAIN active' = Members
           /\ FlagMeansTask' /\ NoLostReconnect'
  <1>1. CASE active[conn[k].to] # k
    BY <1>1 DEF RemoveConnection, Shapes, FlagMeansTask, NoLostReconnect, Empty
  <1>2. CASE active[conn[k].to] = k /\ ~Empty(active')
    BY <1>2 DEF RemoveConnection, Shapes, FlagMeansTask, NoLostReconnect, Empty
  <1>3. CASE active[conn[k].to] = k /\ Empty(active')
    <2>1. Disconnected /\ proc' = WithTask(pr)
      BY <1>3 DEF RemoveConnection
    <2>2. DOMAIN active' = Members
      BY <1>3 DEF RemoveConnection, Shapes
    <2>3. DOMAIN proc' = Procs \cup {Timer}
      BY <2>1 DEF WithTask
    <2>4. FlagMeansTask' /\ NoLostReconnect'
      BY <2>1, TaskIsItself, Zenon
         DEF Disconnected, WithTask, Submits, FlagMeansTask, NoLostReconnect
    <2> QED BY <2>2, <2>3, <2>4
  <1> QED BY <1>1, <1>2, <1>3

\* Initially the flag is set exactly when the task was submitted by start().
LEMMA InitIInv == Init => IInv
  BY TaskIsItself DEF Init, IInv, Shapes, StoppedFirst, FlagMeansTask, NoLostReconnect,
                      NewConnection, Connection

\* Every step of every thread keeps the invariant.
LEMMA NextIInv == IInv /\ [Next]_vars => IInv'
  <1> SUFFICES ASSUME IInv, [Next]_vars PROVE IInv'
    OBVIOUS
  <1> USE DEF IInv
  <1>t. Task \in Procs /\ Task # Main /\ Task # Timer /\ Task \notin Members
    BY TaskIsItself
  \* neither the map nor the threads' places change
  <1>1. ASSUME NEW k \in Conns, Break(k) \/ CloseReads(k) \/ RecheckAlive(k) \/ ShutdownCloses(k)
        PROVE IInv'
    <2>1. Shapes'
      <3>1. CASE Break(k)
        <4> DEFINE d == [conn[k] EXCEPT !.alive = FALSE, !.closer = "begun"]
        <4>1. conn' = [conn EXCEPT ![k] = d]
          BY <3>1, Zenon DEF Break, Shapes
        <4>2. d \in Connection /\ d.stage = conn[k].stage /\ d.to = conn[k].to
          BY Closing, Zenon DEF Shapes
        <4> HIDE DEF d
        <4> QED BY <3>1, <4>1, <4>2, Zenon DEF Break, Shapes
      <3>2. CASE CloseReads(k)
        BY <3>2 DEF CloseReads, Shapes, Connection
      <3>3. CASE RecheckAlive(k)
        BY <3>3 DEF RecheckAlive, Shapes, Connection
      <3>4. CASE ShutdownCloses(k)
        BY <3>4 DEF ShutdownCloses, Shapes, Connection
      <3> QED BY <1>1, <3>1, <3>2, <3>3, <3>4
    <2>2. StoppedFirst' /\ FlagMeansTask' /\ NoLostReconnect'
      BY <1>1 DEF Break, CloseReads, RecheckAlive, ShutdownCloses, StoppedFirst,
                  FlagMeansTask, NoLostReconnect, Empty
    <2> QED BY <2>1, <2>2
  <1>2. ASSUME NEW k \in Conns, CloseRemoves(k) PROVE IInv'
    <2>1. /\ DOMAIN proc' = Procs \cup {Timer} /\ DOMAIN active' = Members
          /\ FlagMeansTask' /\ NoLostReconnect'
      BY <1>2, RemovalTriggers, Zenon DEF CloseRemoves, Shapes
    <2>2. Shapes' /\ StoppedFirst'
      BY <1>2, <2>1 DEF CloseRemoves, Shapes, Connection, StoppedFirst
    <2> QED BY <2>1, <2>2
  <1>3. ASSUME NEW p \in Procs, NEW m \in Members, Dial(p, m) PROVE IInv'
    <2>1. Shapes' /\ StoppedFirst'
      BY <1>3, Zenon DEF Dial, Opens, NewConnection, Shapes, Connection, StoppedFirst
    <2>2. proc[Task] # "idle" => proc'[Task] # "idle"
      BY <1>3, <1>t DEF Dial, Shapes
    <2>3. FlagMeansTask' /\ NoLostReconnect'
      BY <1>3, <2>2 DEF Dial, FlagMeansTask, NoLostReconnect, Empty
    <2> QED BY <2>1, <2>3
  <1>4. ASSUME NEW p \in Procs, NEW m \in Members, UseExisting(p, m) PROVE IInv'
    <2>1. DOMAIN proc' = Procs \cup {Timer} /\ (proc[Task] # "idle" => proc'[Task] # "idle")
      BY <1>4, AttemptKeepsTask DEF UseExisting
    <2>2. Shapes' /\ StoppedFirst'
      BY <1>4, <2>1 DEF UseExisting, Shapes, StoppedFirst
    <2>3. FlagMeansTask' /\ NoLostReconnect'
      BY <1>4, <2>1 DEF UseExisting, FlagMeansTask, NoLostReconnect, Empty
    <2> QED BY <2>2, <2>3
  \* an attempt ends without a new entry in the map
  <1>5. ASSUME NEW k \in Conns,
               DialFails(k) \/ Refused(k) \/ Duplicate(k) \/ RecheckRunning(k)
        PROVE IInv'
    <2>1. DOMAIN proc' = Procs \cup {Timer} /\ (proc[Task] # "idle" => proc'[Task] # "idle")
      BY <1>5, AttemptKeepsTask, Zenon DEF DialFails, Refused, Duplicate, RecheckRunning
    <2>2. Shapes' /\ StoppedFirst'
      BY <1>5, <2>1 DEF DialFails, Refused, Duplicate, Admitted, RecheckRunning, Shapes,
                        Connection, StoppedFirst
    <2>3. FlagMeansTask' /\ NoLostReconnect'
      BY <1>5, <2>1 DEF DialFails, Refused, Duplicate, Admitted, RecheckRunning,
                        FlagMeansTask, NoLostReconnect, Empty
    <2> QED BY <2>2, <2>3
  \* the map is not empty once the connection is registered
  <1>6. ASSUME NEW k \in Conns, Register(k) PROVE IInv'
    <2>1. k # None /\ conn[k].to \in Members
      <3>1. k # None
        BY MaxConnAssumption DEF Conns, None
      <3> QED BY <1>6, <3>1, Zenon DEF Register, Admitted, Shapes
    <2>2. DOMAIN active' = Members /\ ~Empty(active')
      BY <1>6, <2>1, Zenon DEF Register, Empty
    <2>3. /\ DOMAIN proc' = Procs \cup {Timer}
          /\ proc' = proc \/ (Submits /\ proc'[Task] = "try")
          /\ submitted' => submitted \/ (Submits /\ proc'[Task] = "try")
          /\ stopper => stopper'
      BY <1>6, <1>t, Zenon DEF Register, WithTask, Submits, Shapes
    <2>4. /\ conn' \in [Conns -> Connection]
          /\ \A j \in Conns : conn'[j].stage = "dialing" => conn'[j].to \in Members
      <3> DEFINE closed == ClosedByRestart(k)
      <3>1. \A j \in Conns :
                conn'[j] = IF j = k THEN [conn[k] EXCEPT !.stage = "added", !.remote = TRUE]
                           ELSE IF j \in closed
                             THEN [conn[j] EXCEPT !.alive = FALSE, !.closer = "done"]
                             ELSE conn[j]
        BY <1>6, Zenon DEF Register
      <3> HIDE DEF closed
      <3>2. conn' = [j \in Conns |-> conn'[j]]
        BY <1>6, Zenon DEF Register
      <3>3. ASSUME NEW j \in Conns
            PROVE  /\ conn'[j] \in Connection
                   /\ conn'[j].stage = "dialing" => conn'[j].to \in Members
        <4>1. conn[j] \in Connection /\ conn[k] \in Connection
          BY DEF Shapes
        <4>2. CASE j = k
          <5>1. conn'[j] = [conn[k] EXCEPT !.stage = "added", !.remote = TRUE]
            BY <3>1, <4>2, Zenon
          <5>2. conn'[j] \in Connection /\ conn'[j].stage = "added"
            BY <4>1, <5>1, Adding, Zenon
          <5> QED BY <5>2
        <4>3. CASE j # k /\ j \in closed
          <5>1. conn'[j] = [conn[j] EXCEPT !.alive = FALSE, !.closer = "done"]
            BY <3>1, <4>3, Zenon
          <5>2. /\ conn'[j] \in Connection
                /\ conn'[j].stage = conn[j].stage /\ conn'[j].to = conn[j].to
            BY <4>1, <5>1, Closing, Zenon
          <5> QED BY <5>2 DEF Shapes
        <4>4. CASE j # k /\ j \notin closed
          BY <3>1, <4>1, <4>4, Zenon DEF Shapes
        <4> QED BY <4>2, <4>3, <4>4
      <3> QED BY <3>2, <3>3
    <2>5. Shapes' /\ StoppedFirst'
      BY <1>6, <2>2, <2>3, <2>4, Zenon DEF Register, Shapes, StoppedFirst
    <2>6. FlagMeansTask' /\ NoLostReconnect'
      BY <2>2, <2>3 DEF FlagMeansTask, NoLostReconnect
    <2> QED BY <2>5, <2>6
  <1>7. ASSUME NEW k \in Conns, RecheckDead(k) PROVE IInv'
    <2> DEFINE pr == [proc EXCEPT ![conn[k].by] = Failed(conn[k].by)]
    <2>1. RemoveConnection(k, pr) /\ UNCHANGED <<running, established, stopping>>
      BY <1>7 DEF RecheckDead
    <2>2. DOMAIN pr = Procs \cup {Timer} /\ (proc[Task] # "idle" => pr[Task] # "idle")
      BY AttemptKeepsTask, Zenon
    <2> HIDE DEF pr
    <2>3. /\ DOMAIN proc' = Procs \cup {Timer} /\ DOMAIN active' = Members
          /\ FlagMeansTask' /\ NoLostReconnect'
      BY <2>1, <2>2, RemovalTriggers
    <2>4. Shapes' /\ StoppedFirst'
      BY <1>7, <2>1, <2>3 DEF RecheckDead, Shapes, Connection, StoppedFirst
    <2> QED BY <2>3, <2>4
  \* a task that gives up stops the client
  <1>8. ASSUME NEW p \in Procs, GiveUp(p) PROVE IInv'
    BY <1>8 DEF GiveUp, Shapes, StoppedFirst, FlagMeansTask, NoLostReconnect
  \* the task looks at the map in the step that clears its flag
  <1>9. ASSUME TaskEnds PROVE IInv'
    BY <1>9, <1>t DEF TaskEnds, Shapes, StoppedFirst, FlagMeansTask, NoLostReconnect, Empty
  \* the other threads move
  <1>10. ASSUME \/ StartWalks \/ StartEnds \/ WalkBegins \/ WalkChecks
                \/ \E m \in Members : StartSkips(m) \/ WalkVisits(m) \/ MemberTask(m)
         PROVE IInv'
    <2>1. DOMAIN proc' = Procs \cup {Timer} /\ proc'[Task] = proc[Task]
      BY <1>10, <1>t, Zenon DEF StartWalks, StartSkips, StartEnds, WalkBegins, WalkChecks,
                         WalkVisits, MemberTask, Shapes
    <2>2. UNCHANGED <<running, stopping, stopper, active, established, submitted, conn>>
      BY <1>10 DEF StartWalks, StartSkips, StartEnds, WalkBegins, WalkChecks, WalkVisits,
                   MemberTask
    <2> QED BY <2>1, <2>2 DEF Shapes, StoppedFirst, FlagMeansTask, NoLostReconnect, Empty
  <1>11. ASSUME NEW m \in Members, NEW n \in Members, StartConnects(m, n) PROVE IInv'
    <2>1. Shapes' /\ StoppedFirst'
      BY <1>11, Zenon DEF StartConnects, Opens, NewConnection, Dialers, Procs, Shapes, Connection,
                   StoppedFirst
    <2>2. FlagMeansTask' /\ NoLostReconnect'
      BY <1>11, <1>t DEF StartConnects, FlagMeansTask, NoLostReconnect, Empty, Shapes
    <2> QED BY <2>1, <2>2
  \* the initialization of the client does not touch the connections
  <1>12. ASSUME NEW k \in Conns, InitTask(k) PROVE IInv'
    <2>1. UNCHANGED <<running, stopping, stopper, active, established, submitted, conn, proc>>
      BY <1>12 DEF InitTask, InitBegins, InitSent, InitEnds, InitFails
    <2> QED BY <2>1 DEF Shapes, StoppedFirst, FlagMeansTask, NoLostReconnect, Empty
  <1>13. ASSUME Shutdown PROVE IInv'
    BY <1>13 DEF Shutdown, Shapes, StoppedFirst, FlagMeansTask, NoLostReconnect
  <1>14. ASSUME ShutdownLists \/ \E view \in SUBSET Members : MembersView(view) PROVE IInv'
    <2>1. /\ DOMAIN conn' = Conns
          /\ \A k \in Conns : conn'[k] \in {conn[k], [conn[k] EXCEPT !.closer = "listed"],
                                 [conn[k] EXCEPT !.alive = FALSE, !.closer = "begun"]}
          /\ conn' = [k \in Conns |-> conn'[k]]
      BY <1>14, Zenon DEF ShutdownLists, MembersView
    <2>2. ASSUME NEW k \in Conns
          PROVE  /\ conn'[k] \in Connection
                 /\ conn'[k].stage = "dialing" => conn'[k].to \in Members
      <3>1. conn[k] \in Connection
        BY DEF Shapes
      <3>2. /\ conn'[k] \in Connection
            /\ conn'[k].stage = conn[k].stage /\ conn'[k].to = conn[k].to
        <4>1. CASE conn'[k] = [conn[k] EXCEPT !.closer = "listed"]
          BY <3>1, <4>1, Listing
        <4>2. CASE conn'[k] = [conn[k] EXCEPT !.alive = FALSE, !.closer = "begun"]
          BY <3>1, <4>2, Closing, Zenon
        <4> QED BY <2>1, <3>1, <4>1, <4>2, Zenon
      <3> QED BY <3>2 DEF Shapes
    <2>3. conn' \in [Conns -> Connection]
      BY <2>1, <2>2, Zenon
    <2>4. UNCHANGED <<running, stopper, active, established, submitted, proc>>
      BY <1>14, Zenon DEF ShutdownLists, MembersView
    <2>5. StoppedFirst'
      BY <1>14, Zenon DEF ShutdownLists, MembersView, StoppedFirst
    <2> QED BY <2>2, <2>3, <2>4, <2>5 DEF Shapes, FlagMeansTask, NoLostReconnect, Empty
  <1>15. ASSUME ShutdownEnds PROVE IInv'
    BY <1>15 DEF ShutdownEnds, Shapes, StoppedFirst, FlagMeansTask, NoLostReconnect
  <1>16. ASSUME UNCHANGED vars PROVE IInv'
    BY <1>16 DEF vars, Shapes, StoppedFirst, FlagMeansTask, NoLostReconnect, Empty
  <1> QED
    BY <1>1, <1>2, <1>3, <1>4, <1>5, <1>6, <1>7, <1>8, <1>9, <1>10, <1>11, <1>12, <1>13,
       <1>14, <1>15, <1>16 DEF Next, Close, OnAuthenticated, Open

\* An established, running client without connections has its reconnect task under
\* way or is about to be stopped, whatever the members, the modes and the number of
\* connections: no interleaving of on_connection_close(), on_authenticated(), the
\* task's end and shutdown() loses the reconnection.
THEOREM ReconnectNotLost == Spec => []NoLostReconnect
  <1>1. IInv => NoLostReconnect
    BY DEF IInv
  <1> QED
    BY InitIInv, NextIInv, <1>1, PTL DEF Spec

-------------------------------------------------------------------------------
(***************************************************************************)
(* No dead connection stays registered, no open one is lost and none       *)
(* survives shutdown(), for any members, clusters, modes and number of     *)
(* connections.  The three depend on each other: shutdown() closes what is *)
(* in the map, so every open connection has to be there (NoOrphan), or its *)
(* opener has to look at running afterwards; and a closer removes only its *)
(* own connection, which is filed under the member it reaches.  Ok says    *)
(* this of one connection, CInv of all.                                    *)
(***************************************************************************)

ActiveKnown == lastConn \in 0 .. MaxConn /\ active \in [Members -> 0 .. lastConn]

Ok(k) ==
    /\ conn[k].stage # "unused" => k =< lastConn /\ conn[k].to \in Members
    /\ \A m \in Members : active[m] = k =>
          /\ conn[k].to = m /\ conn[k].remote
          /\ conn[k].stage \in {"added", "checked", "ended"}
          /\ conn[k].alive \/ conn[k].closer \in {"begun", "remove"}
                           \/ conn[k].stage = "added"
    /\ conn[k].alive => conn[k].closer \in {"none", "listed"}
    /\ conn[k].alive /\ conn[k].stage \in {"added", "checked"} =>
          active[conn[k].to] = k \/ ~running
    /\ conn[k].alive /\ conn[k].stage = "ended" => active[conn[k].to] = k
    /\ stopping # "no" /\ conn[k].stage = "ended" =>
          ~conn[k].alive \/ conn[k].closer = "listed"

CInv == ActiveKnown /\ \A k \in Conns : Ok(k)

\* A step that changes one connection only, and not the map.
LEMMA OneChanges ==
    ASSUME CInv, NEW k \in Conns, Ok(k)',
           \A j \in Conns \ {k} : conn'[j] = conn[j],
           UNCHANGED <<active, lastConn, running, stopping>>
    PROVE  CInv'
  <1>1. ActiveKnown'
    BY DEF CInv, ActiveKnown
  <1>2. ASSUME NEW j \in Conns, j # k PROVE Ok(j)'
    <2>1. conn'[j] = conn[j] /\ Ok(j)
      BY <1>2 DEF CInv
    <2> QED BY <2>1 DEF Ok
  <1> QED BY <1>1, <1>2 DEF CInv

\* on_connection_close() takes its own connection out of the map, no other.
LEMMA RemovesItsOwn ==
    ASSUME CInv, NEW k \in Conns, NEW pr, RemoveConnection(k, pr)
    PROVE  /\ active' \in [Members -> 0 .. lastConn]
           /\ \A m \in Members : active'[m] = IF active[m] = k THEN None ELSE active[m]
  <1>1. ActiveKnown /\ \A m \in Members : active[m] = k => conn[k].to = m
    BY DEF CInv, Ok
  <1>2. k # None
    BY MaxConnAssumption DEF Conns, None
  <1>3. CASE active[conn[k].to] # k
    BY <1>1, <1>3 DEF RemoveConnection, ActiveKnown
  <1>4. CASE active[conn[k].to] = k
    <2>1. active' = [active EXCEPT ![conn[k].to] = None]
      BY <1>4 DEF RemoveConnection
    <2>2. active' \in [Members -> 0 .. lastConn]
      <3>1. None \in 0 .. lastConn
        BY <1>1, MaxConnAssumption DEF ActiveKnown, None
      <3> QED BY <1>1, <2>1, <3>1, Zenon DEF ActiveKnown
    <2>3. \A m \in Members : active'[m] = IF active[m] = k THEN None ELSE active[m]
      BY <1>1, <1>4, <2>1 DEF ActiveKnown
    <2> QED BY <2>2, <2>3
  <1> QED BY <1>3, <1>4

\* So removing a connection that is dead leaves every other one as it was.
LEMMA DeadRemoved ==
    ASSUME CInv, NEW k \in Conns, ~conn[k].alive,
           NEW pr, RemoveConnection(k, pr),
           \A j \in Conns \ {k} : conn'[j] = conn[j],
           conn'[k].to = conn[k].to, conn'[k].alive = conn[k].alive,
           conn[k].stage = "unused" => conn'[k].stage = "unused",
           UNCHANGED <<lastConn, running, stopping>>
    PROVE  CInv'
  <1>1. /\ active' \in [Members -> 0 .. lastConn]
        /\ \A m \in Members : active'[m] = IF active[m] = k THEN None ELSE active[m]
    BY RemovesItsOwn
  <1>2. ActiveKnown'
    BY <1>1 DEF CInv, ActiveKnown
  <1>3. \A j \in Conns : j # None
    BY MaxConnAssumption DEF Conns, None
  <1>4. ASSUME NEW j \in Conns PROVE Ok(j)'
    <2>1. Ok(j)
      BY DEF CInv
    <2>2. CASE j = k
      <3>1. \A m \in Members : active'[m] # k
        BY <1>1, <1>3
      <3>2. ~conn'[k].alive
        OBVIOUS
      <3>3. conn'[k].stage # "unused" => k =< lastConn' /\ conn'[k].to \in Members
        BY <2>1, <2>2 DEF Ok
      <3> QED BY <2>2, <3>1, <3>2, <3>3 DEF Ok
    <2>3. CASE j # k
      <3>1. conn'[j] = conn[j]
        BY <2>3
      <3>2. \A m \in Members : active'[m] = j <=> active[m] = j
        BY <1>1, <1>3, <2>3
      <3>3. conn[j].alive => conn[j].stage = "unused" \/ conn[j].to \in Members
        BY <2>1 DEF Ok
      <3> QED BY <2>1, <3>1, <3>2, <3>3 DEF Ok
    <2> QED BY <2>2, <2>3
  <1> QED BY <1>2, <1>4 DEF CInv

\* connect() adds a connection that is not in the map.
LEMMA OpeningKeeps ==
    ASSUME Shapes, CInv, NEW p \in Procs, NEW m \in Members, Opens(p, m),
           UNCHANGED <<active, running, stopping>>
    PROVE  CInv'
  <1>1. PICK k \in Conns :
        /\ k = lastConn + 1 /\ lastConn' = k
        /\ conn' = [conn EXCEPT ![k] = [NewConnection EXCEPT !.stage = "dialing", !.by = p,
                                                             !.to = m, !.alive = TRUE]]
    BY Zenon DEF Opens
  <1>2. lastConn \in Nat /\ lastConn < k
    BY <1>1, MaxConnAssumption DEF CInv, ActiveKnown
  <1>3. /\ conn'[k].stage = "dialing" /\ conn'[k].to = m /\ conn'[k].alive
        /\ conn'[k].closer = "none"
    BY <1>1 DEF Shapes, NewConnection
  <1>4. \A j \in Conns \ {k} : conn'[j] = conn[j]
    BY <1>1 DEF Shapes
  <1>5. ActiveKnown'
    <2>1. lastConn' \in 0 .. MaxConn
      BY <1>1, <1>2, MaxConnAssumption DEF Conns
    <2>2. \A n \in Members : active'[n] \in 0 .. lastConn'
      BY <1>1, <1>2, MaxConnAssumption DEF CInv, ActiveKnown, Conns
    <2> QED BY <2>1, <2>2 DEF CInv, ActiveKnown
  <1>6. Ok(k)'
    <2>1. \A n \in Members : active'[n] # k
      BY <1>2 DEF CInv, ActiveKnown
    <2>2. k =< lastConn'
      BY <1>1, <1>2, MaxConnAssumption DEF Conns
    <2> QED BY <1>3, <2>1, <2>2 DEF Ok
  <1>7. ASSUME NEW j \in Conns, j # k PROVE Ok(j)'
    <2>1. Ok(j) /\ conn'[j] = conn[j]
      BY <1>4, <1>7 DEF CInv
    <2>2. j =< lastConn => j =< lastConn'
      BY <1>1, <1>2, MaxConnAssumption DEF Conns
    <2> QED BY <2>1, <2>2 DEF Ok
  <1> QED BY <1>5, <1>6, <1>7 DEF CInv

\* on_authenticated() registers a connection; a cluster restart closes others,
\* which leave the map in the same step.
LEMMA RegisteringKeeps ==
    ASSUME Shapes, CInv, NEW k \in Conns, Register(k)
    PROVE  CInv'
  <1> DEFINE closed == ClosedByRestart(k)
             left == [m \in Members |-> IF active[m] \in closed THEN None ELSE active[m]]
  <1>0. \A j \in Conns : j # None
    BY MaxConnAssumption DEF Conns, None
  <1>1. /\ conn[k].stage = "dialing" /\ conn[k].to \in Members
        /\ active[conn[k].to] = None /\ k =< lastConn
    BY Zenon DEF Register, Admitted, Shapes, CInv, Ok
  <1>2. active' = [left EXCEPT ![conn[k].to] = k] /\ UNCHANGED <<lastConn, running, stopping>>
    BY Zenon DEF Register
  <1>3. \A j \in Conns :
            conn'[j] = IF j = k THEN [conn[k] EXCEPT !.stage = "added", !.remote = TRUE]
                       ELSE IF j \in closed
                         THEN [conn[j] EXCEPT !.alive = FALSE, !.closer = "done"]
                         ELSE conn[j]
    BY Zenon DEF Register
  <1> HIDE DEF closed
  <1>4. \A m \in Members : active'[m] = IF m = conn[k].to THEN k
                                         ELSE IF active[m] \in closed THEN None ELSE active[m]
    BY <1>1, <1>2
  <1>5. ActiveKnown'
    <2>1. lastConn \in 0 .. MaxConn /\ active \in [Members -> 0 .. lastConn]
      BY DEF CInv, ActiveKnown
    <2>2. k \in 0 .. lastConn /\ None \in 0 .. lastConn
      BY <1>1, <2>1, MaxConnAssumption DEF Conns, None
    <2>3. left \in [Members -> 0 .. lastConn]
      BY <2>1, <2>2
    <2> QED BY <1>2, <2>1, <2>2, <2>3, Zenon DEF ActiveKnown
  <1> HIDE DEF left
  <1>6. Ok(k)'
    <2>1. conn[k] \in Connection /\ Ok(k)
      BY DEF Shapes, CInv
    <2>2. conn'[k] = [conn[k] EXCEPT !.stage = "added", !.remote = TRUE]
      BY <1>3, Zenon
    <2>3. /\ conn'[k].stage = "added" /\ conn'[k].remote /\ conn'[k].to = conn[k].to
          /\ conn'[k].alive = conn[k].alive /\ conn'[k].closer = conn[k].closer
      BY <2>1, <2>2 DEF Connection
    <2>4. \A m \in Members : active'[m] = k => m = conn[k].to
      <3>1. \A m \in Members : active[m] # k
        BY <1>1, <2>1, Zenon DEF Ok
      <3> QED BY <1>0, <1>4, <3>1
    <2>5. active'[conn[k].to] = k
      BY <1>1, <1>4
    <2> QED BY <1>1, <1>2, <2>1, <2>3, <2>4, <2>5 DEF Ok
  <1>7. ASSUME NEW j \in Conns, j # k PROVE Ok(j)'
    <2>1. conn[j] \in Connection /\ Ok(j)
      BY DEF Shapes, CInv
    <2>2. CASE j \in closed
      <3>1. conn'[j] = [conn[j] EXCEPT !.alive = FALSE, !.closer = "done"]
        BY <1>3, <1>7, <2>2, Zenon
      <3>2. conn'[j].alive = FALSE /\ conn'[j].stage = conn[j].stage /\ conn'[j].to = conn[j].to
        BY <2>1, <3>1 DEF Connection
      <3>3. \A m \in Members : active'[m] # j
        BY <1>0, <1>4, <1>7, <2>2, Zenon
      <3> QED BY <1>2, <2>1, <3>2, <3>3 DEF Ok
    <2>3. CASE j \notin closed
      <3>1. conn'[j] = conn[j]
        BY <1>3, <1>7, <2>3, Zenon
      <3>2. \A m \in Members : active'[m] = j <=> active[m] = j
        BY <1>0, <1>1, <1>4, <1>7, <2>3
      <3> QED BY <1>2, <2>1, <3>1, <3>2 DEF Ok
    <2> QED BY <2>2, <2>3
  <1> QED BY <1>5, <1>6, <1>7 DEF CInv

\* Every step of every thread keeps the invariant.
LEMMA NextCInv == IInv /\ CInv /\ [Next]_vars => CInv'
  <1> SUFFICES ASSUME IInv, CInv, [Next]_vars PROVE CInv'
    OBVIOUS
  <1>s. Shapes /\ StoppedFirst
    BY DEF IInv
  <1>k. \A k \in Conns : Ok(k) /\ conn[k] \in Connection
    BY <1>s DEF CInv, Shapes
  <1>1. ASSUME NEW k \in Conns, Break(k) \/ ShutdownCloses(k) PROVE CInv'
    <2>1. /\ conn'[k].stage = conn[k].stage /\ conn'[k].to = conn[k].to
          /\ conn'[k].remote = conn[k].remote
          /\ ~conn'[k].alive /\ conn'[k].closer = "begun"
      BY <1>1, <1>s DEF Break, ShutdownCloses, Shapes, Connection
    <2>2. (\A j \in Conns \ {k} : conn'[j] = conn[j])
          /\ UNCHANGED <<active, lastConn, running, stopping>>
      BY <1>1, <1>s DEF Break, ShutdownCloses, Shapes
    <2>3. Ok(k)'
      BY <1>k, <2>1, <2>2 DEF Ok
    <2> QED BY <2>2, <2>3, OneChanges
  \* a connection in the map has its remote end set: the closer goes on to remove it
  <1>2. ASSUME NEW k \in Conns, CloseReads(k) PROVE CInv'
    <2>1. /\ conn'[k].stage = conn[k].stage /\ conn'[k].to = conn[k].to
          /\ conn'[k].remote = conn[k].remote /\ conn'[k].alive = conn[k].alive
          /\ conn'[k].closer = IF conn[k].remote THEN "remove" ELSE "done"
          /\ conn[k].closer = "begun"
      BY <1>2, <1>s DEF CloseReads, Shapes, Connection
    <2>2. (\A j \in Conns \ {k} : conn'[j] = conn[j])
          /\ UNCHANGED <<active, lastConn, running, stopping>>
      BY <1>2, <1>s DEF CloseReads, Shapes
    <2>3. Ok(k)'
      BY <1>k, <2>1, <2>2, Zenon DEF Ok
    <2> QED BY <2>2, <2>3, OneChanges
  <1>3. ASSUME NEW k \in Conns, CloseRemoves(k) PROVE CInv'
    <2>1. /\ conn'[k].stage = conn[k].stage /\ conn'[k].to = conn[k].to
          /\ conn'[k].alive = conn[k].alive /\ conn[k].closer = "remove"
      BY <1>3, <1>s DEF CloseRemoves, Shapes, Connection
    <2>2. (\A j \in Conns \ {k} : conn'[j] = conn[j]) /\ UNCHANGED <<lastConn, running, stopping>>
      BY <1>3, <1>s DEF CloseRemoves, Shapes
    <2>3. ~conn[k].alive
      BY <1>k, <2>1 DEF Ok
    <2>4. RemoveConnection(k, proc)
      BY <1>3 DEF CloseRemoves
    <2> QED BY <2>1, <2>2, <2>3, <2>4, DeadRemoved
  <1>4. ASSUME NEW k \in Conns, RecheckDead(k) PROVE CInv'
    <2>1. /\ conn'[k].stage = "ended" /\ conn'[k].to = conn[k].to
          /\ conn'[k].alive = conn[k].alive /\ conn[k].stage = "added"
      BY <1>4, <1>s DEF RecheckDead, Shapes, Connection
    <2>2. (\A j \in Conns \ {k} : conn'[j] = conn[j]) /\ UNCHANGED <<lastConn, running, stopping>>
      BY <1>4, <1>s DEF RecheckDead, Shapes
    <2> DEFINE pr == [proc EXCEPT ![conn[k].by] = Failed(conn[k].by)]
    <2>3. ~conn[k].alive /\ RemoveConnection(k, pr)
      BY <1>4 DEF RecheckDead
    <2> HIDE DEF pr
    <2> QED BY <2>1, <2>2, <2>3, DeadRemoved
  <1>5. ASSUME NEW k \in Conns, DialFails(k) \/ Duplicate(k) PROVE CInv'
    <2>1. /\ conn'[k].stage = "ended" /\ conn'[k].to = conn[k].to /\ ~conn'[k].alive
          /\ conn[k].stage = "dialing"
      BY <1>5, <1>s DEF DialFails, Duplicate, Admitted, Shapes, Connection
    <2>2. (\A j \in Conns \ {k} : conn'[j] = conn[j])
          /\ UNCHANGED <<active, lastConn, running, stopping>>
      BY <1>5, <1>s DEF DialFails, Duplicate, Shapes
    <2>3. Ok(k)'
      BY <1>k, <2>1, <2>2 DEF Ok
    <2> QED BY <2>2, <2>3, OneChanges
  <1>6. ASSUME NEW k \in Conns, Refused(k) PROVE CInv'
    <2>1. /\ conn'[k].stage = "refused" /\ conn'[k].to = conn[k].to
          /\ conn'[k].alive = conn[k].alive /\ conn'[k].closer = conn[k].closer
          /\ conn[k].stage = "dialing"
      BY <1>6, <1>s DEF Refused, Shapes, Connection
    <2>2. (\A j \in Conns \ {k} : conn'[j] = conn[j])
          /\ UNCHANGED <<active, lastConn, running, stopping>>
      BY <1>6, <1>s, Zenon DEF Refused, Shapes
    <2>3. Ok(k)'
      BY <1>k, <2>1, <2>2 DEF Ok
    <2> QED BY <2>2, <2>3, OneChanges
  <1>7. ASSUME NEW k \in Conns, RecheckAlive(k) PROVE CInv'
    <2>1. /\ conn'[k].stage = "checked" /\ conn'[k].to = conn[k].to
          /\ conn'[k].remote = conn[k].remote
          /\ conn'[k].alive = conn[k].alive /\ conn'[k].closer = conn[k].closer
          /\ conn[k].stage = "added" /\ conn[k].alive
      BY <1>7, <1>s, Zenon DEF RecheckAlive, Shapes, Connection
    <2>2. (\A j \in Conns \ {k} : conn'[j] = conn[j])
          /\ UNCHANGED <<active, lastConn, running, stopping>>
      BY <1>7, <1>s DEF RecheckAlive, Shapes
    <2>3. Ok(k)'
      BY <1>k, <2>1, <2>2 DEF Ok
    <2> QED BY <2>2, <2>3, OneChanges
  \* the opener's own look at running: shutdown() may have listed the map already
  <1>8. ASSUME NEW k \in Conns, RecheckRunning(k) PROVE CInv'
    <2>1. /\ conn'[k].stage = "ended" /\ conn'[k].to = conn[k].to
          /\ conn'[k].remote = conn[k].remote /\ conn[k].stage = "checked"
      BY <1>8, <1>s DEF RecheckRunning, Shapes, Connection
    <2>2. /\ conn'[k].alive <=> conn[k].alive /\ running
          /\ conn'[k].closer = IF ~running /\ conn[k].alive THEN "begun" ELSE conn[k].closer
      BY <1>8, <1>s DEF RecheckRunning, Shapes, Connection
    <2>3. (\A j \in Conns \ {k} : conn'[j] = conn[j])
          /\ UNCHANGED <<active, lastConn, running, stopping>>
      BY <1>8, <1>s DEF RecheckRunning, Shapes
    <2>4. Ok(k)'
      BY <1>k, <1>s, <2>1, <2>2, <2>3 DEF Ok, StoppedFirst
    <2> QED BY <2>3, <2>4, OneChanges
  <1>9. ASSUME NEW k \in Conns, Register(k) PROVE CInv'
    BY <1>9, <1>s, RegisteringKeeps
  <1>10. ASSUME NEW p \in Procs, NEW m \in Members, Dial(p, m) PROVE CInv'
    BY <1>10, <1>s, OpeningKeeps DEF Dial
  <1>11. ASSUME NEW m \in Members, NEW n \in Members, StartConnects(m, n) PROVE CInv'
    <2>1. Main \in Procs
      BY DEF Procs, Dialers
    <2> QED BY <1>11, <1>s, <2>1, OpeningKeeps DEF StartConnects
  \* the connections that are in the map are listed: that is all that are open
  <1>12. ASSUME ShutdownLists PROVE CInv'
    <2>1. UNCHANGED <<active, lastConn, running>> /\ ~running
      BY <1>12 DEF ShutdownLists
    <2>2. ActiveKnown'
      BY <2>1 DEF CInv, ActiveKnown
    <2>3. ASSUME NEW k \in Conns PROVE Ok(k)'
      <3>1. CASE conn[k].alive /\ \E m \in Members : active[m] = k
        <4>1. conn'[k] = [conn[k] EXCEPT !.closer = "listed"]
          BY <1>12, <3>1 DEF ShutdownLists
        <4>2. /\ conn'[k].stage = conn[k].stage /\ conn'[k].to = conn[k].to
              /\ conn'[k].remote = conn[k].remote
              /\ conn'[k].alive = conn[k].alive /\ conn'[k].closer = "listed"
          BY <1>k, <4>1 DEF Connection
        <4> QED BY <1>k, <2>1, <3>1, <4>2 DEF Ok
      <3>2. CASE ~(conn[k].alive /\ \E m \in Members : active[m] = k)
        <4>1. conn'[k] = conn[k]
          BY <1>12, <3>2 DEF ShutdownLists
        <4> QED BY <1>k, <2>1, <3>2, <4>1 DEF Ok
      <3> QED BY <3>1, <3>2
    <2> QED BY <2>2, <2>3 DEF CInv
  <1>13. ASSUME NEW view \in SUBSET Members, MembersView(view) PROVE CInv'
    <2>1. UNCHANGED <<active, lastConn, running, stopping>>
      BY <1>13, Zenon DEF MembersView
    <2>2. ActiveKnown'
      BY <2>1 DEF CInv, ActiveKnown
    <2>3. ASSUME NEW k \in Conns PROVE Ok(k)'
      <3>1. conn'[k] \in {conn[k], [conn[k] EXCEPT !.alive = FALSE, !.closer = "begun"]}
        BY <1>13, Zenon DEF MembersView
      <3>2. CASE conn'[k] = conn[k]
        BY <1>k, <2>1, <3>2 DEF Ok
      <3>3. CASE conn'[k] = [conn[k] EXCEPT !.alive = FALSE, !.closer = "begun"]
        <4>1. /\ conn'[k].stage = conn[k].stage /\ conn'[k].to = conn[k].to
              /\ conn'[k].remote = conn[k].remote
              /\ ~conn'[k].alive /\ conn'[k].closer = "begun"
          BY <1>k, <3>3 DEF Connection
        <4> QED BY <1>k, <2>1, <4>1 DEF Ok
      <3> QED BY <3>1, <3>2, <3>3
    <2> QED BY <2>2, <2>3 DEF CInv
  \* what was listed is closed by now, so the map can be cleared
  <1>14. ASSUME ShutdownEnds PROVE CInv'
    <2>1. /\ stopping = "closing" /\ stopping' = "done" /\ ~running
          /\ active' = [m \in Members |-> None] /\ UNCHANGED <<lastConn, running, conn>>
      BY <1>14, <1>s DEF ShutdownEnds, StoppedFirst
    <2>2. ActiveKnown'
      BY <2>1, MaxConnAssumption DEF CInv, ActiveKnown, None
    <2>3. ASSUME NEW k \in Conns PROVE Ok(k)'
      <3>1. conn[k].closer \in {"none", "done"} /\ k # None
        BY <1>14, MaxConnAssumption DEF ShutdownEnds, Conns, None
      <3>2. \A m \in Members : active'[m] # k
        BY <2>1, <3>1
      <3>3. conn[k].stage = "ended" => ~conn[k].alive
        BY <1>k, <2>1, <3>1 DEF Ok
      <3> QED BY <1>k, <2>1, <3>1, <3>2, <3>3, Zenon DEF Ok
    <2> QED BY <2>2, <2>3, Zenon DEF CInv
  <1>15. ASSUME Shutdown PROVE CInv'
    <2>1. UNCHANGED <<conn, active, lastConn, stopping>> /\ ~running'
      BY <1>15 DEF Shutdown
    <2>2. ActiveKnown'
      BY <2>1 DEF CInv, ActiveKnown
    <2>3. \A k \in Conns : Ok(k)'
      BY <1>k, <2>1 DEF Ok
    <2> QED BY <2>2, <2>3 DEF CInv
  \* the other steps do not touch connections
  <1>16. ASSUME UNCHANGED <<conn, active, lastConn, running, stopping>> PROVE CInv'
    <2>1. ActiveKnown'
      BY <1>16 DEF CInv, ActiveKnown
    <2>2. \A k \in Conns : Ok(k)'
      BY <1>k, <1>16, Zenon DEF Ok
    <2> QED BY <2>1, <2>2 DEF CInv
  <1>17. ASSUME \/ \E p \in Procs : GiveUp(p) \/ \E m \in Members : UseExisting(p, m)
                \/ TaskEnds \/ StartWalks \/ StartEnds \/ WalkBegins \/ WalkChecks
                \/ \E m \in Members : StartSkips(m) \/ WalkVisits(m) \/ MemberTask(m)
         PROVE CInv'
    BY <1>16, <1>17 DEF GiveUp, UseExisting, TaskEnds, StartWalks, StartEnds, WalkBegins,
                        WalkChecks, StartSkips, WalkVisits, MemberTask
  <1>18. ASSUME NEW k \in Conns, InitTask(k) PROVE CInv'
    BY <1>16, <1>18 DEF InitTask, InitBegins, InitSent, InitEnds, InitFails
  <1>19. ASSUME UNCHANGED vars PROVE CInv'
    BY <1>16, <1>19 DEF vars
  <1> QED
    BY <1>1, <1>2, <1>3, <1>4, <1>5, <1>6, <1>7, <1>8, <1>9, <1>10, <1>11, <1>12, <1>13,
       <1>14, <1>15, <1>17, <1>18, <1>19 DEF Next, Close, OnAuthenticated, Open

\* Initially there are no connections.
LEMMA InitCInv == Init => CInv
  <1> SUFFICES ASSUME Init PROVE CInv
    OBVIOUS
  <1>1. ActiveKnown
    BY MaxConnAssumption DEF Init, ActiveKnown, None
  <1>2. ASSUME NEW k \in Conns PROVE Ok(k)
    <2>1. conn[k].stage = "unused" /\ ~conn[k].alive
      BY DEF Init, NewConnection
    <2>2. \A m \in Members : active[m] # k
      <3>1. \A m \in Members : active[m] = None
        BY Zenon DEF Init
      <3>2. k # None
        BY MaxConnAssumption DEF Conns, None
      <3> QED BY <3>1, <3>2, Zenon
    <2> QED BY <2>1, <2>2 DEF Ok
  <1> QED BY <1>1, <1>2 DEF CInv

\* It is an invariant.
LEMMA ConnectionsOk == Spec => []CInv
  <1>1. Spec => []IInv
    BY InitIInv, NextIInv, PTL DEF Spec
  <1> QED BY <1>1, InitCInv, NextCInv, PTL DEF Spec

\* No dead connection stays in active_connections_, whichever of the closing
\* thread and on_authenticated() comes first.
THEOREM NoDeadConnectionStays == Spec => []DeadConnectionsLeave
  <1>1. CInv => DeadConnectionsLeave
    <2> SUFFICES ASSUME CInv, NEW m \in Members, active[m] # None, ~conn[active[m]].alive
                 PROVE  conn[active[m]].closer \in {"begun", "remove"}
                        \/ conn[active[m]].stage = "added"
      BY DEF DeadConnectionsLeave
    <2>1. active[m] \in Conns
      BY MaxConnAssumption DEF CInv, ActiveKnown, Conns, None
    <2> QED BY <2>1 DEF CInv, Ok
  <1> QED BY ConnectionsOk, <1>1, PTL

\* Every open connection that on_authenticated() is through with is in
\* active_connections_: removing one never takes another one out.
THEOREM NoConnectionOrphaned == Spec => []NoOrphan
  <1>1. CInv => NoOrphan
    BY DEF CInv, Ok, NoOrphan
  <1> QED BY ConnectionsOk, <1>1, PTL

\* No connection outlives shutdown(), wherever the thread that opens it is when
\* shutdown() goes through the map.
THEOREM NothingSurvivesShutdown == Spec => []ClosedAfterShutdown
  <1>1. CInv => ClosedAfterShutdown
    BY DEF CInv, Ok, ClosedAfterShutdown
  <1> QED BY ConnectionsOk, <1>1, PTL

-----------------------------------------------------------------------------
\* Where a thread that opens connections can be.
Places == {"checked", "idle", "posted", "try", "dial", "dial_all", "walk", "done"}

\* The types of what is neither a connection nor the map of connections.
RestTyped ==
    /\ running \in BOOLEAN /\ stopper \in BOOLEAN
    /\ stopping \in {"no", "closing", "done"}
    /\ client_state \in {"INITIAL", "CONNECTED", "INITIALIZED", "DISCONNECTED"}
    /\ established \in BOOLEAN /\ submitted \in BOOLEAN
    /\ proc \in [Procs \cup {Timer} -> Places]
    /\ members \subseteq Members /\ connecting \subseteq Members
    /\ walk \in [Loops -> SUBSET Members]

\* A connection is removed from the map: flags and the reconnect task keep their types.
LEMMA RemovingTyped ==
    ASSUME RestTyped, NEW k, NEW pr \in [Procs \cup {Timer} -> Places],
           RemoveConnection(k, pr)
    PROVE  /\ client_state' \in {"INITIAL", "CONNECTED", "INITIALIZED", "DISCONNECTED"}
           /\ submitted' \in BOOLEAN /\ stopper' \in BOOLEAN
           /\ proc' \in [Procs \cup {Timer} -> Places]
  <1>1. WithTask(pr) \in [Procs \cup {Timer} -> Places]
    BY Zenon DEF WithTask, Places
  <1> QED BY <1>1, Zenon DEF RemoveConnection, Disconnected, RestTyped

\* Where a thread goes on after its attempt is one of the places there are.
LEMMA AttemptTyped ==
    ASSUME RestTyped, NEW p
    PROVE  /\ [proc EXCEPT ![p] = Succeeded(p)] \in [Procs \cup {Timer} -> Places]
           /\ [proc EXCEPT ![p] = Failed(p)] \in [Procs \cup {Timer} -> Places]
           /\ Left(p) \subseteq Members
  <1>1. Succeeded(p) \in Places /\ Failed(p) \in Places
    BY DEF Succeeded, Failed, Places
  <1> QED BY <1>1, Zenon DEF RestTyped, Left

\* Every step keeps them.
LEMMA NextTyped == RestTyped /\ [Next]_vars => RestTyped'
  <1> SUFFICES ASSUME RestTyped, [Next]_vars PROVE RestTyped'
    OBVIOUS
  <1>1. ASSUME NEW k \in Conns, \/ Break(k) \/ CloseReads(k) \/ RecheckAlive(k) \/ ShutdownCloses(k)
        PROVE  RestTyped'
    BY <1>1 DEF Break, CloseReads, RecheckAlive, ShutdownCloses, RestTyped
  <1>2. ASSUME NEW k \in Conns, CloseRemoves(k) PROVE RestTyped'
    <2>1. proc \in [Procs \cup {Timer} -> Places]
      BY DEF RestTyped
    <2> QED BY <1>2, <2>1, RemovingTyped DEF CloseRemoves, RestTyped
  <1>3. ASSUME NEW k \in Conns, RecheckDead(k) PROVE RestTyped'
    BY <1>3, RemovingTyped, AttemptTyped, Zenon DEF RecheckDead, RestTyped
  <1>4. ASSUME NEW k \in Conns, DialFails(k) \/ Refused(k) \/ Duplicate(k) \/ RecheckRunning(k)
        PROVE  RestTyped'
    BY <1>4, AttemptTyped DEF DialFails, Refused, Duplicate, RecheckRunning, RestTyped
  <1>5. ASSUME NEW k \in Conns, Register(k) PROVE RestTyped'
    <2>1. WithTask(proc) \in [Procs \cup {Timer} -> Places]
      BY Zenon DEF WithTask, Places, RestTyped
    <2> QED BY <1>5, <2>1, Zenon DEF Register, RestTyped
  <1>6. ASSUME NEW p \in Procs, NEW m \in Members, UseExisting(p, m) PROVE RestTyped'
    BY <1>6, AttemptTyped DEF UseExisting, RestTyped
  \* a thread goes to one of the places
  <1>p. ASSUME NEW p, NEW place \in Places, proc' = [proc EXCEPT ![p] = place]
        PROVE  proc' \in [Procs \cup {Timer} -> Places]
    BY <1>p, Zenon DEF RestTyped
  <1>7. ASSUME NEW p \in Procs, GiveUp(p) \/ \E m \in Members : Dial(p, m)
        PROVE  RestTyped'
    <2>1. \E place \in Places : proc' = [proc EXCEPT ![p] = place]
      BY <1>7 DEF GiveUp, Dial, Places
    <2>2. proc' \in [Procs \cup {Timer} -> Places]
      BY <1>p, <2>1, Zenon
    <2> QED BY <1>7, <2>2, Zenon DEF GiveUp, Dial, RestTyped
  <1>15. ASSUME TaskEnds PROVE RestTyped'
    <2>1. \E place \in Places : proc' = [proc EXCEPT ![Task] = place]
      BY <1>15, Zenon DEF TaskEnds, Places
    <2>2. proc' \in [Procs \cup {Timer} -> Places]
      BY <1>p, <2>1, Zenon
    <2>3. submitted' \in BOOLEAN
      BY <1>15 DEF TaskEnds, Empty
    <2> QED BY <1>15, <2>2, <2>3 DEF TaskEnds, RestTyped
  <1>8. ASSUME StartWalks \/ StartEnds \/ WalkBegins \/ WalkChecks PROVE RestTyped'
    BY <1>8, Zenon DEF StartWalks, StartEnds, WalkBegins, WalkChecks, RestTyped, Places
  <1>9. ASSUME NEW m \in Members, StartSkips(m) \/ MemberTask(m) \/ \E n \in Members : StartConnects(m, n)
        PROVE  RestTyped'
    BY <1>9 DEF StartSkips, MemberTask, StartConnects, Left, RestTyped, Places
  <1>10. ASSUME NEW m \in Members, WalkVisits(m) PROVE RestTyped'
    BY <1>10, Zenon DEF WalkVisits, RestTyped, Places
  <1>11. ASSUME NEW k \in Conns, InitTask(k) PROVE RestTyped'
    BY <1>11 DEF InitTask, InitBegins, InitSent, InitEnds, InitFails, RestTyped
  <1>12. ASSUME Shutdown \/ ShutdownLists \/ ShutdownEnds PROVE RestTyped'
    BY <1>12, Zenon DEF Shutdown, ShutdownLists, ShutdownEnds, RestTyped
  <1>13. ASSUME NEW view \in SUBSET Members, MembersView(view) PROVE RestTyped'
    BY <1>13, Zenon DEF MembersView, RestTyped
  <1>14. ASSUME UNCHANGED vars PROVE RestTyped'
    BY <1>14 DEF vars, RestTyped
  <1> QED
    BY <1>1, <1>2, <1>3, <1>4, <1>5, <1>6, <1>7, <1>8, <1>9, <1>10, <1>11, <1>12, <1>13,
       <1>14, <1>15 DEF Next, Close, OnAuthenticated, Open

\* Types, and what on_connection_close() relies on: a connection in the map is
\* filed under the member it reaches, and its remote end is set.
THEOREM ConnectionsTyped == Spec => []TypeOK
  <1>1. Init => RestTyped
    <2> SUFFICES ASSUME Init PROVE RestTyped
      OBVIOUS
    <2>1. proc \in [Procs \cup {Timer} -> Places]
      BY DEF Init, Places
    <2>2. submitted \in BOOLEAN
      BY FlagsAssumption DEF Init
    <2> QED BY <2>1, <2>2, Zenon DEF Init, RestTyped
  <1>2. Spec => []RestTyped
    BY <1>1, NextTyped, PTL DEF Spec
  <1>3. Spec => []IInv
    BY InitIInv, NextIInv, PTL DEF Spec
  <1>4. IInv /\ CInv /\ RestTyped => TypeOK
    <2> SUFFICES ASSUME IInv, CInv, RestTyped PROVE TypeOK
      OBVIOUS
    <2>1. ASSUME NEW m \in Members, active[m] # None
          PROVE  conn[active[m]].to = m /\ conn[active[m]].remote
      <3>1. active[m] \in Conns
        BY <2>1, MaxConnAssumption DEF CInv, ActiveKnown, Conns, None
      <3> QED BY <3>1 DEF CInv, Ok
    <2> QED BY <2>1 DEF TypeOK, RestTyped, IInv, Shapes, CInv, ActiveKnown, Places
  <1> QED BY <1>2, <1>3, <1>4, ConnectionsOk, PTL

-------------------------------------------------------------------------------
(***************************************************************************)
(* A client that waits to be initialized has a task that sends its state.  *)
(* The task is known by the connection that posted it, so it has to be one *)
(* that was opened: the next connect() does not change where it leads.     *)
(***************************************************************************)

TaskRecord == [pc : {"none", "posted", "sending", "sent"}, from : Conns \cup {None}]

InitTasks ==
    /\ init \in [Conns -> TaskRecord]
    /\ epoch \in Conns \cup {None}
    /\ \A k \in Conns : init[k].pc # "none" => k =< lastConn

\* A step that leaves the tasks, the cluster and the ends of the connections alone.
LEMMA TasksAlone ==
    ASSUME InitTasks, InitPending,
           init' = init, epoch' = epoch, lastConn' = lastConn, cluster_id' = cluster_id,
           client_state' = client_state \/ client_state' = "DISCONNECTED",
           running' => running,
           \A k \in Conns : conn'[k].to = conn[k].to
    PROVE  InitTasks' /\ InitPending'
  <1>1. InitTasks'
    BY Zenon DEF InitTasks
  <1>2. InitPending'
    BY Zenon DEF InitPending
  <1> QED BY <1>1, <1>2

\* Every step keeps the tasks known and the state on its way.
LEMMA NextTasks ==
    ASSUME Shapes, CInv, InitTasks, InitPending, [Next]_vars
    PROVE  InitTasks' /\ InitPending'
  <1>1. ASSUME NEW k \in Conns, \/ Break(k) \/ CloseReads(k) \/ RecheckAlive(k) \/ ShutdownCloses(k)
        PROVE  InitTasks' /\ InitPending'
    <2>1. \A j \in Conns : conn'[j].to = conn[j].to
      BY <1>1 DEF Shapes, Connection, Break, CloseReads, RecheckAlive, ShutdownCloses
    <2> QED BY <1>1, <2>1, TasksAlone DEF Break, CloseReads, RecheckAlive, ShutdownCloses
  <1>2. ASSUME NEW k \in Conns, CloseRemoves(k) \/ RecheckDead(k)
        PROVE  InitTasks' /\ InitPending'
    <2>1. \A j \in Conns : conn'[j].to = conn[j].to
      BY <1>2 DEF Shapes, Connection, CloseRemoves, RecheckDead
    <2>2. client_state' = client_state \/ client_state' = "DISCONNECTED"
      BY <1>2, Zenon DEF CloseRemoves, RecheckDead, RemoveConnection, Disconnected
    <2> QED BY <1>2, <2>1, <2>2, TasksAlone DEF CloseRemoves, RecheckDead
  <1>3. ASSUME NEW k \in Conns, DialFails(k) \/ Refused(k) \/ Duplicate(k) \/ RecheckRunning(k)
        PROVE  InitTasks' /\ InitPending'
    <2>1. \A j \in Conns : conn'[j].to = conn[j].to
      BY <1>3 DEF Shapes, Connection, DialFails, Refused, Duplicate, RecheckRunning
    <2> QED BY <1>3, <2>1, TasksAlone DEF DialFails, Refused, Duplicate, RecheckRunning
  \* the first connection of an epoch posts the task for its own cluster
  <1>4. ASSUME NEW k \in Conns, Register(k) PROVE InitTasks' /\ InitPending'
    <2>1. k =< lastConn /\ conn \in [Conns -> Connection]
      BY <1>4, Zenon DEF Register, Admitted, CInv, Ok, Shapes
    <2>2. \A j \in Conns : conn'[j].to = conn[j].to
      BY <1>4, <2>1, Zenon DEF Register, Connection
    <2>3. CASE /\ init' = init /\ epoch' \in {epoch, k}
               /\ \/ cluster_id' = cluster_id /\ client_state' = client_state
                  \/ client_state' = "INITIALIZED"
      <3>1. InitTasks'
        BY <1>4, <2>3, Zenon DEF Register, InitTasks
      <3>2. InitPending'
        BY <1>4, <2>2, <2>3, Zenon DEF Register, InitPending
      <3> QED BY <3>1, <3>2
    <2>4. CASE /\ init' = [init EXCEPT ![k].pc = "posted"] /\ epoch' = k
               /\ cluster_id' = Cluster[conn[k].to]
      <3>1. init' \in [Conns -> TaskRecord]
        BY <2>4 DEF InitTasks, TaskRecord
      <3>2. init'[k].pc = "posted" /\ \A j \in Conns \ {k} : init'[j] = init[j]
        BY <2>4 DEF InitTasks, TaskRecord
      <3>3. InitTasks'
        BY <1>4, <2>1, <2>4, <3>1, <3>2, Zenon DEF Register, InitTasks
      <3>4. InitPending'
        BY <2>2, <2>4, <3>2, Zenon DEF InitPending
      <3> QED BY <3>3, <3>4
    <2> QED BY <1>4, <2>3, <2>4, Zenon DEF Register
  \* a new connection is nobody's: no task is known by it
  <1>5. ASSUME NEW p, NEW m \in Members, Opens(p, m),
               UNCHANGED <<running, client_state, cluster_id, init, epoch>>
        PROVE  InitTasks' /\ InitPending'
    <2>1. lastConn \in Nat /\ lastConn' = lastConn + 1 /\ lastConn' \in Conns
      BY <1>5, MaxConnAssumption DEF Opens, CInv, ActiveKnown
    <2>2. \A j \in Conns \ {lastConn'} : conn'[j] = conn[j]
      BY <1>5 DEF Opens, Shapes
    <2>3. \A j \in Conns : init[j].pc # "none" => j # lastConn'
      BY <2>1 DEF InitTasks, Conns
    <2>4. InitTasks'
      BY <1>5, <2>1 DEF InitTasks, Conns
    <2>5. InitPending'
      BY <1>5, <2>2, <2>3, Zenon DEF InitPending
    <2> QED BY <2>4, <2>5
  <1>6. ASSUME NEW p \in Procs, NEW m \in Members, Dial(p, m) PROVE InitTasks' /\ InitPending'
    BY <1>5, <1>6, Zenon DEF Dial
  <1>7. ASSUME NEW m \in Members, NEW n \in Members, StartConnects(m, n)
        PROVE  InitTasks' /\ InitPending'
    BY <1>5, <1>7, Zenon DEF StartConnects
  \* the task
  <1>8. ASSUME NEW k \in Conns, InitTask(k) PROVE InitTasks' /\ InitPending'
    <2>1. UNCHANGED <<running, lastConn, conn, epoch, cluster_id>>
      BY <1>8, Zenon DEF InitTask, InitBegins, InitSent, InitEnds, InitFails
    <2>t. init \in [Conns -> TaskRecord] /\ epoch \in Conns \cup {None}
      BY DEF InitTasks
    <2>2. /\ init' \in [Conns -> TaskRecord]
          /\ init[k].pc # "none" /\ \A j \in Conns \ {k} : init'[j] = init[j]
      <3>1. CASE InitBegins(k)
        BY <2>t, <3>1, Zenon DEF InitBegins, TaskRecord
      <3>2. CASE InitSent(k)
        BY <2>t, <3>2 DEF InitSent, TaskRecord
      <3>3. CASE InitEnds(k)
        BY <2>t, <3>3 DEF InitEnds, TaskRecord
      <3>4. CASE InitFails(k)
        BY <2>t, <3>4 DEF InitFails, TaskRecord
      <3> QED BY <1>8, <3>1, <3>2, <3>3, <3>4, Zenon DEF InitTask
    <2>3. \/ init'[k].pc # "none" /\ client_state' = client_state
          \/ init'[k].pc = "none" /\ client_state' = "INITIALIZED"
          \/ init'[k].pc = "none" /\ client_state' = client_state
               /\ (running => Cluster[conn[k].to] # cluster_id)
      <3>1. CASE InitBegins(k)
        BY <2>t, <3>1 DEF InitBegins, TaskRecord
      <3>2. CASE InitSent(k)
        BY <2>t, <3>2 DEF InitSent, TaskRecord
      <3>3. CASE InitEnds(k)
        BY <2>t, <3>3 DEF InitEnds, TaskRecord
      <3>4. CASE InitFails(k)
        BY <2>t, <3>4 DEF InitFails, TaskRecord
      <3> QED BY <1>8, <3>1, <3>2, <3>3, <3>4, Zenon DEF InitTask
    <2>5. InitTasks'
      BY <2>1, <2>2, Zenon DEF InitTasks
    <2>6. InitPending'
      BY <2>1, <2>2, <2>3, Zenon DEF InitPending
    <2> QED BY <2>5, <2>6
  \* the others leave the connections or their ends alone
  <1>9. ASSUME NEW p \in Procs, GiveUp(p) PROVE InitTasks' /\ InitPending'
    BY <1>9, TasksAlone DEF GiveUp
  <1>10. ASSUME NEW p \in Procs, NEW m \in Members, UseExisting(p, m) PROVE InitTasks' /\ InitPending'
    BY <1>10, TasksAlone DEF UseExisting
  <1>11. ASSUME TaskEnds PROVE InitTasks' /\ InitPending'
    BY <1>11, TasksAlone DEF TaskEnds
  <1>12. ASSUME StartWalks PROVE InitTasks' /\ InitPending'
    BY <1>12, TasksAlone DEF StartWalks
  <1>13. ASSUME StartEnds PROVE InitTasks' /\ InitPending'
    BY <1>13, TasksAlone DEF StartEnds
  <1>14. ASSUME WalkBegins PROVE InitTasks' /\ InitPending'
    BY <1>14, TasksAlone DEF WalkBegins
  <1>15. ASSUME WalkChecks PROVE InitTasks' /\ InitPending'
    BY <1>15, TasksAlone DEF WalkChecks
  <1>16. ASSUME NEW m \in Members, StartSkips(m) PROVE InitTasks' /\ InitPending'
    BY <1>16, TasksAlone DEF StartSkips
  <1>17. ASSUME NEW m \in Members, WalkVisits(m) PROVE InitTasks' /\ InitPending'
    BY <1>17, TasksAlone DEF WalkVisits
  <1>18. ASSUME NEW m \in Members, MemberTask(m) PROVE InitTasks' /\ InitPending'
    BY <1>18, TasksAlone DEF MemberTask
  <1>19. ASSUME Shutdown PROVE InitTasks' /\ InitPending'
    BY <1>19, TasksAlone DEF Shutdown
  <1>20. ASSUME ShutdownEnds PROVE InitTasks' /\ InitPending'
    BY <1>20, TasksAlone DEF ShutdownEnds
  <1>21. ASSUME ShutdownLists PROVE InitTasks' /\ InitPending'
    <2>1. \A j \in Conns : conn'[j].to = conn[j].to
      BY <1>21 DEF ShutdownLists, Shapes, Connection
    <2> QED BY <1>21, <2>1, TasksAlone DEF ShutdownLists
  <1>22. ASSUME NEW view \in SUBSET Members, MembersView(view) PROVE InitTasks' /\ InitPending'
    <2>1. \A j \in Conns : conn'[j].to = conn[j].to
      BY <1>22, Zenon DEF MembersView, Shapes, Connection
    <2> QED BY <1>22, <2>1, TasksAlone, Zenon DEF MembersView
  <1>23. ASSUME UNCHANGED vars PROVE InitTasks' /\ InitPending'
    BY <1>23, TasksAlone DEF vars
  <1>24. CASE \E k \in Conns : \/ Break(k) \/ Close(k) \/ DialFails(k) \/ OnAuthenticated(k)
                              \/ InitTask(k) \/ ShutdownCloses(k)
    BY <1>1, <1>2, <1>3, <1>4, <1>8, <1>24, Zenon DEF Close, OnAuthenticated
  <1>25. CASE \E p \in Procs : Open(p)
    BY <1>6, <1>9, <1>10, <1>25, Zenon DEF Open
  <1> QED
    BY <1>7, <1>11, <1>12, <1>13, <1>14, <1>15, <1>16, <1>17, <1>18, <1>19, <1>20, <1>21,
       <1>22, <1>23, <1>24, <1>25, Zenon DEF Next

\* A running client that is connected and not initialized has a task of
\* initialize_client_on_cluster() for the cluster it is connected to, whatever the
\* members and clusters: no reconnection, cluster change or failed send leaves the
\* client refusing invocations for good.
THEOREM StateIsOnItsWay == Spec => []InitPending
  <1>1. Init => InitTasks /\ InitPending
    BY DEF Init, InitTasks, TaskRecord, InitPending
  <1>2. Spec => []IInv
    BY InitIInv, NextIInv, PTL DEF Spec
  <1>3. IInv => Shapes
    BY DEF IInv
  <1> QED BY <1>1, <1>2, <1>3, NextTasks, ConnectionsOk, PTL DEF Spec
=============================================================================
