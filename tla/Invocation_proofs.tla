------------------------- MODULE Invocation_proofs -------------------------
(***************************************************************************)
(* The theorems about Invocation.  First the steps outside a notification  *)
(* keep the invariant of InvocationInvariant_proofs: invoke_on_selection() *)
(* and send(), process_response(), Connection::close(),                    *)
(* check_backup_timeouts(), the members and the network, one lemma per     *)
(* action.  Then every step does, and the properties follow.               *)
(***************************************************************************)
EXTENDS InvocationAttempt_proofs, TLAPS

-----------------------------------------------------------------------------
\* invoke_on_selection() and send()

\* Select: the connection is chosen, nothing is visible to others yet.
LEMMA SelectStep ==
    ASSUME IInv, NEW d \in Ids, NEW c \in Conns, Select(d, c)
    PROVE  IInv'
  <1> DEFINE i == proc[d].inv
  <1>1. /\ proc[d].pc = "select" /\ Goto(d, "register") /\ d \in Procs
        /\ att' = [att EXCEPT ![d].target = c]
        /\ UNCHANGED <<running, timer, alive, registry, visiting, lastId, inv, scan, toFail, inbox>>
    BY DEF Select, At, Procs
  <1>2. proc[d].pc \in Working \cap Trying \cap AttemptPcs \cap Holding
    BY <1>1 DEF Working, AttemptPcs, Trying, Holding
  <1>3. i \in Invs /\ inv[i].msgId \in Ids /\ POk(d, proc[d]) /\ VOk(i)
    BY <1>1, <1>2, AtWork
  <1>4. /\ d =< lastId /\ att[d].owner = i /\ att[d].wire = "none" /\ inv[i].msgId = d
        /\ ~(d > lastId)
    BY <1>1, <1>2, <1>3 DEF POk, AttemptOk
  <1>5. Moves(d) /\ proc'[d].pc = "register" /\ proc'[d].inv = i
    <2>1. "register" \in Working
      BY DEF Working, AttemptPcs, Trying
    <2> QED BY <1>1, <2>1, Going
  <1>6. /\ att' \in [Ids -> AttRecord]
        /\ \A id \in Ids : /\ att'[id].owner = att[id].owner /\ att'[id].wire = att[id].wire
                           /\ att'[id].ackLeft = att[id].ackLeft
    <2>1. att \in [Ids -> AttRecord]
      BY DEF IInv, Types
    <2> QED BY <1>1, <2>1 DEF AttRecord
  <1>7. Types'
    BY <1>1, <1>5, <1>6 DEF IInv, Types, Moves
  <1>8. proc'[d].pc \in AttemptPcs \cap Holding /\ proc'[d].pc # "set_value"
    BY <1>5 DEF AttemptPcs, Trying, Holding
  <1>9. Local(d, i)
    BY <1>1, <1>2, <1>5, <1>6, <1>8 DEF Local, WireMoves, Moves
  <1>10. POk(d, proc[d])'
    <2>1. WorkOk(proc[d])'
      BY <1>1, <1>3, <1>5, IdIsSome, Zenon DEF WorkOk
    <2>2. AttemptOk(d, proc[d])'
      BY <1>1, <1>4, <1>5, <1>6 DEF AttemptOk
    <2> QED BY <1>8, <2>1, <2>2, ToAttempt
  <1>11. Registered(i)'
    <2>1. registry \subseteq Ids
      BY DEF IInv, Types
    <2> QED BY <1>1, <1>3, <1>5, <1>6, <2>1 DEF VOk, Registered, Moves
  <1> QED BY <1>1, <1>2, <1>3, <1>5, <1>7, <1>8, <1>9, <1>10, <1>11, KeepingStep, Zenon

\* NotInvoked: the message of this attempt will not be written any more.
LEMMA NotInvokedStep ==
    ASSUME IInv, NEW d \in Ids, NotInvoked(d)
    PROVE  IInv'
  <1> DEFINE i == proc[d].inv
  <1>1. proc[d].pc = "select" /\ UNCHANGED inv /\ OnInvocation /\ d \in Procs
    BY DEF NotInvoked, At, Procs
  <1>2. proc[d].pc \in Working \cap Trying \cap AttemptPcs \cap Holding
    BY <1>1 DEF Working, AttemptPcs, Trying, Holding
  <1>3. i \in Invs /\ inv[i].msgId \in Ids /\ POk(d, proc[d])
    BY <1>1, <1>2, AtWork
  <1>4. PICK exc \in {"io", "offline", "retryable"} : Call(d, "exc_erase", i, None, exc, 0)
    BY DEF NotInvoked
  <1>5. Moves(d) /\ proc'[d].pc = "exc_erase" /\ proc'[d].inv = i /\ proc'[d].exc = exc
    <2>1. "exc_erase" \in Working /\ None \in 0 .. MaxId /\ exc \in Errors \cup {"none"}
          /\ 0 \in 0 .. MaxBackups
      BY <1>4, BoundsAssumption DEF Working, Throwing, None, Errors
    <2> QED BY <1>1, <1>3, <1>4, <2>1, Calling
  <1>6. POk(d, proc[d])'
    <2>1. WorkOk(proc[d])'
      BY <1>1, <1>3, <1>5, IdIsSome, Zenon DEF WorkOk
    <2>2. Unapplied(d)' /\ inv[i].msgId = d
      BY <1>1, <1>2, <1>3, <1>5 DEF POk, AttemptOk, Unapplied, OnInvocation, AttemptPcs, Trying
    <2>3. ErrorOk(d, proc[d])'
      BY <1>1, <1>4, <1>5, <2>2 DEF ErrorOk
    <2>4. ~(d \in Ids /\ d > lastId') /\ d # Cleaner
      BY <1>1, <1>3, ProcsAssumption DEF POk, AttemptOk, OnInvocation
    <2> QED BY <1>5, <2>1, <2>3, <2>4, ToError DEF Throwing
  <1> QED BY <1>1, <1>2, <1>3, <1>5, <1>6, QuietStep DEF AttemptPcs, Trying

\* SendRegisters: the invocation is not completed, so the entry is not a leak.
LEMMA SendRegistersStep ==
    ASSUME IInv, NEW d \in Ids, SendRegisters(d)
    PROVE  IInv'
  <1> DEFINE i == proc[d].inv
  <1>1. /\ proc[d].pc = "register" /\ Goto(d, "set_conn") /\ d \in Procs
        /\ registry' = registry \cup {inv[i].msgId}
        /\ UNCHANGED <<running, timer, alive, visiting, lastId, inv, att, scan, toFail, inbox>>
    BY Zenon DEF SendRegisters, At, Procs, Register
  <1>2. proc[d].pc \in Working \cap Trying \cap AttemptPcs \cap Holding
    BY <1>1, Zenon DEF Working, AttemptPcs, Trying, Holding
  <1>3. i \in Invs /\ inv[i].msgId \in Ids /\ POk(d, proc[d]) /\ VOk(i)
    BY <1>1, <1>2, AtWork, Zenon
  <1>4. /\ d =< lastId /\ att[d].owner = i /\ att[d].wire = "none" /\ inv[i].msgId = d
        /\ ~(d > lastId) /\ d # Cleaner
    BY <1>1, <1>2, <1>3, ProcsAssumption DEF POk, AttemptOk
  <1>5. Moves(d) /\ proc'[d].pc = "set_conn" /\ proc'[d].inv = i
    <2>1. "set_conn" \in Working
      BY DEF Working, AttemptPcs, Trying
    <2> QED BY <1>1, <2>1, Going
  <1>6. Types'
    BY <1>1, <1>3, <1>5 DEF IInv, Types, Moves
  <1>7. proc'[d].pc \in AttemptPcs \cap Holding /\ proc'[d].pc # "set_value"
    BY <1>5 DEF AttemptPcs, Trying, Holding
  <1>8. Local(d, i)
    BY <1>1, <1>2, <1>4, <1>5, <1>7, Zenon DEF Local, WireMoves, Moves
  <1>9. POk(d, proc[d])'
    <2>1. WorkOk(proc[d])'
      BY <1>1, <1>3, <1>5, IdIsSome, Zenon DEF WorkOk
    <2>2. AttemptOk(d, proc[d])'
      BY <1>1, <1>4, <1>5 DEF AttemptOk
    <2> QED BY <1>7, <2>1, <2>2, ToAttempt, Zenon
  <1>10. Registered(i)'
    <2>1. Holds(d, i)
      BY <1>2 DEF Holds
    <2>2. inv[i].future = Unset
      BY <1>1, <1>3, <1>4, <2>1, HolderKnows, Zenon
    <2> QED BY <1>1, <1>3, <1>5, <2>2 DEF VOk, Registered
  <1> QED BY <1>1, <1>2, <1>3, <1>5, <1>6, <1>7, <1>8, <1>9, <1>10, KeepingStep, Zenon

\* SendSetsConnection: the attempt's thread gives the permission to send_connection_.
LEMMA SendSetsConnectionStep ==
    ASSUME IInv, NEW d \in Ids, NEW i, i = proc[d].inv, SendSetsConnection(d)
    PROVE  IInv'
  <1>1. proc[d].pc = "set_conn" /\ OnInvocation /\ d \in Procs
    BY DEF SendSetsConnection, At, Procs
  <1>2. proc[d].pc \in Working \cap Trying \cap AttemptPcs \cap Holding
    BY <1>1 DEF Working, AttemptPcs, Trying, Holding
  <1>3. i \in Invs /\ inv[i].msgId \in Ids /\ POk(d, proc[d]) /\ VOk(i) /\ inv[i] \in InvRecord
    BY <1>1, <1>2, AtWork
  <1>4. /\ d =< lastId /\ att[d].owner = i /\ att[d].wire = "none" /\ inv[i].msgId = d
        /\ d # Cleaner /\ ~(d > lastId)
    BY <1>1, <1>2, <1>3, ProcsAssumption DEF POk, AttemptOk
  <1>5. Holds(d, i)
    BY <1>2 DEF Holds
  <1>6. ~Over(i) /\ inv[i].pending = None /\ \A q \in Procs : Holds(q, i) => q = d
    BY <1>1, <1>3, <1>4, <1>5, HolderKnows
  <1>7. Moves(d) /\ proc'[d].pc = "recheck" /\ proc'[d].inv = i
    <2>1. Goto(d, "recheck") /\ "recheck" \in Working
      BY DEF SendSetsConnection, Working, AttemptPcs
    <2> QED BY <1>1, <2>1, Going
  <1>8. PICK y \in InvRecord : y = [inv[i] EXCEPT !.sendPtr = d]
    <2>1. d \in -1 .. MaxId
      BY DEF Ids
    <2> QED BY <1>3, <2>1, Zenon DEF InvRecord
  <1>9. /\ inv' \in [Invs -> InvRecord] /\ inv'[i] = y /\ \A j \in Invs \ {i} : inv'[j] = inv[j]
    BY <1>3, <1>8, Updated, Zenon DEF SendSetsConnection
  <1>10. /\ y.expected = inv[i].expected /\ y.msgId = inv[i].msgId
         /\ y.retryable = inv[i].retryable /\ y.pending = inv[i].pending
         /\ y.future = inv[i].future /\ y.sendPtr = d /\ y.acks = inv[i].acks
    BY <1>3, <1>8 DEF InvRecord
  <1>11. d # -1
    BY DEF Ids
  <1>12. Touches(d, i)
    BY <1>1, <1>2, <1>3, <1>7, <1>9, <1>10 DEF Touches
  <1>13. POk(d, proc[d])'
    <2>1. WorkOk(proc[d])'
      BY <1>3, <1>7, <1>9, <1>10, IdIsSome, Zenon DEF WorkOk
    <2>2. AttemptOk(d, proc[d])'
      BY <1>1, <1>4, <1>7, <1>9, <1>10, <1>11, Zenon DEF AttemptOk, OnInvocation, Trying
    <2> QED BY <1>7, <2>1, <2>2, ToAttempt DEF AttemptPcs
  <1>14. OneHolder(i)'
    <2>1. \A q \in Procs : ~Holds(q, i)'
      BY <1>6, <1>7 DEF Holds, Moves, Holding, Trying, Parking, Throwing
    <2>2. ~Over(i)'
      BY <1>6, <1>7, <1>9, <1>10 DEF Over, Moves
    <2> QED BY <2>1, <2>2, <1>4, <1>9, <1>10 DEF OneHolder
  <1>15. Answers(i)' /\ Registered(i)'
    BY <1>1, <1>3, <1>7, <1>9, <1>10, ZenonT(30) DEF VOk, Answers, Registered, OnInvocation, Moves
  <1>16. Completed(i)'
    BY <1>6, <1>9, <1>10, Zenon DEF Completed
  <1> QED BY <1>9, <1>10, <1>11, <1>12, <1>13, <1>14, <1>15, <1>16, TouchingStep, Zenon

\* SendRechecks: the thread goes on, or asks for the permission it has just given away.
LEMMA SendRechecksStep ==
    ASSUME IInv, NEW d \in Ids, SendRechecks(d)
    PROVE  IInv'
  <1> DEFINE i == proc[d].inv
  <1>1. proc[d].pc = "recheck" /\ UNCHANGED inv /\ OnInvocation /\ d \in Procs
    BY Zenon DEF SendRechecks, At, Procs
  <1>2. proc[d].pc \in Working \cap AttemptPcs
    BY <1>1 DEF Working, AttemptPcs
  <1>3. i \in Invs /\ inv[i].msgId \in Ids /\ POk(d, proc[d]) /\ VOk(i)
    BY <1>1, <1>2, AtWork, Zenon
  <1>4. /\ d =< lastId /\ att[d].owner = i /\ att[d].wire = "none" /\ inv[i].sendPtr # -1
    BY <1>1, <1>2, <1>3 DEF POk, AttemptOk
  <1>5. d # Cleaner /\ ~(d > lastId)
    BY <1>1, <1>3, ProcsAssumption DEF POk, AttemptOk
  <1>6. CASE alive[att[d].target]
    <2>1. Goto(d, "write") /\ "write" \in Working
      BY <1>6 DEF SendRechecks, Working, AttemptPcs
    <2>2. Moves(d) /\ proc'[d].pc = "write" /\ proc'[d].inv = i
      BY <1>1, <2>1, Going, Zenon
    <2>3. WorkOk(proc[d])' /\ AttemptOk(d, proc[d])'
      BY <1>1, <1>3, <1>4, <1>5, <2>2 DEF WorkOk, AttemptOk, Trying, OnInvocation, None, Ids
    <2>4. POk(d, proc[d])'
      BY <2>2, <2>3, ToAttempt, Zenon DEF AttemptPcs
    <2> QED BY <1>1, <1>2, <1>3, <2>2, <2>4, QuietStep, Zenon DEF Holding, Trying, Parking, Throwing
  <1>7. CASE ~alive[att[d].target]
    <2>1. Call(d, "perm_load", i, d, "disconnected", 0) /\ "perm_load" \in Working
      BY <1>7 DEF SendRechecks, Working, Permission
    <2>2. /\ Moves(d) /\ proc'[d].pc = "perm_load" /\ proc'[d].inv = i /\ proc'[d].id = d
          /\ proc'[d].exc = "disconnected"
      <3>1. d \in 0 .. MaxId /\ 0 \in 0 .. MaxBackups /\ "disconnected" \in Errors \cup {"none"}
        BY BoundsAssumption DEF Ids, Errors
      <3> QED BY <1>1, <1>3, <2>1, <3>1, Calling
    <2>3. WorkOk(proc[d])'
      BY <1>1, <1>3, <2>2, IdIsSome, Zenon DEF WorkOk
    <2>4. PermissionOk(d, proc[d])'
      BY <1>1, <1>3, <1>4, <1>5, <2>2, Zenon DEF PermissionOk, VOk, Attempts, OnInvocation
    <2>5. POk(d, proc[d])'
      BY <1>1, <1>5, <2>2, <2>3, <2>4, ToPermission DEF Permission, OnInvocation
    <2> QED BY <1>1, <1>3, <2>2, <2>5, QuietStep, Zenon DEF Holding, Trying, Parking, Throwing, AttemptPcs
  <1> QED BY <1>6, <1>7

\* SendWrites: from here on the member may run the operation.
LEMMA SendWritesStep ==
    ASSUME IInv, NEW d \in Ids, NEW i, i = proc[d].inv, SendWrites(d)
    PROVE  IInv'
  <1>1. /\ proc[d].pc = "write" /\ Return(d) /\ d \in Procs
        /\ att' = [att EXCEPT ![d].wire = "written"]
        /\ UNCHANGED <<running, timer, alive, registry, visiting, lastId, inv, scan, toFail, inbox>>
    BY DEF SendWrites, At, Procs
  <1>2. proc[d].pc \in Working \cap AttemptPcs
    BY <1>1 DEF Working, AttemptPcs
  <1>3. i \in Invs /\ POk(d, proc[d]) /\ VOk(i)
    BY <1>1, <1>2, AtWork
  <1>4. att[d].wire = "none" /\ d # Cleaner
    BY <1>1, <1>2, <1>3, ProcsAssumption DEF POk, AttemptOk
  <1>5. Moves(d) /\ POk(d, proc[d])' /\ proc'[d].pc \in Scanning \cup {"idle"}
    BY <1>1, <1>4, FreeReturn, Zenon DEF Return
  <1>6. /\ att' \in [Ids -> AttRecord] /\ \A id \in Ids : att'[id].owner = att[id].owner
        /\ \A id \in Ids \ {d} : att'[id].wire = att[id].wire /\ att'[id].ackLeft = att[id].ackLeft
        /\ att'[d].wire = "written"
    <2>1. att \in [Ids -> AttRecord]
      BY DEF IInv, Types
    <2> QED BY <1>1, <2>1 DEF AttRecord
  <1>7. Types'
    BY <1>1, <1>5, <1>6 DEF IInv, Types, Moves
  <1>8. proc'[d].pc \notin Holding /\ proc'[d].pc \notin AttemptPcs \cup {"set_value"}
    BY <1>5 DEF Scanning, Holding, AttemptPcs, Trying, Parking, Throwing
  <1>9. Local(d, i)
    BY <1>1, <1>4, <1>5, <1>6, <1>8 DEF Local, WireMoves, Moves
  <1>10. Registered(i)'
    <2>1. registry \subseteq Ids
      BY DEF IInv, Types
    <2> QED BY <1>1, <1>3, <1>5, <1>6, <2>1 DEF VOk, Registered, Moves
  <1> QED BY <1>1, <1>3, <1>5, <1>7, <1>8, <1>9, <1>10, KeepingStep

-----------------------------------------------------------------------------
\* Responses

\* A thread may ask for the permission to notify an invocation of which an attempt was
\* registered, with the id of that attempt.
LEMMA AskingOk ==
    ASSUME IInv, NEW p \in Procs, p # Cleaner, NEW id \in Ids, id =< lastId,
           inv[att[id].owner].sendPtr # -1, NEW exc \in {"none", "retryable", "fatal", "disconnected"},
           NEW n \in 0 .. MaxBackups, Call(p, "perm_load", att[id].owner, id, exc, n),
           UNCHANGED <<inv, att, lastId>>, ~(p \in Ids),
           exc = "none" => p \in Readers /\ att[id].wire = "answered",
           exc = "retryable" => att[id].wire = "refused"
    PROVE  Moves(p) /\ proc'[p].pc = "perm_load" /\ POk(p, proc[p])'
  <1> DEFINE i == att[id].owner
  <1>1. i \in Invs
    BY DEF IInv, Issued
  <1>2. id =< inv[i].msgId /\ inv[i].msgId # None
    <2>1. Attempts(i) /\ inv[i] \in InvRecord
      BY <1>1, Zenon DEF IInv, VOk, Types
    <2>2. id =< inv[i].msgId
      BY <2>1 DEF Attempts
    <2> QED BY <2>1, <2>2 DEF InvRecord, Ids, None
  <1>3. /\ Moves(p) /\ proc'[p].pc = "perm_load" /\ proc'[p].inv = i /\ proc'[p].id = id
        /\ proc'[p].exc = exc
    <2>1. "perm_load" \in Working /\ exc \in Errors \cup {"none"} /\ id \in 0 .. MaxId
      BY DEF Working, Permission, Errors, Ids
    <2>2. Call(p, "perm_load", i, id, exc, n)
      BY Zenon
    <2> HIDE DEF i
    <2> QED BY <1>1, <2>1, <2>2, Calling, Zenon
  <1>4. WorkOk(proc[p])'
    BY <1>1, <1>2, <1>3 DEF WorkOk
  <1>5. PermissionOk(p, proc[p])'
    BY <1>2, <1>3 DEF PermissionOk
  <1> QED BY <1>3, <1>4, <1>5, ToPermission DEF Permission

\* Process: a message whose entry is gone is dropped, another one starts a call.
LEMMA ProcessStep ==
    ASSUME IInv, NEW r \in Readers, NEW m \in inbox, Process(r, m)
    PROVE  IInv'
  <1>1. /\ proc[r].pc = "idle" /\ r \in Procs /\ r # Cleaner /\ r \notin Ids
        /\ inbox' \subseteq inbox
        /\ UNCHANGED <<running, timer, alive, registry, visiting, lastId, inv, att, scan, toFail>>
    BY ProcsAssumption DEF Process, At, Procs
  <1>2. m \in Messages
    BY DEF IInv, Types
  <1>3. CASE m.id \notin registry
    <2>1. UNCHANGED proc
      BY <1>3 DEF Process
    <2>2. Types'
      BY <1>1, <2>1 DEF IInv, Types
    <2>3. None \notin Invs
      BY ProcsAssumption
    <2>4. \A p \in Procs : Local(p, None)
      BY <1>1, <2>1, <2>3, Zenon DEF Local, WireMoves
    <2> QED BY <2>1, <2>2, <2>3, <2>4, EnvironmentStep
  <1>4. CASE m.id \in registry
    <2> DEFINE i == att[m.id].owner
    <2>1. m.id \in Ids /\ m.id =< lastId /\ i \in Invs
      BY <1>2, <1>4, Zenon DEF IInv, Issued, Messages, Ids
    <2>2. /\ att[m.id].wire # "none"
          /\ m.kind = "value" => att[m.id].wire = "answered"
          /\ m.kind = "retryable" => att[m.id].wire = "refused"
      BY DEF IInv, Issued
    <2>3. inv[i].sendPtr # -1
      BY <2>1, <2>2, Zenon DEF IInv, VOk, Attempts
    <2>4. CASE m.kind = "ack"
      <3>1. Call(r, "ack_count", i, m.id, "none", 0)
        BY <1>4, <2>4 DEF Process
      <3>2. Moves(r) /\ proc'[r].pc = "ack_count" /\ proc'[r].inv = i
        <4>1. "ack_count" \in Working /\ m.id \in 0 .. MaxId /\ 0 \in 0 .. MaxBackups
              /\ "none" \in Errors \cup {"none"}
          BY <2>1, BoundsAssumption DEF Working, Acking, Ids
        <4>2. r \in Procs /\ i \in Invs
          BY <1>1, <2>1, Zenon
        <4> HIDE DEF i
        <4> QED BY <3>1, <4>1, <4>2, Calling, Zenon
      <3>3. inv[i].msgId # None
        <4>1. inv[i].msgId = m.id
          BY <1>4, <2>1, Zenon DEF IInv, VOk, Registered
        <4> QED BY <4>1, <2>1 DEF Ids, None
      <3>4. WorkOk(proc[r])' /\ ResponseOk(r, proc[r])'
        BY <1>1, <2>1, <3>2, <3>3, Zenon DEF WorkOk, ResponseOk, Parking
      <3>5. POk(r, proc[r])'
        BY <3>2, <3>4, ToResponse, Zenon DEF Acking
      <3>6. Types'
        BY <1>1, <3>2, Zenon DEF IInv, Types, Moves
      <3> QED BY <1>1, <3>2, <3>5, <3>6, ThreadStep DEF Acking
    <2>5. CASE m.kind # "ack"
      <3>1. PICK exc \in {"none", "retryable", "fatal"}, n \in 0 .. MaxBackups :
               /\ Call(r, "perm_load", i, m.id, exc, n)
               /\ exc = "none" => m.kind = "value"
               /\ exc = "retryable" => m.kind = "retryable"
        <4>1. CASE m.kind = "value"
          <5>1. Call(r, "perm_load", i, m.id, "none", m.n) /\ m.n \in 0 .. MaxBackups
            BY <1>2, <1>4, <4>1, Zenon DEF Process, Messages
          <5> QED BY <4>1, <5>1
        <4>2. CASE m.kind # "value"
          <5>1. Call(r, "perm_load", i, m.id, m.kind, 0) /\ m.kind \in {"retryable", "fatal"}
            BY <1>2, <1>4, <2>5, <4>2, Zenon DEF Process, Messages
          <5>2. 0 \in 0 .. MaxBackups
            BY BoundsAssumption
          <5> QED BY <5>1, <5>2
        <4> QED BY <4>1, <4>2
      <3>2. Moves(r) /\ proc'[r].pc = "perm_load" /\ POk(r, proc[r])'
        BY <1>1, <2>1, <2>2, <2>3, <3>1, AskingOk, Zenon
      <3>3. Types'
        BY <1>1, <3>2, Zenon DEF IInv, Types, Moves
      <3> QED BY <1>1, <3>2, <3>3, ThreadStep, Zenon DEF Permission
    <2> QED BY <2>4, <2>5
  <1> QED BY <1>3, <1>4

-----------------------------------------------------------------------------
\* Closing connections

\* A connection's thread does not complete invocations, and knows nothing of them while
\* it collects the ones it has to fail.
LEMMA ScanningOk ==
    ASSUME IInv, NEW c \in Conns, NEW pc \in Scanning, Goto(c, pc)
    PROVE  /\ c \in Procs /\ c # Cleaner /\ Moves(c) /\ proc'[c].pc = pc /\ POk(c, proc[c])'
           /\ proc[c].pc \notin {"resp_recheck", "ack_pending", "ack_last", "set_value", "erase", "bt_erase"}
  <1>1. c \in Procs /\ c # Cleaner /\ c \notin Ids /\ c \notin Readers
    BY ProcsAssumption DEF Procs
  <1>2. Moves(c) /\ proc'[c].pc = pc
    BY <1>1, Going
  <1>3. POk(c, proc[c])
    BY <1>1, Zenon DEF IInv
  <1>4. proc[c].pc \notin {"resp_recheck", "ack_pending", "ack_last", "set_value", "erase", "bt_erase"}
    BY <1>1, <1>3 DEF POk, ResponseOk, CleanerOk, Acking, Cleaning
  <1>5. WorkOk(proc[c])' /\ CleanerOk(c, proc[c])'
    BY <1>1, <1>2, Zenon DEF WorkOk, CleanerOk, Scanning, Working, AttemptPcs, Trying, Permission, Parking,
                      Acking, Throwing, Cleaning
  <1>6. AttemptOk(c, proc[c])' /\ PermissionOk(c, proc[c])'
    BY <1>1, <1>2, Zenon DEF AttemptOk, PermissionOk, AttemptPcs, Trying, Permission, Scanning
  <1>7. ResponseOk(c, proc[c])' /\ ErrorOk(c, proc[c])'
    BY <1>2 DEF ResponseOk, ErrorOk, Parking, Acking, Throwing, Scanning
  <1> QED BY <1>1, <1>2, <1>4, <1>5, <1>6, <1>7 DEF POk

\* Close, ScanBegin, ScanEnd: the thread moves on.
LEMMA ScanningStep ==
    ASSUME IInv, NEW c \in Conns, Close(c) \/ ScanBegin(c) \/ ScanEnd(c)
    PROVE  IInv'
  <1>1. PICK pc \in Scanning : Goto(c, pc)
    BY DEF Close, ScanBegin, ScanEnd, Scanning
  <1>2. /\ c \in Procs /\ c # Cleaner /\ Moves(c) /\ proc'[c].pc = pc /\ POk(c, proc[c])'
        /\ proc[c].pc \notin {"resp_recheck", "ack_pending", "ack_last", "set_value", "erase", "bt_erase"}
    BY <1>1, ScanningOk
  <1>3. UNCHANGED <<running, timer, registry, visiting, lastId, inv, att, toFail, inbox>>
    BY DEF Close, ScanBegin, ScanEnd, OnInvocation
  <1>4. alive' \in [Conns -> BOOLEAN] /\ scan' \in [Conns -> SUBSET Ids]
    BY Zenon DEF IInv, Types, Close, ScanBegin, ScanEnd, OnInvocation
  <1>5. Types'
    BY <1>2, <1>3, <1>4 DEF IInv, Types, Moves
  <1> QED BY <1>1, <1>2, <1>3, <1>5, ThreadStep

\* ScanVisit: what is to be failed was sent once.
LEMMA ScanVisitStep ==
    ASSUME IInv, NEW c \in Conns, NEW id \in Ids, ScanVisit(c, id)
    PROVE  IInv'
  <1>1. UNCHANGED <<running, timer, alive, registry, visiting, lastId, inv, att, proc, inbox>>
    BY DEF ScanVisit
  <1>2. toFail' \in [Conns -> SUBSET Ids] /\ scan' \in [Conns -> SUBSET Ids]
    BY DEF IInv, Types, ScanVisit
  <1>3. Types'
    BY <1>1, <1>2, Zenon DEF IInv, Types
  <1>4. SentOn(id, c) => id =< lastId /\ inv[att[id].owner].sendPtr # -1
    BY DEF IInv, Issued, SentOn, Ids
  <1>5. \A b \in Conns : \A d \in toFail'[b] :
            d \in toFail[b] \/ (d =< lastId /\ inv[att[d].owner].sendPtr # -1)
    BY <1>4 DEF IInv, Types, ScanVisit
  <1>6. None \notin Invs
    BY ProcsAssumption
  <1>7. \A p \in Procs : Local(p, None)
    BY <1>1, <1>5, <1>6, Zenon DEF Local, WireMoves
  <1> QED BY <1>1, <1>3, <1>6, <1>7, EnvironmentStep

\* FailNext: the entry is erased, then the permission is asked for.
LEMMA FailNextStep ==
    ASSUME IInv, NEW c \in Conns, NEW id \in Ids, FailNext(c, id)
    PROVE  IInv'
  <1>1. /\ proc[c].pc = "fail_next" /\ id \in toFail[c] /\ Deregister(id)
        /\ toFail' = [toFail EXCEPT ![c] = @ \ {id}]
        /\ Call(c, "perm_load", att[id].owner, id, "disconnected", 0)
        /\ UNCHANGED <<running, timer, alive, visiting, lastId, inv, att, scan, inbox>>
    BY DEF FailNext, At
  <1>2. c \in Procs /\ c # Cleaner /\ c \notin Ids
    BY ProcsAssumption DEF Procs
  <1>3. id =< lastId /\ inv[att[id].owner].sendPtr # -1
    BY <1>1, Zenon DEF IInv, Issued
  <1>4. Moves(c) /\ proc'[c].pc = "perm_load" /\ POk(c, proc[c])'
    <2>1. 0 \in 0 .. MaxBackups
      BY BoundsAssumption
    <2> QED BY <1>1, <1>2, <1>3, <2>1, AskingOk
  <1>5. registry' \subseteq registry /\ (visiting \in registry => visiting \in registry')
    BY <1>1 DEF Deregister, Unlocked
  <1>6. toFail' \in [Conns -> SUBSET Ids] /\ \A b \in Conns : toFail'[b] \subseteq toFail[b]
    BY <1>1 DEF IInv, Types
  <1>7. Types'
    BY <1>1, <1>4, <1>5, <1>6 DEF IInv, Types, Moves
  <1> QED BY <1>1, <1>2, <1>4, <1>5, <1>6, <1>7, ThreadStep, Zenon DEF Permission

-----------------------------------------------------------------------------
\* The backup timeout

\* check_backup_timeouts() runs on a thread of its own.
LEMMA CleanerIsThread == Cleaner \in Procs /\ Cleaner \notin Ids /\ Cleaner \notin Readers
  BY ProcsAssumption, Zenon DEF Procs

\* CleanerVisit: the entry is locked and its invocation is looked at.
LEMMA CleanerVisitStep ==
    ASSUME IInv, NEW id \in Ids, CleanerVisit(id)
    PROVE  IInv'
  <1> DEFINE i == att[id].owner
  <1>1. /\ proc[Cleaner].pc = "idle" /\ id \in registry /\ visiting' = id
        /\ Call(Cleaner, "bt_acks", i, id, "indeterminate", 0)
        /\ UNCHANGED <<running, timer, alive, registry, lastId, inv, att, scan, toFail, inbox>>
    BY DEF CleanerVisit, At
  <1>2. i \in Invs
    BY <1>1 DEF IInv, Issued, Ids
  <1>3. inv[i].msgId = id
    BY <1>1, <1>2, Zenon DEF IInv, VOk, Registered
  <1>4. /\ Moves(Cleaner) /\ proc'[Cleaner].pc = "bt_acks" /\ proc'[Cleaner].inv = i
        /\ proc'[Cleaner].exc = "indeterminate"
    <2>1. /\ "bt_acks" \in Working /\ id \in 0 .. MaxId /\ 0 \in 0 .. MaxBackups
          /\ "indeterminate" \in Errors \cup {"none"}
      BY BoundsAssumption DEF Working, Cleaning, Ids, Errors
    <2> QED BY <1>1, <1>2, <2>1, CleanerIsThread, Calling
  <1>5. WorkOk(proc[Cleaner])'
    BY <1>1, <1>2, <1>3, <1>4, IdIsSome, Zenon DEF WorkOk
  <1>6. CleanerOk(Cleaner, proc[Cleaner])'
    BY <1>1, <1>4 DEF CleanerOk, Cleaning, Scanning
  <1>7. POk(Cleaner, proc[Cleaner])'
    BY <1>4, <1>5, <1>6, ToCleaning, Zenon DEF Cleaning
  <1>8. Types'
    BY <1>1, <1>4 DEF IInv, Types, Moves
  <1> QED BY <1>1, <1>4, <1>7, <1>8, CleanerIsThread, ThreadStep, Zenon

\* Leave: the lock is released and the thread knows nothing.
LEMMA Leaving ==
    ASSUME IInv, Leave
    PROVE  /\ Moves(Cleaner) /\ proc'[Cleaner].pc = "idle" /\ POk(Cleaner, proc[Cleaner])'
           /\ visiting' = None
  <1>1. Moves(Cleaner) /\ proc'[Cleaner] = Idle
    BY IdleTyped, CleanerIsThread DEF Leave, IInv, Types, Moves
  <1>2. proc'[Cleaner].pc = "idle"
    BY <1>1 DEF Idle
  <1>3. WorkOk(proc[Cleaner])' /\ CleanerOk(Cleaner, proc[Cleaner])'
    BY <1>2 DEF WorkOk, CleanerOk, Scanning, Working, AttemptPcs, Trying, Permission, Parking,
                Acking, Throwing, Cleaning
  <1>4. AttemptOk(Cleaner, proc[Cleaner])' /\ PermissionOk(Cleaner, proc[Cleaner])'
    BY <1>2 DEF AttemptOk, PermissionOk, AttemptPcs, Trying, Permission
  <1>5. ResponseOk(Cleaner, proc[Cleaner])' /\ ErrorOk(Cleaner, proc[Cleaner])'
    BY <1>2, Zenon DEF ResponseOk, ErrorOk, Parking, Acking, Throwing
  <1> QED BY <1>1, <1>2, <1>3, <1>4, <1>5, Zenon DEF POk, Leave

\* The visitor finds nothing to do.
LEMMA LeavingStep ==
    ASSUME IInv, Leave, proc[Cleaner].pc \in {"bt_acks", "bt_pending"},
           UNCHANGED <<running, timer, alive, registry, lastId, inv, att, scan, toFail, inbox>>
    PROVE  IInv'
  <1>1. /\ Moves(Cleaner) /\ proc'[Cleaner].pc = "idle" /\ POk(Cleaner, proc[Cleaner])'
        /\ visiting' = None
    BY Leaving
  <1>2. Types'
    BY <1>1 DEF IInv, Types, Moves
  <1> QED BY <1>1, <1>2, CleanerIsThread, ThreadStep, Zenon

\* CleanerReadsAcks: a complete count is left to the readers.
LEMMA CleanerReadsAcksStep ==
    ASSUME IInv, CleanerReadsAcks
    PROVE  IInv'
  <1> DEFINE i == proc[Cleaner].inv
  <1>1. /\ proc[Cleaner].pc = "bt_acks"
        /\ UNCHANGED <<running, timer, alive, registry, lastId, inv, att, scan, toFail, inbox>>
    BY Zenon DEF CleanerReadsAcks, At
  <1>2. CASE BackupsComplete(i)
    BY <1>1, <1>2, LeavingStep, Zenon DEF CleanerReadsAcks
  <1>3. CASE ~BackupsComplete(i)
    <2>1. Goto(Cleaner, "bt_pending") /\ UNCHANGED visiting /\ "bt_pending" \in Working
      BY <1>3 DEF CleanerReadsAcks, Working, Cleaning
    <2>2. /\ Moves(Cleaner) /\ proc'[Cleaner].pc = "bt_pending" /\ proc'[Cleaner].inv = i
          /\ proc'[Cleaner].exc = proc[Cleaner].exc
      BY <2>1, CleanerIsThread, Going
    <2>3. proc[Cleaner].pc \in Working
      BY <1>1, Zenon DEF Working, Cleaning
    <2>4. i \in Invs /\ inv[i].msgId \in Ids /\ POk(Cleaner, proc[Cleaner])
      BY <2>3, CleanerIsThread, AtWork
    <2>5. WorkOk(proc[Cleaner])'
      BY <1>1, <2>2, <2>4, IdIsSome, Zenon DEF WorkOk
    <2>6. CleanerOk(Cleaner, proc[Cleaner])'
      BY <1>1, <2>1, <2>2, <2>4, Zenon DEF POk, CleanerOk, Cleaning, Scanning
    <2>7. POk(Cleaner, proc[Cleaner])'
      BY <2>2, <2>5, <2>6, ToCleaning, Zenon DEF Cleaning
    <2>8. Types'
      BY <1>1, <2>1, <2>2 DEF IInv, Types, Moves
    <2> QED BY <1>1, <2>2, <2>7, <2>8, CleanerIsThread, ThreadStep, Zenon
  <1> QED BY <1>2, <1>3

\* CleanerReadsPending: a response is pending, so nobody else has the permission, and
\* the response is the one to the last attempt.
LEMMA CleanerReadsPendingStep ==
    ASSUME IInv, NEW i, i = proc[Cleaner].inv, CleanerReadsPending
    PROVE  IInv'
  <1>1. /\ proc[Cleaner].pc = "bt_pending" /\ Cleaner \in Procs
        /\ UNCHANGED <<running, timer, alive, registry, lastId, inv, att, scan, toFail, inbox>>
    BY CleanerIsThread DEF CleanerReadsPending, At
  <1>2. CASE inv[i].pending = None \/ ~inv[i].ripe
    BY <1>1, <1>2, LeavingStep, Zenon DEF CleanerReadsPending
  <1>3. CASE ~(inv[i].pending = None \/ ~inv[i].ripe)
    <2>1. proc[Cleaner].pc \in Working
      BY <1>1, Zenon DEF Working, Cleaning
    <2>2. i \in Invs /\ inv[i].msgId \in Ids /\ POk(Cleaner, proc[Cleaner]) /\ VOk(i)
          /\ inv[i] \in InvRecord
      BY <1>1, <2>1, AtWork, Zenon
    <2>3. PICK pc \in {"exc_decide", "set_value"} :
             proc' = [proc EXCEPT ![Cleaner].id = inv[i].pending, ![Cleaner].pc = pc]
      BY <1>3 DEF CleanerReadsPending
    <2>4. OnInvocation /\ UNCHANGED inv
      BY <1>1, <1>3, Zenon DEF CleanerReadsPending, OnInvocation
    <2>5. /\ Moves(Cleaner) /\ proc'[Cleaner].pc = pc /\ proc'[Cleaner].inv = i
          /\ proc'[Cleaner].id = inv[i].pending /\ proc'[Cleaner].exc = proc[Cleaner].exc
      <3>1. proc \in [Procs -> ProcRecord] /\ pc \in Working /\ inv[i].pending \in 0 .. MaxId
        BY <2>2, <2>3 DEF IInv, Types, Working, Throwing, InvRecord
      <3> QED BY <1>1, <2>3, <3>1 DEF Moves, ProcRecord
    <2>6. Over(i)
      BY <1>3, Zenon DEF Over
    <2>7. /\ proc[Cleaner].exc = "indeterminate" /\ visiting \in registry
          /\ att[visiting].owner = i
      BY <1>1, <2>2, Zenon DEF POk, CleanerOk
    <2>8. POk(Cleaner, proc[Cleaner])'
      <3>1. WorkOk(proc[Cleaner])'
        BY <2>2, <2>4, <2>5, IdIsSome, Zenon DEF WorkOk
      <3>2. AttemptOk(Cleaner, proc[Cleaner])' /\ PermissionOk(Cleaner, proc[Cleaner])'
        BY <2>3, <2>5, CleanerIsThread DEF AttemptOk, PermissionOk, AttemptPcs, Trying, Permission
      <3>3. ResponseOk(Cleaner, proc[Cleaner])'
        <4>1. inv[i].pending = inv[i].msgId /\ att[inv[i].msgId].wire = "answered"
          BY <1>3, <2>2, Zenon DEF VOk, Answers
        <4> QED BY <2>3, <2>4, <2>5, <4>1, Zenon DEF ResponseOk, Parking, Acking, OnInvocation
      <3>4. ErrorOk(Cleaner, proc[Cleaner])'
        BY <2>3, <2>5, <2>7 DEF ErrorOk, Throwing
      <3>5. CleanerOk(Cleaner, proc[Cleaner])'
        BY <2>3, <2>4, <2>5, <2>7, Zenon DEF CleanerOk, Cleaning, Scanning, OnInvocation
      <3> QED BY <3>1, <3>2, <3>3, <3>4, <3>5, Zenon DEF POk
    <2>9. Types'
      BY <2>4, <2>5 DEF IInv, Types, Moves, OnInvocation
    <2>10. proc'[Cleaner].pc \notin AttemptPcs
      BY <2>3, <2>5, Zenon DEF AttemptPcs, Trying
    <2>11. Local(Cleaner, i)
      BY <2>4, <2>5, <2>10, Zenon DEF Local, WireMoves, Moves, OnInvocation
    <2>12. OneHolder(i)'
      <3>1. inv[i].sendPtr \notin Ids /\ \A p \in Procs : Holds(p, i) => p = Cleaner
        BY <2>2, <2>6, Zenon DEF VOk, OneHolder
      <3>2. \A p \in Procs : Holds(p, i)' => p = Cleaner
        BY <2>5, <3>1 DEF Holds, Moves
      <3> QED BY <2>4, <3>1, <3>2, Zenon DEF OneHolder
    <2>13. Answers(i)' /\ Registered(i)'
      BY <1>1, <2>2, <2>4, <2>5, Zenon DEF VOk, Answers, Registered, Moves
    <2>14. Completed(i)'
      <3>1. \A r \in Readers : proc'[r] = proc[r]
        BY <2>5, CleanerIsThread, Zenon DEF Moves, Procs
      <3> QED BY <2>2, <2>4, <3>1 DEF VOk, Completed
    <2> QED BY <2>8, <2>9, <2>11, <2>12, <2>13, <2>14, LocalStep, Zenon
  <1> QED BY <1>2, <1>3

\* CleanerErases: the entry that is locked is the invocation's only one.
LEMMA CleanerErasesStep ==
    ASSUME IInv, NEW i, i = proc[Cleaner].inv, CleanerErases
    PROVE  IInv'
  <1>1. /\ proc[Cleaner].pc = "bt_erase" /\ Cleaner \in Procs /\ Leave
        /\ registry' = registry \ {visiting}
        /\ UNCHANGED <<running, timer, alive, lastId, inv, att, scan, toFail, inbox>>
    BY CleanerIsThread DEF CleanerErases, At
  <1>2. proc[Cleaner].pc \in Working
    BY <1>1, Zenon DEF Working, Cleaning
  <1>3. i \in Invs /\ POk(Cleaner, proc[Cleaner]) /\ VOk(i)
    BY <1>1, <1>2, AtWork
  <1>4. /\ Moves(Cleaner) /\ proc'[Cleaner].pc = "idle" /\ POk(Cleaner, proc[Cleaner])'
        /\ visiting' = None
    BY <1>1, Leaving, Zenon
  <1>5. visiting \in registry /\ att[visiting].owner = i
    BY <1>1, <1>3, Zenon DEF POk, CleanerOk
  <1>6. Registered(i)'
    BY <1>1, <1>3, <1>5, Zenon DEF VOk, Registered
  <1>7. Types'
    BY <1>1, <1>4 DEF IInv, Types, Moves
  <1>8. proc'[Cleaner].pc \notin Holding \cup AttemptPcs \cup {"set_value"}
    BY <1>4, Zenon DEF Holding, AttemptPcs, Trying, Parking, Throwing
  <1>9. Local(Cleaner, i)
    BY <1>1, <1>4, <1>8 DEF Local, WireMoves, Moves
  <1> QED BY <1>1, <1>3, <1>4, <1>6, <1>7, <1>8, <1>9, KeepingStep, Zenon

-----------------------------------------------------------------------------
\* Time, the application, the members and the network

\* BackupTimeoutPasses: only the backup timeout looks at the time.
LEMMA TimeStep ==
    ASSUME IInv, NEW i \in Invs, BackupTimeoutPasses(i)
    PROVE  IInv'
  <1>1. UNCHANGED proc /\ OnInvocation /\ inv' = [inv EXCEPT ![i].ripe = TRUE]
    BY DEF BackupTimeoutPasses
  <1>2. VOk(i) /\ inv[i] \in InvRecord
    BY DEF IInv, Types
  <1>3. PICK y \in InvRecord : y = [inv[i] EXCEPT !.ripe = TRUE]
    BY <1>2, Zenon DEF InvRecord
  <1>4. /\ inv' \in [Invs -> InvRecord] /\ inv'[i] = y /\ \A j \in Invs \ {i} : inv'[j] = inv[j]
    BY <1>1, <1>3, Updated, Zenon
  <1>5. /\ y.expected = inv[i].expected /\ y.msgId = inv[i].msgId /\ y.acks = inv[i].acks
        /\ y.retryable = inv[i].retryable /\ y.pending = inv[i].pending
        /\ y.future = inv[i].future /\ y.sendPtr = inv[i].sendPtr
    BY <1>2, <1>3 DEF InvRecord
  <1>6. Types'
    BY <1>1, <1>4 DEF IInv, Types, OnInvocation
  <1>7. \A p \in Procs : Local(p, i)
    BY <1>1, <1>4, <1>5 DEF Local, WireMoves, OnInvocation
  <1>8. OneHolder(i)'
    BY <1>1, <1>2, <1>4, <1>5, Zenon DEF VOk, OneHolder, Over, Holds
  <1>9. Answers(i)' /\ Completed(i)' /\ Registered(i)'
    BY <1>1, <1>2, <1>4, <1>5, Zenon DEF VOk, Answers, Completed, Registered, OnInvocation
  <1> QED BY <1>1, <1>6, <1>7, <1>8, <1>9, EnvironmentStep, Zenon

\* Shutdown and the end of the timer.
LEMMA LifecycleStep ==
    ASSUME IInv, TimerEnds \/ Shutdown
    PROVE  IInv'
  <1>1. /\ UNCHANGED <<alive, registry, visiting, lastId, inv, att, proc, scan, toFail, inbox>>
        /\ running' \in BOOLEAN /\ timer' \in BOOLEAN
    BY Zenon DEF TimerEnds, Shutdown, IInv, Types
  <1>2. Types' /\ None \notin Invs
    BY <1>1, ProcsAssumption, Zenon DEF IInv, Types
  <1>3. \A p \in Procs : Local(p, None)
    BY <1>1, <1>2 DEF Local, WireMoves
  <1> QED BY <1>1, <1>2, <1>3, EnvironmentStep

\* A member runs, answers or refuses what was written, and backups acknowledge what was run.
LEMMA MemberStep ==
    ASSUME IInv, NEW id \in Ids, Member(id)
    PROVE  IInv'
  <1>1. UNCHANGED <<running, timer, alive, registry, visiting, lastId, inv, proc, scan, toFail>>
    BY Zenon DEF Member, MemberApplies, MemberReplies, MemberRefuses, BackupAcks
  <1>2. att \in [Ids -> AttRecord] /\ att[id] \in AttRecord /\ inbox \subseteq Messages
    BY DEF IInv, Types
  <1>3. PICK y \in AttRecord :
           /\ att' = [att EXCEPT ![id] = y]
           /\ y.owner = att[id].owner
           /\ y.wire # "none"
           /\ y.wire = att[id].wire \/ att[id].wire \in {"written", "applied"}
           /\ \/ inbox' = inbox
              \/ \E m \in Messages :
                    /\ inbox' = inbox \cup {m} /\ m.id = id /\ y.wire # "none"
                    /\ m.kind = "value" => y.wire = "answered"
                    /\ m.kind = "retryable" => y.wire = "refused"
    <2>1. ASSUME NEW n \in 0 .. MaxBackups, MemberApplies(id, n)
          PROVE  \E y \in AttRecord :
                    /\ att' = [att EXCEPT ![id] = y] /\ y.owner = att[id].owner
                    /\ att[id].wire = "written" /\ y.wire # "none" /\ inbox' = inbox
      <3> DEFINE y == [att[id] EXCEPT !.wire = "applied", !.backups = n, !.ackLeft = n]
      <3>1. y \in AttRecord /\ y.owner = att[id].owner /\ y.wire = "applied"
        BY <1>2, Zenon DEF AttRecord
      <3>2. att' = [att EXCEPT ![id] = y] /\ att[id].wire = "written" /\ inbox' = inbox
        BY <1>2, <2>1, Zenon DEF MemberApplies
      <3> QED BY <3>1, <3>2, Zenon
    <2>2. ASSUME MemberReplies(id)
          PROVE  \E y \in AttRecord, m \in Messages :
                    /\ att' = [att EXCEPT ![id] = y] /\ y.owner = att[id].owner
                    /\ att[id].wire = "applied" /\ y.wire = "answered"
                    /\ inbox' = inbox \cup {m} /\ m.id = id /\ m.kind = "value"
      <3> DEFINE y == [att[id] EXCEPT !.wire = "answered"]
                 m == [kind |-> "value", id |-> id, n |-> att[id].backups]
      <3>1. y \in AttRecord /\ y.owner = att[id].owner /\ y.wire = "answered"
        BY <1>2 DEF AttRecord
      <3>2. m \in Messages /\ m.id = id /\ m.kind = "value"
        BY <1>2 DEF AttRecord, Messages
      <3>3. att' = [att EXCEPT ![id] = y] /\ att[id].wire = "applied" /\ inbox' = inbox \cup {m}
        BY <1>2, <2>2 DEF MemberReplies
      <3> QED BY <3>1, <3>2, <3>3, Zenon
    <2>3. ASSUME NEW kind \in {"retryable", "fatal"}, MemberRefuses(id, kind)
          PROVE  \E y \in AttRecord, m \in Messages :
                    /\ att' = [att EXCEPT ![id] = y] /\ y.owner = att[id].owner
                    /\ att[id].wire = "written" /\ y.wire = "refused"
                    /\ inbox' = inbox \cup {m} /\ m.id = id /\ m.kind # "value"
      <3> DEFINE y == [att[id] EXCEPT !.wire = "refused"]
                 m == [kind |-> kind, id |-> id, n |-> 0]
      <3>1. y \in AttRecord /\ y.owner = att[id].owner /\ y.wire = "refused"
        BY <1>2 DEF AttRecord
      <3>2. m \in Messages /\ m.id = id /\ m.kind # "value"
        BY BoundsAssumption DEF Messages
      <3>3. att' = [att EXCEPT ![id] = y] /\ att[id].wire = "written" /\ inbox' = inbox \cup {m}
        BY <1>2, <2>3 DEF MemberRefuses
      <3> QED BY <3>1, <3>2, <3>3, Zenon
    <2>4. ASSUME BackupAcks(id)
          PROVE  \E y \in AttRecord, m \in Messages :
                    /\ att' = [att EXCEPT ![id] = y] /\ y.owner = att[id].owner
                    /\ y.wire = att[id].wire /\ y.wire # "none"
                    /\ inbox' = inbox \cup {m} /\ m.id = id /\ m.kind = "ack"
      <3> DEFINE y == [att[id] EXCEPT !.ackLeft = att[id].ackLeft - 1]
                 m == [kind |-> "ack", id |-> id, n |-> att[id].ackLeft]
      <3>1. att[id].ackLeft \in 0 .. MaxBackups /\ att[id].ackLeft > 0
        BY <1>2, <2>4 DEF AttRecord, BackupAcks
      <3>2. att[id].ackLeft - 1 \in 0 .. MaxBackups
        BY <3>1, BoundsAssumption
      <3>3. y \in AttRecord /\ y.owner = att[id].owner /\ y.wire = att[id].wire
        BY <1>2, <3>2, Zenon DEF AttRecord
      <3>4. m \in Messages /\ m.id = id /\ m.kind = "ack"
        BY <3>1 DEF Messages
      <3>5. att' = [att EXCEPT ![id] = y] /\ inbox' = inbox \cup {m}
        BY <1>2, <2>4, Zenon DEF BackupAcks
      <3>6. att[id].wire # "none"
        BY <3>1 DEF IInv, Issued
      <3> QED BY <3>3, <3>4, <3>5, <3>6, Zenon
    <2> QED BY <2>1, <2>2, <2>3, <2>4 DEF Member
  <1>4. /\ att' \in [Ids -> AttRecord]
        /\ \A d \in Ids : att'[d] = IF d = id THEN y ELSE att[d]
    BY <1>2, <1>3
  <1>5. /\ inbox' \subseteq Messages
        /\ \A m \in inbox' :
              \/ m \in inbox
              \/ /\ m.id = id /\ y.wire # "none"
                 /\ m.kind = "value" => y.wire = "answered"
                 /\ m.kind = "retryable" => y.wire = "refused"
    BY <1>2, <1>3, Zenon
  <1>6. Types' /\ None \notin Invs
    BY <1>1, <1>4, <1>5, ProcsAssumption, Zenon DEF IInv, Types
  <1>7. \A m \in inbox' :
            \/ m \in inbox
            \/ /\ att'[m.id].wire # "none"
               /\ m.kind = "value" => att'[m.id].wire = "answered"
               /\ m.kind = "retryable" => att'[m.id].wire = "refused"
    BY <1>4, <1>5, Zenon
  <1>8. ASSUME NEW p \in Procs PROVE Local(p, None)
    <2>1. WireMoves(p)
      BY <1>3, <1>4 DEF WireMoves
    <2> QED BY <1>1, <1>6, <1>7, <2>1, Zenon DEF Local
  <1> QED BY <1>1, <1>6, <1>8, EnvironmentStep


-----------------------------------------------------------------------------
\* The invariant holds

\* The invariant holds before anything is invoked.
LEMMA InitOk == Init => IInv
  <1>1. SUFFICES ASSUME Init PROVE IInv
    OBVIOUS
  <1>2. \A i \in Invs : inv[i] = NewInvocation
    BY <1>1 DEF Init
  <1>3. \A id \in Ids : att[id] = NewAttempt
    BY <1>1 DEF Init
  <1>4. \A p \in Procs : proc[p] = Idle
    BY <1>1, Zenon DEF Init
  <1>5. /\ NewInvocation.msgId = None /\ NewInvocation.sendPtr = -1 /\ NewInvocation.pending = None
        /\ NewInvocation.future = Unset /\ Unset.kind = "unset" /\ Unset.via = "none"
    BY DEF NewInvocation, Unset
  <1>6. NewAttempt.owner = None /\ NewAttempt.wire = "none" /\ NewAttempt.ackLeft = 0
    BY DEF NewAttempt
  <1>7. Idle.pc = "idle"
    BY DEF Idle
  <1>8. Types
    <2>1. NewInvocation \in InvRecord
      BY BoundsAssumption DEF NewInvocation, InvRecord, None
    <2>2. NewAttempt \in AttRecord
      BY BoundsAssumption DEF NewAttempt, AttRecord
    <2>3. inv \in [Invs -> InvRecord] /\ att \in [Ids -> AttRecord] /\ proc \in [Procs -> ProcRecord]
      BY <1>1, <2>1, <2>2, IdleTyped DEF Init
    <2>4. lastId \in 0 .. MaxId
      BY <1>1, BoundsAssumption DEF Init
    <2> QED BY <1>1, <2>3, <2>4, Zenon DEF Init, Types
  <1>9. Issued
    <2>1. \A id \in Ids : ~(id =< lastId)
      BY <1>1 DEF Init, Ids
    <2> QED BY <1>1, <1>3, <1>6, <2>1 DEF Init, Issued
  <1>10. ASSUME NEW p \in Procs PROVE POk(p, proc[p])
    <2>1. proc[p].pc = "idle"
      BY <1>4, <1>7
    <2>2. WorkOk(proc[p]) /\ CleanerOk(p, proc[p])
      BY <2>1, Zenon DEF WorkOk, CleanerOk, Scanning, Working, AttemptPcs, Trying, Permission, Parking,
                  Acking, Throwing, Cleaning
    <2>3. AttemptOk(p, proc[p]) /\ PermissionOk(p, proc[p])
      BY <2>1, Zenon DEF AttemptOk, PermissionOk, AttemptPcs, Trying, Permission
    <2>4. ResponseOk(p, proc[p]) /\ ErrorOk(p, proc[p])
      BY <2>1 DEF ResponseOk, ErrorOk, Parking, Acking, Throwing
    <2> QED BY <2>2, <2>3, <2>4 DEF POk
  <1>11. ASSUME NEW i \in Invs PROVE VOk(i)
    <2>1. \A p \in Procs : proc[p].pc = "idle"
      BY <1>4, <1>7
    <2>2. OneHolder(i)
      <3>1. \A p \in Procs : ~Holds(p, i) /\ proc[p].pc # "set_value"
        BY <2>1 DEF Holds, Holding, Trying, Parking, Throwing
      <3>2. inv[i].sendPtr \notin Ids
        BY <1>2, <1>5 DEF Ids
      <3> QED BY <3>1, <3>2 DEF OneHolder
    <2>3. Attempts(i)
      <3>1. inv[i].msgId =< lastId
        BY <1>1, <1>2, <1>5 DEF Init, None
      <3>2. \A id \in Ids : att[id].owner # i
        BY <1>3, <1>6, ProcsAssumption
      <3> QED BY <1>2, <1>5, <3>1, <3>2, Zenon DEF Attempts
    <2>4. Answers(i) /\ Completed(i)
      BY <1>2, <1>5 DEF Answers, Completed
    <2>5. Registered(i)
      BY <1>1 DEF Init, Registered
    <2> QED BY <2>2, <2>3, <2>4, <2>5 DEF VOk
  <1> QED BY <1>8, <1>9, <1>10, <1>11 DEF IInv

\* Every step inside a notification keeps the invariant.
LEMMA NotifyStep ==
    ASSUME IInv, NEW p \in Procs, Notify(p)
    PROVE  IInv'
  <1>1. CASE LoadPointer(p) \/ CheckCorrelationId(p) \/ SwapPointer(p)
    BY <1>1, LoadPointerStep, CheckCorrelationIdStep, SwapPointerStep
  <1>2. CASE ResponseCheck(p) \/ StoreExpected(p) \/ StorePending(p) \/ ResponseRecheck(p)
    BY <1>2, ResponseCheckStep, StoreExpectedStep, StorePendingStep, ResponseRecheckStep
  <1>3. CASE SetValue(p) \/ EraseCompleted(p)
    BY <1>3, SetValueStep, EraseCompletedStep
  <1>4. CASE CountAck(p) \/ AckSeesPending(p) \/ LastAck(p)
    BY <1>4, CountAckStep, AckSeesPendingStep, LastAckStep
  <1>5. CASE EraseFailed(p) \/ Retry(p)
    BY <1>5, EraseFailedStep, RetryStep
  <1>6. CASE GiveUp(p) \/ DeregisterFailed(p) \/ SetException(p)
    BY <1>6, GiveUpStep, DeregisterFailedStep, SetExceptionStep, Zenon
  <1> QED BY <1>1, <1>2, <1>3, <1>4, <1>5, <1>6 DEF Notify

\* Every step keeps the invariant.
LEMMA NextOk == IInv /\ [Next]_vars => IInv'
  <1>1. SUFFICES ASSUME IInv, [Next]_vars PROVE IInv'
    OBVIOUS
  <1>2. Ids \subseteq Procs /\ Readers \subseteq Procs /\ Conns \subseteq Procs /\ Cleaner \in Procs
    BY DEF Procs
  <1>3. ASSUME NEW i \in Invs, NEW bound \in Conns \cup {NoConn}, NEW retryable \in BOOLEAN,
               Invoke(i, bound, retryable)
        PROVE  IInv'
    BY <1>1, <1>3, InvokeStep
  <1>4. ASSUME NEW i \in Invs, BackupTimeoutPasses(i) PROVE IInv'
    BY <1>1, <1>4, TimeStep
  <1>5. ASSUME NEW d \in Ids, Attempt(d) PROVE IInv'
    <2>1. CASE Notify(d)
      BY <1>1, <1>2, <2>1, NotifyStep
    <2>2. CASE \E c \in Conns : Select(d, c)
      BY <1>1, <2>2, SelectStep
    <2>3. CASE NotInvoked(d) \/ SendRegisters(d) \/ SendSetsConnection(d)
      BY <1>1, <2>3, NotInvokedStep, SendRegistersStep, SendSetsConnectionStep, Zenon
    <2>4. CASE SendRechecks(d) \/ SendWrites(d)
      BY <1>1, <2>4, SendRechecksStep, SendWritesStep, Zenon
    <2> QED BY <1>5, <2>1, <2>2, <2>3, <2>4 DEF Attempt
  <1>6. ASSUME NEW id \in Ids, CleanerVisit(id) \/ Member(id) PROVE IInv'
    BY <1>1, <1>6, CleanerVisitStep, MemberStep
  <1>7. ASSUME NEW r \in Readers, Respond(r) PROVE IInv'
    BY <1>1, <1>2, <1>7, NotifyStep, ProcessStep DEF Respond
  <1>8. ASSUME NEW c \in Conns, Close(c) \/ Closing(c) PROVE IInv'
    <2>1. CASE Close(c) \/ ScanBegin(c) \/ ScanEnd(c)
      BY <1>1, <2>1, ScanningStep
    <2>2. CASE \E id \in Ids : ScanVisit(c, id) \/ FailNext(c, id)
      BY <1>1, <2>2, ScanVisitStep, FailNextStep
    <2>3. CASE Notify(c)
      BY <1>1, <1>2, <2>3, NotifyStep
    <2> QED BY <1>8, <2>1, <2>2, <2>3 DEF Closing
  <1>9. CASE Clean
    <2>1. CASE TimerEnds
      BY <1>1, <2>1, LifecycleStep
    <2>2. CASE CleanerReadsAcks \/ CleanerReadsPending \/ CleanerErases
      BY <1>1, <2>2, CleanerReadsAcksStep, CleanerReadsPendingStep, CleanerErasesStep
    <2>3. CASE Notify(Cleaner)
      BY <1>1, <1>2, <2>3, NotifyStep
    <2> QED BY <1>9, <2>1, <2>2, <2>3 DEF Clean
  <1>10. CASE Shutdown
    BY <1>1, <1>10, LifecycleStep
  <1>11. CASE UNCHANGED vars
    <2>1. UNCHANGED <<running, timer, alive, registry, visiting, lastId, inv, att, proc, scan, toFail, inbox>>
      BY <1>11, Zenon DEF vars
    <2>2. Types' /\ None \notin Invs
      BY <1>1, <2>1, ProcsAssumption DEF IInv, Types
    <2>3. \A p \in Procs : Local(p, None)
      BY <2>1, <2>2, Zenon DEF Local, WireMoves
    <2> QED BY <1>1, <2>1, <2>2, <2>3, EnvironmentStep
  <1> QED BY <1>1, <1>3, <1>4, <1>5, <1>6, <1>7, <1>8, <1>9, <1>10, <1>11, Zenon DEF Next

\* The inductive invariant holds in every state.
THEOREM Invariant == Spec => []IInv
  BY InitOk, NextOk, PTL DEF Spec

-----------------------------------------------------------------------------
\* The properties

\* Every variable has its type, and no id occurs in an invocation before it was issued.
THEOREM TypeCorrect == Spec => []TypeOK
  <1>1. IInv => TypeOK
    <2>1. SUFFICES ASSUME IInv PROVE TypeOK
      OBVIOUS
    <2>2. lastId \in 0 .. MaxId /\ lastId \in Nat
      BY <2>1, BoundsAssumption DEF IInv, Types
    <2>3. ASSUME NEW i \in Invs
          PROVE  /\ inv[i] \in InvRecord /\ inv[i].msgId \in 0 .. lastId
                 /\ inv[i].sendPtr \in -1 .. lastId /\ inv[i].pending \in 0 .. lastId
      <3>1. inv[i] \in InvRecord /\ VOk(i)
        BY <2>1 DEF IInv, Types
      <3>2. inv[i].msgId \in 0 .. lastId
        <4>1. inv[i].msgId \in 0 .. MaxId /\ inv[i].msgId =< lastId
          BY <3>1, Zenon DEF InvRecord, VOk, Attempts
        <4> QED BY <4>1, <2>2, BoundsAssumption
      <3>3. inv[i].sendPtr \in -1 .. lastId
        <4>1. inv[i].sendPtr \in -1 .. MaxId /\ (inv[i].sendPtr \in Ids => inv[i].sendPtr = inv[i].msgId)
          BY <3>1, Zenon DEF InvRecord, VOk, OneHolder
        <4> QED BY <4>1, <3>2, <2>2, BoundsAssumption DEF Ids
      <3>4. inv[i].pending \in 0 .. lastId
        <4>1. inv[i].pending # None => inv[i].pending = inv[i].msgId
          BY <3>1 DEF VOk, Answers
        <4> QED BY <4>1, <3>2, <2>2 DEF None
      <3> QED BY <3>1, <3>2, <3>3, <3>4
    <2>4. ASSUME NEW id \in Ids
          PROVE  att[id].owner \in (IF id =< lastId THEN Invs ELSE {None}) /\ att[id] \in AttRecord
      BY <2>1 DEF IInv, Types, Issued
    <2>5. \A c \in Conns : scan[c] \subseteq Ids /\ toFail[c] \subseteq Ids
      BY <2>1 DEF IInv, Types
    <2>6. \A i \in Invs :
            /\ inv[i].bound \in Conns \cup {NoConn} /\ inv[i].retryable \in BOOLEAN
            /\ inv[i].acks \in Nat /\ inv[i].expected \in -1 .. MaxBackups
            /\ inv[i].ripe \in BOOLEAN /\ inv[i].future \in Results \cup {Unset}
      BY <2>3, Zenon DEF InvRecord
    <2>7. \A id \in Ids : /\ att[id].target \in Conns \cup {NoConn}
                          /\ att[id].wire \in {"none", "written", "applied", "answered", "refused"}
      BY <2>4 DEF AttRecord
    <2>8. /\ running \in BOOLEAN /\ timer \in BOOLEAN /\ alive \in [Conns -> BOOLEAN]
          /\ registry \subseteq 1 .. lastId /\ visiting \in Ids \cup {None}
      BY <2>1 DEF IInv, Types, Issued
    <2> QED BY <2>2, <2>3, <2>4, <2>5, <2>6, <2>7, <2>8, Zenon DEF TypeOK
  <1> QED BY <1>1, Invariant, PTL

INSTANCE FiniteSetTheorems

\* A set whose members are all equal has one member at most.
LEMMA AtMostOne ==
    ASSUME NEW S, \A x, y \in S : x = y
    PROVE  Cardinality(S) =< 1
  <1>1. CASE S = {}
    BY <1>1, FS_EmptySet
  <1>2. CASE S # {}
    <2>1. PICK x \in S : TRUE
      BY <1>2
    <2>2. S = {x}
      BY <2>1
    <2> QED BY <2>2, FS_Singleton
  <1> QED BY <1>1, <1>2

\* get_permission_to_notify() lets one thread through: whatever the number of
\* connections, response threads and attempts, at most one thread answers an
\* invocation, fails it or makes its next attempt.
THEOREM OneThreadNotifies == Spec => []OneNotifier
  <1>1. IInv => OneNotifier
    <2>1. SUFFICES ASSUME IInv, NEW i \in Invs
                   PROVE  Cardinality(Failing(i) \cup Attempting(i) \cup Answering(i)) =< 1
      BY DEF OneNotifier
    <2>2. \A p \in Failing(i) \cup Attempting(i) \cup Answering(i) : p \in Procs /\ Holds(p, i)
      BY DEF Failing, Attempting, Answering, Holds, Holding, Trying, Parking, Throwing, Procs
    <2>3. \A p, q \in Procs : Holds(p, i) /\ Holds(q, i) => p = q
      BY <2>1, Zenon DEF IInv, VOk, OneHolder
    <2>4. \A p, q \in Failing(i) \cup Attempting(i) \cup Answering(i) : p = q
      BY <2>2, <2>3
    <2> QED BY <2>4, AtMostOne
  <1> QED BY <1>1, Invariant, PTL

\* should_retry() repeats an operation that is not retryable only when the message
\* was not written or the member refused it: members apply one attempt at most.
THEOREM AppliedAtMostOnce == Spec => []AtMostOnce
  <1>1. IInv => AtMostOnce
    <2> DEFINE S(i) == {id \in Ids : att[id].owner = i /\ att[id].wire \in {"applied", "answered"}}
    <2>1. SUFFICES ASSUME IInv, NEW i \in Invs, ~inv[i].retryable PROVE Cardinality(S(i)) =< 1
      BY SMTT(20) DEF AtMostOnce
    <2>2. \A id \in S(i) : id = inv[i].msgId
      BY <2>1 DEF IInv, VOk, Attempts, Unapplied
    <2> HIDE DEF S
    <2> QED BY <2>2, AtMostOne
  <1> QED BY <1>1, Invariant, PTL

\* The promise is set to the answer to the invocation's last attempt, never to the one
\* of an attempt that was given up.
THEOREM AnswersAreCurrent == Spec => []NoStaleAnswer
  <1>1. IInv => NoStaleAnswer
    BY Zenon DEF IInv, VOk, Answers, NoStaleAnswer
  <1> QED BY <1>1, Invariant, PTL

\* Of notify_response() and the notify_backup() calls that run at the same time, the
\* last one to look completes the invocation: a response with all its backup acks
\* does not stay pending unless a thread is still to look.
THEOREM SomebodyCompletes == Spec => []LastAckCompletes
  <1>1. IInv => LastAckCompletes
    BY Zenon DEF IInv, VOk, Completed, LastAckCompletes, BackupsComplete, Settled
  <1> QED BY <1>1, Invariant, PTL

\* An entry of invocations_ whose invocation is settled has a thread that will erase it.
THEOREM EntriesAreErased == Spec => []NoLeak
  <1>1. IInv => NoLeak
    <2>1. SUFFICES ASSUME IInv, NEW id \in registry, Settled(att[id].owner)
                   PROVE  \E p \in Procs : proc[p].inv = att[id].owner /\ ~At(p, "idle")
      BY ZenonT(30) DEF NoLeak
    <2>2. att[id].owner \in Invs
      BY <2>1, SMTT(20) DEF IInv, Types, Issued, Ids
    <2>3. \E p \in Procs : proc[p].inv = att[id].owner /\ proc[p].pc \in {"erase", "bt_erase"}
      BY <2>1, <2>2 DEF IInv, VOk, Registered, Settled
    <2> QED BY <2>3 DEF At
  <1> QED BY <1>1, Invariant, PTL

\* No future fails with indeterminate_operation_state_exception.
NeverIndeterminate == \A i \in Invs : inv[i].future.via # "indeterminate"

\* What Invocation_indeterminate.cfg shows of one instance holds of all:
\* check_backup_timeouts() sets the exception from within erase_if(), and
\* deregister_invocation() waits there for the entry that erase_if() holds.  Whatever
\* fail.on.indeterminate.state says, the exception reaches no caller.
THEOREM IndeterminateIsNotReported == Spec => []NeverIndeterminate
  <1>1. IInv => NeverIndeterminate
    BY DEF IInv, VOk, Answers, NeverIndeterminate
  <1> QED BY <1>1, Invariant, PTL
=============================================================================
