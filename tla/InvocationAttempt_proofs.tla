--------------------- MODULE InvocationAttempt_proofs ----------------------
(***************************************************************************)
(* The steps that start an attempt keep the invariant, execute() called by *)
(* invoke() or, after an error, by                                         *)
(* notify_exception_with_owned_permission(); and so do the steps of the    *)
(* latter and of set_exception() that end the invocation instead.  One     *)
(* lemma per action.                                                       *)
(***************************************************************************)
EXTENDS InvocationInvariant_proofs, TLAPS

-----------------------------------------------------------------------------
\* A new attempt

\* invoke() and the retry: invocation i gets the new correlation id d, a thread is to
\* make the attempt, and thread p, which had the permission to notify i, returns.
Begins(p, i, d) ==
    /\ d \in Ids /\ d = lastId + 1 /\ lastId' = d
    /\ \A id \in Ids \ {d} : att'[id] = att[id]
    /\ att'[d].owner = i /\ att'[d].wire = att[d].wire /\ att'[d].ackLeft = att[d].ackLeft
    /\ \A j \in Invs \ {i} : inv'[j] = inv[j]
    /\ inv'[i].msgId = d /\ inv'[i].sendPtr = inv[i].sendPtr /\ inv'[i].pending = inv[i].pending
    /\ inv'[i].future = inv[i].future /\ inv'[i].expected = inv[i].expected
    /\ \A q \in Procs \ {p, d} : proc'[q] = proc[q]
    /\ proc'[d].pc = "select" /\ proc'[d].inv = i
    /\ p = d \/ proc'[p].pc \in Scanning \cup {"idle"}
    /\ UNCHANGED <<registry, visiting, toFail, inbox>>

\* When an attempt may begin: nobody but p is at work on the invocation, it has no
\* entry, and what it sent was not run, unless it may run twice.
MayBegin(p, i, d) ==
    /\ ~Over(i) /\ inv[i].sendPtr \notin Ids
    /\ \A q \in Procs : Holds(q, i) => q = p
    /\ \A id \in registry : att[id].owner # i
    /\ ~inv'[i].retryable => \A id \in Ids : att[id].owner = i => Unapplied(id)
    /\ proc[p].pc \notin {"resp_recheck", "ack_pending", "ack_last", "set_value", "erase", "bt_erase"}

\* A new correlation id was never used.
LEMMA FreshId ==
    ASSUME IInv, NEW p, NEW i \in Invs, NEW d, Begins(p, i, d)
    PROVE  /\ d \in Ids /\ d \in Nat /\ lastId \in Nat /\ d = lastId + 1 /\ lastId' = d
           /\ d \in Procs /\ d # Cleaner /\ proc[d].pc = "idle" /\ att[d].wire = "none"
           /\ att[d].owner = None /\ att[d].ackLeft = 0 /\ d \notin registry
           /\ \A j \in Invs : inv[j].msgId \in 0 .. lastId /\ inv[j].msgId # d
           /\ \A id \in Ids : id =< lastId => id # d
  <1>1. d \in Ids /\ d \in Nat /\ d = lastId + 1 /\ lastId' = d /\ lastId \in Nat
    <2>1. d \in Ids /\ d = lastId + 1 /\ lastId' = d
      BY DEF Begins
    <2>2. lastId \in 0 .. MaxId
      BY DEF IInv, Types
    <2> QED BY <2>1, <2>2, BoundsAssumption DEF Ids
  <1>2. d \in Procs /\ d # Cleaner
    BY <1>1, ProcsAssumption DEF Procs
  <1>3. d > lastId /\ ~(d =< lastId)
    BY <1>1
  <1>4. proc[d].pc = "idle"
    <2>1. POk(d, proc[d])
      BY <1>2 DEF IInv
    <2> QED BY <1>1, <1>3, <2>1 DEF POk, AttemptOk
  <1>5. att[d].wire = "none" /\ att[d].owner = None /\ att[d].ackLeft = 0 /\ d \notin registry
    BY <1>1, <1>3 DEF IInv, Issued
  <1>6. ASSUME NEW j \in Invs PROVE inv[j].msgId \in 0 .. lastId /\ inv[j].msgId # d
    <2>1. inv[j].msgId \in 0 .. MaxId /\ inv[j].msgId =< lastId
      BY DEF IInv, Types, InvRecord, VOk, Attempts
    <2> QED BY <2>1, <1>1, BoundsAssumption
  <1>7. \A id \in Ids : id =< lastId => id # d
    BY <1>3
  <1> QED BY <1>1, <1>2, <1>4, <1>5, <1>6, <1>7

\* An attempt that was not applied is not applied because another one begins.
LEMMA UnappliedThen ==
    ASSUME IInv, NEW p, NEW i \in Invs, NEW d, Begins(p, i, d), NEW id \in Ids \ {d}, Unapplied(id)
    PROVE  Unapplied(id)'
  <1>1. att'[id] = att[id] /\ id \in Procs
    BY DEF Begins, Procs
  <1>2. proc'[id].pc \in AttemptPcs => proc[id].pc \in AttemptPcs
    BY <1>1, Zenon DEF Begins, Scanning, AttemptPcs, Trying
  <1> QED BY <1>1, <1>2 DEF Unapplied

\* The other threads know what they knew, for none of them is at work on i but to ask
\* for a permission, to count an acknowledgement, or to clean up.
LEMMA OthersKnowThen ==
    ASSUME IInv, NEW p, NEW i \in Invs, NEW d, Begins(p, i, d), MayBegin(p, i, d),
           NEW q \in Procs \ {p, d}
    PROVE  POk(q, proc[q])'
  <1> DEFINE j == proc[q].inv
  <1>1. proc'[q] = proc[q] /\ POk(q, proc[q]) /\ proc[q] \in ProcRecord
    BY DEF Begins, IInv, Types
  <1>2. j = i => proc[q].pc \notin Holding \cup {"set_value", "resp_recheck"}
    <2>1. j = i => proc[q].pc \notin Holding \cup {"set_value"}
      BY DEF MayBegin, Holds, Over
    <2>2. j = i => proc[q].pc # "resp_recheck"
      BY <1>1 DEF MayBegin, Over, POk, ResponseOk
    <2> QED BY <2>1, <2>2
  <1>3. ASSUME j \in Invs, j # i PROVE inv'[j] = inv[j]
    BY <1>3 DEF Begins
  <1>4. ASSUME j \in Invs
        PROVE  /\ inv'[j].sendPtr = inv[j].sendPtr /\ inv'[j].pending = inv[j].pending
               /\ inv'[j].expected = inv[j].expected
    BY <1>4 DEF Begins
  <1>5. \A id \in Ids : att'[id].wire = att[id].wire
    BY DEF Begins
  <1>6. \A id \in Ids : id =< lastId => att'[id].owner = att[id].owner
    BY FreshId DEF Begins
  <1>7. d \in Nat /\ lastId \in Nat /\ d = lastId + 1 /\ lastId' = d
    BY FreshId
  <1>8. ASSUME j \in Invs, inv[j].msgId # None
        PROVE  inv'[j].msgId # None /\ inv[j].msgId =< inv'[j].msgId
    <2>1. inv[j].msgId \in 0 .. lastId
      BY <1>8, FreshId
    <2>2. inv'[j].msgId = inv[j].msgId \/ inv'[j].msgId = d
      BY <1>8, <1>3 DEF Begins
    <2> QED BY <2>1, <2>2, <1>7, <1>8 DEF None
  <1>9. WorkOk(proc[q])'
    BY <1>1, <1>8 DEF POk, WorkOk
  <1>10. AttemptOk(q, proc[q])'
    <2>1. q \in Ids /\ q > lastId' => proc[q].pc = "idle"
      BY <1>1, <1>7 DEF POk, AttemptOk, Ids
    <2>2. proc[q].pc \in AttemptPcs =>
             q \in Ids /\ q =< lastId' /\ att'[q].owner = j /\ att'[q].wire = "none" /\ j \in Invs
      BY <1>1, <1>5, <1>6, <1>7 DEF POk, WorkOk, AttemptOk, Ids, Working
    <2>3. proc[q].pc \in Trying => inv'[j].msgId = q
      BY <1>1, <1>2, <1>3, <2>2, Zenon DEF POk, AttemptOk, Holding, AttemptPcs
    <2>4. proc[q].pc \in {"recheck", "write"} => inv'[j].sendPtr # -1
      BY <1>1, <1>4, <2>2 DEF POk, AttemptOk, AttemptPcs
    <2> QED BY <1>1, <2>1, <2>2, <2>3, <2>4 DEF AttemptOk
  <1>11. PermissionOk(q, proc[q])'
    <2>1. CASE proc[q].pc \in Permission
      <3>1. j \in Invs /\ inv[j].msgId # None
        BY <1>1, <2>1, Zenon DEF POk, WorkOk, Working
      <3>2. inv[j].msgId \in Nat /\ inv'[j].msgId \in Nat
        <4>1. inv[j].msgId \in 0 .. lastId
          BY <3>1, FreshId
        <4>2. inv'[j].msgId = inv[j].msgId \/ inv'[j].msgId = d
          BY <3>1, <1>3 DEF Begins
        <4> QED BY <4>1, <4>2, <1>7
      <3>3. \A n \in Ids : n =< inv[j].msgId => n =< inv'[j].msgId
        BY <3>1, <3>2, <1>8 DEF Ids
      <3> QED BY <1>1, <1>4, <1>5, <2>1, <3>1, <3>3, Zenon DEF POk, PermissionOk
    <2>2. CASE proc[q].pc \notin Permission
      BY <1>1, <2>2 DEF PermissionOk, Permission
    <2> QED BY <2>1, <2>2
  <1>12. ResponseOk(q, proc[q])'
    <2>1. CASE proc[q].pc \in Parking \cup {"set_value", "resp_recheck"}
      <3>1. j \in Invs /\ inv[j].msgId # None /\ j # i
        BY <1>1, <1>2, <2>1 DEF POk, WorkOk, Working, Holding
      <3>2. inv'[j] = inv[j] /\ inv[j].msgId \in Ids
        <4>1. inv[j].msgId \in 0 .. MaxId
          BY <3>1 DEF IInv, Types, InvRecord
        <4> QED BY <3>1, <4>1, <1>3, BoundsAssumption DEF Ids, None
      <3> QED BY <1>1, <1>5, <3>2, Zenon DEF POk, ResponseOk
    <2>2. CASE proc[q].pc \notin Parking \cup {"set_value", "resp_recheck"}
      <3>1. proc[q].pc = "ack_last" => j \in Invs
        BY <1>1, Zenon DEF POk, WorkOk, Working, Acking
      <3> QED BY <1>1, <1>4, <2>2, <3>1, Zenon DEF POk, ResponseOk, Parking
    <2> QED BY <2>1, <2>2
  <1>13. ErrorOk(q, proc[q])'
    <2>1. CASE proc[q].pc \in Throwing
      <3>1. j \in Invs /\ inv[j].msgId # None /\ j # i
        BY <1>1, <1>2, <2>1, Zenon DEF POk, WorkOk, Working, Holding
      <3>2. inv'[j] = inv[j] /\ inv[j].msgId \in Ids \ {d}
        <4>1. inv[j].msgId \in 0 .. MaxId /\ inv[j].msgId # d
          BY <3>1, FreshId DEF IInv, Types, InvRecord
        <4> QED BY <3>1, <4>1, <1>3, BoundsAssumption DEF Ids, None
      <3>3. Unapplied(inv[j].msgId) => Unapplied(inv[j].msgId)'
        BY <3>2, UnappliedThen, <1>1, Zenon
      <3>4. (\A id \in registry : att[id].owner # j) => \A id \in registry' : att'[id].owner # j
        <4>1. \A id \in registry : id \in Ids /\ id =< lastId
          BY DEF IInv, Issued, Types, Ids
        <4> QED BY <4>1, <1>6 DEF Begins
      <3> QED BY <1>1, <3>2, <3>3, <3>4, Zenon DEF POk, ErrorOk
    <2>2. CASE proc[q].pc \notin Throwing
      BY <1>1, <2>2, Zenon DEF ErrorOk, Throwing
    <2> QED BY <2>1, <2>2
  <1>14. CleanerOk(q, proc[q])'
    <2>1. visiting \in registry => visiting \in Ids /\ visiting =< lastId
      BY DEF IInv, Issued, Types, Ids
    <2> QED BY <1>1, <1>6, <2>1, Zenon DEF POk, CleanerOk, Begins
  <1> QED BY <1>9, <1>10, <1>11, <1>12, <1>13, <1>14 DEF POk

\* The other invocations do not notice.
LEMMA OtherInvocationsThen ==
    ASSUME IInv, NEW p \in Procs, NEW i \in Invs, NEW d, Begins(p, i, d), MayBegin(p, i, d),
           NEW j \in Invs \ {i}
    PROVE  VOk(j)'
  <1>1. VOk(j) /\ inv'[j] = inv[j] /\ inv[j] \in InvRecord
    BY Zenon DEF IInv, Types, Begins
  <1>2. \A q \in Procs : (proc'[q].inv = j /\ proc'[q].pc \in Holding \cup {"set_value"}) =>
            proc'[q] = proc[q]
    BY ZenonT(30) DEF Begins, Scanning, Holding, Trying, Parking, Throwing
  <1>3. \A q \in Procs : (proc[q].inv = j /\ proc[q].pc \in
            {"resp_recheck", "ack_pending", "ack_last", "set_value", "erase", "bt_erase"}) =>
                proc'[q] = proc[q]
    <2>1. \A q \in Procs \ {p, d} : proc'[q] = proc[q]
      BY DEF Begins
    <2>2. proc[p].pc \notin {"resp_recheck", "ack_pending", "ack_last", "set_value", "erase", "bt_erase"}
      BY DEF MayBegin
    <2>3. proc[d].pc = "idle"
      BY FreshId
    <2> QED BY <2>1, <2>2, <2>3
  <1>4. OneHolder(j)'
    <2>1. \A q \in Procs : Holds(q, j)' => Holds(q, j)
      BY <1>2 DEF Holds
    <2>2. Over(j)' => Over(j)
      <3>1. \A q \in Procs : proc'[q].inv = j /\ proc'[q].pc = "set_value" => proc'[q] = proc[q]
        BY <1>2
      <3> QED BY <1>1, <3>1, Zenon DEF Over
    <2> QED BY <1>1, <2>1, <2>2, Zenon DEF VOk, OneHolder
  <1>5. /\ \A id \in Ids : att'[id].wire = att[id].wire
        /\ \A id \in Ids : att'[id].owner = j => id # d /\ att'[id] = att[id]
        /\ \A id \in Ids : id =< lastId => att'[id] = att[id]
    BY FreshId DEF Begins
  <1>6. inv[j].msgId \in 0 .. lastId /\ (inv[j].msgId # None => inv[j].msgId \in Ids)
    <2>1. inv[j].msgId \in 0 .. lastId /\ inv[j].msgId \in 0 .. MaxId
      BY <1>1, FreshId DEF InvRecord
    <2> QED BY <2>1, BoundsAssumption DEF Ids, None
  <1>7. Attempts(j)'
    <2>1. inv'[j].msgId =< lastId'
      <3>1. lastId \in Nat /\ lastId' = lastId + 1
        BY FreshId
      <3> QED BY <1>1, <1>6, <3>1
    <2>2. inv'[j].msgId # None => att'[inv'[j].msgId].owner = j
      <3>1. inv[j].msgId # None => inv[j].msgId =< lastId /\ att[inv[j].msgId].owner = j
        BY <1>1 DEF VOk, Attempts
      <3> QED BY <1>1, <1>5, <1>6, <3>1
    <2>3. ASSUME NEW id \in Ids, att'[id].owner = j
          PROVE  /\ id =< inv'[j].msgId
                 /\ inv'[j].sendPtr = -1 => att'[id].wire = "none"
                 /\ ~inv'[j].retryable /\ id # inv'[j].msgId => Unapplied(id)'
      <3>1. id # d /\ att'[id] = att[id] /\ att[id].owner = j
        BY <1>5, <2>3
      <3>2. Unapplied(id) => Unapplied(id)'
        BY <3>1, UnappliedThen
      <3> QED BY <1>1, <3>1, <3>2, Zenon DEF VOk, Attempts
    <2> QED BY <1>1, <2>1, <2>2, <2>3, Zenon DEF VOk, Attempts
  <1>8. Answers(j)'
    <2>1. inv[j].pending # None \/ inv[j].future.kind = "value" => inv[j].msgId \in Ids
      BY Answered
    <2> QED BY <2>1, <1>1, <1>5 DEF VOk, Answers
  <1>9. Completed(j)'
    <2>1. Readers \subseteq Procs
      BY DEF Procs
    <2> QED BY <2>1, <1>1, <1>3, Zenon DEF VOk, Completed
  <1>10. Registered(j)'
    <2>1. registry \subseteq Ids /\ registry' = registry
      BY Zenon DEF IInv, Types, Begins
    <2> QED BY <2>1, <1>1, <1>3, <1>5 DEF VOk, Registered
  <1> QED BY <1>4, <1>7, <1>8, <1>9, <1>10 DEF VOk

\* The thread that is to make the attempt is the one that may act on the invocation.
LEMMA NewAttemptOk ==
    ASSUME IInv, NEW p \in Procs, NEW i \in Invs, NEW d, Begins(p, i, d), MayBegin(p, i, d)
    PROVE  VOk(i)' /\ POk(d, proc[d])'
  <1>1. VOk(i) /\ inv[i] \in InvRecord
    BY DEF IInv, Types
  <1>2. d \in Ids /\ lastId \in Nat /\ lastId' = d /\ d = lastId + 1 /\ d # None
    <2>1. d \in Ids /\ lastId \in Nat /\ lastId' = d /\ d = lastId + 1
      BY FreshId
    <2> QED BY <2>1 DEF None
  <1>3. /\ inv'[i].msgId = d /\ d # None /\ inv'[i].sendPtr = inv[i].sendPtr
        /\ inv[i].sendPtr \notin Ids /\ inv'[i].pending = None /\ inv'[i].future = Unset
    <2>1. /\ inv'[i].msgId = d /\ inv'[i].sendPtr = inv[i].sendPtr
          /\ inv'[i].pending = inv[i].pending /\ inv'[i].future = inv[i].future
      BY DEF Begins
    <2>2. inv[i].sendPtr \notin Ids /\ inv[i].pending = None /\ inv[i].future = Unset
      BY DEF MayBegin, Over
    <2> QED BY <1>2, <2>1, <2>2
  <1>4. POk(d, proc[d])'
    <2>1. proc'[d].pc = "select" /\ proc'[d].inv = i /\ att'[d].owner = i /\ att'[d].wire = "none"
      <3>1. /\ proc'[d].pc = "select" /\ proc'[d].inv = i /\ att'[d].owner = i
            /\ att'[d].wire = att[d].wire
        BY DEF Begins
      <3> QED BY <3>1, FreshId, Zenon
    <2>2. WorkOk(proc[d])'
      BY <2>1, <1>3, Zenon DEF WorkOk
    <2>3. d =< lastId' /\ ~(d > lastId')
      BY <1>2
    <2>4. AttemptOk(d, proc[d])'
      BY <2>1, <2>3, <1>2, <1>3 DEF AttemptOk
    <2> QED BY <2>1, <2>2, <2>4, <1>2, ToAttempt, Zenon DEF AttemptPcs, Trying
  <1>5. OneHolder(i)'
    <2>1. \A q \in Procs : Holds(q, i)' => q = d
      BY DEF Begins, MayBegin, Holds, Scanning, Holding, Trying, Parking, Throwing
    <2>2. ~Over(i)'
      <3>1. \A q \in Procs : ~(proc'[q].inv = i /\ proc'[q].pc = "set_value")
        BY DEF Begins, MayBegin, Over, Scanning
      <3> QED BY <3>1, <1>3 DEF Over
    <2> QED BY <2>1, <2>2, <1>3 DEF OneHolder
  <1>6. Attempts(i)'
    <2>1. d =< lastId' /\ att'[d].owner = i
      BY <1>2 DEF Begins
    <2>2. ASSUME NEW id \in Ids, att'[id].owner = i, id # d
          PROVE  /\ id =< d
                 /\ inv'[i].sendPtr = -1 => att'[id].wire = "none"
                 /\ ~inv'[i].retryable => Unapplied(id)'
      <3>1. att'[id] = att[id] /\ att[id].owner = i
        BY <2>2, Zenon DEF Begins
      <3>2. id =< inv[i].msgId /\ inv[i].msgId \in 0 .. lastId
        BY <3>1, <1>1, FreshId, Zenon DEF VOk, Attempts
      <3>3. id =< d
        BY <3>2, <1>2 DEF Ids
      <3>4. ~inv'[i].retryable => Unapplied(id)'
        BY <2>2, <3>1, UnappliedThen DEF MayBegin
      <3> QED BY <1>1, <1>3, <3>1, <3>3, <3>4, Zenon DEF VOk, Attempts
    <2>3. d =< d /\ att'[d].wire = "none"
      <3>1. att'[d].wire = att[d].wire
        BY DEF Begins
      <3> QED BY <1>2, <3>1, FreshId
    <2> QED BY <1>3, <2>1, <2>2, <2>3, Zenon DEF Attempts
  <1>7. Answers(i)' /\ Completed(i)'
    BY <1>3 DEF Answers, Completed, Unset
  <1>8. Registered(i)'
    <2>1. \A id \in registry' : id # d /\ id \in Ids /\ att[id].owner # i
      <3>1. registry' = registry
        BY DEF Begins
      <3>2. \A id \in registry : att[id].owner # i
        BY DEF MayBegin
      <3>3. registry \subseteq Ids
        BY DEF IInv, Types
      <3> QED BY <3>1, <3>2, <3>3, FreshId
    <2>2. \A id \in Ids \ {d} : att'[id] = att[id]
      BY DEF Begins
    <2> QED BY <2>1, <2>2 DEF Registered
  <1> QED BY <1>4, <1>5, <1>6, <1>7, <1>8 DEF VOk

\* A new attempt keeps the invariant.
LEMMA BeginningStep ==
    ASSUME IInv, Types', NEW p \in Procs, NEW i \in Invs, NEW d, Begins(p, i, d), MayBegin(p, i, d),
           p # d => POk(p, proc[p])'
    PROVE  IInv'
  <1>1. d \in Ids /\ lastId \in Nat /\ lastId' = d /\ d = lastId + 1
    BY FreshId
  <1>2. Issued'
    <2>1. Issued
      BY Zenon DEF IInv
    <2>2. (registry \subseteq 1 .. lastId)'
      <3>1. registry' = registry /\ registry \subseteq 1 .. lastId
        BY <2>1, Zenon DEF Issued, Begins
      <3> QED BY <1>1, <3>1
    <2>3. \A id \in Ids : /\ att'[id].wire = att[id].wire /\ att'[id].ackLeft = att[id].ackLeft
                          /\ id =< lastId => att'[id].owner = att[id].owner
      BY FreshId DEF Begins
    <2>4. ASSUME NEW id \in Ids
          PROVE  (IF id =< lastId THEN att[id].owner \in Invs
                                  ELSE att[id].owner = None /\ att[id].wire = "none")'
      <3>1. CASE id = d
        <4>1. att'[d].owner = i
          BY Zenon DEF Begins
        <4> QED BY <1>1, <3>1, <4>1
      <3>2. CASE id # d
        <4>1. id =< lastId <=> id =< d
          BY <1>1, <3>2 DEF Ids
        <4>2. att'[id] = att[id]
          BY <3>2 DEF Begins
        <4> QED BY <1>1, <2>1, <4>1, <4>2 DEF Issued
      <3> QED BY <3>1, <3>2, Zenon
    <2>5. \A id \in Ids : (att[id].wire = "none" => att[id].ackLeft = 0)'
      BY <2>1, <2>3, Zenon DEF Issued
    <2>6. ASSUME NEW c \in Conns, NEW id \in toFail'[c]
          PROVE  (id =< lastId /\ inv[att[id].owner].sendPtr # -1)'
      <3>1. id \in toFail[c] /\ id \in Ids
        BY <2>6, Zenon DEF Begins, IInv, Types
      <3>2. id =< lastId /\ inv[att[id].owner].sendPtr # -1 /\ att[id].owner \in Invs
        BY <2>1, <3>1, Zenon DEF Issued
      <3>3. id =< d
        BY <1>1, <3>1, <3>2, SMTT(20) DEF Ids
      <3>4. inv'[att[id].owner].sendPtr = inv[att[id].owner].sendPtr
        BY <3>2 DEF Begins
      <3> QED BY <1>1, <2>3, <3>1, <3>2, <3>3, <3>4
    <2>7. \A m \in inbox : m.id \in Ids
      BY DEF IInv, Types, Messages
    <2>8. inbox' = inbox
      BY Zenon DEF Begins
    <2> QED BY <2>1, <2>2, <2>3, <2>4, <2>5, <2>6, <2>7, <2>8, ZenonT(30) DEF Issued
  <1>3. ASSUME NEW q \in Procs PROVE POk(q, proc[q])'
    <2>1. CASE q \in {p, d}
      BY <2>1, NewAttemptOk
    <2>2. CASE q \notin {p, d}
      BY <2>2, OthersKnowThen
    <2> QED BY <2>1, <2>2
  <1>4. ASSUME NEW j \in Invs PROVE VOk(j)'
    <2>1. CASE j = i
      BY <2>1, NewAttemptOk
    <2>2. CASE j # i
      BY <2>2, OtherInvocationsThen
    <2> QED BY <2>1, <2>2
  <1> QED BY <1>2, <1>3, <1>4, Zenon DEF IInv

\* The new id belongs to the invocation.
LEMMA OwnerSet ==
    ASSUME IInv, NEW i \in Invs, NEW d \in Ids, att' = [att EXCEPT ![d].owner = i]
    PROVE  /\ att' \in [Ids -> AttRecord] /\ \A id \in Ids \ {d} : att'[id] = att[id]
           /\ att'[d].owner = i /\ att'[d].wire = att[d].wire /\ att'[d].ackLeft = att[d].ackLeft
  <1>1. att \in [Ids -> AttRecord]
    BY DEF IInv, Types
  <1> QED BY <1>1 DEF AttRecord

\* Retry: the backup timeout does not retry; an operation that must not run twice is
\* retried only after "io" or "retryable", when it did not run.
LEMMA RetryStep ==
    ASSUME IInv, NEW p \in Procs, NEW i, i = proc[p].inv, NEW d, d = lastId + 1, Retry(p)
    PROVE  IInv'
  <1>1. /\ proc[p].pc = "exc_decide" /\ should_retry(i, proc[p].exc) /\ d \in Ids /\ lastId' = d
        /\ inv' = [inv EXCEPT ![i].msgId = d] /\ att' = [att EXCEPT ![d].owner = i]
        /\ proc' = [proc EXCEPT ![p] = AfterNotify(p),
                                ![d] = [Idle EXCEPT !.pc = "select", !.inv = i]]
        /\ UNCHANGED <<running, timer, alive, registry, visiting, scan, toFail, inbox>>
    BY DEF Retry, At
  <1>2. proc[p].pc \in Working \cap Throwing \cap Holding
    BY <1>1 DEF Working, Throwing, Holding
  <1>3. i \in Invs /\ inv[i].msgId \in Ids /\ POk(p, proc[p]) /\ VOk(i) /\ inv[i] \in InvRecord
    BY <1>2, AtWork
  <1>4. p # Cleaner
    <2>1. p = Cleaner => proc[p].exc = "indeterminate"
      BY <1>1, <1>3 DEF POk, CleanerOk
    <2> QED BY <2>1, <1>1 DEF should_retry
  <1>5. Holds(p, i)
    BY <1>2 DEF Holds
  <1>6. p # d /\ d \in Procs /\ proc[d].pc = "idle"
    <2>1. d \in Procs /\ POk(d, proc[d]) /\ lastId \in Nat
      BY <1>1 DEF Procs, IInv, Types
    <2>2. d > lastId
      BY <2>1
    <2>3. proc[d].pc = "idle"
      BY <2>1, <2>2, <1>1 DEF POk, AttemptOk
    <2> QED BY <2>1, <2>3, <1>1
  <1>7. PICK P : P = [proc EXCEPT ![p] = AfterNotify(p)]
    BY Zenon
  <1>8. /\ P \in [Procs -> ProcRecord] /\ P[p].pc \in {"fail_next", "idle"}
        /\ P[p].pc = "fail_next" => p \in Conns
        /\ \A q \in Procs \ {p} : P[q] = proc[q]
    <2>1. proc \in [Procs -> ProcRecord]
      BY DEF IInv, Types
    <2>2. AfterNotify(p) \in ProcRecord
      BY <2>1, IdleTyped DEF AfterNotify, ProcRecord, Scanning, Working, Cleaning
    <2>3. /\ AfterNotify(p).pc \in {"fail_next", "idle"}
          /\ AfterNotify(p).pc = "fail_next" => p \in Conns
      BY <1>4, <2>1 DEF AfterNotify, ProcRecord, Idle
    <2> QED BY <1>7, <2>1, <2>2, <2>3
  <1>9. /\ proc' \in [Procs -> ProcRecord] /\ proc'[p] = P[p]
        /\ \A q \in Procs \ {p, d} : proc'[q] = proc[q]
        /\ proc'[d].pc = "select" /\ proc'[d].inv = i
    <2> DEFINE s == [Idle EXCEPT !.pc = "select", !.inv = i]
    <2>1. s \in ProcRecord /\ s.pc = "select" /\ s.inv = i
      BY <1>3, IdleTyped, Zenon DEF ProcRecord, Working, AttemptPcs, Trying
    <2>2. proc' = [P EXCEPT ![d] = s]
      BY <1>1, <1>7
    <2> HIDE DEF s
    <2> QED BY <1>6, <1>8, <2>1, <2>2
  <1>10. PICK y \in InvRecord : y = [inv[i] EXCEPT !.msgId = d]
    <2>1. d \in 0 .. MaxId
      BY <1>1 DEF Ids
    <2> QED BY <1>3, <2>1, Zenon DEF InvRecord
  <1>11. inv' = [inv EXCEPT ![i] = y]
    BY <1>1, <1>10
  <1>12. /\ y.msgId = d /\ y.sendPtr = inv[i].sendPtr /\ y.pending = inv[i].pending
         /\ y.future = inv[i].future /\ y.expected = inv[i].expected
         /\ y.retryable = inv[i].retryable
    BY <1>3, <1>10 DEF InvRecord
  <1>13. /\ Types' /\ inv'[i] = y /\ \A j \in Invs \ {i} : inv'[j] = inv[j]
         /\ \A id \in Ids \ {d} : att'[id] = att[id]
         /\ att'[d].owner = i /\ att'[d].wire = att[d].wire /\ att'[d].ackLeft = att[d].ackLeft
    <2>1. /\ att' \in [Ids -> AttRecord] /\ \A id \in Ids \ {d} : att'[id] = att[id]
          /\ att'[d].owner = i /\ att'[d].wire = att[d].wire /\ att'[d].ackLeft = att[d].ackLeft
      BY <1>1, <1>3, OwnerSet, Zenon
    <2>2. /\ inv' \in [Invs -> InvRecord] /\ inv'[i] = y
          /\ \A j \in Invs \ {i} : inv'[j] = inv[j]
      BY <1>3, <1>11, Updated, Zenon
    <2>3. lastId' \in 0 .. MaxId
      BY <1>1 DEF Ids
    <2>4. Types'
      BY <1>1, <1>9, <2>1, <2>2, <2>3, Zenon DEF IInv, Types
    <2> QED BY <2>1, <2>2, <2>4
  <1>14. Begins(p, i, d)
    BY <1>1, <1>8, <1>9, <1>12, <1>13, Zenon DEF Begins, Scanning
  <1>15. MayBegin(p, i, d)
    <2>1. /\ ~Over(i) /\ inv[i].sendPtr \notin Ids
          /\ \A q \in Procs : Holds(q, i) => q = p
      BY <1>3, <1>4, <1>5, HolderKnows, Zenon
    <2>2. \A id \in registry : att[id].owner # i
      BY <1>1, <1>3, <1>4 DEF POk, ErrorOk
    <2>3. ASSUME ~inv[i].retryable, NEW id \in Ids, att[id].owner = i PROVE Unapplied(id)
      <3>1. proc[p].exc \in {"io", "retryable"}
        BY <1>1, <2>3 DEF should_retry
      <3>2. Unapplied(inv[i].msgId)
        BY <1>1, <1>3, <3>1 DEF POk, ErrorOk
      <3> QED BY <1>3, <2>3, <3>2, Zenon DEF VOk, Attempts
    <2> QED BY <1>1, <1>12, <1>13, <2>1, <2>2, <2>3 DEF MayBegin
  <1>16. POk(p, proc[p])'
    <2>1. proc'[p].pc \in {"fail_next", "idle"} /\ (proc'[p].pc = "fail_next" => p \in Conns)
      BY <1>8, <1>9
    <2>2. p \in Ids => proc'[p].pc = "idle"
      BY <2>1, ProcsAssumption, Zenon
    <2> QED BY <1>4, <2>1, <2>2, AwayOk
  <1> QED BY <1>3, <1>13, <1>14, <1>15, <1>16, BeginningStep

\* Invoke: the invocation was not made before, so nobody is at work on it.
LEMMA InvokeStep ==
    ASSUME IInv, NEW i \in Invs, NEW bound \in Conns \cup {NoConn}, NEW retryable \in BOOLEAN,
           NEW d, d = lastId + 1, Invoke(i, bound, retryable)
    PROVE  IInv'
  <1>1. /\ inv[i].msgId = None /\ d \in Ids /\ lastId' = d
        /\ inv' = [inv EXCEPT ![i].msgId = d, ![i].bound = bound, ![i].retryable = retryable]
        /\ att' = [att EXCEPT ![d].owner = i]
        /\ proc' = [proc EXCEPT ![d] = [Idle EXCEPT !.pc = "select", !.inv = i]]
        /\ UNCHANGED <<running, timer, alive, registry, visiting, scan, toFail, inbox>>
    BY DEF Invoke
  <1>2. VOk(i) /\ inv[i] \in InvRecord /\ d \in Procs
    BY <1>1 DEF IInv, Types, Procs
  <1>3. proc[d].pc = "idle"
    <2>1. POk(d, proc[d]) /\ lastId \in Nat
      BY <1>2 DEF IInv, Types
    <2>2. d > lastId
      BY <2>1
    <2> QED BY <2>1, <2>2, <1>1 DEF POk, AttemptOk
  <1>4. /\ proc' \in [Procs -> ProcRecord]
        /\ \A q \in Procs \ {d} : proc'[q] = proc[q]
        /\ proc'[d].pc = "select" /\ proc'[d].inv = i
    <2> DEFINE s == [Idle EXCEPT !.pc = "select", !.inv = i]
    <2>1. s \in ProcRecord /\ s.pc = "select" /\ s.inv = i
      BY IdleTyped, Zenon DEF ProcRecord, Working, AttemptPcs, Trying
    <2>2. proc' = [proc EXCEPT ![d] = s] /\ proc \in [Procs -> ProcRecord]
      BY <1>1 DEF IInv, Types
    <2> HIDE DEF s
    <2> QED BY <1>2, <2>1, <2>2
  <1>5. PICK y \in InvRecord :
           y = [inv[i] EXCEPT !.msgId = d, !.bound = bound, !.retryable = retryable]
    <2>1. d \in 0 .. MaxId
      BY <1>1 DEF Ids
    <2> QED BY <1>2, <2>1, Zenon DEF InvRecord
  <1>6. inv' = [inv EXCEPT ![i] = y]
    BY <1>1, <1>5, Zenon
  <1>7. /\ y.msgId = d /\ y.sendPtr = inv[i].sendPtr /\ y.pending = inv[i].pending
        /\ y.future = inv[i].future /\ y.expected = inv[i].expected
    BY <1>2, <1>5, Zenon DEF InvRecord
  <1>8. /\ Types' /\ inv'[i] = y /\ \A j \in Invs \ {i} : inv'[j] = inv[j]
        /\ \A id \in Ids \ {d} : att'[id] = att[id]
        /\ att'[d].owner = i /\ att'[d].wire = att[d].wire /\ att'[d].ackLeft = att[d].ackLeft
    <2>1. /\ att' \in [Ids -> AttRecord] /\ \A id \in Ids \ {d} : att'[id] = att[id]
          /\ att'[d].owner = i /\ att'[d].wire = att[d].wire /\ att'[d].ackLeft = att[d].ackLeft
      BY <1>1, OwnerSet, Zenon
    <2>2. /\ inv' \in [Invs -> InvRecord] /\ inv'[i] = y
          /\ \A j \in Invs \ {i} : inv'[j] = inv[j]
      BY <1>6, Updated, Zenon
    <2>3. lastId' \in 0 .. MaxId
      BY <1>1 DEF Ids
    <2>4. Types'
      BY <1>1, <1>4, <2>1, <2>2, <2>3 DEF IInv, Types
    <2> QED BY <2>1, <2>2, <2>4
  <1>9. Begins(d, i, d)
    BY <1>1, <1>4, <1>7, <1>8, Zenon DEF Begins
  <1>10. MayBegin(d, i, d)
    <2>1. \A q \in Procs : proc[q].inv = i => proc[q].pc \notin Working
      BY <1>1 DEF IInv, POk, WorkOk
    <2>2. (\A q \in Procs : ~Holds(q, i))
      BY <2>1, Zenon DEF Holds, Holding, Working, AttemptPcs
    <2>3. ~Over(i) /\ inv[i].sendPtr \notin Ids
      <3>1. inv[i].pending = None /\ inv[i].future = Unset /\ inv[i].sendPtr = -1
        BY <1>1, <1>2 DEF VOk, Answers, Attempts
      <3> QED BY <3>1, <2>1 DEF Over, Working, Ids
    <2>4. \A id \in Ids : att[id].owner # i
      <3>1. \A id \in Ids : att[id].owner = i => id =< 0
        BY <1>1, <1>2 DEF VOk, Attempts, None
      <3> QED BY <3>1 DEF Ids
    <2>5. registry \subseteq Ids
      BY DEF IInv, Types
    <2> QED BY <1>3, <2>2, <2>3, <2>4, <2>5, Zenon DEF MayBegin
  <1> QED BY <1>2, <1>8, <1>9, <1>10, BeginningStep

-----------------------------------------------------------------------------
\* notify_exception_with_owned_permission() and set_exception()

\* EraseFailed: the entry is erased before the exception is looked at.
LEMMA EraseFailedStep ==
    ASSUME IInv, NEW p \in Procs, EraseFailed(p)
    PROVE  IInv'
  <1> DEFINE i == proc[p].inv
  <1>1. /\ proc[p].pc = "exc_erase" /\ Deregister(inv[i].msgId) /\ Goto(p, "exc_decide")
        /\ UNCHANGED <<running, timer, alive, visiting, lastId, inv, att, scan, toFail, inbox>>
    BY Zenon DEF EraseFailed, At
  <1>2. proc[p].pc \in Working \cap Throwing \cap Holding
    BY <1>1, Zenon DEF Working, Throwing, Holding
  <1>3. i \in Invs /\ inv[i].msgId \in Ids /\ POk(p, proc[p])
    BY <1>2, AtWork
  <1>4. p # Cleaner
    BY <1>1, <1>3 DEF POk, CleanerOk, Cleaning
  <1>5. /\ Moves(p) /\ proc'[p].pc = "exc_decide" /\ proc'[p].inv = i
        /\ proc'[p].exc = proc[p].exc
    <2>1. "exc_decide" \in Working
      BY DEF Working, Throwing
    <2> QED BY <1>1, <2>1, Going
  <1>6. POk(p, proc[p])'
    <2>1. WorkOk(proc[p])'
      BY <1>1, <1>3, <1>5, IdIsSome, Zenon DEF WorkOk
    <2>2. \A id \in registry' : att'[id].owner # i
      BY <1>1, <1>3, Erased
    <2>3. proc[p].exc \in {"io", "retryable"} => Unapplied(inv[i].msgId)'
      <3>1. proc[p].exc \in {"io", "retryable"} => Unapplied(inv[i].msgId)
        BY <1>1, <1>3, Zenon DEF POk, ErrorOk
      <3>2. \A id \in Ids : proc'[id].pc \in AttemptPcs => proc[id].pc \in AttemptPcs
        BY <1>5, Zenon DEF Moves, Procs, AttemptPcs, Trying
      <3> QED BY <1>1, <1>3, <1>5, <3>1, <3>2, Zenon DEF Unapplied
    <2>4. ErrorOk(p, proc[p])'
      BY <1>1, <1>2, <1>3, <1>5, <2>2, <2>3, Zenon DEF POk, ErrorOk
    <2>5. ~(p \in Ids /\ p > lastId')
      BY <1>1, <1>3 DEF POk, AttemptOk
    <2> QED BY <1>4, <1>5, <2>1, <2>4, <2>5, ToError DEF Throwing
  <1>7. proc'[p].pc \notin AttemptPcs \cup {"set_value"}
    BY <1>5, Zenon DEF AttemptPcs, Trying
  <1> QED BY <1>1, <1>2, <1>3, <1>4, <1>5, <1>6, <1>7, ErasingStep, Zenon

\* GiveUp: the permission stays with the thread.
LEMMA GiveUpStep ==
    ASSUME IInv, NEW p \in Procs, GiveUp(p)
    PROVE  IInv'
  <1> DEFINE i == proc[p].inv
  <1>1. proc[p].pc = "exc_decide" /\ UNCHANGED inv /\ OnInvocation
    BY DEF GiveUp, At
  <1>2. proc[p].pc \in Working \cap Throwing
    BY <1>1, Zenon DEF Working, Throwing
  <1>3. i \in Invs /\ inv[i].msgId \in Ids /\ POk(p, proc[p]) /\ proc[p] \in ProcRecord
    BY <1>2, AtWork, ZenonT(30)
  <1>4. proc[p].exc \in Errors
    BY <1>2, <1>3 DEF POk, ErrorOk, ProcRecord
  <1>5. PICK exc \in Errors :
           /\ proc' = [proc EXCEPT ![p].exc = exc, ![p].pc = "exc_dereg"]
           /\ exc = "indeterminate" => proc[p].exc = "indeterminate"
    BY <1>4, Zenon DEF GiveUp, Errors
  <1>6. /\ Moves(p) /\ proc'[p].pc = "exc_dereg" /\ proc'[p].inv = i /\ proc'[p].exc \in Errors
        /\ proc'[p].exc = "indeterminate" => proc[p].exc = "indeterminate"
    <2>1. proc \in [Procs -> ProcRecord] /\ "exc_dereg" \in Working
      BY DEF IInv, Types, Working, Throwing
    <2> QED BY <2>1, <1>5, Zenon DEF Moves, ProcRecord
  <1>7. POk(p, proc[p])'
    <2>1. WorkOk(proc[p])'
      BY <1>1, <1>3, <1>6, IdIsSome, Zenon DEF WorkOk
    <2>2. ErrorOk(p, proc[p])'
      BY <1>2, <1>3, <1>6, SMTT(20) DEF POk, ErrorOk, Errors
    <2>3. CleanerOk(p, proc[p])'
      BY <1>1, <1>3, <1>6, ZenonT(30) DEF POk, CleanerOk, OnInvocation, Cleaning, Scanning
    <2>4. ~(p \in Ids /\ p > lastId')
      BY <1>1, <1>3 DEF POk, AttemptOk, OnInvocation
    <2> QED BY <1>6, <2>1, <2>2, <2>3, <2>4, ToError DEF Throwing
  <1> QED BY <1>1, <1>3, <1>6, <1>7, QuietStep DEF AttemptPcs, Trying, Holding, Throwing

\* DeregisterFailed: the thread of check_backup_timeouts() does not get past it, for the
\* entry it wants to erase is the one it has locked.
LEMMA DeregisterFailedStep ==
    ASSUME IInv, NEW p \in Procs, DeregisterFailed(p)
    PROVE  IInv'
  <1> DEFINE i == proc[p].inv
  <1>1. /\ proc[p].pc = "exc_dereg" /\ Deregister(inv[i].msgId) /\ Goto(p, "exc_promise")
        /\ UNCHANGED <<running, timer, alive, visiting, lastId, inv, att, scan, toFail, inbox>>
    BY Zenon DEF DeregisterFailed, At
  <1>2. proc[p].pc \in Working \cap Throwing \cap Holding
    BY <1>1, Zenon DEF Working, Throwing, Holding
  <1>3. i \in Invs /\ inv[i].msgId \in Ids /\ POk(p, proc[p]) /\ VOk(i)
    BY <1>2, AtWork
  <1>4. p # Cleaner
    <2>1. SUFFICES ASSUME p = Cleaner PROVE FALSE
      BY Zenon
    <2>2. visiting \in registry /\ att[visiting].owner = i
      BY <1>1, <1>3, <2>1, Zenon DEF POk, CleanerOk
    <2>3. visiting = inv[i].msgId
      BY <2>2, <1>3, Zenon DEF VOk, Registered
    <2> QED BY <2>3, <1>1 DEF Deregister, Unlocked
  <1>5. /\ Moves(p) /\ proc'[p].pc = "exc_promise" /\ proc'[p].inv = i
        /\ proc'[p].exc = proc[p].exc
    <2>1. "exc_promise" \in Working
      BY Zenon DEF Working, Throwing
    <2> QED BY <1>1, <2>1, Going
  <1>6. POk(p, proc[p])'
    <2>1. WorkOk(proc[p])'
      BY <1>1, <1>3, <1>5, IdIsSome, Zenon DEF WorkOk
    <2>2. \A id \in registry' : att'[id].owner # i
      BY <1>1, <1>3, Erased, Zenon
    <2>3. ErrorOk(p, proc[p])'
      BY <1>2, <1>3, <1>5, <2>2 DEF POk, ErrorOk
    <2>4. ~(p \in Ids /\ p > lastId')
      BY <1>1, <1>3, Zenon DEF POk, AttemptOk
    <2> QED BY <1>4, <1>5, <2>1, <2>3, <2>4, ToError DEF Throwing
  <1>7. proc'[p].pc \notin AttemptPcs \cup {"set_value"}
    BY <1>5, ZenonT(30) DEF AttemptPcs, Trying
  <1> QED BY <1>1, <1>2, <1>3, <1>4, <1>5, <1>6, <1>7, ErasingStep, Zenon

\* SetException: the entry is gone before the exception is set.
LEMMA SetExceptionStep ==
    ASSUME IInv, NEW p \in Procs, NEW i, i = proc[p].inv, SetException(p)
    PROVE  IInv'
  <1>1. proc[p].pc = "exc_promise" /\ OnInvocation /\ Return(p)
    BY DEF SetException, At
  <1>2. proc[p].pc \in Working \cap Throwing \cap Holding
    BY <1>1, Zenon DEF Working, Throwing, Holding
  <1>3. i \in Invs /\ inv[i].msgId \in Ids /\ POk(p, proc[p]) /\ VOk(i) /\ inv[i] \in InvRecord
        /\ proc[p] \in ProcRecord
    BY <1>2, AtWork, Zenon
  <1>4. /\ proc[p].exc \in Errors /\ proc[p].exc # "indeterminate"
        /\ \A id \in registry : att[id].owner # i
    <2>1. p # Cleaner
      BY <1>1, <1>3 DEF POk, CleanerOk, Cleaning
    <2> QED BY <1>1, <1>2, <1>3, <2>1, Zenon DEF POk, ErrorOk, ProcRecord
  <1>5. /\ Moves(p) /\ proc'[p].pc \in {"fail_next", "bt_erase", "idle"}
        /\ proc'[p].pc = "bt_erase" => proc'[p].inv = i
    BY <1>1, Returning, Zenon DEF Return
  <1>6. PICK f \in Results :
           /\ inv' = [inv EXCEPT ![i].future = f]
           /\ f.kind = "value" => f.id = inv[i].msgId /\ att[inv[i].msgId].wire = "answered"
           /\ f.via # "indeterminate"
    <2> DEFINE v == [kind |-> "error", id |-> inv[i].msgId, via |-> proc[p].exc]
    <2>1. v \in Results /\ v.kind # "value" /\ v.via # "indeterminate"
      BY <1>3, <1>4, Zenon DEF Results, Errors
    <2>2. inv' = [inv EXCEPT ![i].future = IF inv[i].future = Unset THEN v ELSE inv[i].future]
      BY <1>3, Zenon DEF SetException, Settle
    <2>3. inv[i].future \in Results \cup {Unset}
      BY <1>3, SMTT(20) DEF InvRecord
    <2>4. /\ inv[i].future.kind = "value" =>
                inv[i].future.id = inv[i].msgId /\ att[inv[i].msgId].wire = "answered"
          /\ inv[i].future.via # "indeterminate"
      BY <1>3 DEF VOk, Answers
    <2>5. CASE inv[i].future = Unset
      BY <2>1, <2>2, <2>5, Zenon
    <2>6. CASE inv[i].future # Unset
      BY <2>2, <2>3, <2>4, <2>6, Zenon
    <2> QED BY <2>5, <2>6, Zenon
  <1>7. f # Unset
    BY DEF Results, Unset
  <1>8. PICK y \in InvRecord : y = [inv[i] EXCEPT !.future = f]
    BY <1>3, Zenon DEF InvRecord
  <1>9. /\ inv' \in [Invs -> InvRecord] /\ inv'[i] = y /\ \A j \in Invs \ {i} : inv'[j] = inv[j]
    BY <1>3, <1>6, <1>8, Updated, Zenon
  <1>10. /\ y.expected = inv[i].expected /\ y.msgId = inv[i].msgId
         /\ y.retryable = inv[i].retryable /\ y.pending = inv[i].pending
         /\ y.future = f /\ y.sendPtr = inv[i].sendPtr
    BY <1>3, <1>8, Zenon DEF InvRecord
  <1>11. Touches(p, i)
    BY <1>1, <1>2, <1>3, <1>5, <1>9, <1>10, Zenon DEF Touches, AttemptPcs, Trying, Scanning
  <1>12. POk(p, proc[p])'
    BY <1>1, <1>2, <1>9, <1>10, ReturnOk, Zenon DEF OnInvocation
  <1>13. OneHolder(i)'
    <2>1. Holds(p, i) /\ ~Holds(p, i)'
      BY <1>2, <1>5 DEF Holds, Holding, Trying, Parking, Throwing
    <2> QED BY <1>3, <1>5, <1>9, <1>10, <2>1, HolderStep, Zenon
  <1>14. Answers(i)'
    BY <1>1, <1>3, <1>6, <1>9, <1>10, Zenon DEF VOk, Answers, OnInvocation
  <1>15. Completed(i)'
    BY <1>7, <1>9, <1>10, Zenon DEF Completed
  <1>16. Registered(i)'
    BY <1>1, <1>4 DEF Registered, OnInvocation
  <1> QED BY <1>9, <1>10, <1>11, <1>12, <1>13, <1>14, <1>15, <1>16, TouchingStep
=============================================================================
