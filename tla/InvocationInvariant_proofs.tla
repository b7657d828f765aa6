--------------------- MODULE InvocationInvariant_proofs ---------------------
(***************************************************************************)
(* The inductive invariant of Invocation, the lemmas that its steps share, *)
(* and the steps of a notification (get_permission_to_notify(),            *)
(* notify_response(), notify_backup(), complete()), which keep it: one     *)
(* lemma per action.  The steps of a notification of an error are in       *)
(* InvocationAttempt_proofs, the others in Invocation_proofs.              *)
(*                                                                         *)
(* The right to notify an invocation is a token: send_connection_ holds it *)
(* while a message is under way, the thread that swapped the pointer to    *)
(* null holds it until it stores a pending response, settles the promise   *)
(* or starts the next attempt.  The invariant says where the token is, and *)
(* for each thread what it knows at its program counter.                   *)
(***************************************************************************)
EXTENDS Invocation, TLAPS

-----------------------------------------------------------------------------
\* Types

Trying == {"select", "register", "set_conn"}
AttemptPcs == Trying \cup {"recheck", "write"}
Permission == {"perm_load", "perm_id", "perm_cas"}
Parking == {"resp_check", "resp_expected", "resp_pending"}
Acking == {"ack_count", "ack_pending", "ack_last"}
Throwing == {"exc_erase", "exc_decide", "exc_dereg", "exc_promise"}
Scanning == {"scan_begin", "scan", "fail_next"}
Cleaning == {"bt_acks", "bt_pending", "bt_erase"}

\* A thread that owns the right to notify the invocation, or to attempt it.
Holding == Trying \cup Parking \cup Throwing

\* A thread that is inside a call on an invocation.
Working == AttemptPcs \cup Permission \cup Parking \cup Acking \cup Throwing \cup Cleaning
               \cup {"resp_recheck", "set_value", "erase"}

Errors == {"io", "offline", "disconnected", "retryable", "fatal", "indeterminate",
           "timeout", "not_active"}

InvRecord ==
    [bound : Conns \cup {NoConn}, retryable : BOOLEAN, msgId : 0 .. MaxId,
     sendPtr : -1 .. MaxId, acks : Nat, expected : -1 .. MaxBackups, pending : 0 .. MaxId,
     ripe : BOOLEAN, future : Results \cup {Unset}]

AttRecord ==
    [owner : Invs \cup {None}, target : Conns \cup {NoConn},
     wire : {"none", "written", "applied", "answered", "refused"},
     backups : 0 .. MaxBackups, ackLeft : 0 .. MaxBackups]

ProcRecord ==
    [pc : Working \cup Scanning \cup {"idle"}, inv : Invs \cup {None}, id : 0 .. MaxId,
     ptr : -1 .. MaxId, exc : Errors \cup {"none"}, n : 0 .. MaxBackups]

Messages == [kind : {"ack", "value", "retryable", "fatal"}, id : Ids, n : 0 .. MaxBackups]

Types ==
    /\ running \in BOOLEAN /\ timer \in BOOLEAN
    /\ alive \in [Conns -> BOOLEAN]
    /\ registry \subseteq Ids
    /\ visiting \in Ids \cup {None}
    /\ lastId \in 0 .. MaxId
    /\ inv \in [Invs -> InvRecord]
    /\ att \in [Ids -> AttRecord]
    /\ proc \in [Procs -> ProcRecord]
    /\ scan \in [Conns -> SUBSET Ids]
    /\ toFail \in [Conns -> SUBSET Ids]
    /\ inbox \subseteq Messages

-----------------------------------------------------------------------------
\* The inductive invariant

\* The member has not run attempt id and will not run it.
Unapplied(id) ==
    \/ att[id].wire = "refused"
    \/ att[id].wire = "none" /\ proc[id].pc \notin AttemptPcs

\* What thread p knows when its program counter and locals are x.

WorkOk(x) == x.pc \in Working => x.inv \in Invs /\ inv[x.inv].msgId # None

\* A thread that makes an attempt: its message is not written yet; until the
\* connection is set the attempt is the invocation's last one.
AttemptOk(p, x) ==
    /\ p \in Ids /\ p > lastId => x.pc = "idle"
    /\ x.pc \in AttemptPcs =>
          p \in Ids /\ p =< lastId /\ att[p].owner = x.inv /\ att[p].wire = "none"
    /\ x.pc \in Trying => inv[x.inv].msgId = p
    /\ x.pc \in {"recheck", "write"} => inv[x.inv].sendPtr # -1

\* A thread that asks for the permission to notify: if the pointer it loaded is still
\* the current one, the id it compared is the current one too.
PermissionOk(p, x) ==
    /\ x.pc \in Permission =>
          /\ p # Cleaner /\ x.id \in Ids /\ x.id =< inv[x.inv].msgId
          /\ inv[x.inv].sendPtr # -1
          /\ x.exc \in {"none", "retryable", "fatal", "disconnected"}
          /\ x.exc = "none" => p \in Readers /\ att[x.id].wire = "answered"
          /\ x.exc = "retryable" => att[x.id].wire = "refused"
    /\ x.pc \in {"perm_id", "perm_cas"} => x.ptr \in Ids /\ x.ptr =< inv[x.inv].msgId
    /\ x.pc = "perm_cas" => x.ptr =< x.id

\* A thread that handles a response or an acknowledgement.
ResponseOk(p, x) ==
    /\ x.pc \in Parking \cup Acking \cup {"resp_recheck", "erase"} => p \in Readers
    /\ x.pc \in Parking \cup {"set_value"} =>
          x.id = inv[x.inv].msgId /\ att[inv[x.inv].msgId].wire = "answered"
    /\ x.pc \in {"resp_pending", "resp_recheck"} => x.n = inv[x.inv].expected
    /\ x.pc = "resp_recheck" => inv[x.inv].pending # None /\ x.id = inv[x.inv].pending
    /\ x.pc = "ack_last" => inv[x.inv].pending # None
    /\ x.pc = "set_value" => p \in Readers \cup {Cleaner}

\* A thread that handles an exception: an attempt is repeated without knowing that the
\* operation may run twice only if it did not run; its entry is erased before.
ErrorOk(p, x) ==
    /\ x.pc \in Throwing => x.exc # "none" /\ (x.exc = "indeterminate" => p = Cleaner)
    /\ x.pc \in {"exc_erase", "exc_decide"} /\ x.exc \in {"io", "retryable"} =>
          Unapplied(inv[x.inv].msgId)
    /\ x.pc = "exc_promise" \/ (x.pc = "exc_decide" /\ p # Cleaner) =>
          \A id \in registry : att[id].owner # x.inv

\* The thread of check_backup_timeouts() holds the entry it visits; the visitor
\* never gets as far as the promise with an exception.
CleanerOk(p, x) ==
    /\ x.pc \in Cleaning => p = Cleaner
    /\ x.pc \in Scanning => p \in Conns
    /\ p = Cleaner =>
          /\ x.pc \in Cleaning \cup {"idle", "set_value", "exc_decide", "exc_dereg"}
          /\ x.pc \in {"bt_acks", "bt_pending", "exc_decide"} => x.exc = "indeterminate"
          /\ x.pc # "idle" => visiting \in registry /\ att[visiting].owner = x.inv

POk(p, x) ==
    /\ WorkOk(x) /\ AttemptOk(p, x) /\ PermissionOk(p, x)
    /\ ResponseOk(p, x) /\ ErrorOk(p, x) /\ CleanerOk(p, x)

Holds(p, i) == proc[p].inv = i /\ proc[p].pc \in Holding

\* Nobody but the backup timeout may act on i any more.
Over(i) ==
    \/ inv[i].pending # None \/ inv[i].future # Unset
    \/ \E p \in Procs : proc[p].inv = i /\ proc[p].pc = "set_value"

\* The right to notify is with send_connection_ or with one thread, or it is gone.
OneHolder(i) ==
    /\ \A p, q \in Procs : Holds(p, i) /\ Holds(q, i) => p = q
    /\ inv[i].sendPtr \in Ids => inv[i].sendPtr = inv[i].msgId /\ \A p \in Procs : ~Holds(p, i)
    /\ Over(i) => inv[i].sendPtr \notin Ids /\ \A p \in Procs : Holds(p, i) => p = Cleaner

\* The attempts of i, of which msgId is the last.
Attempts(i) ==
    /\ inv[i].msgId =< lastId
    /\ inv[i].msgId = None => inv[i].sendPtr = -1 /\ inv[i].future = Unset
    /\ inv[i].msgId # None => att[inv[i].msgId].owner = i
    /\ \A id \in Ids : att[id].owner = i =>
          /\ id =< inv[i].msgId
          /\ inv[i].sendPtr = -1 => att[id].wire = "none"
          /\ ~inv[i].retryable /\ id # inv[i].msgId => Unapplied(id)

Answers(i) ==
    /\ inv[i].pending # None =>
          inv[i].pending = inv[i].msgId /\ att[inv[i].msgId].wire = "answered"
    /\ inv[i].future.kind = "value" =>
          inv[i].future.id = inv[i].msgId /\ att[inv[i].msgId].wire = "answered"
    /\ inv[i].future.via # "indeterminate"

Completed(i) ==
    inv[i].pending # None /\ inv[i].expected = inv[i].acks /\ inv[i].future = Unset =>
        \E r \in Readers : proc[r].inv = i /\ proc[r].pc \in
            {"resp_recheck", "ack_pending", "ack_last", "set_value"}

Registered(i) ==
    \A id \in registry : att[id].owner = i =>
        /\ id = inv[i].msgId
        /\ inv[i].future # Unset =>
              \E p \in Procs : proc[p].inv = i /\ proc[p].pc \in {"erase", "bt_erase"}

VOk(i) == OneHolder(i) /\ Attempts(i) /\ Answers(i) /\ Completed(i) /\ Registered(i)

Issued ==
    /\ registry \subseteq 1 .. lastId
    /\ \A id \in Ids : IF id =< lastId THEN att[id].owner \in Invs
                                       ELSE att[id].owner = None /\ att[id].wire = "none"
    /\ \A id \in Ids : att[id].wire = "none" => att[id].ackLeft = 0
    /\ \A c \in Conns : \A id \in toFail[c] : id =< lastId /\ inv[att[id].owner].sendPtr # -1
    /\ \A m \in inbox :
          /\ att[m.id].wire # "none"
          /\ m.kind = "value" => att[m.id].wire = "answered"
          /\ m.kind = "retryable" => att[m.id].wire = "refused"

IInv ==
    /\ Types /\ Issued
    /\ \A p \in Procs : POk(p, proc[p])
    /\ \A i \in Invs : VOk(i)

-----------------------------------------------------------------------------
\* One thread takes a step

\* How far a message gets: only the attempt's own thread writes it, and what was
\* answered or refused stays so.
WireMoves(p) ==
    \A id \in Ids :
        /\ att'[id].owner = att[id].owner
        /\ att'[id].wire = "none" => att'[id].ackLeft = att[id].ackLeft
        /\ \/ att'[id].wire = att[id].wire
           \/ att[id].wire = "none" /\ id = p /\ proc[id].pc = "write"
           \/ att[id].wire \in {"written", "applied"} /\ att'[id].wire # "none"

\* What all steps but Invoke and Retry have in common: thread p (if it is one) moves
\* and changes invocation i (if it is one); no other thread moves, no other
\* invocation changes.
Local(p, i) ==
    /\ \A q \in Procs \ {p} : proc'[q] = proc[q]
    /\ \A j \in Invs \ {i} : inv'[j] = inv[j]
    /\ lastId' = lastId
    /\ WireMoves(p)
    /\ \/ registry' \subseteq registry
       \/ registry' = registry \cup {p} /\ p \in Ids /\ proc[p].pc = "register" /\ proc[p].inv = i
    /\ p = Cleaner \/ (visiting' = visiting /\ (visiting \in registry => visiting \in registry'))
    /\ i \in Invs =>
          /\ inv'[i].msgId = inv[i].msgId /\ inv'[i].retryable = inv[i].retryable
          /\ inv[i].sendPtr # -1 => inv'[i].sendPtr # -1
          /\ inv[i].msgId = None => inv'[i].sendPtr = inv[i].sendPtr /\ inv'[i].future = inv[i].future
          /\ inv[i].pending # None => inv'[i].pending = inv[i].pending
          /\ \/ inv'[i].expected = inv[i].expected
             \/ \A q \in Procs \ {p} : proc[q].inv = i =>
                    proc[q].pc \notin {"resp_pending", "resp_recheck"}
    /\ p \in Procs /\ proc'[p] # proc[p] =>
          /\ proc[p].inv = i \/ proc[p].pc \notin
                {"resp_recheck", "ack_pending", "ack_last", "set_value", "erase", "bt_erase"}
          /\ proc'[p].inv = i \/ proc'[p].pc \notin Holding \cup {"set_value"}
          /\ proc'[p].pc \in AttemptPcs => proc[p].pc \in AttemptPcs
    /\ \A c \in Conns : \A id \in toFail'[c] :
          id \in toFail[c] \/ (id =< lastId /\ inv[att[id].owner].sendPtr # -1)
    /\ \A m \in inbox' : m \in inbox \/
          (/\ att'[m.id].wire # "none"
           /\ m.kind = "value" => att'[m.id].wire = "answered"
           /\ m.kind = "retryable" => att'[m.id].wire = "refused")

\* A message id is not the null pointer.
LEMMA IdIsSome == \A d \in Ids : d # None
  BY DEF Ids, None

\* An attempt that was not applied is not applied later.
LEMMA UnappliedStays ==
    ASSUME IInv, NEW p, NEW i, Local(p, i), NEW id \in Ids, Unapplied(id)
    PROVE  Unapplied(id)'
  <1>1. att'[id].wire = "refused" \/ (att'[id].wire = "none" /\ proc[id].pc \notin AttemptPcs)
    BY DEF Local, WireMoves, Unapplied, AttemptPcs
  <1>2. id \in Procs
    BY DEF Procs
  <1>3. proc'[id].pc \in AttemptPcs => proc[id].pc \in AttemptPcs
    BY <1>2 DEF Local
  <1> QED BY <1>1, <1>3, Zenon DEF Unapplied

\* The threads that do not move know what they knew.
LEMMA OthersKnow ==
    ASSUME IInv, NEW p, NEW i, Local(p, i), NEW q \in Procs \ {p}
    PROVE  POk(q, proc[q])'
  <1> DEFINE j == proc[q].inv
  <1>1. proc'[q] = proc[q] /\ POk(q, proc[q]) /\ proc[q] \in ProcRecord
    BY Zenon DEF Local, IInv, Types
  <1>2. ASSUME j \in Invs
        PROVE  /\ inv'[j].msgId = inv[j].msgId
               /\ inv[j].sendPtr # -1 => inv'[j].sendPtr # -1
               /\ inv[j].pending # None => inv'[j].pending = inv[j].pending
               /\ proc[q].pc \in {"resp_pending", "resp_recheck"} =>
                      inv'[j].expected = inv[j].expected
    BY <1>2, Zenon DEF Local
  <1>3. \A id \in Ids :
           /\ att'[id].owner = att[id].owner
           /\ att[id].wire = "answered" => att'[id].wire = "answered"
           /\ att[id].wire = "refused" => att'[id].wire = "refused"
           /\ att[id].wire = "none" /\ id # p => att'[id].wire = "none"
    BY DEF Local, WireMoves
  <1>4. lastId' = lastId
    BY DEF Local
  <1>5. ASSUME j \in Invs, inv[j].msgId # None PROVE inv[j].msgId \in Ids
    BY <1>5, BoundsAssumption DEF IInv, Types, InvRecord, Ids, None
  <1>6. WorkOk(proc[q])'
    BY <1>1, <1>2, Zenon DEF POk, WorkOk
  <1>7. AttemptOk(q, proc[q])'
    BY <1>1, <1>2, <1>3, <1>4 DEF POk, WorkOk, AttemptOk, Working, AttemptPcs
  <1>8. PermissionOk(q, proc[q])'
    BY <1>1, <1>2, <1>3, Zenon DEF POk, WorkOk, PermissionOk, Working, Permission
  <1>9. ResponseOk(q, proc[q])'
    BY <1>1, <1>2, <1>3, <1>5 DEF POk, WorkOk, ResponseOk, Working, Parking, Acking
  <1>10. ASSUME proc[q].pc \in {"exc_erase", "exc_decide"}, proc[q].exc \in {"io", "retryable"}
         PROVE  Unapplied(inv[j].msgId)'
    <2>1. j \in Invs /\ inv[j].msgId # None /\ Unapplied(inv[j].msgId)
      BY <1>1, <1>10, Zenon DEF POk, WorkOk, ErrorOk, Working, Throwing
    <2>2. inv[j].msgId \in Ids /\ inv'[j].msgId = inv[j].msgId
      BY <2>1, <1>2, <1>5
    <2> QED BY <2>1, <2>2, <1>1, UnappliedStays
  <1>11. ASSUME proc[q].pc = "exc_promise" \/ (proc[q].pc = "exc_decide" /\ q # Cleaner)
         PROVE  \A id \in registry' : att'[id].owner # j
    <2>1. j \in Invs /\ \A id \in registry : att[id].owner # j
      BY <1>1, <1>11, Zenon DEF POk, WorkOk, ErrorOk, Working, Throwing
    <2>2. \/ registry' \subseteq registry
          \/ registry' = registry \cup {p} /\ p \in Ids /\ proc[p].pc = "register" /\ proc[p].inv = i
      BY DEF Local
    <2>3. registry \subseteq Ids
      BY DEF IInv, Types
    <2>4. CASE registry' \subseteq registry
      BY <2>1, <2>3, <2>4, <1>3
    <2>5. CASE registry' = registry \cup {p} /\ p \in Ids /\ proc[p].pc = "register" /\ proc[p].inv = i
      <3>1. p \in Procs /\ POk(p, proc[p])
        BY <2>5 DEF Procs, IInv
      <3>2. att[p].owner = i
        BY <3>1, <2>5 DEF POk, AttemptOk, AttemptPcs, Trying
      <3>3. i # j
        <4>1. SUFFICES ASSUME i = j PROVE FALSE
          OBVIOUS
        <4>2. Holds(p, j) /\ Holds(q, j)
          BY <2>5, <1>11, <4>1 DEF Holds, Holding, Trying, Throwing
        <4>3. p = q
          BY <4>2, <3>1, <2>1, Zenon DEF IInv, VOk, OneHolder
        <4> QED BY <4>3
      <3> QED BY <3>2, <3>3, <2>1, <2>3, <2>5, <1>3
    <2> QED BY <2>2, <2>4, <2>5, Zenon
  <1>12. ErrorOk(q, proc[q])'
    BY <1>1, <1>10, <1>11 DEF POk, ErrorOk
  <1>13. ASSUME q = Cleaner, proc[q].pc # "idle"
         PROVE  visiting' \in registry' /\ att'[visiting'].owner = j
    <2>1. visiting' = visiting /\ visiting \in registry /\ visiting \in registry'
          /\ att[visiting].owner = j
      BY <1>13, <1>1, Zenon DEF POk, CleanerOk, Local
    <2>2. visiting \in Ids
      BY <2>1 DEF IInv, Types
    <2> QED BY <2>1, <2>2, <1>3, Zenon
  <1>14. CleanerOk(q, proc[q])'
    BY <1>1, <1>13, Zenon DEF POk, CleanerOk
  <1> QED BY <1>6, <1>7, <1>8, <1>9, <1>12, <1>14, Zenon DEF POk

\* Attempts are not forgotten, and the old ones stay unapplied.
LEMMA AttemptsKept ==
    ASSUME IInv, NEW p, NEW i, Local(p, i), NEW j \in Invs
    PROVE  Attempts(j)'
  <1>1. Attempts(j) /\ inv[j] \in InvRecord
    BY Zenon DEF IInv, VOk, Types
  <1>2. /\ inv'[j].msgId = inv[j].msgId /\ inv'[j].retryable = inv[j].retryable
        /\ inv'[j].sendPtr = -1 => inv[j].sendPtr = -1
        /\ inv[j].msgId = None => inv'[j].sendPtr = inv[j].sendPtr /\ inv'[j].future = inv[j].future
        /\ lastId' = lastId
    BY Zenon DEF Local
  <1>3. \A id \in Ids : att'[id].owner = att[id].owner
    BY DEF Local, WireMoves
  <1>4. inv[j].msgId # None => inv[j].msgId \in Ids
    BY <1>1, BoundsAssumption DEF InvRecord, Ids, None
  <1>5. ASSUME NEW id \in Ids, att[id].owner = j, inv[j].sendPtr = -1
        PROVE  att'[id].wire = "none"
    <2>1. att[id].wire = "none"
      BY <1>1, <1>5, Zenon DEF Attempts
    <2>2. ~(id = p /\ proc[id].pc = "write")
      <3>1. id \in Procs
        BY DEF Procs
      <3>2. POk(id, proc[id])
        BY <3>1, Zenon DEF IInv
      <3> QED BY <3>2, <1>5 DEF POk, AttemptOk, AttemptPcs
    <2> QED BY <2>1, <2>2, Zenon DEF Local, WireMoves
  <1>6. ASSUME NEW id \in Ids, att[id].owner = j, ~inv[j].retryable, id # inv[j].msgId
        PROVE  Unapplied(id)'
    BY <1>1, <1>6, UnappliedStays DEF Attempts
  <1> QED BY <1>1, <1>2, <1>3, <1>4, <1>5, <1>6, Zenon DEF Attempts

\* What was answered was sent.
LEMMA Answered ==
    ASSUME IInv, NEW j \in Invs, inv[j].pending # None \/ inv[j].future.kind = "value"
    PROVE  inv[j].msgId \in Ids
  <1>1. Answers(j) /\ inv[j] \in InvRecord
    BY Zenon DEF IInv, Types, VOk
  <1>2. inv[j].pending # None => inv[j].msgId \in Ids
    BY <1>1, BoundsAssumption DEF Answers, InvRecord, Ids, None
  <1>3. inv[j].future.kind = "value" => inv[j].msgId \in Ids
    BY <1>1 DEF Answers, InvRecord, Results, Unset
  <1> QED BY <1>2, <1>3, Zenon

\* The invocations that do not change are as they were.
LEMMA OtherInvocations ==
    ASSUME IInv, NEW p, NEW i, Local(p, i), NEW j \in Invs \ {i}
    PROVE  VOk(j)'
  <1>1. VOk(j) /\ inv[j] \in InvRecord /\ inv'[j] = inv[j]
    BY Zenon DEF IInv, Types, Local
  <1>2. \A q \in Procs : (proc'[q].inv = j /\ proc'[q].pc \in Holding \cup {"set_value"}) =>
            proc'[q] = proc[q]
    BY Zenon DEF Local
  <1>3. \A q \in Procs : (proc[q].inv = j /\ proc[q].pc \in
            {"resp_recheck", "ack_pending", "ack_last", "set_value", "erase", "bt_erase"}) =>
                proc'[q] = proc[q]
    BY DEF Local
  <1>4. \A q \in Procs : Holds(q, j)' => Holds(q, j)
    BY <1>2 DEF Holds
  <1>5. Over(j)' => Over(j)
    BY <1>1, <1>2, Zenon DEF Over
  <1>6. OneHolder(j)'
    BY <1>1, <1>4, <1>5, Zenon DEF VOk, OneHolder
  <1>7. \A id \in Ids : /\ att'[id].owner = att[id].owner
                        /\ att[id].wire = "answered" => att'[id].wire = "answered"
    BY Zenon DEF Local, WireMoves
  <1>8. Answers(j)'
    <2>1. inv[j].pending # None \/ inv[j].future.kind = "value" => inv[j].msgId \in Ids
      BY Answered, Zenon
    <2> QED BY <2>1, <1>1, <1>7 DEF VOk, Answers
  <1>9. Completed(j)'
    <2>1. Readers \subseteq Procs
      BY DEF Procs
    <2> QED BY <2>1, <1>1, <1>3 DEF VOk, Completed
  <1>10. \A id \in registry' : att'[id].owner = j => id \in registry
    <2>1. \/ registry' \subseteq registry
          \/ registry' = registry \cup {p} /\ p \in Ids /\ proc[p].pc = "register" /\ proc[p].inv = i
      BY Zenon DEF Local
    <2>2. ASSUME p \in Ids, proc[p].pc = "register", proc[p].inv = i PROVE att'[p].owner # j
      <3>1. POk(p, proc[p])
        BY <2>2, Zenon DEF IInv, Procs
      <3> QED BY <3>1, <2>2, <1>7, Zenon DEF POk, AttemptOk, AttemptPcs, Trying
    <2> QED BY <2>1, <2>2, Zenon
  <1>11. Registered(j)'
    <2>1. registry \subseteq Ids
      BY DEF IInv, Types
    <2> QED BY <2>1, <1>1, <1>3, <1>7, <1>10 DEF VOk, Registered
  <1> QED BY <1>6, <1>8, <1>9, <1>11, AttemptsKept, Zenon DEF VOk

\* Ids, messages and the lists of closing connections refer to attempts that were made.
LEMMA IssuedKept ==
    ASSUME IInv, Types', NEW p, NEW i, Local(p, i)
    PROVE  Issued'
  <1>1. Issued /\ lastId' = lastId
    BY Zenon DEF IInv, Local
  <1>2. \A id \in Ids : /\ att'[id].owner = att[id].owner
                        /\ att[id].wire # "none" => att'[id].wire # "none"
                        /\ att[id].wire = "answered" => att'[id].wire = "answered"
                        /\ att[id].wire = "refused" => att'[id].wire = "refused"
    BY Zenon DEF Local, WireMoves
  <1>3. ASSUME p \in Ids, proc[p].pc \in AttemptPcs PROVE p \in 1 .. lastId
    <2>1. POk(p, proc[p])
      BY <1>3 DEF IInv, Procs
    <2> QED BY <2>1, <1>3 DEF POk, AttemptOk, Ids
  <1>4. (registry \subseteq 1 .. lastId)'
    <2>1. registry' \subseteq registry \/ registry' \subseteq registry \cup (1 .. lastId)
      BY <1>3 DEF Local, AttemptPcs, Trying
    <2>2. registry \subseteq 1 .. lastId
      BY <1>1 DEF Issued
    <2> QED BY <2>1, <2>2, <1>1, Zenon
  <1>5. ASSUME NEW id \in Ids
        PROVE  (IF id =< lastId THEN att[id].owner \in Invs
                                ELSE att[id].owner = None /\ att[id].wire = "none")'
    <2>1. id =< lastId \/ att'[id].wire = att[id].wire
      BY <1>1, <1>3 DEF Local, WireMoves, AttemptPcs, Issued
    <2> QED BY <2>1, <1>1, <1>2, Zenon DEF Issued
  <1>6. ASSUME NEW c \in Conns, NEW id \in toFail'[c]
        PROVE  (id =< lastId /\ inv[att[id].owner].sendPtr # -1)'
    <2>1. id \in Ids
      BY <1>6, Zenon DEF Types
    <2>2. id =< lastId /\ inv[att[id].owner].sendPtr # -1
      BY <1>1, <1>6, Zenon DEF Issued, Local
    <2>3. att[id].owner \in Invs
      BY <2>1, <2>2, <1>1, Zenon DEF Issued
    <2>4. inv'[att[id].owner].sendPtr # -1
      BY <2>2, <2>3, Zenon DEF Local
    <2> QED BY <2>1, <2>2, <2>4, <1>1, <1>2
  <1>7. ASSUME NEW m \in inbox'
        PROVE  (/\ att[m.id].wire # "none"
                /\ m.kind = "value" => att[m.id].wire = "answered"
                /\ m.kind = "retryable" => att[m.id].wire = "refused")'
    <2>1. m.id \in Ids
      BY <1>7, Zenon DEF Types, Messages
    <2>2. CASE m \in inbox
      <3>1. /\ att[m.id].wire # "none"
            /\ m.kind = "value" => att[m.id].wire = "answered"
            /\ m.kind = "retryable" => att[m.id].wire = "refused"
        BY <1>1, <2>2, Zenon DEF Issued
      <3> QED BY <1>2, <2>1, <3>1, Zenon
    <2>3. CASE m \notin inbox
      BY <1>7, <2>3, Zenon DEF Local
    <2> QED BY <2>2, <2>3, Zenon
  <1>8. ASSUME NEW id \in Ids PROVE (att[id].wire = "none" => att[id].ackLeft = 0)'
    <2>1. att'[id].wire = "none" => att'[id].ackLeft = att[id].ackLeft
      BY Zenon DEF Local, WireMoves
    <2>2. att[id].wire = "none" => att[id].ackLeft = 0
      BY <1>1, Zenon DEF Issued
    <2> QED BY <1>2, <2>1, <2>2, Zenon
  <1> QED BY <1>4, <1>5, <1>6, <1>7, <1>8, Zenon DEF Issued

\* A local step keeps the invariant if it does for the thread and the invocation.
LEMMA LocalStep ==
    ASSUME IInv, Types', NEW p, NEW i, Local(p, i),
           p \in Procs => POk(p, proc[p])',
           i \in Invs => (OneHolder(i) /\ Answers(i) /\ Completed(i) /\ Registered(i))'
    PROVE  IInv'
  <1>1. Issued'
    BY IssuedKept
  <1>2. ASSUME NEW q \in Procs PROVE POk(q, proc[q])'
    BY OthersKnow
  <1>3. ASSUME NEW j \in Invs PROVE VOk(j)'
    <2>1. CASE j = i
      <3>1. Attempts(i)'
        BY <2>1, AttemptsKept
      <3> QED BY <2>1, <3>1 DEF VOk
    <2>2. CASE j # i
      BY <2>2, OtherInvocations
    <2> QED BY <2>1, <2>2
  <1> QED BY <1>1, <1>2, <1>3, Zenon DEF IInv

-----------------------------------------------------------------------------
\* What the steps of a thread do to proc

Moves(p) ==
    /\ proc' \in [Procs -> ProcRecord]
    /\ \A q \in Procs \ {p} : proc'[q] = proc[q]

\* Goto: the thread moves, its locals stay.
LEMMA Going ==
    ASSUME IInv, NEW p \in Procs, NEW pc \in Working \cup Scanning \cup {"idle"}, Goto(p, pc)
    PROVE  /\ Moves(p)
           /\ proc'[p].pc = pc /\ proc'[p].inv = proc[p].inv /\ proc'[p].id = proc[p].id
           /\ proc'[p].ptr = proc[p].ptr /\ proc'[p].exc = proc[p].exc /\ proc'[p].n = proc[p].n
  <1>1. proc \in [Procs -> ProcRecord]
    BY DEF IInv, Types
  <1> QED BY <1>1 DEF Goto, Moves, ProcRecord

\* A thread with nothing to do.
LEMMA IdleTyped == Idle \in ProcRecord
  BY BoundsAssumption DEF Idle, ProcRecord, None

\* Return: a thread goes back to the loop that made the call.
LEMMA Returning ==
    ASSUME IInv, NEW p \in Procs, proc' = [proc EXCEPT ![p] = AfterNotify(p)]
    PROVE  /\ Moves(p)
           /\ proc'[p].pc \in {"fail_next", "bt_erase", "idle"}
           /\ proc'[p].pc = "fail_next" => p \in Conns
           /\ proc'[p].pc = "bt_erase" <=> p = Cleaner
           /\ p = Cleaner => proc'[p].inv = proc[p].inv
  <1>1. proc \in [Procs -> ProcRecord]
    BY DEF IInv, Types
  <1>2. AfterNotify(p) \in ProcRecord
    BY <1>1, IdleTyped DEF AfterNotify, ProcRecord, Scanning, Working, Cleaning
  <1>3. Moves(p) /\ proc'[p] = AfterNotify(p)
    BY <1>1, <1>2 DEF Moves
  <1> QED BY <1>1, <1>3, ProcsAssumption DEF AfterNotify, ProcRecord, Idle

\* Call: a thread enters notify(), notify_exception() or the visitor of erase_if().
LEMMA Calling ==
    ASSUME IInv, NEW p \in Procs, NEW pc \in Working, NEW i \in Invs, NEW id \in 0 .. MaxId,
           NEW exc \in Errors \cup {"none"}, NEW n \in 0 .. MaxBackups, Call(p, pc, i, id, exc, n)
    PROVE  /\ Moves(p)
           /\ proc'[p].pc = pc /\ proc'[p].inv = i /\ proc'[p].id = id
           /\ proc'[p].exc = exc /\ proc'[p].n = n
  <1>1. proc \in [Procs -> ProcRecord] /\ None \in -1 .. MaxId
    BY BoundsAssumption DEF IInv, Types, None
  <1> QED BY <1>1, Zenon DEF Call, Moves, ProcRecord

-----------------------------------------------------------------------------
\* What has to be shown of a thread, by the place it goes to

\* get_permission_to_notify().
LEMMA ToPermission ==
    ASSUME NEW p, proc'[p].pc \in Permission, ~(p \in Ids /\ p > lastId'), p # Cleaner,
           WorkOk(proc[p])', PermissionOk(p, proc[p])'
    PROVE  POk(p, proc[p])'
  <1>1. AttemptOk(p, proc[p])'
    BY Zenon DEF AttemptOk, AttemptPcs, Trying, Permission
  <1>2. ResponseOk(p, proc[p])' /\ ErrorOk(p, proc[p])'
    BY Zenon DEF ResponseOk, ErrorOk, Permission, Parking, Acking, Throwing
  <1>3. CleanerOk(p, proc[p])'
    BY Zenon DEF CleanerOk, Permission, Cleaning, Scanning
  <1> QED BY <1>1, <1>2, <1>3, Zenon DEF POk

\* notify_response(), notify_backup() and complete().
LEMMA ToResponse ==
    ASSUME NEW p, proc'[p].pc \in Parking \cup Acking \cup {"resp_recheck", "erase", "set_value"},
           p \in Readers, WorkOk(proc[p])', ResponseOk(p, proc[p])'
    PROVE  POk(p, proc[p])'
  <1>1. p \notin Ids /\ p # Cleaner
    BY ProcsAssumption, Zenon
  <1>2. AttemptOk(p, proc[p])' /\ PermissionOk(p, proc[p])'
    BY <1>1, Zenon DEF AttemptOk, PermissionOk, AttemptPcs, Trying, Permission, Parking, Acking
  <1>3. ErrorOk(p, proc[p])' /\ CleanerOk(p, proc[p])'
    BY <1>1, Zenon DEF ErrorOk, CleanerOk, Parking, Acking, Throwing, Cleaning, Scanning
  <1> QED BY <1>2, <1>3, Zenon DEF POk

\* notify_exception_with_owned_permission() and set_exception().
LEMMA ToError ==
    ASSUME NEW p, proc'[p].pc \in Throwing, ~(p \in Ids /\ p > lastId'),
           WorkOk(proc[p])', ErrorOk(p, proc[p])', p = Cleaner => CleanerOk(p, proc[p])'
    PROVE  POk(p, proc[p])'
  <1>1. AttemptOk(p, proc[p])' /\ PermissionOk(p, proc[p])'
    BY Zenon DEF AttemptOk, PermissionOk, AttemptPcs, Trying, Permission, Throwing
  <1>2. ResponseOk(p, proc[p])'
    BY Zenon DEF ResponseOk, Parking, Acking, Throwing
  <1>3. CleanerOk(p, proc[p])'
    BY DEF CleanerOk, Throwing, Cleaning, Scanning
  <1> QED BY <1>1, <1>2, <1>3, Zenon DEF POk

\* detect_and_handle_backup_timeout().
LEMMA ToCleaning ==
    ASSUME proc'[Cleaner].pc \in Cleaning, WorkOk(proc[Cleaner])', CleanerOk(Cleaner, proc[Cleaner])'
    PROVE  POk(Cleaner, proc[Cleaner])'
  <1>1. Cleaner \notin Ids
    BY ProcsAssumption
  <1>2. AttemptOk(Cleaner, proc[Cleaner])' /\ PermissionOk(Cleaner, proc[Cleaner])'
    BY <1>1, Zenon DEF AttemptOk, PermissionOk, AttemptPcs, Trying, Permission, Cleaning
  <1>3. ResponseOk(Cleaner, proc[Cleaner])' /\ ErrorOk(Cleaner, proc[Cleaner])'
    BY DEF ResponseOk, ErrorOk, Parking, Acking, Throwing, Cleaning
  <1> QED BY <1>2, <1>3 DEF POk

\* invoke_on_selection() and send().
LEMMA ToAttempt ==
    ASSUME NEW p \in Ids, proc'[p].pc \in AttemptPcs, WorkOk(proc[p])', AttemptOk(p, proc[p])'
    PROVE  POk(p, proc[p])'
  <1>1. p # Cleaner
    BY ProcsAssumption, Zenon
  <1>2. PermissionOk(p, proc[p])' /\ ResponseOk(p, proc[p])'
    BY Zenon DEF PermissionOk, ResponseOk, AttemptPcs, Trying, Permission, Parking, Acking
  <1>3. ErrorOk(p, proc[p])' /\ CleanerOk(p, proc[p])'
    BY <1>1, Zenon DEF ErrorOk, CleanerOk, AttemptPcs, Trying, Throwing, Cleaning, Scanning
  <1> QED BY <1>2, <1>3 DEF POk

\* A thread that is in no call, or about to fail the next invocation, knows nothing.
LEMMA AwayOk ==
    ASSUME NEW p \in Procs, p # Cleaner, proc'[p].pc \in {"fail_next", "idle"},
           proc'[p].pc = "fail_next" => p \in Conns, p \in Ids => proc'[p].pc = "idle"
    PROVE  POk(p, proc[p])'
  <1>1. WorkOk(proc[p])' /\ CleanerOk(p, proc[p])'
    BY DEF WorkOk, CleanerOk, Scanning, Working, AttemptPcs, Trying, Permission, Parking,
           Acking, Throwing, Cleaning
  <1>2. AttemptOk(p, proc[p])' /\ PermissionOk(p, proc[p])'
    BY Zenon DEF AttemptOk, PermissionOk, AttemptPcs, Trying, Permission
  <1>3. ResponseOk(p, proc[p])' /\ ErrorOk(p, proc[p])'
    BY Zenon DEF ResponseOk, ErrorOk, Parking, Acking, Throwing
  <1> QED BY <1>1, <1>2, <1>3, Zenon DEF POk

\* A thread that returns knows nothing.
LEMMA ReturnOk ==
    ASSUME IInv, NEW p \in Procs, Return(p), proc[p].pc \in Working,
           UNCHANGED <<lastId, att, visiting, registry>>,
           proc[p].inv \in Invs => inv'[proc[p].inv].msgId = inv[proc[p].inv].msgId
    PROVE  POk(p, proc[p])'
  <1>1. /\ Moves(p)
        /\ proc'[p].pc \in {"fail_next", "bt_erase", "idle"}
        /\ proc'[p].pc = "fail_next" => p \in Conns
        /\ proc'[p].pc = "bt_erase" <=> p = Cleaner
        /\ p = Cleaner => proc'[p].inv = proc[p].inv
    BY Returning, Zenon DEF Return
  <1>2. p \in Ids => proc'[p].pc = "idle"
    BY <1>1, ProcsAssumption
  <1>3. POk(p, proc[p])
    BY Zenon DEF IInv
  <1>4. WorkOk(proc[p])'
    BY <1>1, <1>3, Zenon DEF POk, WorkOk, Working, AttemptPcs, Trying, Permission, Parking, Acking, Throwing, Cleaning
  <1>5. AttemptOk(p, proc[p])' /\ PermissionOk(p, proc[p])'
    BY <1>1, <1>2, Zenon DEF AttemptOk, PermissionOk, AttemptPcs, Trying, Permission
  <1>6. ResponseOk(p, proc[p])' /\ ErrorOk(p, proc[p])'
    BY <1>1 DEF ResponseOk, ErrorOk, Parking, Acking, Throwing
  <1>7. CleanerOk(p, proc[p])'
    BY <1>1, <1>3, Zenon DEF POk, CleanerOk, Cleaning, Scanning, Working, AttemptPcs, Trying, Permission, Parking, Acking, Throwing
  <1> QED BY <1>4, <1>5, <1>6, <1>7, Zenon DEF POk

\* Any thread but the backup timeout's may return whatever else happens.
LEMMA FreeReturn ==
    ASSUME IInv, NEW p \in Procs, p # Cleaner, proc' = [proc EXCEPT ![p] = AfterNotify(p)]
    PROVE  Moves(p) /\ POk(p, proc[p])' /\ proc'[p].pc \in Scanning \cup {"idle"}
  <1>1. /\ Moves(p) /\ proc'[p].pc \in {"fail_next", "idle"}
        /\ proc'[p].pc = "fail_next" => p \in Conns
    BY Returning, Zenon
  <1>2. p \in Ids => proc'[p].pc = "idle"
    BY <1>1, ProcsAssumption
  <1>3. POk(p, proc[p])'
    BY <1>1, <1>2, AwayOk, Zenon
  <1> QED BY <1>1, <1>3 DEF Scanning

-----------------------------------------------------------------------------
\* What a thread knows of its invocation

\* A thread that is inside a call works on an invocation that was made.
LEMMA AtWork ==
    ASSUME IInv, NEW p \in Procs, proc[p].pc \in Working
    PROVE  /\ proc[p].inv \in Invs /\ inv[proc[p].inv] \in InvRecord
           /\ inv[proc[p].inv].msgId \in Ids
           /\ POk(p, proc[p]) /\ VOk(proc[p].inv) /\ proc[p] \in ProcRecord
  <1>1. POk(p, proc[p]) /\ proc[p] \in ProcRecord
    BY Zenon DEF IInv, Types
  <1>2. proc[p].inv \in Invs /\ inv[proc[p].inv].msgId # None
    BY <1>1 DEF POk, WorkOk
  <1>3. inv[proc[p].inv] \in InvRecord /\ VOk(proc[p].inv)
    BY <1>2, Zenon DEF IInv, Types
  <1> QED BY <1>1, <1>2, <1>3, BoundsAssumption DEF InvRecord, Ids, None

\* Whoever has the permission to notify, the backup timeout apart, knows that the
\* invocation is not completed and that nobody else has it.
LEMMA HolderKnows ==
    ASSUME IInv, NEW p \in Procs, p # Cleaner, NEW i \in Invs, Holds(p, i)
    PROVE  /\ ~Over(i) /\ inv[i].pending = None /\ inv[i].future = Unset
           /\ inv[i].sendPtr \notin Ids /\ \A q \in Procs : Holds(q, i) => q = p
  <1>1. OneHolder(i)
    BY DEF IInv, VOk
  <1>2. ~Over(i) /\ inv[i].sendPtr \notin Ids /\ \A q \in Procs : Holds(q, i) => q = p
    BY <1>1 DEF OneHolder
  <1> QED BY <1>2 DEF Over

\* The permission to notify changes hands in SwapPointer, SendSetsConnection and
\* CleanerReadsPending only; in all other steps a thread at most gives it up.
LEMMA HolderStep ==
    ASSUME IInv, NEW p \in Procs, NEW i \in Invs, Moves(p),
           Holds(p, i)' => Holds(p, i),
           inv'[i].msgId = inv[i].msgId,
           inv'[i].sendPtr \in Ids => inv'[i].sendPtr = inv[i].sendPtr,
           Over(i)' => Over(i) \/ (Holds(p, i) /\ ~Holds(p, i)')
    PROVE  OneHolder(i)'
  <1>1. OneHolder(i)
    BY Zenon DEF IInv, VOk
  <1>2. \A q \in Procs : Holds(q, i)' => Holds(q, i)
    BY DEF Moves, Holds
  <1> QED BY <1>1, <1>2, Zenon DEF OneHolder

\* One invocation is replaced.
LEMMA Updated ==
    ASSUME IInv, NEW i \in Invs, NEW y \in InvRecord, inv' = [inv EXCEPT ![i] = y]
    PROVE  /\ inv' \in [Invs -> InvRecord] /\ inv'[i] = y
           /\ \A j \in Invs \ {i} : inv'[j] = inv[j]
  BY Zenon DEF IInv, Types

\* An invocation has one entry at most.
LEMMA Erased ==
    ASSUME IInv, NEW i \in Invs, Deregister(inv[i].msgId), UNCHANGED att
    PROVE  \A id \in registry' : att'[id].owner # i
  <1>1. Registered(i)
    BY Zenon DEF IInv, VOk
  <1> QED BY <1>1 DEF Registered, Deregister

-----------------------------------------------------------------------------
\* Kinds of steps

\* A thread looks at its invocation and moves on.
LEMMA QuietStep ==
    ASSUME IInv, NEW p \in Procs, NEW i \in Invs, proc[p].inv = i,
           UNCHANGED inv, OnInvocation, Moves(p), POk(p, proc[p])',
           proc'[p].inv = i \/ proc'[p].pc \in Scanning \cup {"idle"},
           proc'[p].pc \in AttemptPcs => proc[p].pc \in AttemptPcs,
           proc[p].pc \notin {"erase", "bt_erase"},
           proc'[p].pc \in Holding => proc[p].pc \in Holding,
           proc'[p].pc = "set_value" => Over(i) \/ proc[p].pc \in Holding,
           \/ proc[p].pc \notin {"resp_recheck", "ack_pending", "ack_last", "set_value"}
           \/ proc'[p].pc \in {"resp_recheck", "ack_pending", "ack_last", "set_value"}
           \/ inv[i].pending = None \/ inv[i].expected # inv[i].acks
    PROVE  IInv'
  <1>1. Types'
    BY Zenon DEF IInv, Types, OnInvocation, Moves
  <1>2. proc'[p].inv = i \/ proc'[p].pc \notin Holding \cup {"set_value"}
    BY Zenon DEF Holding, Scanning, Trying, Parking, Throwing
  <1>3. Local(p, i)
    BY <1>2 DEF Local, WireMoves, OnInvocation, Moves
  <1>4. VOk(i)
    BY Zenon DEF IInv
  <1>5. OneHolder(i)'
    <2>1. Holds(p, i)' => Holds(p, i)
      BY Zenon DEF Holds
    <2>2. Over(i)' => Over(i) \/ (Holds(p, i) /\ ~Holds(p, i)')
      BY Zenon DEF Over, Holds, Moves, Holding, Trying, Parking, Throwing
    <2> QED BY <2>1, <2>2, HolderStep, Zenon
  <1>6. Answers(i)'
    BY <1>4, Zenon DEF VOk, Answers, OnInvocation
  <1>7. Completed(i)'
    <2>1. Readers \subseteq Procs
      BY DEF Procs
    <2>2. ASSUME inv[i].pending # None, inv[i].expected = inv[i].acks, inv[i].future = Unset
          PROVE  \E r \in Readers : proc'[r].inv = i /\ proc'[r].pc \in
                    {"resp_recheck", "ack_pending", "ack_last", "set_value"}
      <3>1. PICK r \in Readers : proc[r].inv = i /\ proc[r].pc \in
                    {"resp_recheck", "ack_pending", "ack_last", "set_value"}
        BY <2>2, <1>4, Zenon DEF VOk, Completed
      <3>2. CASE r = p
        BY <2>2, <3>1, <3>2 DEF Scanning
      <3>3. CASE r # p
        BY <2>1, <3>1, <3>3, Zenon DEF Moves
      <3> QED BY <3>2, <3>3, Zenon
    <2> QED BY <2>2, Zenon DEF Completed
  <1>8. Registered(i)'
    BY <1>4, Zenon DEF VOk, Registered, OnInvocation, Moves
  <1> QED BY <1>1, <1>3, <1>5, <1>6, <1>7, <1>8, LocalStep, Zenon

\* A thread gives up the call it is in.
LEMMA QuietReturn ==
    ASSUME IInv, NEW p \in Procs, proc[p].pc \in Working \ {"erase", "bt_erase"}, p # Cleaner,
           Return(p), UNCHANGED inv, OnInvocation,
           \/ proc[p].pc \notin {"resp_recheck", "ack_pending", "ack_last", "set_value"}
           \/ inv[proc[p].inv].pending = None
           \/ inv[proc[p].inv].expected # inv[proc[p].inv].acks
    PROVE  IInv'
  <1>1. proc[p].inv \in Invs
    BY AtWork, Zenon
  <1>2. POk(p, proc[p])'
    BY ReturnOk DEF OnInvocation
  <1>3. Moves(p) /\ proc'[p].pc \in {"fail_next", "idle"}
    BY Returning, Zenon DEF Return
  <1>4. /\ proc'[p].pc \in Scanning \cup {"idle"}
        /\ proc'[p].pc \notin AttemptPcs /\ proc'[p].pc \notin Holding
        /\ proc'[p].pc # "set_value"
    BY <1>3, Zenon DEF Scanning, AttemptPcs, Holding, Trying, Parking, Throwing
  <1> QED BY <1>1, <1>2, <1>3, <1>4, QuietStep, Zenon

\* What of Local is the same for all of them.
Touches(p, i) ==
    /\ p \in Procs /\ i \in Invs /\ proc[p].inv = i /\ proc[p].pc \in Working
    /\ Moves(p)
    /\ inv' \in [Invs -> InvRecord] /\ \A j \in Invs \ {i} : inv'[j] = inv[j]
    /\ inv'[i].msgId = inv[i].msgId /\ inv'[i].retryable = inv[i].retryable
    /\ proc'[p].inv = i \/ proc'[p].pc \in Scanning \cup {"idle"}
    /\ proc'[p].pc \in AttemptPcs => proc[p].pc \in AttemptPcs
    /\ OnInvocation

\* A step of a thread that changes its invocation is a local step.
LEMMA TouchingStep ==
    ASSUME IInv, NEW p, NEW i, Touches(p, i),
           inv[i].sendPtr # -1 => inv'[i].sendPtr # -1,
           inv[i].pending # None => inv'[i].pending = inv[i].pending,
           \/ inv'[i].expected = inv[i].expected
           \/ \A q \in Procs \ {p} : proc[q].inv = i =>
                    proc[q].pc \notin {"resp_pending", "resp_recheck"},
           POk(p, proc[p])', OneHolder(i)', Answers(i)', Completed(i)', Registered(i)'
    PROVE  IInv'
  <1>1. Types'
    BY Zenon DEF IInv, Types, OnInvocation, Moves, Touches
  <1>2. proc'[p].inv = i \/ proc'[p].pc \notin Holding \cup {"set_value"}
    BY Zenon DEF Holding, Scanning, Trying, Parking, Throwing, Touches
  <1>3. inv[i].msgId # None
    BY AtWork DEF Touches, Ids, None
  <1>4. Local(p, i)
    BY <1>2, <1>3, Zenon DEF Local, WireMoves, OnInvocation, Moves, Touches
  <1> QED BY <1>1, <1>4, LocalStep, Zenon

\* The invocation is left alone; its entry, the message or the thread is not.
LEMMA KeepingStep ==
    ASSUME IInv, Types', NEW p \in Procs, NEW i \in Invs, proc[p].inv = i,
           UNCHANGED inv, Moves(p), Local(p, i), POk(p, proc[p])', Registered(i)',
           proc'[p].pc \in Holding => proc[p].pc \in Holding, proc'[p].pc # "set_value",
           proc[p].pc \notin {"resp_recheck", "ack_pending", "ack_last", "set_value"}
    PROVE  IInv'
  <1>1. VOk(i) /\ inv[i] \in InvRecord
    BY Zenon DEF IInv, Types
  <1>2. OneHolder(i)'
    <2>1. Holds(p, i)' => Holds(p, i)
      BY DEF Holds
    <2>2. Over(i)' => Over(i)
      BY Zenon DEF Over, Moves
    <2> QED BY <2>1, <2>2, HolderStep, Zenon
  <1>3. Answers(i)'
    <2>1. \A id \in Ids : att[id].wire = "answered" => att'[id].wire = "answered"
      BY Zenon DEF Local, WireMoves
    <2>2. inv[i].pending # None \/ inv[i].future.kind = "value" => inv[i].msgId \in Ids
      BY Answered, Zenon
    <2> QED BY <2>1, <2>2, <1>1, Zenon DEF VOk, Answers
  <1>4. Completed(i)'
    <2>1. Readers \subseteq Procs
      BY DEF Procs
    <2> QED BY <2>1, <1>1, Zenon DEF VOk, Completed, Moves
  <1> QED BY <1>2, <1>3, <1>4, LocalStep, Zenon

\* deregister_invocation(), whichever thread calls it.
LEMMA ErasingStep ==
    ASSUME IInv, NEW p \in Procs, p # Cleaner, NEW i \in Invs, proc[p].inv = i,
           Deregister(inv[i].msgId), Moves(p), POk(p, proc[p])',
           UNCHANGED <<running, timer, alive, visiting, lastId, inv, att, scan, toFail, inbox>>,
           proc'[p].inv = i \/ proc'[p].pc \in Scanning \cup {"idle"},
           proc'[p].pc \in Holding => proc[p].pc \in Holding,
           proc'[p].pc \notin AttemptPcs \cup {"set_value"},
           proc[p].pc \notin {"resp_recheck", "ack_pending", "ack_last", "set_value"}
    PROVE  IInv'
  <1>1. registry' \subseteq registry /\ (visiting \in registry => visiting \in registry')
    BY DEF Deregister, Unlocked
  <1>2. Types'
    BY <1>1, Zenon DEF IInv, Types, Moves
  <1>3. proc'[p].inv = i \/ proc'[p].pc \notin Holding \cup {"set_value"}
    BY DEF Holding, Scanning, Trying, Parking, Throwing
  <1>4. Local(p, i)
    BY <1>1, <1>3, Zenon DEF Local, WireMoves, Moves
  <1>5. Registered(i)'
    BY Erased, Zenon DEF Registered
  <1> QED BY <1>2, <1>4, <1>5, KeepingStep, Zenon

\* A thread that has nothing to do with the completion of an invocation goes to a place
\* that has nothing to do with it either.
LEMMA ThreadStep ==
    ASSUME IInv, Types', NEW p \in Procs, Moves(p), POk(p, proc[p])',
           proc[p].pc \notin {"resp_recheck", "ack_pending", "ack_last", "set_value", "erase", "bt_erase"},
           proc'[p].pc \in Permission \cup Acking \cup Scanning \cup {"idle", "bt_acks", "bt_pending"},
           UNCHANGED <<lastId, inv, att>>, registry' \subseteq registry, inbox' \subseteq inbox,
           p = Cleaner \/ (visiting' = visiting /\ (visiting \in registry => visiting \in registry')),
           \A c \in Conns : toFail'[c] \subseteq toFail[c]
    PROVE  IInv'
  <1>1. proc'[p].pc \notin Holding \cup {"set_value"} /\ proc'[p].pc \notin AttemptPcs
    BY DEF Holding, AttemptPcs, Trying, Permission, Acking, Parking, Throwing, Scanning
  <1>2. None \notin Invs
    BY ProcsAssumption, Zenon
  <1>3. Local(p, None)
    BY <1>1, <1>2, Zenon DEF Local, WireMoves, Moves
  <1> QED BY <1>2, <1>3, LocalStep, Zenon

\* No thread moves.
LEMMA EnvironmentStep ==
    ASSUME IInv, Types', UNCHANGED proc, NEW i, \A p \in Procs : Local(p, i),
           i \in Invs => (OneHolder(i) /\ Answers(i) /\ Completed(i) /\ Registered(i))'
    PROVE  IInv'
  <1>1. 1 \in Procs /\ Cleaner \in Procs /\ Cleaner # 1
    BY BoundsAssumption, ProcsAssumption DEF Procs, Ids
  <1>2. Local(1, i) /\ Local(Cleaner, i)
    BY <1>1
  <1>3. POk(Cleaner, proc[Cleaner])'
    BY <1>1, <1>2, OthersKnow, Zenon
  <1> QED BY <1>2, <1>3, LocalStep, Zenon

-----------------------------------------------------------------------------
\* get_permission_to_notify()

\* LoadPointer: a pointer that is not null is the one the last attempt stored.
LEMMA LoadPointerStep ==
    ASSUME IInv, NEW p \in Procs, LoadPointer(p)
    PROVE  IInv'
  <1> DEFINE i == proc[p].inv
  <1>1. proc[p].pc = "perm_load" /\ UNCHANGED inv /\ OnInvocation
    BY DEF LoadPointer, At
  <1>2. proc[p].pc \in Working \cap Permission
    BY <1>1, Zenon DEF Working, Permission
  <1>3. i \in Invs /\ inv[i] \in InvRecord /\ POk(p, proc[p]) /\ VOk(i) /\ proc[p] \in ProcRecord
    BY <1>2, AtWork, Zenon
  <1>4. p # Cleaner /\ inv[i].sendPtr # -1
    BY <1>2, <1>3 DEF POk, PermissionOk
  <1>5. CASE inv[i].sendPtr = None
    BY <1>1, <1>2, <1>4, <1>5, QuietReturn, Zenon DEF LoadPointer
  <1>6. CASE inv[i].sendPtr # None
    <2>1. inv[i].sendPtr \in Ids
      BY <1>3, <1>4, <1>6, BoundsAssumption DEF InvRecord, Ids, None
    <2>2. inv[i].sendPtr = inv[i].msgId
      BY <2>1, <1>3 DEF VOk, OneHolder
    <2>3. proc' = [proc EXCEPT ![p].ptr = inv[i].sendPtr, ![p].pc = "perm_id"]
      BY <1>6 DEF LoadPointer
    <2>4. /\ Moves(p) /\ proc'[p].pc = "perm_id" /\ proc'[p].ptr = inv[i].sendPtr
          /\ proc'[p].inv = i /\ proc'[p].id = proc[p].id /\ proc'[p].exc = proc[p].exc
      <3>1. proc \in [Procs -> ProcRecord]
        BY Zenon DEF IInv, Types
      <3>2. "perm_id" \in Working /\ inv[i].sendPtr \in -1 .. MaxId
        BY <1>3, Zenon DEF Working, Permission, InvRecord
      <3> QED BY <2>3, <3>1, <3>2, ZenonT(30) DEF Moves, ProcRecord
    <2>5. POk(p, proc[p])'
      <3>1. WorkOk(proc[p])'
        BY <1>1, <1>3, <2>4, <2>1, <2>2, IdIsSome, Zenon DEF WorkOk
      <3>2. PermissionOk(p, proc[p])'
        <4>1. inv[i].sendPtr =< inv[i].msgId
          BY <2>1, <2>2 DEF Ids
        <4>2. inv' = inv /\ att' = att
          BY <1>1 DEF OnInvocation
        <4>3. PermissionOk(p, proc[p]) /\ "perm_id" \in Permission
          BY <1>3, Zenon DEF POk, Permission
        <4> QED
          BY <1>2, <2>1, <2>4, <4>1, <4>2, <4>3, Zenon DEF PermissionOk
      <3>3. ~(p \in Ids /\ p > lastId')
        BY <1>1, <1>3, Zenon DEF POk, AttemptOk, OnInvocation
      <3> QED BY <1>4, <2>4, <3>1, <3>2, <3>3, ToPermission DEF Permission
    <2> QED BY <1>1, <1>3, <2>4, <2>5, QuietStep, Zenon DEF AttemptPcs, Trying, Holding, Parking, Throwing
  <1> QED BY <1>5, <1>6

\* CheckCorrelationId: an answer to an earlier attempt is dropped.
LEMMA CheckCorrelationIdStep ==
    ASSUME IInv, NEW p \in Procs, CheckCorrelationId(p)
    PROVE  IInv'
  <1> DEFINE i == proc[p].inv
  <1>1. proc[p].pc = "perm_id" /\ UNCHANGED inv /\ OnInvocation
    BY DEF CheckCorrelationId, At
  <1>2. proc[p].pc \in Working \cap Permission
    BY <1>1, Zenon DEF Working, Permission
  <1>3. i \in Invs /\ inv[i].msgId \in Ids /\ POk(p, proc[p])
    BY <1>2, AtWork, Zenon
  <1>4. p # Cleaner
    BY <1>2, <1>3, Zenon DEF POk, PermissionOk
  <1>5. CASE proc[p].id # inv[i].msgId
    BY <1>1, <1>2, <1>4, <1>5, QuietReturn, Zenon DEF CheckCorrelationId
  <1>6. CASE proc[p].id = inv[i].msgId
    <2>1. Goto(p, "perm_cas") /\ "perm_cas" \in Working \cap Permission
      BY <1>6, Zenon DEF CheckCorrelationId, Working, Permission
    <2>2. /\ Moves(p) /\ proc'[p].pc = "perm_cas" /\ proc'[p].ptr = proc[p].ptr
          /\ proc'[p].inv = i /\ proc'[p].id = proc[p].id /\ proc'[p].exc = proc[p].exc
      BY <2>1, Going, Zenon
    <2>3. WorkOk(proc[p])'
      BY <1>1, <1>3, <2>2, IdIsSome, Zenon DEF WorkOk
    <2>4. PermissionOk(p, proc[p])'
      BY <1>1, <1>2, <1>3, <1>6, <2>2, Zenon DEF POk, PermissionOk, OnInvocation, Permission
    <2>5. ~(p \in Ids /\ p > lastId')
      BY <1>1, <1>3, Zenon DEF POk, AttemptOk, OnInvocation
    <2>6. POk(p, proc[p])'
      BY <1>4, <2>1, <2>2, <2>3, <2>4, <2>5, ToPermission, Zenon
    <2> QED BY <1>1, <1>3, <2>2, <2>6, QuietStep, Zenon DEF AttemptPcs, Trying, Holding, Parking, Throwing
  <1> QED BY <1>5, <1>6

\* SwapPointer: nobody else has the permission, because send_connection_ is set, and
\* the id that was compared is still the current one, because the pointer is.
LEMMA SwapPointerStep ==
    ASSUME IInv, NEW p \in Procs, NEW i, i = proc[p].inv, SwapPointer(p)
    PROVE  IInv'
  <1>1. proc[p].pc = "perm_cas" /\ OnInvocation
    BY DEF SwapPointer, At
  <1>2. proc[p].pc \in Working \cap Permission
    BY <1>1, Zenon DEF Working, Permission
  <1>3. i \in Invs /\ inv[i].msgId \in Ids /\ POk(p, proc[p]) /\ VOk(i) /\ inv[i] \in InvRecord
        /\ proc[p] \in ProcRecord
    BY <1>2, AtWork, Zenon
  <1>4. /\ p # Cleaner /\ proc[p].id \in Ids /\ proc[p].id =< inv[i].msgId
        /\ proc[p].ptr \in Ids /\ proc[p].ptr =< proc[p].id
        /\ proc[p].exc = "none" => p \in Readers /\ att[proc[p].id].wire = "answered"
        /\ proc[p].exc = "retryable" => att[proc[p].id].wire = "refused"
        /\ proc[p].exc \notin {"io", "indeterminate"}
    BY <1>1, <1>2, <1>3, Zenon DEF POk, PermissionOk
  <1>5. CASE inv[i].sendPtr # proc[p].ptr
    BY <1>1, <1>2, <1>4, <1>5, QuietReturn, Zenon DEF SwapPointer
  <1>6. CASE inv[i].sendPtr = proc[p].ptr
    <2>1. /\ proc[p].id = inv[i].msgId /\ ~Over(i) /\ \A q \in Procs : ~Holds(q, i)
      BY <1>3, <1>4, <1>6 DEF VOk, OneHolder, Ids
    <2>2. PICK pc \in {"resp_check", "exc_erase"} :
             Goto(p, pc) /\ (pc = "resp_check" <=> proc[p].exc = "none")
      BY <1>6, Zenon DEF SwapPointer
    <2>3. pc \in Working
      BY <2>2, Zenon DEF Working, Parking, Throwing
    <2>4. /\ Moves(p) /\ proc'[p].pc = pc /\ proc'[p].inv = i /\ proc'[p].id = proc[p].id
          /\ proc'[p].exc = proc[p].exc
      BY <2>2, <2>3, Going, Zenon
    <2>5. /\ inv' \in [Invs -> InvRecord] /\ \A j \in Invs \ {i} : inv'[j] = inv[j]
          /\ inv'[i] = [inv[i] EXCEPT !.sendPtr = None]
      <3>1. inv \in [Invs -> InvRecord] /\ None \in -1 .. MaxId
        BY BoundsAssumption DEF IInv, Types, None
      <3>2. [inv[i] EXCEPT !.sendPtr = None] \in InvRecord
        BY <1>3, <3>1 DEF InvRecord
      <3>3. inv' = [inv EXCEPT ![i].sendPtr = None]
        BY <1>6, Zenon DEF SwapPointer
      <3> QED BY <1>3, <3>1, <3>2, <3>3, Zenon
    <2>6. /\ inv'[i].sendPtr = None /\ inv'[i].msgId = inv[i].msgId
          /\ inv'[i].retryable = inv[i].retryable /\ inv'[i].pending = inv[i].pending
          /\ inv'[i].expected = inv[i].expected /\ inv'[i].acks = inv[i].acks
          /\ inv'[i].future = inv[i].future
      BY <2>5, <1>3, Zenon DEF InvRecord
    <2>7. Touches(p, i)
      BY <1>1, <1>2, <1>3, <2>2, <2>4, <2>5, <2>6, Zenon DEF Touches, AttemptPcs, Trying
    <2>8. POk(p, proc[p])'
      <3>1. WorkOk(proc[p])'
        BY <1>3, <2>4, <2>6, IdIsSome, Zenon DEF WorkOk
      <3>2. CASE pc = "resp_check"
        <4>1. p \in Readers
          BY <1>4, <2>2, <3>2, Zenon
        <4>2. ResponseOk(p, proc[p])'
          BY <1>1, <1>4, <2>1, <2>2, <2>4, <2>6, <3>2, Zenon DEF ResponseOk, OnInvocation
        <4> QED BY <2>4, <3>1, <3>2, <4>1, <4>2, ToResponse, Zenon DEF Parking
      <3>3. CASE pc = "exc_erase"
        <4>1. ErrorOk(p, proc[p])'
          BY <1>1, <1>4, <2>1, <2>2, <2>4, <2>6, <3>3, Zenon DEF ErrorOk, Unapplied, OnInvocation
        <4>2. ~(p \in Ids /\ p > lastId')
          BY <1>1, <1>3, Zenon DEF POk, AttemptOk, OnInvocation
        <4> QED BY <1>4, <2>4, <3>1, <3>3, <4>1, <4>2, ToError DEF Throwing
      <3> QED BY <2>2, <3>2, <3>3, Zenon
    <2>9. OneHolder(i)'
      <3>1. \A q \in Procs : Holds(q, i)' => q = p
        BY <2>1, <2>4, Zenon DEF Holds, Moves
      <3>2. ~Over(i)'
        BY <2>1, <2>2, <2>4, <2>6, Zenon DEF Over, Moves
      <3> QED BY <3>1, <3>2, <2>6 DEF OneHolder, Ids, None
    <2>10. Answers(i)' /\ Registered(i)'
      BY <1>1, <1>3, <2>4, <2>6, Zenon DEF VOk, Answers, Registered, OnInvocation, Moves
    <2>11. Completed(i)'
      BY <2>1, <2>6, Zenon DEF Completed, Over
    <2>12. inv'[i].sendPtr # -1
      BY <2>6 DEF None
    <2> QED BY <2>6, <2>7, <2>8, <2>9, <2>10, <2>11, <2>12, TouchingStep, Zenon
  <1> QED BY <1>5, <1>6, Zenon

-----------------------------------------------------------------------------
\* notify_response() and complete()

\* ResponseCheck: the reader that has the permission completes or waits for backups.
LEMMA ResponseCheckStep ==
    ASSUME IInv, NEW p \in Procs, ResponseCheck(p)
    PROVE  IInv'
  <1> DEFINE i == proc[p].inv
  <1>1. proc[p].pc = "resp_check" /\ UNCHANGED inv /\ OnInvocation
    BY DEF ResponseCheck, At
  <1>2. proc[p].pc \in Working \cap Parking \cap Holding
    BY <1>1, Zenon DEF Working, Parking, Holding
  <1>3. i \in Invs /\ inv[i].msgId \in Ids /\ POk(p, proc[p])
    BY <1>2, AtWork, Zenon
  <1>4. PICK pc \in {"resp_expected", "set_value"} : Goto(p, pc)
    BY Zenon DEF ResponseCheck
  <1>5. pc \in Working /\ pc \in Parking \cup {"set_value"}
    BY <1>4 DEF Working, Parking
  <1>6. /\ Moves(p) /\ proc'[p].pc = pc /\ proc'[p].inv = i /\ proc'[p].id = proc[p].id
    BY <1>4, <1>5, Going, Zenon
  <1>7. p \in Readers
    BY <1>2, <1>3, Zenon DEF POk, ResponseOk
  <1>8. POk(p, proc[p])'
    <2>1. WorkOk(proc[p])'
      BY <1>1, <1>3, <1>6, IdIsSome, Zenon DEF WorkOk
    <2>2. ResponseOk(p, proc[p])'
      BY <1>1, <1>2, <1>3, <1>4, <1>6, <1>7, Zenon DEF POk, ResponseOk, OnInvocation, Parking
    <2> QED BY <1>5, <1>6, <1>7, <2>1, <2>2, ToResponse, Zenon
  <1> QED BY <1>1, <1>2, <1>3, <1>4, <1>6, <1>8, QuietStep, Zenon DEF AttemptPcs, Trying

\* StoreExpected: no other thread relies on backup_acks_expected_, for the response is the first.
LEMMA StoreExpectedStep ==
    ASSUME IInv, NEW p \in Procs, NEW i, i = proc[p].inv, StoreExpected(p)
    PROVE  IInv'
  <1>1. proc[p].pc = "resp_expected" /\ OnInvocation
    BY Zenon DEF StoreExpected, At
  <1>2. proc[p].pc \in Working \cap Parking \cap Holding
    BY <1>1 DEF Working, Parking, Holding
  <1>3. i \in Invs /\ inv[i].msgId \in Ids /\ POk(p, proc[p]) /\ VOk(i) /\ inv[i] \in InvRecord
        /\ proc[p] \in ProcRecord
    BY <1>2, AtWork, Zenon
  <1>4. p \in Readers /\ p # Cleaner
    BY <1>2, <1>3, ProcsAssumption, Zenon DEF POk, ResponseOk
  <1>5. Holds(p, i)
    BY <1>2, Zenon DEF Holds
  <1>6. ~Over(i) /\ inv[i].pending = None /\ \A q \in Procs : Holds(q, i) => q = p
    BY <1>3, <1>4, <1>5, HolderKnows, Zenon
  <1>7. /\ Moves(p) /\ proc'[p].pc = "resp_pending" /\ proc'[p].inv = i
        /\ proc'[p].id = proc[p].id /\ proc'[p].n = proc[p].n
    <2>1. Goto(p, "resp_pending") /\ "resp_pending" \in Working
      BY DEF StoreExpected, Working, Parking
    <2> QED BY <2>1, Going
  <1>8. PICK y \in InvRecord : y = [inv[i] EXCEPT !.expected = proc[p].n]
    <2>1. proc[p].n \in -1 .. MaxBackups
      BY <1>3, BoundsAssumption DEF ProcRecord
    <2> QED BY <1>3, <2>1, Zenon DEF InvRecord
  <1>9. /\ inv' \in [Invs -> InvRecord] /\ inv'[i] = y /\ \A j \in Invs \ {i} : inv'[j] = inv[j]
    BY <1>3, <1>8, Updated, Zenon DEF StoreExpected
  <1>10. /\ y.expected = proc[p].n /\ y.msgId = inv[i].msgId /\ y.retryable = inv[i].retryable
         /\ y.pending = inv[i].pending /\ y.future = inv[i].future /\ y.sendPtr = inv[i].sendPtr
    BY <1>3, <1>8, Zenon DEF InvRecord
  <1>11. Touches(p, i)
    BY <1>1, <1>2, <1>3, <1>7, <1>9, <1>10, Zenon DEF Touches, AttemptPcs, Trying
  <1>12. \A q \in Procs \ {p} : proc[q].inv = i => proc[q].pc \notin {"resp_pending", "resp_recheck"}
    <2>1. SUFFICES ASSUME NEW q \in Procs \ {p}, proc[q].inv = i,
                          proc[q].pc \in {"resp_pending", "resp_recheck"} PROVE FALSE
      OBVIOUS
    <2>2. CASE proc[q].pc = "resp_pending"
      BY <2>1, <2>2, <1>6, Zenon DEF Holds, Holding, Parking
    <2>3. CASE proc[q].pc = "resp_recheck"
      <3>1. POk(q, proc[q])
        BY DEF IInv
      <3> QED BY <2>1, <2>3, <3>1, <1>6, Zenon DEF POk, ResponseOk
    <2> QED BY <2>1, <2>2, <2>3, Zenon
  <1>13. POk(p, proc[p])'
    <2>1. WorkOk(proc[p])'
      BY <1>3, <1>7, <1>9, <1>10, IdIsSome, Zenon DEF WorkOk
    <2>2. ResponseOk(p, proc[p])'
      BY <1>1, <1>2, <1>3, <1>4, <1>7, <1>9, <1>10, Zenon DEF POk, ResponseOk, OnInvocation, Parking
    <2> QED BY <1>4, <1>7, <2>1, <2>2, ToResponse, Zenon DEF Parking
  <1>14. OneHolder(i)'
    <2>1. Over(i)' => Over(i)
      BY <1>7, <1>9, <1>10 DEF Over, Moves
    <2> QED BY <1>3, <1>5, <1>7, <1>9, <1>10, <2>1, HolderStep, Zenon
  <1>15. Answers(i)' /\ Registered(i)'
    BY <1>1, <1>3, <1>7, <1>9, <1>10, Zenon DEF VOk, Answers, Registered, OnInvocation, Moves
  <1>16. Completed(i)'
    BY <1>6, <1>9, <1>10, Zenon DEF Completed
  <1> QED BY <1>9, <1>10, <1>11, <1>12, <1>13, <1>14, <1>15, <1>16, TouchingStep, Zenon

\* StorePending: with the pending response stored the permission is gone.
LEMMA StorePendingStep ==
    ASSUME IInv, NEW p \in Procs, NEW i, i = proc[p].inv, StorePending(p)
    PROVE  IInv'
  <1>1. proc[p].pc = "resp_pending" /\ OnInvocation
    BY Zenon DEF StorePending, At
  <1>2. proc[p].pc \in Working \cap Parking \cap Holding
    BY <1>1, Zenon DEF Working, Parking, Holding
  <1>3. i \in Invs /\ inv[i].msgId \in Ids /\ POk(p, proc[p]) /\ VOk(i) /\ inv[i] \in InvRecord
        /\ proc[p] \in ProcRecord
    BY <1>2, AtWork, Zenon
  <1>4. /\ p \in Readers /\ p # Cleaner /\ proc[p].id = inv[i].msgId
        /\ att[inv[i].msgId].wire = "answered" /\ proc[p].n = inv[i].expected
    BY <1>1, <1>2, <1>3, ProcsAssumption, Zenon DEF POk, ResponseOk
  <1>5. Holds(p, i)
    BY <1>2, Zenon DEF Holds
  <1>6. inv[i].pending = None
    BY <1>3, <1>4, <1>5, HolderKnows, Zenon
  <1>7. /\ Moves(p) /\ proc'[p].pc = "resp_recheck" /\ proc'[p].inv = i
        /\ proc'[p].id = proc[p].id /\ proc'[p].n = proc[p].n
    <2>1. Goto(p, "resp_recheck") /\ "resp_recheck" \in Working
      BY DEF StorePending, Working
    <2> QED BY <2>1, Going
  <1>8. PICK y \in InvRecord : y = [inv[i] EXCEPT !.pending = proc[p].id]
    BY <1>3, Zenon DEF InvRecord, ProcRecord
  <1>9. /\ inv' \in [Invs -> InvRecord] /\ inv'[i] = y /\ \A j \in Invs \ {i} : inv'[j] = inv[j]
    BY <1>3, <1>8, Updated, Zenon DEF StorePending
  <1>10. /\ y.expected = inv[i].expected /\ y.msgId = inv[i].msgId
         /\ y.retryable = inv[i].retryable /\ y.pending = inv[i].msgId
         /\ y.future = inv[i].future /\ y.sendPtr = inv[i].sendPtr
    BY <1>3, <1>4, <1>8, Zenon DEF InvRecord
  <1>11. Touches(p, i)
    BY <1>1, <1>2, <1>3, <1>7, <1>9, <1>10, Zenon DEF Touches, AttemptPcs, Trying
  <1>12. POk(p, proc[p])'
    <2>1. WorkOk(proc[p])'
      BY <1>3, <1>7, <1>9, <1>10, IdIsSome, Zenon DEF WorkOk
    <2>2. ResponseOk(p, proc[p])'
      BY <1>1, <1>3, <1>4, <1>7, <1>9, <1>10 DEF ResponseOk, OnInvocation, Parking, Ids, None
    <2> QED BY <1>4, <1>7, <2>1, <2>2, ToResponse, Zenon
  <1>13. OneHolder(i)'
    <2>1. ~Holds(p, i)'
      BY <1>7, Zenon DEF Holds, Holding, Trying, Parking, Throwing
    <2> QED BY <1>3, <1>5, <1>7, <1>9, <1>10, <2>1, HolderStep, Zenon
  <1>14. Answers(i)' /\ Registered(i)'
    BY <1>1, <1>3, <1>4, <1>7, <1>9, <1>10, Zenon DEF VOk, Answers, Registered, OnInvocation, Moves
  <1>15. Completed(i)'
    BY <1>4, <1>7, Zenon DEF Completed
  <1> QED BY <1>6, <1>9, <1>10, <1>11, <1>12, <1>13, <1>14, <1>15, TouchingStep, Zenon

\* ResponseRecheck: the reader leaves if an acknowledgement is still to be counted.
LEMMA ResponseRecheckStep ==
    ASSUME IInv, NEW p \in Procs, ResponseRecheck(p)
    PROVE  IInv'
  <1> DEFINE i == proc[p].inv
  <1>1. proc[p].pc = "resp_recheck" /\ UNCHANGED inv /\ OnInvocation
    BY Zenon DEF ResponseRecheck, At
  <1>2. proc[p].pc \in Working
    BY <1>1 DEF Working
  <1>3. i \in Invs /\ inv[i].msgId \in Ids /\ POk(p, proc[p]) /\ VOk(i)
    BY <1>2, AtWork, Zenon
  <1>4. /\ p \in Readers /\ p # Cleaner /\ proc[p].n = inv[i].expected
        /\ inv[i].pending # None /\ proc[p].id = inv[i].pending
    BY <1>1, <1>3, ProcsAssumption, Zenon DEF POk, ResponseOk
  <1>5. CASE inv[i].acks # proc[p].n
    BY <1>1, <1>2, <1>4, <1>5, QuietReturn, Zenon DEF ResponseRecheck
  <1>6. CASE inv[i].acks = proc[p].n
    <2>1. Goto(p, "set_value") /\ "set_value" \in Working
      BY <1>6, Zenon DEF ResponseRecheck, Working
    <2>2. /\ Moves(p) /\ proc'[p].pc = "set_value" /\ proc'[p].inv = i
          /\ proc'[p].id = proc[p].id
      BY <2>1, Going, Zenon
    <2>3. WorkOk(proc[p])'
      BY <1>1, <1>3, <2>2, IdIsSome, Zenon DEF WorkOk
    <2>4. ResponseOk(p, proc[p])'
      BY <1>1, <1>3, <1>4, <2>2, Zenon DEF VOk, Answers, ResponseOk, OnInvocation, Parking, Acking
    <2>5. POk(p, proc[p])'
      BY <1>4, <2>2, <2>3, <2>4, ToResponse, Zenon
    <2>6. Over(i)
      BY <1>4, Zenon DEF Over
    <2> QED BY <1>1, <1>3, <2>2, <2>5, <2>6, QuietStep, Zenon DEF AttemptPcs, Trying, Holding, Parking, Throwing
  <1> QED BY <1>5, <1>6, Zenon

\* SetValue: the response of the last attempt becomes the result, unless there is one.
LEMMA SetValueStep ==
    ASSUME IInv, NEW p \in Procs, NEW i, i = proc[p].inv, SetValue(p)
    PROVE  IInv'
  <1>1. proc[p].pc = "set_value" /\ OnInvocation
    BY Zenon DEF SetValue, At
  <1>2. proc[p].pc \in Working
    BY <1>1 DEF Working
  <1>3. i \in Invs /\ inv[i].msgId \in Ids /\ POk(p, proc[p]) /\ VOk(i) /\ inv[i] \in InvRecord
    BY <1>2, AtWork, Zenon
  <1>4. /\ p \in Readers \cup {Cleaner} /\ proc[p].id = inv[i].msgId
        /\ att[inv[i].msgId].wire = "answered"
    BY <1>1, <1>3, Zenon DEF POk, ResponseOk
  <1>5. Over(i)
    BY <1>1, Zenon DEF Over
  <1>6. PICK pc \in {"erase", "bt_erase"} : Goto(p, pc) /\ (pc = "bt_erase" <=> p = Cleaner)
    BY Zenon DEF SetValue
  <1>7. Moves(p) /\ proc'[p].pc = pc /\ proc'[p].inv = i
    <2>1. pc \in Working
      BY <1>6 DEF Working, Cleaning
    <2> QED BY <1>6, <2>1, Going, Zenon
  <1>8. PICK f \in Results :
           /\ inv' = [inv EXCEPT ![i].future = f]
           /\ f.kind = "value" => f.id = inv[i].msgId
           /\ f.via # "indeterminate"
    <2> DEFINE v == [kind |-> "value", id |-> proc[p].id,
                     via |-> IF p = Cleaner THEN "timeout" ELSE "acked"]
    <2>1. v \in Results /\ v.id = inv[i].msgId /\ v.via # "indeterminate"
      BY <1>3, <1>4 DEF Results
    <2>2. inv' = [inv EXCEPT ![i].future = IF inv[i].future = Unset THEN v ELSE inv[i].future]
      BY <1>3, Zenon DEF SetValue, Settle
    <2>3. inv[i].future \in Results \cup {Unset}
      BY <1>3, Zenon DEF InvRecord
    <2>4. /\ inv[i].future.kind = "value" => inv[i].future.id = inv[i].msgId
          /\ inv[i].future.via # "indeterminate"
      BY <1>3 DEF VOk, Answers
    <2>5. CASE inv[i].future = Unset
      BY <2>1, <2>2, <2>5, Zenon
    <2>6. CASE inv[i].future # Unset
      BY <2>2, <2>3, <2>4, <2>6, Zenon
    <2> QED BY <2>5, <2>6, Zenon
  <1>9. f # Unset
    BY DEF Results, Unset
  <1>10. PICK y \in InvRecord : y = [inv[i] EXCEPT !.future = f]
    BY <1>3, Zenon DEF InvRecord
  <1>11. /\ inv' \in [Invs -> InvRecord] /\ inv'[i] = y /\ \A j \in Invs \ {i} : inv'[j] = inv[j]
    BY <1>3, <1>8, <1>10, Updated, Zenon
  <1>12. /\ y.expected = inv[i].expected /\ y.msgId = inv[i].msgId
         /\ y.retryable = inv[i].retryable /\ y.pending = inv[i].pending
         /\ y.future = f /\ y.sendPtr = inv[i].sendPtr
    BY <1>3, <1>10, Zenon DEF InvRecord
  <1>13. Touches(p, i)
    BY <1>1, <1>2, <1>3, <1>6, <1>7, <1>11, <1>12, Zenon DEF Touches, AttemptPcs, Trying
  <1>14. POk(p, proc[p])'
    <2>1. WorkOk(proc[p])'
      BY <1>3, <1>7, <1>11, <1>12, IdIsSome, Zenon DEF WorkOk
    <2>2. CASE p = Cleaner
      <3>1. CleanerOk(Cleaner, proc[Cleaner])'
        BY <1>1, <1>3, <1>6, <1>7, <2>2, Zenon DEF POk, CleanerOk, OnInvocation, Cleaning, Scanning
      <3> QED BY <1>6, <1>7, <2>1, <2>2, <3>1, ToCleaning, Zenon DEF Cleaning
    <2>3. CASE p # Cleaner
      <3>1. p \in Readers /\ pc = "erase"
        BY <1>4, <1>6, <2>3
      <3>2. ResponseOk(p, proc[p])'
        BY <1>7, <3>1, Zenon DEF ResponseOk, Parking
      <3> QED BY <1>7, <2>1, <3>1, <3>2, ToResponse, Zenon
    <2> QED BY <2>2, <2>3, Zenon
  <1>15. OneHolder(i)'
    <2>1. ~Holds(p, i)'
      BY <1>6, <1>7, Zenon DEF Holds, Holding, Trying, Parking, Throwing
    <2> QED BY <1>3, <1>5, <1>7, <1>11, <1>12, <2>1, HolderStep, Zenon
  <1>16. Answers(i)'
    BY <1>1, <1>3, <1>4, <1>8, <1>11, <1>12, Zenon DEF VOk, Answers, OnInvocation
  <1>17. Completed(i)'
    BY <1>9, <1>11, <1>12, Zenon DEF Completed
  <1>18. Registered(i)'
    BY <1>1, <1>3, <1>6, <1>7, <1>11, <1>12, Zenon DEF VOk, Registered, OnInvocation
  <1> QED BY <1>11, <1>12, <1>13, <1>14, <1>15, <1>16, <1>17, <1>18, TouchingStep, Zenon

\* EraseCompleted: complete() erases the entry last.
LEMMA EraseCompletedStep ==
    ASSUME IInv, NEW p \in Procs, EraseCompleted(p)
    PROVE  IInv'
  <1>1. /\ proc[p].pc = "erase" /\ Deregister(inv[proc[p].inv].msgId) /\ Return(p)
        /\ UNCHANGED <<running, timer, alive, visiting, lastId, inv, att, scan, toFail, inbox>>
    BY Zenon DEF EraseCompleted, At
  <1>2. proc[p].pc \in Working
    BY <1>1 DEF Working
  <1>3. proc[p].inv \in Invs /\ POk(p, proc[p])
    BY <1>2, AtWork, Zenon
  <1>4. p # Cleaner
    BY <1>1, <1>3, ProcsAssumption DEF POk, ResponseOk
  <1>5. Moves(p) /\ POk(p, proc[p])' /\ proc'[p].pc \in Scanning \cup {"idle"}
    BY <1>1, <1>4, FreeReturn, Zenon DEF Return
  <1>6. proc'[p].pc \notin Holding /\ proc'[p].pc \notin AttemptPcs \cup {"set_value"}
    BY <1>5, Zenon DEF Scanning, Holding, AttemptPcs, Trying, Parking, Throwing
  <1> QED BY <1>1, <1>3, <1>4, <1>5, <1>6, ErasingStep, Zenon

-----------------------------------------------------------------------------
\* notify_backup()

\* CountAck: the thread that counts the last acknowledgement will see the response.
LEMMA CountAckStep ==
    ASSUME IInv, NEW p \in Procs, NEW i, i = proc[p].inv, CountAck(p)
    PROVE  IInv'
  <1>1. proc[p].pc = "ack_count" /\ OnInvocation
    BY DEF CountAck, At
  <1>2. proc[p].pc \in Working \cap Acking
    BY <1>1, Zenon DEF Working, Acking
  <1>3. i \in Invs /\ inv[i].msgId \in Ids /\ POk(p, proc[p]) /\ VOk(i) /\ inv[i] \in InvRecord
    BY <1>2, AtWork, Zenon
  <1>4. p \in Readers
    BY <1>2, <1>3, Zenon DEF POk, ResponseOk
  <1>5. Moves(p) /\ proc'[p].pc = "ack_pending" /\ proc'[p].inv = i
    <2>1. Goto(p, "ack_pending") /\ "ack_pending" \in Working
      BY DEF CountAck, Working, Acking
    <2> QED BY <2>1, Going
  <1>6. PICK y \in InvRecord : y = [inv[i] EXCEPT !.acks = inv[i].acks + 1]
    <2>1. inv[i].acks + 1 \in Nat
      BY <1>3 DEF InvRecord
    <2> QED BY <1>3, <2>1, Zenon DEF InvRecord
  <1>7. /\ inv' \in [Invs -> InvRecord] /\ inv'[i] = y /\ \A j \in Invs \ {i} : inv'[j] = inv[j]
    BY <1>3, <1>6, Updated, Zenon DEF CountAck
  <1>8. /\ y.expected = inv[i].expected /\ y.msgId = inv[i].msgId
        /\ y.retryable = inv[i].retryable /\ y.pending = inv[i].pending
        /\ y.future = inv[i].future /\ y.sendPtr = inv[i].sendPtr
    BY <1>3, <1>6, Zenon DEF InvRecord
  <1>9. Touches(p, i)
    BY <1>1, <1>2, <1>3, <1>5, <1>7, <1>8, Zenon DEF Touches, AttemptPcs, Trying
  <1>10. POk(p, proc[p])'
    <2>1. WorkOk(proc[p])' /\ ResponseOk(p, proc[p])'
      BY <1>3, <1>4, <1>5, <1>7, <1>8 DEF WorkOk, ResponseOk, Parking, Ids, None
    <2> QED BY <1>4, <1>5, <2>1, ToResponse, Zenon DEF Acking
  <1>11. OneHolder(i)'
    <2>1. ~Holds(p, i)'
      BY <1>5, Zenon DEF Holds, Holding, Trying, Parking, Throwing
    <2>2. Over(i)' => Over(i)
      BY <1>5, <1>7, <1>8 DEF Over, Moves
    <2> QED BY <1>3, <1>5, <1>7, <1>8, <2>1, <2>2, HolderStep, Zenon
  <1>12. Answers(i)' /\ Registered(i)'
    BY <1>1, <1>3, <1>5, <1>7, <1>8, Zenon DEF VOk, Answers, Registered, OnInvocation, Moves
  <1>13. Completed(i)'
    BY <1>4, <1>5, Zenon DEF Completed
  <1> QED BY <1>7, <1>8, <1>9, <1>10, <1>11, <1>12, <1>13, TouchingStep, Zenon

\* AckSeesPending: without a pending response the reader that answers will look again.
LEMMA AckSeesPendingStep ==
    ASSUME IInv, NEW p \in Procs, AckSeesPending(p)
    PROVE  IInv'
  <1> DEFINE i == proc[p].inv
  <1>1. proc[p].pc = "ack_pending" /\ UNCHANGED inv /\ OnInvocation
    BY Zenon DEF AckSeesPending, At
  <1>2. proc[p].pc \in Working \cap Acking
    BY <1>1 DEF Working, Acking
  <1>3. i \in Invs /\ inv[i].msgId \in Ids /\ POk(p, proc[p])
    BY <1>2, AtWork, Zenon
  <1>4. p \in Readers /\ p # Cleaner
    BY <1>2, <1>3, ProcsAssumption, Zenon DEF POk, ResponseOk
  <1>5. CASE inv[i].pending = None
    BY <1>1, <1>2, <1>4, <1>5, QuietReturn, Zenon DEF AckSeesPending
  <1>6. CASE inv[i].pending # None
    <2>1. Goto(p, "ack_last") /\ "ack_last" \in Working
      BY <1>6 DEF AckSeesPending, Working, Acking
    <2>2. Moves(p) /\ proc'[p].pc = "ack_last" /\ proc'[p].inv = i
      BY <2>1, Going, Zenon
    <2>3. WorkOk(proc[p])' /\ ResponseOk(p, proc[p])'
      BY <1>1, <1>3, <1>4, <1>6, <2>2 DEF WorkOk, ResponseOk, Parking, Ids, None
    <2>4. POk(p, proc[p])'
      BY <1>4, <2>2, <2>3, ToResponse, Zenon DEF Acking
    <2> QED BY <1>1, <1>3, <2>2, <2>4, QuietStep, Zenon DEF AttemptPcs, Trying, Holding, Parking, Throwing
  <1> QED BY <1>5, <1>6, Zenon

\* LastAck: the acknowledgement that completes the count completes the invocation.
LEMMA LastAckStep ==
    ASSUME IInv, NEW p \in Procs, LastAck(p)
    PROVE  IInv'
  <1> DEFINE i == proc[p].inv
  <1>1. proc[p].pc = "ack_last" /\ UNCHANGED inv /\ OnInvocation
    BY DEF LastAck, At
  <1>2. proc[p].pc \in Working \cap Acking
    BY <1>1, Zenon DEF Working, Acking
  <1>3. i \in Invs /\ inv[i].msgId \in Ids /\ POk(p, proc[p]) /\ VOk(i) /\ inv[i] \in InvRecord
    BY <1>2, AtWork, Zenon
  <1>4. p \in Readers /\ p # Cleaner /\ inv[i].pending # None
    BY <1>1, <1>2, <1>3, ProcsAssumption, Zenon DEF POk, ResponseOk
  <1>5. CASE inv[i].expected # inv[i].acks
    BY <1>1, <1>2, <1>4, <1>5, QuietReturn, Zenon DEF LastAck
  <1>6. CASE inv[i].expected = inv[i].acks
    <2>1. proc' = [proc EXCEPT ![p].id = inv[i].pending, ![p].pc = "set_value"]
      BY <1>6 DEF LastAck
    <2>2. /\ Moves(p) /\ proc'[p].pc = "set_value" /\ proc'[p].inv = i
          /\ proc'[p].id = inv[i].pending
      <3>1. proc \in [Procs -> ProcRecord] /\ "set_value" \in Working
            /\ inv[i].pending \in 0 .. MaxId
        BY <1>3, Zenon DEF IInv, Types, Working, InvRecord
      <3> QED BY <2>1, <3>1, Zenon DEF Moves, ProcRecord
    <2>3. WorkOk(proc[p])'
      BY <1>1, <1>3, <2>2, IdIsSome, Zenon DEF WorkOk
    <2>4. ResponseOk(p, proc[p])'
      BY <1>1, <1>3, <1>4, <2>2, Zenon DEF VOk, Answers, ResponseOk, OnInvocation, Parking, Acking
    <2>5. POk(p, proc[p])'
      BY <1>4, <2>2, <2>3, <2>4, ToResponse, Zenon
    <2>6. Over(i)
      BY <1>4 DEF Over
    <2> QED BY <1>1, <1>3, <2>2, <2>5, <2>6, QuietStep, Zenon DEF AttemptPcs, Trying, Holding, Parking, Throwing
  <1> QED BY <1>5, <1>6
=============================================================================
