---------------------------- MODULE Transaction ----------------------------
(***************************************************************************)
(* A transaction (TransactionProxy in transactions.cpp): begin, commit and *)
(* rollback check state_, the calling thread and transaction_exists_, send *)
(* a request on the transaction's connection and finish in the request's   *)
(* continuation. The member that holds the transactions is external.       *)
(***************************************************************************)
EXTENDS Naturals, FiniteSets

CONSTANTS MaxTxns,   \* bound: transactions created on the member
          MaxCalls,  \* bound: calls of the application
          MaxFaults  \* bound: requests that fail

VARIABLES
    state_, transaction_exists_,
    txn_id_,  \* 0 before the first transaction
    member,   \* state of each transaction on the member
    requests, \* under way: op, transaction, whether and how it was handled
    failed,   \* history: transactions a failed call was about
    overlapped, \* history: a create was sent while a request was under way, or
                \* a request while a create was
    calls, faults

vars == <<state_, transaction_exists_, txn_id_, member, requests, failed,
          overlapped, calls, faults>>

Txns == 1..MaxTxns
TxnStates == {"NO_TXN", "ACTIVE", "COMMITTING", "COMMITTED", "COMMIT_FAILED",
              "ROLLING_BACK", "ROLLED_BACK"}
\* id: the transaction, for a create the new one once the member made it
Request(op, id) == [nr |-> calls, op |-> op, id |-> id, answer |-> "none"]

Open(id) == \E i \in Txns : i = id /\ member[i] = "open"

Init ==
    /\ state_ = "NO_TXN" /\ transaction_exists_ = FALSE /\ txn_id_ = 0
    /\ member = [i \in Txns |-> "none"] /\ requests = {} /\ failed = {}
    /\ overlapped = FALSE /\ calls = 0 /\ faults = 0

-----------------------------------------------------------------------------
(* The calls, of the thread that created the transaction (own) or of       *)
(* another one, at any time: also while requests are under way. throws:    *)
(* check_timeout() or invoke() throws. The writes of a call are one step:  *)
(* the states between them let no other call do more than the last does.   *)

Call == calls < MaxCalls /\ calls' = calls + 1

Send(op, id) ==
    /\ requests' = requests \cup {Request(op, id)}
    /\ overlapped' = (overlapped \/ \E r \in requests : "create" \in {op, r.op})
    /\ UNCHANGED failed

\* Every call that throws clears transaction_exists_.
Refuse ==
    /\ transaction_exists_' = FALSE /\ failed' = failed \cup {txn_id_}
    /\ UNCHANGED <<requests, overlapped>>

\* A nested begin is refused, and clears transaction_exists_ as well.
begin(own, throws) ==
    /\ Call
    /\ \/ /\ state_ = "ACTIVE" \/ ~own \/ transaction_exists_ \/ throws
          /\ transaction_exists_' = FALSE
          /\ UNCHANGED <<requests, overlapped, failed>>
       \/ /\ state_ # "ACTIVE" /\ own /\ ~transaction_exists_ /\ ~throws
          /\ transaction_exists_' = TRUE /\ Send("create", 0)
    /\ UNCHANGED <<state_, txn_id_, member, faults>>

commit(own, throws) ==
    /\ Call
    /\ \/ /\ state_ # "ACTIVE" \/ ~own \/ throws
          /\ state_' = "COMMIT_FAILED" /\ Refuse
       \/ /\ state_ = "ACTIVE" /\ own /\ ~throws
          /\ state_' = "COMMITTING" /\ Send("commit", txn_id_)
          /\ UNCHANGED transaction_exists_
    /\ UNCHANGED <<txn_id_, member, faults>>

\* A rollback that cannot be sent counts as done.
rollback(own, throws) ==
    /\ Call
    /\ \/ /\ state_ \in {"NO_TXN", "ROLLED_BACK"}
          /\ Refuse /\ UNCHANGED state_
       \/ /\ state_ \notin {"NO_TXN", "ROLLED_BACK"} /\ ~own
          /\ state_' = "ROLLING_BACK" /\ Refuse
       \/ /\ state_ \notin {"NO_TXN", "ROLLED_BACK"} /\ own /\ throws
          /\ state_' = "ROLLED_BACK" /\ Refuse
       \/ /\ state_ \notin {"NO_TXN", "ROLLED_BACK"} /\ own /\ ~throws
          /\ state_' = "ROLLING_BACK" /\ Send("rollback", txn_id_)
          /\ UNCHANGED transaction_exists_
    /\ UNCHANGED <<txn_id_, member, faults>>

-----------------------------------------------------------------------------
(* The member and the continuations                                        *)

Answer(r, id, answer) ==
    requests' = (requests \ {r}) \cup {[r EXCEPT !.id = id, !.answer = answer]}

\* A transaction that is not open cannot be committed or rolled back.
Handle(r) ==
    /\ r.answer = "none"
    /\ \/ /\ r.op = "create" /\ \E i \in Txns : member[i] = "none"
          /\ LET id == Cardinality({i \in Txns : member[i] # "none"}) + 1 IN
             member' = [member EXCEPT ![id] = "open"] /\ Answer(r, id, "done")
       \/ /\ r.op # "create" /\ Open(r.id)
          /\ member' = [member EXCEPT ![r.id] =
                            IF r.op = "commit" THEN "committed" ELSE "rolledBack"]
          /\ Answer(r, r.id, "done")
       \/ /\ r.op # "create" /\ ~Open(r.id)
          /\ Answer(r, r.id, "error") /\ UNCHANGED member
    /\ UNCHANGED <<state_, transaction_exists_, txn_id_, failed, overlapped,
                   calls, faults>>

\* The connection fails before the answer, whether the request was handled or
\* not.
Lose(r) ==
    /\ r.answer # "error" /\ faults < MaxFaults
    /\ faults' = faults + 1 /\ Answer(r, r.id, "error")
    /\ UNCHANGED <<state_, transaction_exists_, txn_id_, member, failed,
                   overlapped, calls>>

\* Mutant: the commit is taken for done before its answer is looked at.
FinishCommitsAlways(r) ==
    /\ r.answer # "none" /\ requests' = requests \ {r}
    /\ \/ /\ r.op = "create" /\ r.answer = "done"
          /\ txn_id_' = r.id /\ state_' = "ACTIVE"
          /\ UNCHANGED <<transaction_exists_, failed>>
       \/ /\ r.op = "commit"
          /\ state_' = "COMMITTED"
          /\ UNCHANGED <<txn_id_, transaction_exists_, failed>>
       \/ /\ r.op = "rollback"
          /\ state_' = "ROLLED_BACK" /\ transaction_exists_' = FALSE
          /\ failed' = IF r.answer = "error" THEN failed \cup {r.id} ELSE failed
          /\ UNCHANGED txn_id_
       \/ /\ r.op = "create" /\ r.answer = "error"
          /\ transaction_exists_' = FALSE /\ failed' = failed \cup {r.id}
          /\ UNCHANGED <<state_, txn_id_>>
    /\ UNCHANGED <<member, overlapped, calls, faults>>

\* The continuations: a failed create or commit leaves state_ as it is, a
\* failed rollback is logged and counts as done.
Finish(r) ==
    /\ r.answer # "none" /\ requests' = requests \ {r}
    /\ \/ /\ r.op = "create" /\ r.answer = "done"
          /\ txn_id_' = r.id /\ state_' = "ACTIVE"
          /\ UNCHANGED <<transaction_exists_, failed>>
       \/ /\ r.op = "commit" /\ r.answer = "done"
          /\ state_' = "COMMITTED"
          /\ UNCHANGED <<txn_id_, transaction_exists_, failed>>
       \/ /\ r.op = "rollback"
          /\ state_' = "ROLLED_BACK" /\ transaction_exists_' = FALSE
          /\ failed' = IF r.answer = "error" THEN failed \cup {r.id} ELSE failed
          /\ UNCHANGED txn_id_
       \/ /\ r.op # "rollback" /\ r.answer = "error"
          /\ transaction_exists_' = FALSE /\ failed' = failed \cup {r.id}
          /\ UNCHANGED <<state_, txn_id_>>
    /\ UNCHANGED <<member, overlapped, calls, faults>>

Done == requests = {} /\ calls = MaxCalls /\ UNCHANGED vars

\* The bound MaxTxns refuses a further create like a lost request.
NoRoom(r) ==
    /\ r.op = "create" /\ r.answer = "none"
    /\ \A i \in Txns : member[i] # "none"
    /\ Answer(r, r.id, "error")
    /\ UNCHANGED <<state_, transaction_exists_, txn_id_, member, failed,
                   overlapped, calls, faults>>

Next ==
    \/ \E own, throws \in BOOLEAN :
          begin(own, throws) \/ commit(own, throws) \/ rollback(own, throws)
    \/ \E r \in requests : Handle(r) \/ Lose(r) \/ Finish(r) \/ NoRoom(r)
    \/ Done

Spec == Init /\ [][Next]_vars

-----------------------------------------------------------------------------
TypeOK ==
    /\ state_ \in TxnStates /\ transaction_exists_ \in BOOLEAN
    /\ txn_id_ \in 0..MaxTxns /\ failed \subseteq 0..MaxTxns
    /\ member \in [Txns -> {"none", "open", "committed", "rolledBack"}]
    /\ requests \subseteq [nr : 0..MaxCalls, op : {"create", "commit", "rollback"},
                           id : 0..MaxTxns, answer : {"none", "done", "error"}]
    /\ overlapped \in BOOLEAN

\* As long as no begin() overlapped with another request, state_ tells what
\* the member did: COMMITTED only when the transaction is committed there,
\* ACTIVE only while it is open; and a transaction that is still open on the
\* member is the proxy's own, the one a create is bringing, or one that a call
\* has failed on. Calls of any thread may come at any time: a rollback() while
\* the commit is under way or a second rollback(), and refused calls, although
\* each of these clears transaction_exists_ and commit() and rollback() set
\* state_ before they are refused.
StateIsTrue ==
    ~overlapped =>
        /\ state_ = "COMMITTED" => member[txn_id_] = "committed"
        /\ state_ = "ACTIVE" => member[txn_id_] = "open"
        /\ \A i \in Txns : member[i] = "open" =>
              i = txn_id_ \/ i \in failed \/ \E r \in requests : r.id = i

\* "Nested transactions are not allowed!" (transactions.cpp:96): a begin() is
\* not sent while another one is under way.
NotNested ==
    \A q, r \in requests : q.op = "create" /\ r.op = "create" => q = r
=============================================================================
