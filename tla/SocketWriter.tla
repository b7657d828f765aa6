---------------------------- MODULE SocketWriter ----------------------------
(***************************************************************************)
(* The write side of a connection (BaseSocket.h): any thread pushes an     *)
(* entry on the lock-free write_queue_ and posts a flush to the socket's   *)
(* strand; the strand gathers what is queued into one asynchronous write.  *)
(* Connection::close posts the closing of the socket to the same strand.   *)
(***************************************************************************)
EXTENDS Naturals, Sequences, FiniteSets, Functions

CONSTANTS Writers,   \* threads that write
          MaxWrites  \* bound: entries each of them writes

VARIABLES
    pushed,         \* history: entries in the order they entered the queue
    write_queue,    \* write_queue_
    posting,        \* writers between the push and the post
    strand,         \* tasks posted to socket_strand_, the next one first
    write_in_progress,
    drain_batch,    \* drain_batch_
    written,        \* the batch is written, its completion handler is to run
    alive,          \* the connection's alive_ flag
    open,           \* the socket is open
    wire,           \* history: entries written to the socket
    freed           \* history: how often an entry was deleted

vars == <<pushed, write_queue, posting, strand, write_in_progress, drain_batch,
          written, alive, open, wire, freed>>

Entries == Writers \X (1..MaxWrites)

Init ==
    /\ pushed = <<>> /\ write_queue = <<>> /\ posting = {}
    /\ strand = <<>>
    /\ write_in_progress = FALSE /\ drain_batch = <<>> /\ written = FALSE
    /\ alive = TRUE /\ open = TRUE
    /\ wire = <<>>
    /\ freed = [e \in Entries |-> 0]

Free(s) == freed' = [e \in Entries |->
                        IF e \in Range(s) THEN freed[e] + 1 ELSE freed[e]]

-----------------------------------------------------------------------------
(* enqueue_write                                                           *)

Push(w) ==
    LET n == Cardinality({i \in DOMAIN pushed : pushed[i][1] = w}) IN
    /\ w \notin posting /\ n < MaxWrites
    /\ pushed' = Append(pushed, <<w, n + 1>>)
    /\ write_queue' = Append(write_queue, <<w, n + 1>>)
    /\ posting' = posting \cup {w}
    /\ UNCHANGED <<strand, write_in_progress, drain_batch, written, alive, open, wire,
                   freed>>

PostFlush(w) ==
    /\ w \in posting
    /\ posting' = posting \ {w}
    /\ strand' = Append(strand, "flush")
    /\ UNCHANGED <<pushed, write_queue, write_in_progress, drain_batch, written,
                   alive, open, wire, freed>>

\* Connection::close from any thread: once, it posts the closing.
CloseConnection ==
    /\ alive
    /\ alive' = FALSE
    /\ strand' = Append(strand, "close")
    /\ UNCHANGED <<pushed, write_queue, posting, write_in_progress, drain_batch,
                   written, open, wire, freed>>

-----------------------------------------------------------------------------
(* The strand                                                              *)

\* Mutant: a second write starts while one is in progress.
FlushAnyway ==
    /\ drain_batch' = write_queue
    /\ write_in_progress' = (write_queue # <<>>)
    /\ write_queue' = <<>>

\* flush_write_queue: nothing while a write is in progress, else everything
\* queued becomes the batch of a new write.
flush_write_queue ==
    IF write_in_progress THEN UNCHANGED <<write_queue, write_in_progress, drain_batch>>
    ELSE /\ drain_batch' = write_queue
         /\ write_in_progress' = (write_queue # <<>>)
         /\ write_queue' = <<>>

RunFlush ==
    /\ strand # <<>> /\ Head(strand) = "flush"
    /\ strand' = Tail(strand)
    /\ flush_write_queue
    /\ UNCHANGED <<pushed, posting, written, alive, open, wire, freed>>

\* Mutant: the batch of the write in progress is deleted too.
CloseFreesBatch ==
    /\ strand # <<>> /\ Head(strand) = "close"
    /\ strand' = Tail(strand)
    /\ open' = FALSE
    /\ write_queue' = <<>>
    /\ Free(write_queue \o drain_batch)
    /\ UNCHANGED <<pushed, posting, write_in_progress, drain_batch, written, alive,
                   wire>>

\* close: the socket is closed and the queue drained; a write in progress
\* keeps its batch until it completes.
RunClose ==
    /\ strand # <<>> /\ Head(strand) = "close"
    /\ strand' = Tail(strand)
    /\ open' = FALSE
    /\ write_queue' = <<>>
    /\ Free(write_queue)
    /\ UNCHANGED <<pushed, posting, write_in_progress, drain_batch, written, alive,
                   wire>>

\* External: the bytes of the batch go out; the socket may be closed between
\* that and the completion handler.
BatchGoesOut ==
    /\ write_in_progress /\ ~written /\ open
    /\ written' = TRUE
    /\ wire' = wire \o drain_batch
    /\ UNCHANGED <<pushed, write_queue, posting, strand, write_in_progress,
                   drain_batch, alive, open, freed>>

\* Mutant: what was queued during the write waits for the next flush.
WriteDoneNoFlush ==
    /\ written
    /\ written' = FALSE
    /\ Free(drain_batch)
    /\ drain_batch' = <<>> /\ write_in_progress' = FALSE
    /\ UNCHANGED <<pushed, write_queue, posting, strand, alive, open, wire>>

\* The completion handler, the batch written: more that arrived is flushed.
WriteDone ==
    /\ written
    /\ written' = FALSE
    /\ Free(drain_batch)
    /\ drain_batch' = write_queue
    /\ write_in_progress' = (write_queue # <<>>)
    /\ write_queue' = <<>>
    /\ UNCHANGED <<pushed, posting, strand, alive, open, wire>>

\* The completion handler, with an error: the connection is closed and what
\* is queued fails (fail_queued_writes).
WriteFails ==
    /\ write_in_progress /\ ~written
    /\ Free(drain_batch \o write_queue)
    /\ drain_batch' = <<>> /\ write_in_progress' = FALSE /\ write_queue' = <<>>
    /\ alive' = FALSE
    /\ strand' = IF alive THEN Append(strand, "close") ELSE strand
    /\ UNCHANGED <<pushed, posting, written, open, wire>>

Next ==
    \/ \E w \in Writers : Push(w) \/ PostFlush(w)
    \/ CloseConnection \/ RunFlush \/ RunClose
    \/ BatchGoesOut \/ WriteDone \/ WriteFails

\* The strand runs its tasks, writes complete, writers go on.
Fairness ==
    /\ \A w \in Writers : WF_vars(PostFlush(w))
    /\ WF_vars(RunFlush) /\ WF_vars(RunClose) /\ WF_vars(WriteDone \/ WriteFails)

Spec == Init /\ [][Next]_vars
FairSpec == Spec /\ Fairness

-----------------------------------------------------------------------------
(* Properties                                                              *)

TypeOK ==
    /\ Range(pushed) \subseteq Entries /\ posting \subseteq Writers
    /\ strand \in Seq({"flush", "close"})
    /\ write_in_progress = (drain_batch # <<>>) /\ written \in BOOLEAN
    /\ freed \in [Entries -> 0..1]

\* The memory of an entry is never used after it was deleted, and while the
\* connection is alive the bytes reach the socket in the order of the pushes,
\* none missing: what is written, in the batch and queued is what was pushed.
InPushOrder ==
    /\ \A e \in Range(write_queue \o drain_batch) : freed[e] = 0
    /\ alive => wire \o (IF written THEN <<>> ELSE drain_batch) \o write_queue = pushed

\* Every entry is written or dropped by a close: a push that races the end of
\* a write, or the close, is not left in the queue.
NothingLeftBehind ==
    \A e \in Entries : (e \in Range(pushed)) ~> (freed[e] = 1)
=============================================================================
