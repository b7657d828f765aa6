----------------------------- MODULE MCDelivery -----------------------------
(***************************************************************************)
(* One run over the components that pass something on, in order and in the *)
(* end: call ids to callers, entries to the socket, packets to messages,   *)
(* listeners to members, ids to callers, rows to a loop and messages of a  *)
(* topic to a listener. They do not interact: part, which never changes,   *)
(* says which of them a behaviour is about, and the variables of the       *)
(* others keep their initial values. The call ids are the module this one  *)
(* extends.                                                                *)
(***************************************************************************)
EXTENDS CallIdSequence, IdBatch, Sequences

CONSTANTS NoId, Error

VARIABLES
    part,
    \* the socket's write queue
    pushed, write_queue, posting, strand, write_in_progress, drain_batch,
    written, alive, open, wire, freed,
    \* the reader of messages
    stream, bytes, arrived, taken, handling, message, is_final_frame,
    remaining_frame_bytes, partial_messages, handled,
    \* the listener service
    active, unopened, posted, registrations, call, server, told, errors,
    \* the auto batcher
    block, returned, expired, batches, fetches, fetch_in_progress, at, seen,
    gen, calls, answer, issued,
    \* the rows of a query
    result, served, in_progress, last, preloaded, current, row_idx, closed,
    app, got, timeouts,
    \* the reliable topic
    ring_head, items, published, ringLost, loss_tolerant, addOne, stored,
    doing, sequence_, cancelled_, batch, next_sequence, registered,
    removing, received,
    \* bound of the last two
    faults

idVars == vars
writerVars == <<pushed, write_queue, posting, strand, write_in_progress,
                drain_batch, written, alive, open, wire, freed>>
readerVars == <<stream, bytes, arrived, taken, handling, message, is_final_frame,
                remaining_frame_bytes, partial_messages, handled>>
listenerVars == <<active, unopened, posted, registrations, call, server, told,
                  errors>>
batcherVars == <<block, returned, expired, batches, fetches, fetch_in_progress,
                 at, seen, gen, calls, answer, issued>>
rowVars == <<result, served, in_progress, last, preloaded, current, row_idx,
             closed, app, got, timeouts>>
topicVars == <<ring_head, items, published, ringLost, loss_tolerant, addOne,
               stored, doing, sequence_, cancelled_, batch, next_sequence,
               registered, removing, received>>
allVars == <<part, idVars, writerVars, readerVars, listenerVars, batcherVars,
             rowVars, topicVars, faults>>

-----------------------------------------------------------------------------
Writer == INSTANCE SocketWriter WITH Writers <- {"w1", "w2"}, MaxWrites <- 2

Packet(i, kind, lengths) == [id |-> i, part |-> kind, frames |-> lengths]
Lengths == {<<2>>, <<3, 2>>, <<2, 4>>}

\* Two whole messages, and the fragments of two messages around a whole one;
\* a frame is longer than what is left of the buffer in many of them.
MCStreams ==
    {<<Packet(1, "whole", f), Packet(2, "whole", g)>> : f, g \in Lengths}
    \cup {<<Packet(1, "begin", f), Packet(2, "whole", g), Packet(3, "begin", f),
            Packet(1, "middle", g), Packet(3, "end", f), Packet(1, "end", <<4>>)>> :
          f, g \in Lengths}
AStream == <<Packet(1, "whole", <<2>>), Packet(2, "whole", <<2>>)>>

Reader == INSTANCE MessageReader WITH
    Streams <- MCStreams, HeaderSize <- 2, Capacity <- 5

Listener == INSTANCE ListenerService WITH
    Listeners <- {"l1"}, Conns <- {"c1", "c2"}, AddErrors <- 1,
    RemoveErrors <- 1

\* Two batches for safety, one for liveness.
Batcher == INSTANCE AutoBatcher WITH PoolSize <- 2, MaxCalls <- 1
Batcher2 == INSTANCE AutoBatcher WITH
    PoolSize <- 2, MaxCalls <- 1, MaxBatch <- 1

MCBase(b) == 10 * b

Rows == INSTANCE SqlResult WITH
    Results <- UNION {[1..n -> 0..2] : n \in 1..3}, Timeout <- TRUE,
    MaxTimeouts <- 1, MaxFaults <- 1

Topic == INSTANCE ReliableTopic WITH
    Capacity <- 2, batch_size_ <- 2, MaxMessages <- 4, MaxFaults <- 2

-----------------------------------------------------------------------------
\* The parts with several initial states start in one of them when another
\* part is chosen.
PartsInit ==
    /\ part \in {"ids", "writer", "reader", "listener", "batcher", "batcher2",
               "rows", "topic"}
    /\ Init /\ Writer!Init /\ Reader!Init /\ Listener!Init
    /\ IF part = "batcher2" THEN Batcher2!Init ELSE Batcher!Init
    /\ Rows!Init /\ Topic!Init
    /\ part # "ids" => strategy = "Backoff"
    /\ part # "reader" => stream = AStream
    /\ part # "rows" => result = <<0>>
    /\ part # "topic" => ~loss_tolerant /\ ~addOne

PartsNext ==
    \/ /\ part = "ids" /\ Next
       /\ UNCHANGED <<part, writerVars, readerVars, listenerVars, batcherVars,
                      rowVars, topicVars, faults>>
    \/ /\ part = "writer" /\ Writer!Next
       /\ UNCHANGED <<part, idVars, readerVars, listenerVars, batcherVars,
                      rowVars, topicVars, faults>>
    \/ /\ part = "reader" /\ Reader!Next
       /\ UNCHANGED <<part, idVars, writerVars, listenerVars, batcherVars,
                      rowVars, topicVars, faults>>
    \/ /\ part = "listener" /\ Listener!Next
       /\ UNCHANGED <<part, idVars, writerVars, readerVars, batcherVars,
                      rowVars, topicVars, faults>>
    \/ /\ \/ part = "batcher" /\ Batcher!Next
          \/ part = "batcher2" /\ Batcher2!Next
       /\ UNCHANGED <<part, idVars, writerVars, readerVars, listenerVars,
                      rowVars, topicVars, faults>>
    \/ /\ part = "rows" /\ Rows!Next
       /\ UNCHANGED <<part, idVars, writerVars, readerVars, listenerVars,
                      batcherVars, topicVars>>
    \/ /\ part = "topic" /\ Topic!Next
       /\ UNCHANGED <<part, idVars, writerVars, readerVars, listenerVars,
                      batcherVars, rowVars>>

\* The fairness each component's module states, for the part that runs.
PartsSpec ==
    /\ PartsInit /\ [][PartsNext]_allVars
    /\ \A c \in Callers :
        WF_idVars(part = "ids" /\ (IdleSeesSpace(c) \/ IdleTimesOut(c)))
    /\ \A w \in {"w1", "w2"} : WF_writerVars(part = "writer" /\ Writer!PostFlush(w))
    /\ WF_writerVars(part = "writer" /\ Writer!RunFlush)
    /\ WF_writerVars(part = "writer" /\ Writer!RunClose)
    /\ WF_writerVars(part = "writer" /\ (Writer!WriteDone \/ Writer!WriteFails))
    /\ WF_readerVars(part = "reader" /\ Reader!Next)
    /\ WF_listenerVars(part = "listener" /\ Listener!ThreadStep)
    /\ WF_listenerVars(part = "listener" /\ (Listener!Serve \/ Listener!Refuse))
    /\ \A c \in Callers :
        WF_batcherVars(part = "batcher2" /\ Batcher2!CallerStep(c))
    /\ \A g \in 1..Batcher2!MaxFetch :
        WF_batcherVars(part = "batcher2" /\ g \in 1..Len(fetches) /\ Batcher2!FetchStep(g))
    /\ WF_rowVars(part = "rows" /\ Rows!Loop)
    /\ WF_rowVars(part = "rows" /\ Rows!Fetched)
    /\ WF_topicVars(part = "topic" /\ Topic!Step)

-----------------------------------------------------------------------------
\* The type invariant of each component.
TypesOK ==
    CASE part = "ids" -> TypeOK
      [] part = "writer" -> Writer!TypeOK
      [] part = "reader" -> Reader!TypeOK
      [] part = "listener" -> Listener!TypeOK
      [] part = "batcher" -> Batcher!TypeOK
      [] part = "batcher2" -> Batcher2!TypeOK
      [] part = "rows" -> Rows!TypeOK
      [] part = "topic" -> Topic!TypeOK

\* A caller waiting for a call id gets one or times out.
WaitsEnd == part = "ids" => WaitingEnds

\* Entries reach the socket in the order of the pushes, each once.
InPushOrder == Writer!InPushOrder

\* No entry stays in the write queue of an idle, open connection for good.
NothingLeftBehind == part = "writer" => Writer!NothingLeftBehind

\* Every message handled is one the member sent, whole and in its order.
AsSent == part = "reader" => Reader!AsSent

\* Every message that arrives is handled.
AllHandled == part = "reader" => Reader!AllHandled

\* The registrations on record are those the members of live connections
\* hold, and a listener that was added is on every open connection.
ListenersInPlace == part = "listener" => Listener!ListenersInPlace

\* No member of a live connection holds a listener that was removed.
GoneMeansGone == part = "listener" => Listener!GoneMeansGone

\* register_listener and deregister_listener return.
EveryCallReturns == part = "listener" => Listener!EveryCallReturns

\* At most one batch of ids is being fetched, and only while the installed
\* one cannot serve.
SingleFlight == Batcher!SingleFlight

\* The auto batcher implements IdSource: no id is given out twice.
ImplementsIdSource == Batcher!ImplementsIdSource

\* Every call of new_id() is answered.
EveryCallAnswered == part = "batcher2" => Batcher2!EveryCallAnswered

\* The loop over a result receives its rows in order, and all of them.
RowsInOrder == part = "rows" => Rows!RowsInOrder

\* The loop over a result ends.
LoopEnds == part = "rows" => Rows!LoopEnds

\* The listener of a topic is called in the order of publication, without a
\* gap if it is not loss tolerant.
InOrder == part = "topic" => Topic!InOrder

\* The runner of a topic's listener always comes to wait for more.
KeepsUp == part = "topic" => Topic!KeepsUp
=============================================================================
