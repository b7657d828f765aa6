--------------------------- MODULE ReliableTopic ---------------------------
(***************************************************************************)
(* One listener of a reliable topic: the MessageRunner of reliable_topic.h *)
(* that reads the topic's ringbuffer batch by batch and calls the listener *)
(* for each message, the calls that remove it, and a restart of the client *)
(* that resumes from the sequence the listener stored. The ringbuffer is   *)
(* external: it overwrites its oldest message when full, answers a read of *)
(* overwritten messages from its head and refuses one beyond its tail + 1. *)
(***************************************************************************)
EXTENDS Integers, Sequences

CONSTANTS Capacity,    \* of the ringbuffer
          batch_size_,
          MaxMessages, \* bound: messages published
          MaxFaults    \* bound: restarts, failed calls, ringbuffers lost

VARIABLES
    ring_head, items, \* the ringbuffer: its head sequence and its messages
    published,     \* messages published; a message is its number
    ringLost,      \* history: the ringbuffer was lost once
    loss_tolerant, \* of the listener
    addOne,        \* the restarted listener starts from stored + 1
    stored,        \* what on_store_sequence_id saved, -1 for nothing
    doing,         \* what the runner does
    sequence_, cancelled_,
    batch, next_sequence, \* the messages left of the result set, its next one
    registered,    \* the runner is in runners_map_
    removing,      \* a remove_message_listener got the runner from the map
    received,      \* history: the messages the listener was called with
    faults

ring == <<ring_head, items, published, ringLost>>
setup == <<loss_tolerant, addOne>>
runner == <<doing, sequence_, cancelled_, batch, next_sequence, registered>>
vars == <<ring, setup, stored, runner, removing, received, faults>>

tail == ring_head + Len(items) - 1
Least(a, b) == IF a < b THEN a ELSE b

Init ==
    /\ ring_head = 0 /\ items = <<>> /\ published = 0 /\ ringLost = FALSE
    /\ loss_tolerant \in BOOLEAN /\ addOne \in BOOLEAN
    /\ stored = -1 /\ doing = "none" /\ sequence_ = 0 /\ cancelled_ = FALSE
    /\ batch = <<>> /\ next_sequence = 0 /\ registered = FALSE
    /\ removing = FALSE /\ received = <<>> /\ faults = 0

Fault == faults < MaxFaults /\ faults' = faults + 1

-----------------------------------------------------------------------------
(* The ringbuffer                                                          *)

publish ==
    /\ published < MaxMessages
    /\ published' = published + 1
    /\ LET full == Len(items) = Capacity IN
       /\ items' = Append(IF full THEN Tail(items) ELSE items, published + 1)
       /\ ring_head' = IF full THEN ring_head + 1 ELSE ring_head
    /\ UNCHANGED <<ringLost, setup, stored, runner, removing, received, faults>>

LoseRing ==
    /\ Fault /\ published > 0
    /\ ring_head' = 0 /\ items' = <<>> /\ ringLost' = TRUE
    /\ UNCHANGED <<published, setup, stored, runner, removing, received>>

-----------------------------------------------------------------------------
(* The runner                                                              *)

\* cancel(): the flag, the map and on_cancel.
Cancel == cancelled_' = TRUE /\ registered' = FALSE

\* add_message_listener and the constructor of its runner.
add_message_listener ==
    /\ doing = "none" /\ ~cancelled_
    /\ sequence_' = IF stored = -1 THEN tail + 1
                    ELSE IF addOne THEN stored + 1 ELSE stored
    /\ doing' = "reading" /\ registered' = TRUE
    /\ UNCHANGED <<ring, setup, stored, cancelled_, batch, next_sequence,
                   removing, received, faults>>

\* next() is not called, or its continuation returns at once.
ReadCancelled ==
    /\ doing = "reading" /\ cancelled_
    /\ doing' = "stopped"
    /\ UNCHANGED <<ring, setup, stored, sequence_, cancelled_, batch,
                   next_sequence, registered, removing, received, faults>>

\* The result set of read_many and lost_count.
Read ==
    /\ doing = "reading" /\ ~cancelled_ /\ sequence_ <= tail
    /\ LET from == IF sequence_ < ring_head THEN ring_head ELSE sequence_
           count == Least(batch_size_, tail - from + 1)
           lost_count == from - sequence_
       IN \/ /\ lost_count # 0 /\ ~loss_tolerant
             /\ doing' = "stopped" /\ Cancel /\ UNCHANGED <<batch, next_sequence>>
          \/ /\ lost_count = 0 \/ loss_tolerant
             /\ doing' = "batch" /\ next_sequence' = from + count
             /\ batch' = [i \in 1..count |->
                             <<from + i - 1, items[from - ring_head + i]>>]
             /\ UNCHANGED <<cancelled_, registered>>
    /\ UNCHANGED <<ring, setup, stored, sequence_, removing, received, faults>>

\* ILLEGAL_ARGUMENT: the sequence is beyond the tail of the ringbuffer.
ReadRefused ==
    /\ doing = "reading" /\ ~cancelled_ /\ sequence_ > tail + 1
    /\ doing' = "seek"
    /\ UNCHANGED <<ring, setup, stored, sequence_, cancelled_, batch,
                   next_sequence, registered, removing, received, faults>>

\* Mutant: a loss tolerant listener goes on from where it was.
SeekKeepsSequence ==
    /\ doing = "seek"
    /\ \/ loss_tolerant /\ doing' = "reading" /\ UNCHANGED <<cancelled_, registered>>
       \/ ~loss_tolerant /\ doing' = "stopped" /\ Cancel
    /\ UNCHANGED <<ring, setup, stored, sequence_, batch, next_sequence,
                   removing, received, faults>>

\* handle_illegal_argument_exception, with the call of head_sequence().
handle_illegal_argument_exception ==
    /\ doing = "seek"
    /\ \/ /\ loss_tolerant
          /\ sequence_' = ring_head
          /\ doing' = IF cancelled_ THEN "stopped" ELSE "reading"
          /\ UNCHANGED <<cancelled_, registered>>
       \/ ~loss_tolerant /\ doing' = "stopped" /\ Cancel /\ UNCHANGED sequence_
    /\ UNCHANGED <<ring, setup, stored, batch, next_sequence, removing,
                   received, faults>>

\* head_sequence() fails inside the handler: its exception leaves the
\* continuation, nothing cancels the runner and nothing reads again.
SeekFails ==
    /\ doing = "seek" /\ Fault
    /\ doing' = "dead"
    /\ UNCHANGED <<ring, setup, stored, sequence_, cancelled_, batch,
                   next_sequence, registered, removing, received>>

\* Another error: handle_internal_exception terminates the listener.
ReadFails ==
    /\ doing = "reading" /\ ~cancelled_ /\ Fault
    /\ doing' = "stopped" /\ Cancel
    /\ UNCHANGED <<ring, setup, stored, sequence_, batch, next_sequence,
                   removing, received>>

Store ==
    /\ doing = "batch" /\ batch # <<>>
    /\ stored' = Head(batch)[1] /\ doing' = "process"
    /\ UNCHANGED <<ring, setup, sequence_, cancelled_, batch, next_sequence,
                   registered, removing, received, faults>>

process ==
    /\ doing = "process"
    /\ received' = Append(received, Head(batch)[2])
    /\ batch' = Tail(batch) /\ doing' = "batch"
    /\ UNCHANGED <<ring, setup, stored, sequence_, cancelled_, next_sequence,
                   registered, removing, faults>>

\* The listener throws: an iexception that terminate() finds terminal, always
\* so when the runner was cancelled, or an exception of another kind, which
\* leaves the continuation.
processThrows ==
    /\ doing = "process" /\ Fault
    /\ received' = Append(received, Head(batch)[2])
    /\ \/ doing' = "stopped" /\ Cancel
       \/ doing' = "dead" /\ UNCHANGED <<cancelled_, registered>>
    /\ UNCHANGED <<ring, setup, stored, sequence_, batch, next_sequence, removing>>

\* Mutant: the next read starts one message early.
BatchDoneOffByOne ==
    /\ doing = "batch" /\ batch = <<>>
    /\ sequence_' = next_sequence - 1
    /\ doing' = IF cancelled_ THEN "stopped" ELSE "reading"
    /\ UNCHANGED <<ring, setup, stored, cancelled_, batch, next_sequence,
                   registered, removing, received, faults>>

BatchDone ==
    /\ doing = "batch" /\ batch = <<>>
    /\ sequence_' = next_sequence
    /\ doing' = IF cancelled_ THEN "stopped" ELSE "reading"
    /\ UNCHANGED <<ring, setup, stored, cancelled_, batch, next_sequence,
                   registered, removing, received, faults>>

\* remove_message_listener gets the runner and then cancels it, and so do
\* on_shutdown and on_destroy, which clear the map first.
remove_message_listener ==
    \/ /\ registered /\ ~removing /\ removing' = TRUE
       /\ registered' \in BOOLEAN
       /\ UNCHANGED <<ring, setup, stored, doing, sequence_, cancelled_, batch,
                      next_sequence, received, faults>>
    \/ /\ removing /\ removing' = FALSE /\ Cancel
       /\ UNCHANGED <<ring, setup, stored, doing, sequence_, batch, next_sequence,
                      received, faults>>

\* The client stops at any point and is started again; the application adds
\* its listener with the sequence it stored.
Restart ==
    /\ doing # "none" /\ Fault
    /\ doing' = "none" /\ cancelled_' = FALSE /\ batch' = <<>>
    /\ registered' = FALSE /\ removing' = FALSE
    /\ sequence_' = 0 /\ next_sequence' = 0
    /\ UNCHANGED <<ring, setup, stored, received>>

Step ==
    \/ add_message_listener \/ ReadCancelled \/ Read \/ ReadRefused
    \/ handle_illegal_argument_exception \/ Store \/ process \/ BatchDone

Rests == \/ doing \in {"stopped", "dead"}
         \/ doing = "reading" /\ sequence_ = tail + 1
Idle == Rests /\ UNCHANGED vars

Next ==
    \/ Step \/ publish \/ LoseRing \/ ReadFails \/ SeekFails \/ processThrows
    \/ remove_message_listener \/ Restart \/ Idle

Spec == Init /\ [][Next]_vars

\* The runner's continuations are executed.
FairSpec == Spec /\ WF_vars(Step)

-----------------------------------------------------------------------------
TypeOK ==
    /\ ring_head \in 0..MaxMessages /\ Len(items) <= Capacity
    /\ published \in 0..MaxMessages
    /\ stored \in -1..MaxMessages /\ sequence_ \in 0..MaxMessages
    /\ doing \in {"none", "reading", "seek", "batch", "process", "stopped", "dead"}
    /\ Len(batch) <= batch_size_ /\ next_sequence \in 0..MaxMessages
    /\ cancelled_ \in BOOLEAN /\ registered \in BOOLEAN /\ removing \in BOOLEAN
    /\ doing = "reading" => batch = <<>>

\* The listener is called with the messages in the order they were published,
\* and with none of them twice, also across a restart when it resumes from
\* the stored sequence plus one (reliable_listener.h: "add 1 to the stored
\* sequence-id"); resuming from the stored sequence repeats at most that one,
\* and then a listener that is not loss tolerant misses no message between
\* two it was called with, however slow it is.  Losing the ringbuffer is the
\* one exception: a new one that has grown past the sequence is read as if it
\* were the old one.
InOrder ==
    \A i \in 1..Len(received) - 1 :
        /\ \/ received[i] < received[i + 1]
           \/ ~addOne /\ received[i] = received[i + 1]
        /\ ~loss_tolerant /\ ~addOne /\ ~ringLost => received[i + 1] <= received[i] + 1

\* The runner keeps up: whatever the ringbuffer does, it always comes to wait
\* for the next message, unless it has ended: it was cancelled ("stopped"), or
\* head_sequence() failed in its error handler or the listener threw what no
\* handler catches ("dead"). A runner that ended either way counts as resting.
KeepsUp == []<>Rests
=============================================================================
