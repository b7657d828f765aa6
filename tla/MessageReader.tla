--------------------------- MODULE MessageReader ---------------------------
(***************************************************************************)
(* The read side of a connection: do_read (BaseSocket.h) gets any number   *)
(* of bytes at a time into the connection's ByteBuffer, ReadHandler::handle*)
(* feeds them to ClientMessageBuilder::on_data, which cuts them into       *)
(* frames (ClientMessage::fill_message_from), frames into messages, and    *)
(* puts fragmented messages together.                                      *)
(*                                                                         *)
(* A packet is one transmission: [id, part, frames], frames the lengths of *)
(* its frames, headers included; the last frame has IS_FINAL_FLAG.  part   *)
(* is "whole" or the place of a fragment of message id.  A byte is known   *)
(* by the packet and the frame it belongs to, and how far into the frame   *)
(* it is.                                                                  *)
(***************************************************************************)
EXTENDS Naturals, Sequences, FiniteSets, SequencesExt

CONSTANTS
    Streams,        \* the sequences of packets a member may send
    HeaderSize,     \* SIZE_OF_FRAME_LENGTH_AND_FLAGS
    Capacity        \* of the connection's byte_buffer

VARIABLES
    stream,         \* what the member sends on this connection
    bytes,          \* its bytes
    arrived,        \* how many of its bytes were read from the socket
    taken,          \* how many of those left the buffer
    handling,       \* ReadHandler::handle is looping
    message,        \* message_: the bytes of the packet so far, or none
    is_final_frame, remaining_frame_bytes,
    partial_messages, \* partial_messages_, by fragmentation id
    handled         \* history: the messages given to handle_client_message

vars == <<stream, bytes, arrived, taken, handling, message, is_final_frame,
          remaining_frame_bytes, partial_messages, handled>>

\* A builder without a message, and one whose message has no byte yet, are
\* the same: is_final_frame_ and remaining_frame_bytes_ start afresh.
NoMessage == <<>>

\* The bytes of packet p of the stream, in order.
PacketBytes(s, p) ==
    FlattenSeq([f \in DOMAIN s[p].frames |->
                  [i \in 1..s[p].frames[f] |-> <<p, f, i>>]])

\* The header of the frame that byte b starts.
FrameLen(b) == stream[b[1]].frames[b[2]]
IsFinal(b) == b[2] = Len(stream[b[1]].frames)

Init ==
    /\ stream \in Streams
    /\ bytes = FlattenSeq([p \in DOMAIN stream |-> PacketBytes(stream, p)])
    /\ arrived = 0 /\ taken = 0 /\ handling = FALSE
    /\ message = NoMessage
    /\ is_final_frame = FALSE /\ remaining_frame_bytes = 0
    /\ partial_messages = <<>>
    /\ handled = <<>>

\* do_read's handler: some bytes, as many as the buffer has room for at most;
\* compact() has moved what was left over to its front.
Read(n) ==
    /\ ~handling
    /\ arrived + n <= Len(bytes)
    /\ arrived - taken + n <= Capacity
    /\ arrived' = arrived + n
    /\ handling' = TRUE
    /\ UNCHANGED <<stream, bytes, taken, message, is_final_frame, remaining_frame_bytes,
                   partial_messages, handled>>

-----------------------------------------------------------------------------
(* fill_message_from, a step for the rest of a cut frame and for each frame *)

Smaller(a, b) == IF a < b THEN a ELSE b
remaining == arrived - taken

Take(n) ==
    /\ taken' = taken + n
    /\ message' = message \o SubSeq(bytes, taken + 1, taken + n)
    /\ remaining_frame_bytes' =
        (IF remaining_frame_bytes > 0 THEN remaining_frame_bytes
                                      ELSE FrameLen(bytes[taken + 1])) - n
    /\ UNCHANGED <<stream, bytes, arrived, handling, partial_messages, handled>>

\* Mutant: a frame that was cut always is the message's last frame.
RestIsFinal ==
    /\ handling
    /\ remaining_frame_bytes > 0 /\ remaining > 0
    /\ Take(Smaller(remaining_frame_bytes, remaining))
    /\ is_final_frame' = (remaining_frame_bytes <= remaining)

\* First the rest of a frame that was cut.
RestOfFrame ==
    /\ handling
    /\ remaining_frame_bytes > 0 /\ remaining > 0
    /\ Take(Smaller(remaining_frame_bytes, remaining))
    /\ UNCHANGED is_final_frame

FrameBegins == remaining_frame_bytes = 0 /\ ~is_final_frame /\ remaining >= HeaderSize

\* The loop over frames whose header is in the buffer.
Frame ==
    /\ handling /\ FrameBegins
    /\ Take(Smaller(FrameLen(bytes[taken + 1]), remaining))
    /\ is_final_frame' = IsFinal(bytes[taken + 1])

-----------------------------------------------------------------------------
(* on_data                                                                 *)

\* The message is complete: it is handed on, kept, or joined to its fragments.
Dispatch ==
    LET p == stream[message[1][1]]
        joined == partial_messages[p.id] \o message
    IN  CASE p.part = "whole" ->
               /\ handled' = Append(handled, message)
               /\ UNCHANGED partial_messages
          [] p.part = "begin" ->
               /\ partial_messages' = [i \in DOMAIN partial_messages \cup {p.id} |->
                     IF i = p.id THEN message ELSE partial_messages[i]]
               /\ UNCHANGED handled
          [] p.part = "middle" ->
               /\ partial_messages' = [partial_messages EXCEPT ![p.id] = joined]
               /\ UNCHANGED handled
          [] p.part = "end" ->
               /\ partial_messages' = [i \in DOMAIN partial_messages \ {p.id} |->
                                          partial_messages[i]]
               /\ handled' = Append(handled, joined)

\* Mutant: the loop goes on without asking whether a message was completed.
LoopWhileRemaining(completed) == remaining > 0

\* handle's loop condition: on_data completed a message and bytes remain.
HandleAgain(completed) == completed /\ remaining > 0

\* fill_message_from returned: the message is complete, or the bytes ran out.
on_data ==
    LET completed == is_final_frame /\ remaining_frame_bytes = 0
    IN  /\ handling
        /\ ~FrameBegins
        /\ remaining_frame_bytes > 0 => remaining = 0
        /\ IF completed
             THEN /\ Dispatch
                  /\ message' = NoMessage /\ is_final_frame' = FALSE
             ELSE UNCHANGED <<message, is_final_frame, partial_messages, handled>>
        /\ handling' = HandleAgain(completed)
        /\ UNCHANGED <<stream, bytes, arrived, taken, remaining_frame_bytes>>

Next == RestOfFrame \/ Frame \/ on_data \/ \E n \in 1..Capacity : Read(n)

Spec == Init /\ [][Next]_vars
FairSpec == Spec /\ WF_vars(Next)

-----------------------------------------------------------------------------
(* Properties                                                              *)

\* Types, and: the buffer never holds more than its capacity.
TypeOK ==
    /\ stream \in Streams
    /\ taken <= arrived /\ arrived <= Len(bytes)
    /\ arrived - taken <= Capacity
    /\ remaining_frame_bytes \in Nat

\* The messages of a stream, by the order of their last packets: the bytes of
\* the packets with their id.
Sent(s) ==
    LET ends == SelectSeq([p \in DOMAIN s |-> p],
                    LAMBDA p : s[p].part \in {"whole", "end"})
    IN  [i \in DOMAIN ends |-> FlattenSeq([p \in DOMAIN s |->
            IF s[p].id = s[ends[i]].id THEN PacketBytes(s, p) ELSE <<>>])]

\* However the stream is cut by the socket, the messages handed on are the
\* messages sent whose last packet has been read, each with exactly its own
\* bytes, in the order of those last packets.
AsSent == IsPrefix(handled, Sent(stream))

\* Everything sent is handed on in the end: no leftover shorter than a header
\* makes the handler spin or stop reading.
AllHandled ==
    <>(/\ taken = Len(bytes) /\ ~handling /\ message = NoMessage
       /\ DOMAIN partial_messages = {})
=============================================================================
