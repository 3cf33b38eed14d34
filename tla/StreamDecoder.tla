---------------------------- MODULE StreamDecoder ----------------------------
(***************************************************************************)
(* NotificationStreamDecoder (protocol/codec.py): frames recovered from a  *)
(* byte stream that arrives in callbacks cut anywhere.  A frame is          *)
(*   H1 H2 ... length ... payload ... checksum                             *)
(* with the length byte at LenAt and Overhead bytes beside the payload.    *)
(* One step is one pass of the loop in _drain_buffer.  Accepts stands for  *)
(* decode_notification: checksum, and what the payload's command demands.  *)
(* The bytes fed, `stream', are kept as history.                           *)
(***************************************************************************)
EXTENDS Integers, FiniteSets, SequencesExt

CONSTANTS
    Byte, H1, H2,       \* bytes, and the two of HEADER
    LenAt,              \* place of the length byte (6 in the code)
    Peek,               \* bytes needed before the length is read (7)
    Overhead,           \* bytes of a frame beside its payload (8)
    MaxPayload,         \* MAX_NOTIFICATION_PAYLOAD (128)
    ChunkMax,           \* MAX_STREAM_INPUT_CHUNK_BYTES (1024)
    BufMax,             \* MAX_STREAM_BUFFER_BYTES (4096)
    Accepts(_),         \* whether decode_notification takes a frame
    MaxCallback,        \* bound on the bytes of one callback
    MaxStream           \* bound on the bytes of one session

ASSUME DecoderAssumption ==
    /\ Byte \subseteq Nat /\ H1 \in Byte /\ H2 \in Byte /\ H1 # H2
    /\ {LenAt, Peek, Overhead, MaxPayload, ChunkMax, BufMax,
        MaxCallback, MaxStream} \subseteq Nat
    /\ 2 < LenAt /\ LenAt <= Peek /\ Peek <= Overhead
    /\ ChunkMax > 0
    /\ Overhead + MaxPayload + ChunkMax <= BufMax + 1

VARIABLES
    buf,                \* _buffer
    todo,               \* bytes of the callback in progress not yet appended
    draining,           \* inside _drain_buffer
    packets,            \* what feed has returned: place and length in stream
    discardedBytes, discardedFrames,
    stream              \* history: every byte this decoder was fed

vars == <<buf, todo, draining, packets, discardedBytes, discardedFrames, stream>>

Init ==
    /\ buf = <<>> /\ todo = <<>> /\ draining = FALSE /\ packets = <<>>
    /\ discardedBytes = 0 /\ discardedFrames = 0 /\ stream = <<>>

(* Places where HEADER occurs; find returns the first. *)
Headers(s) == {i \in 1..Len(s) : i < Len(s) /\ s[i] = H1 /\ s[i + 1] = H2}

First(i) == i \in Headers(buf) /\ \A j \in Headers(buf) : i <= j

(* The candidate frame that starts at place i of s, if its bytes are there. *)
Known(s, i)   == i + Peek <= Len(s) + 1
Payload(s, i) == s[i + LenAt - 1]
TooLongNever(s, i) == FALSE     \* mutated: no limit on the length
TooLong(s, i) == Known(s, i) /\ Payload(s, i) > MaxPayload
Size(s, i)    == Overhead + Payload(s, i)
Whole(s, i)   == /\ Known(s, i) /\ ~TooLong(s, i)
                 /\ i + Size(s, i) <= Len(s) + 1
Frame(s, i)   == SubSeq(s, i, i + Size(s, i) - 1)

-----------------------------------------------------------------------------
(* The callback: feed takes the bytes in pieces of ChunkMax. *)

Feed(data) ==
    /\ ~draining /\ todo = <<>>
    /\ Len(stream) + Len(data) <= MaxStream
    /\ todo' = data /\ stream' = stream \o data
    /\ UNCHANGED <<buf, draining, packets, discardedBytes, discardedFrames>>

Piece == IF Len(todo) < ChunkMax THEN Len(todo) ELSE ChunkMax
Overflow == LET n == Len(buf) + Piece IN IF n > BufMax THEN n - BufMax ELSE 0

Extend ==
    /\ ~draining /\ todo # <<>>
    /\ buf' = SubSeq(buf \o SubSeq(todo, 1, Piece), Overflow + 1, Len(buf) + Piece)
    /\ todo' = SubSeq(todo, Piece + 1, Len(todo))
    /\ discardedBytes' = discardedBytes + Overflow
    /\ draining' = TRUE
    /\ UNCHANGED <<packets, discardedFrames, stream>>

-----------------------------------------------------------------------------
(* One pass of the loop. *)

Cut(n) == buf' = SubSeq(buf, n + 1, Len(buf))

Drop(n) == Cut(n) /\ discardedBytes' = discardedBytes + n

(* A trailing first half of a header may be completed by the next callback.
   Mutated: nothing is kept. *)
KeptNever  == 0
Kept == IF buf # <<>> /\ Last(buf) = H1 THEN 1 ELSE 0

NoHeader ==
    /\ draining /\ Headers(buf) = {}
    /\ Drop(Len(buf) - Kept)
    /\ draining' = FALSE
    /\ UNCHANGED <<todo, packets, discardedFrames, stream>>

Wait(i) ==
    /\ draining /\ First(i)
    /\ ~TooLong(buf, i) /\ ~Whole(buf, i)
    /\ Drop(i - 1)
    /\ draining' = FALSE
    /\ UNCHANGED <<todo, packets, discardedFrames, stream>>

(* A candidate that is no frame gives up its first byte only.  Mutated: all
   of its bytes. *)
RefusedFrame(i) == IF TooLong(buf, i) THEN i ELSE i + Size(buf, i) - 1
Refused(i) == i

Refuse(i) ==
    /\ draining /\ First(i)
    /\ \/ TooLong(buf, i)
       \/ Whole(buf, i) /\ ~Accepts(Frame(buf, i))
    /\ Drop(Refused(i))
    /\ discardedFrames' = discardedFrames + 1
    /\ UNCHANGED <<todo, draining, packets, stream>>

(* Place in the stream of the byte before the buffer. *)
Base == Len(stream) - Len(todo) - Len(buf)

(* A frame takes its bytes with it. *)
Taken(i) == i + Size(buf, i) - 1

(* The bytes in front of it are discarded. *)
Skipped(i) == i - 1

Emit(i) ==
    /\ draining /\ First(i)
    /\ Whole(buf, i) /\ Accepts(Frame(buf, i))
    /\ packets' = Append(packets, [at |-> Base + i, len |-> Size(buf, i)])
    /\ Cut(Taken(i))
    /\ discardedBytes' = discardedBytes + Skipped(i)
    /\ UNCHANGED <<todo, draining, discardedFrames, stream>>

(* _activate_session_generation: a session starts with a new decoder. *)
NewSession ==
    /\ ~draining /\ todo = <<>> /\ stream # <<>>
    /\ buf' = <<>> /\ packets' = <<>> /\ stream' = <<>>
    /\ discardedBytes' = 0 /\ discardedFrames' = 0
    /\ UNCHANGED <<todo, draining>>

Drain == NoHeader \/ \E i \in 1..Len(buf) : Wait(i) \/ Refuse(i) \/ Emit(i)

Callback == \E n \in 1..MaxCallback : \E data \in [1..n -> Byte] : Feed(data)

Next == Callback \/ Extend \/ Drain \/ NewSession

Spec == Init /\ [][Next]_vars

-----------------------------------------------------------------------------
(* Types; the byte counters never go below zero. *)
TypeOK ==
    /\ buf \in Seq(Byte) /\ todo \in Seq(Byte) /\ stream \in Seq(Byte)
    /\ draining \in BOOLEAN
    /\ packets \in Seq([at : Nat, len : Nat])
    /\ discardedBytes \in Nat /\ discardedFrames \in Nat

(* A frame starts at place i of s. *)
FrameAt(s, i) == i \in Headers(s) /\ Whole(s, i) /\ Accepts(Frame(s, i))

Covers(p, s) == p.at <= s /\ s < p.at + p.len

(* What was returned is right: every packet is a frame of the stream, in the
   order of the stream and without overlap (feed, codec.py:293-356). *)
PacketsAreFrames ==
    /\ \A k \in 1..Len(packets) :
         /\ FrameAt(stream, packets[k].at)
         /\ packets[k].len = Size(stream, packets[k].at)
    /\ \A k, l \in 1..Len(packets) :
         k < l => packets[k].at + packets[k].len <= packets[l].at

(* Nothing that could be decoded is lost: a frame whose first byte has left
   the buffer was returned, or lies inside one that was, whatever noise and
   refused candidates surround it and however callbacks cut it (_drain_buffer
   gives up single bytes and keeps half a header). *)
NoFrameLost ==
    \A s \in 1..Base : FrameAt(stream, s) =>
        \E k \in 1..Len(packets) : Covers(packets[k], s)

(* Between callbacks and between the pieces of one, less than one frame stays
   in the buffer, so the next piece always fits in BufMax and feed's trimming
   of the oldest bytes (codec.py:299-302) never cuts a frame. *)
RetainedBounded ==
    ~draining => /\ Len(buf) < Overhead + MaxPayload
                 /\ Overflow = 0

(* The loop ends: each pass that goes round again has shortened the buffer. *)
DrainShrinks ==
    [][draining /\ draining' => Len(buf') < Len(buf)]_vars

(* Reference: the frames a scan of the whole of s finds from place p on, if
   scan tells what it finds from later places on. *)
ScanFrom(s, scan, p) ==
    CASE p \notin Headers(s) /\ p < Len(s)             -> scan[p + 1]
      [] p \in Headers(s) /\ TooLong(s, p)             -> scan[p + 1]
      [] p \in Headers(s) /\ Whole(s, p)               ->
           IF Accepts(Frame(s, p))
           THEN <<[at |-> p, len |-> Size(s, p)]>> \o scan[p + Size(s, p)]
           ELSE scan[p + 1]
      [] OTHER                                         -> <<>>

Scan(s) == LET scan[p \in 1..Len(s) + 1] == ScanFrom(s, scan, p) IN scan

(* Places before the buffer that belong to no packet. *)
Unclaimed == {s \in 1..Base : \A k \in 1..Len(packets) : ~Covers(packets[k], s)}

(* How the stream was cut into callbacks and pieces does not show: the packets
   are those of one scan over all the bytes, and every byte is still held, was
   part of one of them, or is counted as discarded (client.py:1058-1067). *)
CutsDoNotShow ==
    ~draining /\ todo = <<>> =>
        /\ packets = Scan(stream)[1]
        /\ discardedBytes = Cardinality(Unclaimed)
=============================================================================
