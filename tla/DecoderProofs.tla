----------------------------- MODULE DecoderProofs -----------------------------
(***************************************************************************)
(* Proofs about what is read from a device and what is written to it.  Of    *)
(* the stream (StreamDecoder): what is returned are its frames, no frame is  *)
(* lost, and the buffer never grows to the point of trimming.  Of control    *)
(* frames (ControlFrames, F!): a frame changes what was asked for and        *)
(* nothing else.                                                             *)
(***************************************************************************)
EXTENDS MCStation, SequenceTheorems, FiniteSetTheorems, TLAPS

(* t lies in u behind its first d bytes. *)
Embeds(t, u, d) ==
    /\ d \in Nat /\ d + Len(t) <= Len(u)
    /\ \A k \in 1..Len(t) : t[k] = u[d + k]

(* Whatever follows, no frame starts at place i of s. *)
Dead(s, i) ==
    \/ s[i] # H1
    \/ i < Len(s) /\ s[i + 1] # H2
    \/ TooLong(s, i)
    \/ Whole(s, i) /\ ~Accepts(Frame(s, i))

(* The buffer, and the rest of the callback, are the end of the stream. *)
Held ==
    /\ Embeds(buf, stream, Base)
    /\ Embeds(todo, stream, Base + Len(buf))
    /\ Base + Len(buf) + Len(todo) = Len(stream)

(* Packets are frames of the stream, in order, and before the buffer. *)
Returned ==
    /\ PacketsAreFrames
    /\ \A k \in 1..Len(packets) : packets[k].at + packets[k].len <= Base + 1

(* Bytes that have left the buffer start no frame or belong to a packet. *)
Gone ==
    \A s \in 1..Base :
        Dead(stream, s) \/ \E k \in 1..Len(packets) : Covers(packets[k], s)

IInv == TypeOK /\ Held /\ Returned /\ Gone /\ RetainedBounded

-----------------------------------------------------------------------------
(* The constants, as the provers use them. *)
LEMMA Numbers ==
    /\ LenAt \in Nat /\ Peek \in Nat /\ Overhead \in Nat /\ MaxPayload \in Nat
    /\ ChunkMax \in Nat /\ BufMax \in Nat
    /\ 2 < LenAt /\ LenAt <= Peek /\ Peek <= Overhead /\ ChunkMax > 0
    /\ Overhead + MaxPayload + ChunkMax <= BufMax + 1
    /\ H1 # H2 /\ \A b \in Byte : b \in Nat
BY DecoderAssumption

(* What is known of a candidate stays so in a longer stream around it. *)
LEMMA CandidateKept ==
    ASSUME NEW t \in Seq(Byte), NEW u \in Seq(Byte), NEW d \in Nat,
           Embeds(t, u, d), NEW i \in 1..Len(t)
    PROVE  /\ TooLong(t, i) => TooLong(u, d + i)
           /\ Whole(t, i) => /\ Whole(u, d + i)
                             /\ Size(t, i) = Size(u, d + i)
                             /\ Size(t, i) \in Nat /\ Size(t, i) >= Overhead
                             /\ i + Size(t, i) <= Len(t) + 1
                             /\ Frame(t, i) = Frame(u, d + i)
<1>1. ASSUME Known(t, i)
      PROVE  /\ Known(u, d + i) /\ Payload(t, i) = Payload(u, d + i)
             /\ Payload(t, i) \in Nat
  <2>1. i + LenAt - 1 \in 1..Len(t)
    BY <1>1, Numbers DEF Known
  <2>2. t[i + LenAt - 1] = u[d + (i + LenAt - 1)]
    BY <2>1 DEF Embeds
  <2>3. t[i + LenAt - 1] \in Byte
    BY <2>1, ElementOfSeq
  <2>4. d + (i + LenAt - 1) = (d + i) + LenAt - 1
    BY Numbers
  <2>5. Payload(t, i) = Payload(u, d + i) /\ Payload(t, i) \in Nat
    BY <2>2, <2>3, <2>4, Numbers DEF Payload
  <2>6. Known(u, d + i)
    BY <1>1, Numbers DEF Known, Embeds
  <2> QED BY <2>5, <2>6
<1>2. TooLong(t, i) => TooLong(u, d + i)
  BY <1>1 DEF TooLong
<1>3. ASSUME Whole(t, i)
      PROVE  /\ Whole(u, d + i) /\ Size(t, i) = Size(u, d + i)
             /\ Size(t, i) \in Nat /\ Size(t, i) >= Overhead
             /\ i + Size(t, i) <= Len(t) + 1
  <2>1. /\ Known(u, d + i) /\ Payload(t, i) = Payload(u, d + i)
        /\ Payload(t, i) \in Nat /\ ~(Payload(t, i) > MaxPayload)
        /\ i + Size(t, i) <= Len(t) + 1
    BY <1>1, <1>3 DEF Whole, TooLong
  <2>2. d + Len(t) <= Len(u)
    BY DEF Embeds
  <2>3. Size(t, i) = Size(u, d + i) /\ Size(t, i) \in Nat
        /\ Size(t, i) >= Overhead
    BY <2>1, Numbers DEF Size
  <2>4. (d + i) + Size(u, d + i) <= Len(u) + 1
    BY <2>1, <2>2, <2>3
  <2> QED BY <2>1, <2>3, <2>4 DEF Whole, TooLong
<1>4. ASSUME Whole(t, i)
      PROVE  Frame(t, i) = Frame(u, d + i)
  <2> DEFINE n == Size(t, i)
  <2>1. /\ n \in Nat /\ i + n <= Len(t) + 1 /\ n = Size(u, d + i)
        /\ d + Len(t) <= Len(u)
    BY <1>3, <1>4 DEF Embeds
  <2> HIDE DEF n
  <2>2. \A j \in i..(i + n - 1) : t[j] \in Byte /\ t[j] = u[d + j]
    BY <2>1, ElementOfSeq DEF Embeds
  <2>3. \A j \in (d + i)..(d + i + n - 1) : u[j] \in Byte
    BY <2>1, ElementOfSeq, SMTT(20)
  <2>4. /\ SubSeq(t, i, i + n - 1) \in Seq(Byte)
        /\ Len(SubSeq(t, i, i + n - 1)) = n
        /\ \A k \in 1..n : SubSeq(t, i, i + n - 1)[k] = t[i + k - 1]
    BY <2>1, <2>2, SubSeqProperties, SMTT(20)
  <2>5. /\ SubSeq(u, d + i, d + i + n - 1) \in Seq(Byte)
        /\ Len(SubSeq(u, d + i, d + i + n - 1)) = n
        /\ \A k \in 1..n : SubSeq(u, d + i, d + i + n - 1)[k] = u[d + i + k - 1]
    <3> DEFINE m == d + i
    <3>1. m \in Nat
      OBVIOUS
    <3> HIDE DEF m
    <3>2. \A j \in m..(m + n - 1) : u[j] \in Byte
      BY <2>3 DEF m
    <3>3. /\ SubSeq(u, m, m + n - 1) \in Seq(Byte)
          /\ Len(SubSeq(u, m, m + n - 1)) = n
          /\ \A k \in 1..n : SubSeq(u, m, m + n - 1)[k] = u[m + k - 1]
      BY <2>1, <3>1, <3>2, SubSeqProperties, SMTT(20)
    <3> QED BY <3>3 DEF m
  <2>6. \A k \in 1..n : t[i + k - 1] = u[d + i + k - 1]
    <3> TAKE k \in 1..n
    <3>1. i + k - 1 \in i..(i + n - 1) /\ d + (i + k - 1) = d + i + k - 1
      BY <2>1
    <3> QED BY <2>2, <3>1
  <2>7. SubSeq(t, i, i + n - 1) = SubSeq(u, d + i, d + i + n - 1)
    <3> DEFINE a == SubSeq(t, i, i + n - 1)
               b == SubSeq(u, d + i, d + i + n - 1)
    <3>1. a \in Seq(Byte) /\ b \in Seq(Byte) /\ Len(a) = n /\ Len(b) = n
      BY <2>4, <2>5
    <3>2. \A k \in 1..n : a[k] = b[k]
      BY <2>4, <2>5, <2>6
    <3> HIDE DEF a, b
    <3>3. a = b
      BY <3>1, <3>2, SeqEqual
    <3> QED BY <3>3 DEF a, b
  <2> QED BY <2>1, <2>7 DEF Frame, n
<1> QED BY <1>2, <1>3, <1>4

LEMMA DeadKept ==
    ASSUME NEW t \in Seq(Byte), NEW u \in Seq(Byte), NEW d \in Nat,
           Embeds(t, u, d), NEW i \in 1..Len(t), Dead(t, i)
    PROVE  Dead(u, d + i)
<1>1. t[i] = u[d + i] /\ d + Len(t) <= Len(u)
  BY DEF Embeds
<1>2. ASSUME i < Len(t)
      PROVE  t[i + 1] = u[(d + i) + 1] /\ d + i < Len(u)
  <2>1. i + 1 \in 1..Len(t) /\ d + (i + 1) = (d + i) + 1
    BY <1>2
  <2> QED BY <1>1, <1>2, <2>1 DEF Embeds
<1> QED BY <1>1, <1>2, CandidateKept DEF Dead

LEMMA FrameKept ==
    ASSUME NEW t \in Seq(Byte), NEW u \in Seq(Byte), NEW d \in Nat,
           Embeds(t, u, d), NEW i \in 1..Len(t), FrameAt(t, i)
    PROVE  FrameAt(u, d + i) /\ Size(u, d + i) = Size(t, i)
<1>1. i < Len(t) /\ t[i] = H1 /\ t[i + 1] = H2
  BY DEF FrameAt, Headers
<1>2. t[i] = u[d + i] /\ t[i + 1] = u[d + (i + 1)] /\ d + Len(t) <= Len(u)
  <2>1. i \in 1..Len(t) /\ i + 1 \in 1..Len(t)
    BY <1>1
  <2> QED BY <2>1 DEF Embeds
<1>3. d + i \in Headers(u)
  BY <1>1, <1>2 DEF Headers
<1>4. Whole(t, i) /\ Accepts(Frame(t, i))
  BY DEF FrameAt
<1>5. Whole(u, d + i) /\ Size(t, i) = Size(u, d + i) /\ Frame(t, i) = Frame(u, d + i)
  BY <1>4, CandidateKept
<1> QED BY <1>3, <1>4, <1>5 DEF FrameAt

(* A dead place is no frame. *)
LEMMA DeadIsNoFrame ==
    ASSUME NEW s \in Seq(Byte), NEW i \in 1..Len(s), Dead(s, i)
    PROVE  ~FrameAt(s, i)
BY DEF Dead, FrameAt, Headers, Whole, TooLong

-----------------------------------------------------------------------------
(* Removing bytes from the front of the buffer. *)
LEMMA CutFacts ==
    ASSUME TypeOK, Held, NEW n \in 0..Len(buf), Cut(n),
           UNCHANGED <<todo, stream>>
    PROVE  /\ buf' \in Seq(Byte) /\ Len(buf') = Len(buf) - n
           /\ Base \in Nat /\ Base' = Base + n /\ Held'
<1>1. /\ buf \in Seq(Byte) /\ todo \in Seq(Byte) /\ stream \in Seq(Byte)
      /\ Len(buf) \in Nat /\ Len(todo) \in Nat /\ Len(stream) \in Nat
      /\ n \in Nat /\ n <= Len(buf)
  BY DEF TypeOK
<1>2. Base \in Nat /\ Base + Len(buf) + Len(todo) = Len(stream)
  BY DEF Held, Embeds
<1>3. \A j \in (n + 1)..Len(buf) : buf[j] \in Byte
  BY <1>1, ElementOfSeq
<1>4. /\ SubSeq(buf, n + 1, Len(buf)) \in Seq(Byte)
      /\ Len(SubSeq(buf, n + 1, Len(buf))) =
            IF n + 1 <= Len(buf) THEN Len(buf) - (n + 1) + 1 ELSE 0
      /\ \A k \in 1..(Len(buf) - (n + 1) + 1) :
            SubSeq(buf, n + 1, Len(buf))[k] = buf[(n + 1) + k - 1]
  BY <1>1, <1>3, SubSeqProperties
<1>5. buf' \in Seq(Byte) /\ Len(buf') = Len(buf) - n
  BY <1>1, <1>4 DEF Cut
<1>6. \A k \in 1..Len(buf') : buf'[k] = buf[n + k]
  BY <1>1, <1>4, <1>5 DEF Cut
<1>7. Base' = Base + n
  BY <1>1, <1>5 DEF Base
<1>8. Embeds(buf', stream, Base')
  <2>1. \A k \in 1..Len(buf') : buf'[k] = stream[Base' + k]
    <3> TAKE k \in 1..Len(buf')
    <3>1. n + k \in 1..Len(buf) /\ Base + (n + k) = Base' + k
      BY <1>1, <1>2, <1>5, <1>7
    <3> QED BY <1>6, <3>1 DEF Held, Embeds
  <2>2. Base' \in Nat /\ Base' + Len(buf') <= Len(stream)
    BY <1>1, <1>2, <1>5, <1>7
  <2> QED BY <2>1, <2>2 DEF Embeds
<1>9. Base' + Len(buf') = Base + Len(buf)
  BY <1>1, <1>2, <1>5, <1>7
<1> QED BY <1>2, <1>5, <1>7, <1>8, <1>9 DEF Held

(* Bytes in front of the first header are dead. *)
LEMMA Junk ==
    ASSUME buf \in Seq(Byte), NEW i \in 1..Len(buf), First(i),
           NEW j \in 1..(i - 1)
    PROVE  Dead(buf, j)
<1>1. j \notin Headers(buf) /\ j \in 1..Len(buf) /\ j < Len(buf)
  BY DEF First
<1> QED BY <1>1 DEF Headers, Dead

(* Bytes may leave the buffer if they are dead or belong to a packet. *)
LEMMA CutGone ==
    ASSUME TypeOK, Held, Gone, NEW n \in 0..Len(buf), Cut(n),
           UNCHANGED <<todo, stream>>,
           Len(packets) <= Len(packets'), Len(packets') \in Nat,
           \A k \in 1..Len(packets) : packets'[k] = packets[k],
           \A j \in 1..n : \/ Dead(buf, j)
                           \/ \E k \in 1..Len(packets') : Covers(packets'[k], Base + j)
    PROVE  Gone'
<1>1. Base \in Nat /\ Base' = Base + n /\ stream' = stream
  BY CutFacts
<1>2. /\ buf \in Seq(Byte) /\ stream \in Seq(Byte) /\ Embeds(buf, stream, Base)
      /\ Len(buf) \in Nat /\ Len(packets) \in Nat
  BY DEF TypeOK, Held
<1>3. SUFFICES ASSUME NEW s \in 1..(Base + n)
               PROVE  \/ Dead(stream, s)
                      \/ \E k \in 1..Len(packets') : Covers(packets'[k], s)
  BY <1>1 DEF Gone
<1>4. CASE s <= Base
  <2>1. Dead(stream, s) \/ \E k \in 1..Len(packets) : Covers(packets[k], s)
    BY <1>1, <1>4 DEF Gone
  <2>2. ASSUME NEW k \in 1..Len(packets), Covers(packets[k], s)
        PROVE  k \in 1..Len(packets') /\ Covers(packets'[k], s)
    BY <2>2, <1>2
  <2> QED BY <2>1, <2>2
<1>5. CASE s > Base
  <2>1. s - Base \in 1..n /\ s - Base \in 1..Len(buf) /\ Base + (s - Base) = s
    BY <1>1, <1>2, <1>5
  <2>2. Dead(buf, s - Base) => Dead(stream, s)
    BY <1>1, <1>2, <2>1, DeadKept
  <2> QED BY <2>1, <2>2
<1> QED BY <1>1, <1>4, <1>5

(* Packets returned before stay right when the buffer gets shorter. *)
LEMMA ReturnedKept ==
    ASSUME Returned, Base \in Nat, Base' \in Nat, Base <= Base', TypeOK,
           UNCHANGED <<stream, packets>>
    PROVE  Returned'
<1>1. PacketsAreFrames'
  BY DEF Returned, PacketsAreFrames, FrameAt, Headers, Whole, Known, TooLong,
         Payload, Size, Frame
<1>2. \A k \in 1..Len(packets) : packets[k].at + packets[k].len <= Base' + 1
  <2> TAKE k \in 1..Len(packets)
  <2>1. packets[k] \in [at : Nat, len : Nat]
    BY ElementOfSeq DEF TypeOK
  <2>2. packets[k].at + packets[k].len <= Base + 1
    BY DEF Returned
  <2> QED BY <2>1, <2>2
<1> QED BY <1>1, <1>2 DEF Returned

(* A buffer shorter than a frame leaves room for the next piece. *)
LEMMA Room ==
    ASSUME TypeOK, Len(buf) < Overhead + MaxPayload
    PROVE  /\ Piece \in Nat /\ Piece <= Len(todo) /\ Piece <= ChunkMax
           /\ Overflow = 0
           /\ todo # <<>> => Piece > 0
<1>1. Len(buf) \in Nat /\ Len(todo) \in Nat /\ (todo # <<>> => Len(todo) > 0)
  BY EmptySeq DEF TypeOK
<1>2. /\ Piece \in Nat /\ Piece <= Len(todo) /\ Piece <= ChunkMax
      /\ todo # <<>> => Piece > 0
  BY <1>1, Numbers DEF Piece
<1>3. Len(buf) + Piece <= BufMax
  BY <1>1, <1>2, Numbers
<1> QED BY <1>1, <1>2, <1>3, Numbers DEF Overflow

-----------------------------------------------------------------------------
(* A callback only makes the stream longer. *)
LEMMA FeedStep ==
    ASSUME IInv, NEW data \in Seq(Byte), Feed(data)
    PROVE  IInv'
<1>1. /\ buf \in Seq(Byte) /\ stream \in Seq(Byte) /\ todo = <<>> /\ ~draining
      /\ packets \in Seq([at : Nat, len : Nat])
      /\ Len(buf) \in Nat /\ Len(stream) \in Nat /\ Len(data) \in Nat
      /\ Len(todo) = 0
  BY EmptySeq DEF IInv, TypeOK, Feed
<1>2. /\ stream' \in Seq(Byte) /\ Len(stream') = Len(stream) + Len(data)
      /\ \A k \in 1..(Len(stream) + Len(data)) :
            stream'[k] = IF k <= Len(stream) THEN stream[k] ELSE data[k - Len(stream)]
  BY <1>1, ConcatProperties DEF Feed
<1>3. /\ todo' = data /\ buf' = buf /\ packets' = packets /\ draining' = draining
      /\ discardedBytes' = discardedBytes /\ discardedFrames' = discardedFrames
  BY DEF Feed
<1>4. TypeOK'
  BY <1>2, <1>3 DEF IInv, TypeOK
<1>5. Base \in Nat /\ Base + Len(buf) = Len(stream)
  BY <1>1 DEF IInv, Held, Embeds
<1>6. Base' = Base
  BY <1>1, <1>2, <1>3 DEF Base
<1>7. Embeds(stream, stream', 0)
  BY <1>1, <1>2 DEF Embeds
<1>8. Held'
  <2>1. Embeds(buf', stream', Base')
    <3>1. \A k \in 1..Len(buf) : buf[k] = stream[Base + k]
      BY DEF IInv, Held, Embeds
    <3>2. \A k \in 1..Len(buf) : stream[Base + k] = stream'[Base + k]
      BY <1>1, <1>2, <1>5
    <3> QED BY <1>1, <1>2, <1>3, <1>5, <1>6, <3>1, <3>2 DEF Embeds
  <2>2. Embeds(todo', stream', Base' + Len(buf'))
    <3>1. ASSUME NEW k \in 1..Len(data)
          PROVE  stream'[Len(stream) + k] = data[k]
      <4>1. /\ Len(stream) + k \in 1..(Len(stream) + Len(data))
            /\ ~(Len(stream) + k <= Len(stream))
            /\ (Len(stream) + k) - Len(stream) = k
        BY <1>1
      <4> QED BY <1>2, <4>1
    <3>2. Base' + Len(buf') = Len(stream) /\ todo' = data
      BY <1>3, <1>5, <1>6
    <3>3. Len(stream) + Len(data) <= Len(stream')
      BY <1>1, <1>2
    <3> QED BY <1>1, <3>1, <3>2, <3>3 DEF Embeds
  <2> QED BY <2>1, <2>2, <1>1, <1>2, <1>3, <1>5, <1>6 DEF Held
<1>9. Returned'
  <2>1. ASSUME NEW k \in 1..Len(packets)
        PROVE  /\ FrameAt(stream', packets[k].at)
               /\ packets[k].len = Size(stream', packets[k].at)
    <3>1. /\ FrameAt(stream, packets[k].at)
          /\ packets[k].len = Size(stream, packets[k].at)
      BY DEF IInv, Returned, PacketsAreFrames
    <3>2. packets[k].at \in 1..Len(stream)
      BY <3>1 DEF FrameAt, Headers
    <3>3. 0 + packets[k].at = packets[k].at
      BY <3>2
    <3>4. 0 \in Nat
      OBVIOUS
    <3>5. /\ FrameAt(stream', 0 + packets[k].at)
          /\ Size(stream', 0 + packets[k].at) = Size(stream, packets[k].at)
      BY <1>1, <1>2, <1>7, <3>1, <3>2, <3>4, FrameKept
    <3> QED BY <3>1, <3>3, <3>5
  <2>2. PacketsAreFrames'
    BY <2>1, <1>3 DEF IInv, Returned, PacketsAreFrames
  <2> QED BY <2>2, <1>3, <1>6 DEF IInv, Returned
<1>10. Gone'
  <2> SUFFICES ASSUME NEW s \in 1..Base
               PROVE  \/ Dead(stream', s)
                      \/ \E k \in 1..Len(packets) : Covers(packets[k], s)
    BY <1>3, <1>6 DEF Gone
  <2>1. s \in 1..Len(stream) /\ 0 + s = s /\ 0 \in Nat
    BY <1>1, <1>5
  <2>2. Dead(stream, s) => Dead(stream', 0 + s)
    BY <1>1, <1>2, <1>7, <2>1, DeadKept
  <2>3. Dead(stream, s) \/ \E k \in 1..Len(packets) : Covers(packets[k], s)
    BY DEF IInv, Gone
  <2> QED BY <2>1, <2>2, <2>3
<1>11. RetainedBounded'
  <2>1. Len(buf') < Overhead + MaxPayload
    BY <1>1, <1>3 DEF IInv, RetainedBounded
  <2>2. Overflow' = 0
    <3>1. Len(buf) < Overhead + MaxPayload
      BY <1>1 DEF IInv, RetainedBounded
    <3>2. /\ Piece' \in Nat /\ Piece' <= ChunkMax
      BY <1>1, <1>3, Numbers DEF Piece
    <3>3. Len(buf) + Piece' <= BufMax
      BY <1>1, <3>1, <3>2, Numbers
    <3> QED BY <1>1, <1>3, <3>2, <3>3, Numbers DEF Overflow
  <2> QED BY <2>1, <2>2 DEF RetainedBounded
<1> QED BY <1>4, <1>8, <1>9, <1>10, <1>11 DEF IInv

(* Appending a piece moves bytes from the rest of the callback to the buffer;
   nothing is trimmed. *)
LEMMA ExtendStep == ASSUME IInv, Extend PROVE IInv'
<1> DEFINE n == Piece
<1>1. /\ buf \in Seq(Byte) /\ stream \in Seq(Byte) /\ todo \in Seq(Byte)
      /\ todo # <<>> /\ ~draining
      /\ Len(buf) \in Nat /\ Len(stream) \in Nat /\ Len(todo) \in Nat
  BY DEF IInv, TypeOK, Extend
<1>2. Overflow = 0 /\ n \in Nat /\ n > 0 /\ n <= Len(todo)
  BY <1>1, Room DEF IInv, RetainedBounded
<1>3. /\ buf' = SubSeq(buf \o SubSeq(todo, 1, n), Overflow + 1, Len(buf) + n)
      /\ todo' = SubSeq(todo, n + 1, Len(todo))
      /\ discardedBytes' = discardedBytes + Overflow
      /\ draining' = TRUE /\ packets' = packets /\ stream' = stream
      /\ discardedFrames' = discardedFrames
  BY DEF Extend
<1> HIDE DEF n
<1>4. /\ SubSeq(todo, 1, n) \in Seq(Byte) /\ Len(SubSeq(todo, 1, n)) = n
      /\ \A k \in 1..n : SubSeq(todo, 1, n)[k] = todo[k]
  <2>1. \A j \in 1..n : todo[j] \in Byte
    BY <1>1, <1>2, ElementOfSeq
  <2>2. \A k \in 1..n : 1 + k - 1 = k
    OBVIOUS
  <2> QED BY <1>2, <2>1, <2>2, SubSeqProperties
<1>5. /\ buf' \in Seq(Byte) /\ Len(buf') = Len(buf) + n
      /\ \A k \in 1..(Len(buf) + n) :
            buf'[k] = IF k <= Len(buf) THEN buf[k] ELSE todo[k - Len(buf)]
  <2> DEFINE c == buf \o SubSeq(todo, 1, n)
  <2>1. /\ c \in Seq(Byte) /\ Len(c) = Len(buf) + n
        /\ \A k \in 1..(Len(buf) + n) : c[k] =
              IF k <= Len(buf) THEN buf[k] ELSE SubSeq(todo, 1, n)[k - Len(buf)]
    BY <1>1, <1>4, ConcatProperties
  <2>2. buf' = SubSeq(c, 1, Len(c))
    BY <1>1, <1>2, <1>3, <2>1
  <2> HIDE DEF c
  <2>3. buf' = c
    BY <2>1, <2>2, SubSeqFull
  <2>4. \A k \in 1..(Len(buf) + n) : ~(k <= Len(buf)) => k - Len(buf) \in 1..n
    BY <1>1, <1>2
  <2> QED BY <1>4, <2>1, <2>3, <2>4
<1>6. /\ todo' \in Seq(Byte) /\ Len(todo') = Len(todo) - n
      /\ \A k \in 1..(Len(todo) - n) : todo'[k] = todo[n + k]
  <2>1. \A j \in (n + 1)..Len(todo) : todo[j] \in Byte
    BY <1>1, <1>2, ElementOfSeq
  <2>2. /\ SubSeq(todo, n + 1, Len(todo)) \in Seq(Byte)
        /\ Len(SubSeq(todo, n + 1, Len(todo))) =
              IF n + 1 <= Len(todo) THEN Len(todo) - (n + 1) + 1 ELSE 0
        /\ \A k \in 1..(Len(todo) - (n + 1) + 1) :
              SubSeq(todo, n + 1, Len(todo))[k] = todo[(n + 1) + k - 1]
    BY <1>1, <1>2, <2>1, SubSeqProperties
  <2> QED BY <1>1, <1>2, <1>3, <2>2
<1>7. Base \in Nat /\ Base + Len(buf) + Len(todo) = Len(stream)
  BY DEF IInv, Held, Embeds
<1>8. Base' = Base
  <2>1. Len(stream') = Len(stream)
    BY <1>3
  <2> QED BY <1>1, <1>2, <1>5, <1>6, <2>1 DEF Base
<1>9. TypeOK'
  BY <1>2, <1>3, <1>5, <1>6 DEF IInv, TypeOK
<1>10. Held'
  <2>1. \A k \in 1..Len(buf) : buf[k] = stream[Base + k]
    BY DEF IInv, Held, Embeds
  <2>2. \A k \in 1..Len(todo) : todo[k] = stream[Base + Len(buf) + k]
    BY DEF IInv, Held, Embeds
  <2>3. Embeds(buf', stream', Base')
    <3>1. ASSUME NEW k \in 1..(Len(buf) + n) PROVE buf'[k] = stream[Base + k]
      <4>1. CASE k <= Len(buf)
        BY <1>1, <1>5, <2>1, <4>1
      <4>2. CASE ~(k <= Len(buf))
        <5>1. /\ k - Len(buf) \in 1..Len(todo)
              /\ Base + Len(buf) + (k - Len(buf)) = Base + k
          BY <1>1, <1>2, <1>7, <4>2
        <5> QED BY <1>5, <2>2, <4>2, <5>1
      <4> QED BY <4>1, <4>2
    <3> QED BY <1>1, <1>2, <1>3, <1>5, <1>7, <1>8, <3>1 DEF Embeds
  <2>4. Embeds(todo', stream', Base' + Len(buf'))
    <3>1. ASSUME NEW k \in 1..(Len(todo) - n)
          PROVE  todo'[k] = stream[Base' + Len(buf') + k]
      <4>1. n + k \in 1..Len(todo) /\ Base + Len(buf) + (n + k) = Base' + Len(buf') + k
        BY <1>1, <1>2, <1>5, <1>7, <1>8
      <4> QED BY <1>6, <2>2, <4>1
    <3>2. Base' + Len(buf') \in Nat /\ Base' + Len(buf') + Len(todo') <= Len(stream)
      BY <1>1, <1>2, <1>5, <1>6, <1>7, <1>8
    <3>3. stream' = stream
      BY <1>3
    <3> QED BY <1>6, <3>1, <3>2, <3>3 DEF Embeds
  <2>5. Base' + Len(buf') + Len(todo') = Len(stream')
    <3>1. Len(stream') = Len(stream)
      BY <1>3
    <3>2. Len(buf') = Len(buf) + n /\ Len(todo') = Len(todo) - n /\ Base' = Base
      BY <1>5, <1>6, <1>8
    <3>3. /\ Len(buf) \in Nat /\ Len(todo) \in Nat /\ n \in Nat /\ Base \in Nat
          /\ Base + Len(buf) + Len(todo) = Len(stream)
      BY <1>1, <1>2, <1>7
    <3>4. Base + (Len(buf) + n) + (Len(todo) - n) = Len(stream)
      BY <3>3
    <3> QED BY <3>1, <3>2, <3>4
  <2> QED BY <2>3, <2>4, <2>5 DEF Held
<1>11. Returned'
  BY <1>3, <1>7, <1>8, ReturnedKept DEF IInv
<1>12. Gone'
  BY <1>3, <1>8 DEF IInv, Gone
<1>13. RetainedBounded'
  BY <1>3 DEF RetainedBounded
<1> QED BY <1>9, <1>10, <1>11, <1>12, <1>13 DEF IInv

(* The same in the next state. *)
LEMMA RoomPrimed ==
    ASSUME TypeOK', (Len(buf) < Overhead + MaxPayload)'
    PROVE  Overflow' = 0
<1>1. Len(buf') \in Nat /\ Len(todo') \in Nat
  BY DEF TypeOK
<1>2. Piece' \in Nat /\ Piece' <= ChunkMax
  BY <1>1, Numbers DEF Piece
<1>3. Len(buf') + Piece' <= BufMax
  BY <1>1, <1>2, Numbers
<1> QED BY <1>1, <1>2, <1>3, Numbers DEF Overflow

-----------------------------------------------------------------------------
(* A pass that finds no header keeps at most half of one. *)
LEMMA NoHeaderStep == ASSUME IInv, NoHeader PROVE IInv'
<1> DEFINE n == Len(buf) - Kept
<1>1. /\ buf \in Seq(Byte) /\ Len(buf) \in Nat /\ TypeOK /\ Held /\ Gone
      /\ Headers(buf) = {}
      /\ todo' = todo /\ stream' = stream /\ packets' = packets
      /\ draining' = FALSE /\ discardedFrames' = discardedFrames
      /\ Cut(n) /\ discardedBytes' = discardedBytes + n
  BY DEF IInv, TypeOK, NoHeader, Drop
<1>2. /\ Kept \in {0, 1} /\ Kept <= Len(buf)
      /\ Kept = 0 => (buf = <<>> \/ buf[Len(buf)] # H1)
  BY <1>1, EmptySeq DEF Kept, Last
<1>3. n \in 0..Len(buf) /\ n \in Nat /\ Len(buf) - n = Kept
  BY <1>1, <1>2
<1> HIDE DEF n
<1>4. /\ buf' \in Seq(Byte) /\ Len(buf') = Len(buf) - n
      /\ Base \in Nat /\ Base' = Base + n /\ Held'
  BY <1>1, <1>3, CutFacts
<1>5. TypeOK'
  <2>1. discardedBytes \in Nat /\ discardedBytes' \in Nat
    BY <1>1, <1>3 DEF TypeOK
  <2> QED BY <1>1, <1>4, <2>1 DEF TypeOK
<1>6. ASSUME NEW j \in 1..n PROVE Dead(buf, j)
  <2>1. CASE j < Len(buf)
    <3>1. j \notin Headers(buf) /\ j \in 1..Len(buf)
      BY <1>1, <1>3, <2>1
    <3> QED BY <2>1, <3>1 DEF Headers, Dead
  <2>2. CASE ~(j < Len(buf))
    <3>1. j = Len(buf) /\ Kept = 0 /\ buf # <<>>
      BY <1>1, <1>2, <1>3, <2>2, EmptySeq
    <3> QED BY <1>2, <3>1 DEF Dead
  <2> QED BY <2>1, <2>2
<1>7. Len(packets) \in Nat
  BY <1>1 DEF TypeOK
<1>8. Gone'
  BY <1>1, <1>3, <1>6, <1>7, CutGone
<1>9. Returned'
  <2>1. Base' \in Nat /\ Base <= Base'
    BY <1>3, <1>4
  <2> QED BY <1>1, <1>4, <2>1, ReturnedKept DEF IInv
<1>10. RetainedBounded'
  <2>1. Len(buf') < Overhead + MaxPayload
    BY <1>1, <1>2, <1>3, <1>4, Numbers
  <2> QED BY <1>5, <2>1, RoomPrimed DEF RetainedBounded
<1> QED BY <1>4, <1>5, <1>8, <1>9, <1>10 DEF IInv

(* Bytes given up in front of, or with, the first byte of a candidate. *)
LEMMA DropStep ==
    ASSUME IInv, NEW i \in 1..Len(buf), First(i), NEW n \in {i - 1, i},
           n = i => Dead(buf, i),
           Drop(n), UNCHANGED <<todo, packets, stream>>,
           discardedFrames' \in Nat, draining' \in BOOLEAN
    PROVE  /\ TypeOK' /\ Held' /\ Returned' /\ Gone'
           /\ Len(buf') = Len(buf) - n
<1>1. /\ buf \in Seq(Byte) /\ Len(buf) \in Nat /\ TypeOK /\ Held /\ Gone
      /\ n \in 0..Len(buf) /\ n \in Nat /\ Len(packets) \in Nat
      /\ Cut(n) /\ discardedBytes' = discardedBytes + n
  BY DEF IInv, TypeOK, Drop
<1>2. /\ buf' \in Seq(Byte) /\ Len(buf') = Len(buf) - n
      /\ Base \in Nat /\ Base' = Base + n /\ Held'
  BY <1>1, CutFacts
<1>3. TypeOK'
  BY <1>1, <1>2 DEF TypeOK
<1>4. ASSUME NEW j \in 1..n PROVE Dead(buf, j)
  <2>1. CASE j \in 1..(i - 1)
    BY <1>1, <2>1, Junk
  <2>2. CASE j \notin 1..(i - 1)
    <3>1. j = i /\ n = i
      BY <2>2
    <3> QED BY <3>1
  <2> QED BY <2>1, <2>2
<1>5. Gone'
  BY <1>1, <1>4, CutGone
<1>6. Base' \in Nat /\ Base <= Base'
  BY <1>1, <1>2
<1>7. Returned'
  BY <1>1, <1>2, <1>6, ReturnedKept DEF IInv
<1> QED BY <1>2, <1>3, <1>5, <1>7

(* A pass that waits for more bytes holds less than a frame. *)
LEMMA WaitStep == ASSUME IInv, NEW i \in 1..Len(buf), Wait(i) PROVE IInv'
<1>1. /\ First(i) /\ Drop(i - 1) /\ draining' = FALSE
      /\ UNCHANGED <<todo, packets, stream>> /\ discardedFrames' = discardedFrames
      /\ ~TooLong(buf, i) /\ ~Whole(buf, i)
  BY DEF Wait
<1>2. /\ buf \in Seq(Byte) /\ Len(buf) \in Nat /\ discardedFrames \in Nat
  BY DEF IInv, TypeOK
<1>3. i - 1 \in {i - 1, i} /\ ~(i - 1 = i)
  OBVIOUS
<1>4. /\ TypeOK' /\ Held' /\ Returned' /\ Gone'
      /\ Len(buf') = Len(buf) - (i - 1)
  <2>1. draining' \in BOOLEAN /\ discardedFrames' \in Nat
    BY <1>1, <1>2
  <2> QED BY <1>1, <1>3, <2>1, DropStep
<1>5. Len(buf') < Overhead + MaxPayload
  <2>1. CASE ~Known(buf, i)
    BY <1>2, <1>4, <2>1, Numbers DEF Known
  <2>2. CASE Known(buf, i)
    <3>1. i + LenAt - 1 \in 1..Len(buf)
      BY <1>2, <2>2, Numbers DEF Known
    <3>2. Payload(buf, i) \in Nat
      BY <1>2, <3>1, ElementOfSeq, Numbers DEF Payload
    <3>3. ~(Payload(buf, i) > MaxPayload) /\ ~(i + Size(buf, i) <= Len(buf) + 1)
      BY <1>1, <2>2 DEF TooLong, Whole
    <3> QED BY <1>2, <1>4, <3>2, <3>3, Numbers DEF Size
  <2> QED BY <2>1, <2>2
<1>6. RetainedBounded'
  BY <1>4, <1>5, RoomPrimed DEF RetainedBounded
<1> QED BY <1>4, <1>6 DEF IInv

LEMMA RefuseStep ==
    ASSUME IInv, NEW i \in 1..Len(buf), Refuse(i)
    PROVE  IInv' /\ Len(buf') < Len(buf)
<1>1. /\ First(i) /\ Drop(i) /\ draining' = draining /\ draining
      /\ UNCHANGED <<todo, packets, stream>>
      /\ discardedFrames' = discardedFrames + 1
      /\ TooLong(buf, i) \/ (Whole(buf, i) /\ ~Accepts(Frame(buf, i)))
  BY DEF Refuse, Refused
<1>2. Dead(buf, i)
  BY <1>1 DEF Dead
<1>3. /\ Len(buf) \in Nat /\ discardedFrames' \in Nat /\ draining' \in BOOLEAN
  BY <1>1 DEF IInv, TypeOK
<1>4. /\ TypeOK' /\ Held' /\ Returned' /\ Gone' /\ Len(buf') = Len(buf) - i
  <2>1. i \in {i - 1, i}
    OBVIOUS
  <2> QED BY <1>1, <1>2, <1>3, <2>1, DropStep
<1>5. RetainedBounded'
  BY <1>1 DEF RetainedBounded
<1> QED BY <1>3, <1>4, <1>5 DEF IInv

(* A frame moves from the buffer to the packets. *)
LEMMA EmitStep ==
    ASSUME IInv, NEW i \in 1..Len(buf), Emit(i)
    PROVE  IInv' /\ Len(buf') < Len(buf)
<1> DEFINE z == Size(buf, i)
           n == i + z - 1
           m == Len(packets)
           new == [at |-> Base + i, len |-> z]
<1>1. /\ First(i) /\ Whole(buf, i) /\ Accepts(Frame(buf, i))
      /\ draining /\ draining' = draining
      /\ packets' = Append(packets, new) /\ Cut(n)
      /\ discardedBytes' = discardedBytes + (i - 1)
      /\ todo' = todo /\ stream' = stream /\ discardedFrames' = discardedFrames
  BY DEF Emit, Taken, Skipped
<1>2. /\ buf \in Seq(Byte) /\ stream \in Seq(Byte) /\ Len(buf) \in Nat
      /\ packets \in Seq([at : Nat, len : Nat]) /\ m \in Nat
      /\ TypeOK /\ Held /\ Gone /\ Embeds(buf, stream, Base) /\ Base \in Nat
      /\ discardedBytes \in Nat
  BY DEF IInv, TypeOK, Held, Embeds
<1>3. FrameAt(buf, i)
  BY <1>1 DEF First, FrameAt
<1>4. /\ FrameAt(stream, Base + i) /\ Size(stream, Base + i) = z
      /\ z \in Nat /\ z >= Overhead /\ i + z <= Len(buf) + 1
  BY <1>1, <1>2, <1>3, FrameKept, CandidateKept
<1> HIDE DEF z
<1>5. z > 0 /\ n \in 0..Len(buf) /\ n \in Nat /\ n > 0 /\ i <= n
  BY <1>2, <1>4, Numbers
<1> HIDE DEF n
<1>6. /\ buf' \in Seq(Byte) /\ Len(buf') = Len(buf) - n
      /\ Base' = Base + n /\ Held'
  BY <1>1, <1>2, <1>5, CutFacts
<1>7. new \in [at : Nat, len : Nat] /\ new.at = Base + i /\ new.len = z
  BY <1>2, <1>4
<1> HIDE DEF new
<1>8. /\ packets' \in Seq([at : Nat, len : Nat]) /\ Len(packets') = m + 1
      /\ packets'[m + 1] = new /\ \A k \in 1..m : packets'[k] = packets[k]
  BY <1>1, <1>2, <1>7, AppendProperties
<1> HIDE DEF m
<1>9. TypeOK'
  <2>1. discardedBytes' \in Nat
    BY <1>1, <1>2
  <2> QED BY <1>1, <1>2, <1>6, <1>8, <2>1 DEF TypeOK
<1>10. Gone'
  <2>1. ASSUME NEW j \in 1..n
        PROVE  \/ Dead(buf, j)
               \/ \E k \in 1..Len(packets') : Covers(packets'[k], Base + j)
    <3>1. CASE j \in 1..(i - 1)
      BY <1>1, <1>2, <3>1, Junk
    <3>2. CASE j \notin 1..(i - 1)
      <4>1. Base + i <= Base + j /\ Base + j < (Base + i) + z
        BY <1>2, <1>4, <1>5, <3>2 DEF n
      <4>2. Covers(packets'[m + 1], Base + j)
        BY <1>7, <1>8, <4>1 DEF Covers
      <4>3. m + 1 \in 1..Len(packets')
        BY <1>2, <1>8
      <4> QED BY <4>2, <4>3
    <3> QED BY <3>1, <3>2
  <2>2. Len(packets) <= Len(packets') /\ Len(packets') \in Nat
    BY <1>2, <1>8 DEF m
  <2>3. \A k \in 1..Len(packets) : packets'[k] = packets[k]
    BY <1>8 DEF m
  <2> QED BY <1>1, <1>2, <1>5, <2>1, <2>2, <2>3, CutGone
<1>11. Returned'
  <2>1. ASSUME NEW k \in 1..m
        PROVE  /\ packets[k].at \in Nat /\ packets[k].len \in Nat
               /\ FrameAt(stream, packets[k].at)
               /\ packets[k].len = Size(stream, packets[k].at)
               /\ packets[k].at + packets[k].len <= Base + 1
    <3>1. packets[k] \in [at : Nat, len : Nat]
      BY <1>2, ElementOfSeq DEF m
    <3> QED BY <3>1 DEF IInv, Returned, PacketsAreFrames, m
  <2>2. ASSUME NEW k \in 1..(m + 1)
        PROVE  /\ FrameAt(stream, packets'[k].at)
               /\ packets'[k].len = Size(stream, packets'[k].at)
               /\ packets'[k].at + packets'[k].len <= Base' + 1
    <3>1. CASE k \in 1..m
      <4>1. packets'[k] = packets[k]
        BY <1>8, <3>1
      <4>2. packets[k].at + packets[k].len <= (Base + n) + 1
        <5>1. Base \in Nat /\ n \in Nat /\ Base + 1 <= (Base + n) + 1
          BY <1>2, <1>5
        <5>2. /\ packets[k].at + packets[k].len <= Base + 1
              /\ packets[k].at + packets[k].len \in Nat
          BY <2>1, <3>1
        <5> QED BY <5>1, <5>2
      <4> QED BY <1>6, <2>1, <3>1, <4>1, <4>2
    <3>2. CASE k = m + 1
      <4>1. (Base + i) + z <= (Base + n) + 1
        BY <1>2, <1>4, <1>5 DEF n
      <4> QED BY <1>4, <1>6, <1>7, <1>8, <3>2, <4>1
    <3> QED BY <1>2, <3>1, <3>2
  <2>3. ASSUME NEW k \in 1..(m + 1), NEW l \in 1..(m + 1), k < l
        PROVE  packets'[k].at + packets'[k].len <= packets'[l].at
    <3>1. k \in 1..m /\ packets'[k] = packets[k]
      <4>1. k \in 1..m
        BY <1>2, <2>3
      <4> QED BY <1>8, <4>1
    <3>2. CASE l \in 1..m
      <4>1. packets'[l] = packets[l]
        BY <1>8, <3>2
      <4>2. packets[k].at + packets[k].len <= packets[l].at
        BY <2>3, <3>1, <3>2 DEF IInv, Returned, PacketsAreFrames, m
      <4> QED BY <3>1, <4>1, <4>2
    <3>3. CASE l = m + 1
      <4>1. packets[k].at + packets[k].len <= Base + 1 /\ Base + 1 <= Base + i
        BY <1>2, <2>1, <3>1
      <4>2. /\ packets[k].at \in Nat /\ packets[k].len \in Nat
        BY <2>1, <3>1
      <4>3. packets[k].at + packets[k].len <= Base + i
        <5> DEFINE a == packets[k].at
                   b == packets[k].len
                   e == a + b
        <5>1. e \in Nat
          <6>1. a \in Nat /\ b \in Nat
            BY <4>2
          <6> HIDE DEF a, b
          <6> QED BY <6>1
        <5>4. Base \in Nat
          BY <1>2
        <5>5. i \in Nat
          BY <1>2
        <5>2. e <= Base + 1 /\ Base + 1 <= Base + i
          BY <4>1
        <5> HIDE DEF e
        <5>3. e <= Base + i
          BY <5>1, <5>2, <5>4, <5>5
        <5> QED BY <5>3 DEF e
      <4> QED BY <1>7, <1>8, <3>1, <3>3, <4>3
    <3> QED BY <1>2, <3>2, <3>3
  <2>4. PacketsAreFrames'
    BY <1>1, <1>8, <2>2, <2>3 DEF PacketsAreFrames
  <2> QED BY <1>8, <2>2, <2>4 DEF Returned
<1>12. RetainedBounded'
  BY <1>1 DEF RetainedBounded
<1>13. Len(buf') < Len(buf)
  BY <1>2, <1>5, <1>6
<1> QED BY <1>6, <1>9, <1>10, <1>11, <1>12, <1>13 DEF IInv

LEMMA Nothing ==
    /\ Len(<<>>) = 0 /\ <<>> \in Seq(Byte) /\ <<>> \in Seq([at : Nat, len : Nat])
    /\ 0 - 0 - 0 = 0 /\ 0 \in Nat /\ FALSE \in BOOLEAN
BY EmptySeq

(* A new decoder. *)
LEMMA NewStep ==
    ASSUME buf' = <<>>, todo' = <<>>, stream' = <<>>, packets' = <<>>,
           discardedBytes' = 0, discardedFrames' = 0, draining' = FALSE
    PROVE  IInv'
<1>1. /\ Len(buf') = 0 /\ Len(todo') = 0 /\ Len(stream') = 0 /\ Len(packets') = 0
      /\ Base' = 0
  BY Nothing DEF Base
<1>2. TypeOK'
  BY Nothing DEF TypeOK
<1>3. Held'
  BY <1>1 DEF Held, Embeds
<1>4. Returned' /\ Gone'
  BY <1>1 DEF Returned, PacketsAreFrames, Gone
<1>5. RetainedBounded'
  <2>1. (Len(buf) < Overhead + MaxPayload)'
    BY <1>1, Numbers
  <2> QED BY <1>2, <2>1, RoomPrimed DEF RetainedBounded
<1> QED BY <1>2, <1>3, <1>4, <1>5 DEF IInv

LEMMA InitIInv == Init => IInv
<1> SUFFICES ASSUME Init PROVE IInv
  OBVIOUS
<1>1. /\ Len(buf) = 0 /\ Len(todo) = 0 /\ Len(stream) = 0 /\ Len(packets) = 0
      /\ Base = 0
  BY Nothing DEF Base, Init
<1>2. TypeOK
  BY Nothing DEF Init, TypeOK
<1>3. Held
  BY <1>1 DEF Held, Embeds
<1>4. Returned /\ Gone
  BY <1>1 DEF Returned, PacketsAreFrames, Gone
<1>5. RetainedBounded
  BY <1>1, <1>2, Room, Numbers DEF RetainedBounded
<1> QED BY <1>2, <1>3, <1>4, <1>5 DEF IInv

LEMMA NextIInv ==
    ASSUME IInv, [Next]_vars
    PROVE  IInv' /\ (draining /\ draining' /\ vars' # vars => Len(buf') < Len(buf))
<1>1. CASE Callback
  <2>1. PICK n \in 1..MaxCallback : \E data \in [1..n -> Byte] : Feed(data)
    BY <1>1 DEF Callback
  <2>2. PICK data \in [1..n -> Byte] : Feed(data)
    BY <2>1
  <2>3. data \in Seq(Byte)
    BY DecoderAssumption
  <2> QED BY <2>2, <2>3, FeedStep DEF Feed
<1>2. CASE Extend
  BY <1>2, ExtendStep DEF Extend
<1>3. CASE NoHeader
  BY <1>3, NoHeaderStep DEF NoHeader
<1>4. ASSUME NEW i \in 1..Len(buf), Wait(i)
      PROVE  IInv' /\ (draining' => Len(buf') < Len(buf))
  BY <1>4, WaitStep DEF Wait
<1>5. ASSUME NEW i \in 1..Len(buf), Refuse(i)
      PROVE  IInv' /\ (draining' => Len(buf') < Len(buf))
  BY <1>5, RefuseStep
<1>6. ASSUME NEW i \in 1..Len(buf), Emit(i)
      PROVE  IInv' /\ (draining' => Len(buf') < Len(buf))
  BY <1>6, EmitStep
<1>7. CASE NewSession
  BY <1>7, NewStep DEF NewSession, IInv, TypeOK
<1>8. CASE vars' = vars
  BY <1>8 DEF vars, IInv, TypeOK, Held, Embeds, Base, Returned, PacketsAreFrames,
     FrameAt, Headers, Whole, Known, TooLong, Payload, Size, Frame, Gone, Dead,
     Covers, RetainedBounded, Overflow, Piece
<1> QED BY <1>1, <1>2, <1>3, <1>4, <1>5, <1>6, <1>7, <1>8 DEF Next, Drain

(* The inductive invariant holds in every reachable state. *)
LEMMA Inductive == Spec => []IInv
<1>1. IInv /\ [Next]_vars => IInv'
  BY NextIInv
<1> QED BY InitIInv, <1>1, PTL DEF Spec

-----------------------------------------------------------------------------
(* Every variable keeps its type. *)
THEOREM DecoderTypeCorrect == Spec => []TypeOK
<1>1. IInv => TypeOK
  BY DEF IInv
<1> QED BY <1>1, Inductive, PTL

(* What the decoder returns are frames of the stream, in order and disjoint. *)
THEOREM ReturnsFrames == Spec => []PacketsAreFrames
<1>1. IInv => PacketsAreFrames
  BY DEF IInv, Returned
<1> QED BY <1>1, Inductive, PTL

(* No frame is lost to noise, to a refused candidate, to the limits, or to the
   way callbacks cut the stream. *)
THEOREM LosesNoFrame == Spec => []NoFrameLost
<1>1. IInv => NoFrameLost
  <2> SUFFICES ASSUME IInv, NEW s \in 1..Base, FrameAt(stream, s)
               PROVE  \E k \in 1..Len(packets) : Covers(packets[k], s)
    BY DEF NoFrameLost
  <2>1. /\ s \in 1..Len(stream) /\ stream \in Seq(Byte)
    BY DEF FrameAt, Headers, IInv, TypeOK
  <2>2. ~Dead(stream, s)
    BY <2>1, DeadIsNoFrame
  <2> QED BY <2>2 DEF IInv, Gone
<1> QED BY <1>1, Inductive, PTL

(* The buffer holds less than a frame when the next piece arrives, and feed
   never trims it. *)
THEOREM NeverTrims == Spec => []RetainedBounded
<1>1. IInv => RetainedBounded
  BY DEF IInv
<1> QED BY <1>1, Inductive, PTL

(* The loop of _drain_buffer ends. *)
THEOREM LoopEnds == Spec => DrainShrinks
<1>1. IInv /\ [Next]_vars => [draining /\ draining' => Len(buf') < Len(buf)]_vars
  BY NextIInv
<1> QED BY <1>1, Inductive, PTL DEF Spec, DrainShrinks

-----------------------------------------------------------------------------
(* How the stream was cut does not show. *)

(* The induction that the proofs about scans need: a set of numbers has a least. *)
LEMMA LeastNumber ==
    ASSUME NEW T, T \subseteq Nat, T # {}
    PROVE  \E m \in T : \A n \in T : m <= n
<1> DEFINE TT == {1..n : n \in T}
<1>1. TT \subseteq FiniteSubsetsOf(Nat)
  <2>1. \A n \in Nat : IsFiniteSet(1..n) /\ 1..n \subseteq Nat
    BY FS_Interval
  <2> QED BY <2>1 DEF FiniteSubsetsOf
<1>2. TT # {}
  OBVIOUS
<1>3. PICK x \in TT : \A y \in TT : ~(<<y, x>> \in StrictSubsetOrdering(Nat))
  <2> HIDE DEF TT
  <2>1. IsWellFoundedOn(StrictSubsetOrdering(Nat), FiniteSubsetsOf(Nat))
    BY FS_StrictSubsetOrderingWellFounded
  <2> QED BY <1>1, <1>2, <2>1, WFMin, Zenon
<1>4. PICK m \in T : x = 1..m
  OBVIOUS
<1>5. ASSUME NEW n \in T, n < m PROVE FALSE
  <2>1. 1..n \subseteq Nat /\ 1..m \subseteq Nat
    OBVIOUS
  <2>2. 1..n \subseteq 1..m /\ m \in 1..m /\ m \notin 1..n
    BY <1>5
  <2>3. <<1..n, 1..m>> \in StrictSubsetOrdering(Nat)
    BY <2>1, <2>2 DEF StrictSubsetOrdering
  <2> QED BY <1>3, <1>4, <2>3
<1> QED BY <1>5

(* A place holds a candidate of positive size inside s, or none. *)
LEMMA WholeBounds ==
    ASSUME NEW s \in Seq(Byte), NEW p \in 1..Len(s), Whole(s, p)
    PROVE  /\ Size(s, p) \in Nat /\ Size(s, p) > 0
           /\ p + Size(s, p) \in (p + 1)..(Len(s) + 1)
<1>1. Embeds(s, s, 0)
  BY DEF Embeds
<1>2. /\ Size(s, p) \in Nat /\ Size(s, p) >= Overhead
      /\ p + Size(s, p) <= Len(s) + 1
  BY <1>1, CandidateKept
<1> QED BY <1>2, Numbers

(* What a scan finds from a place on depends on later places only. *)
LEMMA ScanLooksAhead ==
    ASSUME NEW s \in Seq(Byte), NEW p \in 1..(Len(s) + 1), NEW f, NEW g,
           \A q \in (p + 1)..(Len(s) + 1) : f[q] = g[q]
    PROVE  ScanFrom(s, f, p) = ScanFrom(s, g, p)
<1>1. CASE p \notin Headers(s) /\ p < Len(s)
  <2>1. p + 1 \in (p + 1)..(Len(s) + 1)
    BY <1>1
  <2> QED BY <1>1, <2>1 DEF ScanFrom
<1>2. CASE p \in Headers(s)
  <2>1. p \in 1..Len(s) /\ p + 1 \in (p + 1)..(Len(s) + 1)
    BY <1>2 DEF Headers
  <2>2. f[p + 1] = g[p + 1]
    BY <2>1
  <2>3. Whole(s, p) => f[p + Size(s, p)] = g[p + Size(s, p)]
    BY <2>1, WholeBounds
  <2>4. ~(Whole(s, p) /\ TooLong(s, p))
    BY DEF Whole
  <2> QED BY <1>2, <2>2, <2>3, <2>4 DEF ScanFrom
<1>3. CASE p \notin Headers(s) /\ ~(p < Len(s))
  BY <1>3 DEF ScanFrom
<1> QED BY <1>1, <1>2, <1>3

(* The scan is defined: the recursion ends at the end of s. *)
LEMMA ScanDefined ==
    ASSUME NEW s \in Seq(Byte)
    PROVE  \A p \in 1..(Len(s) + 1) : Scan(s)[p] = ScanFrom(s, Scan(s), p)
<1> DEFINE n == Len(s) + 1
           Upto(f, k) == \A p \in (n + 1 - k)..n : f[p] = ScanFrom(s, f, p)
           T == {k \in 0..n : ~ \E f : Upto(f, k)}
<1>1. n \in Nat
  OBVIOUS
<1>2. T = {}
  <2> SUFFICES ASSUME T # {} PROVE FALSE
    OBVIOUS
  <2>1. PICK k \in T : \A j \in T : k <= j
    <3>1. T \subseteq Nat
      OBVIOUS
    <3> HIDE DEF T
    <3> QED BY <3>1, LeastNumber
  <2>2. k # 0
    <3>1. \A p \in (n + 1 - 0)..n : FALSE
      BY <1>1
    <3>2. Upto(s, 0)
      BY <3>1
    <3>3. (\E f : Upto(f, k)) \/ k # 0
      BY <3>2
    <3>4. ~ \E f : Upto(f, k)
      OBVIOUS
    <3> QED BY <3>3, <3>4
  <2>3. k - 1 \in 0..n /\ k - 1 \notin T
    <3>1. k - 1 \in 0..n /\ ~(k <= k - 1)
      BY <1>1, <2>2
    <3> HIDE DEF T
    <3> QED BY <2>1, <3>1
  <2>4. PICK f : Upto(f, k - 1)
    BY <2>3
  <2> DEFINE a == n + 1 - k
             g == [q \in 1..n |-> IF q = a THEN ScanFrom(s, f, a) ELSE f[q]]
  <2>5. k \in 1..n /\ a \in 1..n
    BY <2>1, <2>2
  <2>6. ASSUME NEW p \in a..n PROVE g[p] = ScanFrom(s, g, p)
    <3>1. p \in 1..n /\ p \in 1..(Len(s) + 1)
      BY <2>5
    <3>2. \A q \in (p + 1)..(Len(s) + 1) : g[q] = f[q]
      BY <2>5, <3>1
    <3> HIDE DEF g
    <3>3. ScanFrom(s, g, p) = ScanFrom(s, f, p)
      BY <3>1, <3>2, ScanLooksAhead
    <3>4. CASE p = a
      BY <2>5, <3>3, <3>4 DEF g
    <3>5. CASE p # a
      <4>1. p \in (n + 1 - (k - 1))..n
        BY <2>5, <3>5
      <4>2. f[p] = ScanFrom(s, f, p)
        BY <2>4, <4>1
      <4> QED BY <3>1, <3>3, <3>5, <4>2 DEF g
    <3> QED BY <3>4, <3>5
  <2> HIDE DEF g
  <2>7. Upto(g, k)
    BY <2>6
  <2> QED BY <2>1, <2>7
<1>3. PICK f : \A p \in 1..n : f[p] = ScanFrom(s, f, p)
  <2>1. n \notin T /\ n \in 0..n
    BY <1>1, <1>2
  <2>2. PICK f : Upto(f, n)
    BY <2>1
  <2>3. n + 1 - n = 1
    BY <1>1
  <2> QED BY <2>2, <2>3
<1> DEFINE h == [p \in 1..n |-> f[p]]
<1>4. h = [p \in 1..n |-> ScanFrom(s, h, p)]
  <2>1. ASSUME NEW p \in 1..n PROVE f[p] = ScanFrom(s, h, p)
    <3>1. \A q \in (p + 1)..(Len(s) + 1) : f[q] = h[q]
      OBVIOUS
    <3> HIDE DEF h
    <3>2. ScanFrom(s, f, p) = ScanFrom(s, h, p)
      BY <3>1, ScanLooksAhead
    <3> QED BY <1>3, <3>2
  <2> HIDE DEF n
  <2> QED BY <2>1
<1> HIDE DEF h
<1>5. Scan(s) = CHOOSE scan : scan = [p \in 1..n |-> ScanFrom(s, scan, p)]
  BY DEF Scan
<1> HIDE DEF n
<1>6. Scan(s) = [p \in 1..n |-> ScanFrom(s, Scan(s), p)]
  BY <1>4, <1>5
<1>7. \A p \in 1..n : Scan(s)[p] = ScanFrom(s, Scan(s), p)
  BY <1>6
<1> QED BY <1>7 DEF n

LEMMA SplitFirst ==
    ASSUME NEW E, NEW q \in Seq(E), NEW k \in 1..Len(q)
    PROVE  <<q[k]>> \o SubSeq(q, k + 1, Len(q)) = SubSeq(q, k, Len(q))
<1> DEFINE n == Len(q)
           t == SubSeq(q, k + 1, n)
           u == SubSeq(q, k, n)
<1>1. n \in Nat /\ \A j \in 1..n : q[j] \in E
  BY ElementOfSeq
<1>2. /\ t \in Seq(E) /\ Len(t) = n - k
      /\ \A j \in 1..(n - k) : t[j] = q[k + j]
  <2>1. \A j \in (k + 1)..n : q[j] \in E
    BY <1>1
  <2>2. /\ t \in Seq(E)
        /\ Len(t) = IF k + 1 <= n THEN n - (k + 1) + 1 ELSE 0
        /\ \A j \in 1..(n - (k + 1) + 1) : t[j] = q[(k + 1) + j - 1]
    BY <1>1, <2>1, SubSeqProperties
  <2> HIDE DEF t
  <2> QED BY <1>1, <2>2
<1>3. /\ u \in Seq(E) /\ Len(u) = n - k + 1
      /\ \A j \in 1..(n - k + 1) : u[j] = q[k + j - 1]
  <2>1. \A j \in k..n : q[j] \in E
    BY <1>1
  <2> QED BY <1>1, <2>1, SubSeqProperties
<1> HIDE DEF t, u
<1>4. /\ <<q[k]>> \o t \in Seq(E) /\ Len(<<q[k]>> \o t) = n - k + 1
      /\ \A j \in 1..(n - k + 1) :
            (<<q[k]>> \o t)[j] = IF j <= 1 THEN <<q[k]>>[j] ELSE t[j - 1]
  <2> DEFINE one == <<q[k]>>
  <2>1. one \in Seq(E) /\ Len(one) = 1
    BY <1>1
  <2>2. 1 + (n - k) = n - k + 1
    BY <1>1
  <2> HIDE DEF one, n
  <2>3. /\ one \o t \in Seq(E) /\ Len(one \o t) = n - k + 1
        /\ \A j \in 1..(n - k + 1) :
              (one \o t)[j] = IF j <= 1 THEN one[j] ELSE t[j - 1]
    <3>1. t \in Seq(E) /\ Len(t) = n - k
      BY <1>2
    <3>2. /\ one \o t \in Seq(E) /\ Len(one \o t) = Len(one) + Len(t)
          /\ \A j \in 1..(Len(one) + Len(t)) :
                (one \o t)[j] = IF j <= Len(one) THEN one[j] ELSE t[j - Len(one)]
      BY <2>1, <3>1, ConcatProperties
    <3> QED BY <2>1, <2>2, <3>1, <3>2
  <2> QED BY <2>3 DEF one
<1>5. ASSUME NEW j \in 1..(n - k + 1) PROVE (<<q[k]>> \o t)[j] = u[j]
  <2>1. CASE j = 1
    BY <1>1, <1>3, <1>4, <2>1
  <2>2. CASE j # 1
    <3>1. j - 1 \in 1..(n - k) /\ k + (j - 1) = k + j - 1 /\ ~(j <= 1)
      BY <1>1, <2>2
    <3>2. t[j - 1] = q[k + (j - 1)]
      BY <1>2, <3>1
    <3> QED BY <1>3, <1>4, <3>1, <3>2
  <2> QED BY <2>1, <2>2
<1>6. <<q[k]>> \o t = u
  BY <1>3, <1>4, <1>5, SeqEqual
<1> QED BY <1>6 DEF t, u

(* If every place up to b is dead or in one of the packets pk, which are frames
   of s in order that end there, and the scan stops behind b, then it finds pk. *)
LEMMA ScanFinds ==
    ASSUME NEW s \in Seq(Byte), NEW pk \in Seq([at : Nat, len : Nat]), NEW b \in Nat,
           b <= Len(s),
           \A k \in 1..Len(pk) : /\ FrameAt(s, pk[k].at)
                                 /\ pk[k].len = Size(s, pk[k].at)
                                 /\ pk[k].at + pk[k].len <= b + 1,
           \A k, l \in 1..Len(pk) : k < l => pk[k].at + pk[k].len <= pk[l].at,
           \A p \in 1..b : Dead(s, p) \/ \E k \in 1..Len(pk) : Covers(pk[k], p),
           Scan(s)[b + 1] = <<>>
    PROVE  Scan(s)[1] = pk
<1> DEFINE n == Len(pk)
           at == [j \in 1..n |-> pk[j].at]
           end == [j \in 1..n |-> pk[j].at + pk[j].len]
           Between(k, p) == /\ \A j \in 1..(k - 1) : end[j] <= p
                            /\ \A j \in k..n : p <= at[j]
           Finds(p) == \A k \in 1..(n + 1) :
                         Between(k, p) => Scan(s)[p] = SubSeq(pk, k, n)
           T == {m \in 0..b : ~Finds(b + 1 - m)}
<1>1. Len(s) \in Nat /\ n \in Nat
  OBVIOUS
<1>2. ASSUME NEW k \in 1..n
      PROVE  /\ at[k] \in 1..b /\ end[k] \in (at[k] + 1)..(b + 1)
             /\ end[k] = at[k] + Size(s, at[k])
             /\ pk[k] = [at |-> at[k], len |-> Size(s, at[k])]
             /\ at[k] \in Headers(s) /\ Whole(s, at[k])
             /\ ~TooLong(s, at[k]) /\ Accepts(Frame(s, at[k]))
             /\ \A p : Covers(pk[k], p) <=> at[k] <= p /\ p < end[k]
  <2>1. pk[k] \in [at : Nat, len : Nat]
    BY <1>2, ElementOfSeq
  <2>2. /\ at[k] = pk[k].at /\ end[k] = pk[k].at + pk[k].len
        /\ at[k] \in Nat /\ pk[k].len \in Nat
    BY <2>1
  <2>3. /\ at[k] \in Headers(s) /\ Whole(s, at[k]) /\ ~TooLong(s, at[k])
        /\ Accepts(Frame(s, at[k])) /\ pk[k].len = Size(s, at[k])
    BY <2>2 DEF FrameAt, Whole
  <2>4. at[k] \in 1..Len(s)
    BY <2>3 DEF Headers
  <2>5. pk[k].len > 0
    BY <2>3, <2>4, WholeBounds
  <2>6. end[k] <= b + 1
    BY <2>2
  <2>7. at[k] \in 1..b /\ end[k] \in (at[k] + 1)..(b + 1)
    <3> DEFINE a == at[k]
               e == end[k]
               l == pk[k].len
    <3>1. a \in Nat /\ a >= 1 /\ l \in Nat /\ l > 0 /\ e = a + l /\ e <= b + 1
      BY <2>2, <2>4, <2>5, <2>6
    <3> HIDE DEF a, e, l
    <3>2. a \in 1..b /\ e \in (a + 1)..(b + 1)
      BY <3>1
    <3> QED BY <3>2 DEF a, e
  <2>8. pk[k] = [at |-> at[k], len |-> Size(s, at[k])]
    BY <2>1, <2>2, <2>3
  <2>9. \A p : Covers(pk[k], p) <=> at[k] <= p /\ p < end[k]
    BY <2>2 DEF Covers
  <2> QED BY <2>2, <2>3, <2>7, <2>8, <2>9
<1>20. ASSUME NEW k \in 1..n, NEW l \in 1..n, k < l PROVE end[k] <= at[l]
  BY <1>20
<1>21. ASSUME NEW p \in 1..b
       PROVE  Dead(s, p) \/ \E k \in 1..n : at[k] <= p /\ p < end[k]
  BY <1>2
<1>22. /\ \A k \in 1..n : at[k] \in 1..b /\ end[k] \in (at[k] + 1)..(b + 1)
      /\ n \in Nat /\ Len(s) \in Nat
  BY <1>1, <1>2
<1> HIDE DEF at, end, n
<1>3. Finds(b + 1)
  <2> SUFFICES ASSUME NEW k \in 1..(n + 1), Between(k, b + 1)
               PROVE  <<>> = SubSeq(pk, k, n)
    OBVIOUS
  <2>1. ASSUME k \in 1..n PROVE FALSE
    <3>1. b + 1 <= at[k] /\ at[k] \in 1..b
      BY <1>22, <2>1
    <3> QED BY <3>1
  <2>2. k = n + 1
    BY <1>22, <2>1
  <2> QED BY <1>22, <2>2 DEF n
<1>4. ASSUME NEW p \in 1..b, \A q \in (p + 1)..(b + 1) : Finds(q)
      PROVE  Finds(p)
  <2> SUFFICES ASSUME NEW k \in 1..(n + 1), Between(k, p)
               PROVE  Scan(s)[p] = SubSeq(pk, k, n)
    OBVIOUS
  <2>1. p \in 1..(Len(s) + 1) /\ p \in 1..Len(s)
    BY <1>22
  <2>2. Scan(s)[p] = ScanFrom(s, Scan(s), p)
    BY <2>1, ScanDefined
  <2>3. CASE k \in 1..n /\ p = at[k]
    <3> DEFINE q == p + Size(s, p)
    <3>1. q = end[k] /\ q \in (p + 1)..(b + 1)
      BY <1>2, <2>3
    <3>2. Between(k + 1, q)
      <4>1. ASSUME NEW j \in 1..((k + 1) - 1) PROVE end[j] <= q
        <5>1. CASE j = k
          BY <3>1, <5>1
        <5>2. CASE j < k
          <6>1. j \in 1..(k - 1) /\ j \in 1..n
            BY <1>22, <2>3, <5>2
          <6>2. end[j] <= p /\ end[j] \in Nat
            BY <1>22, <2>3, <6>1
          <6> QED BY <3>1, <6>2
        <5> QED BY <5>1, <5>2
      <4>2. ASSUME NEW j \in (k + 1)..n PROVE q <= at[j]
        <5>1. j \in 1..n /\ k < j
          OBVIOUS
        <5> QED BY <1>20, <2>3, <3>1, <5>1
      <4> QED BY <4>1, <4>2
    <3>3. Scan(s)[q] = SubSeq(pk, k + 1, n)
      <4>1. k + 1 \in 1..(n + 1)
        BY <1>22, <2>3
      <4> QED BY <1>4, <3>1, <3>2, <4>1
    <3>4. ScanFrom(s, Scan(s), p) = <<pk[k]>> \o Scan(s)[q]
      BY <1>2, <2>3 DEF ScanFrom
    <3>5. <<pk[k]>> \o SubSeq(pk, k + 1, n) = SubSeq(pk, k, n)
      BY <1>22, <2>3, SplitFirst DEF n
    <3> QED BY <2>2, <3>3, <3>4, <3>5
  <2>4. CASE ~(k \in 1..n /\ p = at[k])
    <3>1. ASSUME NEW j \in k..n PROVE p + 1 <= at[j]
      <4>1. p <= at[j] /\ j \in 1..n
        OBVIOUS
      <4>2. CASE j = k
        BY <1>22, <2>4, <4>1, <4>2
      <4>3. CASE j # k
        <5>1. k \in 1..n /\ k < j
          BY <1>22, <4>1, <4>3
        <5>2. end[k] <= at[j] /\ p <= at[k]
          BY <1>20, <4>1, <5>1
        <5>3. /\ at[k] \in 1..b /\ end[k] \in (at[k] + 1)..(b + 1)
              /\ at[j] \in 1..b
          BY <1>22, <4>1, <5>1
        <5> QED BY <5>2, <5>3
      <4> QED BY <4>2, <4>3
    <3>2. ASSUME NEW j \in 1..n, at[j] <= p, p < end[j] PROVE FALSE
      <4>1. CASE j < k
        <5>1. j \in 1..(k - 1)
          BY <4>1
        <5> QED BY <1>22, <3>2, <5>1
      <4>2. CASE ~(j < k)
        BY <1>22, <3>1, <3>2, <4>2
      <4> QED BY <4>1, <4>2
    <3>3. Dead(s, p)
      BY <1>21, <3>2
    <3>4. Between(k, p + 1)
      <4>1. ASSUME NEW j \in 1..(k - 1) PROVE end[j] <= p + 1
        <5>1. j \in 1..n /\ end[j] <= p
          BY <1>22
        <5>2. end[j] \in Nat /\ p \in Nat
          <6>1. at[j] \in 1..b /\ end[j] \in (at[j] + 1)..(b + 1)
            BY <1>22, <5>1
          <6> QED BY <6>1
        <5> QED BY <5>1, <5>2
      <4> QED BY <3>1, <4>1
    <3>5. p + 1 \in (p + 1)..(b + 1)
      OBVIOUS
    <3>6. Scan(s)[p + 1] = SubSeq(pk, k, n)
      BY <1>4, <3>4, <3>5
    <3>7. CASE ScanFrom(s, Scan(s), p) = Scan(s)[p + 1]
      BY <2>2, <3>6, <3>7
    <3>8. CASE p \notin Headers(s) /\ ~(p < Len(s))
      <4>1. ScanFrom(s, Scan(s), p) = <<>>
        BY <3>8 DEF ScanFrom
      <4>2. p = b /\ k \notin 1..n
        <5>1. p = b
          BY <1>22, <3>8
        <5>2. ASSUME k \in 1..n PROVE FALSE
          <6>1. p + 1 <= at[k] /\ at[k] \in 1..b
            BY <1>22, <3>1, <5>2
          <6> QED BY <5>1, <6>1
        <5> QED BY <5>1, <5>2
      <4>3. Scan(s)[p + 1] = <<>>
        BY <4>2
      <4> QED BY <2>2, <3>6, <4>1, <4>3
    <3>9. CASE p \notin Headers(s) /\ p < Len(s)
      BY <3>7, <3>9 DEF ScanFrom
    <3>10. CASE p \in Headers(s)
      <4>1. s[p] = H1 /\ s[p + 1] = H2 /\ p < Len(s)
        BY <3>10 DEF Headers
      <4>2. TooLong(s, p) \/ (Whole(s, p) /\ ~Accepts(Frame(s, p)))
        BY <3>3, <4>1 DEF Dead
      <4>3. ~(Whole(s, p) /\ TooLong(s, p))
        BY DEF Whole
      <4> QED BY <3>7, <3>10, <4>1, <4>2, <4>3 DEF ScanFrom
    <3> QED BY <3>8, <3>9, <3>10
  <2> QED BY <2>3, <2>4
<1> HIDE DEF Finds
<1>5. T = {}
  <2> SUFFICES ASSUME T # {} PROVE FALSE
    OBVIOUS
  <2>1. PICK m \in T : \A j \in T : m <= j
    <3>1. T \subseteq Nat
      OBVIOUS
    <3> HIDE DEF T
    <3> QED BY <3>1, LeastNumber
  <2>2. m \in 0..b /\ ~Finds(b + 1 - m)
    OBVIOUS
  <2>3. m # 0
    <3>1. m = 0 => b + 1 - m = b + 1
      OBVIOUS
    <3> QED BY <1>3, <2>2, <3>1
  <2>4. b + 1 - m \in 1..b
    BY <2>2, <2>3
  <2>5. ASSUME NEW q \in (b + 1 - m + 1)..(b + 1) PROVE Finds(q)
    <3>1. b + 1 - q \in 0..b /\ ~(m <= b + 1 - q) /\ b + 1 - (b + 1 - q) = q
      BY <2>2
    <3>2. b + 1 - q \notin T
      BY <2>1, <3>1
    <3>3. Finds(b + 1 - (b + 1 - q))
      BY <3>1, <3>2
    <3> QED BY <3>1, <3>3
  <2> QED BY <1>4, <2>2, <2>4, <2>5
<1>6. Finds(1)
  <2>1. b \in 0..b /\ b + 1 - b = 1
    OBVIOUS
  <2>2. Finds(b + 1 - b)
    BY <1>5, <2>1
  <2> QED BY <2>1, <2>2
<1>7. Scan(s)[1] = SubSeq(pk, 1, n)
  <2>1. Between(1, 1)
    <3>1. \A j \in 1..(1 - 1) : FALSE
      OBVIOUS
    <3>2. \A j \in 1..n : 1 <= at[j]
      BY <1>22
    <3> QED BY <3>1, <3>2
  <2>2. 1 \in 1..(n + 1)
    BY <1>22
  <2> QED BY <1>6, <2>1, <2>2 DEF Finds
<1> QED BY <1>7, SubSeqFull DEF n

-----------------------------------------------------------------------------
(* At rest the buffer is empty, half a header, or begins a candidate that is
   not complete. *)
AtRest ==
    \/ Len(buf) <= 1
    \/ 1 \in Headers(buf) /\ ~TooLong(buf, 1) /\ ~Whole(buf, 1)

(* What has left the buffer outside packets is counted. *)
Counted == discardedBytes = Cardinality(Unclaimed)

Settled == (~draining => AtRest) /\ Counted

(* Removing n more bytes that are no packet's, or a packet after them. *)
LEMMA CountStep ==
    ASSUME IInv, Counted, NEW n \in Nat, Base' \in Nat, Base + n <= Base',
           Len(packets) <= Len(packets'), Len(packets') \in Nat,
           \A k \in 1..Len(packets) : packets'[k] = packets[k],
           \A k \in 1..Len(packets') : k \notin 1..Len(packets) =>
               packets'[k].at = Base + n + 1 /\ packets'[k].at + packets'[k].len = Base' + 1,
           Base + n < Base' => \E k \in 1..Len(packets') : k \notin 1..Len(packets),
           discardedBytes' = discardedBytes + n
    PROVE  Counted'
<1> DEFINE More == (Base + 1)..(Base + n)
<1>1. /\ Base \in Nat /\ Len(packets) \in Nat
  BY DEF IInv, Held, Embeds, TypeOK
<1>2. ASSUME NEW k \in 1..Len(packets)
      PROVE  packets[k].at \in Nat /\ packets[k].len \in Nat
             /\ packets[k].at + packets[k].len <= Base + 1
  <2>1. packets[k] \in [at : Nat, len : Nat]
    BY ElementOfSeq DEF IInv, TypeOK
  <2> QED BY <2>1 DEF IInv, Returned
<1>3. ASSUME NEW s \in Nat
      PROVE  s \in Unclaimed' <=> s \in Unclaimed \cup More
  <2>1. ASSUME s <= Base, NEW k \in 1..Len(packets'), Covers(packets'[k], s)
        PROVE  k \in 1..Len(packets) /\ Covers(packets[k], s)
    <3>1. k \in 1..Len(packets)
      <4>1. k \notin 1..Len(packets) => ~(packets'[k].at <= s)
        BY <1>1, <2>1
      <4> QED BY <2>1, <4>1 DEF Covers
    <3> QED BY <2>1, <3>1
  <2>2. CASE s <= Base
    <3>1. s \notin More
      BY <1>1, <2>2
    <3>2. (\E k \in 1..Len(packets) : Covers(packets[k], s))
             <=> (\E k \in 1..Len(packets') : Covers(packets'[k], s))
      <4>1. \A k \in 1..Len(packets) : k \in 1..Len(packets')
        BY <1>1
      <4> QED BY <2>1, <2>2, <4>1
    <3>3. s \in 1..Base <=> s \in 1..Base'
      BY <1>1, <2>2
    <3> QED BY <3>1, <3>2, <3>3 DEF Unclaimed
  <2>3. CASE s > Base /\ s <= Base + n
    <3>1. s \in More /\ s \in 1..Base'
      BY <1>1, <2>3
    <3>2. ASSUME NEW k \in 1..Len(packets') PROVE ~Covers(packets'[k], s)
      <4>1. CASE k \in 1..Len(packets)
        BY <1>1, <1>2, <2>3, <4>1 DEF Covers
      <4>2. CASE k \notin 1..Len(packets)
        BY <1>1, <2>3, <4>2 DEF Covers
      <4> QED BY <4>1, <4>2
    <3> QED BY <3>1, <3>2 DEF Unclaimed
  <2>4. CASE s > Base + n
    <3>1. s \notin More /\ s \notin 1..Base
      BY <1>1, <2>4
    <3>2. CASE s > Base'
      BY <1>1, <3>1, <3>2 DEF Unclaimed
    <3>3. CASE s <= Base'
      <4>1. Base + n < Base'
        BY <1>1, <2>4, <3>3
      <4>2. PICK k \in 1..Len(packets') : k \notin 1..Len(packets)
        BY <4>1
      <4>3. packets'[k].at <= s /\ s < packets'[k].at + packets'[k].len
        BY <1>1, <2>4, <3>3, <4>2
      <4> QED BY <3>1, <4>3 DEF Unclaimed, Covers
    <3> QED BY <1>1, <3>2, <3>3
  <2> QED BY <1>1, <2>2, <2>3, <2>4
<1>4. Unclaimed' = Unclaimed \cup More
  <2>1. \A s \in Unclaimed' : s \in Nat
    BY DEF Unclaimed
  <2>2. \A s \in Unclaimed \cup More : s \in Nat
    BY <1>1 DEF Unclaimed
  <2> HIDE DEF More
  <2> QED BY <1>3, <2>1, <2>2
<1>5. IsFiniteSet(Unclaimed) /\ Unclaimed \cap More = {}
  <2>1. Unclaimed \subseteq 1..Base /\ IsFiniteSet(1..Base)
    <3>1. IsFiniteSet(1..Base)
      BY <1>1, FS_Interval
    <3>2. Unclaimed \subseteq 1..Base
      BY DEF Unclaimed
    <3> QED BY <3>1, <3>2
  <2>2. IsFiniteSet(Unclaimed)
    BY <2>1, FS_Subset
  <2>3. (1..Base) \cap More = {}
    BY <1>1
  <2> QED BY <2>1, <2>2, <2>3
<1>6. IsFiniteSet(More) /\ Cardinality(More) = n
  <2>1. Base + 1 \in Int /\ Base + n \in Int
    BY <1>1
  <2>2. /\ IsFiniteSet(More)
        /\ Cardinality(More) =
              IF Base + 1 > Base + n THEN 0 ELSE (Base + n) - (Base + 1) + 1
    BY <2>1, FS_Interval
  <2> QED BY <1>1, <2>2
<1>7. Cardinality(Unclaimed') = Cardinality(Unclaimed) + n
  <2> HIDE DEF More
  <2>1. /\ Cardinality(Unclaimed \cup More) =
             Cardinality(Unclaimed) + Cardinality(More) - Cardinality(Unclaimed \cap More)
        /\ Cardinality(Unclaimed) \in Nat
    BY <1>5, <1>6, FS_Union, FS_CardinalityType
  <2>2. Cardinality(Unclaimed \cap More) = 0
    BY <1>5, FS_EmptySet
  <2> QED BY <1>4, <1>6, <2>1, <2>2
<1> QED BY <1>7 DEF Counted

(* Dropping n bytes. *)
LEMMA CountDrop ==
    ASSUME IInv, Counted, NEW n \in 0..Len(buf), Drop(n), UNCHANGED <<todo, packets, stream>>
    PROVE  Counted'
<1>1. /\ Base \in Nat /\ Base' = Base + n /\ Len(packets) \in Nat
      /\ n \in Nat /\ Len(packets') = Len(packets)
  BY CutFacts DEF IInv, TypeOK, Drop
<1>2. discardedBytes' = discardedBytes + n /\ packets' = packets
  BY DEF Drop
<1>3. Base + n <= Base' /\ Base' \in Nat /\ ~(Base + n < Base')
  BY <1>1
<1> QED BY <1>1, <1>2, <1>3, CountStep

LEMMA NothingUnclaimed ==
    ASSUME Base' = 0, discardedBytes' = 0 PROVE Counted'
<1>1. Unclaimed' = {}
  BY DEF Unclaimed
<1> QED BY <1>1, FS_EmptySet DEF Counted

(* A piece moves from the rest of the callback to the buffer. *)
LEMMA ExtendBase == ASSUME IInv, IInv', Extend PROVE Base' = Base
<1>1. /\ buf \in Seq(Byte) /\ todo \in Seq(Byte) /\ ~draining /\ todo # <<>>
      /\ Len(buf) \in Nat /\ Len(todo) \in Nat /\ Len(stream) \in Nat
  BY DEF IInv, TypeOK, Extend
<1>2. Overflow = 0 /\ Piece \in Nat /\ Piece <= Len(todo)
  BY <1>1, Room DEF IInv, RetainedBounded
<1>3. Len(todo') = Len(todo) - Piece
  <2>1. \A j \in (Piece + 1)..Len(todo) : todo[j] \in Byte
    BY <1>1, <1>2, ElementOfSeq
  <2>2. Len(SubSeq(todo, Piece + 1, Len(todo))) =
          IF Piece + 1 <= Len(todo) THEN Len(todo) - (Piece + 1) + 1 ELSE 0
    BY <1>1, <1>2, <2>1, SubSeqProperties
  <2>3. todo' = SubSeq(todo, Piece + 1, Len(todo))
    BY DEF Extend
  <2> QED BY <1>1, <1>2, <2>2, <2>3
<1>4. Len(buf') = Len(buf) + Piece
  <2> DEFINE c == buf \o SubSeq(todo, 1, Piece)
  <2>1. \A j \in 1..Piece : todo[j] \in Byte
    BY <1>1, <1>2, ElementOfSeq
  <2>2. SubSeq(todo, 1, Piece) \in Seq(Byte) /\ Len(SubSeq(todo, 1, Piece)) = Piece
    BY <1>2, <2>1, SubSeqProperties
  <2>3. c \in Seq(Byte) /\ Len(c) = Len(buf) + Piece
    BY <1>1, <2>2, ConcatProperties
  <2> HIDE DEF c
  <2>4. SubSeq(c, 1, Len(c)) = c
    BY <2>3, SubSeqFull
  <2>5. buf' = SubSeq(c, 1, Len(buf) + Piece)
    BY <1>2 DEF Extend, c
  <2> QED BY <2>3, <2>4, <2>5
<1>5. stream' = stream
  BY DEF Extend
<1> QED BY <1>1, <1>2, <1>3, <1>4, <1>5 DEF Base

LEMMA SettledStep == ASSUME IInv, IInv', Settled, [Next]_vars PROVE Settled'
<1>1. /\ Base \in Nat /\ Len(buf) \in Nat /\ Len(packets) \in Nat
      /\ buf \in Seq(Byte)
  <2>1. TypeOK /\ Base \in Nat
    BY DEF IInv, Held, Embeds
  <2> QED BY <2>1 DEF TypeOK
<1>2. CASE Callback
  <2>1. PICK n \in 1..MaxCallback : \E data \in [1..n -> Byte] : Feed(data)
    BY <1>2 DEF Callback
  <2>2. PICK data \in [1..n -> Byte] : Feed(data)
    BY <2>1
  <2>3. data \in Seq(Byte)
    BY DecoderAssumption
  <2>4. /\ buf' = buf /\ draining' = draining /\ packets' = packets
        /\ discardedBytes' = discardedBytes /\ todo = <<>> /\ todo' = data
        /\ stream' = stream \o data /\ stream \in Seq(Byte)
    BY <2>2 DEF Feed, IInv, TypeOK
  <2>5. Base' = Base
    <3>1. Len(stream') = Len(stream) + Len(data) /\ Len(todo) = 0
          /\ Len(stream) \in Nat /\ Len(data) \in Nat
      BY <2>3, <2>4, ConcatProperties, EmptySeq
    <3> QED BY <1>1, <2>4, <3>1 DEF Base
  <2> QED BY <2>4, <2>5 DEF Settled, AtRest, Headers, TooLong, Whole, Known, Payload,
             Size, Counted, Unclaimed
<1>3. CASE Extend
  <2>1. /\ draining' = TRUE /\ packets' = packets /\ stream' = stream
        /\ discardedBytes' = discardedBytes + Overflow /\ ~draining
    BY <1>3 DEF Extend
  <2>2. Overflow = 0 /\ discardedBytes \in Nat
    BY <2>1 DEF IInv, RetainedBounded, TypeOK
  <2>3. Base' = Base
    BY <1>3, ExtendBase
  <2> QED BY <2>1, <2>2, <2>3 DEF Settled, Counted, Unclaimed
<1>4. CASE NoHeader
  <2> DEFINE n == Len(buf) - Kept
  <2>1. /\ Kept \in {0, 1} /\ Kept <= Len(buf)
    BY <1>1, EmptySeq DEF Kept
  <2>2. n \in 0..Len(buf) /\ Len(buf) - n = Kept
    BY <1>1, <2>1
  <2>3. /\ Drop(n) /\ UNCHANGED <<todo, packets, stream>>
    BY <1>4 DEF NoHeader
  <2> HIDE DEF n
  <2>4. Counted'
    BY <2>2, <2>3, CountDrop DEF Settled
  <2>5. Len(buf') = Kept
    BY <2>2, <2>3, CutFacts DEF Drop, IInv
  <2> QED BY <2>1, <2>4, <2>5 DEF Settled, AtRest
<1>5. ASSUME NEW i \in 1..Len(buf), Wait(i) PROVE Settled'
  <2>1. /\ First(i) /\ Drop(i - 1) /\ UNCHANGED <<todo, packets, stream>>
        /\ ~TooLong(buf, i) /\ ~Whole(buf, i)
    BY <1>5 DEF Wait
  <2>2. i - 1 \in 0..Len(buf) /\ i - 1 \in Nat
    BY <1>1
  <2>3. Counted'
    BY <2>1, <2>2, CountDrop DEF Settled
  <2>4. i < Len(buf) /\ buf[i] = H1 /\ buf[i + 1] = H2
    BY <2>1 DEF First, Headers
  <2>5. /\ buf' \in Seq(Byte) /\ Len(buf') = Len(buf) - (i - 1)
        /\ \A k \in 1..Len(buf') : buf'[k] = buf[i - 1 + k]
    <3>1. \A j \in i..Len(buf) : buf[j] \in Byte
      BY <1>1, ElementOfSeq
    <3>2. buf' = SubSeq(buf, i, Len(buf))
      BY <1>1, <2>1 DEF Drop, Cut
    <3>3. /\ SubSeq(buf, i, Len(buf)) \in Seq(Byte)
          /\ Len(SubSeq(buf, i, Len(buf))) = IF i <= Len(buf) THEN Len(buf) - i + 1 ELSE 0
          /\ \A k \in 1..(Len(buf) - i + 1) :
               SubSeq(buf, i, Len(buf))[k] = buf[i + k - 1]
      BY <1>1, <3>1, SubSeqProperties
    <3>4. buf' \in Seq(Byte) /\ Len(buf') = Len(buf) - (i - 1)
      BY <1>1, <3>2, <3>3
    <3>5. ASSUME NEW k \in 1..Len(buf') PROVE buf'[k] = buf[i - 1 + k]
      <4>1. k \in 1..(Len(buf) - i + 1) /\ i + k - 1 = i - 1 + k
        BY <1>1, <3>4
      <4> QED BY <3>2, <3>3, <4>1
    <3> QED BY <3>4, <3>5
  <2>6. Embeds(buf', buf, i - 1)
    BY <1>1, <2>2, <2>5 DEF Embeds
  <2>7. 1 \in 1..Len(buf') /\ 2 \in 1..Len(buf') /\ i - 1 + 1 = i /\ i - 1 + 2 = i + 1
    BY <1>1, <2>4, <2>5
  <2>8. 1 \in Headers(buf')
    BY <2>4, <2>5, <2>7 DEF Headers
  <2>9. ~TooLong(buf', 1) /\ ~Whole(buf', 1)
    BY <1>1, <2>1, <2>2, <2>5, <2>6, <2>7, CandidateKept
  <2> QED BY <2>3, <2>8, <2>9 DEF Settled, AtRest
<1>6. ASSUME NEW i \in 1..Len(buf), Refuse(i) PROVE Settled'
  <2>1. /\ Drop(i) /\ draining' /\ UNCHANGED <<todo, packets, stream>>
    BY <1>6 DEF Refuse, Refused
  <2>2. i \in 0..Len(buf)
    OBVIOUS
  <2> QED BY <2>1, <2>2, CountDrop DEF Settled
<1>7. ASSUME NEW i \in 1..Len(buf), Emit(i) PROVE Settled'
  <2> DEFINE z == Size(buf, i)
             new == [at |-> Base + i, len |-> z]
             m == Len(packets)
  <2>1. /\ draining' /\ packets' = Append(packets, new) /\ Whole(buf, i)
        /\ Cut(i + z - 1) /\ UNCHANGED <<todo, stream>>
        /\ discardedBytes' = discardedBytes + (i - 1)
    BY <1>7 DEF Emit, Taken, Skipped
  <2>2. z \in Nat /\ z > 0 /\ i + z \in (i + 1)..(Len(buf) + 1)
    BY <1>1, <2>1, WholeBounds
  <2> HIDE DEF z
  <2>3. i + z - 1 \in 0..Len(buf)
    BY <1>1, <2>2
  <2>4. Base' = Base + (i + z - 1)
    BY <2>1, <2>3, CutFacts DEF IInv
  <2>5. new \in [at : Nat, len : Nat] /\ new.at = Base + i /\ new.len = z
    BY <1>1, <2>2
  <2> HIDE DEF new
  <2>6. /\ Len(packets') = m + 1 /\ packets'[m + 1] = new
        /\ \A k \in 1..m : packets'[k] = packets[k]
    BY <1>1, <2>1, <2>5, AppendProperties DEF IInv, TypeOK
  <2>7. \A k \in 1..Len(packets') : k \notin 1..Len(packets) => k = m + 1
    BY <1>1, <2>6
  <2>8. /\ Base' \in Nat /\ i - 1 \in Nat /\ Base + (i - 1) <= Base'
        /\ Base + (i - 1) + 1 = Base + i /\ (Base + i) + z = Base' + 1
    BY <1>1, <2>2, <2>4
  <2>9. /\ m <= Len(packets') /\ Len(packets') \in Nat
        /\ m + 1 \in 1..Len(packets') /\ m + 1 \notin 1..m
    BY <1>1, <2>6
  <2>10. Counted'
    BY <2>1, <2>5, <2>6, <2>7, <2>8, <2>9, CountStep DEF Settled
  <2> QED BY <2>1, <2>10 DEF Settled
<1>8. CASE NewSession
  <2>1. buf' = <<>> /\ packets' = <<>> /\ discardedBytes' = 0 /\ stream' = <<>>
        /\ todo' = <<>>
    BY <1>8 DEF NewSession
  <2>2. Base' = 0 /\ Len(buf') = 0
    BY <2>1, Nothing DEF Base
  <2> QED BY <2>1, <2>2, NothingUnclaimed DEF Settled, AtRest
<1>9. CASE vars' = vars
  BY <1>9 DEF vars, Settled, AtRest, Headers, TooLong, Whole, Known, Payload,
             Size, Counted, Unclaimed, Base
<1> QED BY <1>2, <1>3, <1>4, <1>5, <1>6, <1>7, <1>8, <1>9 DEF Next, Drain

(* However callbacks cut the stream, between them what was returned is what one
   scan of all its bytes finds, and the other bytes are held or counted. *)
THEOREM CutsAreInvisible == Spec => []CutsDoNotShow
<1>1. Init => Settled
  <2> SUFFICES ASSUME Init PROVE Settled
    OBVIOUS
  <2>1. Len(buf) = 0 /\ Base = 0 /\ discardedBytes = 0
    BY Nothing DEF Init, Base
  <2>2. Unclaimed = {}
    BY <2>1 DEF Unclaimed
  <2>3. Counted
    BY <2>1, <2>2, FS_EmptySet DEF Counted
  <2> QED BY <2>1, <2>3 DEF Settled, AtRest
<1>2. IInv /\ IInv' /\ Settled /\ [Next]_vars => Settled'
  BY SettledStep
<1>3. IInv /\ Settled => CutsDoNotShow
  <2> SUFFICES ASSUME IInv, Settled, ~draining, todo = <<>>
               PROVE  packets = Scan(stream)[1] /\ Counted
    BY DEF CutsDoNotShow, Counted
  <2>1. /\ buf \in Seq(Byte) /\ stream \in Seq(Byte) /\ Base \in Nat
        /\ packets \in Seq([at : Nat, len : Nat]) /\ Len(buf) \in Nat
        /\ Embeds(buf, stream, Base) /\ Len(stream) \in Nat
    BY DEF IInv, TypeOK, Held, Embeds
  <2>2. Base + Len(buf) = Len(stream)
    <3>1. Len(todo) = 0 /\ Base + Len(buf) + Len(todo) = Len(stream)
      BY EmptySeq DEF IInv, Held
    <3> QED BY <2>1, <3>1
  <2>3. Scan(stream)[Base + 1] = <<>>
    <3>1. Base + 1 \in 1..(Len(stream) + 1)
      BY <2>1, <2>2
    <3>2. Scan(stream)[Base + 1] = ScanFrom(stream, Scan(stream), Base + 1)
      BY <2>1, <3>1, ScanDefined
    <3>3. CASE Len(buf) <= 1
      <4>1. Base + 1 \notin Headers(stream) /\ ~(Base + 1 < Len(stream))
        BY <2>1, <2>2, <3>3 DEF Headers
      <4> QED BY <3>2, <4>1 DEF ScanFrom
    <3>4. CASE 1 \in Headers(buf) /\ ~TooLong(buf, 1) /\ ~Whole(buf, 1)
      <4>1. 1 < Len(buf) /\ buf[1] = H1 /\ buf[2] = H2
        BY <3>4 DEF Headers
      <4>2. buf[1] = stream[Base + 1] /\ buf[2] = stream[Base + 2]
        <5>1. 1 \in 1..Len(buf) /\ 2 \in 1..Len(buf)
          BY <2>1, <4>1
        <5> QED BY <2>1, <5>1 DEF Embeds
      <4>3. Base + 1 \in Headers(stream)
        BY <2>1, <2>2, <4>1, <4>2 DEF Headers
      <4>4. Known(stream, Base + 1) <=> Known(buf, 1)
        BY <2>1, <2>2, Numbers DEF Known
      <4>5. Known(buf, 1) => Payload(buf, 1) = Payload(stream, Base + 1)
                             /\ Payload(buf, 1) \in Nat
        <5> SUFFICES ASSUME Known(buf, 1)
                     PROVE  /\ Payload(buf, 1) = Payload(stream, Base + 1)
                            /\ Payload(buf, 1) \in Nat
          OBVIOUS
        <5>1. LenAt \in 1..Len(buf) /\ 1 + LenAt - 1 = LenAt
              /\ Base + 1 + LenAt - 1 = Base + LenAt
          BY <2>1, Numbers DEF Known
        <5>2. buf[LenAt] = stream[Base + LenAt] /\ buf[LenAt] \in Byte
          BY <2>1, <5>1, ElementOfSeq DEF Embeds
        <5> QED BY <5>1, <5>2, Numbers DEF Payload
      <4>6. ~TooLong(stream, Base + 1) /\ ~Whole(stream, Base + 1)
        BY <2>1, <2>2, <3>4, <4>4, <4>5, Numbers DEF TooLong, Whole, Size
      <4> QED BY <3>2, <4>3, <4>6 DEF ScanFrom
    <3> QED BY <3>3, <3>4 DEF Settled, AtRest
  <2>4. /\ \A k \in 1..Len(packets) : /\ FrameAt(stream, packets[k].at)
                                      /\ packets[k].len = Size(stream, packets[k].at)
                                      /\ packets[k].at + packets[k].len <= Base + 1
        /\ \A k, l \in 1..Len(packets) :
              k < l => packets[k].at + packets[k].len <= packets[l].at
        /\ \A p \in 1..Base : Dead(stream, p)
                              \/ \E k \in 1..Len(packets) : Covers(packets[k], p)
        /\ Base <= Len(stream)
    <3>1. Base <= Len(stream)
      BY <2>1, <2>2
    <3>2. PacketsAreFrames
          /\ \A k \in 1..Len(packets) : packets[k].at + packets[k].len <= Base + 1
      BY DEF IInv, Returned
    <3>3. Gone
      BY DEF IInv
    <3> HIDE DEF IInv
    <3> QED BY <3>1, <3>2, <3>3 DEF PacketsAreFrames, Gone
  <2>5. packets = Scan(stream)[1]
    BY <2>1, <2>3, <2>4, ScanFinds
  <2> QED BY <2>5 DEF Settled
<1> QED BY <1>1, <1>2, <1>3, Inductive, PTL DEF Spec

-----------------------------------------------------------------------------
(* Control frames. *)

(* What a command asks of a report, as a reading. *)
Asked(raw, field, v) ==
    IF group = "output" THEN [F!Decode(raw) EXCEPT ![field] = v]
    ELSE IF field = "none" THEN F!Decode(raw)
    ELSE F!UpdatedSettings(F!Decode(raw), field, v)

(* The field and value of a command. *)
Request(field, v) ==
    \/ group = "output" /\ field \in F!Fields.output /\ v \in BOOLEAN
    \/ group = "settings" /\ field = "none"
    \/ group = "settings" /\ field \in F!Fields.settings /\ v \in F!SettingsValues[field]

GroupOK   == group \in {"output", "settings"} /\ gate \in {"open", "pending", "ambiguous"}
ReadingOK == reading = NoReading \/ \E raw \in F!Raw : reading = F!Decode(raw)

(* A frame says what its command asked of a plausible report, and so does the *)
(* transaction that waits for it.                                              *)
FrameOK ==
    frame # NoFrame =>
        /\ frame.base \in F!Raw /\ F!Plausible(F!Decode(frame.base))
        /\ Request(frame.field, frame.value)
        /\ LET t == Asked(frame.base, frame.field, frame.value) IN
             /\ frame.flags = IF group = "output" THEN F!EncodeOutput(t) ELSE t.raw.flags
             /\ frame.hours = t.raw.hours
             /\ gate = "pending" => target = t

Inv == GroupOK /\ device \in F!Raw /\ ReadingOK /\ FrameOK

(* What a plausible report becomes when a settings command is obeyed. *)
LEMMA SettingsChanged ==
    ASSUME F!ControlAssumption, group = "settings", NEW raw \in F!Raw,
           F!Plausible(F!Decode(raw)),
           NEW field, NEW v, Request(field, v)
    PROVE  LET t == Asked(raw, field, v) IN
           /\ t = F!Decode(t.raw) /\ F!Plausible(t)
           /\ t.raw \in F!Raw
           /\ t.raw.flags \ F!KnownBits["settings"] = raw.flags \ F!KnownBits["settings"]
           /\ \A f \in F!Fields["settings"] : t[f] = IF f = field THEN v ELSE F!Decode(raw)[f]
<1> DEFINE t == Asked(raw, field, v)
           r == F!Decode(raw)
<1>1. /\ r = F!DecodeSettings(raw) /\ r.raw = raw /\ r.hours = raw.hours
      /\ raw.flags \subseteq Bits /\ raw.hours \in Hours
  BY DEF F!Decode, F!DecodeSettings, F!Raw
<1>2. F!ModeOf(raw.flags) # Reserved /\ raw.hours \in F!ValidEcoTimeouts
  BY <1>1 DEF F!Plausible, F!DecodeSettings
<1>3. CASE field = "none"
  <2>1. t = r
    BY <1>3 DEF Asked
  <2> QED
    BY <1>1, <1>2, <1>3, <2>1 DEF F!Plausible, F!DecodeSettings, F!Fields, F!Decode
<1>4. CASE field \in F!Fields.settings /\ v \in F!SettingsValues[field]
  <2> DEFINE flags == CASE field = "eco"  -> F!SetMask(raw.flags, 0, v)
                        [] field = "car"  -> F!SetMask(raw.flags, 4, v)
                        [] field = "mode" -> F!NewMode(raw.flags, v)
                        [] OTHER          -> raw.flags
             hours == IF field = "hours" THEN v ELSE raw.hours
             n == [flags |-> flags, hours |-> hours]
  <2>1. t = F!DecodeSettings(n)
    BY <1>1, <1>4 DEF Asked, F!UpdatedSettings, F!Fields
  <2>2. field \in {"eco", "mode", "car", "hours"}
    BY <1>4 DEF F!Fields
  <2>3. /\ field = "eco" \/ field = "car" => v \in BOOLEAN
        /\ field = "mode" => v \in F!Modes
        /\ field = "hours" => v \in F!ValidEcoTimeouts /\ v \in Hours
    BY <1>4, <2>2 DEF F!SettingsValues
  <2>4. /\ flags \subseteq Bits /\ hours \in Hours /\ hours \in F!ValidEcoTimeouts
        /\ flags \ {0, 1, 2, 4} = raw.flags \ {0, 1, 2, 4}
    BY <1>1, <1>2, <2>2, <2>3 DEF F!SetMask, F!NewMode, F!ControlAssumption
  <2>5. /\ (0 \in flags) = IF field = "eco" THEN v ELSE (0 \in raw.flags)
        /\ (4 \in flags) = IF field = "car" THEN v ELSE (4 \in raw.flags)
    BY <2>2, <2>3 DEF F!SetMask, F!NewMode
  <2>6. /\ F!ModeOf(flags) = IF field = "mode" THEN v ELSE F!ModeOf(raw.flags)
        /\ F!ModeOf(flags) # Reserved
    <3>1. CASE field = "mode"
      <4>1. flags = (raw.flags \ {1, 2}) \cup ({1, 2} \cap {v}) /\ v \in {0, 1, 2}
        BY <2>3, <3>1 DEF F!NewMode, F!Modes
      <4>2. (1 \in flags <=> v = 1) /\ (2 \in flags <=> v = 2)
        BY <4>1
      <4> HIDE DEF flags
      <4>3. F!ModeOf(flags) = v
        BY <4>1, <4>2 DEF F!ModeOf
      <4> QED
        BY <3>1, <4>1, <4>3 DEF F!ControlAssumption
    <3>2. CASE field # "mode"
      <4>1. (1 \in flags <=> 1 \in raw.flags) /\ (2 \in flags <=> 2 \in raw.flags)
        BY <2>2, <2>3, <3>2 DEF F!SetMask
      <4> HIDE DEF flags
      <4>2. F!ModeOf(flags) = F!ModeOf(raw.flags)
        BY <4>1 DEF F!ModeOf
      <4> QED
        BY <1>2, <3>2, <4>2
    <3> QED
      BY <3>1, <3>2
  <2>7. t = [eco |-> 0 \in flags, mode |-> F!ModeOf(flags), car |-> 4 \in flags,
             hours |-> hours, raw |-> n]
    BY <2>1 DEF F!DecodeSettings
  <2>8. t = F!Decode(t.raw) /\ F!Plausible(t)
    BY <2>1, <2>4, <2>6, <2>7 DEF F!Decode, F!Plausible
  <2>9. \A f \in F!Fields["settings"] : t[f] = IF f = field THEN v ELSE r[f]
    BY <1>1, <2>2, <2>5, <2>6, <2>7 DEF F!Fields, F!DecodeSettings
  <2> HIDE DEF flags, hours
  <2> QED
    BY <2>4, <2>7, <2>8, <2>9 DEF F!KnownBits, F!Raw
<1> QED
  BY <1>3, <1>4 DEF Request

(* What a plausible report becomes when an output command is obeyed. *)
ObeyedOutput(raw, flags) ==
    [raw EXCEPT !.flags = (@ \ F!KnownBits.output) \cup (flags \cap {0, 1})
                              \cup (IF 5 \in flags THEN {4} ELSE {})]

LEMMA OutputChanged ==
    ASSUME F!ControlAssumption, group = "output", NEW raw \in F!Raw,
           F!Plausible(F!Decode(raw)),
           NEW field, NEW v, Request(field, v)
    PROVE  LET t == Asked(raw, field, v)
               n == ObeyedOutput(raw, F!EncodeOutput(t)) IN
           /\ n \in F!Raw /\ F!Plausible(F!Decode(n))
           /\ \A f \in F!Fields["output"] :
                F!Decode(n)[f] = IF f = field THEN v ELSE F!Decode(raw)[f]
           /\ \A f \in F!Fields["output"] : F!Decode(n)[f] = t[f]
           /\ n.flags \ F!KnownBits["output"] = raw.flags \ F!KnownBits["output"]
           /\ t.raw = raw
<1> DEFINE t == Asked(raw, field, v)
           e == F!EncodeOutput(t)
           n == ObeyedOutput(raw, e)
           r == F!Decode(raw)
<1>1. /\ r = [dc |-> 0 \in raw.flags, ac |-> 1 \in raw.flags, light |-> 4 \in raw.flags,
              raw |-> raw]
      /\ raw.flags \subseteq Bits /\ raw.hours \in Hours
  BY DEF F!Decode, F!DecodeStatus, F!Raw
<1>2. raw.flags \subseteq {0, 1, 4}
  BY <1>1 DEF F!Plausible, F!KnownBits
<1>3. field \in {"dc", "ac", "light"} /\ v \in BOOLEAN
  BY DEF Request, F!Fields
<1>4. t = [r EXCEPT ![field] = v]
  BY DEF Asked
<1>5. /\ t.dc = IF field = "dc" THEN v ELSE (0 \in raw.flags)
      /\ t.ac = IF field = "ac" THEN v ELSE (1 \in raw.flags)
      /\ t.light = IF field = "light" THEN v ELSE (4 \in raw.flags)
      /\ t.dc \in BOOLEAN /\ t.ac \in BOOLEAN /\ t.light \in BOOLEAN
      /\ t.raw = raw
  <2>1. /\ r.dc = (0 \in raw.flags) /\ r.ac = (1 \in raw.flags)
        /\ r.light = (4 \in raw.flags) /\ r.raw = raw
        /\ DOMAIN r = {"dc", "ac", "light", "raw"}
    BY <1>1
  <2> HIDE DEF r
  <2>2. \A f \in {"dc", "ac", "light", "raw"} : t[f] = IF f = field THEN v ELSE r[f]
    BY <1>3, <1>4, <2>1
  <2>3. /\ t.dc = IF field = "dc" THEN v ELSE r.dc
        /\ t.ac = IF field = "ac" THEN v ELSE r.ac
        /\ t.light = IF field = "light" THEN v ELSE r.light
        /\ t.raw = r.raw
    BY <1>3, <2>2
  <2>4. v \in BOOLEAN
    BY <1>3
  <2>5. r.dc \in BOOLEAN /\ r.ac \in BOOLEAN /\ r.light \in BOOLEAN
    BY <2>1
  <2>6. t.dc \in BOOLEAN /\ t.ac \in BOOLEAN /\ t.light \in BOOLEAN
    BY <2>3, <2>4, <2>5
  <2>7. /\ t.dc = IF field = "dc" THEN v ELSE (0 \in raw.flags)
        /\ t.ac = IF field = "ac" THEN v ELSE (1 \in raw.flags)
        /\ t.light = IF field = "light" THEN v ELSE (4 \in raw.flags)
    BY <2>1, <2>3
  <2> QED
    BY <2>1, <2>3, <2>6, <2>7
<1> HIDE DEF t
<1>6. e \subseteq {0, 1, 5} /\ (0 \in e <=> t.dc) /\ (1 \in e <=> t.ac) /\ (5 \in e <=> t.light)
  BY <1>5 DEF F!EncodeOutput
<1> HIDE DEF e
<1>7. /\ n = [flags |-> (raw.flags \ {0, 1, 4}) \cup (e \cap {0, 1})
                            \cup (IF 5 \in e THEN {4} ELSE {}),
              hours |-> raw.hours]
  BY <1>1 DEF ObeyedOutput, F!KnownBits, F!Raw
<1>8. /\ n.flags \subseteq {0, 1, 4} /\ n.hours = raw.hours
      /\ (0 \in n.flags <=> t.dc) /\ (1 \in n.flags <=> t.ac) /\ (4 \in n.flags <=> t.light)
  BY <1>2, <1>6, <1>7
<1>9. n \in F!Raw
  BY <1>1, <1>7, <1>8 DEF F!Raw, F!ControlAssumption
<1> HIDE DEF n
<1>10. F!Decode(n) = [dc |-> 0 \in n.flags, ac |-> 1 \in n.flags, light |-> 4 \in n.flags,
                    raw |-> n]
  BY DEF F!Decode, F!DecodeStatus
<1>11. F!Decode(n).dc = t.dc /\ F!Decode(n).ac = t.ac /\ F!Decode(n).light = t.light
  BY <1>5, <1>8, <1>10
<1>12. \A f \in F!Fields["output"] : F!Decode(n)[f] = t[f]
  BY <1>11 DEF F!Fields
<1>13. \A f \in F!Fields["output"] : F!Decode(n)[f] = IF f = field THEN v ELSE r[f]
  BY <1>1, <1>3, <1>5, <1>11 DEF F!Fields
<1>14. F!Plausible(F!Decode(n))
  BY <1>8, <1>10 DEF F!Plausible, F!KnownBits
<1>15. n.flags \ F!KnownBits["output"] = raw.flags \ F!KnownBits["output"]
  BY <1>2, <1>8 DEF F!KnownBits
<1> QED
  BY <1>5, <1>9, <1>12, <1>13, <1>14, <1>15 DEF t, e, n

-----------------------------------------------------------------------------
(* Writing a frame keeps FrameOK, whatever becomes of it. *)
LEMMA WriteKeeps ==
    ASSUME Inv, NEW raw \in F!Raw, reading = F!Decode(raw), F!Plausible(reading),
           NEW field, NEW v, Request(field, v), NEW t, t = Asked(raw, field, v),
           F!Write(t, field, v)
    PROVE  Inv'
<1>1. reading.raw = raw
  BY DEF F!Decode, F!DecodeStatus, F!DecodeSettings
<1>2. UNCHANGED <<group, device, reading>> /\ gate' \in {"ambiguous", "pending"}
  BY DEF F!Write
<1>3. GroupOK' /\ device' \in F!Raw /\ ReadingOK'
  BY <1>2 DEF Inv, GroupOK, ReadingOK, F!Decode
<1>4. FrameOK'
  <2> SUFFICES ASSUME frame' # NoFrame
               PROVE  FrameOK'
    BY DEF FrameOK
  <2>1. /\ frame' = [flags |-> IF group = "output" THEN F!EncodeOutput(t) ELSE t.raw.flags,
                     hours |-> t.raw.hours, field |-> field, value |-> v, base |-> raw]
        /\ gate' = "pending" => target' = t
    BY <1>1 DEF F!Write
  <2>2. /\ frame'.base = raw /\ frame'.field = field /\ frame'.value = v
        /\ frame'.flags = IF group = "output" THEN F!EncodeOutput(t) ELSE t.raw.flags
        /\ frame'.hours = t.raw.hours
    BY <2>1
  <2>3. group' = group
    BY <1>2
  <2> QED
    BY <2>1, <2>2, <2>3 DEF FrameOK, Asked, Request, F!Plausible, F!Decode,
                            F!UpdatedSettings
<1> QED
  BY <1>3, <1>4 DEF Inv

(* A frame that is obeyed leaves a state the device may report. *)
LEMMA ObeyKeeps ==
    ASSUME F!ControlAssumption, Inv, F!Obey
    PROVE  Inv'
<1>1. GroupOK' /\ ReadingOK' /\ FrameOK'
  BY DEF Inv, GroupOK, ReadingOK, FrameOK, F!Obey, F!Decode
<1>2. CASE group = "output"
  <2>1. device' = [device EXCEPT !.flags = (@ \ F!KnownBits.output) \cup (frame.flags \cap {0, 1})
                                              \cup (IF 5 \in frame.flags THEN {4} ELSE {})]
    BY <1>2 DEF F!Obey
  <2>2. device'.flags \subseteq Bits
    BY <2>1 DEF Inv, F!Raw, F!ControlAssumption
  <2>3. device' \in F!Raw
    BY <2>1, <2>2 DEF Inv, F!Raw
  <2> QED
    BY <1>1, <2>3 DEF Inv
<1>3. CASE group = "settings"
  <2> DEFINE t == Asked(frame.base, frame.field, frame.value)
  <2>1. frame # NoFrame /\ device' = [flags |-> frame.flags, hours |-> frame.hours]
    BY <1>3 DEF F!Obey
  <2>2. frame.flags = t.raw.flags /\ frame.hours = t.raw.hours
    BY <1>3, <2>1 DEF Inv, FrameOK
  <2>3. t.raw \in F!Raw
    BY <1>3, <2>1, SettingsChanged DEF Inv, FrameOK
  <2>4. device' \in F!Raw
    BY <2>1, <2>2, <2>3 DEF F!Raw
  <2> QED
    BY <1>1, <2>4 DEF Inv
<1> QED
  BY <1>2, <1>3 DEF Inv, GroupOK

LEMMA InvInductive == ASSUME F!ControlAssumption, Inv, [F!Next]_(F!vars) PROVE Inv'
<1>1. CASE F!Press
  <2>1. device' \in F!Raw
    BY <1>1 DEF F!Press, Inv, F!Raw, F!SetMask
  <2> QED
    BY <1>1, <2>1 DEF F!Press, Inv, GroupOK, ReadingOK, FrameOK, F!Plausible, Asked,
                      Request,
                      F!Decode, F!UpdatedSettings
<1>2. CASE F!Report
  <2>1. ReadingOK'
    BY <1>2 DEF F!Report, Inv, ReadingOK, F!Decode
  <2>2. FrameOK'
    <3>1. /\ UNCHANGED <<group, frame>>
          /\ gate' = "pending" => gate = "pending" /\ target' = target
      BY <1>2 DEF F!Report
    <3> QED
      BY <3>1 DEF Inv, FrameOK, F!Plausible, Asked, Request, F!Decode, F!UpdatedSettings
  <2> QED
    BY <1>2, <2>1, <2>2 DEF F!Report, Inv, GroupOK
<1>3. CASE F!Expire \/ F!Forget
  <2>1. /\ UNCHANGED <<group, device, frame>> /\ gate' \in {"open", "ambiguous"}
        /\ reading' \in {reading, NoReading}
    BY <1>3 DEF F!Expire, F!Forget
  <2>2. FrameOK'
    BY <2>1 DEF Inv, FrameOK, F!Plausible, Asked, Request, F!Decode, F!UpdatedSettings
  <2>3. ReadingOK'
    BY <2>1 DEF Inv, ReadingOK, F!Decode
  <2> QED
    BY <2>1, <2>2, <2>3 DEF Inv, GroupOK
<1>4. CASE \E o \in F!Fields.output, on \in BOOLEAN : F!SetOutput(o, on)
  <2>1. PICK o \in F!Fields.output, on \in BOOLEAN : F!SetOutput(o, on)
    BY <1>4
  <2>2. PICK raw \in F!Raw : reading = F!Decode(raw)
    BY <2>1 DEF F!SetOutput, F!Safe, Inv, ReadingOK
  <2>3. Request(o, on) /\ [reading EXCEPT ![o] = on] = Asked(raw, o, on)
    BY <2>1, <2>2 DEF F!SetOutput, Request, Asked
  <2> QED
    BY <2>1, <2>2, <2>3, WriteKeeps DEF F!SetOutput, F!Safe
<1>5. CASE \E field \in F!Fields.settings : \E v \in F!SettingsValues[field] :
               F!UpdateSettings(field, v)
  <2>1. PICK field \in F!Fields.settings : \E v \in F!SettingsValues[field] :
               F!UpdateSettings(field, v)
    BY <1>5
  <2>2. PICK v \in F!SettingsValues[field] : F!UpdateSettings(field, v)
    BY <2>1
  <2>3. PICK raw \in F!Raw : reading = F!Decode(raw)
    BY <2>2 DEF F!UpdateSettings, F!Safe, Inv, ReadingOK
  <2>4. Request(field, v) /\ F!UpdatedSettings(reading, field, v) = Asked(raw, field, v)
    BY <2>1, <2>2, <2>3 DEF F!UpdateSettings, Request, Asked, F!Fields
  <2> QED
    BY <2>2, <2>3, <2>4, WriteKeeps DEF F!UpdateSettings, F!Safe
<1>6. CASE F!SendKeepalive
  <2>1. PICK raw \in F!Raw : reading = F!Decode(raw)
    BY <1>6 DEF F!SendKeepalive, F!Safe, Inv, ReadingOK
  <2>2. Request("none", FALSE) /\ reading = Asked(raw, "none", FALSE)
    BY <1>6, <2>1 DEF F!SendKeepalive, Request, Asked
  <2> QED
    BY <1>6, <2>1, <2>2, WriteKeeps DEF F!SendKeepalive, F!Safe
<1>7. CASE UNCHANGED F!vars
  BY <1>7 DEF F!vars, Inv, GroupOK, ReadingOK, FrameOK, F!Plausible, Asked, Request,
              F!Decode,
              F!UpdatedSettings
<1> QED
  BY <1>1, <1>2, <1>3, <1>4, <1>5, <1>6, <1>7, ObeyKeeps DEF F!Next

LEMMA InvInitially == ASSUME F!Init PROVE Inv
  BY DEF F!Init, Inv, GroupOK, ReadingOK, FrameOK

(* A step that takes a frame off the air obeys it, and then does what was asked. *)
LEMMA ObeysAsAsked ==
    ASSUME F!ControlAssumption, Inv, [F!Next]_(F!vars),
           frame # NoFrame, frame' = NoFrame, device = frame.base
    PROVE  /\ F!Changed(device, device', frame.field, frame.value)
           /\ F!Plausible(F!Decode(device'))
           /\ gate = "pending" => F!Confirms(F!Decode(device'))
<1>1. F!Obey
  BY DEF F!Next, F!vars, F!Press, F!Report, F!Expire, F!Forget, F!SetOutput,
         F!UpdateSettings,
         F!SendKeepalive, F!Write
<1> DEFINE field == frame.field
           v     == frame.value
           t     == Asked(device, field, v)
<1>2. /\ device \in F!Raw /\ F!Plausible(F!Decode(device)) /\ Request(field, v)
      /\ frame.flags = IF group = "output" THEN F!EncodeOutput(t) ELSE t.raw.flags
      /\ frame.hours = t.raw.hours
      /\ gate = "pending" => target = t
  BY DEF Inv, FrameOK
<1>3. CASE group = "output"
  <2>1. device' = ObeyedOutput(device, F!EncodeOutput(t))
    BY <1>1, <1>2, <1>3 DEF F!Obey, ObeyedOutput
  <2>2. /\ F!Plausible(F!Decode(device'))
        /\ \A f \in F!Fields["output"] :
               F!Decode(device')[f] = IF f = field THEN v ELSE F!Decode(device)[f]
        /\ \A f \in F!Fields["output"] : F!Decode(device')[f] = t[f]
        /\ device'.flags \ F!KnownBits["output"] = device.flags \ F!KnownBits["output"]
    BY <1>2, <1>3, <2>1, OutputChanged
  <2> QED
    BY <1>2, <1>3, <2>2 DEF F!Changed, F!Confirms
<1>4. CASE group = "settings"
  <2>1. device' = [flags |-> t.raw.flags, hours |-> t.raw.hours]
    BY <1>1, <1>2, <1>4 DEF F!Obey
  <2>2. /\ t = F!Decode(t.raw) /\ F!Plausible(t) /\ t.raw \in F!Raw
        /\ t.raw.flags \ F!KnownBits["settings"] = device.flags \ F!KnownBits["settings"]
        /\ \A f \in F!Fields["settings"] : t[f] = IF f = field THEN v ELSE F!Decode(device)[f]
    BY <1>2, <1>4, SettingsChanged
  <2>3. t.raw = device'
    BY <2>1, <2>2 DEF F!Raw
  <2> QED
    BY <1>2, <1>4, <2>1, <2>2, <2>3 DEF F!Changed, F!Confirms
<1> QED
  BY <1>3, <1>4 DEF Inv, GroupOK

(* Flags, timeouts and readings are those a device may report (TypeOK). *)
THEOREM FramesTypeCorrect == ASSUME F!ControlAssumption PROVE F!Spec => []F!TypeOK
<1>1. F!Init => Inv
  BY InvInitially
<1>2. Inv /\ [F!Next]_(F!vars) => Inv'
  BY InvInductive
<1>3. Inv => F!TypeOK
  BY DEF Inv, F!TypeOK, GroupOK, ReadingOK
<1> QED
  BY <1>1, <1>2, <1>3, PTL DEF F!Spec

(* While nobody else touches the device, a command changes in it what was     *)
(* asked for and nothing else, and its next report confirms it.                *)
THEOREM CommandsPreserve == ASSUME F!ControlAssumption PROVE F!Spec => F!OnlyAsked
<1>1. F!Init => Inv
  BY InvInitially
<1>2. Inv /\ [F!Next]_(F!vars) => Inv'
  BY InvInductive
<1>3. Inv /\ [F!Next]_(F!vars) =>
        [frame # NoFrame /\ frame' = NoFrame /\ device = frame.base =>
           /\ F!Changed(device, device', frame.field, frame.value)
           /\ F!Plausible(F!Decode(device'))
           /\ gate = "pending" => F!Confirms(F!Decode(device'))]_(F!vars)
  BY ObeysAsAsked
<1> QED
  BY <1>1, <1>2, <1>3, PTL DEF F!Spec, F!OnlyAsked

-----------------------------------------------------------------------------
(* The same of the specification that is run. *)

LEMMA ControlPart == PartsSpec => F!Spec
<1>1. PartsInit => F!Init
  BY DEF PartsInit
<1>2. [PartsNext]_<<part, vars, control, identity, registry, setup>> => [F!Next]_(F!vars)
  BY DEF PartsNext, control, F!vars
<1> QED
  BY <1>1, <1>2, PTL DEF PartsSpec, F!Spec

(* OnlyAsked, for every set of flag bits and timeouts: what a command changes  *)
(* in a device nobody else touched is what was asked (encode_control).         *)
THEOREM PartsOnlyAsked == PartsSpec => OnlyAsked
<1>1. F!OnlyAsked => OnlyAsked
  BY DEF OnlyAsked
<1> QED
  BY <1>1, ControlPart, CommandsPreserve, ControlParameters, PTL

=============================================================================
