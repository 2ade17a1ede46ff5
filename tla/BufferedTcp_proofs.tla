------------------------- MODULE BufferedTcp_proofs -------------------------
(***************************************************************************)
(* Proofs about AirPlay 2 buffered audio: its ring, for a ring, packets    *)
(* and blocks of any size, and its processor, for blocks and packets of    *)
(* any number of frames.                                                   *)
(***************************************************************************)
EXTENDS BufferedTcp, BufferedAudio, TLAPS

\* The smallest of two or three numbers is one of them and none is less.
LEMMA SmallestOfTwo ==
  ASSUME NEW a \in Int, NEW b \in Int
  PROVE  /\ Smallest({a, b}) \in {a, b}
         /\ Smallest({a, b}) <= a /\ Smallest({a, b}) <= b
<1>1. \E x \in {a, b} : \A y \in {a, b} : x <= y
  OBVIOUS
<1>2. Smallest({a, b}) \in {a, b} /\ \A y \in {a, b} : Smallest({a, b}) <= y
  BY <1>1 DEF Smallest
<1>3. QED
  BY <1>2

LEMMA SmallestOfThree ==
  ASSUME NEW a \in Int, NEW b \in Int, NEW c \in Int
  PROVE  /\ Smallest({a, b, c}) \in {a, b, c}
         /\ Smallest({a, b, c}) <= a /\ Smallest({a, b, c}) <= b
         /\ Smallest({a, b, c}) <= c
<1>1. \E x \in {a, b, c} : \A y \in {a, b, c} : x <= y
  OBVIOUS
<1>2. /\ Smallest({a, b, c}) \in {a, b, c}
      /\ \A y \in {a, b, c} : Smallest({a, b, c}) <= y
  BY <1>1 DEF Smallest
<1>3. QED
  BY <1>2

\* The assumption, constant by constant.
LEMMA Sizes ==
  /\ buffer_max_size \in Nat /\ buffer_max_size > 0 /\ StandardPacket \in Nat
  /\ HeadSize \in Nat /\ BodySize \in Nat /\ MaxBytes \in Nat
BY BufferedTcpAssumption DEF BufferedTcpAssumption

\* Place x, counted from the bottom of the ring and less than once past its top.
Folded(x) == IF x < buffer_max_size THEN x ELSE x - buffer_max_size

LEMMA FoldedIsModulo ==
  ASSUME NEW x \in 0..2 * buffer_max_size - 1
  PROVE  x % buffer_max_size = Folded(x)
<1> DEFINE m == buffer_max_size
<1>1. m \in Nat \ {0}
  BY BufferedTcpAssumption DEF BufferedTcpAssumption
<1> SUFFICES x % m = IF x < m THEN x ELSE x - m
  BY DEF Folded
<1> HIDE DEF m
<1>2. CASE x \in 0..m - 1
  BY <1>1, <1>2
<1>3. CASE x \in m..2 * m - 1
  BY <1>1, <1>3
<1>4. QED
  BY <1>1, <1>2, <1>3 DEF m

\* What the reader has received and not yet counted.
Pending == IF reader = "store" /\ nread > 0 THEN nread ELSE 0

\* What makes RingKeepsTheStream inductive: the end of the queue is where the occupied
\* part ends, what was asked for fits behind it below the top of the ring and beside
\* the occupied part, although both threads go on after it was worked out; and the
\* ring holds, in their order, all bytes that were received and not taken out.
RingInv ==
  /\ buffer_toq \in 0..buffer_max_size - 1
  /\ buffer_eoq \in 0..buffer_max_size /\ buffer_occupancy \in 0..buffer_max_size
  /\ asked \in Int /\ nread \in Int
  /\ wanted \in Nat /\ consumed \in Nat /\ bytes_sent \in Nat
  /\ ring \in [0..buffer_max_size - 1 -> Nat]
  /\ \/ buffer_eoq = buffer_toq + buffer_occupancy
     \/ buffer_eoq = buffer_toq + buffer_occupancy - buffer_max_size
     \/ buffer_eoq = buffer_toq + buffer_occupancy + buffer_max_size
  /\ reader \in {"recv", "store"} => buffer_eoq < buffer_max_size
  /\ reader = "recv" => /\ asked + buffer_occupancy <= buffer_max_size
                        /\ asked + buffer_eoq <= buffer_max_size
  /\ Pending + buffer_occupancy <= buffer_max_size
  /\ Pending + buffer_eoq <= buffer_max_size
  /\ bytes_sent = consumed + buffer_occupancy + Pending
  /\ \A i \in 0..buffer_occupancy + Pending - 1 :
       ring[Folded(buffer_toq + i)] = consumed + 1 + i

\* The ring is empty at the start.
LEMMA RingInvInit == TcpInit => RingInv
BY Sizes DEF TcpInit, RingInv, Pending

\* Neither thread breaks it.
LEMMA RingInvStep == RingInv /\ [TcpNext]_bvars => RingInv'
<1> SUFFICES ASSUME RingInv, [TcpNext]_bvars PROVE RingInv'
  OBVIOUS
<1> USE Sizes DEF ringvars
<1>1. CASE UNCHANGED bvars
  BY <1>1 DEF bvars, RingInv, Pending
<1>2. CASE AwaitRoom
  BY <1>2 DEF AwaitRoom, RingInv, Pending
<1>3. CASE Request
  <2> DEFINE from == IF buffer_eoq = buffer_max_size THEN 0 ELSE buffer_eoq
             room == buffer_max_size - buffer_occupancy
             up   == buffer_max_size - from
  <2>1. /\ from \in 0..buffer_max_size - 1 /\ room \in Nat /\ up \in Nat
        /\ \/ from = buffer_toq + buffer_occupancy
           \/ from = buffer_toq + buffer_occupancy - buffer_max_size
    BY DEF RingInv
  <2>2. asked' = Smallest({StandardPacket, room, up}) /\ buffer_eoq' = from
    BY <1>3 DEF Request, BytesToRequest
  <2> HIDE DEF room, up
  <2>3. asked' \in Int /\ asked' <= room /\ asked' <= up
    <3>1. StandardPacket \in Int /\ room \in Int /\ up \in Int
      BY <2>1, Sizes
    <3>2. /\ asked' \in {StandardPacket, room, up}
          /\ asked' <= room /\ asked' <= up
      BY <2>2, <3>1, SmallestOfThree, Zenon
    <3>3. QED
      BY <3>1, <3>2
  <2> USE DEF room, up
  <2>4. Pending = 0 /\ Pending' = 0 /\ reader' = "recv"
    BY <1>3 DEF Request, Pending
  <2>5. UNCHANGED <<ring, buffer_toq, buffer_occupancy, nread, wanted, bytes_sent, consumed>>
    BY <1>3 DEF Request
  <2>6. QED
    BY <2>1, <2>2, <2>3, <2>4, <2>5 DEF RingInv
<1>4. ASSUME NEW n \in -1..StandardPacket, Recv(n) PROVE RingInv'
  <2> DEFINE got == IF n > 0 THEN n ELSE 0
  <2>1. n \in Int /\ n <= asked /\ got \in Nat
    <3> DEFINE left == MaxBytes - bytes_sent
    <3>1. asked \in Int /\ left \in Int /\ n \in Int
      BY DEF RingInv
    <3>2. n \in -1..Smallest({asked, left})
      BY <1>4 DEF Recv
    <3> HIDE DEF left
    <3>3. Smallest({asked, left}) \in Int /\ Smallest({asked, left}) <= asked
      BY <3>1, SmallestOfTwo
    <3>4. QED
      BY <3>1, <3>2, <3>3
  <2>2. /\ reader = "recv" /\ Pending = 0
        /\ reader' = "store" /\ nread' = n /\ Pending' = got
    BY <1>4 DEF Recv, Pending
  <2>3. /\ buffer_eoq < buffer_max_size
        /\ got + buffer_occupancy <= buffer_max_size /\ got + buffer_eoq <= buffer_max_size
    BY <2>1, <2>2 DEF RingInv
  <2>4. UNCHANGED <<buffer_toq, buffer_eoq, buffer_occupancy, asked, wanted, consumed>>
    BY <1>4 DEF Recv
  <2>5. bytes_sent' = consumed + buffer_occupancy + got
    BY <1>4, <2>1, <2>2 DEF Recv, RingInv
  <2>6. ring' \in [0..buffer_max_size - 1 -> Nat]
    BY <1>4 DEF Recv, RingInv
  <2>7. ASSUME NEW i \in 0..buffer_occupancy + got - 1
        PROVE  ring'[Folded(buffer_toq + i)] = consumed + 1 + i
    <3> DEFINE at == Folded(buffer_toq + i)
    <3>1. at \in 0..buffer_max_size - 1
      BY <2>3, <2>7 DEF Folded, RingInv
    <3>2. ring'[at] = IF at >= buffer_eoq /\ at < buffer_eoq + n
                      THEN bytes_sent + 1 + (at - buffer_eoq) ELSE ring[at]
      BY <1>4, <3>1 DEF Recv, RingInv
    <3>3. CASE i < buffer_occupancy
      <4>1. ~(at >= buffer_eoq /\ at < buffer_eoq + n)
        BY <2>1, <2>3, <2>7, <3>3 DEF Folded, RingInv
      <4>2. i \in 0..buffer_occupancy + Pending - 1
        BY <2>2, <2>7, <3>3 DEF RingInv
      <4>3. ring[at] = consumed + 1 + i
        BY <4>2 DEF RingInv
      <4>4. QED
        BY <3>2, <4>1, <4>3
    <3>4. CASE i >= buffer_occupancy
      <4>1. at = buffer_eoq + (i - buffer_occupancy) /\ i - buffer_occupancy < n
        BY <2>1, <2>3, <2>7, <3>4 DEF Folded, RingInv
      <4>2. bytes_sent = consumed + buffer_occupancy
        BY <2>2 DEF RingInv
      <4>3. /\ i \in Int /\ n \in Int /\ buffer_eoq \in Int
            /\ buffer_occupancy \in Int /\ consumed \in Int
        BY <2>1, <2>7 DEF RingInv
      <4>4. at >= buffer_eoq /\ at < buffer_eoq + n
        BY <3>4, <4>1, <4>3
      <4>5. ring'[at] = bytes_sent + 1 + (i - buffer_occupancy)
        BY <3>2, <4>1, <4>3, <4>4
      <4>6. QED
        BY <4>2, <4>3, <4>5
    <3>5. QED
      BY <2>7, <3>3, <3>4 DEF RingInv
  <2>8. QED
    BY <2>1, <2>2, <2>3, <2>4, <2>5, <2>6, <2>7 DEF RingInv, Folded
<1>5. CASE Store
  <2>1. /\ buffer_eoq' = buffer_eoq + Pending
        /\ buffer_occupancy' = buffer_occupancy + Pending
        /\ Pending' = 0 /\ reader' = "test" /\ Pending \in Nat
    BY <1>5 DEF Store, RingInv, Pending
  <2>2. UNCHANGED <<ring, buffer_toq, asked, nread, wanted, bytes_sent, consumed>>
    BY <1>5 DEF Store
  <2>3. QED
    BY <2>1, <2>2 DEF RingInv, Folded
<1>6. CASE lread_sized_block \/ WaitForData \/ WaitAgain \/ EndOfStream
  BY <1>6 DEF lread_sized_block, WaitForData, WaitAgain, EndOfStream, RingInv, Pending
<1>7. CASE buffered_read
  <2> DEFINE n == BytesToMove
  <2>1. /\ n \in Nat /\ n <= wanted /\ n <= buffer_occupancy
        /\ n <= buffer_max_size - buffer_toq
    <3> DEFINE up == buffer_max_size - buffer_toq
    <3>1. wanted \in Nat /\ buffer_occupancy \in Nat /\ up \in Nat
      BY DEF RingInv
    <3> HIDE DEF up
    <3>2. n = Smallest({wanted, buffer_occupancy, up})
      BY DEF BytesToMove, up
    <3> HIDE DEF n
    <3>3. wanted \in Int /\ buffer_occupancy \in Int /\ up \in Int
      BY <3>1
    <3>4. /\ n \in {wanted, buffer_occupancy, up}
          /\ n <= wanted /\ n <= buffer_occupancy /\ n <= up
      BY <3>2, <3>3, SmallestOfThree, Zenon
    <3>5. QED
      BY <3>1, <3>4 DEF up
  <2> HIDE DEF n
  <2>2. buffer_toq' = Folded(buffer_toq + n)
    <3>1. buffer_toq' = (buffer_toq + n) % buffer_max_size
      BY <1>7 DEF buffered_read, n
    <3>2. buffer_toq + n \in 0..2 * buffer_max_size - 1
      BY <2>1 DEF RingInv
    <3>3. QED
      BY <3>1, <3>2, FoldedIsModulo
  <2>3. buffer_occupancy' = buffer_occupancy - n /\ consumed' = consumed + n
    BY <1>7 DEF buffered_read, n
  <2>4. wanted' \in Nat
    <3>1. wanted' \in {wanted - n, BodySize, 0}
      BY <1>7, Zenon DEF buffered_read, n
    <3>2. QED
      BY <2>1, <3>1 DEF RingInv
  <2>5. UNCHANGED <<ring, buffer_eoq, reader, asked, nread, bytes_sent>> /\ Pending' = Pending
    BY <1>7 DEF buffered_read, Pending
  <2>6. Pending \in Nat
    BY DEF Pending, RingInv
  <2>7. ASSUME NEW i \in 0..buffer_occupancy' + Pending - 1
        PROVE  ring[Folded(buffer_toq' + i)] = consumed' + 1 + i
    <3>1. Folded(buffer_toq' + i) = Folded(buffer_toq + (n + i))
      BY <2>1, <2>2, <2>3, <2>6, <2>7 DEF Folded, RingInv
    <3>2. n + i \in 0..buffer_occupancy + Pending - 1
      BY <2>1, <2>3, <2>6, <2>7 DEF RingInv
    <3>3. QED
      BY <2>1, <2>3, <2>7, <3>1, <3>2 DEF RingInv
  <2>8. buffer_toq' \in 0..buffer_max_size - 1
    BY <2>1, <2>2 DEF Folded, RingInv
  <2>9. \/ buffer_eoq' = buffer_toq' + buffer_occupancy'
        \/ buffer_eoq' = buffer_toq' + buffer_occupancy' - buffer_max_size
        \/ buffer_eoq' = buffer_toq' + buffer_occupancy' + buffer_max_size
    BY <2>1, <2>2, <2>3, <2>5 DEF Folded, RingInv
  <2>10. QED
    <3>1. /\ buffer_occupancy' \in 0..buffer_max_size
          /\ buffer_occupancy' <= buffer_occupancy /\ consumed' \in Nat
          /\ bytes_sent' = consumed' + buffer_occupancy' + Pending'
      BY <2>1, <2>3, <2>5, <2>6 DEF RingInv
    <3>2. /\ reader' = "recv" => /\ asked' + buffer_occupancy' <= buffer_max_size
                                 /\ asked' + buffer_eoq' <= buffer_max_size
          /\ Pending' + buffer_occupancy' <= buffer_max_size
          /\ Pending' + buffer_eoq' <= buffer_max_size
      BY <2>1, <2>3, <2>5, <2>6 DEF RingInv
    <3>3. \A i \in 0..buffer_occupancy' + Pending' - 1 :
            ring'[Folded(buffer_toq' + i)] = consumed' + 1 + i
      BY <2>5, <2>7
    <3>4. QED
      BY <2>4, <2>5, <2>8, <2>9, <3>1, <3>2, <3>3 DEF RingInv
<1>8. QED
  BY <1>1, <1>2, <1>3, <1>4, <1>5, <1>6, <1>7 DEF TcpNext, ReaderStep, ReadStep

\* The bytes of the source reach the processor once each and in order, wherever the
\* ring folds and however the two threads interleave (buffered_tcp_reader,
\* buffered_read).
THEOREM RingIsTheStream == TcpSpec => []RingKeepsTheStream
<1>1. RingInv => RingKeepsTheStream
  <2> SUFFICES ASSUME RingInv, NEW i \in 0..buffer_occupancy - 1
               PROVE  ring[(buffer_toq + i) % buffer_max_size] = consumed + 1 + i
    BY DEF RingInv, RingKeepsTheStream
  <2>1. (buffer_toq + i) % buffer_max_size = Folded(buffer_toq + i)
    BY FoldedIsModulo, Sizes DEF RingInv
  <2>2. i \in 0..buffer_occupancy + Pending - 1
    BY DEF RingInv, Pending
  <2>3. QED
    BY <2>1, <2>2 DEF RingInv
<1>2. QED
  BY RingInvInit, RingInvStep, <1>1, PTL DEF TcpSpec

-----------------------------------------------------------------------------
\* The processor.  The frames of blocks follow one another.
LEMMA TimestampsAdvance ==
  /\ BlockFrames \in Nat /\ PacketFrames \in Nat /\ 0 < PacketFrames
  /\ PacketFrames <= BlockFrames
  /\ \A s \in Int : Timestamp(s) \in Int /\ Timestamp(s + 1) = Timestamp(s) + BlockFrames
  /\ \A s, t \in Int : s <= t => Timestamp(s) <= Timestamp(t)
  /\ Timestamp(1) = 0 /\ Timestamp(0) = -BlockFrames
<1>1. /\ BlockFrames \in Nat /\ PacketFrames \in Nat /\ 0 < PacketFrames
      /\ PacketFrames <= BlockFrames
  BY BufferedAudioAssumption DEF BufferedAudioAssumption
<1>2. ASSUME NEW s \in Int, NEW b \in Nat
      PROVE  (s - 1) * b \in Int /\ ((s + 1) - 1) * b = (s - 1) * b + b
  OBVIOUS
<1>3. ASSUME NEW d \in Nat, NEW b \in Nat
      PROVE  d * b \in Nat
  OBVIOUS
<1>4. ASSUME NEW s \in Int, NEW t \in Int, s <= t, NEW b \in Nat
      PROVE  (s - 1) * b <= (t - 1) * b
  <2>1. (t - 1) * b - (s - 1) * b = (t - s) * b
    OBVIOUS
  <2>2. (t - s) * b \in Nat
    BY <1>3, <1>4
  <2>3. (s - 1) * b \in Int /\ (t - 1) * b \in Int
    OBVIOUS
  <2>4. ASSUME NEW x \in Int, NEW y \in Int, y - x \in Nat
        PROVE  x <= y
    BY <2>4
  <2>5. QED
    BY <2>1, <2>2, <2>3, <2>4
<1>5. (1 - 1) * BlockFrames = 0 /\ (0 - 1) * BlockFrames = -BlockFrames
  BY <1>1
<1>6. QED
  BY <1>1, <1>2, <1>4, <1>5 DEF Timestamp

\* A frame from the start of a block on is in that block or in a later one.
LEMMA FramesInOrder ==
  ASSUME NEW frame \in Nat, NEW s \in Nat, Timestamp(s) <= frame
  PROVE  s <= BlockOf(frame)
<1>1. BlockFrames \in Nat /\ 0 < BlockFrames
  BY TimestampsAdvance
<1>2. ASSUME NEW b \in Nat, 0 < b, NEW k \in Int, k * b <= frame
      PROVE  k <= frame \div b /\ frame \div b \in Int
  <2>1. b * k <= frame
    BY <1>2
  <2>2. QED
    BY <1>2, <2>1
<1>3. s - 1 \in Int /\ (s - 1) * BlockFrames <= frame
  BY DEF Timestamp
<1>4. s - 1 <= frame \div BlockFrames /\ frame \div BlockFrames \in Int
  BY <1>1, <1>2, <1>3
<1>5. QED
  BY <1>4 DEF BlockOf

Packets == [rtptime : Nat, frames : Seq(Int)]

AudioTypes ==
  /\ place \in {"start", "orders", "player", "read"}
  /\ seq_no \in Nat /\ read_point \in Nat /\ time \in Nat /\ floor \in Nat
  /\ flush_from_seq \in Nat /\ flush_until_seq \in Nat /\ flushUntilSeq \in Nat
  /\ flush_from_ts \in Int /\ flush_from_timestamp \in Int /\ read_rtptime \in Int
  /\ ap2_flush_requested \in BOOLEAN /\ ap2_flush_from_valid \in BOOLEAN
  /\ ap2_play_enabled \in BOOLEAN /\ anchored \in BOOLEAN /\ flushing \in BOOLEAN
  /\ play_enabled \in BOOLEAN /\ new_buffer_needed \in BOOLEAN
  /\ flush_is_delayed \in BOOLEAN /\ flush_newly_requested \in BOOLEAN
  /\ play_newly_stopped \in BOOLEAN /\ packets_played \in BOOLEAN /\ replaced \in BOOLEAN
  /\ pcm \in Seq(Int) /\ player_packets \in Seq(Packets)
  /\ pcm # <<>> => read_rtptime \in Nat

\* The buffer has room for the next block, since one is read only for a flush, which
\* empties it, or for want of a packet; and a need for a block is remembered only while the
\* player has room.
AudioSizes ==
  /\ Len(pcm) <= BlockFrames + PacketFrames /\ read_point <= Len(pcm)
  /\ new_buffer_needed => Len(player_packets) <= PlayerFull
  /\ place = "read" /\ ~flushing =>
       Len(pcm) < PacketFrames /\ read_point = 0 /\ new_buffer_needed

AudioPhases ==
  /\ place = "start" => ~flushing /\ pcm = <<>>
  /\ flush_newly_requested => place = "player" /\ flushing
  /\ play_newly_stopped => place = "player"

\* Unless the player is about to be reset, it holds nothing from before the floor, and
\* the buffer nothing that could reach it.
AudioFlushes ==
  flush_newly_requested \/
    /\ \A i \in DOMAIN player_packets : Timestamp(floor) <= player_packets[i].rtptime
    /\ flushing => player_packets = <<>>
    /\ ~flushing => floor <= seq_no /\ (pcm # <<>> => Timestamp(floor) <= read_rtptime)
    /\ flushing /\ place = "orders" /\ pcm # <<>> => Timestamp(seq_no) <= read_rtptime

\* A deferred flush is pending.
Awaited == ap2_flush_requested /\ ap2_flush_from_valid

InStep == \A k \in 1..Len(pcm) : pcm[k] = read_rtptime - read_point + k - 1

\* The buffer reaches to the end of the block read last ...
Whole == pcm # <<>> => read_rtptime - read_point + Len(pcm) = Timestamp(seq_no + 1)

\* ... or has been cut short for a flush that starts with the next block.
CutShort == Awaited /\ flush_from_seq = seq_no + 1

\* The buffer is emptied before anything is taken out of it.
Doomed ==
  \/ /\ Awaited /\ flush_from_seq <= seq_no /\ seq_no < flush_until_seq
     /\ ~flushing /\ place = "orders"
  \/ place = "player" /\ flush_newly_requested

FlushIsSensible ==
  Awaited => /\ flush_from_seq < flush_until_seq
             /\ Timestamp(flush_from_seq) - BlockFrames < flush_from_ts
             /\ flush_from_ts <= Timestamp(flush_from_seq)

\* The processor's copy of the start of a flush is that of the pending flush, or the flush
\* started before the block read last.
CopyIsGood ==
  flush_is_delayed => \/ Awaited /\ flush_from_timestamp = flush_from_ts
                      \/ flush_from_timestamp <= Timestamp(seq_no)

AudioLabels ==
  ~BadBlocks /\ ~replaced =>
    PacketsAreLabelled /\ FlushIsSensible /\ CopyIsGood
      /\ (Doomed \/ (InStep /\ (Whole \/ CutShort)))

AudioInv == AudioTypes /\ AudioSizes /\ AudioPhases /\ AudioFlushes /\ AudioLabels

LEMMA EmptySequence == <<>> \in Seq(Int) /\ <<>> \in Seq(Packets) /\ Len(<<>>) = 0
OBVIOUS

LEMMA AudioInvInit == AudioInit => AudioInv
<1> SUFFICES ASSUME AudioInit PROVE AudioInv
  OBVIOUS
<1> USE DEF AudioInit
<1>1. AudioTypes /\ AudioPhases
  <2>1. pcm \in Seq(Int) /\ player_packets \in Seq(Packets)
    BY EmptySequence
  <2>2. AudioPhases
    BY DEF AudioPhases
  <2>3. /\ place \in {"start", "orders", "player", "read"}
        /\ seq_no \in Nat /\ read_point \in Nat /\ time \in Nat /\ floor \in Nat
        /\ flush_from_seq \in Nat /\ flush_until_seq \in Nat /\ flushUntilSeq \in Nat
        /\ flush_from_ts \in Int /\ flush_from_timestamp \in Int /\ read_rtptime \in Int
    OBVIOUS
  <2>4. QED
    BY <2>1, <2>2, <2>3, Zenon DEF AudioTypes
<1>2. AudioSizes
  BY TimestampsAdvance, BufferedAudioAssumption DEF AudioSizes, BufferedAudioAssumption
<1>3. AudioFlushes
  BY DEF AudioFlushes
<1>4. AudioLabels
  BY DEF AudioLabels, PacketsAreLabelled, FlushIsSensible, Awaited, CopyIsGood, InStep, Whole
<1>5. QED
  BY <1>1, <1>2, <1>3, <1>4 DEF AudioInv

\* The steps of the RTSP thread.
LEMMA FlushStep ==
  ASSUME AudioInv, NEW deferred \in BOOLEAN, NEW from \in Nat, NEW ts \in Int,
         NEW until \in Nat, handle_flushbuffered(deferred, from, ts, until),
         deferred => /\ from < until
                     /\ Timestamp(from) - BlockFrames < ts /\ ts <= Timestamp(from)
  PROVE  AudioInv'
<1> USE DEF handle_flushbuffered, flags, pcm_buffer
<1>1. AudioTypes'
  BY DEF AudioInv, AudioTypes
<1>2. AudioSizes' /\ AudioPhases' /\ AudioFlushes'
  BY DEF AudioInv, AudioSizes, AudioPhases, AudioFlushes, Timestamp
<1>3. AudioLabels'
  <2> SUFFICES ASSUME ~BadBlocks, ~replaced'
               PROVE  /\ PacketsAreLabelled' /\ FlushIsSensible' /\ CopyIsGood'
                      /\ (Doomed' \/ (InStep' /\ (Whole' \/ CutShort')))
    BY DEF AudioLabels
  <2>1. ~replaced /\ ~Awaited
    BY DEF Awaited, AudioInv, AudioTypes
  <2>2. PacketsAreLabelled /\ CopyIsGood /\ (Doomed \/ (InStep /\ (Whole \/ CutShort)))
    BY <2>1 DEF AudioInv, AudioLabels
  <2>3. PacketsAreLabelled'
    BY <2>1, <2>2 DEF PacketsAreLabelled
  <2>4. FlushIsSensible'
    BY <2>1 DEF FlushIsSensible, Awaited, Timestamp
  <2>5. CopyIsGood'
    BY <2>1, <2>2 DEF CopyIsGood, Awaited, Timestamp
  <2>6. Doomed' \/ (InStep' /\ (Whole' \/ CutShort'))
    BY <2>1, <2>2 DEF Doomed, InStep, Whole, CutShort, Awaited, Timestamp
  <2>7. QED
    BY <2>3, <2>4, <2>5, <2>6
<1>4. QED
  BY <1>1, <1>2, <1>3 DEF AudioInv

LEMMA SetRateStep ==
  ASSUME AudioInv, NEW rate \in BOOLEAN, handle_setrateanchori(rate)
  PROVE  AudioInv'
<1> USE DEF handle_setrateanchori, flags, pcm_buffer
<1>1. AudioTypes'
  BY DEF AudioInv, AudioTypes
<1>2. AudioSizes' /\ AudioPhases' /\ AudioFlushes'
  BY DEF AudioInv, AudioSizes, AudioPhases, AudioFlushes, Timestamp
<1>3. AudioLabels'
  BY DEF AudioInv, AudioLabels, PacketsAreLabelled, FlushIsSensible, Awaited, CopyIsGood,
         Doomed, InStep, Whole, CutShort, Timestamp
<1>4. QED
  BY <1>1, <1>2, <1>3 DEF AudioInv

LEMMA AudioTickStep ==
  ASSUME AudioInv, AudioTick
  PROVE  AudioInv'
<1> USE DEF AudioTick, orders, flags, pcm_buffer, requests
<1>1. AudioTypes'
  BY DEF AudioInv, AudioTypes
<1>2. AudioSizes' /\ AudioPhases' /\ AudioFlushes'
  BY DEF AudioInv, AudioSizes, AudioPhases, AudioFlushes, Timestamp
<1>3. AudioLabels'
  BY DEF AudioInv, AudioLabels, PacketsAreLabelled, FlushIsSensible, Awaited, CopyIsGood,
         Doomed, InStep, Whole, CutShort, Timestamp
<1>4. QED
  BY <1>1, <1>2, <1>3 DEF AudioInv

LEMMA StartProcessorStep ==
  ASSUME AudioInv, StartProcessor
  PROVE  AudioInv'
<1> USE DEF StartProcessor, orders, flags, pcm_buffer, requests
<1>1. AudioTypes'
  BY DEF AudioInv, AudioTypes
<1>2. AudioSizes'
  BY BufferedAudioAssumption DEF AudioInv, AudioSizes, BufferedAudioAssumption
<1>3. AudioPhases' /\ AudioFlushes'
  BY DEF AudioInv, AudioPhases, AudioFlushes, Timestamp
<1>4. AudioLabels'
  BY DEF AudioInv, AudioLabels, PacketsAreLabelled, FlushIsSensible, Awaited, CopyIsGood,
         Doomed, InStep, Whole, CutShort, Timestamp, AudioPhases
<1>5. QED
  BY <1>1, <1>2, <1>3, <1>4 DEF AudioInv

LEMMA TakePacketStep ==
  ASSUME AudioInv, TakePacket
  PROVE  AudioInv'
<1> USE DEF TakePacket, orders, flags, pcm_buffer, requests
<1>1. /\ player_packets \in Seq(Packets) /\ player_packets' \in Seq(Packets)
      /\ Len(player_packets') <= Len(player_packets)
      /\ \A i \in DOMAIN player_packets' : \E j \in DOMAIN player_packets :
           player_packets'[i] = player_packets[j]
  <2>1. player_packets \in Seq(Packets) /\ player_packets # <<>>
    BY DEF AudioInv, AudioTypes
  <2>2. /\ Tail(player_packets) \in Seq(Packets)
        /\ Len(Tail(player_packets)) = Len(player_packets) - 1
        /\ \A i \in 1..Len(player_packets) - 1 : Tail(player_packets)[i] = player_packets[i + 1]
    BY <2>1
  <2>3. ASSUME NEW i \in DOMAIN player_packets'
        PROVE  \E j \in DOMAIN player_packets : player_packets'[i] = player_packets[j]
    <3>1. i \in 1..Len(player_packets) - 1 /\ DOMAIN player_packets = 1..Len(player_packets)
      BY <2>1, <2>2, <2>3
    <3>2. i + 1 \in DOMAIN player_packets
      BY <2>1, <3>1
    <3>3. QED
      BY <2>2, <3>1, <3>2
  <2>4. QED
    BY <2>1, <2>2, <2>3
<1>2. AudioTypes'
  BY <1>1 DEF AudioInv, AudioTypes
<1>3. AudioSizes' /\ AudioPhases'
  BY <1>1, BufferedAudioAssumption
  DEF AudioInv, AudioSizes, AudioPhases, BufferedAudioAssumption
<1>4. AudioFlushes'
  BY <1>1 DEF AudioInv, AudioFlushes, Timestamp
<1>5. AudioLabels'
  <2>1. PacketsAreLabelled => PacketsAreLabelled'
    BY <1>1 DEF PacketsAreLabelled
  <2>2. QED
    BY <2>1 DEF AudioInv, AudioLabels, FlushIsSensible, Awaited, CopyIsGood, Doomed, InStep,
                Whole, CutShort, Timestamp
<1>6. QED
  BY <1>2, <1>3, <1>4, <1>5 DEF AudioInv

\* The steps of the processor.
LEMMA TakeOrdersStep ==
  ASSUME AudioInv, TakeOrders
  PROVE  AudioInv'
<1> DEFINE active == FlushHasBegun /\ ~FlushIsOver
<1> DEFINE stopped == play_enabled /\ ~ap2_play_enabled
<1>1. /\ place = "orders" /\ place' = "player"
      /\ ap2_flush_requested' = (ap2_flush_requested /\ ~(FlushHasBegun /\ FlushIsOver))
      /\ flush_newly_requested' = (active /\ ~flushing) /\ flushing' = active
      /\ flushUntilSeq' = flush_until_seq
      /\ flush_is_delayed' = (ap2_flush_requested /\ ap2_flush_from_valid)
      /\ flush_from_timestamp' =
           IF flush_is_delayed' THEN flush_from_ts ELSE flush_from_timestamp
      /\ play_enabled' = ap2_play_enabled /\ play_newly_stopped' = stopped
    BY DEF TakeOrders
<1>2. /\ stopped => pcm' = <<>> /\ read_point' = 0 /\ packets_played' = FALSE
      /\ ~stopped => pcm' = pcm /\ read_point' = read_point /\ packets_played' = packets_played
  <2>1. CASE stopped
    BY <2>1 DEF TakeOrders
  <2>2. CASE ~stopped
    BY <2>2 DEF TakeOrders
  <2>3. QED
    BY <2>1, <2>2
<1>3. UNCHANGED <<ap2_flush_from_valid, flush_from_seq, flush_from_ts, flush_until_seq,
                 ap2_play_enabled, anchored, seq_no, new_buffer_needed, read_rtptime,
                 player_packets, time, requests>>
  BY DEF TakeOrders
<1>4. /\ FlushHasBegun /\ (active \/ flushing) => floor' = flush_until_seq
      /\ flushing /\ ~FlushHasBegun => floor' = 0
      /\ ~flushing /\ ~(FlushHasBegun /\ active) => floor' = floor
  BY DEF TakeOrders
<1> HIDE DEF active, stopped
<1>5. active = (FlushHasBegun /\ ~FlushIsOver) /\ active \in BOOLEAN /\ stopped \in BOOLEAN
  BY DEF active, stopped, FlushHasBegun, FlushIsOver, AudioInv, AudioTypes
<1>6. AudioTypes
  BY DEF AudioInv
<1>7. ~flush_newly_requested
  BY <1>1 DEF AudioInv, AudioPhases
<1>a. FlushIsOver => flush_until_seq <= seq_no
  BY <1>6 DEF FlushIsOver, AudioTypes
<1>8. AudioTypes'
  <2>1. floor' \in Nat
    BY <1>4, <1>5, <1>6 DEF AudioTypes
  <2>2. /\ ap2_flush_requested' \in BOOLEAN /\ flush_newly_requested' \in BOOLEAN
        /\ flushing' \in BOOLEAN /\ flush_is_delayed' \in BOOLEAN
        /\ play_newly_stopped' \in BOOLEAN
    BY <1>1, <1>5, Zenon
  <2>3. pcm' \in Seq(Int) /\ read_point' \in Nat /\ (pcm' # <<>> => pcm # <<>>)
    <3>1. pcm \in Seq(Int) /\ read_point \in Nat
      BY <1>6 DEF AudioTypes
    <3>2. CASE stopped
      BY <1>2, <3>2, EmptySequence
    <3>3. CASE ~stopped
      BY <1>2, <3>1, <3>3, Zenon
    <3>4. QED
      BY <3>2, <3>3
  <2>5. packets_played' \in BOOLEAN
    BY <1>2, <1>5, <1>6, Zenon DEF AudioTypes
  <2>4. QED
    BY <1>1, <1>3, <1>6, <2>1, <2>2, <2>3, <2>5 DEF AudioTypes, requests
<1>9. AudioSizes'
  <2>1. AudioSizes
    BY DEF AudioInv
  <2>2. Len(pcm') <= BlockFrames + PacketFrames /\ read_point' <= Len(pcm')
    <3>1. CASE stopped
      BY <1>2, <3>1, EmptySequence, TimestampsAdvance
    <3>2. CASE ~stopped
      BY <1>2, <3>2, <2>1 DEF AudioSizes
    <3>3. QED
      BY <3>1, <3>2
  <2>3. QED
    BY <1>1, <1>3, <2>1, <2>2 DEF AudioSizes
<1>10. AudioPhases'
  BY <1>1, <1>5 DEF AudioPhases
<1>11. AudioFlushes'
  <2> SUFFICES ASSUME ~(active /\ ~flushing)
               PROVE  AudioFlushes'
    BY <1>1 DEF AudioFlushes
  <2>1. /\ \A i \in DOMAIN player_packets : Timestamp(floor) <= player_packets[i].rtptime
        /\ flushing => player_packets = <<>>
        /\ ~flushing => floor <= seq_no /\ (pcm # <<>> => Timestamp(floor) <= read_rtptime)
        /\ flushing /\ pcm # <<>> => Timestamp(seq_no) <= read_rtptime
    BY <1>1, <1>7 DEF AudioInv, AudioFlushes
  <2>2. pcm' # <<>> => pcm # <<>>
    BY <1>2
  <2>3. CASE flushing
    <3>1. player_packets' = <<>>
      BY <1>3, <2>1, <2>3
    <3>2. ~flushing' => floor' <= seq_no
      <4>1. ~flushing' => (FlushHasBegun /\ FlushIsOver) \/ ~FlushHasBegun
        BY <1>1, <1>5
      <4>2. seq_no \in Nat
        BY <1>6 DEF AudioTypes
      <4>3. QED
        BY <4>1, <4>2, <1>4, <1>a, <2>3
    <3>3. ~flushing' /\ pcm' # <<>> => Timestamp(floor') <= read_rtptime
      <4>1. floor' \in Int /\ seq_no \in Int /\ Timestamp(seq_no) \in Int
        BY <1>6, <1>8, TimestampsAdvance DEF AudioTypes
      <4>2. ~flushing' => Timestamp(floor') <= Timestamp(seq_no) /\ Timestamp(floor') \in Int
        BY <3>2, <4>1, TimestampsAdvance
      <4>3. QED
        BY <4>1, <4>2, <2>1, <2>2, <2>3, <1>6 DEF AudioTypes
    <3>4. QED
      BY <3>1, <3>2, <3>3, <1>1, <1>3 DEF AudioFlushes, Timestamp
  <2>4. CASE ~flushing
    <3>1. ~active /\ floor' = floor /\ ~flushing'
      BY <1>1, <1>4, <1>5, <2>4
    <3>2. QED
      BY <3>1, <2>1, <2>2, <2>4, <1>3 DEF AudioFlushes, Timestamp
  <2>5. QED
    BY <2>3, <2>4
<1>12. AudioLabels'
  <2> SUFFICES ASSUME ~BadBlocks, ~replaced'
               PROVE  /\ PacketsAreLabelled' /\ FlushIsSensible' /\ CopyIsGood'
                      /\ (Doomed' \/ (InStep' /\ (Whole' \/ CutShort')))
    BY DEF AudioLabels
  <2>1. /\ PacketsAreLabelled /\ FlushIsSensible /\ CopyIsGood
        /\ (Doomed \/ (InStep /\ (Whole \/ CutShort)))
    BY <1>3 DEF AudioInv, AudioLabels, requests
  <2>2. PacketsAreLabelled'
    BY <1>3, <2>1 DEF PacketsAreLabelled, requests
  <2>3. Awaited' => Awaited
    BY <1>1, <1>3 DEF Awaited
  <2>4. FlushIsSensible'
    BY <1>3, <2>1, <2>3 DEF FlushIsSensible, Timestamp
  <2>5. CopyIsGood'
    <3> SUFFICES ASSUME flush_is_delayed', ~Awaited'
                 PROVE  (flush_from_timestamp <= Timestamp(seq_no))'
      BY <1>1, <1>3 DEF CopyIsGood
    <3>1. Awaited /\ FlushHasBegun /\ flush_from_timestamp' = flush_from_ts
      BY <1>1, <1>3 DEF Awaited
    <3>2. /\ flush_from_seq <= seq_no /\ flush_from_ts <= Timestamp(flush_from_seq)
      BY <3>1, <2>1 DEF FlushHasBegun, Awaited, FlushIsSensible
    <3>3. /\ Timestamp(flush_from_seq) <= Timestamp(seq_no)
          /\ Timestamp(flush_from_seq) \in Int /\ Timestamp(seq_no) \in Int
          /\ flush_from_ts \in Int
      <4>1. flush_from_seq \in Int /\ seq_no \in Int /\ flush_from_ts \in Int
        BY <1>6 DEF AudioTypes
      <4>2. QED
        BY <3>2, <4>1, TimestampsAdvance
    <3>4. QED
      BY <3>1, <3>2, <3>3, <1>3 DEF Timestamp
  <2>6. CASE Doomed
    <3>1. /\ Awaited /\ flush_from_seq <= seq_no /\ seq_no < flush_until_seq /\ ~flushing
      BY <1>1, <2>6 DEF Doomed
    <3>2. FlushHasBegun /\ ~FlushIsOver
      BY <3>1, <1>6 DEF FlushHasBegun, FlushIsOver, Awaited, AudioTypes
    <3>3. Doomed'
      BY <1>1, <1>5, <3>1, <3>2 DEF Doomed
    <3>4. QED
      BY <3>3, <2>2, <2>4, <2>5
  <2>7. CASE InStep /\ (Whole \/ CutShort)
    <3>1. InStep'
      BY <1>2, <1>3, <2>7 DEF InStep
    <3>2. Whole => Whole'
      BY <1>2, <1>3 DEF Whole, Timestamp
    <3>3. CutShort => CutShort'
      <4> SUFFICES ASSUME CutShort PROVE CutShort'
        OBVIOUS
      <4>1. ~FlushHasBegun
        BY <1>6 DEF CutShort, Awaited, FlushHasBegun, AudioTypes
      <4>2. QED
        BY <4>1, <1>1, <1>3 DEF CutShort, Awaited
    <3>4. QED
      BY <3>1, <3>2, <3>3, <2>7, <2>2, <2>4, <2>5
  <2>8. QED
    BY <2>1, <2>6, <2>7
<1>13. QED
  BY <1>8, <1>9, <1>10, <1>11, <1>12 DEF AudioInv

LEMMA ResetPlayerStep ==
  ASSUME AudioInv, ResetPlayer
  PROVE  AudioInv'
<1> USE DEF ResetPlayer, orders, requests
<1>1. AudioTypes
  BY DEF AudioInv
<1>2. /\ flush_newly_requested => pcm' = <<>> /\ read_point' = 0 /\ packets_played' = FALSE
      /\ ~flush_newly_requested =>
           pcm' = pcm /\ read_point' = read_point /\ packets_played' = packets_played
  <2>1. CASE flush_newly_requested
    BY <2>1
  <2>2. CASE ~flush_newly_requested
    BY <2>2
  <2>3. QED
    BY <2>1, <2>2
<1>3. AudioTypes'
  <2>1. pcm' \in Seq(Int) /\ read_point' \in Nat /\ (pcm' # <<>> => pcm # <<>>)
    <3>1. pcm \in Seq(Int) /\ read_point \in Nat
      BY <1>1 DEF AudioTypes
    <3>2. CASE flush_newly_requested
      BY <1>2, <3>2, EmptySequence
    <3>3. CASE ~flush_newly_requested
      BY <1>2, <3>1, <3>3, Zenon
    <3>4. QED
      BY <3>2, <3>3
  <2>2. packets_played' \in BOOLEAN
    BY <1>1, <1>2, Zenon DEF AudioTypes
  <2>3. player_packets' \in Seq(Packets)
    BY EmptySequence
  <2>4. QED
    BY <1>1, <2>1, <2>2, <2>3 DEF AudioTypes
<1>4. AudioSizes' /\ AudioPhases'
  <2>1. AudioSizes /\ AudioPhases
    BY DEF AudioInv
  <2>2. Len(pcm') <= BlockFrames + PacketFrames /\ read_point' <= Len(pcm')
    <3>1. CASE flush_newly_requested
      BY <1>2, <3>1, EmptySequence, TimestampsAdvance
    <3>2. CASE ~flush_newly_requested
      BY <1>2, <3>2, <2>1 DEF AudioSizes
    <3>3. QED
      BY <3>1, <3>2
  <2>3. Len(player_packets') <= PlayerFull
    BY EmptySequence, BufferedAudioAssumption DEF BufferedAudioAssumption
  <2>4. QED
    BY <2>1, <2>2, <2>3 DEF AudioSizes, AudioPhases
<1>5. AudioFlushes'
  BY DEF AudioInv, AudioFlushes, AudioPhases, Timestamp
<1>6. AudioLabels'
  <2> SUFFICES ASSUME ~BadBlocks, ~replaced'
               PROVE  /\ PacketsAreLabelled' /\ FlushIsSensible' /\ CopyIsGood'
                      /\ (Doomed' \/ (InStep' /\ (Whole' \/ CutShort')))
    BY DEF AudioLabels
  <2>1. /\ FlushIsSensible /\ CopyIsGood /\ (Doomed \/ (InStep /\ (Whole \/ CutShort)))
    BY DEF AudioInv, AudioLabels
  <2>2. PacketsAreLabelled'
    BY DEF PacketsAreLabelled
  <2>3. FlushIsSensible' /\ CopyIsGood'
    BY <2>1 DEF FlushIsSensible, Awaited, CopyIsGood, Timestamp
  <2>4. CASE flush_newly_requested
    BY <2>2, <2>3, <2>4 DEF InStep, Whole
  <2>5. CASE ~flush_newly_requested
    <3>1. InStep /\ (Whole \/ CutShort)
      BY <2>1, <2>5 DEF Doomed
    <3>2. InStep' /\ (Whole' \/ CutShort')
      BY <2>5, <3>1 DEF InStep, Whole, CutShort, Awaited, Timestamp
    <3>3. QED
      BY <2>2, <2>3, <3>2
  <2>6. QED
    BY <2>4, <2>5
<1>7. QED
  BY <1>3, <1>4, <1>5, <1>6 DEF AudioInv

LEMMA FlushOrFullStep ==
  ASSUME AudioInv, FlushOrFull
  PROVE  AudioInv'
<1> USE DEF FlushOrFull, WithPlayer, ReadIf, orders, flags, pcm_buffer, requests
<1>1. AudioTypes /\ AudioTypes'
  BY DEF AudioInv, AudioTypes
<1>2. AudioSizes'
  <2>1. ~flushing => ~new_buffer_needed
    BY <1>1, BufferedAudioAssumption
    DEF AudioInv, AudioSizes, AudioTypes, BufferedAudioAssumption
  <2>2. QED
    BY <2>1 DEF AudioInv, AudioSizes
<1>3. AudioPhases' /\ AudioFlushes'
  BY DEF AudioInv, AudioPhases, AudioFlushes, Timestamp
<1>4. AudioLabels'
  BY DEF AudioInv, AudioLabels, PacketsAreLabelled, FlushIsSensible, Awaited, CopyIsGood,
         Doomed, InStep, Whole, CutShort, Timestamp
<1>5. QED
  BY <1>1, <1>2, <1>3, <1>4 DEF AudioInv

\* What SubSeq takes out of a sequence of numbers.
LEMMA Part ==
  ASSUME NEW q \in Seq(Int), NEW m \in Nat, NEW n \in Nat, m <= n, n <= Len(q)
  PROVE  /\ SubSeq(q, m + 1, n) \in Seq(Int) /\ Len(SubSeq(q, m + 1, n)) = n - m
         /\ \A k \in 1..n - m : SubSeq(q, m + 1, n)[k] = q[m + k]
<1>1. \A k \in m + 1..n : q[k] \in Int
  OBVIOUS
<1>2. SubSeq(q, m + 1, n) = [k \in 1..n - m |-> q[m + k]]
  OBVIOUS
<1>3. \A k \in 1..n - m : m + k \in m + 1..n
  OBVIOUS
<1>4. n - m \in Nat
  OBVIOUS
<1>5. [k \in 1..n - m |-> q[m + k]] \in Seq(Int)
  BY <1>1, <1>3, <1>4
<1>6. QED
  BY <1>2, <1>4, <1>5

LEMMA PutPacketStep ==
  ASSUME AudioInv, PutPacket
  PROVE  AudioInv'
<1> DEFINE lead == read_rtptime + AudioLine - time
<1> DEFINE frames == SubSeq(pcm, read_point + 1, read_point + PacketFrames)
<1> DEFINE packet == [rtptime |-> read_rtptime, frames |-> frames]
<1> DEFINE put == lead >= 0 /\ lead < MaxLead
<1>1. /\ place = "player" /\ place' = "orders" /\ ~play_newly_stopped
      /\ ~flush_newly_requested /\ ~flushing
      /\ Len(player_packets) <= PlayerFull /\ Len(pcm) - read_point >= PacketFrames
      /\ new_buffer_needed' = FALSE
  BY DEF PutPacket, WithPlayer, NoLongerNeeded, ReadIf, Remaining
<1>2. \/ /\ player_packets' = IF put THEN Append(player_packets, packet) ELSE player_packets
         /\ packets_played' = (packets_played \/ put)
         /\ read_rtptime' = read_rtptime + PacketFrames
         /\ read_point' = read_point + PacketFrames
      \/ /\ player_packets' = player_packets /\ packets_played' = packets_played
         /\ read_rtptime' = read_rtptime /\ read_point' = read_point
  <2>1. CASE play_enabled /\ anchored
    BY <2>1 DEF PutPacket
  <2>2. CASE ~(play_enabled /\ anchored)
    BY <2>2 DEF PutPacket
  <2>3. QED
    BY <2>1, <2>2
<1>3. UNCHANGED <<orders, seq_no, flags, pcm, time, requests>>
  BY DEF PutPacket
<1> HIDE DEF put
<1>4. put \in BOOLEAN
  BY DEF put
<1>5. AudioTypes
  BY DEF AudioInv
<1>6. /\ PacketFrames \in Nat /\ 0 < PacketFrames /\ read_point \in Nat /\ pcm \in Seq(Int)
      /\ Len(pcm) \in Nat /\ read_point + PacketFrames <= Len(pcm) /\ pcm # <<>>
      /\ read_rtptime \in Nat /\ player_packets \in Seq(Packets)
  <2>1. /\ PacketFrames \in Nat /\ 0 < PacketFrames /\ read_point \in Nat /\ pcm \in Seq(Int)
        /\ player_packets \in Seq(Packets)
    BY <1>5, TimestampsAdvance DEF AudioTypes
  <2>2. Len(pcm) \in Nat /\ read_point + PacketFrames <= Len(pcm)
    BY <1>1, <2>1
  <2>3. pcm # <<>>
    BY <2>1, <2>2, EmptySequence
  <2>4. QED
    BY <1>5, <2>1, <2>2, <2>3 DEF AudioTypes
<1>7. /\ frames \in Seq(Int)
      /\ \A k \in 1..PacketFrames : frames[k] = pcm[read_point + k]
  <2> DEFINE n == read_point + PacketFrames
  <2>1. n \in Nat /\ read_point <= n /\ n <= Len(pcm) /\ n - read_point = PacketFrames
    BY <1>6
  <2> HIDE DEF n
  <2>2. /\ SubSeq(pcm, read_point + 1, n) \in Seq(Int)
        /\ \A k \in 1..n - read_point : SubSeq(pcm, read_point + 1, n)[k] = pcm[read_point + k]
    BY <1>6, <2>1, Part
  <2>3. QED
    BY <2>1, <2>2 DEF n
<1> HIDE DEF frames
<1>8. packet \in Packets /\ packet.rtptime = read_rtptime /\ packet.frames = frames
  BY <1>6, <1>7 DEF Packets
<1> HIDE DEF packet
<1>9. /\ player_packets' \in Seq(Packets)
      /\ \A i \in DOMAIN player_packets' :
           \/ i \in DOMAIN player_packets /\ player_packets'[i] = player_packets[i]
           \/ player_packets'[i] = packet
  <2>1. CASE player_packets' = player_packets
    BY <1>6, <2>1
  <2>2. CASE player_packets' = Append(player_packets, packet)
    BY <1>6, <1>8, <2>2
  <2>3. QED
    BY <1>2, <2>1, <2>2
<1>10. read_rtptime' \in Nat /\ read_point' \in Nat /\ read_point' <= Len(pcm)
       /\ read_rtptime <= read_rtptime'
       /\ read_rtptime' - read_point' = read_rtptime - read_point
  BY <1>1, <1>2, <1>6
<1>11. AudioTypes'
  <2>1. packets_played' \in BOOLEAN
    BY <1>2, <1>4, <1>5, Zenon DEF AudioTypes
  <2>2. /\ place' \in {"start", "orders", "player", "read"}
        /\ new_buffer_needed' \in BOOLEAN /\ player_packets' \in Seq(Packets)
    BY <1>1, <1>9, Zenon
  <2>5. read_rtptime' \in Nat /\ read_rtptime' \in Int /\ read_point' \in Nat
    BY <1>10
  <2>3. UNCHANGED <<orders, seq_no, flags, pcm, time, requests>>
    BY <1>3
  <2>4. QED
    BY <1>5, <2>1, <2>2, <2>3, <2>5 DEF AudioTypes, orders, flags, requests
<1>12. AudioSizes'
  BY <1>1, <1>3, <1>10 DEF AudioInv, AudioSizes, flags
<1>13. AudioPhases'
  BY <1>1, <1>3 DEF AudioPhases, flags
<1>14. AudioFlushes'
  <2>1. /\ \A i \in DOMAIN player_packets : Timestamp(floor) <= player_packets[i].rtptime
        /\ floor <= seq_no /\ Timestamp(floor) <= read_rtptime
    BY <1>1, <1>6 DEF AudioInv, AudioFlushes
  <2>2. \A i \in DOMAIN player_packets' : Timestamp(floor) <= player_packets'[i].rtptime
    BY <1>8, <1>9, <2>1
  <2>3. Timestamp(floor) <= read_rtptime'
    <3>1. Timestamp(floor) \in Int
      BY <1>5, TimestampsAdvance DEF AudioTypes
    <3>2. QED
      BY <3>1, <1>6, <1>10, <2>1
  <2>4. QED
    BY <1>1, <1>3, <2>1, <2>2, <2>3 DEF AudioFlushes, flags, Timestamp
<1>15. AudioLabels'
  <2> SUFFICES ASSUME ~BadBlocks, ~replaced'
               PROVE  /\ PacketsAreLabelled' /\ FlushIsSensible' /\ CopyIsGood'
                      /\ (Doomed' \/ (InStep' /\ (Whole' \/ CutShort')))
    BY DEF AudioLabels
  <2>1. ~replaced
    BY <1>3 DEF requests
  <2>2. /\ PacketsAreLabelled /\ FlushIsSensible /\ CopyIsGood
        /\ InStep /\ (Whole \/ CutShort)
    BY <1>1, <2>1 DEF AudioInv, AudioLabels, Doomed
  <2>3. \A k \in 1..PacketFrames : packet.frames[k] = packet.rtptime + k - 1
    <3> SUFFICES ASSUME NEW k \in 1..PacketFrames
                 PROVE  frames[k] = read_rtptime + k - 1
      BY <1>8
    <3>1. frames[k] = pcm[read_point + k] /\ read_point + k \in 1..Len(pcm)
      BY <1>6, <1>7
    <3>2. pcm[read_point + k] = read_rtptime - read_point + (read_point + k) - 1
      BY <3>1, <2>2 DEF InStep
    <3>3. QED
      BY <3>1, <3>2, <1>6
  <2>4. PacketsAreLabelled'
    BY <1>9, <2>1, <2>2, <2>3 DEF PacketsAreLabelled
  <2>5. FlushIsSensible' /\ CopyIsGood'
    BY <1>3, <2>2 DEF FlushIsSensible, Awaited, CopyIsGood, Timestamp, orders, flags
  <2>6. InStep'
    BY <1>3, <1>10, <2>2 DEF InStep
  <2>7. Whole => Whole'
    BY <1>3, <1>10 DEF Whole, Timestamp
  <2>8. CutShort => CutShort'
    BY <1>3 DEF CutShort, Awaited, orders
  <2>9. QED
    BY <2>2, <2>4, <2>5, <2>6, <2>7, <2>8
<1>16. QED
  BY <1>11, <1>12, <1>13, <1>14, <1>15 DEF AudioInv

LEMMA NeedBufferStep ==
  ASSUME AudioInv, NeedBuffer
  PROVE  AudioInv'
<1>1. /\ place = "player" /\ place' = "read" /\ ~play_newly_stopped
      /\ ~flush_newly_requested /\ ~flushing
      /\ Len(player_packets) <= PlayerFull /\ Len(pcm) - read_point < PacketFrames
      /\ new_buffer_needed' = TRUE
      /\ pcm' = SubSeq(pcm, read_point + 1, Len(pcm)) /\ read_point' = 0
  BY DEF NeedBuffer, WithPlayer, ReadIf, Remaining
<1>2. UNCHANGED <<orders, seq_no, flags, read_rtptime, packets_played, player_packets, time,
                 requests>>
  BY DEF NeedBuffer
<1>3. AudioTypes
  BY DEF AudioInv
<1>4. /\ PacketFrames \in Nat /\ BlockFrames \in Nat /\ read_point \in Nat /\ pcm \in Seq(Int)
      /\ Len(pcm) \in Nat /\ read_point <= Len(pcm) /\ read_rtptime \in Int
  BY <1>3, TimestampsAdvance DEF AudioTypes, AudioInv, AudioSizes
<1>5. /\ pcm' \in Seq(Int) /\ Len(pcm') = Len(pcm) - read_point
      /\ \A k \in 1..Len(pcm') : pcm'[k] = pcm[read_point + k]
  <2> DEFINE n == Len(pcm)
  <2>1. n \in Nat /\ n <= Len(pcm) /\ read_point <= n
    BY <1>4
  <2> HIDE DEF n
  <2>2. /\ SubSeq(pcm, read_point + 1, n) \in Seq(Int)
        /\ Len(SubSeq(pcm, read_point + 1, n)) = n - read_point
        /\ \A k \in 1..n - read_point : SubSeq(pcm, read_point + 1, n)[k] = pcm[read_point + k]
    BY <1>4, <2>1, Part
  <2>3. QED
    BY <1>1, <2>2 DEF n
<1>6. pcm' # <<>> => pcm # <<>> /\ Len(pcm') > 0
  BY <1>4, <1>5, EmptySequence
<1>7. AudioTypes'
  BY <1>1, <1>2, <1>3, <1>5, <1>6 DEF AudioTypes, orders, flags, requests
<1>8. AudioSizes'
  <2>1. AudioSizes
    BY DEF AudioInv
  <2>2. Len(pcm') \in Nat /\ Len(pcm') < PacketFrames
    BY <1>1, <1>4, <1>5
  <2>3. QED
    BY <1>1, <1>2, <1>4, <2>1, <2>2 DEF AudioSizes, flags
<1>9. AudioPhases' /\ AudioFlushes'
  BY <1>1, <1>2, <1>6 DEF AudioInv, AudioPhases, AudioFlushes, flags, Timestamp
<1>10. AudioLabels'
  <2> SUFFICES ASSUME ~BadBlocks, ~replaced'
               PROVE  /\ PacketsAreLabelled' /\ FlushIsSensible' /\ CopyIsGood'
                      /\ (Doomed' \/ (InStep' /\ (Whole' \/ CutShort')))
    BY DEF AudioLabels
  <2>1. ~replaced
    BY <1>2 DEF requests
  <2>2. /\ PacketsAreLabelled /\ FlushIsSensible /\ CopyIsGood
        /\ InStep /\ (Whole \/ CutShort)
    BY <1>1, <2>1 DEF AudioInv, AudioLabels, Doomed
  <2>3. PacketsAreLabelled' /\ FlushIsSensible' /\ CopyIsGood'
    BY <1>2, <2>1, <2>2
    DEF PacketsAreLabelled, FlushIsSensible, Awaited, CopyIsGood, Timestamp, orders, flags
  <2>4. InStep'
    <3> SUFFICES ASSUME NEW k \in 1..Len(pcm')
                 PROVE  pcm'[k] = read_rtptime' - read_point' + k - 1
      BY DEF InStep
    <3>1. pcm'[k] = pcm[read_point + k] /\ read_point + k \in 1..Len(pcm)
      BY <1>4, <1>5
    <3>2. pcm[read_point + k] = read_rtptime - read_point + (read_point + k) - 1
      BY <3>1, <2>2 DEF InStep
    <3>3. QED
      BY <1>1, <1>2, <1>4, <3>1, <3>2
  <2>5. Whole => Whole'
    <3> SUFFICES ASSUME Whole, pcm' # <<>>
                 PROVE  read_rtptime - 0 + Len(pcm') = Timestamp(seq_no + 1)
      BY <1>1, <1>2 DEF Whole, Timestamp
    <3>1. read_rtptime - read_point + Len(pcm) = Timestamp(seq_no + 1)
      BY <1>6 DEF Whole
    <3>2. QED
      BY <3>1, <1>4, <1>5
  <2>6. CutShort => CutShort'
    BY <1>2 DEF CutShort, Awaited, orders
  <2>7. QED
    BY <2>2, <2>3, <2>4, <2>5, <2>6
<1>11. QED
  BY <1>7, <1>8, <1>9, <1>10 DEF AudioInv

\* A block is a run of frames from its timestamp on, of all its frames unless a deferred
\* flush cuts it short.
LEMMA DecodedFrames ==
  ASSUME AudioTypes, NEW s \in Nat, NEW start \in Int
  PROVE  \E n \in 0..BlockFrames :
           /\ Decoded(s, start) \in Seq(Int) /\ Len(Decoded(s, start)) = n
           /\ \A k \in 1..n : Decoded(s, start)[k] = Timestamp(s) + k - 1
           /\ \/ n = BlockFrames
              \/ /\ flush_is_delayed /\ start < flush_from_timestamp
                 /\ flush_from_timestamp < start + BlockFrames
<1> DEFINE left == flush_from_timestamp - start
<1> DEFINE cut == flush_is_delayed /\ left > 0 /\ left < BlockFrames
<1> DEFINE n == IF cut THEN left ELSE BlockFrames
<1>1. flush_from_timestamp \in Int /\ left \in Int /\ BlockFrames \in Nat
  BY TimestampsAdvance DEF AudioTypes
<1>2. /\ n \in 0..BlockFrames
      /\ \/ n = BlockFrames
         \/ /\ flush_is_delayed /\ start < flush_from_timestamp
            /\ flush_from_timestamp < start + BlockFrames
  <2>1. CASE cut
    BY <1>1, <2>1
  <2>2. CASE ~cut
    BY <1>1, <2>2
  <2>3. QED
    BY <2>1, <2>2
<1>3. Decoded(s, start) = [i \in 1..n |-> Timestamp(s) + i - 1]
  BY DEF Decoded
<1>4. Timestamp(s) \in Int
  BY TimestampsAdvance
<1> HIDE DEF n
<1>5. /\ Decoded(s, start) \in Seq(Int) /\ Len(Decoded(s, start)) = n
      /\ \A k \in 1..n : Decoded(s, start)[k] = Timestamp(s) + k - 1
  BY <1>2, <1>3, <1>4
<1>6. QED
  BY <1>2, <1>5

LEMMA Joined ==
  ASSUME NEW p \in Seq(Int), NEW q \in Seq(Int)
  PROVE  /\ p \o q \in Seq(Int) /\ Len(p \o q) = Len(p) + Len(q)
         /\ \A k \in 1..Len(p) : (p \o q)[k] = p[k]
         /\ \A k \in Len(p) + 1..Len(p) + Len(q) : (p \o q)[k] = q[k - Len(p)]
OBVIOUS

LEMMA ReadBlockStep ==
  ASSUME AudioInv, NEW good \in {TRUE, ~BadBlocks}, ReadBlock(good)
  PROVE  AudioInv'
<1> DEFINE s == seq_no + 1
<1> DEFINE soon == TooSoonAfterConnection(s)
<1> DEFINE emptied == flushing \/ Outdated(s) \/ soon
<1> DEFINE kept == IF emptied THEN <<>> ELSE pcm
<1> DEFINE start == IF kept = <<>> THEN RestartAt(s) ELSE read_rtptime
<1> DEFINE used == good /\ ~soon /\ IF flushing THEN s = flushUntilSeq ELSE new_buffer_needed
<1>1. /\ place = "read" /\ place' = "orders" /\ seq_no' = s /\ read_rtptime' = start
      /\ read_point' = IF kept = <<>> THEN 0 ELSE read_point
      /\ pcm' = IF used THEN kept \o Decoded(s, start) ELSE kept
  BY DEF ReadBlock
<1>2. UNCHANGED <<orders, flags, new_buffer_needed, packets_played, player_packets, time,
                 requests>>
  BY DEF ReadBlock
<1>3. AudioTypes /\ AudioSizes /\ AudioPhases
  BY DEF AudioInv
<1>4. s \in Nat /\ s = seq_no + 1 /\ seq_no \in Nat
  BY <1>3 DEF AudioTypes
<1>5. kept = <<>> \/ (kept = pcm /\ ~flushing /\ ~soon)
  OBVIOUS
<1>6. kept # <<>> /\ ~BadBlocks => used
  BY <1>1, <1>3, <1>5 DEF AudioSizes
<1> HIDE DEF soon, emptied, used
<1>7. /\ BlockFrames \in Nat /\ PacketFrames \in Nat /\ PacketFrames <= BlockFrames
      /\ Timestamp(s) \in Int /\ Timestamp(seq_no) \in Int
      /\ Timestamp(s) = Timestamp(seq_no) + BlockFrames
      /\ Timestamp(seq_no') = Timestamp(s)
  <2> HIDE DEF s
  <2>1. s \in Int /\ seq_no \in Int
    BY <1>4
  <2>2. Timestamp(seq_no') = Timestamp(s)
    BY <1>1
  <2>3. Timestamp(seq_no + 1) = Timestamp(seq_no) + BlockFrames
    BY <2>1, TimestampsAdvance
  <2>4. QED
    BY <1>4, <2>1, <2>2, <2>3, TimestampsAdvance
<1>8. Timestamp(s) \in Nat
  <2> HIDE DEF s
  <2>1. Timestamp(1) <= Timestamp(s)
    <3>1. 1 <= s /\ 1 \in Int /\ s \in Int
      BY <1>4
    <3>2. QED
      BY <3>1, TimestampsAdvance
  <2>2. QED
    BY <2>1, <1>7, TimestampsAdvance
<1>9. /\ kept = <<>> => start = Timestamp(s) /\ read_point' = 0
      /\ kept # <<>> => start = read_rtptime /\ read_point' = read_point
      /\ start \in Nat
  <2>1. kept # <<>> => pcm # <<>>
    BY <1>5
  <2>2. kept # <<>> => read_rtptime \in Nat
    BY <2>1, <1>3 DEF AudioTypes
  <2> HIDE DEF kept, s
  <2>3. CASE kept = <<>>
    BY <1>1, <1>8, <2>3 DEF RestartAt
  <2>4. CASE kept # <<>>
    BY <1>1, <2>2, <2>4
  <2>5. QED
    BY <2>3, <2>4
<1>10. /\ kept \in Seq(Int) /\ Len(kept) \in Nat /\ Len(kept) <= PacketFrames
       /\ kept # <<>> => Len(kept) < PacketFrames /\ 0 < Len(kept) /\ read_point = 0
  <2>1. CASE kept = <<>>
    <3> HIDE DEF kept
    <3>1. QED
      BY <1>7, <2>1, EmptySequence
  <2>2. CASE kept # <<>>
    <3>1. kept = pcm /\ ~flushing /\ pcm \in Seq(Int)
      BY <1>3, <1>5, <2>2 DEF AudioTypes
    <3>2. Len(pcm) < PacketFrames /\ read_point = 0
      BY <1>1, <1>3, <3>1 DEF AudioSizes
    <3> HIDE DEF kept
    <3>3. QED
      BY <1>7, <2>2, <3>1, <3>2
  <2>3. QED
    BY <2>1, <2>2
<1> HIDE DEF kept, start, s
<1>11. PICK n \in 0..BlockFrames :
         /\ Decoded(s, start) \in Seq(Int) /\ Len(Decoded(s, start)) = n
         /\ \A k \in 1..n : Decoded(s, start)[k] = Timestamp(s) + k - 1
         /\ \/ n = BlockFrames
            \/ /\ flush_is_delayed /\ start < flush_from_timestamp
               /\ flush_from_timestamp < start + BlockFrames
  <2>1. AudioTypes /\ s \in Nat /\ start \in Int
    BY <1>3, <1>4, <1>9
  <2>2. QED
    BY <2>1, DecodedFrames
<1> DEFINE block == Decoded(s, start)
<1> HIDE DEF block
<1>12. /\ block \in Seq(Int) /\ Len(block) = n
       /\ \A k \in 1..n : block[k] = Timestamp(s) + k - 1
       /\ pcm' = IF used THEN kept \o block ELSE kept
  BY <1>1, <1>11 DEF block
<1>13. /\ used => /\ pcm' \in Seq(Int) /\ Len(pcm') = Len(kept) + n
                  /\ \A k \in 1..Len(kept) : pcm'[k] = kept[k]
                  /\ \A k \in Len(kept) + 1..Len(kept) + n :
                       pcm'[k] = Timestamp(s) + (k - Len(kept)) - 1
       /\ ~used => pcm' = kept
  <2>1. CASE used
    <3>1. pcm' = kept \o block
      BY <1>12, <2>1
    <3>2. /\ kept \o block \in Seq(Int) /\ Len(kept \o block) = Len(kept) + n
          /\ \A k \in 1..Len(kept) : (kept \o block)[k] = kept[k]
          /\ \A k \in Len(kept) + 1..Len(kept) + n : (kept \o block)[k] = block[k - Len(kept)]
      BY <1>7, <1>10, <1>12, Joined
    <3>3. ASSUME NEW k \in Len(kept) + 1..Len(kept) + n
          PROVE  (kept \o block)[k] = Timestamp(s) + (k - Len(kept)) - 1
      <4>1. k - Len(kept) \in 1..n
        BY <1>7, <1>10
      <4>2. (kept \o block)[k] = block[k - Len(kept)]
        BY <3>2
      <4>3. QED
        BY <1>12, <4>1, <4>2
    <3>4. QED
      BY <2>1, <3>1, <3>2, <3>3
  <2>2. CASE ~used
    BY <1>12, <2>2
  <2>3. QED
    BY <2>1, <2>2
<1>14. pcm' \in Seq(Int) /\ Len(pcm') <= BlockFrames + PacketFrames
  <2>1. CASE used
    BY <1>7, <1>10, <1>13, <2>1
  <2>2. CASE ~used
    BY <1>7, <1>10, <1>13, <2>2
  <2>3. QED
    BY <2>1, <2>2
<1>15. AudioTypes'
  <2>1. /\ place' \in {"start", "orders", "player", "read"} /\ seq_no' \in Nat
        /\ read_rtptime' \in Nat /\ read_rtptime' \in Int /\ read_point' \in Nat
        /\ pcm' \in Seq(Int)
    BY <1>1, <1>3, <1>4, <1>9, <1>14 DEF AudioTypes
  <2>2. QED
    BY <1>2, <1>3, <2>1 DEF AudioTypes, orders, flags, requests
<1>16. AudioSizes'
  <2>1. read_point' = 0
    BY <1>9, <1>10
  <2>2. Len(pcm') \in Nat
    BY <1>14
  <2>3. QED
    BY <1>1, <1>2, <1>3, <1>14, <2>1, <2>2 DEF AudioSizes, flags
<1>17. AudioPhases'
  BY <1>1, <1>2, <1>3 DEF AudioPhases, flags
<1>18. AudioFlushes'
  <2>1. ~flush_newly_requested
    BY <1>1, <1>3 DEF AudioPhases
  <2>2. /\ \A i \in DOMAIN player_packets : Timestamp(floor) <= player_packets[i].rtptime
        /\ flushing => player_packets = <<>>
        /\ ~flushing => floor <= seq_no /\ (pcm # <<>> => Timestamp(floor) <= read_rtptime)
    BY <2>1 DEF AudioInv, AudioFlushes
  <2>3. floor \in Nat /\ floor \in Int /\ s \in Int /\ Timestamp(floor) \in Int
    BY <1>3, <1>4, TimestampsAdvance DEF AudioTypes
  <2>4. ~flushing => floor <= s /\ Timestamp(floor) <= start
    <3> SUFFICES ASSUME ~flushing PROVE floor <= s /\ Timestamp(floor) <= start
      OBVIOUS
    <3>1. floor <= s
      BY <1>4, <2>2, <2>3
    <3>2. Timestamp(floor) <= Timestamp(s)
      BY <2>3, <3>1, TimestampsAdvance
    <3>3. QED
      BY <1>5, <1>9, <2>2, <3>1, <3>2
  <2>5. flushing => Timestamp(seq_no') <= read_rtptime'
    BY <1>1, <1>5, <1>7, <1>9
  <2>6. QED
    BY <1>1, <1>2, <2>2, <2>4, <2>5 DEF AudioFlushes, flags, Timestamp
<1>19. AudioLabels'
  <2> SUFFICES ASSUME ~BadBlocks, ~replaced'
               PROVE  /\ PacketsAreLabelled' /\ FlushIsSensible' /\ CopyIsGood'
                      /\ (Doomed' \/ (InStep' /\ (Whole' \/ CutShort')))
    BY DEF AudioLabels
  <2>1. ~replaced
    BY <1>2 DEF requests
  <2>2. /\ PacketsAreLabelled /\ FlushIsSensible /\ CopyIsGood
        /\ InStep /\ (Whole \/ CutShort)
    BY <1>1, <2>1 DEF AudioInv, AudioLabels, Doomed
  <2>3. PacketsAreLabelled' /\ FlushIsSensible'
    BY <1>2, <2>1, <2>2
    DEF PacketsAreLabelled, FlushIsSensible, Awaited, Timestamp, orders, flags
  <2>4. Awaited' = Awaited
    BY <1>2, Zenon DEF Awaited, orders
  <2>5. CopyIsGood'
    <3>1. flush_from_timestamp \in Int
      BY <1>3 DEF AudioTypes
    <3>2. flush_from_timestamp <= Timestamp(seq_no) =>
            flush_from_timestamp <= Timestamp(seq_no')
      BY <3>1, <1>7
    <3>3. QED
      BY <1>2, <2>2, <3>2 DEF CopyIsGood, Awaited, Timestamp, orders, flags
  <2>6. Doomed' \/ (InStep' /\ (Whole' \/ CutShort'))
    <3>1. CASE ~used
      <4>1. kept = <<>> /\ pcm' = <<>>
        BY <1>6, <1>13, <3>1
      <4>2. InStep' /\ Whole'
        BY <4>1, EmptySequence DEF InStep, Whole
      <4>3. QED
        BY <4>2
    <3>2. CASE used /\ kept # <<>> /\ CutShort
      <4>1. /\ Awaited' /\ flush_from_seq' = s /\ seq_no' = s /\ place' = "orders"
            /\ ~flushing'
        BY <1>1, <1>2, <1>4, <1>5, <2>4, <3>2 DEF CutShort, orders, flags
      <4>2. flush_from_seq' < flush_until_seq'
        BY <2>3, <4>1 DEF FlushIsSensible
      <4>3. Doomed'
        BY <4>1, <4>2, <1>4 DEF Doomed
      <4>4. QED
        BY <4>3
    <3>3. CASE used /\ (kept = <<>> \/ (kept # <<>> /\ Whole))
      <4>1. start = Timestamp(s) - Len(kept)
        <5>1. CASE kept = <<>>
          BY <1>7, <1>9, <5>1, EmptySequence
        <5>2. CASE kept # <<>>
          <6>1. kept = pcm /\ read_point = 0 /\ Whole /\ start = read_rtptime
            BY <1>5, <1>9, <1>10, <3>3, <5>2
          <6>2. read_rtptime - 0 + Len(kept) = Timestamp(s)
            BY <1>4, <5>2, <6>1 DEF Whole
          <6>3. QED
            BY <6>1, <6>2, <1>3, <1>10, <1>7 DEF AudioTypes
        <5>3. QED
          BY <5>1, <5>2
      <4>2. InStep'
        <5> SUFFICES ASSUME NEW k \in 1..Len(pcm')
                     PROVE  pcm'[k] = start - 0 + k - 1
          BY <1>1, <1>9, <1>10 DEF InStep
        <5>1. CASE k \in 1..Len(kept)
          <6>1. kept # <<>>
            BY <5>1, EmptySequence
          <6>2. kept = pcm /\ read_point = 0 /\ start = read_rtptime
            BY <6>1, <1>5, <1>9, <1>10
          <6>3. pcm'[k] = pcm[k]
            BY <5>1, <6>2, <1>13, <3>3
          <6>4. pcm[k] = read_rtptime - read_point + k - 1
            BY <2>2, <5>1, <6>2 DEF InStep
          <6>5. QED
            BY <6>2, <6>3, <6>4
        <5>2. CASE k \in Len(kept) + 1..Len(kept) + n
          <6>1. pcm'[k] = Timestamp(s) + (k - Len(kept)) - 1
            BY <5>2, <1>13, <3>3
          <6>2. QED
            BY <6>1, <4>1, <1>7, <1>10
        <5>3. QED
          BY <5>1, <5>2, <1>10, <1>13, <3>3
      <4>3. CASE n = BlockFrames
        <5>1. s \in Int /\ Timestamp(s + 1) = Timestamp(s) + BlockFrames
          BY <1>4, TimestampsAdvance
        <5>2. Timestamp(seq_no' + 1) = Timestamp(s) + BlockFrames
          BY <1>1, <5>1
        <5>3. start - 0 + Len(pcm') = Timestamp(s) + BlockFrames
          <6>1. Len(pcm') = Len(kept) + BlockFrames
            BY <4>3, <1>13, <3>3
          <6>2. start \in Int
            BY <1>9
          <6>3. QED
            BY <6>1, <6>2, <4>1, <1>7, <1>10
        <5>4. read_rtptime' = start /\ read_point' = 0
          BY <1>1, <1>9, <1>10
        <5>5. Whole'
          BY <5>2, <5>3, <5>4 DEF Whole
        <5>6. QED
          BY <5>5, <4>2
      <4>4. CASE n # BlockFrames
        <5>1. /\ flush_is_delayed /\ start < flush_from_timestamp
              /\ flush_from_timestamp < start + BlockFrames
          BY <4>4, <1>11
        <5>2. flush_from_timestamp \in Int /\ flush_from_seq \in Int
              /\ flush_until_seq \in Int
          BY <1>3 DEF AudioTypes
        <5>3. Timestamp(seq_no) < flush_from_timestamp
              /\ flush_from_timestamp < Timestamp(s) + BlockFrames
              /\ (kept = <<>> => Timestamp(s) < flush_from_timestamp)
          <6>1. start \in Int
            BY <1>9
          <6>2. kept = <<>> => Len(kept) = 0
            BY EmptySequence
          <6>3. Len(kept) <= BlockFrames /\ Len(kept) \in Nat
            BY <1>7, <1>10
          <6>4. QED
            BY <4>1, <5>1, <5>2, <6>1, <6>2, <6>3, <1>7
        <5>4. Awaited /\ flush_from_timestamp = flush_from_ts
          BY <2>2, <5>1, <5>2, <5>3, <1>7 DEF CopyIsGood
        <5>5. /\ flush_from_seq < flush_until_seq
              /\ Timestamp(flush_from_seq) - BlockFrames < flush_from_timestamp
              /\ flush_from_timestamp <= Timestamp(flush_from_seq)
          BY <2>2, <5>4 DEF FlushIsSensible
        <5>6. Timestamp(flush_from_seq) \in Int
          BY <5>2, TimestampsAdvance
        <5>7. ~(s + 2 <= flush_from_seq)
          <6> SUFFICES ASSUME s + 2 <= flush_from_seq PROVE FALSE
            OBVIOUS
          <6>1. /\ s \in Int /\ s + 1 \in Int /\ s + 2 \in Int /\ (s + 1) + 1 = s + 2
            BY <1>4
          <6>2. /\ Timestamp(s + 1) = Timestamp(s) + BlockFrames
                /\ Timestamp((s + 1) + 1) = Timestamp(s + 1) + BlockFrames
            BY <6>1, TimestampsAdvance
          <6>3. Timestamp(s + 2) <= Timestamp(flush_from_seq)
            BY <5>2, <6>1, TimestampsAdvance
          <6>4. Timestamp(s) + BlockFrames + BlockFrames <= Timestamp(flush_from_seq)
            BY <6>1, <6>2, <6>3
          <6>5. QED
            BY <5>2, <5>3, <5>5, <5>6, <6>4, <1>7
        <5>8. ~(flush_from_seq <= seq_no)
          <6> SUFFICES ASSUME flush_from_seq <= seq_no PROVE FALSE
            OBVIOUS
          <6>1. Timestamp(flush_from_seq) <= Timestamp(seq_no)
            BY <5>2, <1>4, TimestampsAdvance
          <6>2. QED
            BY <6>1, <5>2, <5>3, <5>5, <5>6, <1>7
        <5>9. flush_from_seq = s \/ flush_from_seq = s + 1
          BY <5>2, <5>7, <5>8, <1>4
        <5>10. kept = <<>> => flush_from_seq = s + 1
          <6> SUFFICES ASSUME kept = <<>>, flush_from_seq = s PROVE FALSE
            BY <5>9
          <6>1. QED
            BY <5>2, <5>3, <5>5, <1>7
        <5>11. CASE flush_from_seq = s + 1
          <6>1. CutShort'
            BY <5>11, <5>4, <2>4, <1>1, <1>2 DEF CutShort, orders
          <6>2. QED
            BY <6>1, <4>2
        <5>12. CASE flush_from_seq = s
          <6>1. kept # <<>>
            BY <5>10, <5>12, <1>4
          <6>2. /\ ~flushing' /\ Awaited' /\ place' = "orders" /\ seq_no' = s
                /\ flush_from_seq' = s /\ s < flush_until_seq'
            BY <6>1, <5>4, <5>5, <5>12, <2>4, <1>1, <1>2, <1>5 DEF orders, flags
          <6>3. Doomed'
            BY <6>2, <1>4 DEF Doomed
          <6>4. QED
            BY <6>3
        <5>13. QED
          BY <5>9, <5>11, <5>12
      <4>5. QED
        BY <4>3, <4>4
    <3>4. QED
      BY <2>2, <3>1, <3>2, <3>3
  <2>7. QED
    BY <2>3, <2>5, <2>6
<1>20. QED
  BY <1>15, <1>16, <1>17, <1>18, <1>19 DEF AudioInv

LEMMA AudioInvStep ==
  ASSUME AudioInv, [AudioNext]_avars
  PROVE  AudioInv'
<1>1. ASSUME NEW until \in 1..NumBlocks, handle_flushbuffered(FALSE, 0, 0, until)
      PROVE  AudioInv'
  <2>1. until \in Nat
    BY BufferedAudioAssumption DEF BufferedAudioAssumption
  <2>2. FALSE \in BOOLEAN /\ 0 \in Nat /\ 0 \in Int /\ ~FALSE
    OBVIOUS
  <2>3. QED
    BY <1>1, <2>1, <2>2, FlushStep, Zenon
<1>2. ASSUME NEW from \in 1..NumBlocks, NEW until \in 1..NumBlocks,
             NEW cut \in 0..BlockFrames - 1, from < until,
             handle_flushbuffered(TRUE, from, Timestamp(from) - cut, until)
      PROVE  AudioInv'
  <2> DEFINE ts == Timestamp(from) - cut
  <2>1. from \in Nat /\ until \in Nat /\ from \in Int
    BY BufferedAudioAssumption DEF BufferedAudioAssumption
  <2>2. /\ ts \in Int /\ Timestamp(from) - BlockFrames < ts /\ ts <= Timestamp(from)
    <3>1. Timestamp(from) \in Int /\ BlockFrames \in Nat
      BY <2>1, TimestampsAdvance
    <3>2. QED
      BY <3>1
  <2> HIDE DEF ts
  <2>3. handle_flushbuffered(TRUE, from, ts, until)
    BY <1>2 DEF ts
  <2>4. QED
    BY <1>2, <2>1, <2>2, <2>3, FlushStep
<1>3. ASSUME NEW rate \in BOOLEAN, handle_setrateanchori(rate)
      PROVE  AudioInv'
  BY <1>3, SetRateStep
<1>4. ASSUME NEW good \in {TRUE, ~BadBlocks}, ReadBlock(good)
      PROVE  AudioInv'
  BY <1>4, ReadBlockStep
<1>5. CASE UNCHANGED avars
  <2> USE <1>5 DEF avars, orders, flags, pcm_buffer, requests
  <2>1. AudioTypes'
    BY DEF AudioInv, AudioTypes
  <2>2. AudioSizes' /\ AudioPhases' /\ AudioFlushes'
    BY DEF AudioInv, AudioSizes, AudioPhases, AudioFlushes, Timestamp
  <2>3. AudioLabels'
    BY DEF AudioInv, AudioLabels, PacketsAreLabelled, FlushIsSensible, Awaited, CopyIsGood,
           Doomed, InStep, Whole, CutShort, Timestamp
  <2>4. QED
    BY <2>1, <2>2, <2>3 DEF AudioInv
<1>6. QED
  BY <1>1, <1>2, <1>3, <1>4, <1>5, StartProcessorStep, TakeOrdersStep, ResetPlayerStep,
     FlushOrFullStep, PutPacketStep, NeedBufferStep, TakePacketStep, AudioTickStep
  DEF AudioNext

LEMMA AudioInvMeans ==
  ASSUME AudioInv, ~BadBlocks
  PROVE  AudioAsAsked
<1>1. PcmBufferSuffices
  BY DEF AudioInv, AudioSizes, PcmBufferSuffices
<1>2. PacketsAreLabelled
  BY DEF AudioInv, AudioLabels, PacketsAreLabelled
<1>3. FlushedIsNotPlayed
  <2> SUFFICES ASSUME WithPlayer \/ place \in {"read", "orders"},
                      NEW i \in DOMAIN player_packets
               PROVE  BlockOf(player_packets[i].rtptime) >= floor
    BY DEF FlushedIsNotPlayed
  <2>1. ~flush_newly_requested
    BY DEF WithPlayer, AudioInv, AudioPhases
  <2>2. Timestamp(floor) <= player_packets[i].rtptime
    BY <2>1 DEF AudioInv, AudioFlushes
  <2>3. player_packets[i].rtptime \in Nat /\ floor \in Nat
    <3>1. player_packets \in Seq(Packets) /\ floor \in Nat
      BY DEF AudioInv, AudioTypes
    <3>2. player_packets[i] \in Packets
      BY <3>1
    <3>3. QED
      BY <3>1, <3>2 DEF Packets
  <2> DEFINE frame == player_packets[i].rtptime
  <2> HIDE DEF frame
  <2>4. frame \in Nat /\ Timestamp(floor) <= frame
    BY <2>2, <2>3 DEF frame
  <2>5. floor <= BlockOf(frame)
    BY <2>3, <2>4, FramesInOrder
  <2>6. BlockOf(frame) \in Int
    <3>1. ASSUME NEW x \in Nat, NEW b \in Nat, 0 < b
          PROVE  x \div b + 1 \in Int
      BY <3>1
    <3>2. BlockFrames \in Nat /\ 0 < BlockFrames
      BY TimestampsAdvance
    <3>3. QED
      BY <2>4, <3>1, <3>2 DEF BlockOf
  <2>7. BlockOf(frame) >= floor
    BY <2>3, <2>5, <2>6
  <2>8. QED
    BY <2>7 DEF frame
<1>4. QED
  BY <1>1, <1>2, <1>3 DEF AudioAsAsked

\* The processor gives the player the audio that was asked for, whatever the sizes of
\* blocks and packets and however flushes, pauses and anchors come between its steps: the
\* pcm buffer never overflows; every packet holds the frames its timestamp names as long as
\* no request has replaced a pending deferred flush; and no packet of a flushed block is
\* left once the flush has been acted on (rtp_buffered_audio_processor,
\* handle_flushbuffered).
THEOREM AudioIsAsAsked == ~BadBlocks => (AudioSpec => []AudioAsAsked)
<1> SUFFICES ASSUME ~BadBlocks PROVE AudioSpec => []AudioAsAsked
  OBVIOUS
<1>1. AudioInit => AudioInv
  BY AudioInvInit
<1>2. AudioInv /\ [AudioNext]_avars => AudioInv'
  BY AudioInvStep
<1>3. AudioInv => AudioAsAsked
  BY AudioInvMeans
<1>4. QED
  BY <1>1, <1>2, <1>3, PTL DEF AudioSpec
=============================================================================
