--------------------------- MODULE BufferedAudio ----------------------------
(***************************************************************************)
(* The processor of AirPlay 2 buffered audio                               *)
(* (rtp_buffered_audio_processor, src/src/rtp.c): it takes blocks from the *)
(* stream, decodes them into a pcm buffer, cuts packets off it for the     *)
(* player, and obeys the flush requests and the play and pause commands    *)
(* that the RTSP thread leaves for it (handle_flushbuffered and            *)
(* handle_setrateanchori, src/src/rtsp.c).                                 *)
(*                                                                         *)
(* Block s holds the frames (s-1)*BlockFrames .. s*BlockFrames-1, and its  *)
(* timestamp is the first of them.  A frame lasts a tick and frame f is to *)
(* be played at f + Line.  An iteration of the processor's loop is three   *)
(* steps: what it does under flush_mutex, what it does with the player,    *)
(* and the reading and decoding of a block.  The player's buffer is the    *)
(* sequence of the packets put into it.                                    *)
(***************************************************************************)
EXTENDS Integers, Sequences

CONSTANTS
  BlockFrames, PacketFrames,   \* 1024 and 352
  PlayerFull,                  \* packets in the player that are enough (0.4 s)
  MaxLead,                     \* a lead time longer than this is not sensible (30 s)
  TooSoonTime,                 \* the start of the connection (2 s)
  BadBlocks,                   \* may a block fail to decrypt?
  AudioLine, NumBlocks, MaxAudioTime, MaxRequests

ASSUME BufferedAudioAssumption ==
  /\ BlockFrames \in Nat /\ PacketFrames \in 1..BlockFrames /\ BadBlocks \in BOOLEAN
  /\ {PlayerFull, MaxLead, TooSoonTime, AudioLine, NumBlocks, MaxAudioTime, MaxRequests} \subseteq Nat

VARIABLES
  ap2_flush_requested, ap2_flush_from_valid, flush_from_seq, flush_from_ts,
  flush_until_seq, ap2_play_enabled, anchored,       \* set by the RTSP thread
  place, seq_no, flushing, play_enabled, new_buffer_needed, flush_is_delayed,
  flush_newly_requested, play_newly_stopped,
  pcm, read_point, read_rtptime, packets_played,     \* the processor's own
  player_packets,                                            \* the packets in the player
  flushUntilSeq, flush_from_timestamp,       \* its copies of the end and start of a flush
  time, flush_requests,
  floor,                      \* history: the first block the last flush leaves
  replaced                    \* history: a request has replaced a deferred flush

orders == <<ap2_flush_requested, ap2_flush_from_valid, flush_from_seq, flush_from_ts,
            flush_until_seq, ap2_play_enabled, anchored>>
flags == <<flushing, play_enabled, flush_is_delayed, flush_newly_requested,
           play_newly_stopped, flushUntilSeq, flush_from_timestamp, floor>>
requests == <<flush_requests, replaced>>
pcm_buffer == <<pcm, read_point, read_rtptime, packets_played>>
avars == <<orders, place, seq_no, flags, new_buffer_needed, pcm_buffer, player_packets, time,
           requests>>

AudioInit ==
  /\ ap2_flush_requested = FALSE /\ ap2_flush_from_valid = FALSE
  /\ flush_from_seq = 0 /\ flush_from_ts = 0 /\ flush_until_seq = 0
  /\ ap2_play_enabled = FALSE /\ anchored = FALSE
  /\ place = "start" /\ seq_no = 0 /\ flushing = FALSE /\ play_enabled = FALSE
  /\ new_buffer_needed = FALSE /\ flush_is_delayed = FALSE
  /\ flush_newly_requested = FALSE /\ play_newly_stopped = FALSE
  /\ pcm = <<>> /\ read_point = 0 /\ read_rtptime = 0 /\ packets_played = FALSE
  /\ player_packets = <<>> /\ time = 0 /\ flush_requests = 0 /\ floor = 0
  /\ flushUntilSeq = 0 /\ flush_from_timestamp = 0 /\ replaced = FALSE
-----------------------------------------------------------------------------
Timestamp(s) == (s - 1) * BlockFrames
BlockOf(frame) == frame \div BlockFrames + 1

\* A flush without a starting point stops play.  A second deferred flush moves only the
\* end of the first.
handle_flushbuffered(deferred, from, ts, until) ==
  /\ flush_requests < MaxRequests /\ flush_requests' = flush_requests + 1
  /\ ap2_play_enabled' = (ap2_play_enabled /\ deferred)
  /\ flush_until_seq' = until
  /\ IF ap2_flush_requested /\ ap2_flush_from_valid /\ deferred
     THEN UNCHANGED <<flush_from_seq, flush_from_ts>>
     ELSE flush_from_seq' = from /\ flush_from_ts' = ts
  /\ ap2_flush_from_valid' = deferred /\ ap2_flush_requested' = TRUE
  /\ replaced' = (replaced \/ (ap2_flush_requested /\ ap2_flush_from_valid))
  /\ UNCHANGED <<anchored, place, seq_no, flags, new_buffer_needed, pcm_buffer, player_packets,
                 time>>

\* Rate 1 comes with an anchor; rate 0 resets it.
handle_setrateanchori(rate) ==
  /\ flush_requests < MaxRequests /\ flush_requests' = flush_requests + 1
  /\ ap2_play_enabled' = rate /\ anchored' = rate
  /\ UNCHANGED <<ap2_flush_requested, ap2_flush_from_valid, flush_from_seq,
                 flush_from_ts, flush_until_seq, place, seq_no, flags,
                 new_buffer_needed, pcm_buffer, player_packets, time,
                 replaced>>
-----------------------------------------------------------------------------
\* The processor starts once there is timing information, with a reset player.
StartProcessor ==
  /\ place = "start" /\ anchored /\ place' = "orders" /\ player_packets' = <<>>
  /\ UNCHANGED <<orders, seq_no, flags, new_buffer_needed, pcm_buffer, time,
                 requests>>

FlushHasBegun ==
  ap2_flush_requested /\ (ap2_flush_from_valid => flush_from_seq <= seq_no)

\* Mutant: a flush is over one block early.
FlushIsOverEarly == seq_no # 0 /\ seq_no + 1 >= flush_until_seq

FlushIsOver == seq_no # 0 /\ seq_no >= flush_until_seq

\* Under flush_mutex: what the RTSP thread wants, against what has been read so far.
TakeOrders ==
  LET active == FlushHasBegun /\ ~FlushIsOver
      stopped == play_enabled /\ ~ap2_play_enabled
  IN
  /\ place = "orders" /\ place' = "player"
  /\ ap2_flush_requested' = (ap2_flush_requested /\ ~(FlushHasBegun /\ FlushIsOver))
  /\ flushUntilSeq' = flush_until_seq
  /\ flush_is_delayed' = (ap2_flush_requested /\ ap2_flush_from_valid)
  /\ flush_from_timestamp' = IF flush_is_delayed' THEN flush_from_ts ELSE flush_from_timestamp
  /\ flush_newly_requested' = (active /\ ~flushing)
  /\ flushing' = active
  /\ play_enabled' = ap2_play_enabled /\ play_newly_stopped' = stopped
  /\ floor' = CASE FlushHasBegun /\ (active \/ flushing) -> flush_until_seq
              [] flushing /\ ~FlushHasBegun -> 0    \* replaced by a later, deferred one
              [] OTHER -> floor
  /\ IF stopped THEN /\ pcm' = <<>> /\ read_point' = 0 /\ packets_played' = FALSE
                ELSE UNCHANGED <<pcm, read_point, packets_played>>
  /\ UNCHANGED <<ap2_flush_from_valid, flush_from_seq, flush_from_ts, flush_until_seq,
                 ap2_play_enabled, anchored, seq_no, new_buffer_needed, read_rtptime,
                 player_packets, time, requests>>

\* Outside flush_mutex: the player is reset, the pcm buffer emptied.
ResetPlayer ==
  /\ place = "player" /\ (play_newly_stopped \/ flush_newly_requested)
  /\ play_newly_stopped' = FALSE /\ flush_newly_requested' = FALSE
  /\ player_packets' = <<>>
  /\ IF flush_newly_requested
     THEN pcm' = <<>> /\ read_point' = 0 /\ packets_played' = FALSE
     ELSE UNCHANGED <<pcm, read_point, packets_played>>
  /\ UNCHANGED <<orders, place, seq_no, flushing, play_enabled, flush_is_delayed, floor,
                 flushUntilSeq, flush_from_timestamp,
                 new_buffer_needed, read_rtptime, time, requests>>

WithPlayer == place = "player" /\ ~play_newly_stopped /\ ~flush_newly_requested

Remaining == Len(pcm) - read_point

\* Whether the iteration goes on to read a block.
ReadIf(needed) == place' = IF needed THEN "read" ELSE "orders"

FlushOrFull ==
  /\ WithPlayer /\ (flushing \/ Len(player_packets) > PlayerFull)
  /\ ReadIf(flushing \/ new_buffer_needed)
  /\ UNCHANGED <<orders, seq_no, flags, new_buffer_needed, pcm_buffer, player_packets, time,
                 requests>>

NoLongerNeeded == new_buffer_needed' = FALSE

\* A packet with a sensible lead time goes to the player; any other is dropped.
PutPacket ==
  LET lead == read_rtptime + AudioLine - time
      packet == [rtptime |-> read_rtptime,
                 frames |-> SubSeq(pcm, read_point + 1, read_point + PacketFrames)]
      put == lead >= 0 /\ lead < MaxLead
  IN
  /\ WithPlayer /\ ~flushing /\ Len(player_packets) <= PlayerFull /\ Remaining >= PacketFrames
  /\ NoLongerNeeded /\ ReadIf(FALSE)
  /\ IF play_enabled /\ anchored
     THEN /\ player_packets' = IF put THEN Append(player_packets, packet) ELSE player_packets
          /\ packets_played' = (packets_played \/ put)
          /\ read_rtptime' = read_rtptime + PacketFrames
          /\ read_point' = read_point + PacketFrames
     ELSE UNCHANGED <<player_packets, packets_played, read_rtptime, read_point>>
  /\ UNCHANGED <<orders, seq_no, flags, pcm, time, requests>>

\* What is left is less than a packet: it is moved down and a block is read.
NeedBuffer ==
  /\ WithPlayer /\ ~flushing /\ Len(player_packets) <= PlayerFull /\ Remaining < PacketFrames
  /\ new_buffer_needed' = TRUE /\ ReadIf(TRUE)
  /\ pcm' = SubSeq(pcm, read_point + 1, Len(pcm)) /\ read_point' = 0
  /\ UNCHANGED <<orders, seq_no, flags, read_rtptime, packets_played, player_packets, time,
                 requests>>

Outdated(s) == anchored /\ Timestamp(s) + AudioLine < time
TooSoonAfterConnection(s) ==
  anchored /\ Timestamp(s) + AudioLine < TooSoonTime /\ time < TooSoonTime

RestartAt(s) == Timestamp(s)

\* The frames of a block, cut short by a deferred flush.
Decoded(s, start) ==
  LET left == flush_from_timestamp - start
      n == IF flush_is_delayed /\ left > 0 /\ left < BlockFrames THEN left ELSE BlockFrames
  IN [i \in 1..n |-> Timestamp(s) + i - 1]

\* The next block is read.  It is decoded if it is the one a flush waits for, or if no
\* flush is on and a buffer is needed.
ReadBlock(good) ==
  LET s == seq_no + 1
      soon == TooSoonAfterConnection(s)
      kept == IF flushing \/ Outdated(s) \/ soon THEN <<>> ELSE pcm
      start == IF kept = <<>> THEN RestartAt(s) ELSE read_rtptime
      used == good /\ ~soon /\ IF flushing THEN s = flushUntilSeq ELSE new_buffer_needed
  IN
  /\ place = "read" /\ seq_no < NumBlocks /\ place' = "orders" /\ seq_no' = s
  /\ read_rtptime' = start
  /\ read_point' = IF kept = <<>> THEN 0 ELSE read_point
  /\ pcm' = IF used THEN kept \o Decoded(s, start) ELSE kept
  /\ UNCHANGED <<orders, flags, new_buffer_needed, packets_played, player_packets, time,
                 requests>>

\* The player takes a packet.
TakePacket ==
  /\ player_packets # <<>> /\ player_packets' = Tail(player_packets)
  /\ UNCHANGED <<orders, place, seq_no, flags, new_buffer_needed, pcm_buffer, time,
                 requests>>

AudioTick ==
  /\ time < MaxAudioTime /\ time' = time + 1
  /\ UNCHANGED <<orders, place, seq_no, flags, new_buffer_needed, pcm_buffer, player_packets,
                 requests>>

AudioNext ==
  \/ \E until \in 1..NumBlocks : handle_flushbuffered(FALSE, 0, 0, until)
  \/ \E from, until \in 1..NumBlocks, cut \in 0..BlockFrames - 1 :
       from < until /\ handle_flushbuffered(TRUE, from, Timestamp(from) - cut, until)
  \/ \E rate \in BOOLEAN : handle_setrateanchori(rate)
  \/ StartProcessor \/ TakeOrders \/ ResetPlayer \/ FlushOrFull \/ PutPacket \/ NeedBuffer
  \/ \E good \in {TRUE, ~BadBlocks} : ReadBlock(good)
  \/ TakePacket \/ AudioTick

AudioSpec == AudioInit /\ [][AudioNext]_avars
-----------------------------------------------------------------------------
\* "fatal error! pcm buffer too small": a buffer of a block and a packet always takes the
\* next block, although the need for one is remembered from an earlier iteration
\* (rtp_buffered_audio_processor).
PcmBufferSuffices == Len(pcm) <= BlockFrames + PacketFrames /\ read_point <= Len(pcm)

\* Every packet in the player holds the frames its timestamp says, through leftovers,
\* late blocks, flushes and pauses, as long as no request has replaced a deferred flush
\* that was pending: the block that the deferred one has cut short may then stay, with
\* the next one behind it.
PacketsAreLabelled ==
  ~replaced => \A i \in DOMAIN player_packets : \A k \in 1..PacketFrames :
      player_packets[i].frames[k] = player_packets[i].rtptime + k - 1

\* Once the processor has acted on a flush, no packet of a flushed block is in the
\* player, whatever further requests moved the end of the flush.
FlushedIsNotPlayed ==
  WithPlayer \/ place \in {"read", "orders"} =>
    \A i \in DOMAIN player_packets : BlockOf(player_packets[i].rtptime) >= floor

\* The processor gives the player the audio that was asked for: packets of the frames their
\* timestamps name, from a buffer that never overflows, and nothing that was flushed
\* (rtp_buffered_audio_processor, handle_flushbuffered).
AudioAsAsked == PcmBufferSuffices /\ PacketsAreLabelled /\ FlushedIsNotPlayed
=============================================================================
